---------------------------- MODULE HandlerProofs ----------------------------
(***************************************************************************)
(* Proofs about event handlers and about what they drive.                  *)
(*                                                                         *)
(* First the emitter, which calls the handlers: whatever they register,    *)
(* unregister and dispatch, within a safe discipline, every handler is     *)
(* called once and no freed item is used, for any number of handlers.      *)
(*                                                                         *)
(* Then the input method, which the focus handlers of edits call: the soft *)
(* keyboard follows the focus and the window comes back, for any number of *)
(* edits and keyboards.                                                    *)
(***************************************************************************)
EXTENDS Emitter, InputMethod, SequenceTheorems, WellFoundedInduction, TLAPS

(* The habits that handlers may have together: to unregister themselves    *)
(* and to end the dispatch; to register and unregister others; to register *)
(* and to dispatch.                                                        *)
SafeDisciplines == \A D \in Disciplines : \/ D \subseteq {"remove", "off_self", "stop"}
                                          \/ D \subseteq {"on", "off_other"}
                                          \/ D \subseteq {"on", "nest"}

(* The list goes from the latest item to the first, through all of them.   *)
Sorted == /\ items \in live \cup {NULL}
          /\ \A i \in live : i <= items
          /\ \A i \in live : /\ next[i] \in live \cup {NULL}
                             /\ next[i] < i
                             /\ \A j \in live : j < i => j <= next[i]

Ids == live \cup off \subseteq 1 .. nextId - 1

(* Every dispatch but the innermost is inside a handler, of an item that   *)
(* is there.                                                               *)
Nested == \A k \in 1 .. Len(stack) :
             /\ k < Len(stack) => stack[k].inHandler
             /\ stack[k].iter \in live \/ (stack[k].iter = NULL /\ ~stack[k].inHandler)

(* What a dispatch has yet to call lies ahead of it in the list.           *)
Ahead == \A k \in 1 .. Len(stack) : \A i \in Item :
            i \in stack[k].todo <=>
              /\ i \in live /\ type[i] = stack[k].type
              /\ i < stack[k].iter \/ (i = stack[k].iter /\ ~stack[k].inHandler)

NoExtra == \A k \in 1 .. Len(stack) : ~stack[k].extra

(* Without nesting, curr_iter is the item whose handler runs.              *)
OneDeep == "nest" \notin allowed => /\ Len(stack) <= 1
                                    /\ \A k \in 1 .. Len(stack) :
                                         stack[k].inHandler => curr = stack[k].iter

(* Where handlers unregister themselves, prev_iter is the item before.     *)
Behind == allowed \cap {"on", "off_other", "nest"} = {} =>
             \A k \in 1 .. Len(stack) :
                stack[k].iter \in live => \/ stack[k].iter = items
                                          \/ /\ stack[k].prev \in live
                                             /\ next[stack[k].prev] = stack[k].iter

(* remove_curr_iter is set only in the handler that is to go, unless       *)
(* handlers stop dispatches.                                               *)
Marked == "stop" \notin allowed =>
             /\ stack = << >> => curr = NULL
             /\ removeCurr => /\ allowed \cap {"on", "off_other", "nest"} = {}
                              /\ Len(stack) = 1 /\ stack[1].inHandler
             /\ \A i \in off \cap live : removeCurr /\ curr = i

EmitterInv == /\ EmitterTypeOK /\ NoUseAfterFree /\ Sorted /\ Ids /\ Nested
              /\ NoExtra /\ Ahead /\ OneDeep /\ Behind /\ Marked
-----------------------------------------------------------------------------
LEMMA LeastOf ==
    ASSUME NEW S \in SUBSET Nat, S /= {}
    PROVE  \E m \in S : \A x \in S : m <= x
<1>1. PICK m \in S : \A v \in S : ~(<<v, m>> \in OpToRel(<, Nat))
      BY NatLessThanWellFounded, WFMin
<1>2. ASSUME NEW v \in S PROVE m <= v
  <2>1. v \in Nat /\ m \in Nat
        OBVIOUS
  <2>2. <<v, m>> \in Nat \X Nat /\ <<v, m>>[1] = v /\ <<v, m>>[2] = m
        BY <2>1
  <2>3. v < m => <<v, m>> \in OpToRel(<, Nat)
        BY <2>2, Zenon DEF OpToRel
  <2>4. ~(v < m)
        BY <1>1, <2>3
  <2>5. QED BY <2>1, <2>4
<1>3. QED BY <1>2

LEMMA GreatestOf ==
    ASSUME NEW n \in Nat, NEW S \in SUBSET (0 .. n), S /= {}
    PROVE  \E m \in S : \A x \in S : x <= m
<1> DEFINE T == {n - x : x \in S}
<1>1. T \in SUBSET Nat /\ T /= {}
  <2>1. \A x \in S : n - x \in Nat
        OBVIOUS
  <2>2. PICK x \in S : TRUE
        OBVIOUS
  <2>3. n - x \in T
        OBVIOUS
  <2>4. QED BY <2>1, <2>3
<1>2. \A x \in S : n - x \in T
      OBVIOUS
<1>3. \A t \in T : \E x \in S : t = n - x
      OBVIOUS
<1> HIDE DEF T
<1>4. PICK t \in T : \A v \in T : t <= v
      BY <1>1, LeastOf
<1>5. PICK m \in S : t = n - m
      BY <1>3
<1>6. ASSUME NEW x \in S PROVE x <= m
  <2>1. t <= n - x /\ x \in 0 .. n /\ m \in 0 .. n
        BY <1>2, <1>4
  <2>2. QED BY <1>5, <2>1
<1>7. QED BY <1>6

(* The frames of the calls in progress.                                    *)
LEMMA TopFrame ==
    ASSUME stack \in Seq(Frame), stack /= << >>
    PROVE  /\ Len(stack) \in Nat \ {0} /\ Top \in Frame /\ Len(stack) \in 1 .. Len(stack)
           /\ \A f \in Frame :
                /\ WithTop(f) \in Seq(Frame) /\ Len(WithTop(f)) = Len(stack)
                /\ WithTop(f)[Len(stack)] = f
                /\ \A k \in 1 .. Len(stack) : k /= Len(stack) => WithTop(f)[k] = stack[k]
<1>1. Len(stack) \in Nat \ {0} /\ Top \in Frame /\ Len(stack) \in 1 .. Len(stack)
      BY EmptySeq DEF Top
<1>2. ASSUME NEW f \in Frame
      PROVE  /\ WithTop(f) \in Seq(Frame) /\ Len(WithTop(f)) = Len(stack)
             /\ WithTop(f)[Len(stack)] = f
             /\ \A k \in 1 .. Len(stack) : k /= Len(stack) => WithTop(f)[k] = stack[k]
      BY <1>1, ExceptSeq DEF WithTop
<1>3. QED BY <1>1, <1>2

LEMMA FrontFrame ==
    ASSUME stack \in Seq(Frame), stack /= << >>
    PROVE  /\ Front(stack) \in Seq(Frame) /\ Len(Front(stack)) = Len(stack) - 1
           /\ \A k \in 1 .. Len(stack) - 1 : Front(stack)[k] = stack[k]
<1> DEFINE n == Len(stack) - 1
<1>1. Len(stack) \in Nat \ {0} /\ n \in Nat
      BY EmptySeq
<1>2. n \in Int /\ 1 \in Int /\ \A i \in 1 .. n : stack[i] \in Frame
      BY <1>1
<1> HIDE DEF n
<1>3. /\ SubSeq(stack, 1, n) \in Seq(Frame)
      /\ Len(SubSeq(stack, 1, n)) = IF 1 <= n THEN n - 1 + 1 ELSE 0
      /\ \A i \in 1 .. n - 1 + 1 : SubSeq(stack, 1, n)[i] = stack[1 + i - 1]
      BY <1>2, SubSeqProperties
<1>4. Front(stack) = SubSeq(stack, 1, n)
      BY DEF Front, n
<1>5. Len(SubSeq(stack, 1, n)) = n /\ \A i \in 1 .. n : SubSeq(stack, 1, n)[i] = stack[i]
      BY <1>1, <1>3
<1>6. QED BY <1>3, <1>4, <1>5 DEF n

LEMMA ForgetFrame ==
    ASSUME NEW s \in Seq(Frame), NEW i
    PROVE  /\ Forget(s, i) \in Seq(Frame) /\ Len(Forget(s, i)) = Len(s)
           /\ \A k \in 1 .. Len(s) :
                /\ Forget(s, i)[k].iter = s[k].iter /\ Forget(s, i)[k].prev = s[k].prev
                /\ Forget(s, i)[k].type = s[k].type /\ Forget(s, i)[k].extra = s[k].extra
                /\ Forget(s, i)[k].inHandler = s[k].inHandler
                /\ Forget(s, i)[k].todo = s[k].todo \ {i}
<1> DEFINE g == Forget(s, i)
<1>1. g = [k \in 1 .. Len(s) |-> [s[k] EXCEPT !.todo = @ \ {i}]]
      BY DEF Forget
<1>2. \A k \in 1 .. Len(s) : s[k] \in Frame
      OBVIOUS
<1>3. ASSUME NEW f \in Frame
      PROVE  /\ [f EXCEPT !.todo = @ \ {i}] \in Frame
             /\ [f EXCEPT !.todo = @ \ {i}].iter = f.iter
             /\ [f EXCEPT !.todo = @ \ {i}].prev = f.prev
             /\ [f EXCEPT !.todo = @ \ {i}].type = f.type
             /\ [f EXCEPT !.todo = @ \ {i}].extra = f.extra
             /\ [f EXCEPT !.todo = @ \ {i}].inHandler = f.inHandler
             /\ [f EXCEPT !.todo = @ \ {i}].todo = f.todo \ {i}
      BY DEF Frame
<1> HIDE DEF g
<1>4. \A k \in 1 .. Len(s) : g[k] = [s[k] EXCEPT !.todo = @ \ {i}] /\ g[k] \in Frame
      BY <1>1, <1>2, <1>3
<1>5. Len(s) \in Nat /\ g \in [1 .. Len(s) -> Frame]
      BY <1>1, <1>4
<1>6. g \in Seq(Frame) /\ Len(g) = Len(s)
      BY <1>5
<1>7. QED BY <1>2, <1>3, <1>4, <1>6 DEF g
-----------------------------------------------------------------------------
(* What the habits of a discipline exclude.                                *)
SelfOnly == allowed \cap {"on", "off_other", "nest"} = {}

LEMMA Habits ==
    ASSUME SafeDisciplines, EmitterTypeOK
    PROVE  /\ "remove" \in allowed \/ "off_self" \in allowed \/ "stop" \in allowed => SelfOnly
           /\ "off_other" \in allowed => "nest" \notin allowed /\ "stop" \notin allowed
           /\ "on" \in allowed => "stop" \notin allowed
           /\ "nest" \in allowed => "stop" \notin allowed
<1>1. \/ allowed \subseteq {"remove", "off_self", "stop"} \/ allowed \subseteq {"on", "off_other"}
      \/ allowed \subseteq {"on", "nest"}
      BY DEF SafeDisciplines, EmitterTypeOK
<1>2. QED BY <1>1 DEF SelfOnly

(* Every item but the first has one before it.                             *)
LEMMA HasPrev ==
    ASSUME EmitterTypeOK, Sorted, NEW i \in live, i /= items
    PROVE  \E p \in live : next[p] = i
<1> DEFINE U == {j \in live : j > i}
<1>1. live \subseteq Item /\ MaxItem \in Nat /\ live \subseteq Nat
      BY EmitterAssumption DEF EmitterTypeOK, Item
<1>2. items \in U
      BY <1>1 DEF Sorted, NULL
<1>3. U \in SUBSET Nat /\ U /= {}
      BY <1>1, <1>2
<1>4. PICK j \in U : \A x \in U : j <= x
      BY <1>3, LeastOf
<1>5. j \in live /\ i < j /\ i \in Nat /\ j \in Nat
      BY <1>1
<1>6. next[j] \in live \cup {NULL} /\ next[j] < j /\ i <= next[j]
      BY <1>5 DEF Sorted
<1>7. i /= 0
      BY <1>1 DEF Item
<1>8. next[j] \in live
      BY <1>5, <1>6, <1>7 DEF NULL
<1>9. PICK m \in live : m = next[j] /\ m \in Nat
      BY <1>1, <1>8
<1>10. next[j] = i
  <2>1. m < j /\ i <= m
        BY <1>6, <1>9
  <2>2. m > i => j <= m
        BY <1>4
  <2>3. QED BY <1>5, <1>9, <2>1, <2>2
<1>11. QED BY <1>5, <1>10

(* The list holds the items that are allocated.                            *)
LEMMA ListedIsLive ==
    ASSUME EmitterTypeOK, Sorted
    PROVE  Listed = live
<1>1. live \subseteq Item /\ live \subseteq Nat /\ NULL \notin live /\ MaxItem \in Nat
      BY EmitterAssumption DEF EmitterTypeOK, Item, NULL
<1>2. Closed(live)
      BY DEF Closed, Sorted
<1>3. Listed \subseteq live
      BY <1>1, <1>2 DEF Listed
<1>4. ASSUME NEW S \in SUBSET Item, Closed(S) PROVE live \subseteq S
  <2> SUFFICES ASSUME live \ S /= {} PROVE FALSE
      OBVIOUS
  <2> DEFINE T == live \ S
  <2>1. T \in SUBSET (0 .. MaxItem) /\ T /= {}
        BY <1>1 DEF Item
  <2>2. PICK i \in T : \A x \in T : x <= i
        BY <1>1, <2>1, GreatestOf
  <2>3. i /= items
        BY <1>1, <1>4, <2>2 DEF Closed
  <2>4. PICK p \in live : next[p] = i
        BY <2>3, HasPrev
  <2>5. p > i
        BY <1>1, <2>4 DEF Sorted
  <2>6. p \in S
        BY <1>1, <2>2, <2>5
  <2>7. QED BY <1>1, <1>4, <2>4, <2>6 DEF Closed
<1>5. live \subseteq Listed
      BY <1>1, <1>4 DEF Listed
<1>6. QED BY <1>3, <1>5

LEMMA PrevIs ==
    ASSUME EmitterTypeOK, Sorted, NEW i \in live, i /= items
    PROVE  PrevOf(i) \in live /\ next[PrevOf(i)] = i
<1>1. Listed \cap live = live
      BY ListedIsLive
<1>2. \E p \in live : next[p] = i
      BY HasPrev
<1>3. QED BY <1>1, <1>2 DEF PrevOf

(* emitter_remove keeps the list whole if it is given the item before.     *)
LEMMA UnlinkKeeps ==
    ASSUME EmitterTypeOK, Sorted, ~fault, NEW i \in live, NEW p,
           i /= items => p \in live /\ next[p] = i,
           Unlink(p, i)
    PROVE  /\ Sorted' /\ live' = live \ {i} /\ fault' = FALSE
           /\ items' \in Item \cup {NULL} /\ next' \in [Item -> Item \cup {NULL}]
           /\ UNCHANGED <<type, nextId>>
           /\ i = items => items' = next[i] /\ next' = next
           /\ i /= items => items' = items /\ next'[p] = next[i] /\ p /= i
<1>1. /\ live \subseteq Item /\ live \subseteq Nat /\ NULL \notin live /\ NULL = 0
      /\ next \in [Item -> Item \cup {NULL}] /\ items \in Item \cup {NULL}
      BY EmitterAssumption DEF EmitterTypeOK, Item, NULL
<1>2. /\ items \in live \cup {NULL}
      /\ \A j \in live : j <= items
      /\ \A j \in live : /\ next[j] \in live \cup {NULL}
                         /\ next[j] < j
                         /\ \A k \in live : k < j => k <= next[j]
      BY DEF Sorted
<1>3. live' = live \ {i} /\ UNCHANGED <<type, nextId>>
      BY DEF Unlink
<1>4. CASE i = items
  <2>1. items' = next[i] /\ next' = next /\ fault' = fault
        BY <1>4 DEF Unlink
  <2>2. items' \in live' \cup {NULL} /\ \A j \in live' : j <= items'
        BY <1>1, <1>2, <1>3, <1>4, <2>1
  <2>3. \A j \in live' : next[j] /= i
        BY <1>1, <1>2, <1>3, <1>4
  <2>4. \A j \in live' : /\ next'[j] \in live' \cup {NULL}
                         /\ next'[j] < j
                         /\ \A k \in live' : k < j => k <= next'[j]
        BY <1>2, <1>3, <2>1, <2>3
  <2>5. Sorted'
        BY <2>2, <2>4 DEF Sorted
  <2>6. QED BY <1>1, <1>3, <1>4, <2>1, <2>5
<1>5. CASE i /= items
  <2>1. /\ items' = items /\ next' = [next EXCEPT ![p] = next[i]] /\ fault' = FALSE
        /\ p \in live /\ next[p] = i
        BY <1>5 DEF Unlink
  <2>2. p /= i /\ next'[p] = next[i] /\ \A j \in live : j /= p => next'[j] = next[j]
        BY <1>1, <1>2, <2>1
  <2>3. next' \in [Item -> Item \cup {NULL}]
        BY <1>1, <2>1
  <2>4. items' \in live' \cup {NULL} /\ \A j \in live' : j <= items'
        BY <1>2, <1>3, <1>5, <2>1
  <2>5. ASSUME NEW j \in live'
        PROVE  /\ next'[j] \in live' \cup {NULL}
               /\ next'[j] < j
               /\ \A k \in live' : k < j => k <= next'[j]
    <3>1. CASE j = p
      <4>1. i < p /\ next[i] < i /\ next[i] \in live \cup {NULL}
            BY <1>2, <2>1
      <4>2. next'[j] \in live' \cup {NULL} /\ next'[j] < j
        <5>1. PICK m \in live \cup {NULL} : m = next[i]
              BY <4>1
        <5>2. m \in Nat /\ i \in Nat /\ p \in Nat
              BY <1>1, <2>1
        <5>3. m < p /\ m /= i
              BY <4>1, <5>1, <5>2
        <5>4. QED BY <1>3, <2>2, <3>1, <5>1, <5>3
      <4>3. ASSUME NEW k \in live', k < j PROVE k <= next'[j]
        <5>1. k \in live /\ k /= i /\ k <= i
              BY <1>2, <1>3, <2>1, <3>1, <4>3
        <5>2. k < i
              BY <1>1, <5>1
        <5>3. QED BY <1>2, <2>2, <3>1, <5>1, <5>2
      <4>4. QED BY <4>2, <4>3
    <3>2. CASE j /= p
      <4>1. j \in live /\ next'[j] = next[j]
            BY <1>3, <2>2, <3>2
      <4>2. next[j] /= i
        <5>1. j < p => j <= i
              BY <1>2, <2>1, <4>1
        <5>2. p < j => p <= next[j]
              BY <1>2, <2>1, <4>1
        <5>3. i < p /\ next[j] < j
              BY <1>2, <2>1, <4>1
        <5>4. j \in Nat /\ p \in Nat /\ i \in Nat
              BY <1>1, <2>1, <4>1
        <5>5. QED BY <3>2, <5>1, <5>2, <5>3, <5>4
      <4>3. QED BY <1>2, <1>3, <4>1, <4>2
    <3>3. QED BY <3>1, <3>2
  <2>6. Sorted'
        BY <2>4, <2>5 DEF Sorted
  <2>7. QED BY <1>3, <1>5, <2>1, <2>2, <2>3, <2>6, <1>1
<1>6. QED BY <1>4, <1>5
-----------------------------------------------------------------------------
LEMMA OnStep ==
    ASSUME EmitterInv, NEW t \in Type, On(t)
    PROVE  EmitterInv'
<1>0. EmitterTypeOK /\ NoUseAfterFree /\ Sorted /\ Ids /\ Nested /\ NoExtra /\ Ahead
      /\ OneDeep /\ Behind /\ Marked
      BY DEF EmitterInv
<1>1. /\ nextId \in Item /\ nextId \in Nat
      /\ live \subseteq Item /\ live \subseteq Nat /\ NULL \notin live /\ NULL = 0
      /\ items \in Item \cup {NULL} /\ items \in Nat
      BY <1>0, EmitterAssumption DEF EmitterTypeOK, Item, NULL, On
<1>2. nextId \notin live /\ nextId \notin off /\ \A i \in live : i < nextId
      BY <1>0, <1>1 DEF Ids
<1>3. /\ next' = [next EXCEPT ![nextId] = items] /\ type' = [type EXCEPT ![nextId] = t]
      /\ items' = nextId /\ live' = live \cup {nextId} /\ nextId' = nextId + 1
      /\ UNCHANGED <<curr, removeCurr, enable, allowed, stack, off, fault>>
      BY DEF On, settings
<1>4. /\ next'[nextId] = items /\ \A i \in live : next'[i] = next[i]
      /\ \A i \in live : type'[i] = type[i]
      BY <1>0, <1>1, <1>2, <1>3 DEF EmitterTypeOK
<1>5. EmitterTypeOK' /\ Ids'
  <2>1. nextId + 1 \in 1 .. MaxItem + 1
        BY <1>1, EmitterAssumption DEF Item
  <2>2. live' \subseteq 1 .. nextId' - 1 /\ off' \subseteq 1 .. nextId' - 1
    <3>1. nextId' - 1 = nextId /\ 1 .. nextId - 1 \subseteq 1 .. nextId /\ nextId \in 1 .. nextId
          BY <1>1, <1>3 DEF Item
    <3>2. QED BY <1>0, <1>3, <3>1 DEF Ids
  <2>3. next' \in [Item -> Item \cup {NULL}] /\ type' \in [Item -> Type]
        BY <1>0, <1>1, <1>3 DEF EmitterTypeOK
  <2>4. QED BY <1>0, <1>1, <1>3, <2>1, <2>2, <2>3 DEF EmitterTypeOK, Ids
<1>6. Sorted'
  <2>1. \A i \in live' : i <= items'
        BY <1>1, <1>2, <1>3
  <2>2. ASSUME NEW i \in live'
        PROVE  /\ next'[i] \in live' \cup {NULL} /\ next'[i] < i
               /\ \A j \in live' : j < i => j <= next'[i]
    <3>1. CASE i = nextId
      <4>1. items \in live \cup {NULL} /\ \A j \in live : j <= items
            BY <1>0 DEF Sorted
      <4>2. items < nextId
            BY <1>1, <1>2, <4>1 DEF Item
      <4>3. \A j \in live' : j < i => j \in live
            BY <1>1, <1>3, <3>1
      <4>4. QED BY <1>3, <1>4, <3>1, <4>1, <4>2, <4>3
    <3>2. CASE i \in live
          BY <1>0, <1>1, <1>2, <1>3, <1>4, <3>2 DEF Sorted
    <3>3. QED BY <1>3, <3>1, <3>2
  <2>3. QED BY <1>3, <2>1, <2>2 DEF Sorted
<1>7. Nested' /\ NoExtra' /\ NoUseAfterFree'
      BY <1>0, <1>3 DEF Nested, NoExtra, NoUseAfterFree
<1>8. Ahead'
  <2> SUFFICES ASSUME NEW k \in 1 .. Len(stack'), NEW i \in Item
               PROVE  i \in stack'[k].todo <=>
                        /\ i \in live' /\ type'[i] = stack'[k].type
                        /\ i < stack'[k].iter \/ (i = stack'[k].iter /\ ~stack'[k].inHandler)
      BY DEF Ahead
  <2>1. /\ k \in 1 .. Len(stack)
        /\ i \in stack[k].todo <=>
             /\ i \in live /\ type[i] = stack[k].type
             /\ i < stack[k].iter \/ (i = stack[k].iter /\ ~stack[k].inHandler)
        BY <1>0, <1>3 DEF Ahead
  <2>2. PICK m \in live \cup {NULL} : m = stack[k].iter
        BY <1>0, <2>1 DEF Nested
  <2>3. CASE i = nextId
    <3>1. m \in Nat /\ m < nextId
          BY <1>1, <1>2 DEF Item
    <3>2. ~(i < stack[k].iter) /\ i /= stack[k].iter
          BY <1>1, <2>2, <2>3, <3>1
    <3>3. QED BY <1>2, <1>3, <2>1, <2>3, <3>2
  <2>4. CASE i /= nextId
        BY <1>3, <1>4, <2>1, <2>4
  <2>5. QED BY <2>3, <2>4
<1>9. OneDeep'
      BY <1>0, <1>3 DEF OneDeep
<1>10. Behind'
  <2>1. CASE stack = << >>
        BY <1>3, <2>1 DEF Behind
  <2>2. CASE "on" \in allowed
        BY <1>3, <2>2 DEF Behind
  <2>3. QED BY <2>1, <2>2 DEF On, May
<1>11. Marked'
      BY <1>0, <1>2, <1>3 DEF Marked
<1>12. QED BY <1>5, <1>6, <1>7, <1>8, <1>9, <1>10, <1>11 DEF EmitterInv

LEMMA SetEnableStep ==
    ASSUME EmitterInv, NEW b \in BOOLEAN, SetEnable(b) \/ UNCHANGED emitterVars
    PROVE  EmitterInv'
<1>1. /\ UNCHANGED <<items, next, type, nextId, live, curr, removeCurr, stack, off, allowed, fault>>
      /\ enable' = enable \/ enable' = b
      BY DEF SetEnable, emitterVars, listVars, settings
<1>2. EmitterTypeOK'
      BY <1>1 DEF EmitterInv, EmitterTypeOK
<1>3. Sorted' /\ Ids' /\ Nested' /\ NoExtra' /\ OneDeep' /\ Behind' /\ Marked' /\ NoUseAfterFree'
      BY <1>1 DEF EmitterInv, Sorted, Ids, Nested, NoExtra, OneDeep, Behind, Marked, NoUseAfterFree
<1>4. Ahead'
      BY <1>1 DEF EmitterInv, Ahead
<1>5. QED BY <1>2, <1>3, <1>4 DEF EmitterInv

LEMMA DeinitStep ==
    ASSUME EmitterInv, Deinit
    PROVE  EmitterInv'
<1>0. EmitterTypeOK /\ NoUseAfterFree /\ Sorted /\ Ids /\ Nested /\ NoExtra /\ Ahead
      /\ OneDeep /\ Behind /\ Marked
      BY DEF EmitterInv
<1>1. Listed = live
      BY <1>0, ListedIsLive
<1>2. /\ items' = NULL /\ live' = {} /\ fault' = FALSE /\ stack = << >>
      /\ UNCHANGED <<next, type, nextId, curr, removeCurr, enable, allowed, stack, off>>
      BY <1>1 DEF Deinit, settings
<1>3. EmitterTypeOK' /\ Ids' /\ NoUseAfterFree' /\ Sorted'
      BY <1>0, <1>2 DEF EmitterTypeOK, Ids, NoUseAfterFree, Sorted
<1>4. Nested' /\ NoExtra' /\ Ahead' /\ OneDeep' /\ Behind'
      BY <1>0, <1>2 DEF Nested, NoExtra, Ahead, OneDeep, Behind
<1>5. Marked'
      BY <1>0, <1>2 DEF Marked
<1>6. QED BY <1>3, <1>4, <1>5 DEF EmitterInv

LEMMA NothingStep ==
    ASSUME SafeDisciplines, EmitterInv, DispatchNothing
    PROVE  EmitterInv'
<1>0. EmitterTypeOK /\ NoUseAfterFree /\ Sorted /\ Ids /\ Nested /\ NoExtra /\ Ahead
      /\ OneDeep /\ Behind /\ Marked
      BY DEF EmitterInv
<1>1. /\ curr' = NULL /\ removeCurr' = FALSE
      /\ UNCHANGED <<items, next, type, nextId, live, enable, allowed, stack, off, fault>>
      /\ stack = << >> \/ "nest" \in allowed
      BY DEF DispatchNothing, May, listVars, settings
<1>2. EmitterTypeOK' /\ Ids' /\ NoUseAfterFree' /\ Sorted'
      BY <1>0, <1>1 DEF EmitterTypeOK, Ids, NoUseAfterFree, Sorted
<1>3. Nested' /\ NoExtra' /\ Behind'
      BY <1>0, <1>1 DEF Nested, NoExtra, Behind
<1>4. Ahead'
      BY <1>0, <1>1 DEF Ahead
<1>5. OneDeep'
      BY <1>0, <1>1 DEF OneDeep
<1>6. Marked'
  <2>1. "stop" \notin allowed => ~removeCurr
        BY <1>0, <1>1 DEF Marked
  <2>2. QED BY <1>0, <1>1, <2>1 DEF Marked
<1>7. QED BY <1>2, <1>3, <1>4, <1>5, <1>6 DEF EmitterInv

LEMMA BeginStep ==
    ASSUME SafeDisciplines, EmitterInv, NEW t \in Type, BeginDispatch(t)
    PROVE  EmitterInv'
<1>0. EmitterTypeOK /\ NoUseAfterFree /\ Sorted /\ Ids /\ Nested /\ NoExtra /\ Ahead
      /\ OneDeep /\ Behind /\ Marked
      BY DEF EmitterInv
<1> DEFINE f == [iter |-> items, prev |-> items, type |-> t, inHandler |-> FALSE,
                 todo |-> {i \in Listed : type[i] = t}, extra |-> FALSE]
<1>1. /\ stack' = Append(stack, f) /\ Len(stack) < MaxDepth /\ items /= NULL
      /\ UNCHANGED <<items, next, type, nextId, live, curr, removeCurr, enable>>
      /\ UNCHANGED <<allowed, off, fault>>
      /\ stack = << >> \/ "nest" \in allowed
      /\ \A k \in 1 .. Len(stack) : stack[k].inHandler
      BY DEF BeginDispatch, May, InUserCode, listVars, settings
<1>2. Listed = live /\ live \subseteq Item /\ live \subseteq Nat
      BY <1>0, ListedIsLive, EmitterAssumption DEF EmitterTypeOK, Item
<1>3. /\ f \in Frame /\ f.iter = items /\ f.type = t /\ f.inHandler = FALSE /\ f.extra = FALSE
      /\ f.todo = {i \in live : type[i] = t}
      BY <1>0, <1>2 DEF Frame, EmitterTypeOK
<1> HIDE DEF f
<1>4. /\ stack' \in Seq(Frame) /\ Len(stack) \in Nat /\ Len(stack') = Len(stack) + 1
      /\ stack'[Len(stack) + 1] = f /\ \A k \in 1 .. Len(stack) : stack'[k] = stack[k]
      BY <1>0, <1>1, <1>3, AppendProperties DEF EmitterTypeOK
<1>5. \A k \in 1 .. Len(stack') : k \in 1 .. Len(stack) \/ k = Len(stack) + 1
      BY <1>4
<1>6. EmitterTypeOK' /\ Ids' /\ NoUseAfterFree' /\ Sorted'
  <2>1. Len(stack') <= MaxDepth
        BY <1>1, <1>4, EmitterAssumption
  <2>2. QED BY <1>0, <1>1, <1>4, <2>1 DEF EmitterTypeOK, Ids, NoUseAfterFree, Sorted
<1>7. items \in live /\ \A i \in live : i <= items
      BY <1>0, <1>1 DEF Sorted
<1>8. Nested' /\ NoExtra'
  <2> SUFFICES ASSUME NEW k \in 1 .. Len(stack')
               PROVE  /\ ~stack'[k].extra
                      /\ k < Len(stack') => stack'[k].inHandler
                      /\ stack'[k].iter \in live \/ (stack'[k].iter = NULL /\ ~stack'[k].inHandler)
      BY <1>1 DEF Nested, NoExtra
  <2>1. CASE k \in 1 .. Len(stack)
        BY <1>0, <1>1, <1>4, <2>1 DEF Nested, NoExtra
  <2>2. CASE k = Len(stack) + 1
        BY <1>3, <1>4, <1>7, <2>2
  <2>3. QED BY <1>5, <2>1, <2>2
<1>9. Ahead'
  <2> SUFFICES ASSUME NEW k \in 1 .. Len(stack'), NEW i \in Item
               PROVE  i \in stack'[k].todo <=>
                        /\ i \in live' /\ type'[i] = stack'[k].type
                        /\ i < stack'[k].iter \/ (i = stack'[k].iter /\ ~stack'[k].inHandler)
      BY DEF Ahead
  <2>1. CASE k \in 1 .. Len(stack)
        BY <1>0, <1>1, <1>4, <2>1 DEF Ahead
  <2>2. CASE k = Len(stack) + 1
    <3>1. i \in live => i < items \/ i = items
          BY <1>2, <1>7
    <3>2. QED BY <1>1, <1>3, <1>4, <2>2, <3>1
  <2>3. QED BY <1>5, <2>1, <2>2
<1>10. OneDeep'
  <2>1. CASE stack = << >>
    <3>1. Len(stack') = 1 /\ stack'[1] = f /\ \A k \in 1 .. Len(stack') : k = 1
          BY <1>4, <2>1
    <3>2. QED BY <1>3, <3>1 DEF OneDeep
  <2>2. CASE "nest" \in allowed
        BY <1>1, <2>2 DEF OneDeep
  <2>3. QED BY <1>1, <2>1, <2>2
<1>11. Behind'
  <2>1. CASE stack = << >>
    <3>1. \A k \in 1 .. Len(stack') : stack'[k] = f
          BY <1>4, <2>1
    <3>2. QED BY <1>1, <1>3, <3>1 DEF Behind
  <2>2. CASE "nest" \in allowed
        BY <1>1, <2>2 DEF Behind
  <2>3. QED BY <1>1, <2>1, <2>2
<1>12. Marked'
  <2>1. "stop" \notin allowed => ~removeCurr
        BY <1>0, <1>1 DEF Marked
  <2>2. stack' /= << >>
        BY <1>4
  <2>3. QED BY <1>0, <1>1, <2>1, <2>2 DEF Marked
<1>13. QED BY <1>6, <1>8, <1>9, <1>10, <1>11, <1>12 DEF EmitterInv
-----------------------------------------------------------------------------
(* The innermost dispatch goes on while the list stays as it is.           *)
LEMMA TopMoves ==
    ASSUME EmitterInv, stack /= << >>, NEW f \in Frame, stack' = WithTop(f),
           UNCHANGED <<items, next, type, nextId, live, removeCurr, enable, allowed, off, fault>>,
           curr' \in Item \cup {NULL}, "stop" \notin allowed => ~removeCurr,
           f.iter \in live \/ (f.iter = NULL /\ ~f.inHandler), ~f.extra,
           \A i \in Item : i \in f.todo <=> /\ i \in live /\ type[i] = f.type
                                            /\ i < f.iter \/ (i = f.iter /\ ~f.inHandler),
           "nest" \notin allowed /\ f.inHandler => curr' = f.iter,
           SelfOnly /\ f.iter \in live => \/ f.iter = items
                                          \/ f.prev \in live /\ next[f.prev] = f.iter
    PROVE  EmitterInv'
<1>0. EmitterTypeOK /\ NoUseAfterFree /\ Sorted /\ Ids /\ Nested /\ NoExtra /\ Ahead
      /\ OneDeep /\ Behind /\ Marked
      BY DEF EmitterInv
<1>1. /\ Len(stack) \in Nat \ {0} /\ stack' \in Seq(Frame) /\ Len(stack') = Len(stack)
      /\ stack'[Len(stack)] = f
      /\ \A k \in 1 .. Len(stack) : k /= Len(stack) => stack'[k] = stack[k]
      BY <1>0, TopFrame DEF EmitterTypeOK
<1>2. EmitterTypeOK' /\ Ids' /\ NoUseAfterFree' /\ Sorted'
      BY <1>0, <1>1 DEF EmitterTypeOK, Ids, NoUseAfterFree, Sorted
<1>3. Nested' /\ NoExtra'
  <2> SUFFICES ASSUME NEW k \in 1 .. Len(stack')
               PROVE  /\ ~stack'[k].extra
                      /\ k < Len(stack') => stack'[k].inHandler
                      /\ stack'[k].iter \in live \/ (stack'[k].iter = NULL /\ ~stack'[k].inHandler)
      BY DEF Nested, NoExtra
  <2>1. CASE k = Len(stack)
        BY <1>1, <2>1
  <2>2. CASE k /= Len(stack)
        BY <1>0, <1>1, <2>2 DEF Nested, NoExtra
  <2>3. QED BY <2>1, <2>2
<1>4. Ahead'
  <2> SUFFICES ASSUME NEW k \in 1 .. Len(stack'), NEW i \in Item
               PROVE  i \in stack'[k].todo <=>
                        /\ i \in live' /\ type'[i] = stack'[k].type
                        /\ i < stack'[k].iter \/ (i = stack'[k].iter /\ ~stack'[k].inHandler)
      BY DEF Ahead
  <2>1. CASE k = Len(stack)
        BY <1>1, <2>1
  <2>2. CASE k /= Len(stack)
        BY <1>0, <1>1, <2>2 DEF Ahead
  <2>3. QED BY <2>1, <2>2
<1>5. OneDeep'
  <2> SUFFICES ASSUME "nest" \notin allowed
               PROVE  /\ Len(stack') <= 1
                      /\ \A k \in 1 .. Len(stack') : stack'[k].inHandler => curr' = stack'[k].iter
      BY DEF OneDeep
  <2>1. Len(stack) = 1
        BY <1>0, <1>1 DEF OneDeep
  <2>2. QED BY <1>1, <2>1
<1>6. Behind'
  <2> SUFFICES ASSUME SelfOnly, NEW k \in 1 .. Len(stack'), stack'[k].iter \in live
               PROVE  \/ stack'[k].iter = items
                      \/ stack'[k].prev \in live /\ next[stack'[k].prev] = stack'[k].iter
      BY DEF Behind, SelfOnly
  <2>1. CASE k = Len(stack)
        BY <1>1, <2>1
  <2>2. CASE k /= Len(stack)
        BY <1>0, <1>1, <2>2 DEF Behind, SelfOnly
  <2>3. QED BY <2>1, <2>2
<1>7. Marked'
  <2>1. stack' /= << >>
        BY <1>1
  <2>2. QED BY <1>0, <2>1 DEF Marked
<1>8. QED BY <1>2, <1>3, <1>4, <1>5, <1>6, <1>7 DEF EmitterInv

(* The items ahead of one start with its successor.                        *)
LEMMA NextIsAhead ==
    ASSUME EmitterTypeOK, Sorted, NEW i \in live
    PROVE  /\ next[i] \in live \cup {NULL} /\ next[i] \in Item \cup {NULL}
           /\ \A j \in live : j < i <=> (j < next[i] \/ j = next[i])
<1>1. live \subseteq Nat /\ live \subseteq Item /\ NULL = 0
      BY EmitterAssumption DEF EmitterTypeOK, Item, NULL
<1>2. next[i] \in live \cup {NULL} /\ next[i] < i /\ \A j \in live : j < i => j <= next[i]
      BY DEF Sorted
<1>3. PICK m \in live \cup {NULL} : m = next[i]
      BY <1>2
<1>4. m \in Nat /\ i \in Nat
      BY <1>1
<1>5. ASSUME NEW j \in live PROVE j < i <=> (j < m \/ j = m)
  <2>1. j \in Nat /\ (j < i => j <= m) /\ m < i
        BY <1>1, <1>2, <1>3
  <2>2. QED BY <1>4, <2>1
<1>6. QED BY <1>1, <1>2, <1>3, <1>5

(* What the innermost dispatch is like.                                    *)
LEMMA TopIs ==
    ASSUME EmitterInv, stack /= << >>
    PROVE  /\ Top \in Frame /\ Len(stack) \in 1 .. Len(stack) /\ Len(stack) \in Nat \ {0}
           /\ Top.iter \in live \/ (Top.iter = NULL /\ ~Top.inHandler)
           /\ ~Top.extra
           /\ \A i \in Item : i \in Top.todo <=>
                                /\ i \in live /\ type[i] = Top.type
                                /\ i < Top.iter \/ (i = Top.iter /\ ~Top.inHandler)
           /\ "nest" \notin allowed => Len(stack) = 1 /\ (Top.inHandler => curr = Top.iter)
           /\ SelfOnly /\ Top.iter \in live => \/ Top.iter = items
                                               \/ Top.prev \in live /\ next[Top.prev] = Top.iter
           /\ "stop" \notin allowed /\ ~Top.inHandler => ~removeCurr
<1>0. EmitterTypeOK /\ Nested /\ NoExtra /\ Ahead /\ OneDeep /\ Behind /\ Marked
      BY DEF EmitterInv
<1>1. Top \in Frame /\ Len(stack) \in 1 .. Len(stack) /\ Len(stack) \in Nat \ {0}
      BY <1>0, TopFrame DEF EmitterTypeOK
<1>2. Top.iter \in live \/ (Top.iter = NULL /\ ~Top.inHandler)
      BY <1>0, <1>1 DEF Nested, Top
<1>3. ~Top.extra
      BY <1>0, <1>1 DEF NoExtra, Top
<1>4. \A i \in Item : i \in Top.todo <=> /\ i \in live /\ type[i] = Top.type
                                         /\ i < Top.iter \/ (i = Top.iter /\ ~Top.inHandler)
      BY <1>0, <1>1 DEF Ahead, Top
<1>5. "nest" \notin allowed => Len(stack) = 1 /\ (Top.inHandler => curr = Top.iter)
      BY <1>0, <1>1 DEF OneDeep, Top
<1>6. SelfOnly /\ Top.iter \in live => \/ Top.iter = items
                                       \/ Top.prev \in live /\ next[Top.prev] = Top.iter
      BY <1>0, <1>1 DEF Behind, SelfOnly, Top
<1>7. "stop" \notin allowed /\ ~Top.inHandler => ~removeCurr
      BY <1>0 DEF Marked, Top
<1>8. QED BY <1>1, <1>2, <1>3, <1>4, <1>5, <1>6, <1>7

LEMMA VisitStep ==
    ASSUME EmitterInv, Visit
    PROVE  EmitterInv'
<1>0. EmitterTypeOK /\ Sorted
      BY DEF EmitterInv
<1>1. stack /= << >> /\ ~Top.inHandler /\ Top.iter /= NULL
      BY DEF Visit, InLoop
<1>2. PICK e \in Frame : e = Top
      BY <1>1, TopIs
<1>3. /\ e.iter \in live /\ ~e.inHandler /\ ~e.extra
      /\ \A i \in Item : i \in e.todo <=> /\ i \in live /\ type[i] = e.type
                                          /\ i < e.iter \/ i = e.iter
      /\ SelfOnly => \/ e.iter = items
                     \/ e.prev \in live /\ next[e.prev] = e.iter
      /\ "stop" \notin allowed => ~removeCurr
      BY <1>1, <1>2, TopIs
<1>4. /\ UNCHANGED <<items, next, type, nextId, live, removeCurr, enable, allowed, off, fault>>
      /\ curr' = e.iter
      /\ stack' = WithTop(IF type[e.iter] = e.type
                          THEN [e EXCEPT !.inHandler = TRUE, !.todo = @ \ {e.iter},
                                         !.extra = @ \/ e.iter \notin e.todo]
                          ELSE [e EXCEPT !.prev = e.iter, !.iter = next[e.iter]])
      BY <1>2, <1>3 DEF Visit, listVars, settings
<1>5. live \subseteq Item /\ live \subseteq Nat
      BY <1>0, EmitterAssumption DEF EmitterTypeOK, Item
<1>6. CASE type[e.iter] = e.type
  <2>1. PICK f : f = [e EXCEPT !.inHandler = TRUE, !.todo = @ \ {e.iter},
                               !.extra = @ \/ e.iter \notin e.todo]
        OBVIOUS
  <2>2. e.iter \in e.todo
        BY <1>3, <1>5, <1>6
  <2>3. /\ f \in Frame /\ f.iter = e.iter /\ f.prev = e.prev /\ f.type = e.type
        /\ f.inHandler = TRUE /\ f.todo = e.todo \ {e.iter} /\ f.extra = FALSE
        BY <1>3, <2>1, <2>2 DEF Frame
  <2>4. \A i \in Item : i \in f.todo <=> /\ i \in live /\ type[i] = f.type
                                         /\ i < f.iter \/ (i = f.iter /\ ~f.inHandler)
    <3>1. PICK n \in Nat : n = e.iter
          BY <1>3, <1>5
    <3>2. ~(n < n)
          OBVIOUS
    <3>3. QED BY <1>3, <2>3, <3>1, <3>2
  <2>5. stack' = WithTop(f)
        BY <1>4, <1>6, <2>1
  <2>6. QED BY <1>1, <1>3, <1>4, <1>5, <2>3, <2>4, <2>5, TopMoves
<1>7. CASE type[e.iter] /= e.type
  <2>1. PICK f : f = [e EXCEPT !.prev = e.iter, !.iter = next[e.iter]]
        OBVIOUS
  <2>2. /\ next[e.iter] \in live \cup {NULL} /\ next[e.iter] \in Item \cup {NULL}
        /\ \A j \in live : j < e.iter <=> (j < next[e.iter] \/ j = next[e.iter])
        BY <1>0, <1>3, NextIsAhead
  <2>3. /\ f \in Frame /\ f.iter = next[e.iter] /\ f.prev = e.iter /\ f.type = e.type
        /\ f.inHandler = FALSE /\ f.todo = e.todo /\ f.extra = FALSE
        BY <1>3, <1>5, <2>1, <2>2 DEF Frame
  <2>4. \A i \in Item : i \in f.todo <=> /\ i \in live /\ type[i] = f.type
                                         /\ i < f.iter \/ (i = f.iter /\ ~f.inHandler)
        BY <1>3, <1>7, <2>2, <2>3
  <2>5. stack' = WithTop(f)
        BY <1>4, <1>7, <2>1
  <2>6. QED BY <1>1, <1>3, <1>4, <1>5, <2>2, <2>3, <2>4, <2>5, TopMoves
<1>8. QED BY <1>6, <1>7

LEMMA ReturnOkStep ==
    ASSUME EmitterInv, ReturnOk
    PROVE  EmitterInv'
<1>0. EmitterTypeOK /\ Sorted
      BY DEF EmitterInv
<1>1. stack /= << >> /\ Top.inHandler /\ ~removeCurr /\ ~fault
      BY DEF ReturnOk, InHandler
<1>2. PICK e \in Frame : e = Top
      BY <1>1, TopIs
<1>3. /\ e.iter \in live /\ ~e.extra
      /\ \A i \in Item : i \in e.todo <=> /\ i \in live /\ type[i] = e.type
                                          /\ i < e.iter
      BY <1>1, <1>2, TopIs
<1>4. /\ UNCHANGED <<items, next, type, nextId, live, curr, removeCurr, enable>>
      /\ UNCHANGED <<allowed, off, fault>>
      /\ stack' = WithTop([e EXCEPT !.inHandler = FALSE, !.prev = e.iter, !.iter = next[e.iter]])
      BY <1>0, <1>1, <1>2, <1>3 DEF ReturnOk, listVars, settings, EmitterTypeOK
<1>5. live \subseteq Item /\ curr' \in Item \cup {NULL}
      BY <1>0, <1>4, EmitterAssumption DEF EmitterTypeOK, Item
<1>6. PICK f : f = [e EXCEPT !.inHandler = FALSE, !.prev = e.iter, !.iter = next[e.iter]]
      OBVIOUS
<1>7. /\ next[e.iter] \in live \cup {NULL} /\ next[e.iter] \in Item \cup {NULL}
      /\ \A j \in live : j < e.iter <=> (j < next[e.iter] \/ j = next[e.iter])
      BY <1>0, <1>3, NextIsAhead
<1>8. /\ f \in Frame /\ f.iter = next[e.iter] /\ f.prev = e.iter /\ f.type = e.type
      /\ f.inHandler = FALSE /\ f.todo = e.todo /\ f.extra = FALSE
      BY <1>3, <1>5, <1>6, <1>7 DEF Frame
<1>9. \A i \in Item : i \in f.todo <=> /\ i \in live /\ type[i] = f.type
                                       /\ i < f.iter \/ (i = f.iter /\ ~f.inHandler)
      BY <1>3, <1>7, <1>8
<1>10. stack' = WithTop(f)
      BY <1>4, <1>6
<1>11. QED BY <1>1, <1>3, <1>4, <1>5, <1>7, <1>8, <1>9, <1>10, TopMoves

(* A handler that unregisters itself, or whose item was marked.            *)
LEMMA ReturnRemoveStep ==
    ASSUME SafeDisciplines, EmitterInv, ReturnRemove
    PROVE  EmitterInv'
<1>0. EmitterTypeOK /\ NoUseAfterFree /\ Sorted /\ Ids /\ Nested /\ NoExtra /\ Ahead
      /\ OneDeep /\ Behind /\ Marked
      BY DEF EmitterInv
<1>1. stack /= << >> /\ Top.inHandler /\ ~fault /\ ("remove" \in allowed \/ removeCurr)
      BY DEF ReturnRemove, InHandler
<1>2. SelfOnly /\ "nest" \notin allowed
  <2>1. removeCurr /\ "stop" \notin allowed => SelfOnly
        BY <1>0 DEF Marked, SelfOnly
  <2>2. SelfOnly
        BY <1>0, <1>1, <2>1, Habits
  <2>3. QED BY <2>2 DEF SelfOnly
<1>3. PICK e \in Frame : e = Top
      BY <1>1, TopIs
<1>4. /\ e.iter \in live /\ e.inHandler /\ ~e.extra
      /\ \A i \in Item : i \in e.todo <=> i \in live /\ type[i] = e.type /\ i < e.iter
      /\ Len(stack) = 1 /\ curr = e.iter
      /\ e.iter /= items => e.prev \in live /\ next[e.prev] = e.iter
      BY <1>1, <1>2, <1>3, TopIs
<1>5. PICK f : f = [e EXCEPT !.inHandler = FALSE, !.iter = next[e.iter]]
      OBVIOUS
<1>6. /\ curr' = NULL /\ removeCurr' = FALSE /\ Unlink(e.prev, e.iter)
      /\ stack' = Forget(WithTop(f), e.iter) /\ off' = off \cup {e.iter}
      /\ UNCHANGED <<enable, allowed>>
      BY <1>3, <1>4, <1>5 DEF ReturnRemove, settings
<1>7. /\ Sorted' /\ live' = live \ {e.iter} /\ fault' = FALSE
      /\ items' \in Item \cup {NULL} /\ next' \in [Item -> Item \cup {NULL}]
      /\ UNCHANGED <<type, nextId>>
      /\ e.iter = items => items' = next[e.iter] /\ next' = next
      /\ e.iter /= items => items' = items /\ next'[e.prev] = next[e.iter] /\ e.prev /= e.iter
      BY <1>0, <1>1, <1>4, <1>6, UnlinkKeeps
<1>8. live \subseteq Item /\ live \subseteq Nat
      BY <1>0, EmitterAssumption DEF EmitterTypeOK, Item
<1>9. /\ next[e.iter] \in live \cup {NULL} /\ next[e.iter] \in Item \cup {NULL}
      /\ \A j \in live : j < e.iter <=> (j < next[e.iter] \/ j = next[e.iter])
      /\ next[e.iter] /= e.iter
  <2>1. next[e.iter] < e.iter
        BY <1>0, <1>4 DEF Sorted
  <2>2. e.iter \in Nat /\ \A n \in Nat : ~(n < n)
    <3>1. e.iter \in Nat
          BY <1>4, <1>8
    <3>2. \A n \in Nat : ~(n < n)
          OBVIOUS
    <3>3. QED BY <3>1, <3>2
  <2>3. next[e.iter] /= e.iter
        BY <2>1, <2>2, Zenon
  <2>4. QED BY <1>0, <1>4, <2>3, NextIsAhead
<1>10. /\ f \in Frame /\ f.iter = next[e.iter] /\ f.prev = e.prev /\ f.type = e.type
       /\ f.inHandler = FALSE /\ f.todo = e.todo /\ f.extra = FALSE
      BY <1>4, <1>5, <1>9 DEF Frame
<1>11. PICK s \in Seq(Frame) : s = WithTop(f) /\ Len(s) = 1 /\ s[1] = f
      BY <1>0, <1>1, <1>4, <1>10, TopFrame DEF EmitterTypeOK
<1>12. /\ stack' \in Seq(Frame) /\ Len(stack') = 1
       /\ stack'[1].iter = f.iter /\ stack'[1].prev = f.prev /\ stack'[1].type = f.type
       /\ stack'[1].extra = f.extra /\ stack'[1].inHandler = f.inHandler
       /\ stack'[1].todo = f.todo \ {e.iter}
  <2>1. stack' = Forget(s, e.iter) /\ 1 \in 1 .. Len(s)
        BY <1>6, <1>11
  <2>2. QED BY <1>11, <2>1, ForgetFrame
<1>13. \A k \in 1 .. Len(stack') : k = 1
      BY <1>12
<1>14. EmitterTypeOK' /\ Ids' /\ NoUseAfterFree'
  <2>1. live' \subseteq 1 .. nextId' - 1 /\ off' \subseteq 1 .. nextId' - 1 /\ off' \subseteq Item
        BY <1>0, <1>4, <1>6, <1>7, <1>8 DEF Ids, EmitterTypeOK
  <2>2. Len(stack') <= MaxDepth
        BY <1>0, <1>4, <1>12 DEF EmitterTypeOK
  <2>3. QED BY <1>0, <1>6, <1>7, <1>12, <2>1, <2>2 DEF EmitterTypeOK, Ids, NoUseAfterFree
<1>15. Nested' /\ NoExtra'
  <2>1. f.iter \in live' \cup {NULL}
        BY <1>7, <1>9, <1>10
  <2>2. QED BY <1>10, <1>12, <1>13, <2>1 DEF Nested, NoExtra
<1>16. Ahead'
  <2> SUFFICES ASSUME NEW i \in Item
               PROVE  i \in stack'[1].todo <=>
                        /\ i \in live' /\ type'[i] = stack'[1].type
                        /\ i < stack'[1].iter \/ (i = stack'[1].iter /\ ~stack'[1].inHandler)
      BY <1>13 DEF Ahead
  <2>1. i \in stack'[1].todo <=> i \in live /\ type[i] = e.type /\ i < e.iter /\ i /= e.iter
        BY <1>4, <1>10, <1>12
  <2>2. QED BY <1>7, <1>8, <1>9, <1>10, <1>12, <2>1
<1>17. OneDeep'
      BY <1>10, <1>12, <1>13 DEF OneDeep
<1>18. Behind'
  <2> SUFFICES ASSUME f.iter \in live'
               PROVE  f.iter = items' \/ (f.prev \in live' /\ next'[f.prev] = f.iter)
      BY <1>12, <1>13 DEF Behind
  <2>1. QED BY <1>4, <1>7, <1>10
<1>19. Marked'
  <2>0. Len(stack') = 1
        BY <1>12
  <2>1. stack' /= << >>
        BY <2>0
  <2>2. "stop" \notin allowed => off' \cap live' = {}
        BY <1>0, <1>4, <1>6, <1>7 DEF Marked
  <2>3. QED BY <1>6, <2>1, <2>2 DEF Marked
<1>20. QED BY <1>7, <1>14, <1>15, <1>16, <1>17, <1>18, <1>19 DEF EmitterInv

(* The innermost dispatch returns.                                         *)
LEMMA DispatchReturns ==
    ASSUME EmitterInv, stack /= << >>, stack' = Front(stack),
           UNCHANGED <<items, next, type, nextId, live, enable, allowed, off, fault>>,
           curr' \in Item \cup {NULL}, removeCurr' \in BOOLEAN,
           "stop" \notin allowed => /\ curr' = NULL /\ removeCurr' = FALSE
                                    /\ ~Top.inHandler
    PROVE  EmitterInv'
<1>0. EmitterTypeOK /\ NoUseAfterFree /\ Sorted /\ Ids /\ Nested /\ NoExtra /\ Ahead
      /\ OneDeep /\ Behind /\ Marked
      BY DEF EmitterInv
<1>1. /\ Len(stack) \in Nat \ {0} /\ stack' \in Seq(Frame) /\ Len(stack') = Len(stack) - 1
      /\ \A k \in 1 .. Len(stack) - 1 : stack'[k] = stack[k]
      BY <1>0, TopFrame, FrontFrame DEF EmitterTypeOK
<1>2. \A k \in 1 .. Len(stack') : k \in 1 .. Len(stack) /\ k < Len(stack) /\ stack'[k] = stack[k]
      BY <1>1
<1>3. EmitterTypeOK' /\ Ids' /\ NoUseAfterFree' /\ Sorted'
  <2>1. Len(stack') <= MaxDepth
        BY <1>0, <1>1, EmitterAssumption DEF EmitterTypeOK
  <2>2. QED BY <1>0, <1>1, <2>1 DEF EmitterTypeOK, Ids, NoUseAfterFree, Sorted
<1>4. Nested' /\ NoExtra'
      BY <1>0, <1>2 DEF Nested, NoExtra
<1>5. Ahead'
      BY <1>0, <1>2 DEF Ahead
<1>6. OneDeep'
  <2>1. "nest" \notin allowed => Len(stack') = 0
        BY <1>0, <1>1 DEF OneDeep
  <2>2. Len(stack') = 0 => Len(stack') <= 1 /\ \A k \in 1 .. Len(stack') : FALSE
        OBVIOUS
  <2>3. QED BY <2>1, <2>2 DEF OneDeep
<1>7. Behind'
      BY <1>0, <1>2 DEF Behind
<1>8. Marked'
  <2>1. "stop" \notin allowed => ~removeCurr
        BY TopIs
  <2>2. QED BY <1>0, <2>1 DEF Marked
<1>9. QED BY <1>3, <1>4, <1>5, <1>6, <1>7, <1>8 DEF EmitterInv

LEMMA EndStep ==
    ASSUME EmitterInv, EndDispatch \/ ReturnStop
    PROVE  EmitterInv'
<1>0. EmitterTypeOK
      BY DEF EmitterInv
<1>1. CASE EndDispatch
      BY <1>1, DispatchReturns DEF EndDispatch, InLoop, listVars, settings
<1>2. CASE ReturnStop
      BY <1>0, <1>2, DispatchReturns DEF ReturnStop, InHandler, listVars, settings, EmitterTypeOK
<1>3. QED BY <1>1, <1>2

(* emitter_off in a handler or outside of all dispatches.                  *)
LEMMA OffStep ==
    ASSUME SafeDisciplines, EmitterInv, NEW i \in Item, Off(i)
    PROVE  EmitterInv'
<1>0. EmitterTypeOK /\ NoUseAfterFree /\ Sorted /\ Ids /\ Nested /\ NoExtra /\ Ahead
      /\ OneDeep /\ Behind /\ Marked
      BY DEF EmitterInv
<1>1. Listed = live
      BY <1>0, ListedIsLive
<1>2. i \in live /\ off' = off \cup {i} /\ UNCHANGED <<curr, enable, allowed>>
      BY <1>1 DEF Off, settings
<1>3. /\ live \subseteq Item /\ live \subseteq Nat /\ NULL \notin live
      /\ off' \subseteq Item /\ off' \subseteq 1 .. nextId - 1
      BY <1>0, <1>2, EmitterAssumption DEF EmitterTypeOK, Item, NULL, Ids
<1>4. \/ stack = << >>
      \/ /\ stack /= << >> /\ Top.inHandler
         /\ \/ Top.iter = i /\ "off_self" \in allowed
            \/ Top.iter /= i /\ "off_other" \in allowed
  <2>1. stack /= << >> => Top.inHandler
    <3>1. ASSUME stack /= << >> PROVE Len(stack) \in 1 .. Len(stack)
          BY <3>1, TopIs
    <3>2. \A k \in 1 .. Len(stack) : stack[k].inHandler
          BY DEF Off, May, InUserCode
    <3>3. QED BY <3>1, <3>2 DEF Top
  <2>2. QED BY <2>1 DEF Off, May
<1>5. stack /= << >> => "nest" \notin allowed /\ Len(stack) = 1 /\ curr = Top.iter
  <2>1. stack /= << >> => "nest" \notin allowed
        BY <1>0, <1>4, Habits DEF SelfOnly
  <2>2. QED BY <1>4, <2>1, TopIs
<1>6. CASE curr = i
  <2>1. /\ removeCurr' = TRUE
        /\ UNCHANGED <<items, next, type, nextId, live, stack, fault>>
        BY <1>1, <1>2, <1>6 DEF Off, listVars
  <2>2. EmitterTypeOK' /\ Ids' /\ NoUseAfterFree' /\ Sorted'
        BY <1>0, <1>2, <1>3, <2>1 DEF EmitterTypeOK, Ids, NoUseAfterFree, Sorted
  <2>3. Nested' /\ NoExtra' /\ OneDeep' /\ Behind'
        BY <1>0, <1>2, <2>1 DEF Nested, NoExtra, OneDeep, Behind
  <2>4. Ahead'
        BY <1>0, <2>1 DEF Ahead
  <2>5. ASSUME "stop" \notin allowed
        PROVE  /\ stack /= << >> /\ SelfOnly /\ Len(stack) = 1 /\ stack[1].inHandler
    <3>1. stack /= << >>
          BY <1>0, <1>2, <1>3, <1>6, <2>5 DEF Marked
    <3>2. Top.iter = i /\ "off_self" \in allowed /\ Top.inHandler /\ Len(stack) = 1
          BY <1>4, <1>5, <1>6, <3>1
    <3>3. QED BY <1>0, <3>1, <3>2, Habits DEF Top
  <2>6. Marked'
        BY <1>0, <1>2, <1>6, <2>1, <2>5 DEF Marked, SelfOnly
  <2>7. QED BY <2>2, <2>3, <2>4, <2>6 DEF EmitterInv
<1>7. CASE curr /= i
  <2>1. Unlink(PrevOf(i), i) /\ stack' = Forget(stack, i) /\ removeCurr' = removeCurr
        BY <1>1, <1>2, <1>7 DEF Off
  <2>2. PICK p : p = PrevOf(i)
        OBVIOUS
  <2>3. i /= items => p \in live /\ next[p] = i
        BY <1>0, <1>2, <2>2, PrevIs
  <2>4. /\ Sorted' /\ live' = live \ {i} /\ fault' = FALSE
        /\ items' \in Item \cup {NULL} /\ next' \in [Item -> Item \cup {NULL}]
        /\ UNCHANGED <<type, nextId>>
    <3>1. Unlink(p, i) /\ ~fault
          BY <1>0, <2>1, <2>2 DEF NoUseAfterFree
    <3>2. QED BY <1>0, <1>2, <2>3, <3>1, UnlinkKeeps
  <2>5. /\ stack' \in Seq(Frame) /\ Len(stack') = Len(stack) /\ Len(stack) \in Nat
        /\ \A k \in 1 .. Len(stack) :
             /\ stack'[k].iter = stack[k].iter /\ stack'[k].prev = stack[k].prev
             /\ stack'[k].type = stack[k].type /\ stack'[k].extra = stack[k].extra
             /\ stack'[k].inHandler = stack[k].inHandler
             /\ stack'[k].todo = stack[k].todo \ {i}
        BY <1>0, <2>1, ForgetFrame DEF EmitterTypeOK
  <2>6. stack /= << >> => "off_other" \in allowed /\ Top.iter /= i
        BY <1>4, <1>5, <1>7
  <2>7. \A k \in 1 .. Len(stack) : stack[k].iter /= i
    <3>1. CASE stack = << >>
          BY <3>1
    <3>2. CASE stack /= << >>
      <4>1. Len(stack) = 1 /\ stack[1].iter /= i
            BY <1>5, <2>6, <3>2 DEF Top
      <4>2. \A k \in 1 .. Len(stack) : k = 1
            BY <4>1
      <4>3. QED BY <4>1, <4>2
    <3>3. QED BY <3>1, <3>2
  <2>8. EmitterTypeOK' /\ Ids' /\ NoUseAfterFree'
    <3>1. live' \subseteq 1 .. nextId' - 1 /\ off' \subseteq 1 .. nextId' - 1
          BY <1>0, <1>3, <2>4 DEF Ids
    <3>2. QED BY <1>0, <1>2, <1>3, <2>1, <2>4, <2>5, <3>1 DEF EmitterTypeOK, Ids, NoUseAfterFree
  <2>9. Nested' /\ NoExtra'
        BY <1>0, <2>4, <2>5, <2>7 DEF Nested, NoExtra
  <2>10. Ahead'
    <3> SUFFICES ASSUME NEW k \in 1 .. Len(stack), NEW j \in Item
                 PROVE  j \in stack'[k].todo <=>
                          /\ j \in live' /\ type'[j] = stack'[k].type
                          /\ j < stack'[k].iter \/ (j = stack'[k].iter /\ ~stack'[k].inHandler)
        BY <2>5 DEF Ahead
    <3>1. QED BY <1>0, <2>4, <2>5 DEF Ahead
  <2>11. OneDeep'
        BY <1>0, <1>2, <2>5 DEF OneDeep
  <2>12. Behind'
    <3>1. CASE stack = << >>
          BY <2>5, <3>1 DEF Behind
    <3>2. CASE stack /= << >>
          BY <1>2, <2>6, <3>2 DEF Behind
    <3>3. QED BY <3>1, <3>2
  <2>13. Marked'
    <3>1. "stop" \notin allowed => ~removeCurr
          BY <1>0, <2>6 DEF Marked
    <3>2. stack' = << >> => stack = << >>
          BY <2>5, EmptySeq
    <3>3. QED BY <1>0, <1>2, <2>1, <2>4, <3>1, <3>2 DEF Marked
  <2>14. QED BY <2>4, <2>8, <2>9, <2>10, <2>11, <2>12, <2>13 DEF EmitterInv
<1>8. QED BY <1>6, <1>7
-----------------------------------------------------------------------------
LEMMA EmitterInvInit == EmitterInit => EmitterInv
<1> SUFFICES ASSUME EmitterInit PROVE EmitterInv
    OBVIOUS
<1>1. live = {} /\ off = {} /\ items = NULL /\ stack = << >> /\ nextId = 1 /\ curr = NULL
      BY DEF EmitterInit
<1>2. EmitterTypeOK
  <2>1. (CHOOSE t \in Type : TRUE) \in Type
        BY EmitterAssumption
  <2>2. next \in [Item -> Item \cup {NULL}] /\ type \in [Item -> Type]
        BY <2>1 DEF EmitterInit
  <2>3. stack \in Seq(Frame) /\ Len(stack) <= MaxDepth /\ nextId \in 1 .. MaxItem + 1
        BY <1>1, EmitterAssumption
  <2>4. QED BY <1>1, <2>2, <2>3 DEF EmitterInit, EmitterTypeOK
<1>3. Sorted /\ Ids /\ NoUseAfterFree
      BY <1>1 DEF EmitterInit, Sorted, Ids, NoUseAfterFree
<1>4. Nested /\ NoExtra /\ Ahead /\ OneDeep /\ Behind
      BY <1>1 DEF Nested, NoExtra, Ahead, OneDeep, Behind
<1>5. Marked
      BY <1>1 DEF EmitterInit, Marked
<1>6. QED BY <1>2, <1>3, <1>4, <1>5 DEF EmitterInv

LEMMA EmitterInvNext == SafeDisciplines /\ EmitterInv /\ [EmitterNext]_emitterVars => EmitterInv'
<1> SUFFICES ASSUME SafeDisciplines, EmitterInv, [EmitterNext]_emitterVars PROVE EmitterInv'
    OBVIOUS
<1>1. ASSUME NEW t \in Type, On(t) PROVE EmitterInv'
      BY <1>1, OnStep
<1>2. ASSUME NEW t \in Type, BeginDispatch(t) PROVE EmitterInv'
      BY <1>2, BeginStep
<1>3. ASSUME NEW i \in Item, Off(i) PROVE EmitterInv'
      BY <1>3, OffStep
<1>4. ASSUME NEW b \in BOOLEAN, SetEnable(b) PROVE EmitterInv'
      BY <1>4, SetEnableStep
<1>5. CASE UNCHANGED emitterVars
      BY <1>5, SetEnableStep
<1>6. CASE Deinit
      BY <1>6, DeinitStep
<1>7. CASE DispatchNothing
      BY <1>7, NothingStep
<1>8. CASE Visit
      BY <1>8, VisitStep
<1>9. CASE ReturnStop \/ EndDispatch
      BY <1>9, EndStep
<1>10. CASE ReturnRemove
      BY <1>10, ReturnRemoveStep
<1>11. CASE ReturnOk
      BY <1>11, ReturnOkStep
<1>12. QED BY <1>1, <1>2, <1>3, <1>4, <1>5, <1>6, <1>7, <1>8, <1>9, <1>10, <1>11 DEF EmitterNext

(* The fields of the emitter and the dispatches in progress keep their     *)
(* types, as long as handlers keep to one of the safe disciplines.         *)
THEOREM EmitterTypeCorrect == ASSUME SafeDisciplines PROVE EmitterSpec => []EmitterTypeOK
<1>1. EmitterInv /\ [EmitterNext]_emitterVars => EmitterInv'
      BY EmitterInvNext
<1>2. EmitterInv => EmitterTypeOK
      BY DEF EmitterInv
<1>3. QED BY <1>1, <1>2, EmitterInvInit, PTL DEF EmitterSpec

(* emitter_dispatch, emitter_off and emitter_deinit follow no pointer to a *)
(* freed item, whatever handlers do that keep to a safe discipline.        *)
THEOREM NoUseAfterFreeCorrect == ASSUME SafeDisciplines PROVE EmitterSpec => []NoUseAfterFree
<1>1. EmitterInv /\ [EmitterNext]_emitterVars => EmitterInv'
      BY EmitterInvNext
<1>2. EmitterInv => NoUseAfterFree
      BY DEF EmitterInv
<1>3. QED BY <1>1, <1>2, EmitterInvInit, PTL DEF EmitterSpec

(* A dispatch has called every handler of its type that stayed registered  *)
(* when it ends, each once and none that came later.                       *)
THEOREM CallsEachOnceCorrect == ASSUME SafeDisciplines PROVE EmitterSpec => []CallsEachOnce
<1>1. EmitterInv /\ [EmitterNext]_emitterVars => EmitterInv'
      BY EmitterInvNext
<1>2. EmitterInv => CallsEachOnce
  <2> SUFFICES ASSUME EmitterInv, NEW k \in 1 .. Len(stack)
               PROVE  ~stack[k].extra /\ (stack[k].iter = NULL => stack[k].todo = {})
      BY DEF CallsEachOnce
  <2>1. EmitterTypeOK /\ NoExtra /\ Ahead
        BY DEF EmitterInv
  <2>2. stack[k] \in Frame
        BY <2>1 DEF EmitterTypeOK
  <2>3. stack[k].todo \subseteq Item
        BY <2>2 DEF Frame
  <2>4. \A i \in live : i \in Nat /\ i > 0
        BY <2>1, EmitterAssumption DEF EmitterTypeOK
  <2>5. stack[k].iter = NULL => stack[k].todo = {}
        BY <2>1, <2>3, <2>4 DEF Ahead, NULL
  <2>6. QED BY <2>1, <2>5 DEF NoExtra
<1>3. QED BY <1>1, <1>2, EmitterInvInit, PTL DEF EmitterSpec

(* Once no dispatch is in progress, a handler that was unregistered is off *)
(* the list.                                                               *)
THEOREM OffTakesEffectCorrect == ASSUME SafeDisciplines PROVE EmitterSpec => []OffTakesEffect
<1>1. EmitterInv /\ [EmitterNext]_emitterVars => EmitterInv'
      BY EmitterInvNext
<1>2. EmitterInv => OffTakesEffect
  <2> SUFFICES ASSUME EmitterInv, "stop" \notin allowed, stack = << >> PROVE off \cap Listed = {}
      BY DEF OffTakesEffect
  <2>1. EmitterTypeOK /\ Sorted /\ Marked
        BY DEF EmitterInv
  <2>2. Listed = live
        BY <2>1, ListedIsLive
  <2>3. ~removeCurr
        BY <2>1 DEF Marked
  <2>4. QED BY <2>1, <2>2, <2>3 DEF Marked
<1>3. QED BY <1>1, <1>2, EmitterInvInit, PTL DEF EmitterSpec
-----------------------------------------------------------------------------
(* The input method.  Everything rests on what holds of its state s        *)
(* between two calls: Sound says where the keyboards and the idles are,    *)
(* Follows relates them to the focused widget f, and Pushed to the         *)
(* position of the window.                                                 *)
Status == {"opening", "opens", "open", "closes", "closed"}
Shown == {"opening", "opens", "open"}
ImType == [widget : Edit \cup {NoWidget}, keyboard : Keyboard \cup {NoKeyboard},
           input_type : InputType, win : BOOLEAN, win_delta_y : Int]
States == [im : ImType, keyboards : [Keyboard -> Status], pushes : SUBSET Keyboard,
           idles : Seq(Idle)]

(* The keyboard of the input method is the only one that is shown.  An     *)
(* idle that opens a keyboard is the next to run, and one that closes the  *)
(* current keyboard finds it open.                                         *)
Sound(s) ==
    /\ s \in States
    /\ \A k \in Keyboard : s.keyboards[k] \in Shown <=> k = s.im.keyboard
    /\ \A i \in 1 .. Len(s.idles) :
         /\ s.idles[i].does = "open" =>
              i = Len(s.idles) /\ s.keyboards[s.idles[i].keyboard] = "opening"
         /\ s.idles[i].does = "close" /\ s.idles[i].keyboard = s.im.keyboard =>
              s.keyboards[s.im.keyboard] = "open"

(* Idle i is going to close the keyboard of the input method.              *)
Closes(s, i) == /\ s.idles[i].does = "close"
                /\ s.idles[i].keyboard = s.im.keyboard
                /\ s.idles[i].widget = s.im.widget

Follows(s, f) ==
    IF f \in Edit
    THEN /\ s.im.widget = f /\ s.im.keyboard /= NoKeyboard /\ s.im.input_type = TypeOf(f)
         /\ \A i \in 1 .. Len(s.idles) : ~Closes(s, i)
    ELSE \/ s.im.widget = NoWidget /\ s.im.keyboard = NoKeyboard
         \/ \E i \in 1 .. Len(s.idles) : Closes(s, i)

(* Keyboards of one height push the window by it, once.                    *)
Pushed(s) ==
    /\ \A k \in s.pushes : s.keyboards[k] \in {"opening", "opens"}
    /\ s.im.keyboard = NoKeyboard => ~s.im.win
    /\ s.im.win => /\ s.im.win_delta_y = DefaultHeight
                   /\ y = IF s.im.keyboard \in s.pushes THEN 0 ELSE 0 - DefaultHeight
    /\ ~s.im.win => y = 0 /\ s.pushes = {}

(* No keyboard is being opened, and the model has one left.                *)
Ready(s) == /\ Sound(s)
            /\ \A k \in Keyboard : s.keyboards[k] \notin {"opening", "opens"}
            /\ Free(s) \ {s.im.keyboard} /= {}

Rest == /\ y \in Int
        /\ focus \in Edit \cup {Other, NoWidget}
        /\ phase \in {"events", "idle"}

LEMMA StateSplit == TypeOK <=> State \in States /\ Rest
BY DEF TypeOK, State, States, Rest, ImType, Status
-----------------------------------------------------------------------------
(* What an appended idle adds.                                             *)
LEMMA AppendIdle ==
    ASSUME NEW q \in Seq(Idle), NEW e \in Idle
    PROVE  /\ Append(q, e) \in Seq(Idle)
           /\ Len(Append(q, e)) = Len(q) + 1
           /\ Append(q, e)[Len(q) + 1] = e
           /\ \A i \in 1 .. Len(q) : Append(q, e)[i] = q[i]
OBVIOUS

(* Keyboard k of the given type was opened in s.                           *)
Opens(r, s, kind, k) ==
    LET covered == Covers(kind, s.im.widget)
    IN  /\ r \in States
        /\ r.im.keyboard = k /\ r.im.input_type = kind
        /\ r.im.widget = s.im.widget
        /\ r.im.win = (s.im.win \/ covered)
        /\ r.im.win_delta_y = IF covered THEN y + Height(kind) ELSE s.im.win_delta_y
        /\ r.keyboards = [s.keyboards EXCEPT ![k] = "opening"]
        /\ r.pushes = IF covered THEN s.pushes \cup {k} ELSE s.pushes
        /\ r.idles = Append(s.idles, [does |-> "open", keyboard |-> k, widget |-> NoWidget])

LEMMA OpenFields ==
    ASSUME NEW s \in States, NEW kind \in InputType, y \in Int, NEW k0 \in Free(s)
    PROVE  \E k \in Free(s) : Opens(OpenKeyboard(s, kind), s, kind, k)
<1> DEFINE k == CHOOSE k \in Free(s) : TRUE
           r == OpenKeyboard(s, kind)
           covered == Covers(kind, s.im.widget)
           idle == [does |-> "open", keyboard |-> k, widget |-> NoWidget]
<1>1. k \in Free(s) /\ k \in Keyboard
      BY DEF Free
<1>2. idle \in Idle /\ Append(s.idles, idle) \in Seq(Idle)
  <2>1. idle \in Idle
        BY <1>1 DEF Idle
  <2>2. QED BY <2>1, AppendIdle DEF States
<1>3. r = [im |-> [s.im EXCEPT !.keyboard = k, !.input_type = kind, !.win = @ \/ covered,
                               !.win_delta_y = IF covered THEN y + Height(kind) ELSE @],
           keyboards |-> [s.keyboards EXCEPT ![k] = "opening"],
           pushes |-> IF covered THEN s.pushes \cup {k} ELSE s.pushes,
           idles |-> Append(s.idles, idle)]
      BY DEF OpenKeyboard
<1>4. Height(kind) \in Nat /\ y + Height(kind) \in Int /\ covered \in BOOLEAN
      BY InputMethodAssumption DEF Height, Covers
<1> HIDE DEF k, covered, idle
<1>5. r.im \in ImType /\ r.im.keyboard = k /\ r.im.input_type = kind
      /\ r.im.widget = s.im.widget /\ r.im.win = (s.im.win \/ covered)
      /\ r.im.win_delta_y = IF covered THEN y + Height(kind) ELSE s.im.win_delta_y
  <2> DEFINE wins == s.im.win \/ covered
             delta == IF covered THEN y + Height(kind) ELSE s.im.win_delta_y
  <2>1. s.im \in ImType /\ wins \in BOOLEAN /\ delta \in Int
        BY <1>4 DEF States, ImType
  <2>2. r.im = [s.im EXCEPT !.keyboard = k, !.input_type = kind, !.win = wins,
                            !.win_delta_y = delta]
        BY <1>3, <2>1 DEF ImType
  <2> HIDE DEF wins, delta
  <2>3. /\ r.im \in ImType /\ r.im.keyboard = k /\ r.im.input_type = kind
        /\ r.im.widget = s.im.widget /\ r.im.win = wins /\ r.im.win_delta_y = delta
        BY <1>1, <2>1, <2>2 DEF ImType
  <2>4. QED BY <2>3 DEF wins, delta
<1>6. r \in States
      BY <1>1, <1>2, <1>3, <1>5 DEF States, Status
<1>7. /\ r.keyboards = [s.keyboards EXCEPT ![k] = "opening"]
      /\ r.pushes = IF covered THEN s.pushes \cup {k} ELSE s.pushes
      /\ r.idles = Append(s.idles, idle)
      BY <1>3
<1>8. QED BY <1>1, <1>5, <1>6, <1>7, Zenon DEF Opens, idle, covered

(* A state in which no keyboard is shown or on its way, and the model has  *)
(* one left.                                                               *)
Bare(s) == /\ s \in States
           /\ \A k \in Keyboard : s.keyboards[k] \notin Shown
           /\ \A i \in 1 .. Len(s.idles) : s.idles[i].does = "close"
           /\ Free(s) /= {}

(* The window in such a state.                                             *)
BarePushed(s) == /\ s.pushes = {}
                 /\ s.im.win => s.im.win_delta_y = DefaultHeight /\ y = 0 - DefaultHeight
                 /\ ~s.im.win => y = 0

(* The idles of r that close keyboards are those of s.                     *)
ClosesOf(r, s) ==
    \A i \in 1 .. Len(r.idles) :
       r.idles[i].does = "close" => i \in 1 .. Len(s.idles) /\ r.idles[i] = s.idles[i]

(* r shows the keyboard for the widget of s.                               *)
Serves(r, s) == /\ Sound(r)
                /\ r.im.widget = s.im.widget
                /\ r.im.keyboard /= NoKeyboard
                /\ r.im.input_type = TypeOf(s.im.widget)
                /\ ClosesOf(r, s)

(* Opening a keyboard when there is none.                                  *)
LEMMA OpenServes ==
    ASSUME NEW s, Bare(s), y \in Int, s.im.widget \in Edit,
           NEW r, r = OpenKeyboard(s, TypeOf(s.im.widget))
    PROVE  /\ Serves(r, s)
           /\ DefaultHeight = NumericHeight /\ BarePushed(s) => Pushed(r)
<1> DEFINE kind == TypeOf(s.im.widget)
           covered == Covers(kind, s.im.widget)
<1>1. s \in States /\ kind \in InputType /\ Free(s) /= {}
      BY DEF Bare, TypeOf, InputType
<1>0. PICK k \in Free(s) : Opens(r, s, kind, k)
  <2>1. PICK k0 : k0 \in Free(s)
        BY <1>1
  <2>2. r = OpenKeyboard(s, kind)
        OBVIOUS
  <2> HIDE DEF kind
  <2>3. QED BY <1>1, <2>1, <2>2, OpenFields
<1>2. /\ r \in States
      /\ r.im.keyboard = k /\ r.im.input_type = kind
      /\ r.im.widget = s.im.widget
      /\ r.im.win = (s.im.win \/ covered)
      /\ r.im.win_delta_y = IF covered THEN y + Height(kind) ELSE s.im.win_delta_y
      /\ r.keyboards = [s.keyboards EXCEPT ![k] = "opening"]
      /\ r.pushes = IF covered THEN s.pushes \cup {k} ELSE s.pushes
      /\ r.idles = Append(s.idles, [does |-> "open", keyboard |-> k, widget |-> NoWidget])
  <2> HIDE DEF kind
  <2>1. QED BY <1>0, Zenon DEF Opens
<1>3. k \in Keyboard /\ k /= NoKeyboard /\ s.keyboards[k] = "closed"
      /\ \A i \in 1 .. Len(s.idles) : s.idles[i].keyboard /= k
      BY DEF Free, Keyboard, NoKeyboard
<1> HIDE DEF kind, covered
<1>4. /\ Len(r.idles) = Len(s.idles) + 1 /\ Len(s.idles) \in Nat
      /\ r.idles[Len(s.idles) + 1].does = "open"
      /\ r.idles[Len(s.idles) + 1].keyboard = k
      /\ \A i \in 1 .. Len(s.idles) : r.idles[i] = s.idles[i]
  <2> DEFINE e == [does |-> "open", keyboard |-> k, widget |-> NoWidget]
  <2>1. e \in Idle /\ e.does = "open" /\ e.keyboard = k
        BY <1>3 DEF Idle
  <2>2. s.idles \in Seq(Idle) /\ r.idles = Append(s.idles, e)
        BY <1>1, <1>2 DEF States
  <2> HIDE DEF e
  <2>3. QED BY <2>1, <2>2, AppendIdle
<1>5. \A j \in Keyboard : r.keyboards[j] = IF j = k THEN "opening" ELSE s.keyboards[j]
      BY <1>1, <1>2, <1>3 DEF States
<1>6. ClosesOf(r, s)
      BY <1>4 DEF ClosesOf
<1>7. Sound(r)
  <2>1. \A j \in Keyboard : r.keyboards[j] \in Shown <=> j = r.im.keyboard
        BY <1>2, <1>5 DEF Bare, Shown
  <2> SUFFICES ASSUME NEW i \in 1 .. Len(r.idles)
               PROVE  /\ r.idles[i].does = "open" =>
                           i = Len(r.idles) /\ r.keyboards[r.idles[i].keyboard] = "opening"
                      /\ r.idles[i].does = "close" /\ r.idles[i].keyboard = r.im.keyboard =>
                           r.keyboards[r.im.keyboard] = "open"
      BY <1>2, <2>1 DEF Sound
  <2>2. CASE i = Len(s.idles) + 1
        BY <1>3, <1>4, <1>5, <2>2
  <2>3. CASE i \in 1 .. Len(s.idles)
        BY <1>2, <1>3, <1>4, <2>3 DEF Bare
  <2>4. QED BY <1>4, <2>2, <2>3
<1>8. DefaultHeight = NumericHeight /\ BarePushed(s) => Pushed(r)
  <2> SUFFICES ASSUME DefaultHeight = NumericHeight, BarePushed(s)
               PROVE  Pushed(r)
      OBVIOUS
  <2>1. Height(kind) = DefaultHeight /\ DefaultHeight \in Nat \ {0}
        BY InputMethodAssumption DEF Height
  <2>2. covered => y + DefaultHeight > 0
        BY <2>1 DEF covered, Covers
  <2>3. s.im.win \in BOOLEAN /\ covered \in BOOLEAN /\ (covered => ~s.im.win /\ y = 0)
        BY <1>1, <2>1, <2>2 DEF BarePushed, States, ImType, covered, Covers
  <2>4. CASE covered
    <3>1. r.im.win
          BY <1>2, <2>4, Zenon
    <3>2. r.im.win_delta_y = DefaultHeight /\ r.pushes = {k} /\ y = 0
          BY <1>2, <2>1, <2>3, <2>4 DEF BarePushed
    <3>3. r.im.keyboard = k /\ k /= NoKeyboard /\ r.keyboards[k] = "opening"
          BY <1>2, <1>3, <1>5
    <3>4. \A j \in r.pushes : r.keyboards[j] \in {"opening", "opens"}
          BY <3>2, <3>3
    <3>5. QED BY <3>1, <3>2, <3>3, <3>4 DEF Pushed
  <2>5. CASE ~covered
    <3>1. r.im.win = s.im.win /\ r.im.win_delta_y = s.im.win_delta_y /\ r.pushes = {}
          BY <1>2, <2>3, <2>5 DEF BarePushed
    <3>2. QED BY <1>2, <1>3, <1>5, <3>1 DEF Pushed, BarePushed
  <2>6. QED BY <2>4, <2>5
<1>9. QED BY <1>2, <1>3, <1>6, <1>7, <1>8 DEF Serves, kind

(* When no keyboard is being opened no idle opens one.                     *)
LEMMA ReadyIdles ==
    ASSUME NEW s, Ready(s)
    PROVE  \A i \in 1 .. Len(s.idles) : s.idles[i].does = "close"
<1> SUFFICES ASSUME NEW i \in 1 .. Len(s.idles) PROVE s.idles[i].does = "close"
    OBVIOUS
<1>1. s.idles \in Seq(Idle)
      BY DEF Ready, Sound, States
<1>2. s.idles[i] \in Idle
      BY <1>1
<1>3. s.idles[i].does \in {"open", "close"} /\ s.idles[i].keyboard \in Keyboard
      BY <1>2 DEF Idle
<1>4. s.idles[i].does /= "open"
      BY <1>3 DEF Ready, Sound
<1>5. QED BY <1>3, <1>4

(* show_keyboard: a keyboard is reused, opened, or replaced.               *)
LEMMA ShowServes ==
    ASSUME NEW s, Ready(s), y \in Int, s.im.widget \in Edit,
           NEW r, r = ShowKeyboard(s)
    PROVE  /\ Serves(r, s)
           /\ DefaultHeight = NumericHeight /\ Pushed(s) => Pushed(r)
<1> DEFINE kind == TypeOf(s.im.widget)
           kb == s.im.keyboard
<1>0. s \in States /\ s.im \in ImType /\ Sound(s)
      /\ s.keyboards \in [Keyboard -> Status] /\ s.idles \in Seq(Idle)
      BY DEF Ready, Sound, States
<1>1. \A i \in 1 .. Len(s.idles) : s.idles[i].does = "close"
      BY ReadyIdles
<1>2. PICK k0 \in Free(s) : k0 /= kb
      BY DEF Ready
<1>3. Pushed(s) => s.pushes = {}
  <2>1. s.pushes \subseteq Keyboard
        BY <1>0 DEF States
  <2>2. QED BY <2>1 DEF Pushed, Ready
<1>4. CASE kb = NoKeyboard
  <2>1. Bare(s)
        BY <1>0, <1>1, <1>2, <1>4 DEF Bare, Sound, Keyboard, NoKeyboard
  <2>2. Pushed(s) => BarePushed(s)
        BY <1>3, <1>4 DEF Pushed, BarePushed
  <2>3. r = OpenKeyboard(s, TypeOf(s.im.widget))
        BY <1>4 DEF ShowKeyboard
  <2>4. QED BY <2>1, <2>2, <2>3, OpenServes
<1>5. CASE kb /= NoKeyboard /\ s.im.input_type = kind
  <2>1. r = s
        BY <1>5 DEF ShowKeyboard
  <2>2. QED BY <1>0, <1>5, <2>1 DEF Serves, ClosesOf
<1>6. CASE kb /= NoKeyboard /\ s.im.input_type /= kind
  <2> DEFINE t == [s EXCEPT !.keyboards[s.im.keyboard] = "closed",
                            !.pushes = @ \ {s.im.keyboard}]
  <2>1. r = OpenKeyboard(t, TypeOf(s.im.widget))
        BY <1>6 DEF ShowKeyboard
  <2>2. kb \in Keyboard
        BY <1>0, <1>6 DEF ImType
  <2>3. /\ t \in States /\ t.im = s.im /\ t.idles = s.idles
        /\ t.keyboards = [s.keyboards EXCEPT ![kb] = "closed"]
        /\ t.pushes = s.pushes \ {kb}
        BY <1>0, <2>2 DEF States, Status
  <2> HIDE DEF t
  <2>4. \A k \in Keyboard : t.keyboards[k] = IF k = kb THEN "closed" ELSE s.keyboards[k]
        BY <1>0, <2>3
  <2>5. \A k \in Keyboard : t.keyboards[k] \notin Shown
        BY <1>0, <2>4 DEF Sound, Shown
  <2>6. k0 \in Free(t)
        BY <1>2, <2>3, <2>4 DEF Free
  <2>7. Bare(t)
        BY <1>1, <2>3, <2>5, <2>6 DEF Bare
  <2>8. Pushed(s) => BarePushed(t)
        BY <1>3, <2>3 DEF Pushed, BarePushed
  <2>9. t.im.widget \in Edit /\ r = OpenKeyboard(t, TypeOf(t.im.widget))
        BY <2>1, <2>3
  <2>10. Serves(r, t) /\ (DefaultHeight = NumericHeight /\ BarePushed(t) => Pushed(r))
         BY <2>7, <2>9, OpenServes
  <2>11. Serves(r, s)
         BY <2>3, <2>10 DEF Serves, ClosesOf
  <2>12. QED BY <2>8, <2>10, <2>11
<1>7. QED BY <1>4, <1>5, <1>6

(* input_method_request for an edit.                                       *)
LEMMA RequestServes ==
    ASSUME NEW s, Ready(s), y \in Int, NEW w \in Edit, s.im.widget /= w,
           NEW r, r = Request(s, w)
    PROVE  /\ Sound(r)
           /\ r.im.widget = w /\ r.im.keyboard /= NoKeyboard /\ r.im.input_type = TypeOf(w)
           /\ ClosesOf(r, s)
           /\ DefaultHeight = NumericHeight /\ Pushed(s) => Pushed(r)
<1> DEFINE t == [s EXCEPT !.im.widget = w]
<1>1. r = ShowKeyboard(t)
      BY InputMethodAssumption DEF Request
<1>2. s \in States /\ s.im \in ImType
      BY DEF Ready, Sound, States
<1>3. /\ t \in States /\ t.keyboards = s.keyboards /\ t.pushes = s.pushes
      /\ t.idles = s.idles /\ t.im = [s.im EXCEPT !.widget = w]
      BY <1>2 DEF States, ImType
<1> HIDE DEF t
<1>4. /\ t.im.widget = w /\ t.im.keyboard = s.im.keyboard
      /\ t.im.input_type = s.im.input_type /\ t.im.win = s.im.win
      /\ t.im.win_delta_y = s.im.win_delta_y
      BY <1>2, <1>3 DEF ImType
<1>5. Free(t) = Free(s)
      BY <1>3 DEF Free
<1>6. Sound(t)
      BY <1>3, <1>4 DEF Ready, Sound
<1>7. Ready(t)
      BY <1>3, <1>4, <1>5, <1>6 DEF Ready
<1>8. Pushed(s) => Pushed(t)
      BY <1>3, <1>4 DEF Pushed
<1>9. Serves(r, t) /\ (DefaultHeight = NumericHeight /\ Pushed(t) => Pushed(r))
      BY <1>1, <1>4, <1>7, ShowServes
<1>10. ClosesOf(r, s)
       BY <1>3, <1>9 DEF Serves, ClosesOf
<1>11. QED BY <1>4, <1>8, <1>9, <1>10 DEF Serves

(* input_method_request with NULL, when an edit loses the focus.           *)
LEMMA BlurReady ==
    ASSUME NEW s, Ready(s), NEW r, r = Blur(s)
    PROVE  /\ Ready(r)
           /\ r.im = s.im /\ r.keyboards = s.keyboards /\ r.pushes = s.pushes
           /\ \/ r = s /\ (focus \in Edit => s.im.widget = NoWidget \/ s.im.keyboard = NoKeyboard)
              \/ /\ focus \in Edit
                 /\ r.idles = Append(s.idles, [does |-> "close", keyboard |-> s.im.keyboard,
                                               widget |-> s.im.widget])
                 /\ Closes(r, Len(s.idles) + 1) /\ Len(r.idles) = Len(s.idles) + 1
                 /\ \A i \in 1 .. Len(s.idles) : r.idles[i] = s.idles[i]
<1>0. s \in States /\ s.im \in ImType /\ Sound(s) /\ s.idles \in Seq(Idle)
      /\ s.keyboards \in [Keyboard -> Status]
      BY DEF Ready, Sound, States
<1>1. CASE r = s
  <2>1. focus \in Edit => s.im.widget = NoWidget \/ s.im.keyboard = NoKeyboard
    <3> SUFFICES ASSUME focus \in Edit, s.im.widget /= NoWidget, s.im.keyboard /= NoKeyboard
                 PROVE  FALSE
        OBVIOUS
    <3> DEFINE e == [does |-> "close", keyboard |-> s.im.keyboard, widget |-> s.im.widget]
    <3>1. r = [s EXCEPT !.idles = Append(@, e)]
          BY DEF Blur, Request
    <3>2. e \in Idle
          BY <1>0 DEF Idle, ImType
    <3> HIDE DEF e
    <3>3. r.idles = Append(s.idles, e)
          BY <1>0, <3>1 DEF States
    <3>4. Len(r.idles) = Len(s.idles) + 1 /\ Len(s.idles) \in Nat
          BY <1>0, <3>2, <3>3, AppendIdle
    <3>5. QED BY <1>1, <3>4
  <2>2. QED BY <1>1, <2>1
<1>2. CASE r /= s
  <2> DEFINE e == [does |-> "close", keyboard |-> s.im.keyboard, widget |-> s.im.widget]
  <2>1. /\ focus \in Edit /\ s.im.widget /= NoWidget /\ s.im.keyboard /= NoKeyboard
        /\ r = [s EXCEPT !.idles = Append(@, e)]
        BY <1>2 DEF Blur, Request
  <2>2. e \in Idle /\ e.does = "close" /\ e.keyboard = s.im.keyboard
        /\ e.widget = s.im.widget /\ s.im.keyboard \in Keyboard
        BY <1>0, <2>1 DEF Idle, ImType
  <2> HIDE DEF e
  <2>3. Append(s.idles, e) \in Seq(Idle)
        BY <1>0, <2>2, AppendIdle
  <2>4. /\ r \in States /\ r.idles = Append(s.idles, e)
        /\ r.im = s.im /\ r.keyboards = s.keyboards /\ r.pushes = s.pushes
        BY <1>0, <2>1, <2>3 DEF States
  <2>5. /\ Len(r.idles) = Len(s.idles) + 1 /\ Len(s.idles) \in Nat
        /\ r.idles[Len(s.idles) + 1] = e
        /\ \A i \in 1 .. Len(s.idles) : r.idles[i] = s.idles[i]
        BY <1>0, <2>2, <2>4, AppendIdle
  <2>6. Closes(r, Len(s.idles) + 1)
        BY <2>2, <2>4, <2>5 DEF Closes
  <2>7. \A i \in 1 .. Len(s.idles) : s.idles[i].does = "close"
        BY ReadyIdles
  <2>8. s.keyboards[s.im.keyboard] = "open"
        BY <1>0, <2>2 DEF Ready, Sound, Shown
  <2>9. Sound(r)
    <3>1. \A i \in 1 .. Len(r.idles) : r.idles[i].does = "close"
      <4> SUFFICES ASSUME NEW i \in 1 .. Len(r.idles) PROVE r.idles[i].does = "close"
          OBVIOUS
      <4>1. CASE i = Len(s.idles) + 1
            BY <2>2, <2>5, <4>1
      <4>2. CASE i \in 1 .. Len(s.idles)
            BY <2>5, <2>7, <4>2
      <4>3. i = Len(s.idles) + 1 \/ i \in 1 .. Len(s.idles)
            BY <2>5
      <4>4. QED BY <4>1, <4>2, <4>3
    <3>2. QED BY <1>0, <2>4, <2>8, <3>1 DEF Sound
  <2>10. Free(r) \ {r.im.keyboard} /= {}
    <3>1. PICK k \in Free(s) : k /= s.im.keyboard
          BY DEF Ready
    <3>2. k \in Free(r)
          BY <2>2, <2>4, <2>5, <3>1 DEF Free
    <3>3. QED BY <2>4, <3>1, <3>2
  <2>11. Ready(r)
         BY <2>4, <2>9, <2>10 DEF Ready
  <2>12. QED BY <2>1, <2>4, <2>5, <2>6, <2>11 DEF e
<1>3. QED BY <1>1, <1>2
-----------------------------------------------------------------------------
KeyboardInv == /\ TypeOK
               /\ Sound(State)
               /\ OncePerRound => Follows(State, focus)
               /\ DefaultHeight = NumericHeight => Pushed(State)

LEMMA KeyboardInit == Init => KeyboardInv
<1> SUFFICES ASSUME Init PROVE KeyboardInv
    OBVIOUS
<1>1. State.idles = << >> /\ Len(State.idles) = 0
      BY DEF Init, State
<1>2. TypeOK
      BY DEF Init, TypeOK, InputType
<1>3. State \in States
      BY <1>2, StateSplit
<1>4. Sound(State)
      BY <1>1, <1>3 DEF Init, Sound, State, Shown, Keyboard, NoKeyboard
<1>5. Follows(State, focus)
      BY InputMethodAssumption DEF Init, Follows, State
<1>6. Pushed(State)
      BY DEF Init, Pushed, State
<1>7. QED BY <1>2, <1>4, <1>5, <1>6 DEF KeyboardInv

(* What holds when a press is handled.                                     *)
LEMMA PressReady ==
    ASSUME KeyboardInv, ~Animating, ~Opening, Free(State) \ {im.keyboard} /= {}
    PROVE  Ready(State)
BY DEF KeyboardInv, Animating, Opening, Ready, State

LEMMA KeyboardPress ==
    ASSUME KeyboardInv, NEW w \in Edit \cup {Other}, Press(w)
    PROVE  KeyboardInv'
<1> DEFINE r1 == IF w = focus THEN State ELSE Blur(State)
           r2 == IF w \in Edit THEN Request(r1, w) ELSE r1
<1>1. /\ Ready(State) /\ y \in Int /\ y' = y /\ phase' = phase /\ phase \in {"events", "idle"}
      /\ focus' = w /\ (OncePerRound => State.idles = << >>)
      BY PressReady DEF Press, KeyboardInv, TypeOK, State
<1>2. /\ Ready(r1) /\ r1.im = im /\ r1.keyboards = keyboards /\ r1.pushes = pushes
      /\ \/ /\ r1 = State
            /\ w /= focus /\ focus \in Edit => im.widget = NoWidget \/ im.keyboard = NoKeyboard
         \/ /\ w /= focus /\ focus \in Edit /\ Len(r1.idles) = Len(State.idles) + 1
            /\ Closes(r1, Len(State.idles) + 1)
            /\ \A i \in 1 .. Len(State.idles) : r1.idles[i] = State.idles[i]
  <2>1. CASE w = focus
        BY <1>1, <2>1 DEF State
  <2>2. CASE w /= focus
    <3>1. Ready(State) /\ r1 = Blur(State)
          BY <1>1, <2>2
    <3>2. State.im = im /\ State.keyboards = keyboards /\ State.pushes = pushes
          BY DEF State
    <3> HIDE DEF r1
    <3>3. QED BY <2>2, <3>1, <3>2, BlurReady
  <2>3. QED BY <2>1, <2>2
<1>3. /\ Sound(r2)
      /\ w \in Edit => r2.im.widget = w
      /\ DefaultHeight = NumericHeight => Pushed(r2)
      /\ OncePerRound => Follows(r2, w)
  <2> HIDE DEF r1
  <2>0. DefaultHeight = NumericHeight => Pushed(r1)
        BY <1>2 DEF KeyboardInv, Pushed, State
  <2>1. CASE w \notin Edit
    <3>1. r2 = r1
          BY <2>1
    <3>2. ASSUME OncePerRound PROVE Follows(r1, w)
      <4>1. Follows(State, focus) /\ State.idles = << >> /\ Len(State.idles) = 0
            BY <1>1, <3>2 DEF KeyboardInv
      <4>2. CASE r1 = State
        <5>1. State.im = im
              BY DEF State
        <5>2. w = focus => Follows(State, w)
              BY <4>1
        <5>3. w /= focus => im.widget = NoWidget /\ im.keyboard = NoKeyboard
          <6>1. Len(r1.idles) /= Len(State.idles) + 1
                BY <4>1, <4>2
          <6>2. focus \in Edit => im.widget = focus /\ im.keyboard /= NoKeyboard
                BY <4>1, <5>1 DEF Follows
          <6>3. w /= focus => focus \notin Edit
                BY <1>2, <6>1, <6>2, InputMethodAssumption
          <6>4. focus \notin Edit => im.widget = NoWidget /\ im.keyboard = NoKeyboard
                BY <4>1, <5>1 DEF Follows
          <6>5. QED BY <6>3, <6>4
        <5>4. QED BY <2>1, <4>2, <5>1, <5>2, <5>3 DEF Follows
      <4>3. CASE r1 /= State
        <5>1. Len(r1.idles) = 1 /\ Closes(r1, 1)
              BY <1>2, <4>1, <4>3
        <5>2. QED BY <2>1, <5>1 DEF Follows
      <4>4. QED BY <4>2, <4>3
    <3>3. QED BY <1>2, <2>0, <2>1, <3>1, <3>2 DEF Ready
  <2>2. CASE w \in Edit /\ r1.im.widget = w
    <3>1. r2 = r1
          BY <2>2 DEF Request
    <3>2. ASSUME OncePerRound PROVE Follows(r1, w)
      <4>1. Follows(State, focus) /\ State.idles = << >> /\ Len(State.idles) = 0
            BY <1>1, <3>2 DEF KeyboardInv
      <4>2. im.widget = w /\ State.im = im
            BY <1>2, <2>2 DEF State
      <4>3. w = focus
            BY <2>2, <4>1, <4>2, InputMethodAssumption DEF Follows
      <4>4. r1 = State
            BY <1>2, <4>3
      <4>5. QED BY <4>1, <4>3, <4>4
    <3>3. QED BY <1>2, <2>0, <2>2, <3>1, <3>2 DEF Ready
  <2>3. CASE w \in Edit /\ r1.im.widget /= w
    <3>1. r2 = Request(r1, w)
          BY <2>3
    <3> HIDE DEF r2
    <3>2. /\ Sound(r2)
          /\ r2.im.widget = w /\ r2.im.keyboard /= NoKeyboard /\ r2.im.input_type = TypeOf(w)
          /\ ClosesOf(r2, r1)
          /\ DefaultHeight = NumericHeight /\ Pushed(r1) => Pushed(r2)
          BY <1>1, <1>2, <2>3, <3>1, RequestServes
    <3>3. ASSUME OncePerRound PROVE Follows(r2, w)
      <4>1. Follows(State, focus) /\ Len(State.idles) = 0 /\ State.im = im
            BY <1>1, <3>3 DEF KeyboardInv, State
      <4>2. \A i \in 1 .. Len(r1.idles) : r1.idles[i].widget /= w
        <5>1. CASE r1 = State
              BY <4>1, <5>1
        <5>2. CASE r1 /= State
          <6>1. Len(r1.idles) = 1 /\ r1.idles[1].widget = im.widget
                BY <1>2, <4>1, <5>2 DEF Closes
          <6>2. QED BY <1>2, <2>3, <6>1
        <5>3. QED BY <5>1, <5>2
      <4>3. \A i \in 1 .. Len(r2.idles) : ~Closes(r2, i)
            BY <3>2, <4>2 DEF ClosesOf, Closes
      <4>4. QED BY <2>3, <3>2, <4>3 DEF Follows
    <3>4. QED BY <2>0, <3>2, <3>3
  <2>4. QED BY <2>1, <2>2, <2>3
<1>4. Becomes(r2)
  <2>1. Becomes(Focus(IF w = focus THEN State ELSE Focus(Blur(State), w), w))
        BY DEF Press
  <2>2. CASE w \notin Edit
        BY <2>1, <2>2 DEF Focus
  <2>3. CASE w \in Edit /\ w = focus
        BY <2>1, <2>3 DEF Focus
  <2>4. CASE w \in Edit /\ w /= focus
    <3>1. Focus(Blur(State), w) = r2
          BY <2>4 DEF Focus
    <3>2. Focus(r2, w) = r2
      <4> HIDE DEF r2
      <4>1. QED BY <1>3, <2>4 DEF Focus, Request
    <3>3. QED BY <2>1, <2>4, <3>1, <3>2
  <2>5. QED BY <2>2, <2>3, <2>4
<1> HIDE DEF r1, r2
<1>5. State' = r2
  <2>1. r2 \in States
        BY <1>3 DEF Sound
  <2>2. QED BY <1>4, <2>1 DEF Becomes, State, States
<1>6. TypeOK'
  <2>1. State' \in States /\ Rest'
        BY <1>1, <1>3, <1>5 DEF Sound, Rest
  <2>2. QED BY <2>1 DEF TypeOK, State, States, Rest, ImType, Status
<1>7. (DefaultHeight = NumericHeight => Pushed(State))'
      BY <1>1, <1>3, <1>5 DEF Pushed
<1>8. QED BY <1>1, <1>3, <1>5, <1>6, <1>7 DEF KeyboardInv, Sound, Follows, Closes

(* The next state, field by field.                                         *)
LEMMA StateFields ==
    /\ State.im = im /\ State.keyboards = keyboards
    /\ State.pushes = pushes /\ State.idles = idles
BY DEF State

LEMMA FrontIdles ==
    ASSUME NEW q \in Seq(Idle), q /= << >>
    PROVE  /\ Front(q) \in Seq(Idle)
           /\ Len(q) \in Nat \ {0} /\ Len(Front(q)) = Len(q) - 1
           /\ \A i \in 1 .. Len(q) - 1 : Front(q)[i] = q[i]
           /\ Last(q) = q[Len(q)] /\ Last(q) \in Idle
<1>1. Len(q) \in Nat \ {0} /\ q[Len(q)] \in Idle
      BY EmptySeq
<1>2. /\ SubSeq(q, 1, Len(q) - 1) \in Seq(Idle)
      /\ Len(SubSeq(q, 1, Len(q) - 1)) = Len(q) - 1
      /\ \A i \in 1 .. Len(q) - 1 : SubSeq(q, 1, Len(q) - 1)[i] = q[i]
  <2> DEFINE n == Len(q) - 1
  <2>1. n \in Int /\ 1 \in Int /\ \A i \in 1 .. n : q[i] \in Idle
        BY <1>1
  <2> HIDE DEF n
  <2>2. /\ SubSeq(q, 1, n) \in Seq(Idle)
        /\ Len(SubSeq(q, 1, n)) = IF 1 <= n THEN n - 1 + 1 ELSE 0
        /\ \A i \in 1 .. n - 1 + 1 : SubSeq(q, 1, n)[i] = q[1 + i - 1]
        BY <2>1, SubSeqProperties
  <2>3. n >= 0
        BY <1>1 DEF n
  <2>4. Len(SubSeq(q, 1, n)) = n /\ \A i \in 1 .. n : SubSeq(q, 1, n)[i] = q[i]
        BY <2>1, <2>2, <2>3
  <2>5. QED BY <2>2, <2>4 DEF n
<1>3. QED BY <1>1, <1>2 DEF Front, Last

(* A keyboard that is on its way goes on, or is open and pushes the        *)
(* window; the idle that opened it, if any, is done.                       *)
LEMMA KeyboardOpens ==
    ASSUME KeyboardInv,
           NEW k \in Keyboard, keyboards[k] \in {"opening", "opens"},
           \/ Opened(k)
           \/ keyboards' = [keyboards EXCEPT ![k] = "opens"] /\ y' = y /\ pushes' = pushes,
           im' = im, focus' = focus, phase' = phase,
           idles' \in Seq(Idle), Len(idles') <= Len(idles),
           \A i \in 1 .. Len(idles') : idles'[i] = idles[i] /\ idles[i].does = "close",
           \A i \in 1 .. Len(idles) : idles[i].does = "close" => i <= Len(idles')
    PROVE  KeyboardInv'
<1>1. TypeOK /\ Sound(State) /\ Len(idles) \in Nat /\ Len(idles') \in Nat
      /\ idles \in Seq(Idle)
      BY DEF KeyboardInv, TypeOK
<1>2. k = im.keyboard /\ \A j \in Keyboard : keyboards[j] \in Shown <=> j = k
      BY <1>1, StateFields DEF Sound, Shown
<1>3. \A i \in 1 .. Len(idles) : idles[i].does = "close" => idles[i].keyboard /= k
      BY <1>1, <1>2, StateFields DEF Sound
<1>4. /\ keyboards' \in [Keyboard -> Status] /\ keyboards'[k] \in {"open", "opens"}
      /\ \A j \in Keyboard \ {k} : keyboards'[j] = keyboards[j]
      /\ y' \in Int /\ pushes' \subseteq Keyboard
  <2>1. keyboards \in [Keyboard -> Status] /\ y \in Int /\ pushes \subseteq Keyboard
        /\ im.win_delta_y \in Int
        BY <1>1 DEF TypeOK, Status
  <2>2. y' \in Int /\ pushes' \subseteq Keyboard
        BY <2>1 DEF Opened
  <2>3. \/ keyboards' = [keyboards EXCEPT ![k] = "open"]
        \/ keyboards' = [keyboards EXCEPT ![k] = "opens"]
        BY DEF Opened
  <2>4. QED BY <2>1, <2>2, <2>3 DEF Status
<1>5. TypeOK'
      BY <1>1, <1>4 DEF TypeOK, Status
<1>6. Sound(State)'
  <2>1. State' \in States
        BY <1>5 DEF TypeOK, State, States, ImType, Status
  <2>2. \A j \in Keyboard : keyboards'[j] \in Shown <=> j = im'.keyboard
        BY <1>2, <1>4 DEF Shown
  <2>3. \A i \in 1 .. Len(idles') : idles'[i].does = "close" /\ idles'[i].keyboard /= k
        BY <1>1, <1>3
  <2>4. QED BY <1>2, <2>1, <2>2, <2>3 DEF Sound, State
<1>7. ASSUME OncePerRound PROVE Follows(State, focus)'
  <2>1. Follows(State, focus)
        BY <1>7 DEF KeyboardInv
  <2>2. \A i \in 1 .. Len(idles') : Closes(State, i)' <=> Closes(State, i)
        BY <1>1 DEF Closes, State
  <2>3. \A i \in 1 .. Len(idles) : Closes(State, i) => i \in 1 .. Len(idles')
        BY <1>1 DEF Closes, State
  <2>4. State'.im = im /\ State'.idles = idles' /\ State.im = im /\ State.idles = idles
        BY DEF State
  <2>5. CASE focus \in Edit
    <3>1. \A i \in 1 .. Len(idles) : ~Closes(State, i)
          BY <2>1, <2>4, <2>5 DEF Follows
    <3>2. \A i \in 1 .. Len(idles') : ~Closes(State, i)'
          BY <1>1, <2>2, <3>1
    <3>3. QED BY <2>1, <2>4, <2>5, <3>2 DEF Follows
  <2>6. CASE focus \notin Edit
        BY <2>1, <2>2, <2>3, <2>4, <2>6 DEF Follows
  <2>7. QED BY <2>5, <2>6
<1>8. ASSUME DefaultHeight = NumericHeight PROVE Pushed(State)'
  <2>1. Pushed(State) /\ pushes \subseteq Keyboard
        BY <1>1, <1>8 DEF KeyboardInv, TypeOK
  <2>2. pushes \subseteq {k}
        BY <1>2, <2>1, StateFields DEF Pushed, Shown
  <2>3. k /= NoKeyboard /\ DefaultHeight \in Nat
        BY InputMethodAssumption DEF Keyboard, NoKeyboard
  <2>4. /\ im.win => /\ im.win_delta_y = DefaultHeight
                     /\ y = IF k \in pushes THEN 0 ELSE 0 - DefaultHeight
        /\ ~im.win => y = 0 /\ pushes = {}
        BY <1>2, <2>1, StateFields DEF Pushed
  <2>5. CASE Opened(k)
    <3>1. pushes' = {} /\ y' = IF k \in pushes THEN y - im.win_delta_y ELSE y
          BY <2>2, <2>5 DEF Opened
    <3>2. /\ im.win => y' = 0 - DefaultHeight
          /\ ~im.win => y' = 0
          BY <2>3, <2>4, <3>1
    <3>3. QED BY <1>2, <2>3, <2>4, <3>1, <3>2 DEF Pushed, State
  <2>6. CASE ~Opened(k)
    <3>1. pushes' = pushes /\ y' = y /\ keyboards'[k] = "opens"
          BY <1>1, <2>6 DEF TypeOK
    <3>2. QED BY <1>2, <2>2, <2>3, <2>4, <3>1 DEF Pushed, State
  <2>7. QED BY <2>5, <2>6
<1>9. QED BY <1>5, <1>6, <1>7, <1>8 DEF KeyboardInv

(* on_idle_close_keyboard.                                                 *)
LEMMA KeyboardCloses ==
    ASSUME KeyboardInv, idles /= << >>,
           Last(idles).does = "close", IdleClose(Last(idles).keyboard, Last(idles).widget),
           idles' = Front(idles), focus' = focus, phase' = phase
    PROVE  KeyboardInv'
<1> DEFINE k == Last(idles).keyboard
           w == Last(idles).widget
           n == Len(idles)
<1>1. TypeOK /\ Sound(State) /\ idles \in Seq(Idle) /\ im \in ImType
      BY DEF KeyboardInv, TypeOK, ImType
<1>2. /\ idles' \in Seq(Idle) /\ n \in Nat \ {0} /\ Len(idles') = n - 1
      /\ \A i \in 1 .. n - 1 : idles'[i] = idles[i]
      /\ Last(idles) = idles[n] /\ Last(idles) \in Idle
      BY <1>1, FrontIdles
<1>3. k \in Keyboard /\ idles[n].keyboard = k /\ idles[n].widget = w /\ idles[n].does = "close"
      BY <1>2 DEF Idle
<1>4. \A i \in 1 .. n : idles[i].does = "close"
  <2> SUFFICES ASSUME NEW i \in 1 .. n PROVE idles[i].does = "close"
      OBVIOUS
  <2>1. idles[i] \in Idle
        BY <1>1
  <2>2. idles[i].does = "open" => i = n
        BY <1>1, StateFields DEF Sound
  <2>3. QED BY <1>3, <2>1, <2>2 DEF Idle
<1> HIDE DEF k, w, n
<1>5. CASE im.keyboard = k /\ im.widget = w
  <2>1. /\ y' = IF im.win THEN y + im.win_delta_y ELSE y
        /\ keyboards' = [keyboards EXCEPT ![k] = "closes"]
        /\ im' = [im EXCEPT !.keyboard = NoKeyboard, !.widget = NoWidget, !.win = FALSE]
        /\ pushes' = pushes
        BY <1>5 DEF IdleClose, k, w
  <2>2. /\ im' \in ImType /\ im'.keyboard = NoKeyboard /\ im'.widget = NoWidget
        /\ im'.win = FALSE
        BY <1>1, <2>1 DEF ImType
  <2>3. /\ keyboards' \in [Keyboard -> Status] /\ y' \in Int
        /\ \A j \in Keyboard : keyboards'[j] = IF j = k THEN "closes" ELSE keyboards[j]
        BY <1>1, <1>3, <2>1 DEF TypeOK, Status
  <2>4. TypeOK'
        BY <1>1, <1>2, <2>1, <2>2, <2>3 DEF TypeOK, ImType, Status
  <2>5. Sound(State)'
    <3>1. State' \in States
          BY <2>4 DEF TypeOK, State, States, ImType, Status
    <3>2. \A j \in Keyboard : keyboards'[j] \in Shown <=> j = im'.keyboard
          BY <1>1, <1>5, <2>2, <2>3, StateFields DEF Sound, Shown, Keyboard, NoKeyboard
    <3>3. \A i \in 1 .. Len(idles') : /\ idles'[i].does = "close"
                                      /\ idles'[i].keyboard /= im'.keyboard
      <4> SUFFICES ASSUME NEW i \in 1 .. Len(idles')
                   PROVE idles'[i].does = "close" /\ idles'[i].keyboard /= im'.keyboard
          OBVIOUS
      <4>1. idles'[i] = idles[i] /\ idles'[i] \in Idle /\ i \in 1 .. n
            BY <1>2
      <4>2. idles'[i].keyboard \in Keyboard
            BY <4>1 DEF Idle
      <4>3. QED BY <1>4, <2>2, <4>1, <4>2 DEF Keyboard, NoKeyboard
    <3>4. QED BY <3>1, <3>2, <3>3 DEF Sound, State
  <2>6. ASSUME OncePerRound PROVE Follows(State, focus)'
    <3>1. Closes(State, n) /\ n \in 1 .. Len(State.idles)
          BY <1>2, <1>3, <1>5, StateFields DEF Closes, n
    <3>2. focus \notin Edit
          BY <2>6, <3>1 DEF KeyboardInv, Follows
    <3>3. QED BY <2>2, <3>2 DEF Follows, State
  <2>7. ASSUME DefaultHeight = NumericHeight PROVE Pushed(State)'
    <3>1. Pushed(State) /\ pushes \subseteq Keyboard
          BY <1>1, <2>7 DEF KeyboardInv, TypeOK
    <3>2. keyboards[k] = "open"
          BY <1>1, <1>2, <1>3, <1>5, StateFields DEF Sound, n
    <3>3. pushes = {}
          BY <1>1, <1>5, <3>1, <3>2, StateFields DEF Pushed, Sound, Shown
    <3>4. DefaultHeight \in Nat
          BY InputMethodAssumption
    <3>5. /\ im.win => im.win_delta_y = DefaultHeight /\ y = 0 - DefaultHeight
          /\ ~im.win => y = 0
          BY <3>1, <3>3, StateFields DEF Pushed
    <3>6. y' = 0
          BY <2>1, <3>4, <3>5
    <3>7. QED BY <2>1, <2>2, <3>3, <3>6 DEF Pushed, State
  <2>8. QED BY <2>4, <2>5, <2>6, <2>7 DEF KeyboardInv
<1>6. CASE ~(im.keyboard = k /\ im.widget = w)
  <2>1. im' = im /\ y' = y /\ keyboards' = keyboards /\ pushes' = pushes
        BY <1>6 DEF IdleClose, k, w
  <2>2. TypeOK'
        BY <1>1, <1>2, <2>1 DEF TypeOK
  <2>3. Sound(State)'
    <3>1. State' \in States
          BY <2>2 DEF TypeOK, State, States, ImType, Status
    <3>2. \A i \in 1 .. Len(idles') : idles'[i] = idles[i] /\ i \in 1 .. n
          BY <1>2
    <3>3. \A i \in 1 .. Len(idles') :
            /\ idles'[i].does = "close"
            /\ idles'[i].keyboard = im.keyboard => keyboards[im.keyboard] = "open"
          BY <1>1, <1>4, <3>2, StateFields DEF Sound, n
    <3>4. QED BY <1>1, <2>1, <3>1, <3>3, StateFields DEF Sound, State
  <2>4. ASSUME OncePerRound PROVE Follows(State, focus)'
    <3>1. Follows(State, focus)
          BY <2>4 DEF KeyboardInv
    <3>2. ~Closes(State, n)
          BY <1>3, <1>6, StateFields DEF Closes
    <3>3. \A i \in 1 .. n - 1 : Closes(State, i)' <=> Closes(State, i)
          BY <1>2, <2>1 DEF Closes, State
    <3>4. /\ State'.im = im /\ Len(State'.idles) = n - 1 /\ State.im = im
          /\ Len(State.idles) = n
          BY <1>2, <2>1 DEF State, n
    <3>5. CASE focus \in Edit
      <4>1. \A i \in 1 .. n : ~Closes(State, i)
            BY <3>1, <3>4, <3>5 DEF Follows
      <4>2. \A i \in 1 .. n - 1 : ~Closes(State, i)'
            BY <1>2, <3>3, <4>1
      <4>3. QED BY <3>1, <3>4, <3>5, <4>2 DEF Follows
    <3>6. CASE focus \notin Edit
      <4>1. CASE \E i \in 1 .. n : Closes(State, i)
        <5>1. \E i \in 1 .. n - 1 : Closes(State, i)'
              BY <1>2, <3>2, <3>3, <4>1
        <5>2. QED BY <3>4, <3>6, <5>1 DEF Follows
      <4>2. CASE im.widget = NoWidget /\ im.keyboard = NoKeyboard
            BY <3>4, <3>6, <4>2 DEF Follows
      <4>3. QED BY <3>1, <3>4, <3>6, <4>1, <4>2 DEF Follows
    <3>7. QED BY <3>5, <3>6
  <2>5. ASSUME DefaultHeight = NumericHeight PROVE Pushed(State)'
        BY <2>1, <2>5 DEF KeyboardInv, Pushed, State
  <2>6. QED BY <2>2, <2>3, <2>4, <2>5 DEF KeyboardInv
<1>7. QED BY <1>5, <1>6

(* The loop turns to its idles or back, or nothing happens at all.         *)
LEMMA KeyboardKeeps ==
    ASSUME KeyboardInv, UNCHANGED <<im, y, keyboards, pushes, idles, focus>>,
           phase' \in {"events", "idle"}
    PROVE  KeyboardInv'
<1>1. State' = State
      BY DEF State
<1>2. TypeOK'
      BY DEF KeyboardInv, TypeOK
<1>3. QED BY <1>1, <1>2 DEF KeyboardInv, Sound, Follows, Closes, Pushed

LEMMA KeyboardRunIdle ==
    ASSUME KeyboardInv, RunIdle
    PROVE  KeyboardInv'
<1> DEFINE k == Last(idles).keyboard
           n == Len(idles)
<1>1. /\ Sound(State) /\ idles \in Seq(Idle) /\ idles /= << >> /\ idles' = Front(idles)
      /\ focus' = focus /\ phase' = phase
      BY DEF KeyboardInv, TypeOK, RunIdle
<1>2. /\ idles' \in Seq(Idle) /\ n \in Nat \ {0} /\ Len(idles') = n - 1
      /\ \A i \in 1 .. n - 1 : idles'[i] = idles[i]
      /\ Last(idles) = idles[n] /\ Last(idles) \in Idle
      BY <1>1, FrontIdles
<1>3. CASE Last(idles).does = "open"
  <2>1. IdleOpen(k)
        BY <1>3 DEF RunIdle
  <2>2. k \in Keyboard /\ keyboards[k] = "opening"
        BY <1>1, <1>2, <1>3, StateFields DEF Sound, Idle
  <2>3. \A i \in 1 .. n - 1 : idles[i].does = "close"
    <3> SUFFICES ASSUME NEW i \in 1 .. n - 1 PROVE idles[i].does = "close"
        OBVIOUS
    <3>1. idles[i] \in Idle /\ i \in 1 .. n /\ i /= n
          BY <1>1, <1>2
    <3>2. idles[i].does /= "open"
          BY <1>1, <3>1, StateFields DEF Sound
    <3>3. QED BY <3>1, <3>2 DEF Idle
  <2>4. /\ \/ Opened(k)
           \/ keyboards' = [keyboards EXCEPT ![k] = "opens"] /\ y' = y /\ pushes' = pushes
        /\ im' = im
        BY <2>1 DEF IdleOpen
  <2> HIDE DEF k
  <2>5. /\ Len(idles') <= n
        /\ \A i \in 1 .. Len(idles') : idles'[i] = idles[i] /\ idles[i].does = "close"
        /\ \A i \in 1 .. n : idles[i].does = "close" => i <= Len(idles')
        BY <1>2, <1>3, <2>3
  <2>6. QED BY <1>1, <1>2, <2>2, <2>4, <2>5, KeyboardOpens
<1>4. CASE Last(idles).does = "close"
  <2>1. IdleClose(Last(idles).keyboard, Last(idles).widget)
        BY <1>4 DEF RunIdle
  <2>2. QED BY <1>1, <1>4, <2>1, KeyboardCloses
<1>5. QED BY <1>2, <1>3, <1>4 DEF Idle

LEMMA KeyboardAnimationEnds ==
    ASSUME KeyboardInv, NEW k \in Keyboard, AnimationEnds(k)
    PROVE  KeyboardInv'
<1>1. /\ TypeOK /\ Sound(State) /\ idles = << >> /\ Len(idles) = 0
      /\ im' = im /\ idles' = idles /\ focus' = focus /\ phase' = phase
      BY DEF KeyboardInv, AnimationEnds
<1>2. CASE keyboards[k] = "opens" /\ Opened(k)
      BY <1>1, <1>2, KeyboardOpens DEF TypeOK
<1>3. CASE /\ keyboards[k] = "closes"
           /\ keyboards' = [keyboards EXCEPT ![k] = "closed"]
           /\ UNCHANGED <<y, pushes>>
  <2>1. TypeOK'
        BY <1>1, <1>3 DEF TypeOK
  <2>2. \A j \in Keyboard : keyboards'[j] = IF j = k THEN "closed" ELSE keyboards[j]
        BY <1>1, <1>3 DEF TypeOK
  <2>3. Sound(State)'
    <3>1. State' \in States
          BY <2>1 DEF TypeOK, State, States, ImType, Status
    <3>2. \A j \in Keyboard : keyboards'[j] \in Shown <=> j = im'.keyboard
          BY <1>1, <1>3, <2>2, StateFields DEF Sound, Shown
    <3>3. QED BY <1>1, <3>1, <3>2 DEF Sound, State
  <2>4. ASSUME OncePerRound PROVE Follows(State, focus)'
    <3>1. Follows(State, focus) /\ Len(State.idles) = 0 /\ Len(State'.idles) = 0
          BY <1>1, <2>4 DEF KeyboardInv, State
    <3>2. State'.im = im /\ State.im = im
          BY <1>1 DEF State
    <3>3. QED BY <1>1, <3>1, <3>2 DEF Follows
  <2>5. ASSUME DefaultHeight = NumericHeight PROVE Pushed(State)'
    <3>1. Pushed(State) /\ pushes \subseteq Keyboard
          BY <1>1, <2>5 DEF KeyboardInv, TypeOK
    <3>2. \A j \in pushes : keyboards'[j] \in {"opening", "opens"}
          BY <1>3, <2>2, <3>1, StateFields DEF Pushed
    <3>3. QED BY <1>1, <1>3, <3>1, <3>2 DEF Pushed, State
  <2>6. QED BY <2>1, <2>3, <2>4, <2>5 DEF KeyboardInv
<1>4. QED BY <1>2, <1>3 DEF AnimationEnds

LEMMA KeyboardNext == KeyboardInv /\ [Next]_vars => KeyboardInv'
<1> SUFFICES ASSUME KeyboardInv, [Next]_vars PROVE KeyboardInv'
    OBVIOUS
<1>1. CASE UNCHANGED vars
      BY <1>1, KeyboardKeeps DEF vars, KeyboardInv, TypeOK
<1>2. ASSUME NEW w \in Edit \cup {Other}, Press(w) PROVE KeyboardInv'
      BY <1>2, KeyboardPress
<1>3. CASE IdleDispatch \/ IdleDone
      BY <1>3, KeyboardKeeps DEF IdleDispatch, IdleDone
<1>4. CASE RunIdle
      BY <1>4, KeyboardRunIdle
<1>5. ASSUME NEW k \in Keyboard, AnimationEnds(k) PROVE KeyboardInv'
      BY <1>5, KeyboardAnimationEnds
<1>6. QED BY <1>1, <1>2, <1>3, <1>4, <1>5 DEF Next, Loop

LEMMA KeyboardAlways == Spec => []KeyboardInv
BY KeyboardInit, KeyboardNext, PTL DEF Spec
-----------------------------------------------------------------------------
(* The fields of the input method keep their types.                        *)
THEOREM InputMethodTypeCorrect == Spec => []TypeOK
<1>1. KeyboardInv => TypeOK
      BY DEF KeyboardInv
<1>2. QED BY <1>1, KeyboardAlways, PTL

(* input_method_default.inc never loses a keyboard window that is on the   *)
(* screen, also when the focus moves several times in one round.           *)
THEOREM NoOrphanCorrect == Spec => []NoOrphan
<1>1. KeyboardInv => NoOrphan
      BY StateFields DEF KeyboardInv, Sound, NoOrphan, Shown
<1>2. QED BY <1>1, KeyboardAlways, PTL

(* If the focus moves at most once per round of the loop, the keyboard     *)
(* that is shown at rest is that of the focused edit.                      *)
THEOREM FollowsCorrect ==
    ASSUME OncePerRound
    PROVE  Spec => []KeyboardFollowsFocus
<1>1. ASSUME KeyboardInv PROVE KeyboardFollowsFocus
  <2> SUFFICES ASSUME AtRest
               PROVE  IF focus \in Edit
                      THEN /\ im.widget = focus /\ im.keyboard /= NoKeyboard
                           /\ keyboards[im.keyboard] = "open"
                           /\ im.input_type = TypeOf(focus)
                      ELSE im.widget = NoWidget /\ im.keyboard = NoKeyboard
      BY DEF KeyboardFollowsFocus
  <2>1. Follows(State, focus) /\ Sound(State) /\ Len(idles) = 0 /\ im \in ImType
        BY <1>1 DEF KeyboardInv, AtRest, TypeOK, ImType
  <2>2. im.keyboard \in Keyboard => keyboards[im.keyboard] = "open"
        BY <2>1, StateFields DEF Sound, Shown, AtRest, Opening
  <2>3. QED BY <2>1, <2>2, StateFields DEF Follows, ImType
<1>2. QED BY <1>1, KeyboardAlways, PTL

(* If all keyboards are equally high the window of the edits is back in    *)
(* its place when no keyboard is shown, however often it was pushed up and *)
(* whichever keyboard replaced which.                                      *)
THEOREM WindowComesBackCorrect == Spec => []WindowComesBack
<1>1. KeyboardInv => WindowComesBack
      BY StateFields DEF KeyboardInv, Pushed, WindowComesBack
<1>2. QED BY <1>1, KeyboardAlways, PTL
==============================================================================
