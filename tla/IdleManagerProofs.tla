------------------------- MODULE IdleManagerProofs -------------------------
(***************************************************************************)
(* Proofs that nested dispatches neither lose an idle nor run it twice,    *)
(* for any number of idles and any depth of nesting.                       *)
(*                                                                         *)
(* Places are compared through the sets of ids that the arrays and the     *)
(* running callbacks hold.                                                 *)
(***************************************************************************)
EXTENDS IdleManager, SequenceTheorems, TLAPS

Members(q) == {q[i] : i \in 1 .. Len(q)}

Unique(q) == \A i, j \in 1 .. Len(q) : q[i] = q[j] => i = j

LEMMA AppendMembers ==
    ASSUME NEW S, NEW q \in Seq(S), NEW e \in S
    PROVE  /\ Append(q, e) \in Seq(S)
           /\ Members(Append(q, e)) = Members(q) \cup {e}
           /\ Unique(q) /\ e \notin Members(q) => Unique(Append(q, e))
<1>1. /\ Append(q, e) \in Seq(S) /\ Len(q) \in Nat
      /\ Len(Append(q, e)) = Len(q) + 1
      /\ Append(q, e)[Len(q) + 1] = e
      /\ \A i \in 1 .. Len(q) : Append(q, e)[i] = q[i]
      OBVIOUS
<1> DEFINE r == Append(q, e)
<1> HIDE DEF r
<1>2. Members(r) = Members(q) \cup {e}
      BY <1>1 DEF Members, r
<1>3. ASSUME Unique(q), e \notin Members(q) PROVE Unique(r)
      BY <1>1, <1>3 DEF Unique, Members, r
<1>4. QED BY <1>1, <1>2, <1>3 DEF r

LEMMA FrontMembers ==
    ASSUME NEW S, NEW q \in Seq(S), q /= << >>
    PROVE  /\ Front(q) \in Seq(S) /\ Last(q) \in S
           /\ Len(q) \in Nat \ {0} /\ Len(Front(q)) = Len(q) - 1
           /\ \A i \in 1 .. Len(q) - 1 : Front(q)[i] = q[i]
           /\ Last(q) = q[Len(q)]
           /\ Members(q) = Members(Front(q)) \cup {Last(q)}
           /\ Unique(q) => Unique(Front(q)) /\ Last(q) \notin Members(Front(q))
<1> DEFINE n == Len(q) - 1
           r == SubSeq(q, 1, n)
<1>1. Len(q) \in Nat \ {0} /\ q[Len(q)] \in S
      BY EmptySeq
<1>2. n \in Int /\ 1 \in Int /\ n >= 0 /\ \A i \in 1 .. n : q[i] \in S
      BY <1>1
<1>3. r \in Seq(S) /\ Len(r) = n /\ \A i \in 1 .. n : r[i] = q[i]
  <2> HIDE DEF n
  <2>1. /\ SubSeq(q, 1, n) \in Seq(S)
        /\ Len(SubSeq(q, 1, n)) = IF 1 <= n THEN n - 1 + 1 ELSE 0
        /\ \A i \in 1 .. n - 1 + 1 : SubSeq(q, 1, n)[i] = q[1 + i - 1]
        BY <1>2, SubSeqProperties
  <2>2. QED BY <1>2, <2>1
<1>4. Front(q) = r /\ Last(q) = q[Len(q)]
      BY DEF Front, Last
<1> HIDE DEF r
<1>5. Members(q) = Members(r) \cup {q[Len(q)]}
      BY <1>1, <1>3 DEF Members
<1>6. Unique(q) => Unique(r) /\ q[Len(q)] \notin Members(r)
      BY <1>1, <1>3 DEF Unique, Members
<1>7. QED BY <1>1, <1>3, <1>4, <1>5, <1>6

LEMMA RemoveAtMembers ==
    ASSUME NEW S, NEW q \in Seq(S), NEW i \in 1 .. Len(q)
    PROVE  /\ RemoveAt(q, i) \in Seq(S)
           /\ Unique(q) => /\ Members(RemoveAt(q, i)) = Members(q) \ {q[i]}
                           /\ Unique(RemoveAt(q, i))
<1> DEFINE u == SubSeq(q, 1, i - 1)
           v == SubSeq(q, i + 1, Len(q))
           r == RemoveAt(q, i)
<1>1. Len(q) \in Nat /\ i \in Nat /\ 1 <= i /\ i <= Len(q) /\ \A j \in 1 .. Len(q) : q[j] \in S
      OBVIOUS
<1>2. /\ u \in Seq(S) /\ Len(u) = i - 1
      /\ \A j \in 1 .. i - 1 : u[j] = q[j]
  <2> DEFINE n == i - 1
  <2>1. n \in Int /\ 1 \in Int /\ \A j \in 1 .. n : q[j] \in S
        BY <1>1
  <2> HIDE DEF n
  <2>2. /\ SubSeq(q, 1, n) \in Seq(S)
        /\ Len(SubSeq(q, 1, n)) = IF 1 <= n THEN n - 1 + 1 ELSE 0
        /\ \A j \in 1 .. n - 1 + 1 : SubSeq(q, 1, n)[j] = q[1 + j - 1]
        BY <2>1, SubSeqProperties
  <2>3. QED BY <1>1, <2>1, <2>2 DEF n
<1>3. /\ v \in Seq(S) /\ Len(v) = Len(q) - i
      /\ \A j \in 1 .. Len(q) - i : v[j] = q[i + j]
  <2> DEFINE m == i + 1
             n == Len(q)
  <2>1. n \in Int /\ m \in Int /\ \A j \in m .. n : q[j] \in S
        BY <1>1
  <2>2. m <= n + 1
        BY <1>1
  <2> HIDE DEF n, m
  <2>3. /\ SubSeq(q, m, n) \in Seq(S)
        /\ Len(SubSeq(q, m, n)) = IF m <= n THEN n - m + 1 ELSE 0
        /\ \A j \in 1 .. n - m + 1 : SubSeq(q, m, n)[j] = q[m + j - 1]
        BY <2>1, SubSeqProperties
  <2>4. Len(SubSeq(q, m, n)) = n - m + 1
        BY <2>1, <2>2, <2>3
  <2>5. QED BY <1>1, <2>3, <2>4 DEF n, m
<1>4. r = u \o v
      BY DEF RemoveAt
<1> HIDE DEF u, v, r
<1>5. /\ r \in Seq(S) /\ Len(r) = Len(q) - 1
      /\ \A j \in 1 .. Len(r) : r[j] = IF j < i THEN q[j] ELSE q[j + 1]
  <2>1. /\ r \in Seq(S) /\ Len(r) = Len(u) + Len(v)
        /\ \A j \in 1 .. Len(u) + Len(v) : r[j] = IF j <= Len(u) THEN u[j] ELSE v[j - Len(u)]
        BY <1>2, <1>3, <1>4, ConcatProperties
  <2>2. QED BY <1>1, <1>2, <1>3, <2>1
<1>6. ASSUME Unique(q)
      PROVE  Members(r) = Members(q) \ {q[i]} /\ Unique(r)
  <2>1. \A j \in 1 .. Len(r) : \E l \in 1 .. Len(q) : l /= i /\ r[j] = q[l]
        BY <1>1, <1>5
  <2>2. \A l \in 1 .. Len(q) : l /= i => \E j \in 1 .. Len(r) : r[j] = q[l]
    <3> SUFFICES ASSUME NEW l \in 1 .. Len(q), l /= i
                 PROVE  \E j \in 1 .. Len(r) : r[j] = q[l]
        OBVIOUS
    <3>1. CASE l < i
          BY <1>1, <1>5, <3>1
    <3>2. CASE l > i
      <4>1. l - 1 \in 1 .. Len(r) /\ r[l - 1] = q[l - 1 + 1] /\ l - 1 + 1 = l
            BY <1>1, <1>5, <3>2
      <4>2. QED BY <4>1
    <3>3. QED BY <1>1, <3>1, <3>2
  <2>3. Members(r) = Members(q) \ {q[i]}
    <3>1. \A l \in 1 .. Len(q) : l /= i => q[l] /= q[i]
          BY <1>6 DEF Unique
    <3>2. ASSUME NEW e \in Members(r) PROVE e \in Members(q) \ {q[i]}
      <4>1. PICK j \in 1 .. Len(r) : e = r[j]
            BY <3>2 DEF Members
      <4>2. PICK l \in 1 .. Len(q) : l /= i /\ r[j] = q[l]
            BY <2>1
      <4>3. QED BY <3>1, <4>1, <4>2 DEF Members
    <3>3. ASSUME NEW e \in Members(q) \ {q[i]} PROVE e \in Members(r)
      <4>1. PICK l \in 1 .. Len(q) : e = q[l] /\ l /= i
            BY <3>3 DEF Members
      <4>2. QED BY <2>2, <4>1 DEF Members
    <3>4. QED BY <3>2, <3>3
  <2>4. Unique(r)
        BY <1>1, <1>5, <1>6 DEF Unique
  <2>5. QED BY <2>3, <2>4
<1>7. QED BY <1>5, <1>6 DEF r
-----------------------------------------------------------------------------
(* No two callbacks that are running are for the same idle.                *)
UniqueRunning ==
    \A i, j \in 1 .. Len(stack) :
       stack[i].iter = stack[j].iter /\ stack[i].iter /= None => i = j

(* Arrays and running callbacks hold different idles, which are allocated, *)
(* and together they hold all of them.                                     *)
Placed == /\ \A a \in {0, 1} : /\ Unique(idles[a])
                               /\ Members(idles[a]) \cap Running = {}
                               /\ Members(idles[a]) \cap Members(idles[Other(a)]) = {}
                               /\ Members(idles[a]) \subseteq live
          /\ UniqueRunning
          /\ Running \subseteq live
          /\ exists => live \subseteq Members(idles[0]) \cup Members(idles[1]) \cup Running

(* A dispatch runs only while the manager exists.                          *)
Attached == stack /= << >> => exists

IdleInv == TypeOK /\ Placed /\ Attached

LEMMA IdleInit == Init => IdleInv
<1> SUFFICES ASSUME Init PROVE IdleInv
    OBVIOUS
<1>1. TypeOK
  <2>1. << >> \in Seq(Id) /\ << >> \in Seq(Frame) /\ Len(<< >>) = 0
        OBVIOUS
  <2>2. 1 \in 1 .. MaxId + 1 /\ 0 <= MaxDepth
        BY IdleAssumption
  <2>3. QED BY <2>1, <2>2 DEF Init, TypeOK
<1>2. Len(stack) = 0 /\ \A a \in {0, 1} : idles[a] = << >> /\ Len(idles[a]) = 0
      BY DEF Init
<1>3. Running = {} /\ UniqueRunning /\ \A a \in {0, 1} : Members(idles[a]) = {} /\ Unique(idles[a])
      BY <1>2 DEF Running, UniqueRunning, Members, Unique
<1>4. QED BY <1>1, <1>3 DEF IdleInv, Placed, Init, Other, Attached

(* The stack with the top frame's iter replaced.                           *)
LEMMA SetTopStack ==
    ASSUME TypeOK, stack /= << >>, NEW x \in Id \cup {None}
    PROVE  /\ Len(stack) \in Nat \ {0} /\ Top = stack[Len(stack)] /\ Top \in Frame
           /\ SetTop(x) \in Seq(Frame) /\ Len(SetTop(x)) = Len(stack)
           /\ \A i \in 1 .. Len(stack) :
                /\ SetTop(x)[i].iter = IF i = Len(stack) THEN x ELSE stack[i].iter
                /\ SetTop(x)[i].array = stack[i].array /\ SetTop(x)[i].owed = stack[i].owed
<1>1. stack \in Seq(Frame) /\ Len(stack) \in Nat \ {0}
      BY EmptySeq DEF TypeOK
<1>2. \A i \in 1 .. Len(stack) : stack[i] \in Frame
      BY <1>1
<1>3. [stack[Len(stack)] EXCEPT !.iter = x] \in Frame
      /\ [stack[Len(stack)] EXCEPT !.iter = x].iter = x
      /\ [stack[Len(stack)] EXCEPT !.iter = x].array = stack[Len(stack)].array
      /\ [stack[Len(stack)] EXCEPT !.iter = x].owed = stack[Len(stack)].owed
      BY <1>1, <1>2 DEF Frame
<1>4. SetTop(x) = [stack EXCEPT ![Len(stack)] = [stack[Len(stack)] EXCEPT !.iter = x]]
      BY DEF SetTop
<1>5. SetTop(x) \in Seq(Frame) /\ Len(SetTop(x)) = Len(stack)
      BY <1>1, <1>3, <1>4
<1>6. QED BY <1>1, <1>2, <1>3, <1>4, <1>5 DEF Top

LEMMA ServedStack ==
    ASSUME NEW s \in Seq(Frame), NEW ids
    PROVE  /\ Served(s, ids) \in Seq(Frame) /\ Len(Served(s, ids)) = Len(s)
           /\ \A i \in 1 .. Len(s) : /\ Served(s, ids)[i].iter = s[i].iter
                                      /\ Served(s, ids)[i].array = s[i].array
                                      /\ Served(s, ids)[i].owed = s[i].owed \ ids
<1>1. \A i \in 1 .. Len(s) : s[i] \in Frame
      OBVIOUS
<1>2. \A i \in 1 .. Len(s) : /\ [s[i] EXCEPT !.owed = @ \ ids] \in Frame
                             /\ [s[i] EXCEPT !.owed = @ \ ids].iter = s[i].iter
                             /\ [s[i] EXCEPT !.owed = @ \ ids].array = s[i].array
                             /\ [s[i] EXCEPT !.owed = @ \ ids].owed = s[i].owed \ ids
      BY <1>1 DEF Frame
<1>3. Len(s) \in Nat
      OBVIOUS
<1> DEFINE r == [i \in 1 .. Len(s) |-> [s[i] EXCEPT !.owed = @ \ ids]]
<1>4. /\ r \in [1 .. Len(s) -> Frame]
      /\ \A i \in 1 .. Len(s) : /\ r[i].iter = s[i].iter /\ r[i].array = s[i].array
                                 /\ r[i].owed = s[i].owed \ ids
      BY <1>2
<1>5. Served(s, ids) = r
      BY DEF Served
<1> HIDE DEF r
<1>6. r \in Seq(Frame) /\ Len(r) = Len(s)
      BY <1>3, <1>4, SeqDef, LenProperties
<1>7. QED BY <1>4, <1>5, <1>6

(* Running callbacks, when their number stays the same.                    *)
LEMMA RunningStep ==
    ASSUME TypeOK, Placed, stack' \in Seq(Frame), stack /= << >>, Len(stack') = Len(stack),
           NEW x \in Id \cup {None}, x \notin Running,
           \A i \in 1 .. Len(stack) :
              stack'[i].iter = IF i = Len(stack) THEN x ELSE stack[i].iter
    PROVE  UniqueRunning' /\ Running' = (Running \ {Top.iter}) \cup ({x} \ {None})
<1>1. Len(stack) \in Nat \ {0} /\ UniqueRunning
      BY EmptySeq DEF TypeOK, Placed
<1>2. UniqueRunning'
      BY <1>1 DEF UniqueRunning, Running
<1>3. Running' = (Running \ {Top.iter}) \cup ({x} \ {None})
  <2>1. ASSUME NEW e \in Running' PROVE e \in (Running \ {Top.iter}) \cup ({x} \ {None})
    <3>1. PICK i \in 1 .. Len(stack) : e = stack'[i].iter /\ e /= None
          BY <2>1 DEF Running
    <3>2. CASE i = Len(stack)
          BY <3>1, <3>2
    <3>3. CASE i /= Len(stack)
      <4>1. e = stack[i].iter /\ e \in Running
            BY <3>1, <3>3 DEF Running
      <4>2. e /= Top.iter
            BY <1>1, <3>1, <3>3, <4>1 DEF UniqueRunning, Top
      <4>3. QED BY <4>1, <4>2
    <3>4. QED BY <3>2, <3>3
  <2>2. ASSUME NEW e \in Running, e /= Top.iter PROVE e \in Running'
    <3>1. PICK i \in 1 .. Len(stack) : e = stack[i].iter /\ e /= None
          BY <2>2 DEF Running
    <3>2. i /= Len(stack)
          BY <2>2, <3>1 DEF Top
    <3>3. QED BY <3>1, <3>2 DEF Running
  <2>3. ASSUME x /= None PROVE x \in Running'
    <3>1. Len(stack) \in 1 .. Len(stack) /\ stack'[Len(stack)].iter = x
          BY <1>1
    <3>2. QED BY <2>3, <3>1 DEF Running
  <2>4. QED BY <2>1, <2>2, <2>3
<1>4. QED BY <1>2, <1>3

LEMMA RunningSame ==
    ASSUME Placed, Len(stack') = Len(stack),
           \A i \in 1 .. Len(stack) : stack'[i].iter = stack[i].iter
    PROVE  UniqueRunning' /\ Running' = Running
BY DEF Placed, UniqueRunning, Running

LEMMA Arrays ==
    \A a \in {0, 1} : Other(a) \in {0, 1} /\ Other(a) /= a /\ Other(Other(a)) = a
                     /\ \A b \in {0, 1} : b = a \/ b = Other(a)
BY DEF Other

(* What an action must establish when it changes one array only.           *)
LEMMA PlacedOneArray ==
    ASSUME TypeOK, Placed, NEW a \in {0, 1}, NEW r \in Seq(Id),
           idles' = [idles EXCEPT ![a] = r],
           Unique(r), UniqueRunning',
           Members(r) \cap Running' = {},
           Members(r) \cap Members(idles[Other(a)]) = {},
           Members(idles[Other(a)]) \cap Running' = {},
           Members(r) \cup Members(idles[Other(a)]) \cup Running' = live'
    PROVE  Placed' /\ idles' \in [{0, 1} -> Seq(Id)]
<1>1. /\ idles \in [{0, 1} -> Seq(Id)] /\ idles' \in [{0, 1} -> Seq(Id)]
      /\ idles'[a] = r /\ idles'[Other(a)] = idles[Other(a)]
      BY Arrays DEF TypeOK
<1>2. /\ Unique(idles[Other(a)])
      /\ Members(idles'[a]) = Members(r) /\ Members(idles'[Other(a)]) = Members(idles[Other(a)])
      BY <1>1, Arrays DEF Placed
<1>3. Members(idles'[0]) \cup Members(idles'[1]) \cup Running' = live'
      BY <1>2, Arrays
<1>4. \A b \in {0, 1} : /\ Unique(idles'[b])
                        /\ Members(idles'[b]) \cap Running' = {}
                        /\ Members(idles'[b]) \cap Members(idles'[Other(b)]) = {}
                        /\ Members(idles'[b]) \subseteq live'
      BY <1>1, <1>2, <1>3, Arrays
<1>5. QED BY <1>1, <1>3, <1>4 DEF Placed

(* The allocated idles, once more, as a union.                             *)
LEMMA AllPlaced ==
    ASSUME TypeOK, Placed, exists, NEW a \in {0, 1}
    PROVE  /\ live = Members(idles[a]) \cup Members(idles[Other(a)]) \cup Running
           /\ Members(idles[a]) \cap Members(idles[Other(a)]) = {}
           /\ Members(idles[a]) \cap Running = {} /\ Members(idles[Other(a)]) \cap Running = {}
           /\ Unique(idles[a]) /\ idles[a] \in Seq(Id) /\ idles[Other(a)] \in Seq(Id)
           /\ UniqueRunning
BY Arrays DEF Placed, TypeOK

LEMMA AddStep == ASSUME IdleInv, NEW id \in Id, ManagerAdd(id) PROVE IdleInv'
<1>1. exists /\ TypeOK /\ Placed /\ active \in {0, 1}
      BY DEF IdleInv, ManagerAdd, InUserCode, TypeOK
<1> DEFINE r == Append(idles[active], id)
<1>2. id \notin live /\ live \subseteq Id /\ live' \subseteq Id
      BY <1>1 DEF TypeOK, ManagerAdd
<1>3. live = Members(idles[active]) \cup Members(idles[Other(active)]) \cup Running
      BY <1>1, AllPlaced
<1>4. r \in Seq(Id) /\ Members(r) = Members(idles[active]) \cup {id} /\ Unique(r)
      BY <1>1, <1>2, <1>3, AllPlaced, AppendMembers
<1>5. UniqueRunning' /\ Running' = Running
      BY <1>1, RunningSame DEF ManagerAdd
<1>6. idles' = [idles EXCEPT ![active] = r] /\ live' = live \cup {id}
      BY <1>1 DEF ManagerAdd
<1> HIDE DEF r
<1>7. Placed' /\ idles' \in [{0, 1} -> Seq(Id)]
  <2>1. /\ live = Members(idles[active]) \cup Members(idles[Other(active)]) \cup Running
        /\ Members(idles[active]) \cap Members(idles[Other(active)]) = {}
        /\ Members(idles[active]) \cap Running = {}
        /\ Members(idles[Other(active)]) \cap Running = {}
        BY <1>1, <1>2, AllPlaced
  <2>2. /\ Members(r) \cap Running' = {}
        /\ Members(r) \cap Members(idles[Other(active)]) = {}
        /\ Members(idles[Other(active)]) \cap Running' = {}
        /\ Members(r) \cup Members(idles[Other(active)]) \cup Running' = live'
        BY <2>1, <1>2, <1>4, <1>5, <1>6
  <2>3. QED BY <1>1, <1>4, <1>5, <1>6, <2>2, PlacedOneArray
<1>8. TypeOK'
      BY <1>1, <1>2, <1>7 DEF TypeOK, ManagerAdd
<1>9. QED BY <1>1, <1>7, <1>8 DEF IdleInv, Attached, ManagerAdd

LEMMA RemoveStep == ASSUME IdleInv, NEW id \in Id, ManagerRemove(id) PROVE IdleInv'
<1>1. exists /\ TypeOK /\ Placed
      BY DEF IdleInv, ManagerRemove, InUserCode
<1>a. PICK a \in {0, 1} : \E i \in 1 .. Len(idles[a]) :
         idles[a][i] = id /\ idles' = [idles EXCEPT ![a] = RemoveAt(idles[a], i)]
      BY DEF ManagerRemove
<1>2. PICK i \in 1 .. Len(idles[a]) :
         idles[a][i] = id /\ idles' = [idles EXCEPT ![a] = RemoveAt(idles[a], i)]
      BY <1>a
<1>3. idles[a] \in Seq(Id) /\ Unique(idles[a]) /\ id \in Members(idles[a])
      BY <1>1, <1>2, AllPlaced DEF Members
<1> DEFINE r == RemoveAt(idles[a], i)
<1>4. r \in Seq(Id) /\ Members(r) = Members(idles[a]) \ {id} /\ Unique(r)
      BY <1>2, <1>3, RemoveAtMembers
<1>5. stack' \in Seq(Frame) /\ Len(stack') = Len(stack)
      /\ \A k \in 1 .. Len(stack) : stack'[k].iter = stack[k].iter
      BY <1>1, ServedStack DEF ManagerRemove, TypeOK
<1>6. UniqueRunning' /\ Running' = Running
      BY <1>1, <1>5, RunningSame
<1>7. live' = live \ {id} /\ idles' = [idles EXCEPT ![a] = r]
      BY <1>2 DEF ManagerRemove, Destroy
<1> HIDE DEF r
<1>8. Placed' /\ idles' \in [{0, 1} -> Seq(Id)]
  <2>1. /\ live = Members(idles[a]) \cup Members(idles[Other(a)]) \cup Running
        /\ Members(idles[a]) \cap Members(idles[Other(a)]) = {}
        /\ Members(idles[a]) \cap Running = {} /\ Members(idles[Other(a)]) \cap Running = {}
        BY <1>1, <1>2, AllPlaced
  <2>2. /\ Members(r) \cap Running' = {}
        /\ Members(r) \cap Members(idles[Other(a)]) = {}
        /\ Members(idles[Other(a)]) \cap Running' = {}
        /\ Members(r) \cup Members(idles[Other(a)]) \cup Running' = live'
        BY <2>1, <1>3, <1>4, <1>6, <1>7
  <2>3. QED BY <1>1, <1>4, <1>6, <1>7, <2>2, PlacedOneArray
<1>9. TypeOK'
      BY <1>1, <1>5, <1>7, <1>8 DEF TypeOK, ManagerRemove
<1>10. QED BY <1>1, <1>8, <1>9 DEF IdleInv, Attached, ManagerRemove

LEMMA RemoveAllStep == ASSUME IdleInv, RemoveAll PROVE IdleInv'
<1>1. exists /\ TypeOK /\ Placed /\ active \in {0, 1}
      BY DEF IdleInv, RemoveAll, InUserCode, TypeOK
<1> DEFINE r == << >>
<1>2. r \in Seq(Id) /\ Members(r) = {} /\ Unique(r)
      BY DEF Members, Unique
<1>3. stack' \in Seq(Frame) /\ Len(stack') = Len(stack)
      /\ \A k \in 1 .. Len(stack) : stack'[k].iter = stack[k].iter
      BY <1>1, ServedStack DEF RemoveAll, TypeOK
<1>4. UniqueRunning' /\ Running' = Running
      BY <1>1, <1>3, RunningSame
<1>5. live' = live \ Members(idles[active]) /\ idles' = [idles EXCEPT ![active] = r]
      BY DEF RemoveAll, Destroy, ActiveIds, Members
<1> HIDE DEF r
<1>6. Placed' /\ idles' \in [{0, 1} -> Seq(Id)]
      BY <1>1, <1>2, <1>4, <1>5, AllPlaced, PlacedOneArray
<1>7. TypeOK'
      BY <1>1, <1>3, <1>5, <1>6 DEF TypeOK, RemoveAll
<1>8. QED BY <1>1, <1>6, <1>7 DEF IdleInv, Attached, RemoveAll

LEMMA DestroyStep == ASSUME IdleInv, ManagerDestroy PROVE IdleInv'
<1>1. TypeOK /\ stack' = << >> /\ ~exists' /\ stack = << >>
      BY DEF IdleInv, ManagerDestroy, TypeOK
<1>2. Len(stack') = 0 /\ \A a \in {0, 1} : idles'[a] = << >> /\ Len(idles'[a]) = 0
      BY DEF ManagerDestroy
<1>3. /\ Running' = {} /\ UniqueRunning'
      /\ \A a \in {0, 1} : Members(idles'[a]) = {} /\ Unique(idles'[a])
      BY <1>2 DEF Running, UniqueRunning, Members, Unique
<1>4. Placed'
      BY <1>1, <1>3 DEF Placed, Other
<1>5. << >> \in Seq(Id)
      OBVIOUS
<1>6. TypeOK'
      BY <1>1, <1>5 DEF TypeOK, ManagerDestroy, Destroy
<1>7. QED BY <1>1, <1>4, <1>6 DEF IdleInv, Attached

(* Placed does not depend on the stack beyond the callbacks that run.      *)
LEMMA PlacedSameArrays ==
    ASSUME Placed, UniqueRunning', Running' = Running,
           UNCHANGED <<idles, live, exists>>
    PROVE  Placed'
BY DEF Placed

LEMMA BeginStep == ASSUME IdleInv, BeginDispatch PROVE IdleInv'
<1>1. TypeOK /\ Placed /\ active \in {0, 1} /\ stack \in Seq(Frame) /\ Len(stack) \in Nat
      BY DEF IdleInv, TypeOK
<1> DEFINE f == [array |-> active, iter |-> None, owed |-> Waiting]
<1>2. f \in Frame /\ f.iter = None
      BY <1>1 DEF Frame, Waiting
<1> HIDE DEF f
<1>3. stack' = Append(stack, f)
      BY DEF BeginDispatch, f
<1>4. /\ stack' \in Seq(Frame) /\ Len(stack') = Len(stack) + 1
      /\ stack'[Len(stack) + 1] = f
      /\ \A i \in 1 .. Len(stack) : stack'[i] = stack[i]
      BY <1>1, <1>2, <1>3
<1>5. UniqueRunning'
      BY <1>1, <1>2, <1>4 DEF UniqueRunning, Placed
<1>6. Running' = Running
      BY <1>1, <1>2, <1>4 DEF Running
<1>7. Placed'
      BY <1>1, <1>5, <1>6, PlacedSameArrays DEF BeginDispatch
<1>8. TypeOK'
      BY <1>1, <1>4, IdleAssumption DEF TypeOK, BeginDispatch
<1>9. QED BY <1>1, <1>7, <1>8 DEF IdleInv, Attached, BeginDispatch, InUserCode

LEMMA PopStep == ASSUME IdleInv, Pop PROVE IdleInv'
<1>1. TypeOK /\ Placed /\ exists /\ stack /= << >> /\ Top.iter = None /\ Top.array \in {0, 1}
      BY SetTopStack DEF IdleInv, Attached, Pop, Frame
<1> DEFINE a == Top.array
           e == Last(idles[a])
           r == Front(idles[a])
<1>2. a \in {0, 1} /\ idles[a] /= << >> /\ idles[a] \in Seq(Id) /\ Unique(idles[a])
      BY <1>1, AllPlaced DEF Pop
<1>3. /\ r \in Seq(Id) /\ Unique(r) /\ e \in Id /\ e \notin Members(r)
      /\ Members(idles[a]) = Members(r) \cup {e}
      BY <1>2, FrontMembers
<1>4. idles' = [idles EXCEPT ![a] = r] /\ live' = live /\ stack' = Served(SetTop(e), {e})
      BY DEF Pop
<1> HIDE DEF a, e, r
<1>5. e /= None /\ e \notin Running
      BY <1>1, <1>2, <1>3, AllPlaced DEF Id, None
<1>6. /\ stack' \in Seq(Frame) /\ Len(stack') = Len(stack)
      /\ \A i \in 1 .. Len(stack) : stack'[i].iter = IF i = Len(stack) THEN e ELSE stack[i].iter
      BY <1>1, <1>3, <1>4, SetTopStack, ServedStack
<1>7. UniqueRunning' /\ Running' = Running \cup {e}
  <2>1. None \notin Running
        BY DEF Running
  <2>2. QED BY <1>1, <1>3, <1>5, <1>6, <2>1, RunningStep
<1>8. Placed' /\ idles' \in [{0, 1} -> Seq(Id)]
  <2>1. /\ live = Members(idles[a]) \cup Members(idles[Other(a)]) \cup Running
        /\ Members(idles[a]) \cap Members(idles[Other(a)]) = {}
        /\ Members(idles[a]) \cap Running = {} /\ Members(idles[Other(a)]) \cap Running = {}
        BY <1>1, <1>2, AllPlaced
  <2>2. /\ Members(r) \cap Running' = {}
        /\ Members(r) \cap Members(idles[Other(a)]) = {}
        /\ Members(idles[Other(a)]) \cap Running' = {}
        /\ Members(r) \cup Members(idles[Other(a)]) \cup Running' = live'
        BY <2>1, <1>3, <1>4, <1>7
  <2>3. QED BY <1>1, <1>2, <1>3, <1>4, <1>7, <2>2, PlacedOneArray
<1>9. TypeOK'
      BY <1>1, <1>6, <1>8 DEF TypeOK, Pop
<1>10. QED BY <1>1, <1>8, <1>9 DEF IdleInv, Attached, Pop

(* The callback of the top dispatch returned.                              *)
LEMMA CallbackReturned ==
    ASSUME TypeOK, Placed, stack /= << >>, Top.iter /= None, stack' = SetTop(None)
    PROVE  /\ stack' \in Seq(Frame) /\ Len(stack') = Len(stack)
           /\ Top.array \in {0, 1} /\ Top.iter \in Id /\ Top.iter \in Running
           /\ UniqueRunning' /\ Running' = Running \ {Top.iter}
<1>1. /\ Len(stack) \in Nat \ {0} /\ Top = stack[Len(stack)] /\ Top \in Frame
      /\ stack' \in Seq(Frame) /\ Len(stack') = Len(stack)
      /\ \A i \in 1 .. Len(stack) :
           stack'[i].iter = IF i = Len(stack) THEN None ELSE stack[i].iter
      BY SetTopStack
<1>2. Top.array \in {0, 1} /\ Top.iter \in Id /\ Top.iter \in Running /\ None \notin Running
      BY <1>1 DEF Frame, Running
<1>3. UniqueRunning' /\ Running' = (Running \ {Top.iter}) \cup ({None} \ {None})
      BY <1>1, <1>2, RunningStep
<1>4. QED BY <1>1, <1>2, <1>3

LEMMA RepeatStep == ASSUME IdleInv, Repeat PROVE IdleInv'
<1>1. TypeOK /\ Placed /\ exists /\ stack /= << >> /\ Top.iter /= None /\ stack' = SetTop(None)
      BY DEF IdleInv, Attached, Repeat
<1> DEFINE e == Top.iter
           a == Other(Top.array)
           r == Append(idles[a], e)
<1>2. /\ stack' \in Seq(Frame) /\ Len(stack') = Len(stack) /\ a \in {0, 1}
      /\ e \in Id /\ e \in Running /\ UniqueRunning' /\ Running' = Running \ {e}
      BY <1>1, CallbackReturned, Arrays
<1>3. idles' = [idles EXCEPT ![a] = r] /\ live' = live
      BY DEF Repeat
<1>4. r \in Seq(Id) /\ Members(r) = Members(idles[a]) \cup {e} /\ Unique(r)
  <2> HIDE DEF a, e
  <2>1. idles[a] \in Seq(Id) /\ Unique(idles[a]) /\ e \notin Members(idles[a])
        BY <1>1, <1>2, AllPlaced
  <2>2. QED BY <1>2, <2>1, AppendMembers
<1> HIDE DEF a, e, r
<1>5. Placed' /\ idles' \in [{0, 1} -> Seq(Id)]
  <2>1. /\ live = Members(idles[a]) \cup Members(idles[Other(a)]) \cup Running
        /\ Members(idles[a]) \cap Members(idles[Other(a)]) = {}
        /\ Members(idles[a]) \cap Running = {} /\ Members(idles[Other(a)]) \cap Running = {}
        BY <1>1, <1>2, AllPlaced
  <2>2. /\ Members(r) \cap Running' = {}
        /\ Members(r) \cap Members(idles[Other(a)]) = {}
        /\ Members(idles[Other(a)]) \cap Running' = {}
        /\ Members(r) \cup Members(idles[Other(a)]) \cup Running' = live'
        BY <2>1, <1>2, <1>3, <1>4
  <2>3. QED BY <1>1, <1>2, <1>3, <1>4, <2>2, PlacedOneArray
<1>6. TypeOK'
      BY <1>1, <1>2, <1>5 DEF TypeOK, Repeat
<1>7. QED BY <1>1, <1>5, <1>6 DEF IdleInv, Attached, Repeat

LEMMA FinishStep == ASSUME IdleInv, Finish PROVE IdleInv'
<1>1. TypeOK /\ Placed /\ exists /\ stack /= << >> /\ Top.iter /= None /\ stack' = SetTop(None)
      BY DEF IdleInv, Attached, Finish
<1> DEFINE e == Top.iter
<1>2. /\ stack' \in Seq(Frame) /\ Len(stack') = Len(stack)
      /\ e \in Id /\ e \in Running /\ UniqueRunning' /\ Running' = Running \ {e}
      BY <1>1, CallbackReturned
<1>3. idles' = idles /\ live' = live \ {e} /\ exists' = exists
      BY DEF Finish, Destroy
<1> HIDE DEF e
<1>4. Placed'
  <2>1. \A a \in {0, 1} : /\ Unique(idles[a])
                          /\ Members(idles[a]) \cap Running = {}
                          /\ Members(idles[a]) \cap Members(idles[Other(a)]) = {}
                          /\ Members(idles[a]) \subseteq live
        BY <1>1 DEF Placed
  <2>2. /\ Running \subseteq live
        /\ live \subseteq Members(idles[0]) \cup Members(idles[1]) \cup Running
        BY <1>1 DEF Placed
  <2>3. \A a \in {0, 1} : /\ Members(idles[a]) \cap Running' = {}
                          /\ Members(idles[a]) \subseteq live'
        BY <1>2, <1>3, <2>1
  <2>4. /\ Running' \subseteq live'
        /\ live' \subseteq Members(idles[0]) \cup Members(idles[1]) \cup Running'
        BY <1>2, <1>3, <2>2
  <2>5. QED BY <1>2, <1>3, <2>1, <2>3, <2>4 DEF Placed
<1>5. TypeOK'
      BY <1>1, <1>2, <1>3 DEF TypeOK, Finish
<1>6. QED BY <1>1, <1>4, <1>5 DEF IdleInv, Attached, Finish

LEMMA EndStep == ASSUME IdleInv, EndDispatch PROVE IdleInv'
<1>1. TypeOK /\ Placed /\ exists /\ stack /= << >> /\ Top.iter = None /\ stack' = Front(stack)
      BY DEF IdleInv, Attached, EndDispatch
<1>2. /\ stack' \in Seq(Frame) /\ Len(stack) \in Nat \ {0} /\ Len(stack') = Len(stack) - 1
      /\ \A i \in 1 .. Len(stack) - 1 : stack'[i] = stack[i]
      BY <1>1, FrontMembers DEF TypeOK
<1>3. UniqueRunning'
      BY <1>1, <1>2 DEF UniqueRunning, Placed
<1>4. Running' = Running
      BY <1>1, <1>2 DEF Running, Top
<1>5. Placed'
      BY <1>1, <1>3, <1>4, PlacedSameArrays DEF EndDispatch
<1>6. TypeOK'
      BY <1>1, <1>2, Arrays, IdleAssumption DEF TypeOK, EndDispatch
<1>7. QED BY <1>1, <1>5, <1>6 DEF IdleInv, Attached, EndDispatch

LEMMA IdleNext == IdleInv /\ [Next]_vars => IdleInv'
<1> SUFFICES ASSUME IdleInv, [Next]_vars PROVE IdleInv'
    OBVIOUS
<1>1. CASE \E id \in Id : ManagerAdd(id)
      BY <1>1, AddStep
<1>2. CASE \E id \in Id : ManagerRemove(id)
      BY <1>2, RemoveStep
<1>3. CASE RemoveAll
      BY <1>3, RemoveAllStep
<1>4. CASE ManagerDestroy
      BY <1>4, DestroyStep
<1>5. CASE Dispatch
      BY <1>5, BeginStep, PopStep, RepeatStep, FinishStep, EndStep DEF Dispatch
<1>6. CASE UNCHANGED vars
      BY <1>6 DEF vars, IdleInv, TypeOK, Placed, Attached, Running, UniqueRunning
<1>7. QED BY <1>1, <1>2, <1>3, <1>4, <1>5, <1>6 DEF Next
-----------------------------------------------------------------------------
(* Every array and every frame of idle_manager_dispatch holds ids.         *)
THEOREM IdleTypeCorrect == Spec => []TypeOK
<1>1. IdleInv => TypeOK
      BY DEF IdleInv
<1>2. QED BY <1>1, IdleInit, IdleNext, PTL DEF Spec

LEMMA IdlePlaces == IdleInv => OnePlaceEach
<1> SUFFICES ASSUME IdleInv PROVE OnePlaceEach
    OBVIOUS
<1>1. TypeOK /\ Placed
      BY DEF IdleInv
<1> DEFINE In(a, id) == {j \in 1 .. Len(idles[a]) : idles[a][j] = id}
           Runs(id) == {j \in 1 .. Len(stack) : stack[j].iter = id}
<1>2. \A id \in Id : \A a \in {0, 1} :
        /\ id \notin Members(idles[a]) => In(a, id) = {}
        /\ id \in Members(idles[a]) => \E j : In(a, id) = {j}
  <2> SUFFICES ASSUME NEW id \in Id, NEW a \in {0, 1}
               PROVE  /\ id \notin Members(idles[a]) => In(a, id) = {}
                      /\ id \in Members(idles[a]) => \E j : In(a, id) = {j}
      OBVIOUS
  <2>1. id \notin Members(idles[a]) => In(a, id) = {}
        BY DEF Members
  <2>2. ASSUME id \in Members(idles[a]) PROVE \E j : In(a, id) = {j}
    <3>1. PICK j \in 1 .. Len(idles[a]) : idles[a][j] = id
          BY <2>2 DEF Members
    <3>2. \A k \in 1 .. Len(idles[a]) : idles[a][k] = id => k = j
          BY <1>1, <3>1 DEF Placed, Unique
    <3>3. In(a, id) = {j}
          BY <3>1, <3>2
    <3>4. QED BY <3>3
  <2>3. QED BY <2>1, <2>2
<1>3. \A id \in Id : /\ id \notin Running => Runs(id) = {}
                     /\ id \in Running => \E j : Runs(id) = {j}
  <2> SUFFICES ASSUME NEW id \in Id
               PROVE  /\ id \notin Running => Runs(id) = {}
                      /\ id \in Running => \E j : Runs(id) = {j}
      OBVIOUS
  <2>1. id /= None
        BY DEF Id, None
  <2>2. id \notin Running => Runs(id) = {}
        BY <2>1 DEF Running
  <2>3. ASSUME id \in Running PROVE \E j : Runs(id) = {j}
    <3>1. PICK j \in 1 .. Len(stack) : stack[j].iter = id
          BY <2>3 DEF Running
    <3>2. \A k \in 1 .. Len(stack) : stack[k].iter = id => k = j
          BY <1>1, <2>1, <3>1 DEF Placed, UniqueRunning
    <3>3. Runs(id) = {j}
          BY <3>1, <3>2
    <3>4. QED BY <3>3
  <2>4. QED BY <2>2, <2>3
<1>4. \A id : Places(id) = {<<0, i>> : i \in In(0, id)} \cup {<<1, i>> : i \in In(1, id)}
                          \cup {<<2, i>> : i \in Runs(id)}
      BY DEF Places
<1>5. live \subseteq Id
      BY <1>1, IdleAssumption DEF TypeOK, Id
<1> HIDE DEF In, Runs
<1>6. \A id \in Id \ live : Places(id) = {}
  <2>1. \A id \in Id \ live :
           id \notin Members(idles[0]) /\ id \notin Members(idles[1]) /\ id \notin Running
        BY <1>1 DEF Placed
  <2>2. QED BY <1>2, <1>3, <1>4, <2>1
<1>7. ASSUME exists, NEW id \in live PROVE \E p \in Places(id) : Places(id) = {p}
  <2>1. /\ live = Members(idles[0]) \cup Members(idles[1]) \cup Running
        /\ Members(idles[0]) \cap Members(idles[1]) = {}
        /\ Members(idles[0]) \cap Running = {} /\ Members(idles[1]) \cap Running = {}
        BY <1>1, <1>7, AllPlaced DEF Other
  <2>2. CASE id \in Members(idles[0])
    <3>1. In(1, id) = {} /\ Runs(id) = {} /\ \E j : In(0, id) = {j}
          BY <1>2, <1>3, <1>5, <2>1, <2>2
    <3>2. PICK j : In(0, id) = {j}
          BY <3>1
    <3>3. Places(id) = {<<0, j>>}
          BY <1>4, <3>1, <3>2
    <3>4. QED BY <3>3
  <2>3. CASE id \in Members(idles[1])
    <3>1. In(0, id) = {} /\ Runs(id) = {} /\ \E j : In(1, id) = {j}
          BY <1>2, <1>3, <1>5, <2>1, <2>3
    <3>2. PICK j : In(1, id) = {j}
          BY <3>1
    <3>3. Places(id) = {<<1, j>>}
          BY <1>4, <3>1, <3>2
    <3>4. QED BY <3>3
  <2>4. CASE id \in Running
    <3>1. In(0, id) = {} /\ In(1, id) = {} /\ \E j : Runs(id) = {j}
          BY <1>2, <1>3, <1>5, <2>1, <2>4
    <3>2. PICK j : Runs(id) = {j}
          BY <3>1
    <3>3. Places(id) = {<<2, j>>}
          BY <1>4, <3>1, <3>2
    <3>4. QED BY <3>3
  <2>5. QED BY <1>7, <2>1, <2>2, <2>3, <2>4
<1>8. QED BY <1>6, <1>7 DEF OnePlaceEach

(* However deeply the callbacks of idle_manager_dispatch nest further      *)
(* dispatches, every idle is in exactly one array or running callback      *)
(* until it is removed or finished.                                        *)
THEOREM IdleOnePlaceCorrect == Spec => []OnePlaceEach
BY IdleInit, IdleNext, IdlePlaces, PTL DEF Spec

-----------------------------------------------------------------------------
(* As long as no dispatch was started inside another one: between two      *)
(* dispatches only the active array holds idles, and what the dispatch in  *)
(* progress still owes is in the array that it empties, the active one.    *)
Owes == stack /= << >> => Top.array = active /\ Top.owed \subseteq Members(idles[active])

Settled == ~nested => /\ Len(stack) <= 1
                      /\ stack = << >> => Members(idles[Other(active)]) = {}
                      /\ Owes

LEMMA SettledInit == Init => Settled
<1> SUFFICES ASSUME Init PROVE Settled
    OBVIOUS
<1>1. Len(stack) = 0 /\ stack = << >> /\ active \in {0, 1} /\ idles[Other(active)] = << >>
      BY DEF Init, Other
<1>2. Members(idles[Other(active)]) = {}
      BY <1>1 DEF Members
<1>3. QED BY <1>1, <1>2 DEF Settled, Owes

LEMMA SettledNext == IdleInv /\ IdleInv' /\ Settled /\ [Next]_vars => Settled'
<1> SUFFICES ASSUME IdleInv, IdleInv', Settled, [Next]_vars, ~nested'
             PROVE  /\ Len(stack') <= 1
                    /\ stack' = << >> => Members(idles'[Other(active')]) = {}
                    /\ Owes'
    BY DEF Settled
<1>1. TypeOK /\ Placed /\ active \in {0, 1} /\ stack \in Seq(Frame)
      /\ idles \in [{0, 1} -> Seq(Id)] /\ Len(stack) \in Nat
  <2>1. TypeOK /\ Placed
        BY DEF IdleInv
  <2>2. QED BY <2>1 DEF TypeOK
<1>2. ~nested
      BY DEF Next, ManagerAdd, ManagerRemove, RemoveAll, ManagerDestroy, Dispatch,
             BeginDispatch, Pop, Repeat, Finish, EndDispatch, vars
<1>3. /\ Len(stack) <= 1
      /\ stack = << >> => Members(idles[Other(active)]) = {}
      /\ Owes
      BY <1>2 DEF Settled
<1>4. ASSUME NEW id \in Id, ManagerAdd(id)
      PROVE  /\ Len(stack') <= 1
             /\ stack' = << >> => Members(idles'[Other(active')]) = {}
             /\ Owes'
  <2>1. /\ idles' = [idles EXCEPT ![active] = Append(idles[active], id)]
        /\ active' = active /\ stack' = stack
        BY <1>4 DEF ManagerAdd
  <2>2. /\ idles'[active] = Append(idles[active], id)
        /\ idles'[Other(active)] = idles[Other(active)]
        BY <1>1, <2>1, Arrays
  <2>3. Members(idles[active]) \subseteq Members(idles'[active])
    <3>1. idles[active] \in Seq(Id)
          BY <1>1
    <3>2. QED BY <2>1, <2>2, <3>1, AppendMembers
  <2>4. QED BY <1>3, <2>1, <2>2, <2>3 DEF Owes, Top
<1>5. ASSUME NEW id \in Id, ManagerRemove(id)
      PROVE  /\ Len(stack') <= 1
             /\ stack' = << >> => Members(idles'[Other(active')]) = {}
             /\ Owes'
  <2>1. active' = active /\ stack' = Served(stack, {id})
        BY <1>5 DEF ManagerRemove
  <2>2. /\ Len(stack') = Len(stack) /\ stack' \in Seq(Frame)
        /\ \A i \in 1 .. Len(stack) : /\ stack'[i].array = stack[i].array
                                       /\ stack'[i].owed = stack[i].owed \ {id}
        BY <1>1, <2>1, ServedStack
  <2>3. \A b \in {0, 1} : /\ Members(idles'[b]) \subseteq Members(idles[b])
                          /\ Members(idles[b]) \ {id} \subseteq Members(idles'[b])
    <3>1. PICK a \in {0, 1} : \E i \in 1 .. Len(idles[a]) :
             idles[a][i] = id /\ idles' = [idles EXCEPT ![a] = RemoveAt(idles[a], i)]
          BY <1>5 DEF ManagerRemove
    <3>2. PICK i \in 1 .. Len(idles[a]) :
             idles[a][i] = id /\ idles' = [idles EXCEPT ![a] = RemoveAt(idles[a], i)]
          BY <3>1
    <3>3. idles[a] \in Seq(Id) /\ Unique(idles[a])
          BY <1>1 DEF Placed
    <3>4. Members(RemoveAt(idles[a], i)) = Members(idles[a]) \ {id}
          BY <3>2, <3>3, RemoveAtMembers
    <3>5. \A b \in {0, 1} : idles'[b] = IF b = a THEN RemoveAt(idles[a], i) ELSE idles[b]
          BY <1>1, <3>2
    <3>6. QED BY <3>4, <3>5
  <2>4. CASE stack = << >>
    <3>1. stack' = << >>
          BY <2>2, <2>4, EmptySeq
    <3>2. QED BY <1>1, <1>3, <2>1, <2>2, <2>3, <2>4, <3>1, Arrays DEF Owes
  <2>5. CASE stack /= << >>
    <3>1. stack' /= << >> /\ Len(stack) \in 1 .. Len(stack)
          BY <1>1, <2>2, <2>5, EmptySeq
    <3>2. Top'.array = Top.array /\ Top'.owed = Top.owed \ {id}
          BY <2>2, <3>1 DEF Top
    <3>3. QED BY <1>1, <1>3, <2>1, <2>2, <2>3, <2>5, <3>1, <3>2 DEF Owes
  <2>6. QED BY <2>4, <2>5
<1>6. CASE RemoveAll
  <2>1. /\ active' = active /\ stack' = Served(stack, ActiveIds)
        /\ idles' = [idles EXCEPT ![active] = << >>]
        BY <1>6 DEF RemoveAll
  <2>2. /\ Len(stack') = Len(stack) /\ stack' \in Seq(Frame)
        /\ \A i \in 1 .. Len(stack) : /\ stack'[i].array = stack[i].array
                                       /\ stack'[i].owed = stack[i].owed \ ActiveIds
        BY <1>1, <2>1, ServedStack
  <2>3. idles'[Other(active)] = idles[Other(active)] /\ ActiveIds = Members(idles[active])
        BY <1>1, <2>1, Arrays DEF ActiveIds, Members
  <2>4. CASE stack = << >>
    <3>1. stack' = << >>
          BY <2>2, <2>4, EmptySeq
    <3>2. QED BY <1>3, <2>1, <2>2, <2>3, <2>4, <3>1 DEF Owes
  <2>5. CASE stack /= << >>
    <3>1. stack' /= << >> /\ Len(stack) \in 1 .. Len(stack)
          BY <1>1, <2>2, <2>5, EmptySeq
    <3>2. Top'.array = Top.array /\ Top'.owed = Top.owed \ ActiveIds
          BY <2>2, <3>1 DEF Top
    <3>3. Top'.owed = {}
          BY <1>3, <2>3, <2>5, <3>2 DEF Owes
    <3>4. QED BY <1>3, <2>1, <2>2, <2>5, <3>1, <3>2, <3>3 DEF Owes
  <2>6. QED BY <2>4, <2>5
<1>7. CASE ManagerDestroy
  <2>1. stack' = << >> /\ \A a \in {0, 1} : idles'[a] = << >> /\ Len(idles'[a]) = 0
        BY <1>7 DEF ManagerDestroy
  <2>2. \A a \in {0, 1} : Members(idles'[a]) = {}
        BY <2>1 DEF Members
  <2>3. active' = active /\ Len(stack') = 0
        BY <1>7, <2>1 DEF ManagerDestroy
  <2>4. Members(idles'[Other(active')]) = {}
        BY <1>1, <2>2, <2>3, Arrays
  <2>5. Owes'
        BY <2>1 DEF Owes
  <2>6. QED BY <2>3, <2>4, <2>5
<1>8. CASE BeginDispatch
  <2> DEFINE f == [array |-> active, iter |-> None, owed |-> Waiting]
  <2>1. f \in Frame /\ f.array = active /\ f.owed = Waiting
        BY <1>1 DEF Frame, Waiting
  <2>2. /\ stack' = Append(stack, f) /\ stack = << >> /\ idles' = idles /\ active' = active
        BY <1>8 DEF BeginDispatch
  <2> HIDE DEF f
  <2>3. Len(stack') = 1 /\ stack'[1] = f /\ stack' /= << >>
        BY <2>1, <2>2
  <2>4. Waiting \subseteq Members(idles[active])
    <3>1. \A id \in Waiting : id \in Members(idles[0]) \/ id \in Members(idles[1])
          BY DEF Waiting, Holds, Members
    <3>2. Members(idles[Other(active)]) = {}
          BY <1>3, <2>2
    <3>3. QED BY <1>1, <3>1, <3>2, Arrays
  <2>5. QED BY <2>1, <2>2, <2>3, <2>4 DEF Owes, Top
<1>9. CASE Pop
  <2> DEFINE e == Last(idles[active])
  <2>1. stack /= << >> /\ Top.array = active
        BY <1>3, <1>9 DEF Pop, Owes
  <2>2. /\ idles[active] /= << >> /\ stack' = Served(SetTop(e), {e}) /\ active' = active
        /\ idles' = [idles EXCEPT ![active] = Front(idles[active])]
        BY <1>9, <2>1 DEF Pop
  <2>3. e \in Id /\ Members(idles[active]) = Members(Front(idles[active])) \cup {e}
        BY <1>1, <2>2, FrontMembers
  <2> HIDE DEF e
  <2>4. /\ Len(stack) \in 1 .. Len(stack) /\ SetTop(e) \in Seq(Frame)
        /\ Len(SetTop(e)) = Len(stack) /\ SetTop(e)[Len(stack)].array = Top.array
        /\ SetTop(e)[Len(stack)].owed = Top.owed
        BY <1>1, <2>1, <2>3, SetTopStack
  <2>5. /\ Len(stack') = Len(stack) /\ stack'[Len(stack)].array = Top.array
        /\ stack'[Len(stack)].owed = Top.owed \ {e}
        BY <2>2, <2>4, ServedStack
  <2>6. stack' /= << >>
        BY <1>1, <2>4, <2>5, EmptySeq
  <2>7. Top'.array = active /\ Top'.owed \subseteq Members(idles[active]) \ {e}
        BY <1>3, <2>1, <2>5 DEF Owes, Top
  <2>8. idles'[active] = Front(idles[active])
        BY <1>1, <2>2
  <2>9. QED BY <1>3, <2>2, <2>3, <2>5, <2>6, <2>7, <2>8 DEF Owes
<1>10. CASE Repeat \/ Finish
  <2>1. /\ stack /= << >> /\ Top.array = active /\ stack' = SetTop(None) /\ active' = active
        BY <1>3, <1>10 DEF Repeat, Finish, Owes
  <2>2. idles'[active] = idles[active]
        BY <1>1, <1>10, <2>1, Arrays DEF Repeat, Finish
  <2>3. /\ Len(stack) \in 1 .. Len(stack) /\ Len(stack') = Len(stack)
        /\ stack'[Len(stack)].array = Top.array /\ stack'[Len(stack)].owed = Top.owed
    <3>1. /\ Len(stack) \in Nat \ {0} /\ Top = stack[Len(stack)]
          /\ Len(SetTop(None)) = Len(stack)
          /\ \A i \in 1 .. Len(stack) : /\ SetTop(None)[i].array = stack[i].array
                                         /\ SetTop(None)[i].owed = stack[i].owed
          BY <1>1, <2>1, SetTopStack
    <3>2. QED BY <2>1, <3>1
  <2>4. stack' /= << >>
        BY <1>1, <2>3, EmptySeq
  <2>5. QED BY <1>3, <2>1, <2>2, <2>3, <2>4 DEF Owes, Top
<1>11. CASE EndDispatch
  <2>1. /\ stack /= << >> /\ idles[active] = << >> /\ active' = Other(active) /\ idles' = idles
        /\ stack' = Front(stack)
        BY <1>3, <1>11 DEF EndDispatch, Owes
  <2>2. Len(stack) = 1
    <3>1. stack \in Seq(Frame) /\ Len(stack) /= 0
          BY <1>1, <2>1, EmptySeq
    <3>2. Len(stack) <= 1
          BY <1>3
    <3>3. \A n \in Nat : n /= 0 /\ n <= 1 => n = 1
          OBVIOUS
    <3>4. QED BY <1>1, <3>1, <3>2, <3>3, Zenon
  <2>3. stack' \in Seq(Frame) /\ Len(stack') = 0
        BY <1>1, <2>1, <2>2, FrontMembers
  <2>4. stack' = << >>
        BY <2>3, EmptySeq
  <2>5. Members(idles'[Other(active')]) = {}
    <3>1. idles'[Other(active')] = << >>
          BY <1>1, <2>1, Arrays
    <3>2. QED BY <3>1 DEF Members
  <2>6. QED BY <2>3, <2>4, <2>5 DEF Owes
<1>12. CASE UNCHANGED vars
       BY <1>3, <1>12 DEF vars, Owes, Top
<1>13. QED BY <1>4, <1>5, <1>6, <1>7, <1>8, <1>9, <1>10, <1>11, <1>12 DEF Next, Dispatch

(* idle_manager_dispatch calls the functions of all idles that waited when *)
(* it started, as long as dispatches do not nest.                          *)
THEOREM DispatchCallsAllCorrect == Spec => []DispatchCallsAll
<1>1. Settled => DispatchCallsAll
  <2> SUFFICES ASSUME Settled, ~nested, stack /= << >>, idles[Top.array] = << >>
               PROVE  Top.owed = {}
      BY DEF DispatchCallsAll
  <2>1. Top.owed \subseteq Members(<< >>)
        BY DEF Settled, Owes
  <2>2. QED BY <2>1 DEF Members
<1>2. QED BY <1>1, IdleInit, IdleNext, SettledInit, SettledNext, PTL DEF Spec
=============================================================================
