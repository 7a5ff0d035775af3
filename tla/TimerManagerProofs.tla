------------------------- MODULE TimerManagerProofs -------------------------
(***************************************************************************)
(* Proofs for base/timer.c, for any number of timers, any durations and    *)
(* any depth of nested dispatches: no timer is lost or entered twice, and, *)
(* as long as the 32-bit clock does not wrap, none fires early.            *)
(*                                                                         *)
(* The arrays and the running callbacks are compared through the sets of   *)
(* ids they hold, as for the idles.                                        *)
(***************************************************************************)
EXTENDS TimerManager, SequenceTheorems, WellFoundedInduction, TLAPS

Members(q) == {q[i] : i \in 1 .. Len(q)}

Unique(q) == \A i, j \in 1 .. Len(q) : q[i] = q[j] => i = j

LEMMA AppendMembers ==
    ASSUME NEW S, NEW q \in Seq(S), NEW e \in S
    PROVE  /\ Append(q, e) \in Seq(S)
           /\ Members(Append(q, e)) = Members(q) \cup {e}
           /\ Unique(q) /\ e \notin Members(q) => Unique(Append(q, e))
<1>1. /\ Append(q, e) \in Seq(S) /\ Len(q) \in Nat
      /\ Len(Append(q, e)) = Len(q) + 1
      /\ Append(q, e)[Len(q) + 1] = e
      /\ \A i \in 1 .. Len(q) : Append(q, e)[i] = q[i]
      OBVIOUS
<1> DEFINE r == Append(q, e)
<1> HIDE DEF r
<1>2. Members(r) = Members(q) \cup {e}
      BY <1>1 DEF Members, r
<1>3. ASSUME Unique(q), e \notin Members(q) PROVE Unique(r)
      BY <1>1, <1>3 DEF Unique, Members, r
<1>4. QED BY <1>1, <1>2, <1>3 DEF r

LEMMA FrontMembers ==
    ASSUME NEW S, NEW q \in Seq(S), q /= << >>
    PROVE  /\ Front(q) \in Seq(S) /\ Last(q) \in S
           /\ Len(q) \in Nat \ {0} /\ Len(Front(q)) = Len(q) - 1
           /\ \A i \in 1 .. Len(q) - 1 : Front(q)[i] = q[i]
           /\ Last(q) = q[Len(q)]
           /\ Members(q) = Members(Front(q)) \cup {Last(q)}
           /\ Unique(q) => Unique(Front(q)) /\ Last(q) \notin Members(Front(q))
<1> DEFINE n == Len(q) - 1
           r == SubSeq(q, 1, n)
<1>1. Len(q) \in Nat \ {0} /\ q[Len(q)] \in S
      BY EmptySeq
<1>2. n \in Int /\ 1 \in Int /\ n >= 0 /\ \A i \in 1 .. n : q[i] \in S
      BY <1>1
<1>3. r \in Seq(S) /\ Len(r) = n /\ \A i \in 1 .. n : r[i] = q[i]
  <2> HIDE DEF n
  <2>1. /\ SubSeq(q, 1, n) \in Seq(S)
        /\ Len(SubSeq(q, 1, n)) = IF 1 <= n THEN n - 1 + 1 ELSE 0
        /\ \A i \in 1 .. n - 1 + 1 : SubSeq(q, 1, n)[i] = q[1 + i - 1]
        BY <1>2, SubSeqProperties
  <2>2. QED BY <1>2, <2>1
<1>4. Front(q) = r /\ Last(q) = q[Len(q)]
      BY DEF Front, Last
<1> HIDE DEF r
<1>5. Members(q) = Members(r) \cup {q[Len(q)]}
      BY <1>1, <1>3 DEF Members
<1>6. Unique(q) => Unique(r) /\ q[Len(q)] \notin Members(r)
      BY <1>1, <1>3 DEF Unique, Members
<1>7. QED BY <1>1, <1>3, <1>4, <1>5, <1>6

LEMMA RemoveAtMembers ==
    ASSUME NEW S, NEW q \in Seq(S), NEW i \in 1 .. Len(q)
    PROVE  /\ RemoveAt(q, i) \in Seq(S)
           /\ Unique(q) => /\ Members(RemoveAt(q, i)) = Members(q) \ {q[i]}
                           /\ Unique(RemoveAt(q, i))
<1> DEFINE u == SubSeq(q, 1, i - 1)
           v == SubSeq(q, i + 1, Len(q))
           r == RemoveAt(q, i)
<1>1. Len(q) \in Nat /\ i \in Nat /\ 1 <= i /\ i <= Len(q) /\ \A j \in 1 .. Len(q) : q[j] \in S
      OBVIOUS
<1>2. /\ u \in Seq(S) /\ Len(u) = i - 1
      /\ \A j \in 1 .. i - 1 : u[j] = q[j]
  <2> DEFINE n == i - 1
  <2>1. n \in Int /\ 1 \in Int /\ \A j \in 1 .. n : q[j] \in S
        BY <1>1
  <2> HIDE DEF n
  <2>2. /\ SubSeq(q, 1, n) \in Seq(S)
        /\ Len(SubSeq(q, 1, n)) = IF 1 <= n THEN n - 1 + 1 ELSE 0
        /\ \A j \in 1 .. n - 1 + 1 : SubSeq(q, 1, n)[j] = q[1 + j - 1]
        BY <2>1, SubSeqProperties
  <2>3. QED BY <1>1, <2>1, <2>2 DEF n
<1>3. /\ v \in Seq(S) /\ Len(v) = Len(q) - i
      /\ \A j \in 1 .. Len(q) - i : v[j] = q[i + j]
  <2> DEFINE m == i + 1
             n == Len(q)
  <2>1. n \in Int /\ m \in Int /\ \A j \in m .. n : q[j] \in S
        BY <1>1
  <2>2. m <= n + 1
        BY <1>1
  <2> HIDE DEF n, m
  <2>3. /\ SubSeq(q, m, n) \in Seq(S)
        /\ Len(SubSeq(q, m, n)) = IF m <= n THEN n - m + 1 ELSE 0
        /\ \A j \in 1 .. n - m + 1 : SubSeq(q, m, n)[j] = q[m + j - 1]
        BY <2>1, SubSeqProperties
  <2>4. Len(SubSeq(q, m, n)) = n - m + 1
        BY <2>1, <2>2, <2>3
  <2>5. QED BY <1>1, <2>3, <2>4 DEF n, m
<1>4. r = u \o v
      BY DEF RemoveAt
<1> HIDE DEF u, v, r
<1>5. /\ r \in Seq(S) /\ Len(r) = Len(q) - 1
      /\ \A j \in 1 .. Len(r) : r[j] = IF j < i THEN q[j] ELSE q[j + 1]
  <2>1. /\ r \in Seq(S) /\ Len(r) = Len(u) + Len(v)
        /\ \A j \in 1 .. Len(u) + Len(v) : r[j] = IF j <= Len(u) THEN u[j] ELSE v[j - Len(u)]
        BY <1>2, <1>3, <1>4, ConcatProperties
  <2>2. QED BY <1>1, <1>2, <1>3, <2>1
<1>6. ASSUME Unique(q)
      PROVE  Members(r) = Members(q) \ {q[i]} /\ Unique(r)
  <2>1. \A j \in 1 .. Len(r) : \E l \in 1 .. Len(q) : l /= i /\ r[j] = q[l]
        BY <1>1, <1>5
  <2>2. \A l \in 1 .. Len(q) : l /= i => \E j \in 1 .. Len(r) : r[j] = q[l]
    <3> SUFFICES ASSUME NEW l \in 1 .. Len(q), l /= i
                 PROVE  \E j \in 1 .. Len(r) : r[j] = q[l]
        OBVIOUS
    <3>1. CASE l < i
          BY <1>1, <1>5, <3>1
    <3>2. CASE l > i
      <4>1. l - 1 \in 1 .. Len(r) /\ r[l - 1] = q[l - 1 + 1] /\ l - 1 + 1 = l
            BY <1>1, <1>5, <3>2
      <4>2. QED BY <4>1
    <3>3. QED BY <1>1, <3>1, <3>2
  <2>3. Members(r) = Members(q) \ {q[i]}
    <3>1. \A l \in 1 .. Len(q) : l /= i => q[l] /= q[i]
          BY <1>6 DEF Unique
    <3>2. ASSUME NEW e \in Members(r) PROVE e \in Members(q) \ {q[i]}
      <4>1. PICK j \in 1 .. Len(r) : e = r[j]
            BY <3>2 DEF Members
      <4>2. PICK l \in 1 .. Len(q) : l /= i /\ r[j] = q[l]
            BY <2>1
      <4>3. QED BY <3>1, <4>1, <4>2 DEF Members
    <3>3. ASSUME NEW e \in Members(q) \ {q[i]} PROVE e \in Members(r)
      <4>1. PICK l \in 1 .. Len(q) : e = q[l] /\ l /= i
            BY <3>3 DEF Members
      <4>2. QED BY <2>2, <4>1 DEF Members
    <3>4. QED BY <3>2, <3>3
  <2>4. Unique(r)
        BY <1>1, <1>5, <1>6 DEF Unique
  <2>5. QED BY <2>3, <2>4
<1>7. QED BY <1>5, <1>6 DEF r
-----------------------------------------------------------------------------
Running == {stack[i].iter : i \in 1 .. Len(stack)} \ {None}

(* No two callbacks that are running are for the same timer.               *)
UniqueRunning ==
    \A i, j \in 1 .. Len(stack) :
       stack[i].iter = stack[j].iter /\ stack[i].iter /= None => i = j

(* Arrays and running callbacks hold different timers, and together they   *)
(* hold those that are allocated.                                          *)
Placed == /\ \A a \in {0, 1} : /\ Unique(timers[a])
                              /\ Members(timers[a]) \cap Running = {}
                              /\ Members(timers[a]) \cap Members(timers[Other(a)]) = {}
          /\ UniqueRunning
          /\ live = Members(timers[0]) \cup Members(timers[1]) \cup Running

TimerInv == TypeOK /\ Placed

LEMMA ClockValue == ASSUME NEW t \in Nat
                    PROVE  t % Wrap \in Time /\ (t < Wrap => t % Wrap = t)
BY TimerAssumption DEF Time

LEMMA TimerInit == Init => TimerInv
<1> SUFFICES ASSUME Init PROVE TimerInv
    OBVIOUS
<1>1. TypeOK
  <2>1. << >> \in Seq(Id) /\ << >> \in Seq(Frame) /\ << >> \in Seq(Info) /\ Len(<< >>) = 0
        OBVIOUS
  <2>2. 1 \in 1 .. MaxId + 1 /\ 0 <= MaxDepth /\ 0 \in 0 .. MaxTime /\ 1 - 1 = 0
        BY TimerAssumption
  <2>3. QED BY <2>1, <2>2 DEF Init, TypeOK
<1>2. Len(stack) = 0 /\ \A a \in {0, 1} : timers[a] = << >> /\ Len(timers[a]) = 0
      BY DEF Init
<1>3. /\ Running = {} /\ UniqueRunning
      /\ \A a \in {0, 1} : Members(timers[a]) = {} /\ Unique(timers[a])
      BY <1>2 DEF Running, UniqueRunning, Members, Unique
<1>4. QED BY <1>1, <1>3 DEF TimerInv, Placed, Init, Other

(* The stack with the top frame's iter replaced.                           *)
LEMMA SetTopStack ==
    ASSUME TypeOK, stack /= << >>, NEW x \in Id \cup {None}
    PROVE  /\ Len(stack) \in Nat \ {0} /\ Top = stack[Len(stack)] /\ Top \in Frame
           /\ SetTop(x) \in Seq(Frame) /\ Len(SetTop(x)) = Len(stack)
           /\ \A i \in 1 .. Len(stack) :
                /\ SetTop(x)[i].iter = IF i = Len(stack) THEN x ELSE stack[i].iter
                /\ SetTop(x)[i].now = stack[i].now /\ SetTop(x)[i].began = stack[i].began
                /\ SetTop(x)[i].array = stack[i].array /\ SetTop(x)[i].owed = stack[i].owed
<1>1. stack \in Seq(Frame) /\ Len(stack) \in Nat \ {0}
      BY EmptySeq DEF TypeOK
<1>2. \A i \in 1 .. Len(stack) : stack[i] \in Frame
      BY <1>1
<1>3. [stack[Len(stack)] EXCEPT !.iter = x] \in Frame
      /\ [stack[Len(stack)] EXCEPT !.iter = x].iter = x
      BY <1>1, <1>2 DEF Frame
<1>4. SetTop(x) = [stack EXCEPT ![Len(stack)] = [stack[Len(stack)] EXCEPT !.iter = x]]
      BY DEF SetTop
<1>5. SetTop(x) \in Seq(Frame) /\ Len(SetTop(x)) = Len(stack)
      BY <1>1, <1>3, <1>4
<1>6. QED BY <1>1, <1>2, <1>3, <1>4, <1>5 DEF Top

LEMMA ServedStack ==
    ASSUME NEW s \in Seq(Frame), NEW ids
    PROVE  /\ Served(s, ids) \in Seq(Frame) /\ Len(Served(s, ids)) = Len(s)
           /\ \A i \in 1 .. Len(s) : /\ Served(s, ids)[i].iter = s[i].iter
                                    /\ Served(s, ids)[i].now = s[i].now
                                    /\ Served(s, ids)[i].began = s[i].began
                                    /\ Served(s, ids)[i].array = s[i].array
                                    /\ Served(s, ids)[i].owed = s[i].owed \ ids
<1>1. \A i \in 1 .. Len(s) : s[i] \in Frame
      OBVIOUS
<1>2. \A i \in 1 .. Len(s) : /\ [s[i] EXCEPT !.owed = @ \ ids] \in Frame
                             /\ [s[i] EXCEPT !.owed = @ \ ids].iter = s[i].iter
                             /\ [s[i] EXCEPT !.owed = @ \ ids].now = s[i].now
                             /\ [s[i] EXCEPT !.owed = @ \ ids].began = s[i].began
                             /\ [s[i] EXCEPT !.owed = @ \ ids].array = s[i].array
                             /\ [s[i] EXCEPT !.owed = @ \ ids].owed = s[i].owed \ ids
      BY <1>1 DEF Frame
<1>3. Len(s) \in Nat
      OBVIOUS
<1> DEFINE r == [i \in 1 .. Len(s) |-> [s[i] EXCEPT !.owed = @ \ ids]]
<1>4. r \in [1 .. Len(s) -> Frame] 
      /\ \A i \in 1 .. Len(s) :
           /\ r[i].iter = s[i].iter /\ r[i].now = s[i].now /\ r[i].began = s[i].began
           /\ r[i].array = s[i].array /\ r[i].owed = s[i].owed \ ids
      BY <1>2
<1>5. Served(s, ids) = r
      BY DEF Served
<1> HIDE DEF r
<1>6. r \in Seq(Frame) /\ Len(r) = Len(s)
      BY <1>3, <1>4, SeqDef, LenProperties
<1>7. QED BY <1>4, <1>5, <1>6

LEMMA RunningStep ==
    ASSUME TypeOK, Placed, stack' \in Seq(Frame), stack /= << >>, Len(stack') = Len(stack),
           NEW x \in Id \cup {None}, x \notin Running,
           \A i \in 1 .. Len(stack) :
              stack'[i].iter = IF i = Len(stack) THEN x ELSE stack[i].iter
    PROVE  UniqueRunning' /\ Running' = (Running \ {Top.iter}) \cup ({x} \ {None})
<1>1. Len(stack) \in Nat \ {0} /\ UniqueRunning
      BY EmptySeq DEF TypeOK, Placed
<1>2. UniqueRunning'
      BY <1>1 DEF UniqueRunning, Running
<1>3. Running' = (Running \ {Top.iter}) \cup ({x} \ {None})
  <2>1. ASSUME NEW e \in Running' PROVE e \in (Running \ {Top.iter}) \cup ({x} \ {None})
    <3>1. PICK i \in 1 .. Len(stack) : e = stack'[i].iter /\ e /= None
          BY <2>1 DEF Running
    <3>2. CASE i = Len(stack)
          BY <3>1, <3>2
    <3>3. CASE i /= Len(stack)
      <4>1. e = stack[i].iter /\ e \in Running
            BY <3>1, <3>3 DEF Running
      <4>2. e /= Top.iter
            BY <1>1, <3>1, <3>3, <4>1 DEF UniqueRunning, Top
      <4>3. QED BY <4>1, <4>2
    <3>4. QED BY <3>2, <3>3
  <2>2. ASSUME NEW e \in Running, e /= Top.iter PROVE e \in Running'
    <3>1. PICK i \in 1 .. Len(stack) : e = stack[i].iter /\ e /= None
          BY <2>2 DEF Running
    <3>2. i /= Len(stack)
          BY <2>2, <3>1 DEF Top
    <3>3. QED BY <3>1, <3>2 DEF Running
  <2>3. ASSUME x /= None PROVE x \in Running'
    <3>1. Len(stack) \in 1 .. Len(stack) /\ stack'[Len(stack)].iter = x
          BY <1>1
    <3>2. QED BY <2>3, <3>1 DEF Running
  <2>4. QED BY <2>1, <2>2, <2>3
<1>4. QED BY <1>2, <1>3

LEMMA RunningSame ==
    ASSUME Placed, Len(stack') = Len(stack),
           \A i \in 1 .. Len(stack) : stack'[i].iter = stack[i].iter
    PROVE  UniqueRunning' /\ Running' = Running
BY DEF Placed, UniqueRunning, Running

LEMMA Arrays ==
    \A a \in {0, 1} : Other(a) \in {0, 1} /\ Other(a) /= a /\ Other(Other(a)) = a
                     /\ \A b \in {0, 1} : b = a \/ b = Other(a)
BY DEF Other

LEMMA PlacedOneArray ==
    ASSUME TypeOK, Placed, NEW a \in {0, 1}, NEW r \in Seq(Id),
           timers' = [timers EXCEPT ![a] = r],
           Unique(r), UniqueRunning',
           Members(r) \cap Running' = {},
           Members(r) \cap Members(timers[Other(a)]) = {},
           Members(timers[Other(a)]) \cap Running' = {},
           Members(r) \cup Members(timers[Other(a)]) \cup Running' = live'
    PROVE  Placed' /\ timers' \in [{0, 1} -> Seq(Id)]
<1>1. /\ timers \in [{0, 1} -> Seq(Id)] /\ timers' \in [{0, 1} -> Seq(Id)]
      /\ timers'[a] = r /\ timers'[Other(a)] = timers[Other(a)]
      BY Arrays DEF TypeOK
<1>2. /\ Unique(timers[Other(a)])
      /\ Members(timers'[a]) = Members(r) /\ Members(timers'[Other(a)]) = Members(timers[Other(a)])
      BY <1>1, Arrays DEF Placed
<1>3. Members(timers'[0]) \cup Members(timers'[1]) \cup Running' = live'
      BY <1>2, Arrays
<1>4. \A b \in {0, 1} : /\ Unique(timers'[b])
                        /\ Members(timers'[b]) \cap Running' = {}
                        /\ Members(timers'[b]) \cap Members(timers'[Other(b)]) = {}
      BY <1>1, <1>2, <1>3, Arrays
<1>5. QED BY <1>1, <1>3, <1>4 DEF Placed

LEMMA AllPlaced ==
    ASSUME TypeOK, Placed, NEW a \in {0, 1}
    PROVE  /\ live = Members(timers[a]) \cup Members(timers[Other(a)]) \cup Running
           /\ Members(timers[a]) \cap Members(timers[Other(a)]) = {}
           /\ Members(timers[a]) \cap Running = {} /\ Members(timers[Other(a)]) \cap Running = {}
           /\ Unique(timers[a]) /\ timers[a] \in Seq(Id) /\ timers[Other(a)] \in Seq(Id)
           /\ UniqueRunning
BY Arrays DEF Placed, TypeOK

LEMMA AddStep == ASSUME TimerInv, NEW d \in Duration, ManagerAdd(d) PROVE TimerInv'
<1>1. TypeOK /\ Placed /\ active \in {0, 1} /\ nextId \in Id
      BY DEF TimerInv, ManagerAdd, TypeOK
<1> DEFINE r == Append(timers[active], nextId)
<1>2. /\ nextId \notin live /\ live \subseteq Id /\ live' \subseteq 1 .. nextId' - 1
      /\ nextId' \in 1 .. MaxId + 1
      BY <1>1, TimerAssumption DEF TypeOK, ManagerAdd, Id
<1>3. live = Members(timers[active]) \cup Members(timers[Other(active)]) \cup Running
      BY <1>1, AllPlaced
<1>4. r \in Seq(Id) /\ Members(r) = Members(timers[active]) \cup {nextId} /\ Unique(r)
      BY <1>1, <1>2, <1>3, AllPlaced, AppendMembers
<1>5. UniqueRunning' /\ Running' = Running
      BY <1>1, RunningSame DEF ManagerAdd
<1>6. timers' = [timers EXCEPT ![active] = r] /\ live' = live \cup {nextId}
      BY <1>1 DEF ManagerAdd
<1> HIDE DEF r
<1>7. Placed' /\ timers' \in [{0, 1} -> Seq(Id)]
  <2>1. /\ live = Members(timers[active]) \cup Members(timers[Other(active)]) \cup Running
        /\ Members(timers[active]) \cap Members(timers[Other(active)]) = {}
        /\ Members(timers[active]) \cap Running = {}
        /\ Members(timers[Other(active)]) \cap Running = {}
        BY <1>1, <1>2, AllPlaced
  <2>2. /\ Members(r) \cap Running' = {}
        /\ Members(r) \cap Members(timers[Other(active)]) = {}
        /\ Members(timers[Other(active)]) \cap Running' = {}
        /\ Members(r) \cup Members(timers[Other(active)]) \cup Running' = live'
        BY <2>1, <1>2, <1>4, <1>5, <1>6
  <2>3. QED BY <1>1, <1>4, <1>5, <1>6, <2>2, PlacedOneArray
<1>8. TypeOK'
  <2>0. clock \in 0 .. MaxTime /\ clock \in Nat
        BY <1>1, TimerAssumption DEF TypeOK
  <2>1. clock \in 0 .. MaxTime /\ GetTime \in Time
        BY <2>0, ClockValue DEF GetTime
  <2>2. [start |-> GetTime, duration |-> d, since |-> clock] \in Info
        BY <2>1 DEF Info
  <2>3. info' \in Seq(Info) /\ Len(info') = Len(info) + 1
        BY <1>1, <2>2 DEF TypeOK, ManagerAdd
  <2>4. nextId' = nextId + 1 /\ nextId \in Nat /\ Len(info) = nextId - 1
        BY <1>1 DEF TypeOK, ManagerAdd, Id
  <2>5. QED BY <1>1, <1>2, <1>7, <2>3, <2>4 DEF TypeOK, ManagerAdd
<1>9. QED BY <1>1, <1>7, <1>8 DEF TimerInv, ManagerAdd

LEMMA RemoveStep == ASSUME TimerInv, NEW id \in Id, ManagerRemove(id) PROVE TimerInv'
<1>1. TypeOK /\ Placed
      BY DEF TimerInv, ManagerRemove
<1>a. PICK a \in {0, 1} : \E i \in 1 .. Len(timers[a]) :
         timers[a][i] = id /\ timers' = [timers EXCEPT ![a] = RemoveAt(timers[a], i)]
      BY DEF ManagerRemove
<1>2. PICK i \in 1 .. Len(timers[a]) :
         timers[a][i] = id /\ timers' = [timers EXCEPT ![a] = RemoveAt(timers[a], i)]
      BY <1>a
<1>3. timers[a] \in Seq(Id) /\ Unique(timers[a]) /\ id \in Members(timers[a])
      BY <1>1, <1>2, AllPlaced DEF Members
<1> DEFINE r == RemoveAt(timers[a], i)
<1>4. r \in Seq(Id) /\ Members(r) = Members(timers[a]) \ {id} /\ Unique(r)
      BY <1>2, <1>3, RemoveAtMembers
<1>5. stack' \in Seq(Frame) /\ Len(stack') = Len(stack)
      /\ \A k \in 1 .. Len(stack) : stack'[k].iter = stack[k].iter
      BY <1>1, ServedStack DEF ManagerRemove, TypeOK
<1>6. UniqueRunning' /\ Running' = Running
      BY <1>1, <1>5, RunningSame
<1>7. live' = live \ {id} /\ timers' = [timers EXCEPT ![a] = r]
      BY <1>2 DEF ManagerRemove
<1> HIDE DEF r
<1>8. Placed' /\ timers' \in [{0, 1} -> Seq(Id)]
  <2>1. /\ live = Members(timers[a]) \cup Members(timers[Other(a)]) \cup Running
        /\ Members(timers[a]) \cap Members(timers[Other(a)]) = {}
        /\ Members(timers[a]) \cap Running = {} /\ Members(timers[Other(a)]) \cap Running = {}
        BY <1>1, <1>2, AllPlaced
  <2>2. /\ Members(r) \cap Running' = {}
        /\ Members(r) \cap Members(timers[Other(a)]) = {}
        /\ Members(timers[Other(a)]) \cap Running' = {}
        /\ Members(r) \cup Members(timers[Other(a)]) \cup Running' = live'
        BY <2>1, <1>3, <1>4, <1>6, <1>7
  <2>3. QED BY <1>1, <1>4, <1>6, <1>7, <2>2, PlacedOneArray
<1>9. TypeOK'
      BY <1>1, <1>5, <1>7, <1>8 DEF TypeOK, ManagerRemove
<1>10. QED BY <1>1, <1>8, <1>9 DEF TimerInv, ManagerRemove

(* Placed does not depend on the stack beyond the callbacks that run.      *)
LEMMA PlacedSameArrays ==
    ASSUME Placed, UniqueRunning', Running' = Running, UNCHANGED <<timers, live>>
    PROVE  Placed'
BY DEF Placed

LEMMA BeginStep == ASSUME TimerInv, BeginDispatch PROVE TimerInv'
<1>1. TypeOK /\ Placed /\ active \in {0, 1} /\ stack \in Seq(Frame) /\ Len(stack) \in Nat
      BY DEF TimerInv, TypeOK
<1> DEFINE f == [array |-> active, now |-> GetTime, iter |-> None,
                  owed |-> {id \in Waiting : Elapsed(id)}, began |-> clock]
<1>2. f \in Frame /\ f.iter = None
  <2>0. clock \in 0 .. MaxTime /\ clock \in Nat
        BY <1>1, TimerAssumption DEF TypeOK
  <2>1. clock \in 0 .. MaxTime /\ GetTime \in Time
        BY <2>0, ClockValue DEF GetTime
  <2>2. QED BY <1>1, <2>1 DEF Frame, Waiting
<1> HIDE DEF f
<1>3. stack' = Append(stack, f)
      BY DEF BeginDispatch, f
<1>4. /\ stack' \in Seq(Frame) /\ Len(stack') = Len(stack) + 1
      /\ stack'[Len(stack) + 1] = f
      /\ \A i \in 1 .. Len(stack) : stack'[i] = stack[i]
      BY <1>1, <1>2, <1>3
<1>5. UniqueRunning'
      BY <1>1, <1>2, <1>4 DEF UniqueRunning, Placed
<1>6. Running' = Running
      BY <1>1, <1>2, <1>4 DEF Running
<1>7. Placed'
      BY <1>1, <1>5, <1>6, PlacedSameArrays DEF BeginDispatch
<1>8. TypeOK'
      BY <1>1, <1>4, TimerAssumption DEF TypeOK, BeginDispatch
<1>9. QED BY <1>1, <1>7, <1>8 DEF TimerInv, BeginDispatch

LEMMA CallStep == ASSUME TimerInv, CallTimer PROVE TimerInv'
<1>1. TypeOK /\ Placed /\ stack /= << >> /\ Top.iter = None /\ Top.array \in {0, 1}
      BY SetTopStack DEF TimerInv, CallTimer, CanPop, Frame, None
<1> DEFINE a == Top.array
           e == Last(timers[a])
           r == Front(timers[a])
<1>2. a \in {0, 1} /\ timers[a] /= << >> /\ timers[a] \in Seq(Id) /\ Unique(timers[a])
      BY <1>1, AllPlaced DEF CallTimer, CanPop, Popped
<1>3. /\ r \in Seq(Id) /\ Unique(r) /\ e \in Id /\ e \notin Members(r)
      /\ Members(timers[a]) = Members(r) \cup {e}
      BY <1>2, FrontMembers
<1>4. timers' = [timers EXCEPT ![a] = r] /\ live' = live /\ stack' = Served(SetTop(e), {e})
      BY DEF CallTimer, CanPop, Popped
<1> HIDE DEF a, e, r
<1>5. e /= None /\ e \notin Running
      BY <1>1, <1>2, <1>3, AllPlaced DEF Id, None
<1>6. /\ stack' \in Seq(Frame) /\ Len(stack') = Len(stack)
      /\ \A i \in 1 .. Len(stack) : stack'[i].iter = IF i = Len(stack) THEN e ELSE stack[i].iter
      BY <1>1, <1>3, <1>4, SetTopStack, ServedStack
<1>7. UniqueRunning' /\ Running' = Running \cup {e}
  <2>1. None \notin Running
        BY DEF Running
  <2>2. QED BY <1>1, <1>3, <1>5, <1>6, <2>1, RunningStep
<1>8. Placed' /\ timers' \in [{0, 1} -> Seq(Id)]
  <2>1. /\ live = Members(timers[a]) \cup Members(timers[Other(a)]) \cup Running
        /\ Members(timers[a]) \cap Members(timers[Other(a)]) = {}
        /\ Members(timers[a]) \cap Running = {} /\ Members(timers[Other(a)]) \cap Running = {}
        BY <1>1, <1>2, AllPlaced
  <2>2. /\ Members(r) \cap Running' = {}
        /\ Members(r) \cap Members(timers[Other(a)]) = {}
        /\ Members(timers[Other(a)]) \cap Running' = {}
        /\ Members(r) \cup Members(timers[Other(a)]) \cup Running' = live'
        BY <2>1, <1>3, <1>4, <1>7
  <2>3. QED BY <1>1, <1>2, <1>3, <1>4, <1>7, <2>2, PlacedOneArray
<1>9. TypeOK'
      BY <1>1, <1>6, <1>8 DEF TypeOK, CallTimer
<1>10. QED BY <1>1, <1>8, <1>9 DEF TimerInv, CallTimer

LEMMA SkipStep == ASSUME TimerInv, SkipTimer PROVE TimerInv'
<1>1. TypeOK /\ Placed /\ Top.array \in {0, 1}
      BY SetTopStack DEF TimerInv, SkipTimer, CanPop, Frame
<1> DEFINE a == Top.array
           b == Other(Top.array)
           e == Last(timers[a])
           r == Front(timers[a])
           q == Append(timers[b], e)
<1>2. /\ a \in {0, 1} /\ b \in {0, 1} /\ a /= b /\ b = Other(a) /\ a = Other(b)
      /\ \A c \in {0, 1} : c = a \/ c = b
      BY <1>1, Arrays
<1>3. timers[a] /= << >> /\ timers' = [timers EXCEPT ![a] = r, ![b] = q]
      BY DEF SkipTimer, CanPop, Popped
<1>4. timers[a] \in Seq(Id) /\ Unique(timers[a]) /\ timers[b] \in Seq(Id) /\ Unique(timers[b])
      BY <1>1, Arrays, AllPlaced
<1>5. /\ r \in Seq(Id) /\ Unique(r) /\ e \in Id /\ e \notin Members(r)
      /\ Members(timers[a]) = Members(r) \cup {e}
      BY <1>3, <1>4, FrontMembers
<1>6. /\ live = Members(timers[a]) \cup Members(timers[b]) \cup Running
      /\ Members(timers[a]) \cap Members(timers[b]) = {}
      /\ Members(timers[a]) \cap Running = {} /\ Members(timers[b]) \cap Running = {}
      BY <1>1, AllPlaced
<1> HIDE DEF a, b, e, r
<1>7. q \in Seq(Id) /\ Unique(q) /\ Members(q) = Members(timers[b]) \cup {e}
  <2>1. e \notin Members(timers[b])
        BY <1>5, <1>6
  <2>2. QED BY <1>4, <1>5, <2>1, AppendMembers
<1> HIDE DEF q
<1>8. timers' \in [{0, 1} -> Seq(Id)] /\ timers'[a] = r /\ timers'[b] = q
      BY <1>1, <1>2, <1>3, <1>5, <1>7 DEF TypeOK
<1>9. UniqueRunning' /\ Running' = Running /\ live' = live
      BY <1>1, RunningSame DEF SkipTimer
<1>10. /\ Members(r) \cap Members(q) = {}
       /\ Members(r) \cap Running = {} /\ Members(q) \cap Running = {}
       /\ live = Members(r) \cup Members(q) \cup Running
       BY <1>5, <1>6, <1>7
<1>11. \A c \in {0, 1} : /\ Unique(timers'[c])
                         /\ Members(timers'[c]) \cap Running' = {}
                         /\ Members(timers'[c]) \cap Members(timers'[Other(c)]) = {}
       BY <1>2, <1>5, <1>7, <1>8, <1>9, <1>10
<1>12. live' = Members(timers'[0]) \cup Members(timers'[1]) \cup Running'
       BY <1>2, <1>8, <1>9, <1>10
<1>13. TypeOK'
       BY <1>1, <1>8 DEF TypeOK, SkipTimer
<1>14. QED BY <1>9, <1>11, <1>12, <1>13 DEF TimerInv, Placed

(* The callback of the top dispatch returned.                              *)
LEMMA CallbackReturned ==
    ASSUME TypeOK, Placed, stack /= << >>, Top.iter /= None, stack' = SetTop(None)
    PROVE  /\ stack' \in Seq(Frame) /\ Len(stack') = Len(stack)
           /\ Top.array \in {0, 1} /\ Top.iter \in Id /\ Top.iter \in Running
           /\ UniqueRunning' /\ Running' = Running \ {Top.iter}
<1>1. /\ Len(stack) \in Nat \ {0} /\ Top = stack[Len(stack)] /\ Top \in Frame
      /\ stack' \in Seq(Frame) /\ Len(stack') = Len(stack)
      /\ \A i \in 1 .. Len(stack) :
           stack'[i].iter = IF i = Len(stack) THEN None ELSE stack[i].iter
      BY SetTopStack
<1>2. Top.array \in {0, 1} /\ Top.iter \in Id /\ Top.iter \in Running /\ None \notin Running
      BY <1>1 DEF Frame, Running
<1>3. UniqueRunning' /\ Running' = (Running \ {Top.iter}) \cup ({None} \ {None})
      BY <1>1, <1>2, RunningStep
<1>4. QED BY <1>1, <1>2, <1>3

(* timer_info_t of a timer that is started again.                          *)
LEMMA Restarted ==
    ASSUME TypeOK, Placed, stack /= << >>, Top.iter /= None,
           info' = [info EXCEPT ![Top.iter].start = Top.now, ![Top.iter].since = Top.began]
    PROVE  /\ info' \in Seq(Info) /\ Len(info') = Len(info) /\ Top.iter \in 1 .. Len(info)
           /\ info'[Top.iter].start = Top.now /\ info'[Top.iter].since = Top.began
           /\ \A id \in 1 .. Len(info) : id /= Top.iter => info'[id] = info[id]
<1>1. Len(stack) \in Nat \ {0} /\ Top = stack[Len(stack)] /\ Top \in Frame
      BY SetTopStack DEF None
<1>2. Top.iter \in Running
      BY <1>1 DEF Running
<1>3. Top.iter \in 1 .. Len(info) /\ info \in Seq(Info)
      BY <1>2 DEF TypeOK, Placed
<1>4. info[Top.iter] \in Info /\ Top.now \in Time /\ Top.began \in 0 .. MaxTime
      BY <1>1, <1>3 DEF Frame
<1> DEFINE x == [info[Top.iter] EXCEPT !.start = Top.now, !.since = Top.began]
<1>5. x \in Info /\ x.start = Top.now /\ x.since = Top.began
      BY <1>4 DEF Info
<1>6. info' = [info EXCEPT ![Top.iter] = x]
      BY <1>3
<1> HIDE DEF x
<1>7. QED BY <1>3, <1>5, <1>6

LEMMA RepeatStep == ASSUME TimerInv, Repeat PROVE TimerInv'
<1>1. TypeOK /\ Placed /\ stack /= << >> /\ Top.iter /= None /\ stack' = SetTop(None)
      BY DEF TimerInv, Repeat, InCallback
<1> DEFINE e == Top.iter
           a == Other(Top.array)
           r == Append(timers[a], e)
<1>2. /\ stack' \in Seq(Frame) /\ Len(stack') = Len(stack) /\ a \in {0, 1}
      /\ e \in Id /\ e \in Running /\ UniqueRunning' /\ Running' = Running \ {e}
      BY <1>1, CallbackReturned, Arrays
<1>3. timers' = [timers EXCEPT ![a] = r] /\ live' = live
      BY DEF Repeat
<1>4. r \in Seq(Id) /\ Members(r) = Members(timers[a]) \cup {e} /\ Unique(r)
  <2> HIDE DEF a, e
  <2>1. timers[a] \in Seq(Id) /\ Unique(timers[a]) /\ e \notin Members(timers[a])
        BY <1>1, <1>2, AllPlaced
  <2>2. QED BY <1>2, <2>1, AppendMembers
<1> HIDE DEF a, e, r
<1>5. Placed' /\ timers' \in [{0, 1} -> Seq(Id)]
  <2>1. /\ live = Members(timers[a]) \cup Members(timers[Other(a)]) \cup Running
        /\ Members(timers[a]) \cap Members(timers[Other(a)]) = {}
        /\ Members(timers[a]) \cap Running = {} /\ Members(timers[Other(a)]) \cap Running = {}
        BY <1>1, <1>2, AllPlaced
  <2>2. /\ Members(r) \cap Running' = {}
        /\ Members(r) \cap Members(timers[Other(a)]) = {}
        /\ Members(timers[Other(a)]) \cap Running' = {}
        /\ Members(r) \cup Members(timers[Other(a)]) \cup Running' = live'
        BY <2>1, <1>2, <1>3, <1>4
  <2>3. QED BY <1>1, <1>2, <1>3, <1>4, <2>2, PlacedOneArray
<1>6. TypeOK'
  <2>1. info' \in Seq(Info) /\ Len(info') = Len(info)
        BY <1>1, Restarted DEF Repeat
  <2>2. QED BY <1>1, <1>2, <1>5, <2>1 DEF TypeOK, Repeat
<1>7. QED BY <1>1, <1>5, <1>6 DEF TimerInv, Repeat

LEMMA FinishStep == ASSUME TimerInv, Finish PROVE TimerInv'
<1>1. TypeOK /\ Placed /\ stack /= << >> /\ Top.iter /= None /\ stack' = SetTop(None)
      BY DEF TimerInv, Finish, InCallback
<1> DEFINE e == Top.iter
<1>2. /\ stack' \in Seq(Frame) /\ Len(stack') = Len(stack)
      /\ e \in Id /\ e \in Running /\ UniqueRunning' /\ Running' = Running \ {e}
      BY <1>1, CallbackReturned
<1>3. timers' = timers /\ live' = live \ {e}
      BY DEF Finish
<1> HIDE DEF e
<1>4. Placed'
  <2>1. \A a \in {0, 1} : /\ Unique(timers[a])
                          /\ Members(timers[a]) \cap Running = {}
                          /\ Members(timers[a]) \cap Members(timers[Other(a)]) = {}
        BY <1>1 DEF Placed
  <2>2. live = Members(timers[0]) \cup Members(timers[1]) \cup Running
        BY <1>1 DEF Placed
  <2>3. \A a \in {0, 1} : Members(timers[a]) \cap Running' = {}
        BY <1>2, <2>1
  <2>4. live' = Members(timers[0]) \cup Members(timers[1]) \cup Running'
        BY <1>2, <1>3, <2>1, <2>2
  <2>5. QED BY <1>2, <1>3, <2>1, <2>3, <2>4 DEF Placed
<1>5. TypeOK'
      BY <1>1, <1>2, <1>3 DEF TypeOK, Finish
<1>6. QED BY <1>1, <1>4, <1>5 DEF TimerInv, Finish

LEMMA EndStep == ASSUME TimerInv, EndDispatch PROVE TimerInv'
<1>1. TypeOK /\ Placed /\ stack /= << >> /\ Top.iter = None /\ stack' = Front(stack)
      BY DEF TimerInv, EndDispatch
<1>2. /\ stack' \in Seq(Frame) /\ Len(stack) \in Nat \ {0} /\ Len(stack') = Len(stack) - 1
      /\ \A i \in 1 .. Len(stack) - 1 : stack'[i] = stack[i]
  <2>1. stack \in Seq(Frame)
        BY <1>1 DEF TypeOK
  <2>2. /\ Front(stack) \in Seq(Frame) /\ Len(stack) \in Nat \ {0}
        /\ Len(Front(stack)) = Len(stack) - 1
        /\ \A i \in 1 .. Len(stack) - 1 : Front(stack)[i] = stack[i]
        BY <1>1, <2>1, FrontMembers
  <2>3. QED BY <1>1, <2>2
<1>3. UniqueRunning'
      BY <1>1, <1>2 DEF UniqueRunning, Placed
<1>4. Running' = Running
      BY <1>1, <1>2 DEF Running, Top
<1>5. Placed'
      BY <1>1, <1>3, <1>4, PlacedSameArrays DEF EndDispatch
<1>6. TypeOK'
      BY <1>1, <1>2, Arrays, TimerAssumption DEF TypeOK, EndDispatch
<1>7. QED BY <1>1, <1>5, <1>6 DEF TimerInv, EndDispatch

LEMMA TickStep == ASSUME TimerInv, Tick PROVE TimerInv'
<1>1. UniqueRunning' /\ Running' = Running
      BY RunningSame DEF TimerInv, Tick
<1>2. Placed'
      BY <1>1, PlacedSameArrays DEF TimerInv, Tick
<1>3. TypeOK'
      BY TimerAssumption DEF TimerInv, TypeOK, Tick
<1>4. QED BY <1>2, <1>3 DEF TimerInv

LEMMA TimerNext == TimerInv /\ [Next]_vars => TimerInv'
<1> SUFFICES ASSUME TimerInv, [Next]_vars PROVE TimerInv'
    OBVIOUS
<1>1. CASE Tick
      BY <1>1, TickStep
<1>2. CASE \E d \in Duration : ManagerAdd(d)
      BY <1>2, AddStep
<1>3. CASE \E id \in Id : ManagerRemove(id)
      BY <1>3, RemoveStep
<1>4. CASE Dispatch
      BY <1>4, BeginStep, CallStep, SkipStep, RepeatStep, FinishStep, EndStep DEF Dispatch
<1>5. CASE UNCHANGED vars
      BY <1>5 DEF vars, TimerInv, TypeOK, Placed, Running, UniqueRunning
<1>6. QED BY <1>1, <1>2, <1>3, <1>4, <1>5 DEF Next
-----------------------------------------------------------------------------
(* The ids of timer_manager_t are handed out once, and every array, frame  *)
(* and timer_info_t holds values of its type.                              *)
THEOREM TimerTypeCorrect == Spec => []TypeOK
<1>1. TimerInv => TypeOK
      BY DEF TimerInv
<1>2. QED BY <1>1, TimerInit, TimerNext, PTL DEF Spec

LEMMA TimerPlaces == TimerInv => OnePlaceEach
<1> SUFFICES ASSUME TimerInv PROVE OnePlaceEach
    OBVIOUS
<1>1. TypeOK /\ Placed
      BY DEF TimerInv
<1> DEFINE In(a, id) == {j \in 1 .. Len(timers[a]) : timers[a][j] = id}
           Runs(id) == {j \in 1 .. Len(stack) : stack[j].iter = id}
<1>2. \A id \in Id : \A a \in {0, 1} :
        /\ id \notin Members(timers[a]) => In(a, id) = {}
        /\ id \in Members(timers[a]) => \E j : In(a, id) = {j}
  <2> SUFFICES ASSUME NEW id \in Id, NEW a \in {0, 1}
               PROVE  /\ id \notin Members(timers[a]) => In(a, id) = {}
                      /\ id \in Members(timers[a]) => \E j : In(a, id) = {j}
      OBVIOUS
  <2>1. id \notin Members(timers[a]) => In(a, id) = {}
        BY DEF Members
  <2>2. ASSUME id \in Members(timers[a]) PROVE \E j : In(a, id) = {j}
    <3>1. PICK j \in 1 .. Len(timers[a]) : timers[a][j] = id
          BY <2>2 DEF Members
    <3>2. \A k \in 1 .. Len(timers[a]) : timers[a][k] = id => k = j
          BY <1>1, <3>1 DEF Placed, Unique
    <3>3. In(a, id) = {j}
          BY <3>1, <3>2
    <3>4. QED BY <3>3
  <2>3. QED BY <2>1, <2>2
<1>3. \A id \in Id : /\ id \notin Running => Runs(id) = {}
                     /\ id \in Running => \E j : Runs(id) = {j}
  <2> SUFFICES ASSUME NEW id \in Id
               PROVE  /\ id \notin Running => Runs(id) = {}
                      /\ id \in Running => \E j : Runs(id) = {j}
      OBVIOUS
  <2>1. id /= None
        BY DEF Id, None
  <2>2. id \notin Running => Runs(id) = {}
        BY <2>1 DEF Running
  <2>3. ASSUME id \in Running PROVE \E j : Runs(id) = {j}
    <3>1. PICK j \in 1 .. Len(stack) : stack[j].iter = id
          BY <2>3 DEF Running
    <3>2. \A k \in 1 .. Len(stack) : stack[k].iter = id => k = j
          BY <1>1, <2>1, <3>1 DEF Placed, UniqueRunning
    <3>3. Runs(id) = {j}
          BY <3>1, <3>2
    <3>4. QED BY <3>3
  <2>4. QED BY <2>2, <2>3
<1>4. \A id : Places(id) = {<<0, i>> : i \in In(0, id)} \cup {<<1, i>> : i \in In(1, id)}
                          \cup {<<2, i>> : i \in Runs(id)}
      BY DEF Places
<1>5. live \subseteq Id
      BY <1>1, TimerAssumption DEF TypeOK, Id
<1> HIDE DEF In, Runs
<1>6. \A id \in Id \ live : Places(id) = {}
  <2>1. \A id \in Id \ live :
           id \notin Members(timers[0]) /\ id \notin Members(timers[1]) /\ id \notin Running
        BY <1>1 DEF Placed
  <2>2. QED BY <1>2, <1>3, <1>4, <2>1
<1>7. ASSUME NEW id \in live PROVE \E p \in Places(id) : Places(id) = {p}
  <2>1. /\ live = Members(timers[0]) \cup Members(timers[1]) \cup Running
        /\ Members(timers[0]) \cap Members(timers[1]) = {}
        /\ Members(timers[0]) \cap Running = {} /\ Members(timers[1]) \cap Running = {}
        BY <1>1, <1>7, AllPlaced DEF Other
  <2>2. CASE id \in Members(timers[0])
    <3>1. In(1, id) = {} /\ Runs(id) = {} /\ \E j : In(0, id) = {j}
          BY <1>2, <1>3, <1>5, <2>1, <2>2
    <3>2. PICK j : In(0, id) = {j}
          BY <3>1
    <3>3. Places(id) = {<<0, j>>}
          BY <1>4, <3>1, <3>2
    <3>4. QED BY <3>3
  <2>3. CASE id \in Members(timers[1])
    <3>1. In(0, id) = {} /\ Runs(id) = {} /\ \E j : In(1, id) = {j}
          BY <1>2, <1>3, <1>5, <2>1, <2>3
    <3>2. PICK j : In(1, id) = {j}
          BY <3>1
    <3>3. Places(id) = {<<1, j>>}
          BY <1>4, <3>1, <3>2
    <3>4. QED BY <3>3
  <2>4. CASE id \in Running
    <3>1. In(0, id) = {} /\ In(1, id) = {} /\ \E j : Runs(id) = {j}
          BY <1>2, <1>3, <1>5, <2>1, <2>4
    <3>2. PICK j : Runs(id) = {j}
          BY <3>1
    <3>3. Places(id) = {<<2, j>>}
          BY <1>4, <3>1, <3>2
    <3>4. QED BY <3>3
  <2>5. QED BY <1>7, <2>1, <2>2, <2>3, <2>4
<1>8. QED BY <1>6, <1>7 DEF OnePlaceEach

(* However deeply the callbacks of timer_manager_dispatch nest further      *)
(* dispatches, every timer is in exactly one array or running callback      *)
(* until it is removed or finished.                                        *)
THEOREM TimerOnePlaceCorrect == Spec => []OnePlaceEach
BY TimerInit, TimerNext, TimerPlaces, PTL DEF Spec
-----------------------------------------------------------------------------
(* No deadline within the time considered reaches the end of uint32_t.     *)
NoWrap == MaxTime < Wrap /\ \A d \in Duration : MaxTime + d < Wrap

(* The times the code keeps are the true ones, those of the dispatches in  *)
(* progress lie in the past, and what runs has elapsed.                    *)
Timely == /\ \A id \in 1 .. Len(info) : info[id].start = info[id].since
          /\ \A i \in 1 .. Len(stack) : stack[i].now = stack[i].began /\ stack[i].began <= clock
          /\ NeverEarly

LEMMA TimeValues ==
    ASSUME NoWrap, TypeOK
    PROVE  /\ GetTime = clock /\ clock \in Nat
           /\ \A id \in 1 .. Len(info) :
                /\ info[id].start \in Nat /\ info[id].duration \in Nat
                /\ info[id].since \in Nat /\ info[id].since + info[id].duration < Wrap
           /\ \A i \in 1 .. Len(stack) : stack[i].began \in Nat /\ stack[i].iter \in Id \cup {None}
<1>1. clock \in Nat /\ clock < Wrap
      BY TimerAssumption DEF TypeOK, NoWrap
<1>2. GetTime = clock
      BY <1>1, ClockValue DEF GetTime
<1>3. ASSUME NEW id \in 1 .. Len(info)
      PROVE  /\ info[id].start \in Nat /\ info[id].duration \in Nat
             /\ info[id].since \in Nat /\ info[id].since + info[id].duration < Wrap
  <2>1. info[id] \in Info
        BY <1>3 DEF TypeOK
  <2>2. /\ info[id].start \in Time /\ info[id].duration \in Duration
        /\ info[id].since \in 0 .. MaxTime
        BY <2>1 DEF Info
  <2>3. info[id].duration \in Nat /\ info[id].start \in Nat /\ Wrap \in Nat /\ MaxTime \in Nat
    <3>1. Wrap \in Nat /\ MaxTime \in Nat /\ Duration \subseteq 0 .. Wrap - 1
          BY TimerAssumption
    <3>2. info[id].duration \in 0 .. Wrap - 1 /\ info[id].start \in 0 .. Wrap - 1
          BY <2>2, <3>1 DEF Time
    <3>3. QED BY <3>1, <3>2
  <2>4. MaxTime + info[id].duration < Wrap
        BY <2>2 DEF NoWrap
  <2>5. QED BY <2>2, <2>3, <2>4
<1>4. ASSUME NEW i \in 1 .. Len(stack)
      PROVE  stack[i].began \in Nat /\ stack[i].iter \in Id \cup {None}
  <2>1. stack[i] \in Frame
        BY <1>4 DEF TypeOK
  <2>2. QED BY <2>1 DEF Frame
<1>5. QED BY <1>1, <1>2, <1>3, <1>4

(* A timer whose callback runs is one of those that info describes.        *)
LEMMA RunningKnown ==
    ASSUME TimerInv, NEW i \in 1 .. Len(stack), stack[i].iter /= None
    PROVE  stack[i].iter \in 1 .. Len(info)
<1>1. stack[i].iter \in live
      BY DEF TimerInv, Placed, Running
<1>2. QED BY <1>1 DEF TimerInv, TypeOK

(* Steps that start no timer, no dispatch and no callback.                 *)
LEMMA TimelyKept ==
    ASSUME TimerInv, Timely, info' = info, clock' = clock,
           Len(stack') <= Len(stack), Len(stack') \in Nat,
           \A i \in 1 .. Len(stack') : /\ stack'[i].now = stack[i].now
                                       /\ stack'[i].began = stack[i].began
                                       /\ stack'[i].iter = stack[i].iter \/ stack'[i].iter = None
    PROVE  Timely'
<1>1. Len(stack) \in Nat /\ \A i \in 1 .. Len(stack') : i \in 1 .. Len(stack)
      BY DEF TimerInv, TypeOK
<1>2. NeverEarly'
      BY <1>1 DEF Timely, NeverEarly, Elapsed
<1>3. QED BY <1>1, <1>2 DEF Timely

LEMMA TimelyInit == Init => Timely
<1> SUFFICES ASSUME Init PROVE Timely
    OBVIOUS
<1>1. Len(info) = 0 /\ Len(stack) = 0
      BY DEF Init
<1>2. QED BY <1>1 DEF Timely, NeverEarly

LEMMA TimelyNext == ASSUME NoWrap, TimerInv, TimerInv', Timely, [Next]_vars PROVE Timely'
<1>1. TypeOK /\ Placed /\ stack \in Seq(Frame) /\ Len(stack) \in Nat /\ Len(info) \in Nat
      BY DEF TimerInv, TypeOK
<1>2. CASE Tick
  <2>1. clock \in Nat /\ clock' = clock + 1 /\ info' = info /\ stack' = stack
        BY <1>1, <1>2, TimeValues DEF Tick
  <2>2. ASSUME NEW i \in 1 .. Len(stack), stack[i].iter /= None PROVE Elapsed(stack[i].iter)'
    <3>1. stack[i].iter \in 1 .. Len(info) /\ Elapsed(stack[i].iter)
          BY <2>2, RunningKnown DEF Timely, NeverEarly
    <3>2. info[stack[i].iter].since \in Nat /\ info[stack[i].iter].duration \in Nat
          BY <1>1, <3>1, TimeValues
    <3>3. QED BY <2>1, <3>1, <3>2 DEF Elapsed
  <2>3. NeverEarly'
        BY <2>1, <2>2 DEF NeverEarly
  <2>4. \A i \in 1 .. Len(stack) : stack[i].began \in Nat
        BY <1>1, TimeValues
  <2>5. QED BY <2>1, <2>3, <2>4 DEF Timely
<1>3. ASSUME NEW d \in Duration, ManagerAdd(d) PROVE Timely'
  <2> DEFINE x == [start |-> GetTime, duration |-> d, since |-> clock]
  <2>1. x.start = x.since /\ x \in Info
    <3>1. GetTime = clock /\ clock \in 0 .. MaxTime /\ clock \in Nat
          BY <1>1, TimeValues DEF TypeOK
    <3>2. GetTime \in Time
          BY <3>1, TimerAssumption DEF NoWrap, Time
    <3>3. QED BY <3>1, <3>2 DEF Info
  <2>2. info' = Append(info, x) /\ stack' = stack /\ clock' = clock
        BY <1>3 DEF ManagerAdd
  <2> HIDE DEF x
  <2>3. /\ Len(info') = Len(info) + 1 /\ info'[Len(info) + 1] = x
        /\ \A id \in 1 .. Len(info) : info'[id] = info[id]
        BY <1>1, <2>1, <2>2 DEF TypeOK
  <2>4. \A id \in 1 .. Len(info') : info'[id].start = info'[id].since
        BY <1>1, <2>1, <2>3 DEF Timely
  <2>5. NeverEarly'
        BY <2>2, <2>3, RunningKnown DEF Timely, NeverEarly, Elapsed
  <2>6. QED BY <2>2, <2>4, <2>5 DEF Timely
<1>4. ASSUME NEW id \in Id, ManagerRemove(id) PROVE Timely'
  <2>1. info' = info /\ clock' = clock /\ stack' = Served(stack, {id})
        BY <1>4 DEF ManagerRemove
  <2>2. QED BY <1>1, <2>1, ServedStack, TimelyKept
<1>5. CASE BeginDispatch
  <2> DEFINE f == [array |-> active, now |-> GetTime, iter |-> None,
                   owed |-> {id \in Waiting : Elapsed(id)}, began |-> clock]
  <2>1. f.now = f.began /\ f.began = clock /\ f.iter = None /\ clock \in Nat
        BY <1>1, TimeValues
  <2>2. stack' = Append(stack, f) /\ info' = info /\ clock' = clock
        BY <1>5 DEF BeginDispatch
  <2> HIDE DEF f
  <2>3. /\ Len(stack') = Len(stack) + 1 /\ stack'[Len(stack) + 1] = f
        /\ \A i \in 1 .. Len(stack) : stack'[i] = stack[i]
        BY <1>1, <2>2
  <2>4. NeverEarly'
        BY <1>1, <2>1, <2>2, <2>3 DEF Timely, NeverEarly, Elapsed
  <2>5. QED BY <1>1, <2>1, <2>2, <2>3, <2>4 DEF Timely
<1>6. CASE CallTimer
  <2>1. stack /= << >> /\ Top.array \in {0, 1} /\ timers[Top.array] /= << >>
        BY <1>1, <1>6, SetTopStack DEF CallTimer, CanPop, None, Frame
  <2> DEFINE e == Last(timers[Top.array])
  <2>2. /\ e \in Id /\ e \in Members(timers[Top.array]) /\ Deadline(e) <= Top.now
        /\ stack' = Served(SetTop(e), {e}) /\ info' = info /\ clock' = clock
    <3>1. timers[Top.array] \in Seq(Id)
          BY <1>1, <2>1 DEF TypeOK
    <3>2. e \in Id /\ e \in Members(timers[Top.array])
      <4>1. e \in Id /\ Members(timers[Top.array]) = Members(Front(timers[Top.array])) \cup {e}
            BY <2>1, <3>1, FrontMembers
      <4>2. QED BY <4>1
    <3>3. /\ Deadline(e) <= Top.now
          /\ stack' = Served(SetTop(e), {e}) /\ info' = info /\ clock' = clock
          BY <1>6 DEF CallTimer, Popped, IsDue
    <3>4. QED BY <3>2, <3>3
  <2> HIDE DEF e
  <2>3. e \in 1 .. Len(info)
    <3>1. e \in live
          BY <1>1, <2>1, <2>2 DEF Placed
    <3>2. QED BY <1>1, <3>1 DEF TypeOK
  <2>4. /\ Len(stack) \in Nat \ {0} /\ Top = stack[Len(stack)]
        /\ Len(stack') = Len(stack)
        /\ \A i \in 1 .. Len(stack) :
             /\ stack'[i].iter = IF i = Len(stack) THEN e ELSE stack[i].iter
             /\ stack'[i].now = stack[i].now /\ stack'[i].began = stack[i].began
        BY <1>1, <2>1, <2>2, SetTopStack, ServedStack
  <2>5. Elapsed(e)
    <3>1. /\ info[e].start = info[e].since /\ info[e].since \in Nat /\ info[e].duration \in Nat
          /\ info[e].since + info[e].duration < Wrap
          BY <1>1, <2>3, TimeValues DEF Timely
    <3>2. Deadline(e) = info[e].since + info[e].duration
          BY <3>1, ClockValue DEF Deadline
    <3>3. Top.now <= clock /\ Top.now \in Nat /\ clock \in Nat
          BY <1>1, <2>4, TimeValues DEF Timely
    <3>4. QED BY <2>2, <3>1, <3>2, <3>3 DEF Elapsed
  <2>6. NeverEarly'
        BY <2>2, <2>4, <2>5 DEF Timely, NeverEarly, Elapsed
  <2>7. \A id \in 1 .. Len(info') : info'[id].start = info'[id].since
        BY <1>1, <2>2 DEF Timely
  <2>8. \A i \in 1 .. Len(stack') : stack'[i].now = stack'[i].began /\ stack'[i].began <= clock'
    <3>1. \A i \in 1 .. Len(stack) : stack[i].now = stack[i].began /\ stack[i].began <= clock
          BY <1>1 DEF Timely
    <3>2. clock' = clock
          BY <2>2
    <3>3. QED BY <2>4, <3>1, <3>2
  <2>9. QED BY <2>6, <2>7, <2>8 DEF Timely
<1>7. CASE SkipTimer
      BY <1>1, <1>7, TimelyKept DEF SkipTimer
<1>8. CASE Repeat
  <2>1. /\ stack /= << >> /\ Top.iter /= None /\ stack' = SetTop(None) /\ clock' = clock
        /\ info' = [info EXCEPT ![Top.iter].start = Top.now, ![Top.iter].since = Top.began]
        BY <1>8 DEF Repeat, InCallback
  <2>2. /\ Len(info') = Len(info) /\ Top.iter \in 1 .. Len(info)
        /\ info'[Top.iter].start = Top.now /\ info'[Top.iter].since = Top.began
        /\ \A id \in 1 .. Len(info) : id /= Top.iter => info'[id] = info[id]
        BY <1>1, <2>1, Restarted
  <2>3. /\ Len(stack) \in Nat \ {0} /\ Top = stack[Len(stack)]
        /\ Len(stack') = Len(stack)
        /\ \A i \in 1 .. Len(stack) :
             /\ stack'[i].iter = IF i = Len(stack) THEN None ELSE stack[i].iter
             /\ stack'[i].now = stack[i].now /\ stack'[i].began = stack[i].began
        BY <1>1, <2>1, SetTopStack
  <2>4. \A id \in 1 .. Len(info') : info'[id].start = info'[id].since
        BY <2>2, <2>3 DEF Timely
  <2>5. ASSUME NEW i \in 1 .. Len(stack), stack'[i].iter /= None PROVE Elapsed(stack[i].iter)'
    <3>1. i /= Len(stack) /\ stack'[i].iter = stack[i].iter
          BY <2>3, <2>5
    <3>2. stack[i].iter /= Top.iter /\ Elapsed(stack[i].iter)
          BY <1>1, <2>3, <2>5, <3>1 DEF Placed, UniqueRunning, Timely, NeverEarly
    <3>3. stack[i].iter \in 1 .. Len(info)
          BY <2>5, <3>1, RunningKnown
    <3>4. QED BY <2>1, <2>2, <3>1, <3>2, <3>3 DEF Elapsed
  <2>6. NeverEarly'
        BY <2>3, <2>5 DEF NeverEarly
  <2>7. \A i \in 1 .. Len(stack') : stack'[i].now = stack'[i].began /\ stack'[i].began <= clock'
    <3>1. \A i \in 1 .. Len(stack) : stack[i].now = stack[i].began /\ stack[i].began <= clock
          BY DEF Timely
    <3>2. clock' = clock
          BY <2>1
    <3>3. QED BY <2>3, <3>1, <3>2
  <2>8. QED BY <2>4, <2>6, <2>7 DEF Timely
<1>9. CASE Finish
  <2>1. stack /= << >> /\ stack' = SetTop(None) /\ info' = info /\ clock' = clock
        BY <1>9 DEF Finish, InCallback
  <2>2. QED BY <1>1, <2>1, SetTopStack, TimelyKept
<1>10. CASE EndDispatch
  <2>1. stack /= << >> /\ stack' = Front(stack) /\ info' = info /\ clock' = clock
        BY <1>10 DEF EndDispatch
  <2>2. /\ Len(stack) \in Nat \ {0} /\ Len(stack') = Len(stack) - 1
        /\ \A i \in 1 .. Len(stack) - 1 : stack'[i] = stack[i]
        BY <1>1, <2>1, FrontMembers
  <2>3. QED BY <2>1, <2>2, TimelyKept
<1>11. CASE UNCHANGED vars
       BY <1>1, <1>11, TimelyKept DEF vars
<1>12. QED BY <1>2, <1>3, <1>4, <1>5, <1>6, <1>7, <1>8, <1>9, <1>10, <1>11 DEF Next, Dispatch

(* As long as the 32-bit clock does not wrap around, timer_manager_dispatch *)
(* calls no timer before its duration has passed, however dispatches nest   *)
(* and whatever their callbacks add and remove.                             *)
THEOREM NeverEarlyCorrect == ASSUME NoWrap PROVE Spec => []NeverEarly
<1>1. Init => TimerInv /\ Timely
      BY TimerInit, TimelyInit
<1>2. TimerInv /\ Timely /\ [Next]_vars => (TimerInv /\ Timely)'
  <2> SUFFICES ASSUME TimerInv, Timely, [Next]_vars PROVE TimerInv' /\ Timely'
      OBVIOUS
  <2>1. TimerInv'
        BY TimerNext
  <2>2. QED BY <2>1, NoWrap, TimelyNext
<1>3. TimerInv /\ Timely => NeverEarly
      BY DEF Timely
<1>4. QED BY <1>1, <1>2, <1>3, PTL DEF Spec

-----------------------------------------------------------------------------
(* As long as no dispatch was started inside another one: between two      *)
(* dispatches only the active array holds timers, and the dispatch in      *)
(* progress empties the active one.                                        *)
Settled == ~nested => /\ Len(stack) <= 1
                      /\ stack = << >> => Members(timers[Other(active)]) = {}
                      /\ stack /= << >> => Top.array = active

LEMMA SettledInit == Init => Settled
<1> SUFFICES ASSUME Init PROVE Settled
    OBVIOUS
<1>1. Len(stack) = 0 /\ stack = << >> /\ active \in {0, 1} /\ timers[Other(active)] = << >>
      BY DEF Init, Other
<1>2. Members(timers[Other(active)]) = {}
      BY <1>1 DEF Members
<1>3. QED BY <1>1, <1>2 DEF Settled

(* What timer_remove leaves of the arrays.                                 *)
LEMMA RemoveMembers ==
    ASSUME TimerInv, NEW id \in Id, ManagerRemove(id), NEW b \in {0, 1}
    PROVE  /\ Members(timers'[b]) \subseteq Members(timers[b])
           /\ Members(timers[b]) \ {id} \subseteq Members(timers'[b])
<1>1. PICK a \in {0, 1} : \E i \in 1 .. Len(timers[a]) :
         timers[a][i] = id /\ timers' = [timers EXCEPT ![a] = RemoveAt(timers[a], i)]
      BY DEF ManagerRemove
<1>2. PICK i \in 1 .. Len(timers[a]) :
         timers[a][i] = id /\ timers' = [timers EXCEPT ![a] = RemoveAt(timers[a], i)]
      BY <1>1
<1>3. timers \in [{0, 1} -> Seq(Id)] /\ Unique(timers[a])
      BY DEF TimerInv, TypeOK, Placed
<1>4. Members(RemoveAt(timers[a], i)) = Members(timers[a]) \ {id}
      BY <1>2, <1>3, RemoveAtMembers
<1>5. timers'[b] = IF b = a THEN RemoveAt(timers[a], i) ELSE timers[b]
      BY <1>2, <1>3
<1>6. QED BY <1>4, <1>5

LEMMA SettledNext == TimerInv /\ Settled /\ [Next]_vars => Settled'
<1> SUFFICES ASSUME TimerInv, Settled, [Next]_vars, ~nested'
             PROVE  /\ Len(stack') <= 1
                    /\ stack' = << >> => Members(timers'[Other(active')]) = {}
                    /\ stack' /= << >> => Top'.array = active'
    BY DEF Settled
<1>1. TypeOK /\ active \in {0, 1} /\ stack \in Seq(Frame)
      /\ timers \in [{0, 1} -> Seq(Id)] /\ Len(stack) \in Nat
  <2>1. TypeOK
        BY DEF TimerInv
  <2>2. QED BY <2>1 DEF TypeOK
<1>2. ~nested
      BY DEF Next, Tick, ManagerAdd, ManagerRemove, Dispatch, BeginDispatch, CallTimer,
             SkipTimer, Repeat, Finish, EndDispatch, vars
<1>3. /\ Len(stack) <= 1
      /\ stack = << >> => Members(timers[Other(active)]) = {}
      /\ stack /= << >> => Top.array = active
      BY <1>2 DEF Settled
<1>4. CASE Tick \/ UNCHANGED vars
      BY <1>3, <1>4 DEF Tick, vars, Top
<1>5. ASSUME NEW d \in Duration, ManagerAdd(d)
      PROVE  /\ Len(stack') <= 1
             /\ stack' = << >> => Members(timers'[Other(active')]) = {}
             /\ stack' /= << >> => Top'.array = active'
  <2>1. /\ timers'[Other(active)] = timers[Other(active)] /\ active' = active /\ stack' = stack
        BY <1>1, <1>5, Arrays DEF ManagerAdd
  <2>2. QED BY <1>3, <2>1 DEF Top
<1>6. ASSUME NEW id \in Id, ManagerRemove(id)
      PROVE  /\ Len(stack') <= 1
             /\ stack' = << >> => Members(timers'[Other(active')]) = {}
             /\ stack' /= << >> => Top'.array = active'
  <2>1. active' = active /\ stack' = Served(stack, {id})
        BY <1>6 DEF ManagerRemove
  <2>2. /\ Len(stack') = Len(stack) /\ stack' \in Seq(Frame)
        /\ \A i \in 1 .. Len(stack) : stack'[i].array = stack[i].array
        BY <1>1, <2>1, ServedStack
  <2>3. CASE stack = << >>
    <3>1. stack' = << >>
          BY <2>2, <2>3, EmptySeq
    <3>2. Members(timers'[Other(active)]) \subseteq Members(timers[Other(active)])
          BY <1>1, <1>6, RemoveMembers, Arrays
    <3>3. QED BY <1>3, <2>1, <2>2, <2>3, <3>1, <3>2
  <2>4. CASE stack /= << >>
    <3>1. stack' /= << >> /\ Len(stack) \in 1 .. Len(stack)
          BY <1>1, <2>2, <2>4, EmptySeq
    <3>2. Top'.array = Top.array
          BY <2>2, <3>1 DEF Top
    <3>3. QED BY <1>3, <2>1, <2>2, <2>4, <3>1, <3>2
  <2>5. QED BY <2>3, <2>4
<1>7. CASE BeginDispatch
  <2> DEFINE f == [array |-> active, now |-> GetTime, iter |-> None,
                   owed |-> {id \in Waiting : Elapsed(id)}, began |-> clock]
  <2>1. f.array = active
        OBVIOUS
  <2>2. stack' = Append(stack, f) /\ stack = << >> /\ active' = active
        BY <1>7 DEF BeginDispatch
  <2> HIDE DEF f
  <2>3. Len(stack') = 1 /\ stack'[1] = f /\ stack' /= << >>
        BY <2>2
  <2>4. QED BY <2>1, <2>2, <2>3 DEF Top
<1>8. CASE CallTimer
  <2> DEFINE e == Popped
  <2>1. /\ stack /= << >> /\ timers[Top.array] /= << >> /\ Top.array = active
        /\ stack' = Served(SetTop(e), {e}) /\ active' = active
        BY <1>3, <1>8 DEF CallTimer, CanPop
  <2>2. e \in Id
        BY <1>1, <2>1, FrontMembers DEF Popped
  <2> HIDE DEF e
  <2>3. /\ Len(stack) \in 1 .. Len(stack) /\ SetTop(e) \in Seq(Frame)
        /\ Len(SetTop(e)) = Len(stack) /\ SetTop(e)[Len(stack)].array = Top.array
        BY <1>1, <2>1, <2>2, SetTopStack
  <2>4. Len(stack') = Len(stack) /\ stack'[Len(stack)].array = Top.array
        BY <2>1, <2>3, ServedStack
  <2>5. stack' /= << >>
        BY <1>1, <2>3, <2>4, EmptySeq
  <2>6. QED BY <1>3, <2>1, <2>4, <2>5 DEF Top
<1>9. CASE SkipTimer
      BY <1>3, <1>9 DEF SkipTimer, CanPop, Top
<1>10. CASE Repeat \/ Finish
  <2>1. stack /= << >> /\ Top.array = active /\ stack' = SetTop(None) /\ active' = active
        BY <1>3, <1>10 DEF Repeat, Finish, InCallback
  <2>2. /\ Len(stack) \in Nat \ {0} /\ Top = stack[Len(stack)]
        /\ Len(SetTop(None)) = Len(stack)
        /\ \A i \in 1 .. Len(stack) : SetTop(None)[i].array = stack[i].array
        BY <1>1, <2>1, SetTopStack
  <2>3. Len(stack') = Len(stack) /\ stack'[Len(stack)].array = Top.array
        BY <2>1, <2>2
  <2>4. stack' /= << >>
        BY <2>2, <2>3, EmptySeq
  <2>5. QED BY <1>3, <2>1, <2>3, <2>4 DEF Top
<1>11. CASE EndDispatch
  <2>1. /\ stack /= << >> /\ timers[active] = << >> /\ active' = Other(active)
        /\ timers' = timers /\ stack' = Front(stack)
        BY <1>3, <1>11 DEF EndDispatch
  <2>2. Len(stack) = 1
    <3>1. stack \in Seq(Frame) /\ Len(stack) /= 0
          BY <1>1, <2>1, EmptySeq
    <3>2. Len(stack) <= 1
          BY <1>3
    <3>3. \A n \in Nat : n /= 0 /\ n <= 1 => n = 1
          OBVIOUS
    <3>4. QED BY <1>1, <3>1, <3>2, <3>3, Zenon
  <2>3. stack' \in Seq(Frame) /\ Len(stack') = 0
        BY <1>1, <2>1, <2>2, FrontMembers
  <2>4. stack' = << >>
        BY <2>3, EmptySeq
  <2>5. Members(timers'[Other(active')]) = {}
    <3>1. timers'[Other(active')] = << >>
          BY <1>1, <2>1, Arrays
    <3>2. QED BY <3>1 DEF Members
  <2>6. QED BY <2>3, <2>4, <2>5
<1>12. QED BY <1>4, <1>5, <1>6, <1>7, <1>8, <1>9, <1>10, <1>11 DEF Next, Dispatch

(* The minimum of a set of natural numbers that is not empty.              *)
LEMMA MinOfNaturals ==
    ASSUME NEW S \in SUBSET Nat, S /= {}
    PROVE  Min(S) \in S /\ \A y \in S : Min(S) <= y
<1>1. \E x \in S : \A y \in S : ~(<<y, x>> \in OpToRel(<, Nat))
      BY NatLessThanWellFounded, WFMin
<1>2. PICK x \in S : \A y \in S : ~(<<y, x>> \in OpToRel(<, Nat))
      BY <1>1
<1>3. ASSUME NEW y \in S PROVE x <= y
  <2>1. <<y, x>> \in Nat \X Nat /\ <<y, x>>[1] = y /\ <<y, x>>[2] = x
        OBVIOUS
  <2>2. y < x => <<y, x>> \in OpToRel(<, Nat)
        BY <2>1, Zenon DEF OpToRel
  <2>3. ~(y < x)
        BY <1>2, <2>2
  <2>4. QED BY <2>3
<1>4. \E m \in S : \A y \in S : m <= y
      BY <1>3
<1>5. QED BY <1>4 DEF Min

(* timer_manager_next_time never makes the main loop sleep past a timer,   *)
(* as long as dispatches do not nest: between two of them every timer is   *)
(* in the array that it looks at.                                          *)
THEOREM NextTimeCorrect == Spec => []NextTimeIsEarliest
<1>1. TimerInv /\ Settled => NextTimeIsEarliest
  <2> SUFFICES ASSUME TimerInv, Settled, ~nested, stack = << >>, NEW id \in live
               PROVE  NextTime <= Deadline(id)
      BY DEF NextTimeIsEarliest
  <2>1. TypeOK /\ Placed /\ active \in {0, 1} /\ Members(timers[Other(active)]) = {}
        BY DEF TimerInv, TypeOK, Settled
  <2>2. Running = {}
        BY DEF Running
  <2>3. id \in Members(timers[active])
        BY <2>1, <2>2, AllPlaced
  <2> DEFINE D == {Deadline(timers[active][i]) : i \in 1 .. Len(timers[active])}
             S == D \cup {(GetTime + MaxAhead) % Wrap}
  <2>4. Deadline(id) \in S
        BY <2>3 DEF Members
  <2>5. S \in SUBSET Nat
    <3>1. Wrap \in Nat \ {0}
          BY TimerAssumption
    <3>2. GetTime \in Nat
          BY <2>1, <3>1, TimerAssumption, ClockValue DEF GetTime, TypeOK, Time
    <3>3. (GetTime + MaxAhead) % Wrap \in Nat
          BY <3>1, <3>2 DEF MaxAhead
    <3>4. ASSUME NEW i \in 1 .. Len(timers[active]) PROVE Deadline(timers[active][i]) \in Nat
      <4>1. timers[active][i] \in live
            BY <2>1, AllPlaced DEF Members
      <4>2. timers[active][i] \in 1 .. Len(info)
            BY <2>1, <4>1 DEF TypeOK
      <4>3. info[timers[active][i]] \in Info
            BY <2>1, <4>2 DEF TypeOK
      <4>4. /\ info[timers[active][i]].start \in Nat
            /\ info[timers[active][i]].duration \in Nat
        <5>1. /\ info[timers[active][i]].start \in Time
              /\ info[timers[active][i]].duration \in Duration
              BY <4>3 DEF Info
        <5>2. Time \subseteq Nat /\ Duration \subseteq Nat
              BY TimerAssumption DEF Time
        <5>3. QED BY <5>1, <5>2
      <4>5. QED BY <3>1, <4>4 DEF Deadline
    <3>5. QED BY <3>3, <3>4
  <2>6. NextTime = Min(S)
        BY DEF NextTime
  <2> HIDE DEF S
  <2>7. QED BY <2>4, <2>5, <2>6, MinOfNaturals
<1>2. QED BY <1>1, TimerInit, TimerNext, SettledInit, SettledNext, PTL DEF Spec

(* What the dispatch in progress still owes is in the array that it        *)
(* empties, and was due when it started.                                   *)
OwedDue == ~nested /\ stack /= << >> =>
             /\ Top.owed \subseteq Members(timers[active])
             /\ \A id \in Top.owed : info[id].since + info[id].duration <= Top.began

LEMMA OwedDueNext ==
    ASSUME NoWrap, TimerInv, Timely, Settled, OwedDue, [Next]_vars
    PROVE  OwedDue'
<1> SUFFICES ASSUME ~nested', stack' /= << >>
             PROVE  /\ Top'.owed \subseteq Members(timers'[active'])
                    /\ \A id \in Top'.owed : info'[id].since + info'[id].duration <= Top'.began
    BY DEF OwedDue
<1>1. /\ TypeOK /\ Placed /\ active \in {0, 1} /\ stack \in Seq(Frame)
      /\ timers \in [{0, 1} -> Seq(Id)] /\ Len(stack) \in Nat
  <2>1. TypeOK /\ Placed
        BY DEF TimerInv
  <2>2. QED BY <2>1 DEF TypeOK
<1>2. ~nested
      BY DEF Next, Tick, ManagerAdd, ManagerRemove, Dispatch, BeginDispatch, CallTimer,
             SkipTimer, Repeat, Finish, EndDispatch, vars
<1>3. /\ Len(stack) <= 1
      /\ stack = << >> => Members(timers[Other(active)]) = {}
      /\ stack /= << >> => Top.array = active
      BY <1>2 DEF Settled
<1>4. stack /= << >> => /\ Top.owed \subseteq Members(timers[active])
                        /\ \A id \in Top.owed : info[id].since + info[id].duration <= Top.began
      BY <1>2 DEF OwedDue
<1>5. \A id \in Members(timers[active]) : id \in 1 .. Len(info)
  <2>1. Members(timers[active]) \subseteq live
        BY <1>1, AllPlaced
  <2>2. live \subseteq 1 .. Len(info)
        BY <1>1 DEF TypeOK
  <2>3. QED BY <2>1, <2>2
<1>6. CASE Tick \/ UNCHANGED vars
      BY <1>4, <1>6 DEF Tick, vars, Top
<1>7. ASSUME NEW d \in Duration, ManagerAdd(d)
      PROVE  /\ Top'.owed \subseteq Members(timers'[active'])
             /\ \A id \in Top'.owed : info'[id].since + info'[id].duration <= Top'.began
  <2>1. /\ timers'[active] = Append(timers[active], nextId) /\ active' = active
        /\ stack' = stack /\ nextId \in Id
        BY <1>1, <1>7 DEF ManagerAdd
  <2>2. Members(timers[active]) \subseteq Members(timers'[active])
    <3>1. timers[active] \in Seq(Id)
          BY <1>1
    <3>2. QED BY <2>1, <3>1, AppendMembers
  <2>3. \A id \in 1 .. Len(info) : info'[id] = info[id]
    <3>1. info' = Append(info, [start |-> GetTime, duration |-> d, since |-> clock])
          BY <1>7 DEF ManagerAdd
    <3>2. info \in Seq(Info)
          BY <1>1 DEF TypeOK
    <3>3. QED BY <3>1, <3>2
  <2>4. Top' = Top
        BY <2>1 DEF Top
  <2>5. \A id \in Top.owed : info'[id] = info[id]
        BY <1>4, <1>5, <2>1, <2>3
  <2>6. QED BY <1>4, <2>1, <2>2, <2>4, <2>5
<1>8. ASSUME NEW id \in Id, ManagerRemove(id)
      PROVE  /\ Top'.owed \subseteq Members(timers'[active'])
             /\ \A x \in Top'.owed : info'[x].since + info'[x].duration <= Top'.began
  <2>1. active' = active /\ stack' = Served(stack, {id}) /\ info' = info
        BY <1>8 DEF ManagerRemove
  <2>2. /\ Len(stack') = Len(stack) /\ stack' \in Seq(Frame)
        /\ \A i \in 1 .. Len(stack) : /\ stack'[i].owed = stack[i].owed \ {id}
                                       /\ stack'[i].began = stack[i].began
        BY <1>1, <2>1, ServedStack
  <2>3. stack /= << >> /\ Len(stack) \in 1 .. Len(stack)
        BY <1>1, <2>2, EmptySeq
  <2>4. Top'.owed = Top.owed \ {id} /\ Top'.began = Top.began
        BY <2>2, <2>3 DEF Top
  <2>5. Members(timers[active]) \ {id} \subseteq Members(timers'[active])
        BY <1>1, <1>8, RemoveMembers
  <2>6. QED BY <1>4, <2>1, <2>3, <2>4, <2>5
<1>9. CASE BeginDispatch
  <2> DEFINE W == {id \in Waiting : Elapsed(id)}
             f == [array |-> active, now |-> GetTime, iter |-> None,
                   owed |-> W, began |-> clock]
  <2>1. f.owed = W /\ f.began = clock
        OBVIOUS
  <2>2. stack' = Append(stack, f) /\ stack = << >> /\ active' = active
        /\ timers' = timers /\ info' = info
        BY <1>9 DEF BeginDispatch
  <2> HIDE DEF f
  <2>3. Len(stack') = 1 /\ stack'[1] = f
        BY <2>2
  <2>4. Top'.owed = W /\ Top'.began = clock
        BY <2>1, <2>3 DEF Top
  <2>5. Waiting \subseteq Members(timers[active])
    <3>1. \A id \in Waiting : id \in Members(timers[0]) \/ id \in Members(timers[1])
          BY DEF Waiting, Holds, Members
    <3>2. Members(timers[Other(active)]) = {}
          BY <1>3, <2>2
    <3>3. QED BY <1>1, <3>1, <3>2, Arrays
  <2>6. ASSUME NEW id \in W PROVE info[id].since + info[id].duration <= clock
    <3>1. Elapsed(id) /\ id \in 1 .. Len(info)
          BY <1>5, <2>5
    <3>2. info[id].since \in Nat /\ info[id].duration \in Nat /\ clock \in Nat
          BY <1>1, <3>1, TimeValues
    <3>3. QED BY <3>1, <3>2 DEF Elapsed
  <2>7. W \subseteq Members(timers[active])
        BY <2>5
  <2> HIDE DEF W
  <2>8. QED BY <2>2, <2>4, <2>6, <2>7
<1>10. CASE CallTimer
  <2> DEFINE e == Popped
  <2>1. /\ stack /= << >> /\ Top.array = active
        BY <1>3, <1>10 DEF CallTimer, CanPop
  <2>2. /\ timers[active] /= << >> /\ stack' = Served(SetTop(e), {e}) /\ active' = active
        /\ timers'[active] = Front(timers[active]) /\ info' = info
        BY <1>1, <1>10, <2>1 DEF CallTimer, CanPop
  <2>3. e \in Id /\ Members(timers[active]) = Members(Front(timers[active])) \cup {e}
        BY <1>1, <2>1, <2>2, FrontMembers DEF Popped
  <2> HIDE DEF e
  <2>4. /\ Len(stack) \in 1 .. Len(stack) /\ SetTop(e) \in Seq(Frame)
        /\ Len(SetTop(e)) = Len(stack) /\ SetTop(e)[Len(stack)].owed = Top.owed
        /\ SetTop(e)[Len(stack)].began = Top.began
        BY <1>1, <2>1, <2>3, SetTopStack
  <2>5. /\ Len(stack') = Len(stack) /\ stack'[Len(stack)].owed = Top.owed \ {e}
        /\ stack'[Len(stack)].began = Top.began
        BY <2>2, <2>4, ServedStack
  <2>6. Top'.owed = Top.owed \ {e} /\ Top'.began = Top.began
        BY <2>5 DEF Top
  <2>7. QED BY <1>4, <2>1, <2>2, <2>3, <2>6
<1>11. CASE SkipTimer
  <2> DEFINE e == Popped
  <2>1. /\ stack /= << >> /\ Top.array = active /\ stack' = stack /\ info' = info
        /\ active' = active /\ ~IsDue(e, Top.now)
        BY <1>3, <1>11 DEF SkipTimer, CanPop
  <2>2. timers[active] /= << >> /\ timers'[active] = Front(timers[active])
        BY <1>1, <1>11, <2>1, Arrays DEF SkipTimer, CanPop
  <2>3. Members(timers[active]) = Members(Front(timers[active])) \cup {e}
        BY <1>1, <2>1, <2>2, FrontMembers, SMTT(30) DEF Popped
  <2> HIDE DEF e
  <2>4. e \notin Top.owed
    <3> SUFFICES ASSUME e \in Top.owed PROVE FALSE
        OBVIOUS
    <3>1. e \in 1 .. Len(info) /\ info[e].since + info[e].duration <= Top.began
          BY <1>4, <1>5, <2>1, <2>3
    <3>2. /\ info[e].start = info[e].since /\ info[e].since \in Nat /\ info[e].duration \in Nat
          /\ info[e].since + info[e].duration < Wrap
          BY <1>1, <3>1, TimeValues DEF Timely
    <3>3. Deadline(e) = info[e].since + info[e].duration
          BY <3>2, ClockValue DEF Deadline
    <3>4. Top.now = Top.began
      <4>1. Len(stack) \in 1 .. Len(stack)
            BY <1>1, <2>1, EmptySeq
      <4>2. QED BY <4>1 DEF Timely, Top
    <3>5. Deadline(e) <= Top.now
          BY <3>1, <3>3, <3>4
    <3>6. QED BY <2>1, <3>5 DEF IsDue
  <2>5. Top' = Top
        BY <2>1 DEF Top
  <2>6. QED BY <1>4, <2>1, <2>2, <2>3, <2>4, <2>5
<1>12. CASE Repeat \/ Finish
  <2>1. /\ stack /= << >> /\ Top.array = active /\ Top.iter /= None
        /\ stack' = SetTop(None) /\ active' = active
        BY <1>3, <1>12 DEF Repeat, Finish, InCallback
  <2>2. timers'[active] = timers[active]
        BY <1>1, <1>12, <2>1, Arrays DEF Repeat, Finish
  <2>3. /\ Len(stack) \in Nat \ {0} /\ Top = stack[Len(stack)]
        /\ Len(SetTop(None)) = Len(stack)
        /\ \A i \in 1 .. Len(stack) : /\ SetTop(None)[i].owed = stack[i].owed
                                       /\ SetTop(None)[i].began = stack[i].began
        BY <1>1, <2>1, SetTopStack
  <2>4. Top'.owed = Top.owed /\ Top'.began = Top.began
        BY <2>1, <2>3 DEF Top
  <2>5. Top.iter \notin Top.owed
    <3>1. Top.iter \in Running
          BY <2>1, <2>3 DEF Running
    <3>2. QED BY <1>1, <1>4, <2>1, <3>1, AllPlaced
  <2>6. \A id \in Top.owed : info'[id] = info[id]
    <3>1. CASE Finish
          BY <3>1 DEF Finish
    <3>2. CASE Repeat
      <4>1. info' = [info EXCEPT ![Top.iter].start = Top.now, ![Top.iter].since = Top.began]
            BY <3>2 DEF Repeat
      <4>2. \A id \in 1 .. Len(info) : id /= Top.iter => info'[id] = info[id]
            BY <1>1, <2>1, <4>1, Restarted
      <4>3. QED BY <1>4, <1>5, <2>1, <2>5, <4>2
    <3>3. QED BY <1>12, <3>1, <3>2
  <2>7. QED BY <1>4, <2>1, <2>2, <2>4, <2>6
<1>13. CASE EndDispatch
  <2>1. stack /= << >> /\ stack' = Front(stack)
        BY <1>13 DEF EndDispatch
  <2>2. stack' \in Seq(Frame) /\ Len(stack') = Len(stack) - 1
        BY <1>1, <2>1, FrontMembers
  <2>3. Len(stack') /= 0 /\ Len(stack') \in Nat
        BY <2>2, EmptySeq
  <2>4. \A n \in Nat : n <= 1 /\ n - 1 \in Nat => n - 1 = 0
        OBVIOUS
  <2>5. Len(stack') = 0
        BY <1>1, <1>3, <2>2, <2>3, <2>4, Zenon
  <2>6. QED BY <2>3, <2>5
<1>14. QED BY <1>6, <1>7, <1>8, <1>9, <1>10, <1>11, <1>12, <1>13 DEF Next, Dispatch

(* As long as the 32-bit clock does not wrap around and dispatches do not  *)
(* nest, timer_manager_dispatch calls every timer that was due when it     *)
(* started, although it moves the others between the arrays meanwhile.     *)
THEOREM FiresAllDueCorrect == ASSUME NoWrap PROVE Spec => []DispatchFiresAllDue
<1> DEFINE I == TimerInv /\ Timely /\ Settled /\ OwedDue
<1>1. Init => I
  <2>1. Init => OwedDue
        BY DEF Init, OwedDue
  <2>2. QED BY <2>1, TimerInit, TimelyInit, SettledInit
<1>2. I /\ [Next]_vars => I'
  <2> SUFFICES ASSUME I, [Next]_vars PROVE I'
      OBVIOUS
  <2>1. TimerInv' /\ Settled'
        BY TimerNext, SettledNext
  <2>2. Timely'
        BY <2>1, NoWrap, TimelyNext
  <2>3. OwedDue'
        BY NoWrap, OwedDueNext
  <2>4. QED BY <2>1, <2>2, <2>3
<1>3. I => DispatchFiresAllDue
  <2> SUFFICES ASSUME Settled, OwedDue, ~nested, stack /= << >>, timers[Top.array] = << >>
               PROVE  Top.owed = {}
      BY DEF DispatchFiresAllDue
  <2>1. Top.owed \subseteq Members(<< >>)
        BY DEF Settled, OwedDue
  <2>2. QED BY <2>1 DEF Members
<1>4. QED BY <1>1, <1>2, <1>3, PTL DEF Spec
=============================================================================
