---------------------------- MODULE WindowProofs ----------------------------
(***************************************************************************)
(* Proofs that the window manager uses no window that was freed and sends  *)
(* the user's input to open windows only, for any number of windows.       *)
(***************************************************************************)
EXTENDS WindowManager, SequenceTheorems, WellFoundedInduction, TLAPS

Members(q) == {q[i] : i \in 1 .. Len(q)}

Unique(q) == \A i, j \in 1 .. Len(q) : q[i] = q[j] => i = j

LEMMA AppendMembers ==
    ASSUME NEW S, NEW q \in Seq(S), NEW e \in S
    PROVE  /\ Append(q, e) \in Seq(S)
           /\ Members(Append(q, e)) = Members(q) \cup {e}
           /\ Unique(q) /\ e \notin Members(q) => Unique(Append(q, e))
<1>1. /\ Append(q, e) \in Seq(S) /\ Len(q) \in Nat
      /\ Len(Append(q, e)) = Len(q) + 1
      /\ Append(q, e)[Len(q) + 1] = e
      /\ \A i \in 1 .. Len(q) : Append(q, e)[i] = q[i]
      OBVIOUS
<1> DEFINE r == Append(q, e)
<1> HIDE DEF r
<1>2. Members(r) = Members(q) \cup {e}
      BY <1>1 DEF Members, r
<1>3. ASSUME Unique(q), e \notin Members(q) PROVE Unique(r)
      BY <1>1, <1>3 DEF Unique, Members, r
<1>4. QED BY <1>1, <1>2, <1>3 DEF r

LEMMA FrontMembers ==
    ASSUME NEW S, NEW q \in Seq(S), q /= << >>
    PROVE  /\ Front(q) \in Seq(S) /\ Last(q) \in S
           /\ Len(q) \in Nat \ {0} /\ Len(Front(q)) = Len(q) - 1
           /\ \A i \in 1 .. Len(q) - 1 : Front(q)[i] = q[i]
           /\ Last(q) = q[Len(q)]
           /\ Members(q) = Members(Front(q)) \cup {Last(q)}
           /\ Unique(q) => Unique(Front(q)) /\ Last(q) \notin Members(Front(q))
<1> DEFINE n == Len(q) - 1
           r == SubSeq(q, 1, n)
<1>1. Len(q) \in Nat \ {0} /\ q[Len(q)] \in S
      BY EmptySeq
<1>2. n \in Int /\ 1 \in Int /\ n >= 0 /\ \A i \in 1 .. n : q[i] \in S
      BY <1>1
<1>3. r \in Seq(S) /\ Len(r) = n /\ \A i \in 1 .. n : r[i] = q[i]
  <2> HIDE DEF n
  <2>1. /\ SubSeq(q, 1, n) \in Seq(S)
        /\ Len(SubSeq(q, 1, n)) = IF 1 <= n THEN n - 1 + 1 ELSE 0
        /\ \A i \in 1 .. n - 1 + 1 : SubSeq(q, 1, n)[i] = q[1 + i - 1]
        BY <1>2, SubSeqProperties
  <2>2. QED BY <1>2, <2>1
<1>4. Front(q) = r /\ Last(q) = q[Len(q)]
      BY DEF Front, Last
<1> HIDE DEF r
<1>5. Members(q) = Members(r) \cup {q[Len(q)]}
      BY <1>1, <1>3 DEF Members
<1>6. Unique(q) => Unique(r) /\ q[Len(q)] \notin Members(r)
      BY <1>1, <1>3 DEF Unique, Members
<1>7. QED BY <1>1, <1>3, <1>4, <1>5, <1>6

LEMMA RemoveAtMembers ==
    ASSUME NEW S, NEW q \in Seq(S), NEW i \in 1 .. Len(q)
    PROVE  /\ RemoveAt(q, i) \in Seq(S)
           /\ Unique(q) => /\ Members(RemoveAt(q, i)) = Members(q) \ {q[i]}
                           /\ Unique(RemoveAt(q, i))
<1> DEFINE u == SubSeq(q, 1, i - 1)
           v == SubSeq(q, i + 1, Len(q))
           r == RemoveAt(q, i)
<1>1. Len(q) \in Nat /\ i \in Nat /\ 1 <= i /\ i <= Len(q) /\ \A j \in 1 .. Len(q) : q[j] \in S
      OBVIOUS
<1>2. /\ u \in Seq(S) /\ Len(u) = i - 1
      /\ \A j \in 1 .. i - 1 : u[j] = q[j]
  <2> DEFINE n == i - 1
  <2>1. n \in Int /\ 1 \in Int /\ \A j \in 1 .. n : q[j] \in S
        BY <1>1
  <2> HIDE DEF n
  <2>2. /\ SubSeq(q, 1, n) \in Seq(S)
        /\ Len(SubSeq(q, 1, n)) = IF 1 <= n THEN n - 1 + 1 ELSE 0
        /\ \A j \in 1 .. n - 1 + 1 : SubSeq(q, 1, n)[j] = q[1 + j - 1]
        BY <2>1, SubSeqProperties
  <2>3. QED BY <1>1, <2>1, <2>2 DEF n
<1>3. /\ v \in Seq(S) /\ Len(v) = Len(q) - i
      /\ \A j \in 1 .. Len(q) - i : v[j] = q[i + j]
  <2> DEFINE m == i + 1
             n == Len(q)
  <2>1. n \in Int /\ m \in Int /\ \A j \in m .. n : q[j] \in S
        BY <1>1
  <2>2. m <= n + 1
        BY <1>1
  <2> HIDE DEF n, m
  <2>3. /\ SubSeq(q, m, n) \in Seq(S)
        /\ Len(SubSeq(q, m, n)) = IF m <= n THEN n - m + 1 ELSE 0
        /\ \A j \in 1 .. n - m + 1 : SubSeq(q, m, n)[j] = q[m + j - 1]
        BY <2>1, SubSeqProperties
  <2>4. Len(SubSeq(q, m, n)) = n - m + 1
        BY <2>1, <2>2, <2>3
  <2>5. QED BY <1>1, <2>3, <2>4 DEF n, m
<1>4. r = u \o v
      BY DEF RemoveAt
<1> HIDE DEF u, v, r
<1>5. /\ r \in Seq(S) /\ Len(r) = Len(q) - 1
      /\ \A j \in 1 .. Len(r) : r[j] = IF j < i THEN q[j] ELSE q[j + 1]
  <2>1. /\ r \in Seq(S) /\ Len(r) = Len(u) + Len(v)
        /\ \A j \in 1 .. Len(u) + Len(v) : r[j] = IF j <= Len(u) THEN u[j] ELSE v[j - Len(u)]
        BY <1>2, <1>3, <1>4, ConcatProperties
  <2>2. QED BY <1>1, <1>2, <1>3, <2>1
<1>6. ASSUME Unique(q)
      PROVE  Members(r) = Members(q) \ {q[i]} /\ Unique(r)
  <2>1. \A j \in 1 .. Len(r) : \E l \in 1 .. Len(q) : l /= i /\ r[j] = q[l]
        BY <1>1, <1>5
  <2>2. \A l \in 1 .. Len(q) : l /= i => \E j \in 1 .. Len(r) : r[j] = q[l]
    <3> SUFFICES ASSUME NEW l \in 1 .. Len(q), l /= i
                 PROVE  \E j \in 1 .. Len(r) : r[j] = q[l]
        OBVIOUS
    <3>1. CASE l < i
          BY <1>1, <1>5, <3>1
    <3>2. CASE l > i
      <4>1. l - 1 \in 1 .. Len(r) /\ r[l - 1] = q[l - 1 + 1] /\ l - 1 + 1 = l
            BY <1>1, <1>5, <3>2
      <4>2. QED BY <4>1
    <3>3. QED BY <1>1, <3>1, <3>2
  <2>3. Members(r) = Members(q) \ {q[i]}
    <3>1. \A l \in 1 .. Len(q) : l /= i => q[l] /= q[i]
          BY <1>6 DEF Unique
    <3>2. ASSUME NEW e \in Members(r) PROVE e \in Members(q) \ {q[i]}
      <4>1. PICK j \in 1 .. Len(r) : e = r[j]
            BY <3>2 DEF Members
      <4>2. PICK l \in 1 .. Len(q) : l /= i /\ r[j] = q[l]
            BY <2>1
      <4>3. QED BY <3>1, <4>1, <4>2 DEF Members
    <3>3. ASSUME NEW e \in Members(q) \ {q[i]} PROVE e \in Members(r)
      <4>1. PICK l \in 1 .. Len(q) : e = q[l] /\ l /= i
            BY <3>3 DEF Members
      <4>2. QED BY <2>2, <4>1 DEF Members
    <3>4. QED BY <3>2, <3>3
  <2>4. Unique(r)
        BY <1>1, <1>5, <1>6 DEF Unique
  <2>5. QED BY <2>3, <2>4
<1>7. QED BY <1>5, <1>6 DEF r
-----------------------------------------------------------------------------
Kids == Members(children)
Jobs == Members(idles)
Calls == Members(stack)
Will == {"will_open", "will_first"}
Call == [at : Frame, win : Window]
Job == [func : Func, win : Window]

(* The type invariant, part by part.                                       *)
Types ==
    /\ children \in Seq(Window) /\ Unique(children)
    /\ target \in Window \cup {NoWindow} /\ grab \in Window \cup {NoWindow}
    /\ pendingOpen \in Window \cup {NoWindow} /\ pendingClose \in Window \cup {NoWindow}
    /\ animator \in Animator \cup {NoAnimator}
    /\ ignoreInput \in BOOLEAN
    /\ idles \in Seq(Job)
    /\ stack \in Seq(Call)
    /\ phase \in {"events", "idle", "paint"}
    /\ timers \subseteq Window /\ created \subseteq Window /\ closed \subseteq Window
    /\ notified \subseteq Window /\ freed \subseteq Window

(* A handler of EVT_WINDOW_CLOSE may run inside of another one, which is   *)
(* the only one below it.                                                  *)
Shapely(q) == \A i \in 1 .. Len(q) : /\ q[i].at = "close" => i = Len(q)
                                     /\ q[i].at /= "close" => i = 1

Lives == /\ Kids \subseteq created \ freed /\ freed \subseteq created
         /\ created \ closed \subseteq Kids
         /\ closed \subseteq notified /\ notified \subseteq created

(* A window is in one idle at most: that of its opening as long as it is a *)
(* child which was not notified, or else that which frees it.              *)
JobsFit == /\ Unique(idles)
           /\ \A x, y \in Jobs : x.win = y.win => x = y
           /\ \A x \in Jobs : /\ x.func /= "destroy" => x.win \in Kids \ notified
                              /\ x.func = "destroy" => x.win \in created \ (Kids \cup freed)

CallsFit == \A f \in Calls :
    /\ f.win \in created \ freed
    /\ f.at \in Will => f.win \in Kids \ notified /\ \A x \in Jobs : x.win /= f.win
    /\ f.at = "open" => f.win \in Kids \ closed
    /\ f.at = "close" => f.win \in Kids \cap closed /\ ~Animating
    /\ f.at = "anim_open" => Animating /\ animator.open /\ animator.win = f.win

PendingFit ==
    /\ pendingOpen /= NoWindow => /\ pendingOpen \in Kids \ notified
                                  /\ \A x \in Jobs : x.win /= pendingOpen
                                  /\ \A f \in Calls : f.at \in Will => f.win /= pendingOpen
    /\ pendingClose /= NoWindow => /\ pendingClose \in Kids \cap closed
                                   /\ Animating
                                   /\ animator.win = pendingClose => animator.open

(* The window of an opening animation waits for its EVT_WINDOW_OPEN.       *)
AnimatorFits == Animating =>
    /\ animator.win \in Kids /\ animator.prev \in Kids
    /\ ~animator.open => animator.win \in closed
    /\ animator.open /\ (\A f \in Calls : f.at /= "anim_open") =>
         /\ animator.win \notin notified /\ pendingOpen /= animator.win
         /\ \A x \in Jobs : x.win /= animator.win
         /\ \A f \in Calls : f.at \in Will => f.win /= animator.win

TimersFit == timers \subseteq Kids \ closed

FocusFits == /\ target /= NoWindow => target \in Kids
             /\ grab /= NoWindow => grab \in Kids

WindowInv == /\ Types /\ Shapely(stack) /\ Lives /\ JobsFit /\ CallsFit /\ PendingFit
             /\ AnimatorFits /\ TimersFit /\ FocusFits
-----------------------------------------------------------------------------
LEMMA TypesAre == Types <=> TypeOK
<1>1. ASSUME children \in Seq(Window) PROVE Unique(children) <=> IsInjective(children)
  <2>1. DOMAIN children = 1 .. Len(children)
        BY <1>1
  <2>2. QED BY <2>1 DEF Unique, IsInjective
<1>2. QED BY <1>1 DEF Types, TypeOK, Call, Job

LEMMA ContainsIs ==
    ASSUME NEW q, NEW e
    PROVE  Contains(q, e) <=> e \in Members(q)
BY DEF Contains, Members

LEMMA MaxOfIndices ==
    ASSUME NEW n \in Nat, NEW S \in SUBSET (1 .. n), S /= {}
    PROVE  Max(S) \in S
<1> DEFINE T == {n - x : x \in S}
<1>1. T \in SUBSET Nat /\ T /= {}
  <2>1. \A x \in S : n - x \in Nat
        OBVIOUS
  <2>2. PICK x \in S : TRUE
        OBVIOUS
  <2>3. n - x \in T
        OBVIOUS
  <2>4. QED BY <2>1, <2>3
<1> HIDE DEF T
<1>2. PICK m \in T : \A y \in T : ~(<<y, m>> \in OpToRel(<, Nat))
      BY <1>1, NatLessThanWellFounded, WFMin
<1>3. ASSUME NEW y \in T PROVE m <= y
  <2>1. y \in Nat /\ m \in Nat
        BY <1>1
  <2>2. <<y, m>> \in Nat \X Nat /\ <<y, m>>[1] = y /\ <<y, m>>[2] = m
        BY <2>1
  <2>3. y < m => <<y, m>> \in OpToRel(<, Nat)
        BY <2>2, Zenon DEF OpToRel
  <2>4. ~(y < m)
        BY <1>2, <2>3
  <2>5. QED BY <2>1, <2>4
<1>4. PICK x \in S : m = n - x
      BY DEF T
<1>5. ASSUME NEW y \in S PROVE x >= y
  <2>1. n - y \in T
        BY DEF T
  <2>2. m <= n - y
        BY <1>3, <2>1
  <2>3. x \in 1 .. n /\ y \in 1 .. n
        OBVIOUS
  <2>4. QED BY <1>4, <2>2, <2>3
<1>6. \E z \in S : \A y \in S : z >= y
      BY <1>5
<1>7. QED BY <1>6 DEF Max

(* widget_remove_child takes one window out of the children.               *)
LEMMA RemoveFirstMembers ==
    ASSUME NEW S, NEW q \in Seq(S), Unique(q), NEW e \in Members(q)
    PROVE  /\ RemoveFirst(q, e) \in Seq(S) /\ Unique(RemoveFirst(q, e))
           /\ Members(RemoveFirst(q, e)) = Members(q) \ {e}
<1> DEFINE I == {i \in 1 .. Len(q) : q[i] = e}
<1>1. I \in SUBSET (1 .. Len(q)) /\ I /= {} /\ Len(q) \in Nat
      BY DEF Members
<1>2. PICK k \in I : \A j \in I : j = k
      BY <1>1 DEF Unique
<1>3. Min(I) = k
      BY <1>2 DEF Min
<1>4. RemoveFirst(q, e) = RemoveAt(q, k)
      BY <1>1, <1>3 DEF RemoveFirst, SelectInSeq
<1>5. k \in 1 .. Len(q) /\ q[k] = e
      BY <1>1, <1>2
<1>6. QED BY <1>4, <1>5, RemoveAtMembers
-----------------------------------------------------------------------------
LEMMA PrevIsKid ==
    ASSUME Types, PrevWindow /= NoWindow
    PROVE  PrevWindow \in Kids /\ PrevWindow \in Window
<1> DEFINE below == {i \in 1 .. Len(children) - 1 : children[i] \in Normal}
<1>1. children \in Seq(Window) /\ Len(children) \in Nat
      BY DEF Types
<1>2. below \in SUBSET (1 .. Len(children))
      BY <1>1
<1>3. below /= {} /\ PrevWindow = children[Max(below)]
      BY DEF PrevWindow
<1> HIDE DEF below
<1>4. Max(below) \in 1 .. Len(children)
      BY <1>1, <1>2, <1>3, MaxOfIndices
<1>5. QED BY <1>1, <1>3, <1>4 DEF Kids, Members

LEMMA AnimatorIs ==
    ASSUME Types, Animating
    PROVE  /\ animator \in Animator
           /\ animator.win \in Window /\ animator.prev \in Window /\ animator.open \in BOOLEAN
BY DEF Types, Animating, Animator

LEMMA NewAnimator ==
    ASSUME Types, NEW w \in Window, NEW o \in BOOLEAN, CanAnimate(w, o), CreateAnimator(w, o)
    PROVE  /\ ~Animating /\ Animating' /\ animator' \in Animator /\ ignoreInput' \in BOOLEAN
           /\ animator'.win = w /\ animator'.prev \in Kids /\ animator'.open = o
<1>1. PrevWindow \in Kids /\ PrevWindow \in Window
      BY PrevIsKid DEF CanAnimate
<1>2. animator' = [win |-> w, prev |-> PrevWindow, open |-> o, time |-> 0]
      BY DEF CreateAnimator
<1>3. 0 \in 0 .. Duration
      BY WindowAssumption
<1>4. animator'.win /= NoAnimator.win
      BY <1>2, WindowAssumption DEF NoAnimator
<1>5. QED BY <1>1, <1>2, <1>3, <1>4 DEF Animator, Animating, CanAnimate, CreateAnimator

LEMMA EmptyMembers == Members(<< >>) = {} /\ Shapely(<< >>)
BY DEF Members, Shapely

(* What is on top of the stack of handlers.                                *)
LEMMA TopCall ==
    ASSUME Types, Shapely(stack), stack /= << >>
    PROVE  /\ Last(stack) \in Calls /\ Last(stack) \in Call
           /\ Front(stack) \in Seq(Call)
           /\ Calls = Members(Front(stack)) \cup {Last(stack)}
           /\ Shapely(Front(stack))
           /\ \A f \in Members(Front(stack)) : f.at /= "close"
           /\ Last(stack).at /= "close" => Front(stack) = << >> /\ Calls = {Last(stack)}
<1> DEFINE n == Len(stack)
           r == Front(stack)
<1>1. /\ r \in Seq(Call) /\ Last(stack) \in Call
      /\ n \in Nat \ {0} /\ Len(r) = n - 1
      /\ \A i \in 1 .. n - 1 : r[i] = stack[i]
      /\ Last(stack) = stack[n]
      /\ Calls = Members(r) \cup {Last(stack)}
      BY FrontMembers DEF Types, Calls
<1> HIDE DEF n, r
<1>2. \A i \in 1 .. n : /\ stack[i].at = "close" => i = n
                        /\ stack[i].at /= "close" => i = 1
      BY DEF Shapely, n
<1>3. \A i \in 1 .. Len(r) : r[i].at /= "close" /\ i = 1
      BY <1>1, <1>2
<1>4. Len(r) <= 1
  <2>1. Len(r) > 1 => 2 \in 1 .. Len(r)
        BY <1>1
  <2>2. QED BY <1>1, <1>3, <2>1
<1>5. Shapely(r)
      BY <1>3 DEF Shapely
<1>6. \A f \in Members(r) : f.at /= "close"
      BY <1>3 DEF Members
<1>7. ASSUME Last(stack).at /= "close" PROVE r = << >> /\ Members(r) = {}
  <2>1. n = 1
        BY <1>1, <1>2, <1>7
  <2>2. r = << >>
        BY <1>1, <2>1, EmptySeq
  <2>3. QED BY <2>2, EmptyMembers
<1>8. QED BY <1>1, <1>5, <1>6, <1>7 DEF r

(* A handler that is called with no other on the stack, or for             *)
(* EVT_WINDOW_CLOSE with none for EVT_WINDOW_CLOSE on it.                  *)
LEMMA PushCall ==
    ASSUME NEW q \in Seq(Call), Shapely(q),
           NEW h \in Call,
           q = << >> \/ (h.at = "close" /\ \A f \in Members(q) : f.at /= "close")
    PROVE  /\ Append(q, h) \in Seq(Call)
           /\ Members(Append(q, h)) = Members(q) \cup {h}
           /\ Shapely(Append(q, h))
<1> DEFINE r == Append(q, h)
<1>1. r \in Seq(Call) /\ Members(r) = Members(q) \cup {h}
      BY AppendMembers
<1>2. /\ Len(q) \in Nat /\ Len(r) = Len(q) + 1 /\ r[Len(q) + 1] = h
      /\ \A i \in 1 .. Len(q) : r[i] = q[i]
      OBVIOUS
<1> HIDE DEF r
<1>3. \A i \in 1 .. Len(q) : q[i].at /= "close" /\ i = 1
      BY DEF Shapely, Members
<1>4. h.at /= "close" => Len(q) = 0
      OBVIOUS
<1>5. \A i \in 1 .. Len(r) : i \in 1 .. Len(q) \/ i = Len(r)
      BY <1>2
<1>6. Shapely(r)
  <2> SUFFICES ASSUME NEW i \in 1 .. Len(r)
               PROVE  (r[i].at = "close" => i = Len(r)) /\ (r[i].at /= "close" => i = 1)
      BY DEF Shapely
  <2>1. CASE i \in 1 .. Len(q)
        BY <1>2, <1>3, <2>1
  <2>2. CASE i = Len(r)
        BY <1>2, <1>4, <2>2
  <2>3. QED BY <1>5, <2>1, <2>2
<1>7. QED BY <1>1, <1>6 DEF r
-----------------------------------------------------------------------------
(* What the invariant says in the next state of what a step leaves alone.  *)
LEMMA SameKids == children' = children => Kids' = Kids
BY DEF Kids, Members

LEMMA SameJobs == idles' = idles => Jobs' = Jobs
BY DEF Jobs, Members

LEMMA SameCalls == stack' = stack => Calls' = Calls
BY DEF Calls, Members

LEMMA SameAnimator == animator' = animator => Animating' = Animating
BY DEF Animating

LEMMA SamePhase ==
    ASSUME WindowInv, phase' \in {"events", "idle", "paint"},
           UNCHANGED <<children, focusVars, animator, ignoreInput, pendingVars, idles, timers,
                       stack, ghostVars, freed>>
    PROVE  WindowInv'
BY DEF WindowInv, Types, Shapely, Lives, JobsFit, CallsFit, PendingFit, AnimatorFits, TimersFit,
       FocusFits, Kids, Jobs, Calls, Members, Animating, Unique, focusVars, pendingVars, ghostVars

LEMMA OpenStep ==
    ASSUME WindowInv, NEW w \in Window, OpenWindow(w)
    PROVE  WindowInv'
<1>0. Types /\ Shapely(stack) /\ Lives /\ JobsFit /\ CallsFit /\ PendingFit /\ AnimatorFits
      /\ TimersFit /\ FocusFits
      BY DEF WindowInv
<1>1. w \notin Kids /\ w \notin created /\ w \notin notified /\ w \notin closed /\ w \notin freed
      BY <1>0 DEF OpenWindow, Lives
<1>2. children' \in Seq(Window) /\ Unique(children)' /\ Kids' = Kids \cup {w}
      BY <1>0, <1>1, AppendMembers DEF OpenWindow, Types, Kids
<1>3. UNCHANGED <<grab, animator, ignoreInput, pendingClose, timers, stack, phase,
                  closed, notified, freed>> /\ target' = w /\ created' = created \cup {w}
      BY DEF OpenWindow
<1>4. Calls' = Calls /\ Animating' = Animating
      BY <1>3, SameCalls, SameAnimator
<1>5. /\ \A x \in Jobs : x.win \in created
      /\ \A f \in Calls : f.win \in created
      /\ pendingOpen /= NoWindow => pendingOpen \in created
      /\ Animating => animator.win \in created
      BY <1>0 DEF JobsFit, CallsFit, PendingFit, AnimatorFits, Lives
<1>6. Lives' /\ TimersFit' /\ FocusFits' /\ Shapely(stack)'
      BY <1>0, <1>1, <1>2, <1>3 DEF Lives, TimersFit, FocusFits, Shapely
<1>7. CASE Animating
  <2>1. pendingOpen' = w /\ idles' = idles /\ Jobs' = Jobs
        BY <1>7, SameJobs DEF OpenWindow
  <2>2. Types'
        BY <1>0, <1>2, <1>3, <2>1 DEF Types
  <2>3. JobsFit'
        BY <1>0, <1>1, <1>2, <1>3, <1>5, <2>1 DEF JobsFit, Unique
  <2>4. CallsFit'
        BY <1>0, <1>1, <1>2, <1>3, <1>4, <1>5, <2>1 DEF CallsFit
  <2>5. PendingFit'
        BY <1>0, <1>1, <1>2, <1>3, <1>4, <1>5, <2>1 DEF PendingFit
  <2>6. AnimatorFits'
        BY <1>0, <1>1, <1>2, <1>3, <1>4, <1>5, <1>7, <2>1 DEF AnimatorFits
  <2>7. QED BY <1>6, <2>2, <2>3, <2>4, <2>5, <2>6 DEF WindowInv
<1>8. CASE ~Animating
  <2> DEFINE job == OpenIdle(w)
  <2>1. /\ job \in Job /\ job.win = w /\ job.func /= "destroy"
        BY DEF OpenIdle, Func, Job
  <2>2. pendingOpen' = pendingOpen /\ idles' = Append(idles, job)
        BY <1>8 DEF OpenWindow
  <2>3. job \notin Jobs
        BY <1>1, <1>5, <2>1
  <2> HIDE DEF job
  <2>4. idles' \in Seq(Job) /\ Jobs' = Jobs \cup {job} /\ Unique(idles)'
    <3>1. idles \in Seq(Job) /\ Unique(idles) /\ job \notin Members(idles)
          BY <1>0, <2>3 DEF Types, JobsFit, Jobs
    <3>2. QED BY <2>1, <2>2, <3>1, AppendMembers DEF Jobs
  <2>5. Types'
        BY <1>0, <1>2, <1>3, <2>2, <2>4 DEF Types
  <2>6. JobsFit'
        BY <1>0, <1>1, <1>2, <1>3, <1>5, <2>1, <2>4 DEF JobsFit
  <2>7. CallsFit'
        BY <1>0, <1>1, <1>2, <1>3, <1>4, <1>5, <2>1, <2>4 DEF CallsFit
  <2>8. PendingFit'
        BY <1>0, <1>1, <1>2, <1>3, <1>4, <1>5, <2>1, <2>2, <2>4 DEF PendingFit
  <2>9. AnimatorFits'
        BY <1>4, <1>8 DEF AnimatorFits
  <2>10. QED BY <1>6, <2>5, <2>6, <2>7, <2>8, <2>9 DEF WindowInv
<1>9. QED BY <1>7, <1>8

LEMMA DropIs ==
    ASSUME NEW ptr, NEW w
    PROVE  Drop(ptr, w) \in {ptr, NoWindow} /\ (Drop(ptr, w) /= NoWindow => Drop(ptr, w) /= w)
BY DEF Drop

LEMMA CloseStep ==
    ASSUME Patient, WindowInv, NEW w \in Window, CloseWindow(w)
    PROVE  WindowInv'
<1>0. Types /\ Shapely(stack) /\ Lives /\ JobsFit /\ CallsFit /\ PendingFit /\ AnimatorFits
      /\ TimersFit /\ FocusFits
      BY DEF WindowInv
<1>1. /\ w \in created \ closed /\ w \in notified /\ w \notin timers
      /\ Handler("open", w) \notin Calls
      /\ \A f \in Calls : f.at /= "close"
  <2>1. MayClose(w) /\ w \in created \ closed
        BY DEF CloseWindow
  <2>2. QED BY <2>1, ContainsIs DEF MayClose, Calls, Members
<1>2. /\ UNCHANGED <<children, animator, ignoreInput, pendingOpen, idles, timers, phase,
                     created, notified, freed>>
      /\ closed' = closed \cup {w}
      /\ target' = Drop(target, w) /\ grab' = Drop(grab, w)
      BY DEF CloseWindow
<1>3. Kids' = Kids /\ Jobs' = Jobs /\ Animating' = Animating
      BY <1>2, SameKids, SameJobs, SameAnimator
<1>4. \A f \in Calls : f.at = "open" => f.win /= w
  <2>1. \A f \in Calls : f \in Call
        BY <1>0 DEF Types, Calls, Members
  <2>2. \A f \in Calls : f.at = "open" /\ f.win = w => f = Handler("open", w)
        BY <2>1 DEF Handler, Call
  <2>3. QED BY <1>1, <2>2
<1>5. Lives' /\ TimersFit'
      BY <1>0, <1>1, <1>2, <1>3 DEF Lives, TimersFit
<1>6. FocusFits' /\ target' \in Window \cup {NoWindow} /\ grab' \in Window \cup {NoWindow}
      BY <1>0, <1>2, <1>3, DropIs DEF FocusFits, Types
<1>7. JobsFit'
      BY <1>0, <1>2, <1>3 DEF JobsFit, Unique
<1>8. w \in Kids
      BY <1>0, <1>1 DEF Lives
<1>9. CASE Animating
  <2>1. pendingClose' = w /\ stack' = stack /\ Calls' = Calls
        BY <1>9, SameCalls DEF CloseWindow
  <2>2. Types' /\ Shapely(stack)'
        BY <1>0, <1>2, <1>6, <2>1 DEF Types, Shapely, Unique
  <2>3. CallsFit'
        BY <1>0, <1>1, <1>2, <1>3, <1>4, <2>1 DEF CallsFit
  <2>4. PendingFit'
        BY <1>0, <1>1, <1>2, <1>3, <1>8, <1>9, <2>1 DEF PendingFit, AnimatorFits
  <2>5. AnimatorFits'
        BY <1>0, <1>1, <1>2, <1>3, <1>9, <2>1 DEF AnimatorFits
  <2>6. QED BY <1>5, <1>6, <1>7, <2>2, <2>3, <2>4, <2>5 DEF WindowInv
<1>10. CASE ~Animating
  <2> DEFINE h == Handler("close", w)
  <2>1. h \in Call /\ h.at = "close" /\ h.win = w
        BY DEF Handler, Frame, Call
  <2>2. pendingClose' = pendingClose /\ stack' = Append(stack, h)
        BY <1>10 DEF CloseWindow
  <2> HIDE DEF h
  <2>3. stack' \in Seq(Call) /\ Calls' = Calls \cup {h} /\ Shapely(stack)'
    <3>1. stack \in Seq(Call) /\ \A f \in Members(stack) : f.at /= "close"
          BY <1>0, <1>1 DEF Types, Calls
    <3>2. QED BY <1>0, <2>1, <2>2, <3>1, PushCall DEF Calls
  <2>4. Types'
        BY <1>0, <1>2, <1>6, <2>2, <2>3 DEF Types, Unique
  <2>5. CallsFit'
        BY <1>0, <1>1, <1>2, <1>3, <1>4, <1>8, <1>10, <2>1, <2>3 DEF CallsFit, Lives, Will
  <2>6. PendingFit'
        BY <1>0, <1>1, <1>2, <1>3, <1>10, <2>1, <2>2, <2>3 DEF PendingFit, Will
  <2>7. AnimatorFits'
        BY <1>3, <1>10 DEF AnimatorFits
  <2>8. QED BY <1>5, <1>6, <1>7, <2>3, <2>4, <2>5, <2>6, <2>7 DEF WindowInv
<1>11. QED BY <1>9, <1>10

(* window_manager_close_window goes on after EVT_WINDOW_CLOSE with a       *)
(* closing animation, or takes the window out and leaves the idle that     *)
(* frees it.                                                               *)
LEMMA CloseReturnsStep ==
    ASSUME WindowInv, CloseReturns
    PROVE  WindowInv'
<1>0. Types /\ Shapely(stack) /\ Lives /\ JobsFit /\ CallsFit /\ PendingFit /\ AnimatorFits
      /\ TimersFit /\ FocusFits
      BY DEF WindowInv
<1>1. /\ stack /= << >> /\ Last(stack).at = "close" /\ stack' = Front(stack)
      /\ UNCHANGED <<pendingOpen, pendingClose, timers, phase, created, closed, notified, freed>>
      BY DEF CloseReturns, InHandler, pendingVars, ghostVars
<1>2. PICK w \in Window : w = Last(stack).win
      BY <1>0, <1>1, TopCall DEF Call
<1>3. w \in Kids \cap closed /\ w \in created \ freed /\ ~Animating /\ w \in notified
      BY <1>0, <1>1, <1>2, TopCall DEF CallsFit, Lives
<1>4. /\ stack' \in Seq(Call) /\ Shapely(stack)' /\ Calls' \subseteq Calls
      /\ \A f \in Calls' : f.at /= "close"
      BY <1>0, <1>1, TopCall DEF Calls
<1>5. /\ pendingClose = NoWindow
      /\ pendingOpen /= w
      /\ \A x \in Jobs : x.win /= w
      /\ \A f \in Calls : f.at /= "anim_open"
      /\ \A f \in Calls : f.at \in Will => f.win /= w
      /\ \A f \in Calls : f.at = "open" => f.win /= w
  <2>1. pendingClose = NoWindow /\ pendingOpen /= w
        BY <1>0, <1>3, WindowAssumption DEF PendingFit
  <2>2. \A x \in Jobs : x.win /= w
        BY <1>0, <1>3 DEF JobsFit
  <2>3. QED BY <1>0, <1>3, <2>1, <2>2 DEF CallsFit
<1>6. CASE CanAnimate(w, FALSE)
  <2>1. /\ CreateAnimator(w, FALSE)
        /\ UNCHANGED <<children, target, grab, idles>>
        BY <1>2, <1>6 DEF CloseReturns, focusVars
  <2>2. /\ Animating' /\ animator' \in Animator /\ ignoreInput' \in BOOLEAN
        /\ animator'.win = w /\ animator'.prev \in Kids /\ animator'.open = FALSE
        BY <1>0, <1>6, <2>1, NewAnimator
  <2>3. Kids' = Kids /\ Jobs' = Jobs
        BY <2>1, SameKids, SameJobs
  <2>4. Types'
        BY <1>0, <1>1, <1>4, <2>1, <2>2 DEF Types, Unique
  <2>5. Lives' /\ TimersFit' /\ FocusFits'
        BY <1>0, <1>1, <2>1, <2>3 DEF Lives, TimersFit, FocusFits
  <2>6. JobsFit'
        BY <1>0, <1>1, <2>1, <2>3 DEF JobsFit, Unique
  <2>7. CallsFit'
        BY <1>0, <1>1, <1>4, <1>5, <2>3 DEF CallsFit
  <2>8. PendingFit'
        BY <1>0, <1>1, <1>4, <1>5, <2>3 DEF PendingFit
  <2>9. AnimatorFits'
        BY <1>1, <1>3, <2>2, <2>3 DEF AnimatorFits
  <2>10. QED BY <1>4, <2>4, <2>5, <2>6, <2>7, <2>8, <2>9 DEF WindowInv
<1>7. CASE ~CanAnimate(w, FALSE)
  <2> DEFINE job == [func |-> "destroy", win |-> w]
  <2>1. /\ children' = RemoveFirst(children, w)
        /\ target' = Drop(target, w) /\ grab' = Drop(grab, w)
        /\ idles' = Append(idles, job)
        /\ UNCHANGED <<animator, ignoreInput>>
        BY <1>2, <1>7 DEF CloseReturns
  <2>2. job \in Job /\ job.func = "destroy" /\ job.win = w
        BY DEF Job, Func
  <2>3. job \notin Jobs
        BY <1>5, <2>2
  <2> HIDE DEF job
  <2>4. children' \in Seq(Window) /\ Unique(children)' /\ Kids' = Kids \ {w}
        BY <1>0, <1>3, <2>1, RemoveFirstMembers DEF Types, Kids
  <2>5. idles' \in Seq(Job) /\ Unique(idles)' /\ Jobs' = Jobs \cup {job}
    <3>1. idles \in Seq(Job) /\ Unique(idles) /\ job \notin Members(idles)
          BY <1>0, <2>3 DEF Types, JobsFit, Jobs
    <3>2. QED BY <2>1, <2>2, <3>1, AppendMembers DEF Jobs
  <2>6. Animating' = Animating
        BY <2>1, SameAnimator
  <2>7. /\ target' \in Window \cup {NoWindow} /\ grab' \in Window \cup {NoWindow}
        /\ FocusFits'
        BY <1>0, <2>1, <2>4, DropIs DEF Types, FocusFits
  <2>8. Types'
        BY <1>0, <1>1, <1>4, <2>1, <2>4, <2>5, <2>7 DEF Types
  <2>9. Lives' /\ TimersFit'
        BY <1>0, <1>1, <1>3, <2>4 DEF Lives, TimersFit
  <2>10. JobsFit'
        BY <1>0, <1>1, <1>3, <1>5, <2>2, <2>4, <2>5 DEF JobsFit
  <2>11. CallsFit'
        BY <1>0, <1>1, <1>4, <1>5, <2>2, <2>4, <2>5 DEF CallsFit
  <2>12. PendingFit'
        BY <1>0, <1>1, <1>4, <1>5, <2>2, <2>4, <2>5 DEF PendingFit
  <2>13. AnimatorFits'
        BY <1>3, <2>6 DEF AnimatorFits
  <2>14. QED BY <1>4, <2>7, <2>8, <2>9, <2>10, <2>11, <2>12, <2>13 DEF WindowInv
<1>8. QED BY <1>6, <1>7

LEMMA PointerStep ==
    ASSUME WindowInv, PointerDown
    PROVE  WindowInv'
<1>0. Types /\ Shapely(stack) /\ Lives /\ JobsFit /\ CallsFit /\ PendingFit /\ AnimatorFits
      /\ TimersFit /\ FocusFits
      BY DEF WindowInv
<1>1. UNCHANGED <<children, grab, animator, ignoreInput, pendingOpen, pendingClose, idles,
                  timers, stack, phase, created, closed, notified, freed>>
      BY DEF PointerDown, pendingVars, ghostVars
<1>2. Kids' = Kids /\ Jobs' = Jobs /\ Calls' = Calls /\ Animating' = Animating
      BY <1>1, SameKids, SameJobs, SameCalls, SameAnimator
<1>3. target' \in Kids \cup {NoWindow}
  <2>1. ASSUME children /= << >> PROVE Last(children) \in Kids
    <3>1. children \in Seq(Window)
          BY <1>0 DEF Types
    <3>2. Members(children) = Members(Front(children)) \cup {Last(children)}
          BY <2>1, <3>1, FrontMembers
    <3>3. QED BY <3>2 DEF Kids
  <2>2. target' = IF grab /= NoWindow THEN grab
                  ELSE IF children = << >> THEN NoWindow ELSE Last(children)
        BY DEF PointerDown
  <2>3. QED BY <1>0, <2>1, <2>2 DEF FocusFits
<1>4. Kids \subseteq Window
      BY <1>0 DEF Types, Kids, Members
<1>5. Types' /\ Shapely(stack)'
      BY <1>0, <1>1, <1>3, <1>4 DEF Types, Shapely, Unique
<1>6. Lives' /\ TimersFit' /\ FocusFits'
      BY <1>0, <1>1, <1>2, <1>3 DEF Lives, TimersFit, FocusFits
<1>7. JobsFit'
      BY <1>0, <1>1, <1>2 DEF JobsFit, Unique
<1>8. CallsFit'
      BY <1>0, <1>1, <1>2 DEF CallsFit
<1>9. PendingFit' /\ AnimatorFits'
      BY <1>0, <1>1, <1>2 DEF PendingFit, AnimatorFits
<1>10. QED BY <1>5, <1>6, <1>7, <1>8, <1>9 DEF WindowInv

LEMMA InvalidateStep ==
    ASSUME WindowInv, NEW w \in Window, TimerInvalidate(w)
    PROVE  WindowInv'
<1>0. Types /\ Shapely(stack) /\ Lives /\ JobsFit /\ CallsFit /\ PendingFit /\ AnimatorFits
      /\ TimersFit /\ FocusFits
      BY DEF WindowInv
<1>1. /\ UNCHANGED <<children, target, grab, animator, ignoreInput, pendingOpen, pendingClose,
                     idles, stack, phase, created, closed, notified, freed>>
      /\ timers' = timers \ {w}
      BY DEF TimerInvalidate, focusVars, pendingVars, ghostVars
<1>2. Kids' = Kids /\ Jobs' = Jobs /\ Calls' = Calls /\ Animating' = Animating
      BY <1>1, SameKids, SameJobs, SameCalls, SameAnimator
<1>3. Types' /\ Shapely(stack)'
      BY <1>0, <1>1 DEF Types, Shapely, Unique
<1>4. Lives' /\ TimersFit' /\ FocusFits'
      BY <1>0, <1>1, <1>2 DEF Lives, TimersFit, FocusFits
<1>5. JobsFit'
      BY <1>0, <1>1, <1>2 DEF JobsFit, Unique
<1>6. CallsFit'
      BY <1>0, <1>1, <1>2 DEF CallsFit
<1>7. PendingFit' /\ AnimatorFits'
      BY <1>0, <1>1, <1>2 DEF PendingFit, AnimatorFits
<1>8. QED BY <1>3, <1>4, <1>5, <1>6, <1>7 DEF WindowInv
-----------------------------------------------------------------------------
(* The idle of an opening calls EVT_WINDOW_WILL_OPEN.                      *)
LEMMA WillOpenStep ==
    ASSUME WindowInv, IdleWillOpen
    PROVE  WindowInv'
<1>0. Types /\ Shapely(stack) /\ Lives /\ JobsFit /\ CallsFit /\ PendingFit /\ AnimatorFits
      /\ TimersFit /\ FocusFits
      BY DEF WindowInv
<1>1. /\ stack = << >> /\ idles /= << >> /\ Last(idles).func /= "destroy"
      /\ UNCHANGED <<children, target, grab, animator, ignoreInput, pendingOpen, pendingClose,
                     timers, phase, created, closed, notified, freed>>
      /\ idles' = Front(idles)
      BY DEF IdleWillOpen, focusVars, pendingVars, ghostVars
<1>2. PICK job : job = Last(idles)
      OBVIOUS
<1>3. /\ idles' \in Seq(Job) /\ Unique(idles)' /\ job \in Job
      /\ Jobs = Jobs' \cup {job} /\ job \notin Jobs'
  <2>1. idles \in Seq(Job) /\ Unique(idles)
        BY <1>0 DEF Types, JobsFit
  <2>2. QED BY <1>1, <1>2, <2>1, FrontMembers DEF Jobs
<1>4. PICK h : h = Handler(IF job.func = "check_open" THEN "will_open" ELSE "will_first", job.win)
      OBVIOUS
<1>5. h \in Call /\ h.at \in Will /\ h.win = job.win
      BY <1>3, <1>4 DEF Handler, Call, Job, Frame, Will
<1>6. stack' = Append(<< >>, h)
  <2>1. stack' = << h >>
        BY <1>2, <1>4 DEF IdleWillOpen
  <2>2. QED BY <2>1
<1>7. stack' \in Seq(Call) /\ Shapely(stack)' /\ Calls' = {h} /\ Calls = {}
  <2>1. << >> \in Seq(Call)
        OBVIOUS
  <2>2. /\ Append(<< >>, h) \in Seq(Call) /\ Members(Append(<< >>, h)) = Members(<< >>) \cup {h}
        /\ Shapely(Append(<< >>, h))
        BY <1>5, <2>1, EmptyMembers, PushCall
  <2>3. QED BY <1>1, <1>6, <2>2, EmptyMembers DEF Calls
<1>8. Kids' = Kids /\ Animating' = Animating
      BY <1>1, SameKids, SameAnimator
<1>9. job.win \in Kids \ notified /\ \A x \in Jobs' : x.win /= job.win
      BY <1>0, <1>1, <1>2, <1>3 DEF JobsFit
<1>10. Types'
      BY <1>0, <1>1, <1>3, <1>7 DEF Types, Unique
<1>11. Lives' /\ TimersFit' /\ FocusFits'
      BY <1>0, <1>1, <1>8 DEF Lives, TimersFit, FocusFits
<1>12. JobsFit'
      BY <1>0, <1>1, <1>3, <1>8 DEF JobsFit
<1>13. CallsFit'
      BY <1>0, <1>1, <1>5, <1>7, <1>8, <1>9 DEF CallsFit, Lives, Will
<1>14. PendingFit'
      BY <1>0, <1>1, <1>3, <1>5, <1>7, <1>8 DEF PendingFit
<1>15. AnimatorFits'
      BY <1>0, <1>1, <1>3, <1>5, <1>7, <1>8 DEF AnimatorFits
<1>16. QED BY <1>7, <1>10, <1>11, <1>12, <1>13, <1>14, <1>15 DEF WindowInv

LEMMA DestroyStep ==
    ASSUME WindowInv, IdleDestroy
    PROVE  WindowInv'
<1>0. Types /\ Shapely(stack) /\ Lives /\ JobsFit /\ CallsFit /\ PendingFit /\ AnimatorFits
      /\ TimersFit /\ FocusFits
      BY DEF WindowInv
<1>1. /\ stack = << >> /\ idles /= << >> /\ Last(idles).func = "destroy"
      /\ UNCHANGED <<children, target, grab, animator, ignoreInput, pendingOpen, pendingClose,
                     timers, stack, phase, created, closed, notified>>
      /\ idles' = Front(idles) /\ freed' = freed \cup {Last(idles).win}
      BY DEF IdleDestroy, focusVars, pendingVars, ghostVars
<1>2. PICK job : job = Last(idles)
      OBVIOUS
<1>3. /\ idles' \in Seq(Job) /\ Unique(idles)' /\ job \in Job
      /\ Jobs = Jobs' \cup {job} /\ job \notin Jobs'
  <2>1. idles \in Seq(Job) /\ Unique(idles)
        BY <1>0 DEF Types, JobsFit
  <2>2. QED BY <1>1, <1>2, <2>1, FrontMembers DEF Jobs
<1>4. job.win \in Window /\ job.win \in created \ (Kids \cup freed)
      BY <1>0, <1>1, <1>2, <1>3 DEF JobsFit, Job
<1>5. \A x \in Jobs' : x.win /= job.win
      BY <1>0, <1>3 DEF JobsFit
<1>6. Kids' = Kids /\ Animating' = Animating /\ Calls' = {} /\ Calls = {}
      BY <1>1, SameKids, SameCalls, SameAnimator, EmptyMembers DEF Calls
<1>7. Types' /\ Shapely(stack)'
      BY <1>0, <1>1, <1>2, <1>3, <1>4 DEF Types, Unique, Shapely
<1>8. Lives' /\ TimersFit' /\ FocusFits'
      BY <1>0, <1>1, <1>2, <1>4, <1>6 DEF Lives, TimersFit, FocusFits
<1>9. JobsFit'
      BY <1>0, <1>1, <1>2, <1>3, <1>5, <1>6 DEF JobsFit
<1>10. CallsFit'
      BY <1>6 DEF CallsFit
<1>11. PendingFit'
      BY <1>0, <1>1, <1>3, <1>6 DEF PendingFit
<1>12. AnimatorFits'
      BY <1>0, <1>1, <1>3, <1>6 DEF AnimatorFits
<1>13. QED BY <1>7, <1>8, <1>9, <1>10, <1>11, <1>12 DEF WindowInv

(* EVT_WINDOW_OPEN goes to a child.                                        *)
LEMMA DispatchOpenFits ==
    ASSUME WindowInv, NEW at \in {"open", "first", "anim_open"}, NEW w \in Window, w \in Kids,
           Popped = << >>, DispatchOpen(at, w), children' = children
    PROVE  /\ stack' \in Seq(Call) /\ Shapely(stack)'
           /\ \E h \in Call : Calls' = {h} /\ h.at = at /\ h.win = w
           /\ grab' \in Window \cup {NoWindow}
           /\ grab' /= NoWindow => grab' \in Kids
           /\ notified' = notified \cup {w}
<1> DEFINE h == Handler(at, w)
<1>1. h \in Call /\ h.at = at /\ h.win = w
      BY DEF Handler, Call, Frame
<1>2. stack' = Append(<< >>, h)
      BY DEF DispatchOpen
<1> HIDE DEF h
<1>3. stack' \in Seq(Call) /\ Shapely(stack)' /\ Calls' = {h}
  <2>1. << >> \in Seq(Call)
        OBVIOUS
  <2>2. /\ Append(<< >>, h) \in Seq(Call) /\ Members(Append(<< >>, h)) = Members(<< >>) \cup {h}
        /\ Shapely(Append(<< >>, h))
        BY <1>1, <2>1, EmptyMembers, PushCall
  <2>3. QED BY <1>2, <2>2, EmptyMembers DEF Calls
<1>4. grab' \in {grab, w}
      BY DEF DispatchOpen
<1>5. FocusFits /\ grab \in Window \cup {NoWindow}
      BY DEF WindowInv, Types
<1>6. QED BY <1>1, <1>3, <1>4, <1>5 DEF DispatchOpen, FocusFits

(* The window whose EVT_WINDOW_WILL_OPEN returns is waited for by no one   *)
(* else.                                                                   *)
LEMMA WillReturns ==
    ASSUME WindowInv, stack /= << >>, Last(stack).at \in Will
    PROVE  /\ Last(stack).win \in Window /\ Last(stack).win \in Kids \ (notified \cup closed)
           /\ Last(stack).win \in created \ freed
           /\ pendingOpen /= Last(stack).win
           /\ \A x \in Jobs : x.win /= Last(stack).win
           /\ Animating /\ animator.open => animator.win /= Last(stack).win
           /\ Popped = << >> /\ Front(stack) = << >> /\ Calls = {Last(stack)}
<1>0. Types /\ Shapely(stack) /\ Lives /\ CallsFit /\ PendingFit /\ AnimatorFits
      BY DEF WindowInv
<1>1. Last(stack).at /= "close" /\ Last(stack).at /= "anim_open"
      BY DEF Will
<1>2. Last(stack) \in Calls /\ Last(stack) \in Call /\ Front(stack) = << >> /\ Calls = {Last(stack)}
      BY <1>0, <1>1, TopCall
<1>3. PICK f : f = Last(stack)
      OBVIOUS
<1>4. /\ f.win \in Window /\ f.win \in Kids \ (notified \cup closed) /\ f.win \in created \ freed
      /\ \A x \in Jobs : x.win /= f.win
      BY <1>0, <1>2, <1>3 DEF CallsFit, Lives, Call
<1>5. pendingOpen /= f.win
      BY <1>0, <1>2, <1>3, <1>4, WindowAssumption DEF PendingFit
<1>6. Animating /\ animator.open => animator.win /= f.win
      BY <1>0, <1>1, <1>2, <1>3 DEF AnimatorFits
<1>7. QED BY <1>2, <1>3, <1>4, <1>5, <1>6 DEF Popped

LEMMA NotifyStep ==
    ASSUME WindowInv, stack /= << >>, Last(stack).at \in Will, NEW at \in {"open", "first"},
           DispatchOpen(at, Last(stack).win),
           UNCHANGED <<children, target, animator, ignoreInput, pendingOpen, pendingClose, idles,
                       timers, phase, created, closed, freed>>
    PROVE  WindowInv'
<1>0. Types /\ Shapely(stack) /\ Lives /\ JobsFit /\ CallsFit /\ PendingFit /\ AnimatorFits
      /\ TimersFit /\ FocusFits
      BY DEF WindowInv
<1>1. PICK w \in Window : w = Last(stack).win
      BY WillReturns
<1>2. /\ w \in Kids \ (notified \cup closed) /\ w \in created \ freed
      /\ pendingOpen /= w
      /\ \A x \in Jobs : x.win /= w
      /\ Animating /\ animator.open => animator.win /= w
      /\ Popped = << >> /\ Calls = {Last(stack)}
      BY <1>1, WillReturns
<1>3. /\ stack' \in Seq(Call) /\ Shapely(stack)'
      /\ \E h \in Call : Calls' = {h} /\ h.at = at /\ h.win = w
      /\ grab' \in Window \cup {NoWindow}
      /\ grab' /= NoWindow => grab' \in Kids
      /\ notified' = notified \cup {w}
  <2>1. DispatchOpen(at, w)
        BY <1>1
  <2>2. QED BY <1>2, <2>1, DispatchOpenFits
<1>4. PICK h \in Call : Calls' = {h} /\ h.at = at /\ h.win = w
      BY <1>3
<1>5. Kids' = Kids /\ Jobs' = Jobs /\ Animating' = Animating
      BY SameKids, SameJobs, SameAnimator
<1>6. Types'
      BY <1>0, <1>3 DEF Types, Unique
<1>7. Lives' /\ TimersFit' /\ FocusFits'
      BY <1>0, <1>2, <1>3, <1>5 DEF Lives, TimersFit, FocusFits
<1>8. JobsFit'
      BY <1>0, <1>2, <1>3, <1>5 DEF JobsFit, Unique
<1>9. CallsFit'
      BY <1>0, <1>2, <1>4, <1>5 DEF CallsFit, Will
<1>10. PendingFit'
      BY <1>0, <1>2, <1>3, <1>4, <1>5 DEF PendingFit, Will
<1>11. AnimatorFits'
  <2>1. Last(stack).at /= "anim_open"
        BY DEF Will
  <2>2. QED BY <1>0, <1>2, <1>3, <1>4, <1>5, <2>1 DEF AnimatorFits, Will
<1>12. QED BY <1>3, <1>6, <1>7, <1>8, <1>9, <1>10, <1>11 DEF WindowInv

LEMMA WillFirstReturnsStep ==
    ASSUME WindowInv, WillFirstReturns
    PROVE  WindowInv'
<1>1. /\ stack /= << >> /\ Last(stack).at \in Will
      /\ DispatchOpen("first", Last(stack).win)
      /\ UNCHANGED <<children, target, animator, ignoreInput, pendingOpen, pendingClose, idles,
                     timers, phase, created, closed, freed>>
      BY DEF WillFirstReturns, InHandler, Will, pendingVars
<1>2. QED BY <1>1, NotifyStep

LEMMA WillOpenReturnsStep ==
    ASSUME WindowInv, WillOpenReturns
    PROVE  WindowInv'
<1>0. Types /\ Shapely(stack) /\ Lives /\ JobsFit /\ CallsFit /\ PendingFit /\ AnimatorFits
      /\ TimersFit /\ FocusFits
      BY DEF WindowInv
<1>1. /\ stack /= << >> /\ Last(stack).at \in Will
      /\ UNCHANGED <<children, target, pendingOpen, pendingClose, idles, timers, phase, created,
                     closed, freed>>
      BY DEF WillOpenReturns, InHandler, Will, pendingVars
<1>2. PICK w \in Window : w = Last(stack).win
      BY <1>1, WillReturns
<1>3. CASE ~CanAnimate(w, TRUE)
  <2>1. DispatchOpen("open", Last(stack).win) /\ UNCHANGED <<animator, ignoreInput>>
        BY <1>2, <1>3 DEF WillOpenReturns
  <2>2. QED BY <1>1, <2>1, NotifyStep
<1>4. CASE CanAnimate(w, TRUE)
  <2>1. CreateAnimator(w, TRUE) /\ stack' = Front(stack) /\ UNCHANGED <<grab, notified>>
        BY <1>2, <1>4 DEF WillOpenReturns
  <2>2. /\ w \in Kids \ (notified \cup closed) /\ pendingOpen /= w
        /\ \A x \in Jobs : x.win /= w
        /\ stack' = << >>
        BY <1>1, <1>2, <2>1, WillReturns
  <2>3. /\ ~Animating /\ Animating' /\ animator' \in Animator /\ ignoreInput' \in BOOLEAN
        /\ animator'.win = w /\ animator'.prev \in Kids /\ animator'.open = TRUE
        BY <1>0, <1>4, <2>1, NewAnimator
  <2>4. Kids' = Kids /\ Jobs' = Jobs /\ Calls' = {} /\ Shapely(stack)'
        BY <1>1, <2>2, SameKids, SameJobs, EmptyMembers DEF Calls
  <2>5. Types'
        BY <1>0, <1>1, <2>1, <2>2, <2>3 DEF Types, Unique
  <2>6. Lives' /\ TimersFit' /\ FocusFits'
        BY <1>0, <1>1, <2>1, <2>4 DEF Lives, TimersFit, FocusFits
  <2>7. JobsFit'
        BY <1>0, <1>1, <2>1, <2>4 DEF JobsFit, Unique
  <2>8. CallsFit'
        BY <2>4 DEF CallsFit
  <2>9. PendingFit'
        BY <1>0, <1>1, <2>1, <2>3, <2>4 DEF PendingFit
  <2>10. AnimatorFits'
        BY <1>1, <2>1, <2>2, <2>3, <2>4 DEF AnimatorFits
  <2>11. QED BY <2>4, <2>5, <2>6, <2>7, <2>8, <2>9, <2>10 DEF WindowInv
<1>5. QED BY <1>3, <1>4

LEMMA OpenReturnsStep ==
    ASSUME WindowInv, OpenReturns
    PROVE  WindowInv'
<1>0. Types /\ Shapely(stack) /\ Lives /\ JobsFit /\ CallsFit /\ PendingFit /\ AnimatorFits
      /\ TimersFit /\ FocusFits
      BY DEF WindowInv
<1>1. PICK f : f = Last(stack)
      OBVIOUS
<1>2. /\ stack /= << >> /\ f.at \in {"open", "first"} /\ stack' = Front(stack)
      /\ UNCHANGED <<children, target, grab, animator, ignoreInput, pendingOpen, pendingClose,
                     idles, phase, created, closed, notified, freed>>
      /\ timers' = timers \/ (f.at = "open" /\ timers' = timers \cup {f.win})
      BY <1>1 DEF OpenReturns, InHandler, focusVars, pendingVars, ghostVars
<1>3. f \in Calls /\ f \in Call /\ stack' = << >> /\ Calls = {f}
      BY <1>0, <1>1, <1>2, TopCall
<1>4. Kids' = Kids /\ Jobs' = Jobs /\ Animating' = Animating /\ Calls' = {} /\ Shapely(stack)'
      BY <1>2, <1>3, SameKids, SameJobs, SameAnimator, EmptyMembers DEF Calls
<1>5. TimersFit' /\ timers' \subseteq Window
      BY <1>0, <1>2, <1>3, <1>4 DEF TimersFit, CallsFit, Types, Call
<1>6. Types'
      BY <1>0, <1>2, <1>3, <1>5 DEF Types, Unique
<1>7. Lives' /\ FocusFits'
      BY <1>0, <1>2, <1>4 DEF Lives, FocusFits
<1>8. JobsFit'
      BY <1>0, <1>2, <1>4 DEF JobsFit, Unique
<1>9. CallsFit'
      BY <1>4 DEF CallsFit
<1>10. PendingFit'
      BY <1>0, <1>2, <1>4 DEF PendingFit
<1>11. AnimatorFits'
      BY <1>0, <1>2, <1>3, <1>4 DEF AnimatorFits
<1>12. QED BY <1>4, <1>5, <1>6, <1>7, <1>8, <1>9, <1>10, <1>11 DEF WindowInv
-----------------------------------------------------------------------------
LEMMA FrameStep ==
    ASSUME WindowInv, PaintFrame
    PROVE  WindowInv'
<1>0. Types /\ Shapely(stack) /\ Lives /\ JobsFit /\ CallsFit /\ PendingFit /\ AnimatorFits
      /\ TimersFit /\ FocusFits
      BY DEF WindowInv
<1>1. /\ Animating /\ phase' = "events"
      /\ UNCHANGED <<children, target, grab, ignoreInput, pendingOpen, pendingClose, idles,
                     timers, stack, created, closed, notified, freed>>
      BY DEF PaintFrame, focusVars, pendingVars, ghostVars
<1>2. PICK t \in animator.time + 1 .. Duration : animator' = [animator EXCEPT !.time = t]
      BY DEF PaintFrame
<1>3. /\ animator' \in Animator /\ Animating'
      /\ animator'.win = animator.win /\ animator'.prev = animator.prev
      /\ animator'.open = animator.open
  <2>1. animator \in Animator
        BY <1>0, <1>1, AnimatorIs
  <2>2. t \in 0 .. Duration
        BY <2>1, WindowAssumption DEF Animator
  <2>3. /\ animator' \in Animator
        /\ animator'.win = animator.win /\ animator'.prev = animator.prev
        /\ animator'.open = animator.open /\ animator'.win \in Window
        BY <1>2, <2>1, <2>2 DEF Animator
  <2>4. animator' /= NoAnimator
        BY <2>3, WindowAssumption DEF NoAnimator
  <2>5. QED BY <2>3, <2>4 DEF Animating
<1>4. Kids' = Kids /\ Jobs' = Jobs /\ Calls' = Calls
      BY <1>1, SameKids, SameJobs, SameCalls
<1>5. Types' /\ Shapely(stack)'
      BY <1>0, <1>1, <1>3 DEF Types, Shapely, Unique
<1>6. Lives' /\ TimersFit' /\ FocusFits'
      BY <1>0, <1>1, <1>4 DEF Lives, TimersFit, FocusFits
<1>7. JobsFit'
      BY <1>0, <1>1, <1>4 DEF JobsFit, Unique
<1>8. CallsFit'
      BY <1>0, <1>1, <1>3, <1>4 DEF CallsFit
<1>9. PendingFit' /\ AnimatorFits'
      BY <1>0, <1>1, <1>3, <1>4 DEF PendingFit, AnimatorFits
<1>10. QED BY <1>5, <1>6, <1>7, <1>8, <1>9 DEF WindowInv

(* Only a real animator reaches its last frame.                            *)
LEMMA LastFrame == animator.time = Duration => Animating
BY WindowAssumption DEF Animating, NoAnimator

LEMMA LastOfOpenStep ==
    ASSUME WindowInv, PaintLastOfOpen
    PROVE  WindowInv'
<1>0. Types /\ Shapely(stack) /\ Lives /\ JobsFit /\ CallsFit /\ PendingFit /\ AnimatorFits
      /\ TimersFit /\ FocusFits
      BY DEF WindowInv
<1>1. /\ stack = << >> /\ Animating /\ animator.open /\ phase' = "events"
      /\ UNCHANGED <<children, target, animator, ignoreInput, pendingOpen, pendingClose, idles,
                     timers, created, closed, freed>>
      BY LastFrame DEF PaintLastOfOpen, pendingVars
<1>2. PICK w \in Window : w = animator.win
      BY <1>0, <1>1, AnimatorIs
<1>3. Calls = {} /\ Popped = << >>
      BY <1>1, EmptyMembers DEF Calls, Popped
<1>4. /\ w \in Kids /\ w \notin notified /\ pendingOpen /= w
      /\ \A x \in Jobs : x.win /= w
      BY <1>0, <1>1, <1>2, <1>3 DEF AnimatorFits
<1>5. /\ stack' \in Seq(Call) /\ Shapely(stack)'
      /\ \E h \in Call : Calls' = {h} /\ h.at = "anim_open" /\ h.win = w
      /\ grab' \in Window \cup {NoWindow}
      /\ grab' /= NoWindow => grab' \in Kids
      /\ notified' = notified \cup {w}
  <2>1. DispatchOpen("anim_open", w)
        BY <1>2 DEF PaintLastOfOpen
  <2>2. QED BY <1>1, <1>3, <1>4, <2>1, DispatchOpenFits
<1>6. PICK h \in Call : Calls' = {h} /\ h.at = "anim_open" /\ h.win = w
      BY <1>5
<1>7. Kids' = Kids /\ Jobs' = Jobs /\ Animating' = Animating
      BY <1>1, SameKids, SameJobs, SameAnimator
<1>8. Types'
      BY <1>0, <1>1, <1>5 DEF Types, Unique
<1>9. Lives' /\ TimersFit' /\ FocusFits'
      BY <1>0, <1>1, <1>4, <1>5, <1>7 DEF Lives, TimersFit, FocusFits
<1>10. JobsFit'
      BY <1>0, <1>1, <1>4, <1>5, <1>7 DEF JobsFit, Unique
<1>11. CallsFit'
      BY <1>0, <1>1, <1>2, <1>4, <1>6, <1>7 DEF CallsFit, Will, Lives
<1>12. PendingFit'
      BY <1>0, <1>1, <1>4, <1>5, <1>6, <1>7 DEF PendingFit, Will
<1>13. AnimatorFits'
      BY <1>0, <1>1, <1>6, <1>7 DEF AnimatorFits
<1>14. QED BY <1>5, <1>8, <1>9, <1>10, <1>11, <1>12, <1>13 DEF WindowInv

(* The end of window_manager_paint_animation takes up what waited for it,  *)
(* a close before an open.                                                 *)
LEMMA ResumeStep ==
    ASSUME WindowInv, NEW gone, Popped = << >>, Finish, Resume(gone),
           \/ gone = NoWindow /\ freed' = freed
           \/ gone \in Kids \cap closed /\ gone /= pendingClose /\ freed' = freed \cup {gone},
           children' \in Seq(Window), Unique(children)', Kids' = Kids \ {gone},
           UNCHANGED <<timers, created, closed, notified>>,
           phase' \in {"events", "idle", "paint"}
    PROVE  WindowInv'
<1>0. Types /\ Shapely(stack) /\ Lives /\ JobsFit /\ CallsFit /\ PendingFit /\ AnimatorFits
      /\ TimersFit /\ FocusFits
      BY DEF WindowInv
<1>1. /\ animator' = NoAnimator /\ ignoreInput' = FALSE
      /\ pendingClose' = NoWindow
      /\ pendingOpen' = IF pendingClose = NoWindow THEN NoWindow ELSE pendingOpen
      BY DEF Finish, Resume
<1>2. ~Animating'
      BY <1>1 DEF Animating
<1>3. NoWindow \notin Kids /\ Kids \subseteq Window
  <2>1. Kids \subseteq Window
        BY <1>0 DEF Types, Kids, Members
  <2>2. QED BY <2>1, WindowAssumption
<1>4. /\ pendingOpen /= NoWindow => pendingOpen /= gone
      /\ \A x \in Jobs : gone /= NoWindow => x.win /= gone
      BY <1>0 DEF PendingFit, JobsFit, Lives
<1>5. FocusFits' /\ target' \in Window \cup {NoWindow} /\ grab' \in Window \cup {NoWindow}
  <2>1. ASSUME NEW ptr \in Window \cup {NoWindow}, ptr /= NoWindow => ptr \in Kids
        PROVE  /\ Drop(Drop(ptr, gone), pendingClose) \in Window \cup {NoWindow}
               /\ Drop(Drop(ptr, gone), pendingClose) /= NoWindow
                    => Drop(Drop(ptr, gone), pendingClose) \in Kids'
        BY <2>1 DEF Drop
  <2>2. target \in Window \cup {NoWindow} /\ grab \in Window \cup {NoWindow}
        BY <1>0 DEF Types
  <2>3. /\ target' = Drop(Drop(target, gone), pendingClose)
        /\ grab' = Drop(Drop(grab, gone), pendingClose)
        BY DEF Resume
  <2>4. QED BY <1>0, <2>1, <2>2, <2>3 DEF FocusFits
<1>6. Lives' /\ TimersFit'
      BY <1>0, <1>3 DEF Lives, TimersFit
<1>7. AnimatorFits'
      BY <1>2 DEF AnimatorFits
<1>8. CASE pendingClose = NoWindow
  <2>1. stack' = << >> /\ Calls' = {} /\ Shapely(stack)' /\ stack' \in Seq(Call)
        BY <1>8, EmptyMembers DEF Resume, TakeUpClose, Calls
  <2>2. pendingOpen' = NoWindow
        BY <1>1, <1>8
  <2>3. CallsFit' /\ PendingFit'
        BY <1>1, <2>1, <2>2 DEF CallsFit, PendingFit
  <2>4. CASE pendingOpen = NoWindow
    <3>1. idles' = idles /\ Jobs' = Jobs
          BY <1>8, <2>4, SameJobs DEF Resume, TakeUpOpen
    <3>2. JobsFit'
          BY <1>0, <1>3, <1>4, <3>1 DEF JobsFit, Unique
    <3>3. Types'
          BY <1>0, <1>1, <1>5, <1>6, <2>1, <2>2, <3>1 DEF Types, Lives
    <3>4. QED BY <1>5, <1>6, <1>7, <2>1, <2>3, <3>2, <3>3 DEF WindowInv
  <2>5. CASE pendingOpen /= NoWindow
    <3> DEFINE job == OpenIdle(pendingOpen)
    <3>1. idles' = Append(idles, job)
          BY <1>8, <2>5 DEF Resume, TakeUpOpen
    <3>2. pendingOpen \in Kids \ notified /\ \A x \in Jobs : x.win /= pendingOpen
          BY <1>0, <2>5 DEF PendingFit
    <3>3. job \in Job /\ job.win = pendingOpen /\ job.func /= "destroy"
          BY <1>3, <3>2 DEF OpenIdle, Job, Func
    <3>4. PICK x : x = job
          OBVIOUS
    <3> HIDE DEF job
    <3>5. idles' \in Seq(Job) /\ Unique(idles)' /\ Jobs' = Jobs \cup {x}
      <4>1. idles \in Seq(Job) /\ Unique(idles) /\ x \notin Members(idles)
            BY <1>0, <3>2, <3>3, <3>4 DEF Types, JobsFit, Jobs
      <4>2. idles' = Append(idles, x) /\ x \in Job
            BY <3>1, <3>3, <3>4
      <4>3. QED BY <4>1, <4>2, AppendMembers DEF Jobs
    <3>6. JobsFit'
          BY <1>0, <1>3, <1>4, <2>5, <3>2, <3>3, <3>4, <3>5 DEF JobsFit
    <3>7. Types'
          BY <1>0, <1>1, <1>5, <1>6, <2>1, <2>2, <3>5 DEF Types, Lives
    <3>8. QED BY <1>5, <1>6, <1>7, <2>1, <2>3, <3>6, <3>7 DEF WindowInv
  <2>6. QED BY <2>4, <2>5
<1>9. CASE pendingClose /= NoWindow
  <2>1. idles' = idles /\ Jobs' = Jobs /\ pendingOpen' = pendingOpen
        BY <1>1, <1>9, SameJobs DEF Resume, TakeUpOpen
  <2>2. PICK w \in Window : w = pendingClose
        BY <1>0, <1>9 DEF Types
  <2>3. w \in Kids \cap closed
        BY <1>0, <1>9, <2>2 DEF PendingFit
  <2>4. PICK h : h = Handler("close", w)
        OBVIOUS
  <2>5. h \in Call /\ h.at = "close" /\ h.win = w
        BY <2>4 DEF Handler, Call, Frame
  <2>6. stack' = Append(<< >>, h)
        BY <1>9, <2>2, <2>4 DEF Resume, TakeUpClose
  <2>7. stack' \in Seq(Call) /\ Shapely(stack)' /\ Calls' = {h}
    <3>1. << >> \in Seq(Call)
          OBVIOUS
    <3>2. /\ Append(<< >>, h) \in Seq(Call)
          /\ Members(Append(<< >>, h)) = Members(<< >>) \cup {h}
          /\ Shapely(Append(<< >>, h))
          BY <2>5, <3>1, EmptyMembers, PushCall
    <3>3. QED BY <2>6, <3>2, EmptyMembers DEF Calls
  <2>8. JobsFit'
        BY <1>0, <1>3, <1>4, <2>1 DEF JobsFit, Unique
  <2>9. CallsFit'
        BY <1>0, <1>2, <1>3, <1>9, <2>2, <2>3, <2>5, <2>7 DEF CallsFit, Lives, Will
  <2>10. PendingFit'
        BY <1>0, <1>1, <1>4, <2>1, <2>5, <2>7 DEF PendingFit, Will
  <2>11. Types'
        BY <1>0, <1>1, <1>5, <1>6, <2>1, <2>7 DEF Types, Lives
  <2>12. QED BY <1>5, <1>6, <1>7, <2>7, <2>8, <2>9, <2>10, <2>11 DEF WindowInv
<1>10. QED BY <1>8, <1>9

LEMMA AnimOpenReturnsStep ==
    ASSUME WindowInv, AnimOpenReturns
    PROVE  WindowInv'
<1>0. Types /\ Shapely(stack)
      BY DEF WindowInv
<1>1. /\ stack /= << >> /\ Last(stack).at = "anim_open"
      /\ Finish /\ Resume(NoWindow)
      /\ UNCHANGED <<children, timers, phase, created, closed, notified, freed>>
      BY DEF AnimOpenReturns, InHandler, ghostVars
<1>2. Popped = << >>
      BY <1>0, <1>1, TopCall DEF Popped
<1>3. /\ children' \in Seq(Window) /\ Unique(children)' /\ Kids' = Kids \ {NoWindow}
      /\ phase' \in {"events", "idle", "paint"}
  <2>1. NoWindow \notin Kids
        BY <1>0, WindowAssumption DEF Types, Kids, Members
  <2>2. QED BY <1>0, <1>1, <2>1, SameKids DEF Types, Unique
<1>4. QED BY <1>1, <1>2, <1>3, ResumeStep

LEMMA LastOfCloseStep ==
    ASSUME WindowInv, PaintLastOfClose
    PROVE  WindowInv'
<1>0. Types /\ Shapely(stack) /\ PendingFit /\ AnimatorFits
      BY DEF WindowInv
<1>1. /\ stack = << >> /\ Animating /\ ~animator.open /\ phase' = "events"
      /\ UNCHANGED <<timers, created, closed, notified>>
      BY LastFrame DEF PaintLastOfClose, ghostVars
<1>2. PICK w \in Window : w = animator.win
      BY <1>0, <1>1, AnimatorIs
<1>3. w \in Kids \cap closed /\ w /= pendingClose
      BY <1>0, <1>1, <1>2, WindowAssumption DEF AnimatorFits, PendingFit
<1>4. /\ children' = RemoveFirst(children, w) /\ freed' = freed \cup {w}
      /\ Finish /\ Resume(w)
      BY <1>2 DEF PaintLastOfClose
<1>5. children' \in Seq(Window) /\ Unique(children)' /\ Kids' = Kids \ {w}
      BY <1>0, <1>3, <1>4, RemoveFirstMembers DEF Types, Kids
<1>6. Popped = << >>
      BY <1>1 DEF Popped
<1>7. QED BY <1>1, <1>3, <1>4, <1>5, <1>6, ResumeStep
-----------------------------------------------------------------------------
LEMMA WindowInit == Init => WindowInv
<1> SUFFICES ASSUME Init PROVE WindowInv
    OBVIOUS
<1>1. Kids = {} /\ Jobs = {} /\ Calls = {} /\ Shapely(stack) /\ ~Animating
      BY EmptyMembers DEF Init, Kids, Jobs, Calls, Animating
<1>2. Types
  <2>1. children = << >> /\ idles = << >> /\ stack = << >>
        BY DEF Init
  <2>2. children \in Seq(Window) /\ idles \in Seq(Job) /\ stack \in Seq(Call)
        BY <2>1
  <2>3. Unique(children)
        BY <2>1 DEF Unique
  <2>4. QED BY <2>2, <2>3 DEF Init, Types
<1>3. Lives /\ JobsFit /\ CallsFit /\ PendingFit /\ AnimatorFits /\ TimersFit /\ FocusFits
      BY <1>1 DEF Init, Lives, JobsFit, CallsFit, PendingFit, AnimatorFits, TimersFit, FocusFits,
                  Unique
<1>4. QED BY <1>1, <1>2, <1>3 DEF WindowInv

LEMMA WindowNext == Patient /\ WindowInv /\ [Next]_vars => WindowInv'
<1> SUFFICES ASSUME Patient, WindowInv, [Next]_vars PROVE WindowInv'
    OBVIOUS
<1>0. phase \in {"events", "idle", "paint"}
      BY DEF WindowInv, Types
<1>1. ASSUME NEW w \in Window, OpenWindow(w) PROVE WindowInv'
      BY <1>1, OpenStep
<1>2. ASSUME NEW w \in Window, CloseWindow(w) PROVE WindowInv'
      BY <1>2, CloseStep
<1>3. CASE PointerDown
      BY <1>3, PointerStep
<1>4. ASSUME NEW w \in Window, TimerInvalidate(w) PROVE WindowInv'
      BY <1>4, InvalidateStep
<1>5. CASE EventsDone \/ IdleDone \/ PaintNormal \/ UNCHANGED vars
      BY <1>0, <1>5, SamePhase DEF EventsDone, IdleDone, PaintNormal, vars
<1>6. CASE IdleWillOpen
      BY <1>6, WillOpenStep
<1>7. CASE IdleDestroy
      BY <1>7, DestroyStep
<1>8. CASE WillOpenReturns
      BY <1>8, WillOpenReturnsStep
<1>9. CASE WillFirstReturns
      BY <1>9, WillFirstReturnsStep
<1>10. CASE OpenReturns
      BY <1>10, OpenReturnsStep
<1>11. CASE CloseReturns
      BY <1>11, CloseReturnsStep
<1>12. CASE PaintFrame
      BY <1>12, FrameStep
<1>13. CASE PaintLastOfOpen
      BY <1>13, LastOfOpenStep
<1>14. CASE AnimOpenReturns
      BY <1>14, AnimOpenReturnsStep
<1>15. CASE PaintLastOfClose
      BY <1>15, LastOfCloseStep
<1>16. QED BY <1>1, <1>2, <1>3, <1>4, <1>5, <1>6, <1>7, <1>8, <1>9, <1>10, <1>11, <1>12, <1>13,
              <1>14, <1>15
           DEF Next, Application, LoopStep

(* The children of the window manager are different windows, its pointers, *)
(* its animator, its idles and the handlers in progress name windows: if   *)
(* the application is Patient, whatever it does besides.                   *)
THEOREM WindowTypeCorrect == ASSUME Patient PROVE Spec => []TypeOK
<1>1. Init => WindowInv
      BY WindowInit
<1>2. WindowInv /\ [Next]_vars => WindowInv'
      BY WindowNext
<1>3. WindowInv => TypeOK
      BY TypesAre DEF WindowInv
<1>4. QED BY <1>1, <1>2, <1>3, PTL DEF Spec

(* No idle, timer, pending slot, animator, handler in progress or pointer  *)
(* of the window manager names a window that was freed, however many       *)
(* windows a Patient application opens and closes, animated or not, and in *)
(* whichever handlers.                                                     *)
THEOREM NothingDanglesCorrect == ASSUME Patient PROVE Spec => []NothingDangles
<1>1. Init => WindowInv
      BY WindowInit
<1>2. WindowInv /\ [Next]_vars => WindowInv'
      BY WindowNext
<1>3. WindowInv => NothingDangles
  <2> SUFFICES ASSUME WindowInv PROVE NothingDangles
      OBVIOUS
  <2>0. Types /\ Lives /\ JobsFit /\ CallsFit /\ PendingFit /\ AnimatorFits
        /\ TimersFit /\ FocusFits
        BY DEF WindowInv
  <2>1. Kids \cap freed = {} /\ timers \cap freed = {}
        BY <2>0 DEF Lives, TimersFit
  <2>2. (\A x \in Jobs : x.win \notin freed) /\ (\A f \in Calls : f.win \notin freed)
        BY <2>0, <2>1 DEF JobsFit, CallsFit
  <2>3. {target, grab, pendingOpen, pendingClose, animator.win, animator.prev} \ {NoWindow}
          \subseteq Kids
    <3>1. ~Animating => animator.win = NoWindow /\ animator.prev = NoWindow
          BY DEF Animating, NoAnimator
    <3>2. QED BY <2>0, <3>1 DEF PendingFit, AnimatorFits, FocusFits
  <2>4. Referenced \subseteq Kids \cup {x.win : x \in Jobs} \cup {f.win : f \in Calls} \cup timers
        BY <2>3 DEF Referenced, Kids, Jobs, Calls, Members
  <2>5. QED BY <2>1, <2>2, <2>4 DEF NothingDangles
<1>4. QED BY <1>1, <1>2, <1>3, PTL DEF Spec

(* The window that gets the user's input is open: neither the target nor   *)
(* the grab outlives its window as a child.                                *)
THEOREM FocusOpenCorrect == ASSUME Patient PROVE Spec => []FocusIsOpen
<1>1. Init => WindowInv
      BY WindowInit
<1>2. WindowInv /\ [Next]_vars => WindowInv'
      BY WindowNext
<1>3. WindowInv => FocusIsOpen
      BY ContainsIs DEF WindowInv, FocusFits, FocusIsOpen, Kids
<1>4. QED BY <1>1, <1>2, <1>3, PTL DEF Spec
=============================================================================
