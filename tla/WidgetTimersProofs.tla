------------------------- MODULE WidgetTimersProofs -------------------------
(***************************************************************************)
(* Proofs that the timers of widgets and animators stay in the hands of    *)
(* their owners, for any number of widgets and any nesting of the loops of *)
(* dialogs, as long as handlers leave the widget whose timer is running    *)
(* alone.                                                                  *)
(***************************************************************************)
EXTENDS WidgetTimers, FiniteSetTheorems, SequenceTheorems, WellFoundedInduction, TLAPS

(* The timers whose ids the owners keep.                                   *)
Known(t) == t.func \notin {"press", "play", "up"}

(* Each kind of owner has its own functions.                               *)
Fits(t) == \/ t.ctx \in Button /\ t.func \in {"repeat", "up"}
           \/ t.ctx \in Edit /\ t.func = "caret"
           \/ t.ctx \in Item /\ t.func = "press"
           \/ t.ctx \in Image /\ t.func = "update"
           \/ t.ctx \in Image /\ t = ImageOpened(t.ctx)
           \/ t.ctx \in Slide /\ t.func = "next"
           \/ t.ctx \in Animator /\ t.func \in {"animate", "delay"}

(* Functions that call no handlers return before anything else happens.    *)
Kinds == /\ \A t \in waiting : Fits(t) /\ t.func /= "up" /\ t.id /= NoId
         /\ \A i \in 1 .. Len(calls) :
              /\ Fits(calls[i])
              /\ calls[i].func /= "up" => calls[i].id /= NoId
         /\ \A i \in 1 .. Len(calls) - 1 :
              calls[i].func \in {"repeat", "update", "animate", "up"}

KnownIds == /\ \A t \in waiting : Known(t) => timer[t.ctx] = t.id
            /\ \A i \in 1 .. Len(calls) : Known(calls[i]) => timer[calls[i].ctx] = calls[i].id

(* An owner has one such timer, which waits or is running once.            *)
OneEach == /\ \A t, u \in waiting : Known(t) /\ Known(u) /\ t.ctx = u.ctx => t = u
           /\ \A t \in waiting, i \in 1 .. Len(calls) :
                Known(t) /\ Known(calls[i]) => t.ctx /= calls[i].ctx
           /\ \A i, j \in 1 .. Len(calls) :
                i /= j /\ Known(calls[i]) /\ Known(calls[j]) => calls[i].ctx /= calls[j].ctx

TimersOf(o) == {t \in waiting : t.ctx = o}

Few == \A l \in Item : IsFiniteSet(TimersOf(l)) /\ Cardinality(TimersOf(l)) <= MaxPress

(* A repeat that is running belongs to a pressed button, or to a release   *)
(* that it interrupts and that is going to remove it.                      *)
RepeatRuns ==
    \A i \in 1 .. Len(calls) : calls[i].func = "repeat" =>
      /\ \/ calls[i].ctx \in pressed
         \/ \E j \in 1 .. i - 1 : calls[j].func = "up" /\ calls[j].ctx = calls[i].ctx
      /\ \A j \in i + 1 .. Len(calls) : ~(calls[j].func = "up" /\ calls[j].ctx = calls[i].ctx)

TimersInv == /\ TypeOK /\ Kinds /\ KnownIds /\ OneEach /\ Few
             /\ NoTimerOfTheDead /\ RepeatStopsOnRelease /\ RepeatRuns
-----------------------------------------------------------------------------
(* There is always an id left.                                             *)
LEMMA MinOfNaturals ==
    ASSUME NEW S \in SUBSET Nat, S /= {}
    PROVE  Min(S) \in S
<1>1. \E x \in S : \A y \in S : ~(<<y, x>> \in OpToRel(<, Nat))
      BY NatLessThanWellFounded, WFMin
<1>2. PICK x \in S : \A y \in S : ~(<<y, x>> \in OpToRel(<, Nat))
      BY <1>1
<1>3. ASSUME NEW y \in S PROVE x <= y
  <2>1. <<y, x>> \in Nat \X Nat /\ <<y, x>>[1] = y /\ <<y, x>>[2] = x
        OBVIOUS
  <2>2. y < x => <<y, x>> \in OpToRel(<, Nat)
        BY <2>1, Zenon DEF OpToRel
  <2>3. ~(y < x)
        BY <1>2, <2>2
  <2>4. QED BY <2>3
<1>4. \E m \in S : \A y \in S : m <= y
      BY <1>3
<1>5. QED BY <1>4 DEF Min

LEMMA IdsOf ==
    ASSUME NEW S, IsFiniteSet(S)
    PROVE  /\ IsFiniteSet({t.id : t \in S}) /\ Cardinality({t.id : t \in S}) <= Cardinality(S)
<1> DEFINE T == {t.id : t \in S}
           f == [t \in S |-> t.id]
<1>1. f \in [S -> T] /\ \A x \in T : \E t \in S : f[t] = x
      OBVIOUS
<1>2. f \in Surjection(S, T)
      BY <1>1 DEF Surjection
<1> HIDE DEF T, f
<1>3. IsFiniteSet(T) /\ Cardinality(T) <= Cardinality(S)
      BY <1>2, FS_Surjection
<1>4. QED BY <1>3 DEF T

LEMMA CallsFinite ==
    ASSUME TypeOK
    PROVE  IsFiniteSet(Range(calls)) /\ Cardinality(Range(calls)) <= MaxNest + 1
<1>1. calls \in Seq(Timer) /\ Len(calls) <= MaxNest + 1 /\ Len(calls) \in Nat
      BY DEF TypeOK
<1>2. DOMAIN calls = 1 .. Len(calls) /\ calls \in [1 .. Len(calls) -> Range(calls)]
      BY <1>1 DEF Range
<1>3. calls \in Surjection(1 .. Len(calls), Range(calls))
      BY <1>2 DEF Surjection, Range
<1>4. IsFiniteSet(1 .. Len(calls)) /\ Cardinality(1 .. Len(calls)) = Len(calls)
      BY <1>1, FS_Interval
<1>5. /\ IsFiniteSet(Range(calls)) /\ Cardinality(Range(calls)) <= Len(calls)
      BY <1>3, <1>4, FS_Surjection
<1>6. Cardinality(Range(calls)) \in Nat
      BY <1>5, FS_CardinalityType
<1>7. QED BY <1>1, <1>5, <1>6, TimersAssumption

LEMMA TimersOfFew ==
    ASSUME TimersInv, NEW o \in Owner
    PROVE  IsFiniteSet(TimersOf(o)) /\ Cardinality(TimersOf(o)) <= 2
<1>1. CASE o \in Item
      BY <1>1 DEF TimersInv, Few, MaxPress
<1>2. CASE o \notin Item
  <2>1. \A t \in TimersOf(o) : Known(t) \/ t = ImageOpened(o)
        BY <1>2 DEF TimersInv, Kinds, Fits, TimersOf, Known
  <2>2. PICK u : \A t \in TimersOf(o) : t = u \/ t = ImageOpened(o)
    <3>1. CASE \E v \in TimersOf(o) : Known(v)
      <4>1. PICK v \in TimersOf(o) : Known(v)
            BY <3>1
      <4>2. \A t \in TimersOf(o) : Known(t) => t = v
            BY <4>1 DEF TimersInv, OneEach, TimersOf
      <4>3. QED BY <2>1, <4>2
    <3>2. CASE ~\E v \in TimersOf(o) : Known(v)
          BY <2>1, <3>2
    <3>3. QED BY <3>1, <3>2
  <2> DEFINE p == ImageOpened(o)
  <2>3. IsFiniteSet({u} \cup {p}) /\ Cardinality({u} \cup {p}) <= 2
    <3>1. IsFiniteSet({u}) /\ Cardinality({u}) = 1
          BY FS_Singleton
    <3>2. /\ IsFiniteSet({u} \cup {p})
          /\ Cardinality({u} \cup {p}) = IF p \in {u} THEN Cardinality({u})
                                         ELSE Cardinality({u}) + 1
          BY <3>1, FS_AddElement
    <3>3. QED BY <3>1, <3>2
  <2>4. TimersOf(o) \in SUBSET ({u} \cup {p})
        BY <2>2
  <2> HIDE DEF p
  <2>5. /\ IsFiniteSet(TimersOf(o)) /\ Cardinality(TimersOf(o)) <= Cardinality({u} \cup {p})
        BY <2>3, <2>4, FS_Subset
  <2>6. Cardinality(TimersOf(o)) \in Nat /\ Cardinality({u} \cup {p}) \in Nat
        BY <2>3, <2>5, FS_CardinalityType
  <2>7. QED BY <2>3, <2>5, <2>6
<1>3. QED BY <1>1, <1>2

LEMMA FreshId ==
    ASSUME TimersInv, NEW o \in Owner
    PROVE  Fresh(o) \in Id /\ Fresh(o) /= NoId
<1> DEFINE W == {t.id : t \in TimersOf(o)}
           C == {t.id : t \in Range(calls)}
           S == {timer[o]} \cup W \cup C
<1>1. IsFiniteSet(W) /\ Cardinality(W) <= 2 /\ Cardinality(W) \in Nat
  <2>1. /\ IsFiniteSet(TimersOf(o)) /\ Cardinality(TimersOf(o)) <= 2
        /\ Cardinality(TimersOf(o)) \in Nat
        BY TimersOfFew, FS_CardinalityType
  <2>2. IsFiniteSet(W) /\ Cardinality(W) <= Cardinality(TimersOf(o)) /\ Cardinality(W) \in Nat
        BY <2>1, IdsOf, FS_CardinalityType
  <2>3. QED BY <2>1, <2>2
<1>2. IsFiniteSet(C) /\ Cardinality(C) <= MaxNest + 1 /\ Cardinality(C) \in Nat
  <2>1. /\ IsFiniteSet(Range(calls)) /\ Cardinality(Range(calls)) <= MaxNest + 1
        /\ Cardinality(Range(calls)) \in Nat
        BY CallsFinite, FS_CardinalityType DEF TimersInv
  <2>2. IsFiniteSet(C) /\ Cardinality(C) <= Cardinality(Range(calls)) /\ Cardinality(C) \in Nat
        BY <2>1, IdsOf, FS_CardinalityType
  <2>3. QED BY <2>1, <2>2, TimersAssumption
<1>3. Stored(o) \subseteq S
      BY DEF Stored, TimersOf
<1> HIDE DEF W, C
<1>4. IsFiniteSet(S) /\ Cardinality(S) \in Nat /\ Cardinality(S) <= MaxNest + 4
  <2>1. /\ IsFiniteSet(W \cup C)
        /\ Cardinality(W \cup C) = Cardinality(W) + Cardinality(C) - Cardinality(W \cap C)
        BY <1>1, <1>2, FS_Union
  <2>2. IsFiniteSet(W \cap C) /\ Cardinality(W \cap C) \in Nat /\ Cardinality(W \cup C) \in Nat
        BY <1>1, <2>1, FS_Subset, FS_CardinalityType
  <2>3. S = (W \cup C) \cup {timer[o]}
        OBVIOUS
  <2>4. IsFiniteSet(S) /\ Cardinality(S) <= Cardinality(W \cup C) + 1 /\ Cardinality(S) \in Nat
    <3>1. /\ IsFiniteSet(S)
          /\ Cardinality(S) = IF timer[o] \in W \cup C THEN Cardinality(W \cup C)
                              ELSE Cardinality(W \cup C) + 1
          BY <2>1, <2>3, FS_AddElement
    <3>2. QED BY <2>2, <3>1
  <2>5. QED BY <1>1, <1>2, <2>1, <2>2, <2>4, TimersAssumption
<1> HIDE DEF S
<1>5. IsFiniteSet(Id) /\ Cardinality(Id) = MaxNest + 5 /\ Id \subseteq Nat \ {NoId}
      BY FS_Interval, TimersAssumption DEF Id, MaxPress, NoId
<1>6. ~(Id \subseteq S)
  <2>1. Id \subseteq S => Cardinality(Id) <= Cardinality(S)
        BY <1>4, FS_Subset
  <2>2. QED BY <1>4, <1>5, <2>1, TimersAssumption
<1>7. Id \ Stored(o) \in SUBSET Nat /\ Id \ Stored(o) /= {}
      BY <1>3, <1>5, <1>6
<1>8. Min(Id \ Stored(o)) \in Id \ Stored(o)
      BY <1>7, MinOfNaturals
<1>9. QED BY <1>5, <1>8 DEF Fresh
-----------------------------------------------------------------------------
LEMMA TimersFacts ==
    ASSUME TimersInv
    PROVE  /\ TypeOK /\ Kinds /\ KnownIds /\ OneEach /\ Few
           /\ NoTimerOfTheDead /\ RepeatStopsOnRelease /\ RepeatRuns
           /\ waiting \subseteq Timer /\ timer \in [Owner -> Id \cup {NoId}]
           /\ calls \in Seq(Timer) /\ Len(calls) \in Nat /\ Len(calls) <= MaxNest + 1
           /\ DOMAIN calls = 1 .. Len(calls) /\ \A i \in 1 .. Len(calls) : calls[i] \in Timer
           /\ \A t \in waiting : t.ctx \in Owner /\ Exists(t.ctx)
           /\ \A i \in 1 .. Len(calls) : calls[i].ctx \in Owner /\ Exists(calls[i].ctx)
<1>1. /\ TypeOK /\ Kinds /\ KnownIds /\ OneEach /\ Few
      /\ NoTimerOfTheDead /\ RepeatStopsOnRelease /\ RepeatRuns
      BY DEF TimersInv
<1>2. /\ waiting \subseteq Timer /\ timer \in [Owner -> Id \cup {NoId}]
      /\ calls \in Seq(Timer) /\ Len(calls) <= MaxNest + 1
      BY <1>1 DEF TypeOK
<1>3. /\ Len(calls) \in Nat /\ DOMAIN calls = 1 .. Len(calls)
      /\ \A i \in 1 .. Len(calls) : calls[i] \in Timer
      BY <1>2
<1>4. \A t \in Timer : t.ctx \in Owner
      BY DEF Timer
<1>5. /\ \A t \in waiting : t.ctx \in Owner /\ Exists(t.ctx)
      /\ \A i \in 1 .. Len(calls) : calls[i].ctx \in Owner /\ Exists(calls[i].ctx)
      BY <1>1, <1>2, <1>3, <1>4 DEF NoTimerOfTheDead
<1>6. QED BY <1>1, <1>2, <1>3, <1>5

(* calls' is calls, without its last elements.                             *)
Shorter == /\ calls' \in Seq(Timer) /\ Len(calls') \in Nat /\ Len(calls') <= Len(calls)
           /\ DOMAIN calls' = 1 .. Len(calls')
           /\ \A i \in 1 .. Len(calls') : calls'[i] = calls[i]

(* The owners O give up the timers that they know, and have the timers add *)
(* instead.  kept is what else waits.                                      *)
Renews(O, kept, add) ==
    /\ kept \subseteq waiting /\ add \subseteq Timer
    /\ waiting' = kept \cup add
    /\ timer' \in [Owner -> Id \cup {NoId}]
    /\ \A q \in Owner \ O : timer'[q] = timer[q]
    /\ \A t \in kept : Known(t) => t.ctx \notin O
    /\ \A i \in 1 .. Len(calls') : Known(calls[i]) => calls[i].ctx \notin O
    /\ \A t \in add : /\ t.ctx \in O /\ Fits(t) /\ t.func /= "up" /\ t.id /= NoId
                      /\ Known(t) => t.id = timer'[t.ctx]
    /\ \A t, u \in add : t.ctx = u.ctx => t = u

LEMMA RenewsStep ==
    ASSUME TimersInv, NEW O, NEW kept, NEW add, Shorter, Renews(O, kept, add)
    PROVE  /\ Kinds' /\ KnownIds' /\ OneEach' /\ waiting' \subseteq Timer
           /\ Len(calls') <= MaxNest + 1
<1>1. /\ Len(calls') \in Nat /\ Len(calls') <= Len(calls) /\ Len(calls) \in Nat
      /\ \A i \in 1 .. Len(calls') : calls'[i] = calls[i] /\ i \in 1 .. Len(calls)
      /\ Len(calls) <= MaxNest + 1
      BY TimersFacts DEF Shorter
<1>2. Kinds'
  <2>1. \A t \in waiting' : Fits(t) /\ t.func /= "up" /\ t.id /= NoId
        BY TimersFacts DEF Renews, Kinds
  <2>2. \A i \in 1 .. Len(calls') : /\ Fits(calls'[i])
                                    /\ calls'[i].func /= "up" => calls'[i].id /= NoId
        BY <1>1, TimersFacts DEF Kinds
  <2>3. \A i \in 1 .. Len(calls') - 1 : i \in 1 .. Len(calls') /\ i \in 1 .. Len(calls) - 1
        BY <1>1
  <2>4. \A i \in 1 .. Len(calls') - 1 :
          calls'[i].func \in {"repeat", "update", "animate", "up"}
        BY <1>1, <2>3, TimersFacts DEF Kinds
  <2>5. QED BY <2>1, <2>2, <2>4 DEF Kinds, Fits, ImageOpened
<1>3. KnownIds'
  <2>1. ASSUME NEW t \in waiting', Known(t) PROVE timer'[t.ctx] = t.id
    <3>1. CASE t \in add
          BY <2>1, <3>1 DEF Renews
    <3>2. CASE t \in kept
      <4>1. t \in waiting /\ t.ctx \in Owner \ O
            BY <2>1, <3>2, TimersFacts DEF Renews
      <4>2. QED BY <2>1, <4>1, TimersFacts DEF Renews, KnownIds
    <3>3. QED BY <3>1, <3>2 DEF Renews
  <2>2. ASSUME NEW i \in 1 .. Len(calls'), Known(calls'[i])
        PROVE  timer'[calls'[i].ctx] = calls'[i].id
    <3>1. i \in 1 .. Len(calls) /\ calls'[i] = calls[i] /\ calls[i].ctx \in Owner \ O
          BY <1>1, <2>2, TimersFacts DEF Renews
    <3>2. QED BY <2>2, <3>1, TimersFacts DEF Renews, KnownIds
  <2>3. QED BY <2>1, <2>2 DEF KnownIds, Known
<1>4. OneEach'
  <2>1. \A t, u \in waiting' : Known(t) /\ Known(u) /\ t.ctx = u.ctx => t = u
        BY TimersFacts DEF Renews, OneEach
  <2>2. \A t \in waiting', i \in 1 .. Len(calls') :
          Known(t) /\ Known(calls'[i]) => t.ctx /= calls'[i].ctx
        BY <1>1, TimersFacts DEF Renews, OneEach
  <2>3. \A i, j \in 1 .. Len(calls') :
          i /= j /\ Known(calls'[i]) /\ Known(calls'[j]) => calls'[i].ctx /= calls'[j].ctx
        BY <1>1, TimersFacts DEF OneEach
  <2>4. QED BY <2>1, <2>2, <2>3 DEF OneEach, Known
<1>5. waiting' \subseteq Timer
      BY TimersFacts DEF Renews
<1>6. QED BY <1>1, <1>2, <1>3, <1>4, <1>5, TimersAssumption

LEMMA FewStep ==
    ASSUME TimersInv, NEW kept, NEW add, kept \subseteq waiting, waiting' = kept \cup add,
           \A t \in add : t.ctx \notin Item
    PROVE  Few'
<1> SUFFICES ASSUME NEW l \in Item
             PROVE  IsFiniteSet(TimersOf(l)') /\ Cardinality(TimersOf(l)') <= MaxPress
    BY DEF Few
<1>1. TimersOf(l)' \in SUBSET TimersOf(l)
      BY DEF TimersOf
<1>2. IsFiniteSet(TimersOf(l)) /\ Cardinality(TimersOf(l)) <= MaxPress
      BY TimersFacts DEF Few
<1>3. IsFiniteSet(TimersOf(l)') /\ Cardinality(TimersOf(l)') <= Cardinality(TimersOf(l))
      BY <1>1, <1>2, FS_Subset
<1>4. Cardinality(TimersOf(l)') \in Nat /\ Cardinality(TimersOf(l)) \in Nat
      BY <1>2, <1>3, FS_CardinalityType
<1>5. QED BY <1>2, <1>3, <1>4 DEF MaxPress

(* The owners that are not freed after a step.                             *)
StillExists(o) == IF o \in Animator THEN anim'[o] /= None /\ anim'[o] \in alive'
                  ELSE o \in alive'

(* No owner that still has a timer is freed.                               *)
LEMMA DeadStep ==
    ASSUME TimersInv, NEW kept, NEW add, Shorter,
           kept \subseteq waiting, waiting' = kept \cup add,
           \A t \in kept : StillExists(t.ctx), \A t \in add : StillExists(t.ctx),
           \A i \in 1 .. Len(calls') : StillExists(calls[i].ctx)
    PROVE  NoTimerOfTheDead'
<1>1. DOMAIN calls' = 1 .. Len(calls') /\ \A i \in 1 .. Len(calls') : calls'[i] = calls[i]
      BY DEF Shorter
<1>2. \A t \in waiting' : Exists(t.ctx)'
      BY DEF StillExists, Exists
<1>3. ASSUME NEW i \in 1 .. Len(calls') PROVE Exists(calls[i].ctx)'
      BY <1>1 DEF StillExists, Exists
<1>4. QED BY <1>1, <1>2, <1>3 DEF NoTimerOfTheDead

(* Repeats when the presses and the releases stay as they are.             *)
LEMMA RepeatStep ==
    ASSUME TimersInv, NEW kept, NEW add, Shorter,
           kept \subseteq waiting, waiting' = kept \cup add, pressed' = pressed,
           \A i \in Len(calls') + 1 .. Len(calls) : calls[i].func /= "up",
           \A t \in add : t.func = "repeat" =>
             \/ t.ctx \in pressed
             \/ \E j \in 1 .. Len(calls') : calls[j].func = "up" /\ calls[j].ctx = t.ctx
    PROVE  RepeatStopsOnRelease' /\ RepeatRuns'
<1>1. /\ Len(calls') \in Nat /\ Len(calls') <= Len(calls) /\ Len(calls) \in Nat
      /\ DOMAIN calls' = 1 .. Len(calls') /\ DOMAIN calls = 1 .. Len(calls)
      /\ \A i \in 1 .. Len(calls') : calls'[i] = calls[i] /\ i \in 1 .. Len(calls)
      BY TimersFacts DEF Shorter
<1>2. RepeatRuns'
  <2> SUFFICES ASSUME NEW i \in 1 .. Len(calls'), calls'[i].func = "repeat"
      PROVE  /\ \/ calls'[i].ctx \in pressed
                \/ \E j \in 1 .. i - 1 : calls'[j].func = "up" /\ calls'[j].ctx = calls'[i].ctx
             /\ \A j \in i + 1 .. Len(calls') :
                  ~(calls'[j].func = "up" /\ calls'[j].ctx = calls'[i].ctx)
      BY DEF RepeatRuns
  <2>1. /\ \A j \in 1 .. i - 1 : j \in 1 .. Len(calls')
        /\ \A j \in i + 1 .. Len(calls') : j \in 1 .. Len(calls') /\ j \in i + 1 .. Len(calls)
        BY <1>1
  <2>2. calls'[i] = calls[i] /\ i \in 1 .. Len(calls)
        BY <1>1
  <2>3. /\ \/ calls[i].ctx \in pressed
           \/ \E j \in 1 .. i - 1 : calls[j].func = "up" /\ calls[j].ctx = calls[i].ctx
        /\ \A j \in i + 1 .. Len(calls) :
             ~(calls[j].func = "up" /\ calls[j].ctx = calls[i].ctx)
        BY <2>2, TimersFacts DEF RepeatRuns
  <2>4. QED BY <1>1, <2>1, <2>2, <2>3
<1>3. RepeatStopsOnRelease'
  <2> SUFFICES ASSUME NEW t \in waiting', t.func = "repeat"
               PROVE  \/ t.ctx \in pressed
                      \/ \E i \in 1 .. Len(calls') :
                           calls'[i].func = "up" /\ calls'[i].ctx = t.ctx
      BY <1>1 DEF RepeatStopsOnRelease, Runs
  <2>1. CASE t \in add
        BY <1>1, <2>1
  <2>2. CASE t \in kept
    <3>1. \/ t.ctx \in pressed
          \/ \E i \in 1 .. Len(calls) : calls[i].func = "up" /\ calls[i].ctx = t.ctx
          BY <1>1, <2>2, TimersFacts DEF RepeatStopsOnRelease, Runs
    <3>2. \A i \in 1 .. Len(calls) : i \in 1 .. Len(calls') \/ i \in Len(calls') + 1 .. Len(calls)
          BY <1>1
    <3>3. QED BY <1>1, <3>1, <3>2
  <2>3. QED BY <2>1, <2>2
<1>4. QED BY <1>2, <1>3

(* A step that leaves the widgets, the animators and the presses alone.    *)
LEMMA OwnerStep ==
    ASSUME TimersInv, NEW O, NEW kept, NEW add, Shorter, Renews(O, kept, add),
           alive' = alive, anim' = anim, pressed' = pressed,
           left' \in [Animator -> 0 .. Rounds], focused' \subseteq Edit,
           \A t \in add : t.ctx \notin Item /\ Exists(t.ctx),
           \A i \in Len(calls') + 1 .. Len(calls) : calls[i].func /= "up",
           \A t \in add : t.func = "repeat" =>
             \/ t.ctx \in pressed
             \/ \E j \in 1 .. Len(calls') : calls[j].func = "up" /\ calls[j].ctx = t.ctx
    PROVE  TimersInv'
<1>1. kept \subseteq waiting /\ waiting' = kept \cup add /\ timer' \in [Owner -> Id \cup {NoId}]
      BY DEF Renews
<1>2. /\ Kinds' /\ KnownIds' /\ OneEach' /\ waiting' \subseteq Timer
      /\ Len(calls') <= MaxNest + 1
      BY RenewsStep
<1>3. TypeOK'
      BY <1>1, <1>2, TimersFacts DEF TypeOK, Shorter
<1>4. Few'
      BY <1>1, FewStep
<1>5. NoTimerOfTheDead'
  <2>1. \A o : Exists(o) => StillExists(o)
        BY DEF Exists, StillExists
  <2>2. \A i \in 1 .. Len(calls') : i \in 1 .. Len(calls)
        BY TimersFacts DEF Shorter
  <2>3. /\ \A t \in kept : StillExists(t.ctx)
        /\ \A t \in add : StillExists(t.ctx)
        /\ \A i \in 1 .. Len(calls') : StillExists(calls[i].ctx)
        BY <1>1, <2>1, <2>2, TimersFacts
  <2>4. QED BY <1>1, <2>3, DeadStep
<1>6. RepeatStopsOnRelease' /\ RepeatRuns'
      BY <1>1, RepeatStep
<1>7. QED BY <1>2, <1>3, <1>4, <1>5, <1>6 DEF TimersInv

LEMMA SameCalls ==
    ASSUME TimersInv, calls' = calls
    PROVE  Shorter /\ Len(calls') + 1 .. Len(calls) = {}
<1>1. calls \in Seq(Timer) /\ Len(calls) \in Nat /\ DOMAIN calls = 1 .. Len(calls)
      BY TimersFacts
<1>2. QED BY <1>1 DEF Shorter

(* While a handler runs every function on the stack has called one.        *)
LEMMA InHandlers ==
    ASSUME TimersInv, HandlerRuns, NEW i \in 1 .. Len(calls)
    PROVE  calls[i].func \in {"repeat", "update", "animate", "up"}
<1>1. Len(calls) \in Nat /\ calls \in Seq(Timer) /\ Kinds
      BY TimersFacts
<1>2. CASE i = Len(calls)
      BY <1>1, <1>2 DEF HandlerRuns, Last
<1>3. CASE i /= Len(calls)
      BY <1>1, <1>3 DEF Kinds
<1>4. QED BY <1>2, <1>3

(* What an owner knows is what timer_remove takes away.                    *)
LEMMA WithoutDrops ==
    ASSUME TimersInv, NEW o \in Owner
    PROVE  Without(o) \subseteq waiting /\ \A t \in Without(o) : Known(t) => t.ctx /= o
BY TimersFacts DEF Without, KnownIds

LEMMA NewTimer ==
    ASSUME TimersInv, NEW o \in Owner, NEW func \in Func
    PROVE  /\ New(func, o) \in Timer /\ New(func, o).ctx = o /\ New(func, o).func = func
           /\ New(func, o).id = Fresh(o) /\ New(func, o).id /= NoId
BY FreshId DEF New, Timer

(* An owner without an id knows no timer.                                  *)
LEMMA NoIdNoTimer ==
    ASSUME TimersInv, NEW o \in Owner, timer[o] = NoId
    PROVE  /\ \A t \in waiting : Known(t) => t.ctx /= o
           /\ \A i \in 1 .. Len(calls) : Known(calls[i]) => calls[i].ctx /= o
BY TimersFacts DEF KnownIds, Kinds, Known

(* Three ways to renew: with a new timer, ...                              *)
LEMMA RenewsNew ==
    ASSUME TimersInv, NEW o \in Owner, NEW func \in Func \ {"up"}, NEW kept,
           kept \subseteq waiting, waiting' = kept \cup {New(func, o)},
           timer' = [timer EXCEPT ![o] = Fresh(o)], Fits(New(func, o)),
           \A t \in kept : Known(t) => t.ctx /= o,
           \A i \in 1 .. Len(calls') : Known(calls[i]) => calls[i].ctx /= o
    PROVE  /\ Renews({o}, kept, {New(func, o)})
           /\ New(func, o).ctx = o /\ New(func, o).func = func
<1> DEFINE n == New(func, o)
<1>1. /\ n \in Timer /\ n.ctx = o /\ n.func = func /\ n.id = Fresh(o) /\ n.id /= NoId
      /\ Fresh(o) \in Id
      BY NewTimer, FreshId
<1> HIDE DEF n
<1>2. /\ timer' \in [Owner -> Id \cup {NoId}] /\ timer'[o] = Fresh(o)
      /\ \A q \in Owner \ {o} : timer'[q] = timer[q]
      BY <1>1, TimersFacts
<1>3. Renews({o}, kept, {n})
      BY <1>1, <1>2 DEF Renews, n
<1>4. QED BY <1>1, <1>3 DEF n

(* ... with none, ...                                                      *)
LEMMA RenewsNone ==
    ASSUME TimersInv, NEW o \in Owner, NEW kept, kept \subseteq waiting, waiting' = kept,
           timer' = [timer EXCEPT ![o] = NoId],
           \A t \in kept : Known(t) => t.ctx /= o,
           \A i \in 1 .. Len(calls') : Known(calls[i]) => calls[i].ctx /= o
    PROVE  Renews({o}, kept, {})
<1>1. /\ timer' \in [Owner -> Id \cup {NoId}]
      /\ \A q \in Owner \ {o} : timer'[q] = timer[q]
      BY TimersFacts
<1>2. QED BY <1>1 DEF Renews

(* ... or not at all.                                                      *)
LEMMA RenewsNothing ==
    ASSUME TimersInv, timer' = timer, waiting' = waiting
    PROVE  Renews({}, waiting, {})
BY TimersFacts DEF Renews

LEMMA Kind ==
    /\ \A o \in Button : o \in Owner /\ o \notin Item /\ o \notin Animator
    /\ \A o \in Edit : o \in Owner /\ o \notin Item /\ o \notin Animator
    /\ \A o \in Item : o \in Owner /\ o \notin Animator
    /\ \A o \in Image : o \in Owner /\ o \notin Item /\ o \notin Animator
    /\ \A o \in Slide : o \in Owner /\ o \notin Item /\ o \notin Animator
    /\ \A o \in Animator : o \in Owner /\ o \notin Item /\ o \notin Widget
    /\ \A o \in Widget : o \in Owner /\ o \notin Animator
BY TimersAssumption DEF Owner, Widget

(* The functions of each kind, read from the owner.                        *)
LEMMA KindFunc ==
    ASSUME NEW t, Fits(t)
    PROVE  /\ t.ctx \in Button => t.func \in {"repeat", "up"}
           /\ t.ctx \in Edit => t.func = "caret"
           /\ t.ctx \in Item => t.func = "press"
           /\ t.ctx \in Image => t.func \in {"update", "play"}
           /\ t.ctx \in Slide => t.func = "next"
           /\ t.ctx \in Animator => t.func \in {"animate", "delay"}
<1>1. \A i : ImageOpened(i).func = "play"
      BY DEF ImageOpened
<1>2. QED BY <1>1, TimersAssumption DEF Fits, Widget

(* And from the function.                                                  *)
LEMMA FuncKind ==
    ASSUME NEW t, Fits(t)
    PROVE  /\ t.func \in {"repeat", "up"} => t.ctx \in Button
           /\ t.func = "caret" => t.ctx \in Edit
           /\ t.func = "press" => t.ctx \in Item
           /\ t.func \in {"update", "play"} => t.ctx \in Image
           /\ t.func = "next" => t.ctx \in Slide
           /\ t.func \in {"animate", "delay"} => t.ctx \in Animator
<1>1. \A i : ImageOpened(i).func = "play"
      BY DEF ImageOpened
<1>2. QED BY <1>1 DEF Fits
-----------------------------------------------------------------------------
LEMMA EditStep ==
    ASSUME TimersInv, NEW e \in Edit, EditDown(e) \/ EditBlur(e)
    PROVE  TimersInv'
<1>1. /\ calls' = calls /\ alive' = alive /\ anim' = anim /\ pressed' = pressed /\ left' = left
      /\ focused' \subseteq Edit /\ left \in [Animator -> 0 .. Rounds]
      /\ e \in Owner /\ e \notin Item /\ e \notin Animator
      BY TimersFacts, Kind DEF EditDown, EditBlur, TypeOK
<1>2. Shorter /\ Len(calls') + 1 .. Len(calls) = {}
      BY <1>1, SameCalls
<1>3. CASE timer' = timer /\ waiting' = waiting
      BY <1>1, <1>2, <1>3, RenewsNothing, OwnerStep
<1>4. CASE EditDown(e) /\ timer[e] = NoId
  <2>1. /\ timer' = [timer EXCEPT ![e] = Fresh(e)]
        /\ waiting' = waiting \cup {New("caret", e)} /\ Exists(e)
        BY <1>1, <1>4 DEF EditDown, AddTimer, Exists
  <2>2. Fits(New("caret", e))
        BY DEF Fits, New
  <2>3. /\ Renews({e}, waiting, {New("caret", e)})
        /\ New("caret", e).ctx = e /\ New("caret", e).func = "caret"
        BY <1>1, <1>4, <2>1, <2>2, NoIdNoTimer, RenewsNew DEF Func
  <2>4. QED BY <1>1, <1>2, <2>1, <2>3, OwnerStep
<1>5. QED BY <1>3, <1>4 DEF EditDown, EditBlur

LEMMA ImageStep ==
    ASSUME TimersInv, Patient, NEW i \in Image, ImagePlay(i) \/ ImagePause(i)
    PROVE  TimersInv'
<1>1. /\ calls' = calls /\ alive' = alive /\ anim' = anim /\ pressed' = pressed /\ left' = left
      /\ focused' \subseteq Edit /\ left \in [Animator -> 0 .. Rounds]
      /\ i \in Owner /\ i \notin Item /\ i \notin Animator /\ Exists(i)
      BY TimersFacts, Kind DEF ImagePlay, ImagePause, TypeOK, Exists
<1>2. Shorter /\ Len(calls') + 1 .. Len(calls) = {}
      BY <1>1, SameCalls
<1>3. CASE timer' = timer /\ waiting' = waiting
      BY <1>1, <1>2, <1>3, RenewsNothing, OwnerStep
<1>4. CASE ImagePlay(i) /\ timer[i] = NoId
  <2>1. /\ timer' = [timer EXCEPT ![i] = Fresh(i)]
        /\ waiting' = waiting \cup {New("update", i)}
        BY <1>4 DEF ImagePlay, Play, AddTimer
  <2>2. Fits(New("update", i))
        BY DEF Fits, New
  <2>3. /\ Renews({i}, waiting, {New("update", i)})
        /\ New("update", i).ctx = i /\ New("update", i).func = "update"
        BY <1>1, <1>4, <2>1, <2>2, NoIdNoTimer, RenewsNew DEF Func
  <2>4. QED BY <1>1, <1>2, <2>3, OwnerStep
<1>5. CASE ImagePause(i)
  <2>1. \A j \in 1 .. Len(calls) : Known(calls[j]) => calls[j].ctx /= i
    <3> SUFFICES ASSUME NEW j \in 1 .. Len(calls), Known(calls[j]), calls[j].ctx = i PROVE FALSE
        OBVIOUS
    <3>1. calls[j].func = "update"
          BY TimersFacts, KindFunc DEF Kinds, Known
    <3>2. QED BY <1>5, <3>1, TimersFacts DEF ImagePause, Runs
  <2>2. Renews({i}, Without(i), {})
        BY <1>1, <1>5, <2>1, WithoutDrops, RenewsNone DEF ImagePause, DropTimer
  <2>3. QED BY <1>1, <1>2, <2>2, OwnerStep
<1>6. QED BY <1>3, <1>4, <1>5 DEF ImagePlay, Play

LEMMA SlideStep ==
    ASSUME TimersInv, NEW s \in Slide, NEW on \in BOOLEAN, SlideAutoPlay(s, on)
    PROVE  TimersInv'
<1>1. /\ calls' = calls /\ alive' = alive /\ anim' = anim /\ pressed' = pressed /\ left' = left
      /\ focused' \subseteq Edit /\ left \in [Animator -> 0 .. Rounds] /\ HandlerRuns
      /\ s \in Owner /\ s \notin Item /\ s \notin Animator /\ Exists(s)
      BY TimersFacts, Kind DEF SlideAutoPlay, TypeOK, Exists
<1>2. Shorter /\ Len(calls') + 1 .. Len(calls) = {}
      BY <1>1, SameCalls
<1>3. \A j \in 1 .. Len(calls) : Known(calls[j]) => calls[j].ctx /= s
  <2> SUFFICES ASSUME NEW j \in 1 .. Len(calls), calls[j].ctx = s PROVE FALSE
      OBVIOUS
  <2>1. calls[j].func = "next"
        BY TimersFacts, KindFunc DEF Kinds
  <2>2. QED BY <1>1, <2>1, InHandlers
<1>4. CASE on
  <2>1. /\ timer' = [timer EXCEPT ![s] = Fresh(s)]
        /\ waiting' = Without(s) \cup {New("next", s)}
        BY <1>4 DEF SlideAutoPlay
  <2>2. Fits(New("next", s))
        BY DEF Fits, New
  <2>3. /\ Renews({s}, Without(s), {New("next", s)})
        /\ New("next", s).ctx = s /\ New("next", s).func = "next"
        BY <1>1, <1>3, <2>1, <2>2, WithoutDrops, RenewsNew DEF Func
  <2>4. QED BY <1>1, <1>2, <2>3, OwnerStep
<1>5. CASE ~on
  <2>1. timer' = [timer EXCEPT ![s] = NoId] /\ waiting' = Without(s)
        BY <1>5 DEF SlideAutoPlay
  <2>2. Renews({s}, Without(s), {})
        BY <1>1, <1>3, <2>1, WithoutDrops, RenewsNone
  <2>3. QED BY <1>1, <1>2, <2>2, OwnerStep
<1>6. QED BY <1>4, <1>5

LEMMA ItemStep ==
    ASSUME TimersInv, NEW l \in Item, ItemDown(l) \/ ItemAbort(l)
    PROVE  TimersInv'
<1>1. /\ calls' = calls /\ alive' = alive /\ anim' = anim /\ pressed' = pressed /\ left' = left
      /\ focused' \subseteq Edit /\ left \in [Animator -> 0 .. Rounds] /\ focused' = focused
      /\ l \in Owner /\ l \notin Animator /\ Exists(l)
      BY TimersFacts, Kind DEF ItemDown, ItemAbort, TypeOK, Exists
<1>2. Shorter /\ Len(calls') + 1 .. Len(calls) = {}
      BY <1>1, SameCalls
<1>3. /\ \A t \in waiting : Known(t) => t.ctx /= l
      /\ \A j \in 1 .. Len(calls) : Known(calls[j]) => calls[j].ctx /= l
      BY TimersFacts, KindFunc DEF Kinds, Known
<1>4. CASE ItemAbort(l)
  <2>1. Renews({l}, Without(l), {})
        BY <1>1, <1>3, <1>4, WithoutDrops, RenewsNone DEF ItemAbort, DropTimer
  <2>2. QED BY <1>1, <1>2, <2>1, OwnerStep
<1>5. CASE ItemDown(l)
  <2> DEFINE n == New("press", l)
  <2>1. /\ timer' = [timer EXCEPT ![l] = Fresh(l)] /\ waiting' = waiting \cup {n}
        /\ Cardinality(TimersOf(l)) < MaxPress
        BY <1>5 DEF ItemDown, AddTimer, TimersOf
  <2>2. Fits(n)
        BY DEF Fits, New
  <2>3. Renews({l}, waiting, {n}) /\ n.ctx = l /\ n.func = "press"
        BY <1>1, <1>3, <2>1, <2>2, RenewsNew DEF Func
  <2> HIDE DEF n
  <2>4. /\ Kinds' /\ KnownIds' /\ OneEach' /\ waiting' \subseteq Timer
        /\ Len(calls') <= MaxNest + 1
        BY <1>2, <2>3, RenewsStep
  <2>5. TypeOK'
        BY <1>1, <2>3, <2>4, TimersFacts DEF TypeOK, Renews
  <2>6. Few'
    <3> SUFFICES ASSUME NEW k \in Item
                 PROVE  IsFiniteSet(TimersOf(k)') /\ Cardinality(TimersOf(k)') <= MaxPress
        BY DEF Few
    <3>1. IsFiniteSet(TimersOf(k)) /\ Cardinality(TimersOf(k)) <= MaxPress
          /\ Cardinality(TimersOf(k)) \in Nat
          BY TimersFacts, FS_CardinalityType DEF Few
    <3>2. CASE k /= l
      <4>1. TimersOf(k)' = TimersOf(k)
            BY <2>1, <2>3, <3>2 DEF TimersOf
      <4>2. QED BY <3>1, <4>1
    <3>3. CASE k = l
      <4>1. TimersOf(k)' = TimersOf(k) \cup {n}
            BY <2>1, <2>3, <3>3 DEF TimersOf
      <4>2. /\ IsFiniteSet(TimersOf(k) \cup {n})
            /\ Cardinality(TimersOf(k) \cup {n}) = IF n \in TimersOf(k) THEN Cardinality(TimersOf(k))
                                                   ELSE Cardinality(TimersOf(k)) + 1
            BY <3>1, FS_AddElement
      <4>3. QED BY <2>1, <3>1, <3>3, <4>1, <4>2 DEF MaxPress
    <3>4. QED BY <3>2, <3>3
  <2>7. NoTimerOfTheDead'
    <3>1. \A o : Exists(o) => StillExists(o)
          BY <1>1 DEF Exists, StillExists
    <3>2. QED BY <1>1, <1>2, <2>1, <2>3, <3>1, TimersFacts, DeadStep
  <2>8. RepeatStopsOnRelease' /\ RepeatRuns'
    <3> DEFINE kept == waiting
               add == {n}
    <3>1. /\ Shorter /\ kept \subseteq waiting /\ waiting' = kept \cup add /\ pressed' = pressed
          /\ \A i \in Len(calls') + 1 .. Len(calls) : calls[i].func /= "up"
          /\ \A t \in add : t.func /= "repeat"
          BY <1>1, <1>2, <2>1, <2>3
    <3> HIDE DEF kept, add
    <3>2. QED BY <3>1, RepeatStep
  <2>9. QED BY <2>4, <2>5, <2>6, <2>7, <2>8 DEF TimersInv
<1>6. QED BY <1>4, <1>5
-----------------------------------------------------------------------------
(* Repeats when the press of one button changes: it has no repeat any more *)
(* that waits or runs, except a new one.                                   *)
LEMMA ReleaseStep ==
    ASSUME TimersInv, NEW b, NEW kept, NEW add, Shorter,
           kept \subseteq waiting, waiting' = kept \cup add,
           \A q \in pressed : q /= b => q \in pressed',
           \A t \in kept : t.func = "repeat" => t.ctx /= b,
           \A i \in 1 .. Len(calls') : calls[i].func = "repeat" => calls[i].ctx /= b,
           \A i \in Len(calls') + 1 .. Len(calls) : calls[i].func = "up" => calls[i].ctx = b,
           \A t \in add : t.func = "repeat" => t.ctx \in pressed'
    PROVE  RepeatStopsOnRelease' /\ RepeatRuns'
<1>1. /\ Len(calls') \in Nat /\ Len(calls') <= Len(calls) /\ Len(calls) \in Nat
      /\ DOMAIN calls' = 1 .. Len(calls') /\ DOMAIN calls = 1 .. Len(calls)
      /\ \A i \in 1 .. Len(calls') : calls'[i] = calls[i] /\ i \in 1 .. Len(calls)
      BY TimersFacts DEF Shorter
<1>2. RepeatRuns'
  <2> SUFFICES ASSUME NEW i \in 1 .. Len(calls'), calls'[i].func = "repeat"
      PROVE  /\ \/ calls'[i].ctx \in pressed'
                \/ \E j \in 1 .. i - 1 : calls'[j].func = "up" /\ calls'[j].ctx = calls'[i].ctx
             /\ \A j \in i + 1 .. Len(calls') :
                  ~(calls'[j].func = "up" /\ calls'[j].ctx = calls'[i].ctx)
      BY DEF RepeatRuns
  <2>1. /\ \A j \in 1 .. i - 1 : j \in 1 .. Len(calls')
        /\ \A j \in i + 1 .. Len(calls') : j \in 1 .. Len(calls') /\ j \in i + 1 .. Len(calls)
        BY <1>1
  <2>2. calls'[i] = calls[i] /\ i \in 1 .. Len(calls) /\ calls[i].ctx /= b
        BY <1>1
  <2>3. /\ \/ calls[i].ctx \in pressed
           \/ \E j \in 1 .. i - 1 : calls[j].func = "up" /\ calls[j].ctx = calls[i].ctx
        /\ \A j \in i + 1 .. Len(calls) :
             ~(calls[j].func = "up" /\ calls[j].ctx = calls[i].ctx)
        BY <2>2, TimersFacts DEF RepeatRuns
  <2>4. QED BY <1>1, <2>1, <2>2, <2>3
<1>3. RepeatStopsOnRelease'
  <2> SUFFICES ASSUME NEW t \in waiting', t.func = "repeat"
               PROVE  \/ t.ctx \in pressed'
                      \/ \E i \in 1 .. Len(calls') :
                           calls'[i].func = "up" /\ calls'[i].ctx = t.ctx
      BY <1>1 DEF RepeatStopsOnRelease, Runs
  <2>1. CASE t \in add
        BY <2>1
  <2>2. CASE t \in kept
    <3>1. /\ t.ctx /= b
          /\ \/ t.ctx \in pressed
             \/ \E i \in 1 .. Len(calls) : calls[i].func = "up" /\ calls[i].ctx = t.ctx
          BY <1>1, <2>2, TimersFacts DEF RepeatStopsOnRelease, Runs
    <3>2. \A i \in 1 .. Len(calls) : i \in 1 .. Len(calls') \/ i \in Len(calls') + 1 .. Len(calls)
          BY <1>1
    <3>3. QED BY <1>1, <3>1, <3>2
  <2>3. QED BY <2>1, <2>2
<1>4. QED BY <1>2, <1>3

(* A step of one button that exists.                                       *)
LEMMA PressStep ==
    ASSUME TimersInv, NEW b \in Button, NEW kept, NEW add, Shorter, Renews({b}, kept, add),
           alive' = alive, anim' = anim, left' = left, focused' = focused, Exists(b),
           pressed' \subseteq Button, \A q \in pressed : q /= b => q \in pressed',
           \A i \in Len(calls') + 1 .. Len(calls) : calls[i].func = "up" => calls[i].ctx = b,
           \A t \in add : t.func = "repeat" => t.ctx \in pressed'
    PROVE  TimersInv'
<1>1. /\ kept \subseteq waiting /\ waiting' = kept \cup add /\ timer' \in [Owner -> Id \cup {NoId}]
      /\ \A t \in add : t.ctx = b
      /\ \A t \in kept : Known(t) => t.ctx /= b
      /\ \A i \in 1 .. Len(calls') : Known(calls[i]) => calls[i].ctx /= b
      BY DEF Renews
<1>2. /\ Kinds' /\ KnownIds' /\ OneEach' /\ waiting' \subseteq Timer
      /\ Len(calls') <= MaxNest + 1
      BY RenewsStep
<1>3. TypeOK'
      BY <1>1, <1>2, TimersFacts DEF TypeOK, Shorter
<1>4. Few'
  <2>1. \A t \in add : t.ctx \notin Item
        BY <1>1, Kind
  <2>2. QED BY <1>1, <2>1, FewStep
<1>5. NoTimerOfTheDead'
  <2>1. \A o : Exists(o) => StillExists(o)
        BY DEF Exists, StillExists
  <2>2. \A i \in 1 .. Len(calls') : i \in 1 .. Len(calls)
        BY TimersFacts DEF Shorter
  <2>3. /\ \A t \in kept : StillExists(t.ctx)
        /\ \A t \in add : StillExists(t.ctx)
        /\ \A i \in 1 .. Len(calls') : StillExists(calls[i].ctx)
        BY <1>1, <2>1, <2>2, TimersFacts
  <2>4. QED BY <1>1, <2>3, DeadStep
<1>6. RepeatStopsOnRelease' /\ RepeatRuns'
  <2>1. /\ \A t \in kept : t.func = "repeat" => t.ctx /= b
        /\ \A i \in 1 .. Len(calls') : calls[i].func = "repeat" => calls[i].ctx /= b
        BY <1>1 DEF Known
  <2>2. QED BY <1>1, <2>1, ReleaseStep
<1>7. QED BY <1>2, <1>3, <1>4, <1>5, <1>6 DEF TimersInv

(* button_on_event, except the release.                                    *)
LEMMA ButtonStep ==
    ASSUME TimersInv, Patient, NEW b \in Button, ButtonDown(b) \/ ButtonAbort(b)
    PROVE  TimersInv'
<1>1. /\ calls' = calls /\ alive' = alive /\ anim' = anim /\ left' = left /\ focused' = focused
      /\ b \in Owner /\ b \notin Animator /\ Exists(b) /\ ~Runs("repeat", b)
      /\ pressed \subseteq Button
      BY TimersFacts, Kind DEF ButtonDown, ButtonAbort, MayPress, TypeOK, Exists
<1>2. Shorter /\ Len(calls') + 1 .. Len(calls) = {}
      BY <1>1, SameCalls
<1>3. \A j \in 1 .. Len(calls) : Known(calls[j]) => calls[j].ctx /= b
  <2> SUFFICES ASSUME NEW j \in 1 .. Len(calls), Known(calls[j]), calls[j].ctx = b PROVE FALSE
      OBVIOUS
  <2>1. calls[j].func = "repeat"
        BY TimersFacts, KindFunc DEF Kinds, Known
  <2>2. QED BY <1>1, <2>1, TimersFacts DEF Runs
<1>4. CASE ButtonDown(b)
  <2>1. /\ timer' = [timer EXCEPT ![b] = Fresh(b)] /\ pressed' = pressed \cup {b}
        /\ waiting' = Without(b) \cup {New("repeat", b)}
        BY <1>4 DEF ButtonDown
  <2>2. Fits(New("repeat", b))
        BY DEF Fits, New
  <2>3. Renews({b}, Without(b), {New("repeat", b)}) /\ New("repeat", b).ctx = b
        BY <1>1, <1>3, <2>1, <2>2, WithoutDrops, RenewsNew DEF Func
  <2>4. QED BY <1>1, <1>2, <2>1, <2>3, PressStep
<1>5. CASE ButtonAbort(b)
  <2>1. pressed' = pressed \ {b}
        BY <1>5 DEF ButtonAbort
  <2>2. Renews({b}, Without(b), {})
        BY <1>1, <1>3, <1>5, WithoutDrops, RenewsNone DEF ButtonAbort, DropTimer
  <2>3. QED BY <1>1, <1>2, <2>1, <2>2, PressStep
<1>6. QED BY <1>4, <1>5
-----------------------------------------------------------------------------
(* A function or a release starts to run, above the handlers that run.     *)
LEMMA CallStep ==
    ASSUME TimersInv, HandlerRuns, NEW c \in Timer, Len(calls) <= MaxNest,
           calls' = Append(calls, c), waiting' \subseteq waiting, timer' = timer,
           alive' = alive, anim' = anim, left' = left, focused' = focused,
           pressed' \subseteq Button,
           Fits(c), c.func /= "up" => c.id /= NoId, Exists(c.ctx),
           Known(c) => /\ timer[c.ctx] = c.id
                       /\ \A t \in waiting' : Known(t) => t.ctx /= c.ctx
                       /\ \A i \in 1 .. Len(calls) : Known(calls[i]) => calls[i].ctx /= c.ctx
    PROVE  TypeOK' /\ Kinds' /\ KnownIds' /\ OneEach' /\ Few' /\ NoTimerOfTheDead'
<1>1. Len(calls) \in Nat /\ calls \in Seq(Timer)
      BY TimersFacts
<1>2. /\ calls' \in Seq(Timer) /\ Len(calls') = Len(calls) + 1 /\ Len(calls') \in Nat
      /\ DOMAIN calls' = 1 .. Len(calls') /\ calls'[Len(calls) + 1] = c
      /\ \A i \in 1 .. Len(calls) : calls'[i] = calls[i]
      BY <1>1
<1>3. \A i \in 1 .. Len(calls') : i \in 1 .. Len(calls) \/ i = Len(calls) + 1
      BY <1>1, <1>2
<1>4. TypeOK'
  <2>1. Len(calls') <= MaxNest + 1
        BY <1>1, <1>2, TimersAssumption
  <2>2. QED BY <1>2, <2>1, TimersFacts DEF TypeOK
<1>5. Kinds'
  <2>1. \A t \in waiting' : Fits(t) /\ t.func /= "up" /\ t.id /= NoId
        BY TimersFacts DEF Kinds
  <2>2. \A i \in 1 .. Len(calls') : /\ Fits(calls'[i])
                                    /\ calls'[i].func /= "up" => calls'[i].id /= NoId
        BY <1>2, <1>3, TimersFacts DEF Kinds
  <2>3. \A i \in 1 .. Len(calls') - 1 : i \in 1 .. Len(calls)
        BY <1>1, <1>2
  <2>4. \A i \in 1 .. Len(calls') - 1 :
          calls'[i].func \in {"repeat", "update", "animate", "up"}
        BY <1>2, <2>3, InHandlers
  <2>5. QED BY <2>1, <2>2, <2>4 DEF Kinds, Fits, ImageOpened
<1>6. KnownIds'
  <2>1. \A t \in waiting' : Known(t) => timer[t.ctx] = t.id
        BY TimersFacts DEF KnownIds
  <2>2. \A i \in 1 .. Len(calls') : Known(calls'[i]) => timer[calls'[i].ctx] = calls'[i].id
        BY <1>2, <1>3, TimersFacts DEF KnownIds
  <2>3. QED BY <2>1, <2>2 DEF KnownIds, Known
<1>7. OneEach'
  <2>1. \A t, u \in waiting' : Known(t) /\ Known(u) /\ t.ctx = u.ctx => t = u
        BY TimersFacts DEF OneEach
  <2>2. \A t \in waiting', i \in 1 .. Len(calls') :
          Known(t) /\ Known(calls'[i]) => t.ctx /= calls'[i].ctx
        BY <1>2, <1>3, TimersFacts DEF OneEach
  <2>3. \A i, j \in 1 .. Len(calls') :
          i /= j /\ Known(calls'[i]) /\ Known(calls'[j]) => calls'[i].ctx /= calls'[j].ctx
        BY <1>2, <1>3, TimersFacts DEF OneEach
  <2>4. QED BY <2>1, <2>2, <2>3 DEF OneEach, Known
<1>8. Few'
  <2>1. PICK kept : kept = waiting'
        OBVIOUS
  <2>2. PICK add : add = {}
        OBVIOUS
  <2>3. /\ kept \subseteq waiting /\ waiting' = kept \cup add
        /\ \A t \in add : t.ctx \notin Item
        BY <2>1, <2>2
  <2>4. QED BY <2>3, FewStep
<1>9. NoTimerOfTheDead'
  <2>1. \A o : Exists(o)' = Exists(o)
        BY DEF Exists
  <2>2. \A t \in waiting' : Exists(t.ctx)'
        BY <2>1, TimersFacts
  <2>3. \A i \in 1 .. Len(calls') : Exists(calls'[i].ctx)
        BY <1>2, <1>3, TimersFacts
  <2>4. QED BY <1>2, <2>1, <2>2, <2>3 DEF NoTimerOfTheDead, Exists
<1>10. QED BY <1>4, <1>5, <1>6, <1>7, <1>8, <1>9

(* The release of a button starts; no repeat of it is running.             *)
LEMMA ButtonUpStep ==
    ASSUME TimersInv, Patient, NEW b \in Button, ButtonUp(b)
    PROVE  TimersInv'
<1> DEFINE c == [id |-> NoId, func |-> "up", ctx |-> b]
<1>1. /\ calls' = Append(calls, c) /\ waiting' = waiting /\ timer' = timer
      /\ alive' = alive /\ anim' = anim /\ left' = left /\ focused' = focused
      /\ pressed' = pressed \ {b} /\ HandlerRuns /\ Len(calls) <= MaxNest
      /\ b \in Owner /\ Exists(b) /\ ~Runs("repeat", b) /\ pressed \subseteq Button
      BY TimersFacts, Kind DEF ButtonUp, MayPress, TypeOK, Exists
<1>2. /\ c \in Timer /\ c.func = "up" /\ c.ctx = b /\ Fits(c) /\ ~Known(c)
      BY <1>1 DEF Timer, Func, Fits, Known
<1> HIDE DEF c
<1>3. TypeOK' /\ Kinds' /\ KnownIds' /\ OneEach' /\ Few' /\ NoTimerOfTheDead'
      BY <1>1, <1>2, CallStep
<1>4. /\ Len(calls) \in Nat /\ DOMAIN calls = 1 .. Len(calls)
      /\ Len(calls') = Len(calls) + 1 /\ calls'[Len(calls) + 1] = c
      /\ DOMAIN calls' = 1 .. Len(calls')
      /\ \A i \in 1 .. Len(calls) : calls'[i] = calls[i] /\ i \in 1 .. Len(calls')
      BY <1>1, <1>2, TimersFacts
<1>5. \A i \in 1 .. Len(calls) : calls[i].func = "repeat" => calls[i].ctx /= b
      BY <1>1, <1>4 DEF Runs
<1>6. RepeatStopsOnRelease'
  <2> SUFFICES ASSUME NEW t \in waiting, t.func = "repeat"
               PROVE  \/ t.ctx \in pressed'
                      \/ \E i \in 1 .. Len(calls') :
                           calls'[i].func = "up" /\ calls'[i].ctx = t.ctx
      BY <1>1, <1>4 DEF RepeatStopsOnRelease, Runs
  <2>1. CASE t.ctx = b
    <3>1. Len(calls) + 1 \in 1 .. Len(calls')
          BY <1>4
    <3>2. QED BY <1>2, <1>4, <2>1, <3>1
  <2>2. CASE t.ctx /= b
        BY <1>1, <1>4, <2>2, TimersFacts DEF RepeatStopsOnRelease, Runs
  <2>3. QED BY <2>1, <2>2
<1>7. RepeatRuns'
  <2> SUFFICES ASSUME NEW i \in 1 .. Len(calls'), calls'[i].func = "repeat"
      PROVE  /\ \/ calls'[i].ctx \in pressed'
                \/ \E j \in 1 .. i - 1 : calls'[j].func = "up" /\ calls'[j].ctx = calls'[i].ctx
             /\ \A j \in i + 1 .. Len(calls') :
                  ~(calls'[j].func = "up" /\ calls'[j].ctx = calls'[i].ctx)
      BY DEF RepeatRuns
  <2>1. i \in 1 .. Len(calls) \/ i = Len(calls) + 1
        BY <1>4
  <2>2. i \in 1 .. Len(calls) /\ calls'[i] = calls[i] /\ calls[i].ctx /= b
        BY <1>2, <1>4, <1>5, <2>1
  <2>3. /\ \A j \in 1 .. i - 1 : j \in 1 .. Len(calls)
        /\ \A j \in i + 1 .. Len(calls') : j \in i + 1 .. Len(calls) \/ j = Len(calls) + 1
        /\ \A j \in i + 1 .. Len(calls) : j \in 1 .. Len(calls)
        BY <1>4, <2>2
  <2>4. /\ \/ calls[i].ctx \in pressed
           \/ \E j \in 1 .. i - 1 : calls[j].func = "up" /\ calls[j].ctx = calls[i].ctx
        /\ \A j \in i + 1 .. Len(calls) :
             ~(calls[j].func = "up" /\ calls[j].ctx = calls[i].ctx)
        BY <2>2, TimersFacts DEF RepeatRuns
  <2>5. QED BY <1>1, <1>2, <1>4, <2>2, <2>3, <2>4
<1>8. QED BY <1>3, <1>6, <1>7 DEF TimersInv

(* A timer starts to run; a repeat that waits belongs to a pressed button  *)
(* or to a release that is running already.                                *)
LEMMA FireStep ==
    ASSUME TimersInv, NEW t \in waiting, Fire(t)
    PROVE  TimersInv'
<1>1. /\ calls' = Append(calls, t) /\ waiting' = waiting \ {t} /\ timer' = timer
      /\ alive' = alive /\ anim' = anim /\ left' = left /\ focused' = focused
      /\ pressed' = pressed /\ HandlerRuns /\ Len(calls) <= MaxNest /\ pressed \subseteq Button
      BY TimersFacts DEF Fire, TypeOK
<1>2. /\ t \in Timer /\ t.func /= "up" /\ t.id /= NoId /\ Fits(t) /\ Exists(t.ctx)
      /\ Known(t) => timer[t.ctx] = t.id
      BY TimersFacts DEF Kinds, KnownIds
<1>3. Known(t) => /\ \A u \in waiting' : Known(u) => u.ctx /= t.ctx
                  /\ \A i \in 1 .. Len(calls) : Known(calls[i]) => calls[i].ctx /= t.ctx
      BY <1>1, TimersFacts DEF OneEach
<1>4. TypeOK' /\ Kinds' /\ KnownIds' /\ OneEach' /\ Few' /\ NoTimerOfTheDead'
      BY <1>1, <1>2, <1>3, CallStep
<1>5. /\ Len(calls) \in Nat /\ DOMAIN calls = 1 .. Len(calls)
      /\ Len(calls') = Len(calls) + 1 /\ calls'[Len(calls) + 1] = t
      /\ DOMAIN calls' = 1 .. Len(calls')
      /\ \A i \in 1 .. Len(calls) : calls'[i] = calls[i] /\ i \in 1 .. Len(calls')
      BY <1>1, <1>2, TimersFacts
<1>6. RepeatStopsOnRelease'
      BY <1>1, <1>5, TimersFacts DEF RepeatStopsOnRelease, Runs
<1>7. RepeatRuns'
  <2> SUFFICES ASSUME NEW i \in 1 .. Len(calls'), calls'[i].func = "repeat"
      PROVE  /\ \/ calls'[i].ctx \in pressed
                \/ \E j \in 1 .. i - 1 : calls'[j].func = "up" /\ calls'[j].ctx = calls'[i].ctx
             /\ \A j \in i + 1 .. Len(calls') :
                  ~(calls'[j].func = "up" /\ calls'[j].ctx = calls'[i].ctx)
      BY <1>1 DEF RepeatRuns
  <2>1. CASE i = Len(calls) + 1
    <3>1. i - 1 = Len(calls) /\ i + 1 .. Len(calls') = {}
          BY <1>5, <2>1
    <3>2. \/ t.ctx \in pressed
          \/ \E j \in 1 .. Len(calls) : calls[j].func = "up" /\ calls[j].ctx = t.ctx
          BY <1>5, <2>1, TimersFacts DEF RepeatStopsOnRelease, Runs
    <3>3. QED BY <1>5, <2>1, <3>1, <3>2
  <2>2. CASE i \in 1 .. Len(calls)
    <3>1. /\ \A j \in 1 .. i - 1 : j \in 1 .. Len(calls)
          /\ \A j \in i + 1 .. Len(calls') : j \in i + 1 .. Len(calls) \/ j = Len(calls) + 1
          /\ \A j \in i + 1 .. Len(calls) : j \in 1 .. Len(calls)
          BY <1>5, <2>2
    <3>2. /\ \/ calls[i].ctx \in pressed
             \/ \E j \in 1 .. i - 1 : calls[j].func = "up" /\ calls[j].ctx = calls[i].ctx
          /\ \A j \in i + 1 .. Len(calls) :
               ~(calls[j].func = "up" /\ calls[j].ctx = calls[i].ctx)
          BY <1>5, <2>2, TimersFacts DEF RepeatRuns
    <3>3. QED BY <1>2, <1>5, <2>2, <3>1, <3>2
  <2>3. QED BY <1>5, <2>1, <2>2
<1>8. QED BY <1>4, <1>6, <1>7 DEF TimersInv
-----------------------------------------------------------------------------
(* A step that creates or frees animators.                                 *)
LEMMA LifeStep ==
    ASSUME TimersInv, NEW O, NEW kept, NEW add, Shorter, Renews(O, kept, add),
           alive' = alive, pressed' = pressed, focused' = focused,
           anim' \in [Animator -> Widget \cup {None}], left' \in [Animator -> 0 .. Rounds],
           \A t \in add : t.ctx \notin Item /\ t.func /= "repeat" /\ StillExists(t.ctx),
           \A t \in kept : StillExists(t.ctx),
           \A i \in 1 .. Len(calls') : StillExists(calls[i].ctx),
           \A i \in Len(calls') + 1 .. Len(calls) : calls[i].func /= "up"
    PROVE  TimersInv'
<1>1. kept \subseteq waiting /\ waiting' = kept \cup add /\ timer' \in [Owner -> Id \cup {NoId}]
      BY DEF Renews
<1>2. /\ Kinds' /\ KnownIds' /\ OneEach' /\ waiting' \subseteq Timer
      /\ Len(calls') <= MaxNest + 1
      BY RenewsStep
<1>3. TypeOK'
      BY <1>1, <1>2, TimersFacts DEF TypeOK, Shorter
<1>4. Few'
      BY <1>1, FewStep
<1>5. NoTimerOfTheDead'
      BY <1>1, DeadStep
<1>6. RepeatStopsOnRelease' /\ RepeatRuns'
      BY <1>1, RepeatStep
<1>7. QED BY <1>2, <1>3, <1>4, <1>5, <1>6 DEF TimersInv

(* The other animators stay as they are.                                   *)
LEMMA OthersExist ==
    ASSUME TimersInv, NEW a \in Animator, NEW w, anim' = [anim EXCEPT ![a] = w], alive' = alive
    PROVE  /\ \A o \in Owner : o /= a /\ Exists(o) => StillExists(o)
           /\ w \in alive => StillExists(a)
           /\ w \in alive \cup {None} => anim' \in [Animator -> Widget \cup {None}]
<1>1. anim \in [Animator -> Widget \cup {None}] /\ alive \subseteq Widget
      BY TimersFacts DEF TypeOK
<1>2. \A x \in alive : x /= None
      BY <1>1, TimersAssumption DEF Owner
<1>3. QED BY <1>1, <1>2 DEF Exists, StillExists

(* An animator that does not exist has no timers.                          *)
LEMMA FreeAnimator ==
    ASSUME TimersInv, NEW a \in FreeAnimators
    PROVE  /\ a \in Animator /\ a \in Owner
           /\ \A t \in waiting : t.ctx /= a
           /\ \A i \in 1 .. Len(calls) : calls[i].ctx /= a
<1>1. a \in Animator /\ ~Exists(a)
      BY DEF FreeAnimators, Exists
<1>2. QED BY <1>1, TimersFacts, Kind

LEMMA AnimatorStartStep ==
    ASSUME TimersInv, NEW a \in Animator, NEW w \in Animated, AnimatorStart(a, w)
    PROVE  TimersInv'
<1>1. PICK func \in {"animate", "delay"} : Animate(a, w, func)
      BY DEF AnimatorStart
<1>2. /\ calls' = calls /\ alive' = alive /\ pressed' = pressed /\ focused' = focused
      /\ w \in alive /\ a \in FreeAnimators
      /\ anim' = [anim EXCEPT ![a] = w] /\ left' = [left EXCEPT ![a] = Rounds]
      /\ timer' = [timer EXCEPT ![a] = Fresh(a)] /\ waiting' = waiting \cup {New(func, a)}
      BY <1>1 DEF AnimatorStart, Animate
<1>3. Shorter /\ Len(calls') + 1 .. Len(calls) = {}
      BY <1>2, SameCalls
<1>4. /\ a \in Owner /\ a \notin Item
      /\ \A t \in waiting : t.ctx /= a
      /\ \A i \in 1 .. Len(calls) : calls[i].ctx /= a
      BY <1>2, FreeAnimator, Kind
<1>5. left' \in [Animator -> 0 .. Rounds]
  <2>1. Rounds \in 0 .. Rounds
        BY TimersAssumption
  <2>2. QED BY <1>2, <2>1, TimersFacts DEF TypeOK
<1>6. Fits(New(func, a))
      BY DEF Fits, New
<1>7. Renews({a}, waiting, {New(func, a)}) /\ New(func, a).ctx = a /\ New(func, a).func = func
  <2>1. /\ waiting \subseteq waiting
        /\ \A t \in waiting : Known(t) => t.ctx /= a
        /\ \A i \in 1 .. Len(calls') : Known(calls[i]) => calls[i].ctx /= a
        BY <1>2, <1>4
  <2>2. /\ a \in Owner /\ timer' = [timer EXCEPT ![a] = Fresh(a)]
        /\ waiting' = waiting \cup {New(func, a)}
        BY <1>2, <1>4
  <2>3. CASE func = "animate"
        BY <1>6, <2>1, <2>2, <2>3, RenewsNew DEF Func
  <2>4. CASE func = "delay"
        BY <1>6, <2>1, <2>2, <2>4, RenewsNew DEF Func
  <2>5. QED BY <2>3, <2>4
<1>8. /\ \A o \in Owner : o /= a /\ Exists(o) => StillExists(o)
      /\ StillExists(a) /\ anim' \in [Animator -> Widget \cup {None}]
      BY <1>2, OthersExist
<1> DEFINE add == {New(func, a)}
<1>9. \A t \in add : t.ctx \notin Item /\ t.func /= "repeat" /\ StillExists(t.ctx)
      BY <1>4, <1>7, <1>8
<1>10. /\ \A t \in waiting : StillExists(t.ctx)
       /\ \A i \in 1 .. Len(calls') : StillExists(calls[i].ctx)
      BY <1>2, <1>4, <1>8, TimersFacts
<1>11. Renews({a}, waiting, add) /\ \A i \in Len(calls') + 1 .. Len(calls) : calls[i].func /= "up"
      BY <1>3, <1>7
<1> HIDE DEF add
<1>12. QED BY <1>2, <1>3, <1>5, <1>8, <1>9, <1>10, <1>11, LifeStep

LEMMA AnimatorDestroyStep ==
    ASSUME TimersInv, Patient, NEW a \in Animator, AnimatorDestroy(a)
    PROVE  TimersInv'
<1>1. /\ calls' = calls /\ alive' = alive /\ pressed' = pressed /\ focused' = focused
      /\ anim' = [anim EXCEPT ![a] = None] /\ left' = [left EXCEPT ![a] = 0]
      /\ timer' = [timer EXCEPT ![a] = NoId] /\ waiting' = Without(a)
      /\ \A i \in 1 .. Len(calls) : calls[i].ctx /= a
      BY TimersFacts DEF AnimatorDestroy, DropTimer
<1>2. Shorter /\ Len(calls') + 1 .. Len(calls) = {}
      BY <1>1, SameCalls
<1>3. a \in Owner /\ \A t \in Without(a) : t \in waiting /\ t.ctx /= a
  <2>1. a \in Owner /\ \A t \in waiting : t.ctx = a => Known(t)
        BY Kind, TimersFacts, KindFunc DEF Kinds, Known
  <2>2. QED BY <2>1, WithoutDrops
<1>4. left' \in [Animator -> 0 .. Rounds]
  <2>1. 0 \in 0 .. Rounds
        BY TimersAssumption
  <2>2. QED BY <1>1, <2>1, TimersFacts DEF TypeOK
<1> DEFINE kept == Without(a)
           add == {}
<1>5. Renews({a}, kept, add)
      BY <1>1, <1>3, RenewsNone
<1>6. /\ \A o \in Owner : o /= a /\ Exists(o) => StillExists(o)
      /\ anim' \in [Animator -> Widget \cup {None}]
      BY <1>1, OthersExist
<1>7. /\ \A t \in kept : StillExists(t.ctx)
      /\ \A i \in 1 .. Len(calls') : StillExists(calls[i].ctx)
      BY <1>1, <1>3, <1>6, TimersFacts
<1>8. /\ \A i \in Len(calls') + 1 .. Len(calls) : calls[i].func /= "up"
      /\ \A t \in add : t.ctx \notin Item /\ t.func /= "repeat" /\ StillExists(t.ctx)
      BY <1>2
<1> HIDE DEF kept, add
<1>9. QED BY <1>1, <1>2, <1>4, <1>5, <1>6, <1>7, <1>8, LifeStep

(* A widget dies together with its animators, and all their timers go.     *)
LEMMA DestroyStep ==
    ASSUME TimersInv, Patient, NEW w \in Widget, Destroy(w)
    PROVE  TimersInv'
<1> DEFINE O == Dying(w)
           kept == {t \in waiting : \A o \in Dying(w) \ Item : t \in Without(o)}
           add == {}
<1>1. /\ calls' = calls /\ waiting' = kept /\ alive' = alive \ {w}
      /\ timer' = [o \in Owner |-> IF o \in O THEN NoId ELSE timer[o]]
      /\ anim' = [x \in Animator |-> IF x \in O THEN None ELSE anim[x]]
      /\ left' = [x \in Animator |-> IF x \in O THEN 0 ELSE left[x]]
      /\ pressed' = pressed \ {w} /\ focused' = focused \ {w}
      BY DEF Destroy
<1>2. /\ ~Held(w)
      /\ \A t \in waiting : t.ctx = w => t.func \notin {"press", "play"}
      BY DEF Destroy
<1>3. Shorter /\ Len(calls') + 1 .. Len(calls) = {}
      BY <1>1, SameCalls
<1>4. w \in O /\ w \in Owner /\ w \notin Animator /\ O \subseteq Owner
      /\ \A x \in Animator : x \in O <=> anim[x] = w
      BY Kind DEF Dying
<1>5. \A t \in kept : t \in waiting /\ t.ctx \notin O
  <2> SUFFICES ASSUME NEW t \in kept, t.ctx \in O PROVE FALSE
      OBVIOUS
  <2>1. t \in waiting /\ t.ctx \in Owner /\ Fits(t) /\ t.func /= "up"
        BY TimersFacts DEF Kinds
  <2>2. Known(t)
    <3>1. CASE t.ctx = w
          BY <1>2, <2>1, <3>1 DEF Known
    <3>2. CASE t.ctx \in Animator
          BY <2>1, <3>2, KindFunc DEF Known
    <3>3. QED BY <3>1, <3>2 DEF Dying
  <2>3. t.ctx \notin Item
        BY <2>1, <2>2, KindFunc DEF Known
  <2>4. t \in Without(t.ctx)
        BY <2>3
  <2>5. QED BY <2>1, <2>2, <2>4, WithoutDrops
<1>6. \A i \in 1 .. Len(calls) : calls[i].ctx \notin O
      BY <1>2, TimersFacts DEF Held, Dying
<1>7. Renews(O, kept, add)
  <2>1. timer' \in [Owner -> Id \cup {NoId}] /\ \A q \in Owner \ O : timer'[q] = timer[q]
        BY <1>1, TimersFacts
  <2>2. \A i \in 1 .. Len(calls') : calls[i].ctx \notin O
        BY <1>1, <1>6
  <2> HIDE DEF O, kept
  <2>3. QED BY <1>1, <1>5, <2>1, <2>2 DEF Renews
<1>8. \A o \in Owner \ O : Exists(o) => StillExists(o)
  <2> SUFFICES ASSUME NEW o \in Owner \ O, Exists(o) PROVE StillExists(o)
      OBVIOUS
  <2>1. CASE o \in Animator
    <3>1. anim'[o] = anim[o] /\ anim[o] /= w
          BY <1>1, <1>4, <2>1
    <3>2. QED BY <1>1, <2>1, <3>1 DEF Exists, StillExists
  <2>2. CASE o \notin Animator
        BY <1>1, <1>4, <2>2 DEF Exists, StillExists
  <2>3. QED BY <2>1, <2>2
<1>9. /\ anim' \in [Animator -> Widget \cup {None}] /\ left' \in [Animator -> 0 .. Rounds]
      /\ alive' \subseteq Widget /\ pressed' \subseteq Button /\ focused' \subseteq Edit
  <2>1. 0 \in 0 .. Rounds
        BY TimersAssumption
  <2> HIDE DEF O
  <2>2. QED BY <1>1, <2>1, TimersFacts DEF TypeOK
<1>10. /\ kept \subseteq waiting /\ waiting' = kept \cup add
       /\ \A t \in add : t.ctx \notin Item /\ StillExists(t.ctx) /\ t.func /= "repeat"
      BY <1>1
<1>11. /\ \A t \in kept : StillExists(t.ctx)
       /\ \A i \in 1 .. Len(calls') : StillExists(calls[i].ctx)
      BY <1>1, <1>5, <1>6, <1>8, TimersFacts
<1>12. /\ \A t \in kept : t.ctx /= w
       /\ \A i \in 1 .. Len(calls') : calls[i].ctx /= w
       /\ \A i \in Len(calls') + 1 .. Len(calls) : calls[i].func /= "up"
      BY <1>1, <1>3, <1>4, <1>5, <1>6
<1> HIDE DEF O, kept, add
<1>13. /\ Kinds' /\ KnownIds' /\ OneEach' /\ waiting' \subseteq Timer
       /\ Len(calls') <= MaxNest + 1
      BY <1>3, <1>7, RenewsStep
<1>14. timer' \in [Owner -> Id \cup {NoId}]
      BY <1>7 DEF Renews
<1>15. TypeOK'
      BY <1>3, <1>9, <1>13, <1>14 DEF TypeOK, Shorter
<1>16. Few'
      BY <1>10, FewStep
<1>17. NoTimerOfTheDead'
      BY <1>3, <1>10, <1>11, DeadStep
<1>18. RepeatStopsOnRelease' /\ RepeatRuns'
  <2>1. \A q \in pressed : q /= w => q \in pressed'
        BY <1>1
  <2>2. /\ \A t \in kept : t.func = "repeat" => t.ctx /= w
        /\ \A i \in 1 .. Len(calls') : calls[i].func = "repeat" => calls[i].ctx /= w
        /\ \A i \in Len(calls') + 1 .. Len(calls) : calls[i].func = "up" => calls[i].ctx = w
        BY <1>12
  <2>3. \A t \in add : t.func = "repeat" => t.ctx \in pressed'
        BY <1>10
  <2>4. Shorter /\ kept \subseteq waiting /\ waiting' = kept \cup add
        BY <1>3, <1>10
  <2>5. QED BY <2>1, <2>2, <2>3, <2>4, ReleaseStep
<1>19. QED BY <1>13, <1>15, <1>16, <1>17, <1>18 DEF TimersInv
-----------------------------------------------------------------------------
(* The innermost function t returns.                                       *)
Returns(t) == /\ calls /= << >> /\ t = Last(calls) /\ calls' = Front(calls)
              /\ pressed' = pressed /\ focused' = focused

LEMMA FrontTimers ==
    ASSUME NEW q \in Seq(Timer), q /= << >>
    PROVE  /\ Len(q) \in Nat \ {0} /\ Last(q) = q[Len(q)]
           /\ Front(q) \in Seq(Timer) /\ Len(Front(q)) = Len(q) - 1
           /\ \A i \in 1 .. Len(q) - 1 : Front(q)[i] = q[i]
<1>1. Len(q) \in Nat \ {0}
      BY EmptySeq
<1> DEFINE n == Len(q) - 1
<1>2. n \in Nat /\ 1 \in Int /\ \A i \in 1 .. n : q[i] \in Timer
      BY <1>1
<1> HIDE DEF n
<1>3. /\ SubSeq(q, 1, n) \in Seq(Timer)
      /\ Len(SubSeq(q, 1, n)) = IF 1 <= n THEN n - 1 + 1 ELSE 0
      /\ \A i \in 1 .. n - 1 + 1 : SubSeq(q, 1, n)[i] = q[1 + i - 1]
      BY <1>2, SubSeqProperties
<1>4. Len(SubSeq(q, 1, n)) = n /\ \A i \in 1 .. n : SubSeq(q, 1, n)[i] = q[i]
      BY <1>2, <1>3
<1>5. QED BY <1>1, <1>3, <1>4 DEF n, Front, Last

LEMMA ReturnFacts ==
    ASSUME TimersInv, NEW t, Returns(t)
    PROVE  /\ Shorter /\ Len(calls) \in Nat \ {0} /\ Len(calls') = Len(calls) - 1
           /\ calls[Len(calls)] = t /\ t \in Timer /\ t.ctx \in Owner /\ Exists(t.ctx)
           /\ Fits(t) /\ (t.func /= "up" => t.id /= NoId)
           /\ \A i \in 1 .. Len(calls') : i \in 1 .. Len(calls)
           /\ \A i \in Len(calls') + 1 .. Len(calls) : calls[i] = t
           /\ Known(t) => /\ timer[t.ctx] = t.id
                          /\ \A u \in waiting : Known(u) => u.ctx /= t.ctx
                          /\ \A i \in 1 .. Len(calls') : Known(calls[i]) => calls[i].ctx /= t.ctx
<1>1. /\ calls \in Seq(Timer) /\ Len(calls) \in Nat \ {0} /\ t = calls[Len(calls)]
      /\ calls' \in Seq(Timer) /\ Len(calls') = Len(calls) - 1
      /\ \A i \in 1 .. Len(calls) - 1 : calls'[i] = calls[i]
      BY TimersFacts, FrontTimers DEF Returns
<1>2. /\ calls' \in Seq(Timer) /\ Len(calls') = Len(calls) - 1 /\ Len(calls') \in Nat
      /\ DOMAIN calls' = 1 .. Len(calls')
      /\ \A i \in 1 .. Len(calls') : calls'[i] = calls[i]
      BY <1>1
<1>3. /\ Shorter /\ Len(calls) \in 1 .. Len(calls)
      /\ \A i \in 1 .. Len(calls') : i \in 1 .. Len(calls) /\ i /= Len(calls)
      /\ \A i \in Len(calls') + 1 .. Len(calls) : i = Len(calls)
      BY <1>1, <1>2 DEF Shorter
<1>4. /\ t \in Timer /\ t.ctx \in Owner /\ Exists(t.ctx)
      /\ Fits(t) /\ (t.func /= "up" => t.id /= NoId)
      BY <1>1, <1>3, TimersFacts DEF Kinds
<1>5. Known(t) => /\ timer[t.ctx] = t.id
                  /\ \A u \in waiting : Known(u) => u.ctx /= t.ctx
                  /\ \A i \in 1 .. Len(calls') : Known(calls[i]) => calls[i].ctx /= t.ctx
      BY <1>1, <1>3, TimersFacts DEF KnownIds, OneEach
<1>6. QED BY <1>1, <1>2, <1>3, <1>4, <1>5

(* RET_REPEAT: the timer waits again.                                      *)
LEMMA RenewsBack ==
    ASSUME TimersInv, NEW t, Returns(t), Known(t), waiting' = waiting \cup {t}, timer' = timer
    PROVE  Renews({t.ctx}, waiting, {t})
<1>1. /\ t.func /= "up" /\ t \in Timer /\ t.ctx \in Owner /\ t.id /= NoId /\ Fits(t)
      /\ timer' = timer /\ timer \in [Owner -> Id \cup {NoId}] /\ timer[t.ctx] = t.id
      BY ReturnFacts, TimersFacts DEF Known
<1>2. /\ \A u \in waiting : Known(u) => u.ctx \notin {t.ctx}
      /\ \A i \in 1 .. Len(calls') : Known(calls[i]) => calls[i].ctx \notin {t.ctx}
      BY ReturnFacts
<1>3. QED BY <1>1, <1>2 DEF Renews

LEMMA BackStep ==
    ASSUME TimersInv, NEW t, Returns(t), Known(t), waiting' = waiting \cup {t}, timer' = timer,
           alive' = alive, anim' = anim, left' \in [Animator -> 0 .. Rounds]
    PROVE  TimersInv'
<1>1. Renews({t.ctx}, waiting, {t}) /\ Shorter /\ pressed' = pressed
      BY RenewsBack, ReturnFacts DEF Returns
<1>2. focused' \subseteq Edit
      BY TimersFacts DEF Returns, TypeOK
<1>3. t.func \notin {"press", "up"} /\ t.ctx \notin Item /\ Exists(t.ctx)
      BY ReturnFacts, KindFunc DEF Known
<1>4. \A i \in Len(calls') + 1 .. Len(calls) : calls[i].func /= "up"
      BY <1>3, ReturnFacts
<1>5. t.func = "repeat" => \/ t.ctx \in pressed
                           \/ \E j \in 1 .. Len(calls') : calls[j].func = "up" /\ calls[j].ctx = t.ctx
  <2>1. calls[Len(calls)] = t /\ Len(calls) \in 1 .. Len(calls) /\ Len(calls') = Len(calls) - 1
        BY ReturnFacts
  <2>2. QED BY <2>1, TimersFacts DEF RepeatRuns
<1> DEFINE add == {t}
<1>6. /\ \A u \in add : u.ctx \notin Item /\ Exists(u.ctx)
      /\ \A u \in add : u.func = "repeat" =>
             \/ u.ctx \in pressed
             \/ \E j \in 1 .. Len(calls') : calls[j].func = "up" /\ calls[j].ctx = u.ctx
      /\ Renews({t.ctx}, waiting, add)
      BY <1>1, <1>3, <1>5
<1> HIDE DEF add
<1>7. QED BY <1>1, <1>2, <1>4, <1>6, OwnerStep

(* The owner forgets its timer, which is not put back, ...                 *)
LEMMA EndStep ==
    ASSUME TimersInv, NEW t, Returns(t), t.func \in {"caret", "press"},
           timer' = [timer EXCEPT ![t.ctx] = NoId], waiting' = waiting,
           alive' = alive, anim' = anim, left' = left
    PROVE  TimersInv'
<1>1. Shorter /\ pressed' = pressed /\ t.ctx \in Owner
      /\ \A i \in Len(calls') + 1 .. Len(calls) : calls[i].func /= "up"
      BY ReturnFacts DEF Returns
<1>2. focused' \subseteq Edit /\ left' \in [Animator -> 0 .. Rounds]
      BY TimersFacts DEF Returns, TypeOK
<1>3. /\ \A u \in waiting : Known(u) => u.ctx /= t.ctx
      /\ \A i \in 1 .. Len(calls') : Known(calls[i]) => calls[i].ctx /= t.ctx
  <2>1. CASE t.func = "caret"
        BY <2>1, ReturnFacts DEF Known
  <2>2. CASE t.func = "press"
    <3>1. t.ctx \in Item
          BY <2>2, ReturnFacts, FuncKind
    <3>2. QED BY <3>1, ReturnFacts, TimersFacts, KindFunc DEF Kinds, Known
  <2>3. QED BY <2>1, <2>2
<1>4. Renews({t.ctx}, waiting, {})
      BY <1>1, <1>3, RenewsNone
<1>5. QED BY <1>1, <1>2, <1>4, OwnerStep

(* ... or leaves everything as it is.                                      *)
LEMMA ForgetStep ==
    ASSUME TimersInv, NEW t, Returns(t), t.func /= "up", timer' = timer, waiting' = waiting,
           alive' = alive, anim' = anim, left' = left
    PROVE  TimersInv'
<1>1. Shorter /\ pressed' = pressed
      /\ \A i \in Len(calls') + 1 .. Len(calls) : calls[i].func /= "up"
      BY ReturnFacts DEF Returns
<1>2. focused' \subseteq Edit /\ left' \in [Animator -> 0 .. Rounds]
      BY TimersFacts DEF Returns, TypeOK
<1>3. QED BY <1>1, <1>2, RenewsNothing, OwnerStep

(* The delayed play and the delay of an animator start the real timer.     *)
LEMMA PlayStep ==
    ASSUME TimersInv, NEW t, Returns(t), t.func = "play", PlayReturns(t.ctx)
    PROVE  TimersInv'
<1>1. /\ Shorter /\ pressed' = pressed /\ alive' = alive /\ anim' = anim /\ left' = left
      /\ \A i \in Len(calls') + 1 .. Len(calls) : calls[i].func /= "up"
      BY ReturnFacts DEF Returns, PlayReturns
<1>2. focused' \subseteq Edit /\ left' \in [Animator -> 0 .. Rounds]
      BY <1>1, TimersFacts DEF Returns, TypeOK
<1>3. t.ctx \in Image /\ t.ctx \in Owner /\ t.ctx \notin Item /\ Exists(t.ctx)
      BY ReturnFacts, FuncKind, Kind
<1>4. CASE timer[t.ctx] = NoId
  <2>1. PICK o : o = t.ctx
        OBVIOUS
  <2>2. /\ timer' = [timer EXCEPT ![o] = Fresh(o)] /\ waiting' = waiting \cup {New("update", o)}
        BY <1>4, <2>1 DEF PlayReturns, Play, AddTimer
  <2>3. Fits(New("update", o)) /\ o \in Owner
        BY <1>3, <2>1 DEF Fits, New
  <2>4. /\ \A u \in waiting : Known(u) => u.ctx /= o
        /\ \A i \in 1 .. Len(calls') : Known(calls[i]) => calls[i].ctx /= o
        BY <1>3, <1>4, <2>1, NoIdNoTimer, ReturnFacts
  <2>5. /\ Renews({o}, waiting, {New("update", o)})
        /\ New("update", o).ctx = o /\ New("update", o).func = "update"
        BY <2>2, <2>3, <2>4, RenewsNew DEF Func
  <2>6. QED BY <1>1, <1>2, <1>3, <2>1, <2>5, OwnerStep
<1>5. CASE timer[t.ctx] /= NoId
  <2>1. timer' = timer /\ waiting' = waiting
        BY <1>5 DEF PlayReturns, Play
  <2>2. QED BY <1>1, <2>1, ForgetStep
<1>6. QED BY <1>4, <1>5

LEMMA DelayStep ==
    ASSUME TimersInv, NEW t, Returns(t), t.func = "delay", DelayReturns(t.ctx)
    PROVE  TimersInv'
<1>1. /\ Shorter /\ pressed' = pressed /\ alive' = alive /\ anim' = anim /\ left' = left
      /\ \A i \in Len(calls') + 1 .. Len(calls) : calls[i].func /= "up"
      BY ReturnFacts DEF Returns, DelayReturns
<1>2. focused' \subseteq Edit /\ left' \in [Animator -> 0 .. Rounds]
      BY <1>1, TimersFacts DEF Returns, TypeOK
<1>3. PICK a : a = t.ctx
      OBVIOUS
<1>4. a \in Animator /\ a \in Owner /\ a \notin Item /\ Exists(a)
      BY <1>3, ReturnFacts, FuncKind, Kind
<1>5. /\ timer' = [timer EXCEPT ![a] = Fresh(a)] /\ waiting' = waiting \cup {New("animate", a)}
      BY <1>3 DEF DelayReturns, AddTimer
<1>6. Fits(New("animate", a))
      BY <1>4 DEF Fits, New
<1>7. /\ \A u \in waiting : Known(u) => u.ctx /= a
      /\ \A i \in 1 .. Len(calls') : Known(calls[i]) => calls[i].ctx /= a
      BY <1>3, ReturnFacts DEF Known
<1>8. /\ Renews({a}, waiting, {New("animate", a)})
      /\ New("animate", a).ctx = a /\ New("animate", a).func = "animate"
      BY <1>4, <1>5, <1>6, <1>7, RenewsNew DEF Func
<1>9. QED BY <1>1, <1>2, <1>4, <1>8, OwnerStep

(* A release returns: no repeat of its button runs below it.               *)
LEMMA UpStep ==
    ASSUME TimersInv, NEW t, Returns(t), t.func = "up", UpReturns(t.ctx)
    PROVE  TimersInv'
<1>1. PICK b : b = t.ctx
      OBVIOUS
<1>2. b \in Button /\ b \in Owner /\ Exists(b)
      BY <1>1, ReturnFacts, FuncKind
<1>3. /\ Shorter /\ pressed' = pressed /\ focused' = focused
      /\ alive' = alive /\ anim' = anim /\ left' = left
      /\ timer' = [timer EXCEPT ![b] = NoId] /\ waiting' = Without(b)
      /\ pressed' \subseteq Button
      BY <1>1, ReturnFacts, TimersFacts DEF Returns, UpReturns, DropTimer, TypeOK
<1>4. \A i \in 1 .. Len(calls') : Known(calls[i]) => calls[i].ctx /= b
  <2> SUFFICES ASSUME NEW i \in 1 .. Len(calls'), Known(calls[i]), calls[i].ctx = b PROVE FALSE
      OBVIOUS
  <2>1. i \in 1 .. Len(calls) /\ Len(calls) \in i + 1 .. Len(calls) /\ calls[Len(calls)] = t
        BY ReturnFacts
  <2>2. calls[i].func = "repeat"
        BY <1>2, <2>1, TimersFacts, KindFunc DEF Kinds, Known
  <2>3. QED BY <1>1, <2>1, <2>2, TimersFacts DEF RepeatRuns
<1> DEFINE kept == Without(b)
           add == {}
<1>5. Renews({b}, kept, add)
      BY <1>2, <1>3, <1>4, WithoutDrops, RenewsNone
<1>6. /\ \A i \in Len(calls') + 1 .. Len(calls) : calls[i].func = "up" => calls[i].ctx = b
      /\ \A u \in add : u.func = "repeat" => u.ctx \in pressed'
      /\ \A q \in pressed : q /= b => q \in pressed'
      BY <1>1, <1>3, ReturnFacts
<1> HIDE DEF kept, add
<1>7. QED BY <1>2, <1>3, <1>5, <1>6, PressStep
(* widget_animator_on_timer: another round, or the end of the animator.    *)
LEMMA AnimateStep ==
    ASSUME TimersInv, NEW t, Returns(t), t.func = "animate", AnimateReturns(t.ctx, t)
    PROVE  TimersInv'
<1>1. PICK a : a = t.ctx
      OBVIOUS
<1>2. a \in Animator /\ a \in Owner /\ Known(t)
      BY <1>1, ReturnFacts, FuncKind DEF Known
<1>3. alive' = alive /\ left \in [Animator -> 0 .. Rounds] /\ Rounds \in Nat
      BY TimersFacts, TimersAssumption DEF AnimateReturns, TypeOK
<1>4. CASE /\ left[a] > 1 /\ left' = [left EXCEPT ![a] = @ - 1]
           /\ waiting' = waiting \cup {t} /\ anim' = anim /\ timer' = timer
  <2>1. left[a] - 1 \in 0 .. Rounds
        BY <1>2, <1>3, <1>4
  <2>2. left' \in [Animator -> 0 .. Rounds]
        BY <1>2, <1>3, <1>4, <2>1
  <2>3. QED BY <1>2, <1>3, <1>4, <2>2, BackStep
<1>5. CASE /\ timer' = [timer EXCEPT ![a] = NoId] /\ anim' = [anim EXCEPT ![a] = None]
           /\ left' = [left EXCEPT ![a] = 0] /\ waiting' = waiting
  <2>1. /\ Shorter /\ pressed' = pressed /\ focused' = focused
        /\ \A i \in Len(calls') + 1 .. Len(calls) : calls[i].func /= "up"
        BY ReturnFacts DEF Returns
  <2>2. /\ \A u \in waiting : u.ctx /= a
        /\ \A i \in 1 .. Len(calls') : calls[i].ctx /= a
    <3>1. \A u : Fits(u) /\ u.ctx = a => Known(u)
          BY <1>2, KindFunc DEF Known
    <3>2. /\ \A u \in waiting : Fits(u)
          /\ \A i \in 1 .. Len(calls') : Fits(calls[i])
          BY ReturnFacts, TimersFacts DEF Kinds
    <3>3. QED BY <1>1, <1>2, <3>1, <3>2, ReturnFacts
  <2>3. left' \in [Animator -> 0 .. Rounds]
    <3>1. 0 \in 0 .. Rounds
          BY <1>3
    <3>2. QED BY <1>3, <1>5, <3>1
  <2> DEFINE kept == waiting
             add == {}
  <2>4. Renews({a}, kept, add)
        BY <1>2, <1>5, <2>2, RenewsNone
  <2>5. /\ \A o \in Owner : o /= a /\ Exists(o) => StillExists(o)
        /\ anim' \in [Animator -> Widget \cup {None}]
        BY <1>2, <1>3, <1>5, OthersExist
  <2>6. /\ \A u \in kept : StillExists(u.ctx)
        /\ \A i \in 1 .. Len(calls') : StillExists(calls[i].ctx)
        BY <2>2, <2>5, ReturnFacts, TimersFacts
  <2>7. \A u \in add : u.ctx \notin Item /\ u.func /= "repeat" /\ StillExists(u.ctx)
        OBVIOUS
  <2> HIDE DEF kept, add
  <2>8. QED BY <1>3, <2>1, <2>3, <2>4, <2>5, <2>6, <2>7, LifeStep
<1>6. QED BY <1>1, <1>4, <1>5 DEF AnimateReturns

(* slide_view_on_timer_next: the timer comes back, and an animator starts. *)
LEMMA NextStep ==
    ASSUME TimersInv, NEW t, Returns(t), t.func = "next", NextReturns(t.ctx, t)
    PROVE  TimersInv'
<1>1. PICK s : s = t.ctx
      OBVIOUS
<1>2. s \in Slide /\ s \in Owner /\ s \notin Item /\ s \notin Animator /\ Known(t) /\ Exists(s)
      BY <1>1, ReturnFacts, FuncKind, Kind DEF Known
<1>3. left \in [Animator -> 0 .. Rounds]
      BY TimersFacts DEF TypeOK
<1>4. CASE /\ waiting' = waiting \cup {t} /\ alive' = alive /\ anim' = anim
           /\ left' = left /\ timer' = timer
      BY <1>2, <1>3, <1>4, BackStep
<1>5. CASE \E a \in FreeAnimators : /\ anim' = [anim EXCEPT ![a] = s]
                                    /\ left' = [left EXCEPT ![a] = Rounds]
                                    /\ timer' = [timer EXCEPT ![a] = Fresh(a)]
                                    /\ waiting' = waiting \cup {New("animate", a), t}
                                    /\ alive' = alive
  <2>1. PICK a \in FreeAnimators : /\ anim' = [anim EXCEPT ![a] = s]
                                   /\ left' = [left EXCEPT ![a] = Rounds]
                                   /\ timer' = [timer EXCEPT ![a] = Fresh(a)]
                                   /\ waiting' = waiting \cup {New("animate", a), t}
                                   /\ alive' = alive
        BY <1>5
  <2>2. /\ a \in Animator /\ a \in Owner /\ a \notin Item /\ a /= s
        /\ \A u \in waiting : u.ctx /= a
        /\ \A i \in 1 .. Len(calls) : calls[i].ctx /= a
        BY <1>2, FreeAnimator, Kind
  <2> DEFINE n == New("animate", a)
  <2>3. /\ n \in Timer /\ n.ctx = a /\ n.func = "animate" /\ n.id = Fresh(a) /\ n.id /= NoId
        /\ Fresh(a) \in Id
        BY <2>2, NewTimer, FreshId DEF Func
  <2>4. Fits(n)
        BY <2>2 DEF Fits, New
  <2>5. waiting' = waiting \cup {n, t}
        BY <2>1
  <2> HIDE DEF n
  <2>6. /\ timer' \in [Owner -> Id \cup {NoId}] /\ timer'[a] = Fresh(a) /\ timer'[s] = timer[s]
        /\ \A q \in Owner \ {s, a} : timer'[q] = timer[q]
        BY <1>2, <2>1, <2>2, <2>3, TimersFacts
  <2>7. /\ Shorter /\ pressed' = pressed /\ focused' = focused
        /\ \A i \in Len(calls') + 1 .. Len(calls) : calls[i].func /= "up"
        BY ReturnFacts DEF Returns
  <2>8. /\ t \in Timer /\ Fits(t) /\ t.id /= NoId /\ timer[s] = t.id
        /\ \A u \in waiting : Known(u) => u.ctx \notin {s, a}
        /\ \A i \in 1 .. Len(calls') : Known(calls[i]) => calls[i].ctx \notin {s, a}
        BY <1>1, <1>2, <2>2, ReturnFacts
  <2> DEFINE kept == waiting
             add == {n, t}
  <2>9. /\ \A u \in add : /\ u.ctx \in {s, a} /\ Fits(u) /\ u.func /= "up" /\ u.id /= NoId
                          /\ Known(u) => u.id = timer'[u.ctx]
        /\ \A u, v \in add : u.ctx = v.ctx => u = v
        /\ add \subseteq Timer
        BY <1>1, <2>2, <2>3, <2>4, <2>6, <2>8
  <2>10. Renews({s, a}, kept, add)
    <3>1. kept \subseteq waiting /\ waiting' = kept \cup add
          BY <2>5
    <3>2. \A u \in kept : Known(u) => u.ctx \notin {s, a}
          BY <2>8
    <3> HIDE DEF kept, add
    <3>3. QED BY <2>6, <2>8, <2>9, <3>1, <3>2 DEF Renews
  <2>11. left' \in [Animator -> 0 .. Rounds]
    <3>1. Rounds \in 0 .. Rounds
          BY TimersAssumption
    <3>2. QED BY <1>3, <2>1, <3>1
  <2>12. s \in alive
        BY <1>2 DEF Exists
  <2>13. /\ \A o \in Owner : o /= a /\ Exists(o) => StillExists(o)
         /\ StillExists(a) /\ anim' \in [Animator -> Widget \cup {None}]
        BY <2>1, <2>2, <2>12, OthersExist
  <2>14. /\ \A u \in kept : StillExists(u.ctx)
         /\ \A i \in 1 .. Len(calls') : StillExists(calls[i].ctx)
        BY <2>2, <2>13, ReturnFacts, TimersFacts
  <2>15. \A u \in add : u.ctx \notin Item /\ u.func /= "repeat" /\ StillExists(u.ctx)
        BY <1>1, <1>2, <2>2, <2>3, <2>13
  <2> HIDE DEF kept, add
  <2>16. alive' = alive
        BY <2>1
  <2>17. QED BY <2>7, <2>10, <2>11, <2>13, <2>14, <2>15, <2>16, LifeStep
<1>6. QED BY <1>1, <1>4, <1>5 DEF NextReturns

LEMMA ReturnStep ==
    ASSUME TimersInv, Return
    PROVE  TimersInv'
<1>1. PICK t : t = Last(calls)
      OBVIOUS
<1>2. Returns(t)
      BY <1>1 DEF Return, Returns
<1>3. left \in [Animator -> 0 .. Rounds]
      BY TimersFacts DEF TypeOK
<1>4. \/ t.func = "repeat" /\ waiting' = waiting \cup {t} /\ UNCHANGED <<alive, anim, left, timer>>
      \/ t.func = "caret" /\ CaretReturns(t.ctx, t)
      \/ t.func = "press" /\ PressReturns(t.ctx)
      \/ t.func = "update" /\ UpdateReturns(t)
      \/ t.func = "play" /\ PlayReturns(t.ctx)
      \/ t.func = "next" /\ NextReturns(t.ctx, t)
      \/ t.func = "animate" /\ AnimateReturns(t.ctx, t)
      \/ t.func = "delay" /\ DelayReturns(t.ctx)
      \/ t.func = "up" /\ UpReturns(t.ctx)
      BY <1>1 DEF Return
<1>5. CASE /\ t.func = "repeat" /\ waiting' = waiting \cup {t}
           /\ UNCHANGED <<alive, anim, left, timer>>
      BY <1>2, <1>3, <1>5, BackStep DEF Known
<1>6. CASE t.func = "caret" /\ CaretReturns(t.ctx, t)
  <2>1. CASE t.ctx \in focused
        BY <1>2, <1>3, <1>6, <2>1, BackStep DEF CaretReturns, Known
  <2>2. CASE t.ctx \notin focused
        BY <1>2, <1>6, <2>2, EndStep DEF CaretReturns
  <2>3. QED BY <2>1, <2>2
<1>7. CASE t.func = "press" /\ PressReturns(t.ctx)
      BY <1>2, <1>7, EndStep DEF PressReturns
<1>8. CASE t.func = "update" /\ UpdateReturns(t)
  <2>1. CASE waiting' = waiting \cup {t}
        BY <1>2, <1>3, <1>8, <2>1, BackStep DEF UpdateReturns, Known
  <2>2. CASE waiting' = waiting
        BY <1>2, <1>8, <2>2, ForgetStep DEF UpdateReturns
  <2>3. QED BY <1>8, <2>1, <2>2 DEF UpdateReturns
<1>9. CASE t.func = "play" /\ PlayReturns(t.ctx)
      BY <1>2, <1>9, PlayStep
<1>10. CASE t.func = "next" /\ NextReturns(t.ctx, t)
      BY <1>2, <1>10, NextStep
<1>11. CASE t.func = "animate" /\ AnimateReturns(t.ctx, t)
      BY <1>2, <1>11, AnimateStep
<1>12. CASE t.func = "delay" /\ DelayReturns(t.ctx)
      BY <1>2, <1>12, DelayStep
<1>13. CASE t.func = "up" /\ UpReturns(t.ctx)
      BY <1>2, <1>13, UpStep
<1>14. QED BY <1>4, <1>5, <1>6, <1>7, <1>8, <1>9, <1>10, <1>11, <1>12, <1>13
-----------------------------------------------------------------------------
LEMMA TimersInit ==
    ASSUME Init
    PROVE  TimersInv
<1>1. PICK delayed \in SUBSET Image : waiting = {ImageOpened(i) : i \in delayed}
      BY DEF Init
<1>2. \A t \in waiting : \E i \in Image : t = ImageOpened(i)
      BY <1>1
<1>3. /\ calls = << >> /\ Len(calls) = 0 /\ DOMAIN calls = {} /\ calls \in Seq(Timer)
      /\ 1 .. Len(calls) = {} /\ 1 .. Len(calls) - 1 = {}
      BY DEF Init
<1>4. 1 \in Id /\ 1 /= NoId
      BY TimersAssumption DEF Id, MaxPress, NoId
<1>5. \A i \in Image : /\ ImageOpened(i) \in Timer /\ ImageOpened(i).ctx = i
                       /\ ImageOpened(i).func = "play" /\ ImageOpened(i).id = 1
                       /\ i \in Owner /\ i \notin Item /\ i \notin Animator /\ i \in Widget
      BY <1>4, Kind DEF ImageOpened, Timer, Func, Widget
<1>6. \A t \in waiting : /\ t.ctx \in Image /\ t = ImageOpened(t.ctx) /\ t \in Timer
                         /\ t.func = "play" /\ t.id = 1 /\ ~Known(t)
                         /\ t.ctx \in Widget /\ t.ctx \notin Item /\ t.ctx \notin Animator
      BY <1>2, <1>5 DEF Known
<1>7. TypeOK
  <2>1. 0 \in 0 .. Rounds /\ Len(calls) <= MaxNest + 1
        BY <1>3, TimersAssumption
  <2>2. waiting \subseteq Timer
        BY <1>6
  <2>3. QED BY <1>3, <2>1, <2>2 DEF Init, TypeOK
<1>8. Kinds /\ KnownIds /\ OneEach
      BY <1>3, <1>4, <1>6 DEF Kinds, KnownIds, OneEach, Fits
<1>9. Few
  <2> SUFFICES ASSUME NEW l \in Item
               PROVE  IsFiniteSet(TimersOf(l)) /\ Cardinality(TimersOf(l)) <= MaxPress
      BY DEF Few
  <2>1. TimersOf(l) = {}
        BY <1>6 DEF TimersOf
  <2>2. QED BY <2>1, FS_EmptySet DEF MaxPress
<1>10. NoTimerOfTheDead
      BY <1>3, <1>6 DEF NoTimerOfTheDead, Exists, Init
<1>11. RepeatStopsOnRelease /\ RepeatRuns
      BY <1>3, <1>6 DEF RepeatStopsOnRelease, RepeatRuns
<1>12. QED BY <1>7, <1>8, <1>9, <1>10, <1>11 DEF TimersInv

LEMMA TimersStutter ==
    ASSUME TimersInv, UNCHANGED vars
    PROVE  TimersInv'
<1>1. /\ alive' = alive /\ anim' = anim /\ left' = left /\ timer' = timer
      /\ waiting' = waiting /\ calls' = calls /\ pressed' = pressed /\ focused' = focused
      BY DEF vars
<1>2. Shorter /\ Len(calls') + 1 .. Len(calls) = {}
      BY <1>1, SameCalls
<1>3. focused' \subseteq Edit /\ left' \in [Animator -> 0 .. Rounds]
      BY <1>1, TimersFacts DEF TypeOK
<1>4. QED BY <1>1, <1>2, <1>3, RenewsNothing, OwnerStep

LEMMA TimersNext ==
    ASSUME Patient, TimersInv, [Next]_vars
    PROVE  TimersInv'
<1>1. CASE \E b \in Button : ButtonDown(b) \/ ButtonAbort(b) \/ ButtonUp(b)
      BY <1>1, ButtonStep, ButtonUpStep
<1>2. CASE \E e \in Edit : EditDown(e) \/ EditBlur(e)
      BY <1>2, EditStep
<1>3. CASE \E l \in Item : ItemDown(l) \/ ItemAbort(l)
      BY <1>3, ItemStep
<1>4. CASE \E i \in Image : ImagePlay(i) \/ ImagePause(i)
      BY <1>4, ImageStep
<1>5. CASE \E s \in Slide, on \in BOOLEAN : SlideAutoPlay(s, on)
      BY <1>5, SlideStep
<1>6. CASE \E a \in Animator : AnimatorDestroy(a) \/ \E w \in Animated : AnimatorStart(a, w)
      BY <1>6, AnimatorDestroyStep, AnimatorStartStep
<1>7. CASE \E w \in Widget : Destroy(w)
      BY <1>7, DestroyStep
<1>8. CASE \E o \in Owner : FireOf(o)
      BY <1>8, FireStep DEF FireOf
<1>9. CASE Return
      BY <1>9, ReturnStep
<1>10. CASE UNCHANGED vars
      BY <1>10, TimersStutter
<1>11. QED BY <1>1, <1>2, <1>3, <1>4, <1>5, <1>6, <1>7, <1>8, <1>9, <1>10 DEF Next

LEMMA TimersHold ==
    ASSUME Patient
    PROVE  Spec => []TimersInv
<1>1. Init => TimersInv
      BY TimersInit
<1>2. TimersInv /\ [Next]_vars => TimersInv'
      BY TimersNext
<1>3. QED BY <1>1, <1>2, PTL DEF Spec

(* The timers, their owners and the stack of functions that run keep their *)
(* types; in particular an id is left for every timer that is added.       *)
THEOREM TimersTypeCorrect ==
    ASSUME Patient
    PROVE  Spec => []TypeOK
<1>1. TimersInv => TypeOK
      BY DEF TimersInv
<1>2. QED BY <1>1, TimersHold, PTL

(* No timer waits or runs for a widget or an animator that was freed:      *)
(* widget_destroy and widget_animator_destroy remove the timers by the ids *)
(* that the owners store, and those are all there are.                     *)
THEOREM NoTimerOfTheDeadCorrect ==
    ASSUME Patient
    PROVE  Spec => []NoTimerOfTheDead
<1>1. TimersInv => NoTimerOfTheDead
      BY DEF TimersInv
<1>2. QED BY <1>1, TimersHold, PTL

(* The owner of a timer that waits stores its id, through every nesting of *)
(* the functions: a timer that a handler started while another one of the  *)
(* same owner ran is never forgotten.                                      *)
THEOREM OwnersKnowCorrect ==
    ASSUME Patient
    PROVE  Spec => []OwnersKnowTheirTimers
<1>1. TimersInv => OwnersKnowTheirTimers
      BY TimersFacts DEF KnownIds, Kinds, Known, OwnersKnowTheirTimers
<1>2. QED BY <1>1, TimersHold, PTL

(* button_on_event: a repeat waits only while its button is pressed or the *)
(* handlers of its release are running, which then removes it.             *)
THEOREM RepeatStopsCorrect ==
    ASSUME Patient
    PROVE  Spec => []RepeatStopsOnRelease
<1>1. TimersInv => RepeatStopsOnRelease
      BY DEF TimersInv
<1>2. QED BY <1>1, TimersHold, PTL
=============================================================================
