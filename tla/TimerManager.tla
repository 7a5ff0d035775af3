---------------------------- MODULE TimerManager ----------------------------
(***************************************************************************)
(* base/timer.c: functions that run when a duration has elapsed.  Like     *)
(* IdleManager there are two arrays that swap roles at the end of a        *)
(* dispatch and callbacks that may add, remove and dispatch again; in      *)
(* addition every timer has a start time and a duration, a dispatch reads  *)
(* the clock once, and all times are unsigned integers that wrap around    *)
(* (2^32 milliseconds in the code, Wrap here).                             *)
(***************************************************************************)
EXTENDS Naturals, Sequences, SequencesExt

CONSTANTS MaxId,      \* bound on the calls of timer_add
          MaxDepth,   \* bound on nested calls of timer_manager_dispatch
          Duration,   \* the durations asked for
          MaxTime,    \* bound on the clock
          Wrap        \* number of values of uint32_t

ASSUME TimerAssumption == /\ MaxId \in Nat /\ MaxDepth \in Nat /\ MaxTime \in Nat
                          /\ Wrap \in Nat \ {0}
                          /\ Duration \subseteq 0 .. Wrap - 1

VARIABLES timers,     \* the two arrays, timer_manager_t.timers
          active,     \* index of the active one
          nextId,     \* timer_manager_t.next_timer_id
          info,       \* timer_info_t of every timer that was added
          live,       \* timers whose timer_info_t is allocated
          stack,      \* calls of timer_manager_dispatch in progress
          nested,     \* history: a dispatch was started inside another one
          clock       \* the true time, which does not wrap

vars == <<timers, active, nextId, info, live, stack, nested, clock>>

Id == 1 .. MaxId
None == 0
Time == 0 .. Wrap - 1

(* since is not in the code: the true time that start was read at.         *)
Info == [start : Time, duration : Duration, since : 0 .. MaxTime]

(* owed is not in the code: the timers due when the dispatch started that  *)
(* were not served yet; began is the true time of that moment.             *)
Frame == [array : {0, 1}, now : Time, iter : Id \cup {None},
          owed : SUBSET Id, began : 0 .. MaxTime]

Init == /\ timers = [a \in {0, 1} |-> << >>]
        /\ active = 0
        /\ nextId = 1
        /\ info = << >>
        /\ live = {}
        /\ stack = << >>
        /\ nested = FALSE
        /\ clock = 0
-----------------------------------------------------------------------------
GetTime == clock % Wrap

Other(a) == 1 - a

Top == stack[Len(stack)]

InUserCode == \A i \in 1 .. Len(stack) : stack[i].iter /= None

SetTop(iter) == [stack EXCEPT ![Len(stack)].iter = iter]

Served(s, ids) == [i \in 1 .. Len(s) |-> [s[i] EXCEPT !.owed = @ \ ids]]

Holds(a, id) == \E i \in 1 .. Len(timers[a]) : timers[a][i] = id

Waiting == {id \in Id : \E a \in {0, 1} : Holds(a, id)}

(* When a timer is to fire, computed in 32 bits.                           *)
Deadline(id) == (info[id].start + info[id].duration) % Wrap

Elapsed(id) == clock - info[id].since >= info[id].duration

Tick == /\ InUserCode
        /\ clock < MaxTime
        /\ clock' = clock + 1
        /\ UNCHANGED <<timers, active, nextId, info, live, stack, nested>>

ManagerAdd(d) ==
    /\ InUserCode
    /\ nextId \in Id
    /\ timers' = [timers EXCEPT ![active] = Append(@, nextId)]
    /\ info' = Append(info, [start |-> GetTime, duration |-> d, since |-> clock])
    /\ live' = live \cup {nextId}
    /\ nextId' = nextId + 1
    /\ UNCHANGED <<active, stack, nested, clock>>

ManagerRemove(id) ==
    /\ InUserCode
    /\ \E a \in {0, 1} :
         /\ Holds(a, id)
         /\ a = active \/ ~Holds(active, id)
         /\ \E i \in 1 .. Len(timers[a]) :
              /\ timers[a][i] = id
              /\ \A j \in 1 .. i - 1 : timers[a][j] /= id
              /\ timers' = [timers EXCEPT ![a] = RemoveAt(@, i)]
    /\ live' = live \ {id}
    /\ stack' = Served(stack, {id})
    /\ UNCHANGED <<active, nextId, info, nested, clock>>
-----------------------------------------------------------------------------
BeginDispatch ==
    /\ InUserCode
    /\ Len(stack) < MaxDepth
    /\ stack' = Append(stack, [array |-> active, now |-> GetTime, iter |-> None,
                               owed |-> {id \in Waiting : Elapsed(id)},
                               began |-> clock])
    /\ nested' = (nested \/ stack /= << >>)
    /\ UNCHANGED <<timers, active, nextId, info, live, clock>>

CanPop == stack /= << >> /\ Top.iter = None /\ timers[Top.array] /= << >>

Popped == Last(timers[Top.array])

(* Mutant: a timer counts as due one tick too soon.                        *)
IsDueTooSoon(id, now) == Deadline(id) <= now + 1

(* The test of timer_manager_dispatch against the time it read first.      *)
IsDue(id, now) == Deadline(id) <= now

(* Mutant: the timer stays in its array while its callback runs.           *)
CallTimerInPlace == /\ CanPop
                    /\ IsDue(Popped, Top.now)
                    /\ stack' = Served(SetTop(Popped), {Popped})
                    /\ UNCHANGED <<timers, active, nextId, info, live, nested, clock>>

CallTimer == /\ CanPop
             /\ IsDue(Popped, Top.now)
             /\ stack' = Served(SetTop(Popped), {Popped})
             /\ timers' = [timers EXCEPT ![Top.array] = Front(@)]
             /\ UNCHANGED <<active, nextId, info, live, nested, clock>>

SkipTimer == /\ CanPop
             /\ ~IsDue(Popped, Top.now)
             /\ timers' = [timers EXCEPT ![Top.array] = Front(@),
                                         ![Other(Top.array)] = Append(@, Popped)]
             /\ UNCHANGED <<active, nextId, info, live, stack, nested, clock>>

InCallback == stack /= << >> /\ Top.iter /= None

(* The callback returns RET_REPEAT: the timer is started again, at the     *)
(* time the dispatch read.                                                 *)
Repeat == /\ InCallback
          /\ info' = [info EXCEPT ![Top.iter].start = Top.now, ![Top.iter].since = Top.began]
          /\ timers' = [timers EXCEPT ![Other(Top.array)] = Append(@, Top.iter)]
          /\ stack' = SetTop(None)
          /\ UNCHANGED <<active, nextId, live, nested, clock>>

Finish == /\ InCallback
          /\ live' = live \ {Top.iter}
          /\ stack' = SetTop(None)
          /\ UNCHANGED <<timers, active, nextId, info, nested, clock>>

(* Mutant: the arrays do not swap roles.                                   *)
EndKeepsActive == /\ stack /= << >> /\ Top.iter = None
                  /\ timers[Top.array] = << >>
                  /\ stack' = Front(stack)
                  /\ UNCHANGED <<timers, active, nextId, info, live, nested, clock>>

EndDispatch == /\ stack /= << >> /\ Top.iter = None
               /\ timers[Top.array] = << >>
               /\ active' = Other(active)
               /\ stack' = Front(stack)
               /\ UNCHANGED <<timers, nextId, info, live, nested, clock>>

Dispatch == BeginDispatch \/ CallTimer \/ SkipTimer \/ Repeat \/ Finish \/ EndDispatch

Next == \/ Tick
        \/ \E d \in Duration : ManagerAdd(d)
        \/ \E id \in Id : ManagerRemove(id)
        \/ Dispatch

Spec == Init /\ [][Next]_vars
-----------------------------------------------------------------------------
(* timer_next_time looks at the active array only.                         *)
MaxAhead == 65535

NextTime == LET deadlines == {Deadline(timers[active][i]) : i \in 1 .. Len(timers[active])}
            IN  Min(deadlines \cup {(GetTime + MaxAhead) % Wrap})
-----------------------------------------------------------------------------
(* Types; ids are handed out in order and at most once.                    *)
TypeOK == /\ timers \in [{0, 1} -> Seq(Id)]
          /\ active \in {0, 1}
          /\ nextId \in 1 .. MaxId + 1
          /\ info \in Seq(Info) /\ Len(info) = nextId - 1
          /\ live \subseteq 1 .. nextId - 1
          /\ stack \in Seq(Frame) /\ Len(stack) <= MaxDepth
          /\ nested \in BOOLEAN
          /\ clock \in 0 .. MaxTime

Places(id) == {<<0, i>> : i \in {j \in 1 .. Len(timers[0]) : timers[0][j] = id}}
              \cup {<<1, i>> : i \in {j \in 1 .. Len(timers[1]) : timers[1][j] = id}}
              \cup {<<2, i>> : i \in {j \in 1 .. Len(stack) : stack[j].iter = id}}

(* A timer that was added and neither removed nor finished is in exactly   *)
(* one place, an array or a running callback, and a freed one in none:     *)
(* nested dispatches (modal dialogs) neither lose timers, nor re-enter the *)
(* callback of one, nor leave a freed timer behind.                        *)
OnePlaceEach == /\ \A id \in live : \E p \in Places(id) : Places(id) = {p}
                /\ \A id \in Id \ live : Places(id) = {}

(* No timer fires before its duration has passed since it was started.     *)
NeverEarly == \A i \in 1 .. Len(stack) : stack[i].iter /= None => Elapsed(stack[i].iter)

(* timer.h on timer_dispatch: it checks all timers and calls the function  *)
(* of those whose time has come.  As long as dispatches did not nest, one  *)
(* that has nothing left to pop has called every timer that was due when   *)
(* it started.                                                             *)
DispatchFiresAllDue ==
    /\ ~nested
    /\ stack /= << >> /\ Top.iter = None /\ timers[Top.array] = << >>
    => Top.owed = {}

(* Between dispatches timer_next_time, from which the main loop computes   *)
(* how long to sleep, is not later than any timer's deadline, as long as   *)
(* dispatches did not nest.                                                *)
NextTimeIsEarliest == ~nested /\ stack = << >> => \A id \in live : NextTime <= Deadline(id)
=============================================================================
