---------------------------- MODULE LockedQueue ----------------------------
(***************************************************************************)
(* main_loop_simple_queue_event and main_loop_simple_recv_event of         *)
(* main_loop/main_loop_simple.c: the ring buffer shared between threads.   *)
(* Any thread may post, only the GUI thread receives, and both do so under *)
(* the mutex of the loop.  The ring operations are taken apart into the    *)
(* loads and stores of event_queue_send and event_queue_recv, so that      *)
(* what is atomic here is one access to the shared structure, and nothing  *)
(* but the mutex keeps two threads out of each other's way.                *)
(***************************************************************************)
EXTENDS EventQueue

CONSTANTS Thread,     \* every thread that may post
          Gui,        \* the thread that runs the main loop
          NoThread    \* the mutex is free

ASSUME ThreadAssumption == Gui \in Thread /\ NoThread \notin Thread

VARIABLES mutex,      \* the thread that holds loop->mutex, or NoThread
          pc,         \* where each thread is
          op,         \* the operation a thread is in: "send" or "recv"
          req         \* the caller's event_queue_req_t

lockedVars == <<ringVars, mutex, pc, op, req>>

LockedInit == /\ RingInit
              /\ mutex = NoThread
              /\ pc = [t \in Thread |-> "idle"]
              /\ op = [t \in Thread |-> "send"]
              /\ req = [t \in Thread |-> NoEvent]
-----------------------------------------------------------------------------
Goto(t, from, to) == pc[t] = from /\ pc' = [pc EXCEPT ![t] = to]

(* A thread enters main_loop_simple_queue_event with a request.            *)
QueueEvent(t, e) == /\ Goto(t, "idle", "lock")
                    /\ op' = [op EXCEPT ![t] = "send"]
                    /\ req' = [req EXCEPT ![t] = e]
                    /\ UNCHANGED <<ringVars, mutex>>

(* The GUI thread enters main_loop_simple_recv_event.                      *)
RecvEvent == /\ Goto(Gui, "idle", "lock")
             /\ op' = [op EXCEPT ![Gui] = "recv"]
             /\ req' = [req EXCEPT ![Gui] = NoEvent]
             /\ UNCHANGED <<ringVars, mutex>>

Lock(t) == /\ Goto(t, "lock", "test")
           /\ mutex = NoThread
           /\ mutex' = t
           /\ UNCHANGED <<ringVars, op, req>>

(* The test at the head of event_queue_send and event_queue_recv.          *)
Test(t) ==
    /\ pc[t] = "test"
    /\ IF IF op[t] = "send" THEN HasRoom ELSE HasEvent
       THEN /\ pc' = [pc EXCEPT ![t] = "copy"]
            /\ UNCHANGED reply
       ELSE /\ pc' = [pc EXCEPT ![t] = "unlock"]
            /\ reply' = Reply(op[t], "FAIL", req[t])
    /\ UNCHANGED <<r, w, full, events, mutex, op, req>>

(* The memcpy between the request and its slot.                            *)
Copy(t) ==
    /\ Goto(t, "copy", "advance")
    /\ IF op[t] = "send"
       THEN events' = [events EXCEPT ![w] = req[t]] /\ UNCHANGED req
       ELSE req' = [req EXCEPT ![t] = events[r]] /\ UNCHANGED events
    /\ UNCHANGED <<r, w, full, reply, mutex, op>>

(* The update of the index.  This is where the operation takes effect.     *)
AdvanceIndex(t) ==
    /\ Goto(t, "advance", "mark")
    /\ IF op[t] = "send"
       THEN w' = Advance(w) /\ UNCHANGED r
       ELSE r' = Advance(r) /\ UNCHANGED w
    /\ reply' = Reply(op[t], "OK", req[t])
    /\ UNCHANGED <<full, events, mutex, op, req>>

(* Mutant: event_queue_recv leaves the flag set.                           *)
MarkForgetsClear(t) ==
    /\ Goto(t, "mark", "unlock")
    /\ full' = (full \/ (op[t] = "send" /\ r = w))
    /\ UNCHANGED <<r, w, events, reply, mutex, op, req>>

(* The update of the full flag.                                            *)
MarkFull(t) ==
    /\ Goto(t, "mark", "unlock")
    /\ full' = (op[t] = "send" /\ (full \/ r = w))
    /\ UNCHANGED <<r, w, events, reply, mutex, op, req>>

Unlock(t) == /\ Goto(t, "unlock", "idle")
             /\ mutex' = NoThread
             /\ UNCHANGED <<ringVars, op, req>>

Step(t) == \/ Lock(t)
           \/ Test(t)
           \/ Copy(t)
           \/ AdvanceIndex(t)
           \/ MarkFull(t)
           \/ Unlock(t)

LockedNext == \/ \E t \in Thread, e \in Event : QueueEvent(t, e)
              \/ RecvEvent
              \/ \E t \in Thread : Step(t)

LockedSpec == LockedInit /\ [][LockedNext]_lockedVars
-----------------------------------------------------------------------------
(* The abstract queue.  Between the update of w and the update of the flag *)
(* a queue that has just become full is not flagged yet.                   *)
FullSoon == full \/ (r = w /\ \E t \in Thread : pc[t] = "mark" /\ op[t] = "send")

LockedRing == INSTANCE EventQueue WITH full <- FullSoon

LockedFifo == INSTANCE BoundedFifo WITH queue <- LockedRing!Contents
-----------------------------------------------------------------------------
(* Types of the shared ring, the mutex and the callers' locals.            *)
LockedTypeOK ==
    /\ RingTypeOK
    /\ mutex \in Thread \cup {NoThread}
    /\ pc \in [Thread -> {"idle", "lock", "test", "copy", "advance", "mark", "unlock"}]
    /\ op \in [Thread -> {"send", "recv"}]
    /\ req \in [Thread -> Event \cup {NoEvent}]

InCriticalSection(t) == pc[t] \in {"test", "copy", "advance", "mark", "unlock"}

(* A thread that executes event_queue_send or event_queue_recv holds the   *)
(* mutex, so no two threads are inside them together.                      *)
MutualExclusion == \A t \in Thread : InCriticalSection(t) => mutex = t

(* Two threads in queue_event and recv_event at the same time still see a  *)
(* bounded first-in first-out queue: each request that was accepted is     *)
(* received exactly once and in order, and one is refused only while the   *)
(* queue is full.                                                          *)
LockedImplementsFifo == LockedFifo!Spec
=============================================================================
