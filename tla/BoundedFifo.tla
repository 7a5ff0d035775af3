---------------------------- MODULE BoundedFifo ----------------------------
(***************************************************************************)
(* What an event queue promises its users: a first-in first-out sequence   *)
(* of at most Capacity requests.  A request that does not fit is refused   *)
(* and changes nothing, receiving from an empty queue fails, and the       *)
(* newest request may be overwritten in place.  There is no source code    *)
(* behind this module: it is the specification that the ring buffer of     *)
(* base/event_queue.c (EventQueue) and the mutex protected queue of        *)
(* main_loop/main_loop_simple.c (LockedQueue) are shown to implement.      *)
(***************************************************************************)
EXTENDS Naturals, Sequences

CONSTANTS Capacity,   \* requests the queue can hold
          Event,      \* the requests users send
          NoEvent     \* the zero filled request, what fresh memory holds

VARIABLES queue,      \* the accepted requests that were not received yet
          reply       \* result of the last completed operation

fifoVars == <<queue, reply>>

Reply(op, ret, ev) == [op |-> op, ret |-> ret, ev |-> ev]

Init == /\ queue = << >>
        /\ reply = Reply("create", "OK", NoEvent)

Send(e) == /\ Len(queue) < Capacity
           /\ queue' = Append(queue, e)
           /\ reply' = Reply("send", "OK", e)

Refuse(e) == /\ Len(queue) = Capacity
             /\ reply' = Reply("send", "FAIL", e)
             /\ UNCHANGED queue

Recv == /\ queue /= << >>
        /\ queue' = Tail(queue)
        /\ reply' = Reply("recv", "OK", Head(queue))

Empty == /\ queue = << >>
         /\ reply' = Reply("recv", "FAIL", NoEvent)
         /\ UNCHANGED queue

ReplaceLast(e) == /\ queue' = IF queue = << >> THEN << >>
                              ELSE [queue EXCEPT ![Len(queue)] = e]
                  /\ reply' = Reply("replace", "OK", e)

Next == \/ \E e \in Event : Send(e) \/ Refuse(e) \/ ReplaceLast(e)
        \/ Recv
        \/ Empty

Spec == Init /\ [][Next]_fifoVars
=============================================================================
