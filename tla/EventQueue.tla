----------------------------- MODULE EventQueue -----------------------------
(***************************************************************************)
(* base/event_queue.c: the ring buffer of requests between the threads     *)
(* that post (the input thread, idle_queue, timer_queue) and the GUI       *)
(* thread.  The read index r, the write index w and the flag full are the  *)
(* fields of event_queue_t; r = w means "empty" or "full", and only the    *)
(* flag tells which.  Each operation is one action here, the way a caller  *)
(* that holds the mutex sees it; LockedQueue takes the same operations     *)
(* apart into their loads and stores.                                      *)
(***************************************************************************)
EXTENDS Naturals, Sequences

CONSTANTS Capacity,   \* event_queue_t.capacity, 20 in main_loop_simple_init
          Event,      \* the requests that are posted
          NoEvent     \* an all zero event_queue_req_t (type EVT_NONE)

(* event_queue_create refuses a capacity below 2.                          *)
ASSUME CapacityAssumption == Capacity \in Nat /\ Capacity > 1
ASSUME NoEventAssumption == NoEvent \notin Event

VARIABLES r,          \* index of the next request to receive
          w,          \* index of the next slot to fill
          full,       \* the queue is full (and then r = w)
          events,     \* the slots
          reply       \* what the last completed operation returned

ringVars == <<r, w, full, events, reply>>

Index == 0 .. Capacity - 1

Reply(op, ret, ev) == [op |-> op, ret |-> ret, ev |-> ev]
-----------------------------------------------------------------------------
(* The index after i: "if (i + 1 < capacity) i++ else i = 0".              *)
Advance(i) == IF i + 1 < Capacity THEN i + 1 ELSE 0

HasEvent == r /= w \/ full

(* Mutant: the full flag is not consulted before writing.                  *)
HasRoomIgnoringFull == TRUE

HasRoom == r /= w \/ ~full

RingInit == /\ r = 0
            /\ w = 0
            /\ full = FALSE
            /\ events = [i \in Index |-> NoEvent]
            /\ reply = Reply("create", "OK", NoEvent)

(* Mutant: event_queue_recv forgets to clear the full flag.                *)
RecvKeepsFull == IF HasEvent
                 THEN /\ r' = Advance(r)
                      /\ reply' = Reply("recv", "OK", events[r])
                      /\ UNCHANGED <<w, full, events>>
                 ELSE /\ reply' = Reply("recv", "FAIL", NoEvent)
                      /\ UNCHANGED <<r, w, full, events>>

Recv == IF HasEvent
        THEN /\ r' = Advance(r)
             /\ full' = FALSE
             /\ reply' = Reply("recv", "OK", events[r])
             /\ UNCHANGED <<w, events>>
        ELSE /\ reply' = Reply("recv", "FAIL", NoEvent)
             /\ UNCHANGED <<r, w, full, events>>

Send(e) == IF HasRoom
           THEN /\ events' = [events EXCEPT ![w] = e]
                /\ w' = Advance(w)
                /\ full' = (full \/ r = w')
                /\ reply' = Reply("send", "OK", e)
                /\ UNCHANGED r
           ELSE /\ reply' = Reply("send", "FAIL", e)
                /\ UNCHANGED <<r, w, full, events>>

(* The slot before w is overwritten whether or not it holds a request that *)
(* is still waiting; the result is RET_OK in both cases.                   *)
ReplaceLast(e) ==
    /\ events' = [events EXCEPT ![IF w > 0 THEN w - 1 ELSE Capacity - 1] = e]
    /\ reply' = Reply("replace", "OK", e)
    /\ UNCHANGED <<r, w, full>>

RingNext == \/ Recv
            \/ \E e \in Event : Send(e)
            \/ \E e \in Event : ReplaceLast(e)

RingSpec == RingInit /\ [][RingNext]_ringVars
-----------------------------------------------------------------------------
(* The abstract queue that the ring stands for: Count requests, the oldest *)
(* at r.                                                                   *)
Count == IF r < w THEN w - r
         ELSE IF r > w \/ full THEN Capacity - r + w
         ELSE 0

Slot(i) == IF r + i < Capacity THEN r + i ELSE r + i - Capacity

Contents == [i \in 1 .. Count |-> events[Slot(i - 1)]]

Fifo == INSTANCE BoundedFifo WITH queue <- Contents
-----------------------------------------------------------------------------
(* Each field of event_queue_t keeps its type; both indices stay inside    *)
(* the allocated array of slots.                                           *)
RingTypeOK == /\ r \in Index
              /\ w \in Index
              /\ full \in BOOLEAN
              /\ events \in [Index -> Event \cup {NoEvent}]
              /\ reply \in [op : {"create", "send", "recv", "replace"},
                            ret : {"OK", "FAIL"}, ev : Event \cup {NoEvent}]

(* The flag that event_queue_send sets and event_queue_recv clears is only *)
(* ever set while the two indices meet.  This is what makes the tests      *)
(* "r != w || full" and "r != w || !full" mean not empty and not full.     *)
FullOnlyWhenMet == full => r = w

(* event_queue.c as a whole: the ring behaves like a bounded first-in      *)
(* first-out queue, with nothing lost, duplicated or reordered.            *)
ImplementsFifo == Fifo!Spec
=============================================================================
