--------------------------- MODULE MainLoopProofs ---------------------------
(***************************************************************************)
(* Proofs about the main loop: the queue that it shares with other threads *)
(* and the loops that modal dialogs nest in it.                            *)
(*                                                                         *)
(* First the ring buffer of base/event_queue.c, for every capacity and     *)
(* every set of requests: it keeps its type, its full flag means what its  *)
(* tests take it to mean, and it implements BoundedFifo.  Then, for every  *)
(* number of threads, the ring under the mutex of main_loop_simple.c, with *)
(* its operations taken apart into single accesses: what the threads see   *)
(* is still BoundedFifo.  Last, for any number of dialogs nested to any    *)
(* depth: they do not disturb each other's loops, and each is closed once. *)
(***************************************************************************)
EXTENDS LockedQueue, ModalLoop, SequenceTheorems, TLAPS

-----------------------------------------------------------------------------
(* The n requests that start at index a of the slots ev.                   *)
RingSlot(a, i) == IF a + i < Capacity THEN a + i ELSE a + i - Capacity

RingSeq(a, n, ev) == [i \in 1 .. n |-> ev[RingSlot(a, i - 1)]]

Slots == [Index -> Event \cup {NoEvent}]

(* The wrap test of event_queue_send and event_queue_recv keeps an index   *)
(* inside the array and always moves it.                                   *)
LEMMA AdvanceType == \A i \in Index : Advance(i) \in Index /\ Advance(i) /= i
BY CapacityAssumption DEF Advance, Index

(* The i-th request behind index a has a slot inside the array, and no two *)
(* of Capacity consecutive requests share one.                             *)
LEMMA SlotsApart ==
    ASSUME NEW a \in Index, NEW i \in 0 .. Capacity - 1, NEW j \in 0 .. Capacity - 1
    PROVE  RingSlot(a, i) \in Index /\ (i /= j => RingSlot(a, i) /= RingSlot(a, j))
BY CapacityAssumption DEF RingSlot, Index

(* The requests form a sequence of the length asked for.                   *)
LEMMA RingSeqType ==
    ASSUME NEW a \in Index, NEW n \in 0 .. Capacity, NEW ev \in Slots
    PROVE  /\ RingSeq(a, n, ev) \in Seq(Event \cup {NoEvent})
           /\ Len(RingSeq(a, n, ev)) = n
           /\ \A i \in 1 .. n : RingSeq(a, n, ev)[i] = ev[RingSlot(a, i - 1)]
<1>1. \A i \in 1 .. n : i - 1 \in 0 .. Capacity - 1
      BY CapacityAssumption
<1>2. \A i \in 1 .. n : ev[RingSlot(a, i - 1)] \in Event \cup {NoEvent}
      BY <1>1, SlotsApart DEF Slots
<1>3. QED BY <1>2 DEF RingSeq

(* A write behind the last request leaves the requests as they were.       *)
LEMMA RingSeqWrite ==
    ASSUME NEW a \in Index, NEW n \in 0 .. Capacity - 1, NEW ev \in Slots,
           NEW e \in Event \cup {NoEvent}
    PROVE  RingSeq(a, n, [ev EXCEPT ![RingSlot(a, n)] = e]) = RingSeq(a, n, ev)
<1> DEFINE new == [ev EXCEPT ![RingSlot(a, n)] = e]
<1>1. \A i \in 1 .. n : new[RingSlot(a, i - 1)] = ev[RingSlot(a, i - 1)]
  <2> SUFFICES ASSUME NEW i \in 1 .. n
               PROVE  new[RingSlot(a, i - 1)] = ev[RingSlot(a, i - 1)]
      OBVIOUS
  <2>1. i - 1 \in 0 .. Capacity - 1 /\ i - 1 /= n
        BY CapacityAssumption
  <2>2. RingSlot(a, i - 1) \in Index /\ RingSlot(a, i - 1) /= RingSlot(a, n)
        BY <2>1, SlotsApart
  <2>3. QED BY <2>2 DEF Slots
<1>2. QED BY <1>1 DEF RingSeq

(* Counting one more request appends what its slot holds.                  *)
LEMMA RingSeqSend ==
    ASSUME NEW a \in Index, NEW n \in 0 .. Capacity - 1, NEW ev \in Slots
    PROVE  RingSeq(a, n + 1, ev) = Append(RingSeq(a, n, ev), ev[RingSlot(a, n)])
<1> DEFINE S == Event \cup {NoEvent}
           e == ev[RingSlot(a, n)]
           old == RingSeq(a, n, ev)
           new == RingSeq(a, n + 1, ev)
<1>1. n \in 0 .. Capacity /\ n + 1 \in 0 .. Capacity /\ n \in Nat
      BY CapacityAssumption
<1>2. /\ old \in Seq(S) /\ Len(old) = n
      /\ \A i \in 1 .. n : old[i] = ev[RingSlot(a, i - 1)]
      BY <1>1, RingSeqType
<1>3. /\ new \in Seq(S) /\ Len(new) = n + 1
      /\ \A i \in 1 .. n + 1 : new[i] = ev[RingSlot(a, i - 1)]
      BY <1>1, RingSeqType
<1>4. e \in S
      BY SlotsApart DEF Slots
<1> HIDE DEF S, e, old, new
<1>5. /\ Append(old, e) \in Seq(S) /\ Len(Append(old, e)) = n + 1
      /\ \A i \in 1 .. n : Append(old, e)[i] = old[i]
      /\ Append(old, e)[n + 1] = e
      BY <1>2, <1>4, AppendProperties
<1>6. \A i \in 1 .. n + 1 : new[i] = Append(old, e)[i]
  <2> SUFFICES ASSUME NEW i \in 1 .. n + 1 PROVE new[i] = Append(old, e)[i]
      OBVIOUS
  <2>1. CASE i = n + 1
    <3>1. i - 1 = n
          BY <1>1, <2>1
    <3>2. new[i] = e
          BY <1>3, <3>1 DEF e
    <3>3. QED BY <1>5, <2>1, <3>2
  <2>2. CASE i \in 1 .. n
        BY <1>1, <1>2, <1>3, <1>5, <2>2
  <2>3. i = n + 1 \/ i \in 1 .. n
        BY <1>1
  <2>4. QED BY <2>1, <2>2, <2>3
<1>7. new = Append(old, e)
      BY <1>3, <1>5, <1>6, SeqEqual
<1>8. QED BY <1>7 DEF new, old, e

(* Advancing the start drops the first request, the one at the old start.  *)
LEMMA RingSeqRecv ==
    ASSUME NEW a \in Index, NEW n \in 1 .. Capacity, NEW ev \in Slots
    PROVE  /\ RingSeq(a, n, ev) /= << >>
           /\ Head(RingSeq(a, n, ev)) = ev[a]
           /\ RingSeq(Advance(a), n - 1, ev) = Tail(RingSeq(a, n, ev))
<1> DEFINE S == Event \cup {NoEvent}
           old == RingSeq(a, n, ev)
           new == RingSeq(Advance(a), n - 1, ev)
<1>1. n \in 0 .. Capacity /\ n - 1 \in 0 .. Capacity /\ Advance(a) \in Index
      BY CapacityAssumption, AdvanceType
<1>2. /\ old \in Seq(S) /\ Len(old) = n
      /\ \A i \in 1 .. n : old[i] = ev[RingSlot(a, i - 1)]
      BY <1>1, RingSeqType
<1>3. /\ new \in Seq(S) /\ Len(new) = n - 1
      /\ \A i \in 1 .. n - 1 : new[i] = ev[RingSlot(Advance(a), i - 1)]
      BY <1>1, RingSeqType
<1> HIDE DEF S, old, new
<1>4. old /= << >>
      BY <1>2, EmptySeq
<1>5. old[1] = ev[a]
  <2>1. RingSlot(a, 1 - 1) = a
        BY CapacityAssumption DEF RingSlot, Index
  <2>2. QED BY <1>2, <2>1
<1>6. /\ Head(old) = old[1] /\ Tail(old) \in Seq(S) /\ Len(Tail(old)) = n - 1
      /\ \A i \in 1 .. n - 1 : Tail(old)[i] = old[i + 1]
      BY <1>2, <1>4, HeadTailProperties
<1>7. \A i \in 1 .. n - 1 : new[i] = Tail(old)[i]
  <2> SUFFICES ASSUME NEW i \in 1 .. n - 1 PROVE new[i] = Tail(old)[i]
      OBVIOUS
  <2>1. i + 1 \in 1 .. n /\ (i + 1) - 1 = i
        OBVIOUS
  <2>2. RingSlot(Advance(a), i - 1) = RingSlot(a, i)
        BY CapacityAssumption DEF RingSlot, Advance, Index
  <2>3. old[i + 1] = ev[RingSlot(a, i)]
        BY <1>2, <2>1
  <2>4. QED BY <1>3, <1>6, <2>2, <2>3
<1>8. new = Tail(old)
      BY <1>3, <1>6, <1>7, SeqEqual
<1>9. QED BY <1>4, <1>5, <1>6, <1>8 DEF new, old

-----------------------------------------------------------------------------
(* The ring invariant: the two facts every operation of the ring needs.    *)
RingInv == RingTypeOK /\ FullOnlyWhenMet

(* event_queue_create establishes the ring invariant.                      *)
LEMMA InitRing == RingInit => RingInv
<1> SUFFICES ASSUME RingInit PROVE RingInv
    OBVIOUS
<1>1. 0 \in Index
      BY CapacityAssumption DEF Index
<1>2. r \in Index /\ w \in Index /\ full \in BOOLEAN /\ FullOnlyWhenMet
      BY <1>1 DEF RingInit, FullOnlyWhenMet
<1>3. events \in [Index -> Event \cup {NoEvent}]
      BY DEF RingInit
<1>4. QED BY <1>2, <1>3 DEF RingInit, RingInv, RingTypeOK, Reply

(* Every operation of event_queue.c preserves the ring invariant.          *)
LEMMA NextRing == RingInv /\ [RingNext]_ringVars => RingInv'
<1> SUFFICES ASSUME RingInv, [RingNext]_ringVars PROVE RingInv'
    OBVIOUS
<1> USE DEF RingInv, RingTypeOK, FullOnlyWhenMet
<1>1. CASE Recv
  <2>1. CASE HasEvent
    <3>1. r' \in Index /\ full' = FALSE /\ w' = w /\ events' = events
          BY <1>1, <2>1, AdvanceType DEF Recv
    <3>2. reply' = Reply("recv", "OK", events[r]) /\ events[r] \in Event \cup {NoEvent}
          BY <1>1, <2>1 DEF Recv
    <3>3. QED BY <3>1, <3>2 DEF Reply
  <2>2. CASE ~HasEvent
        BY <1>1, <2>2 DEF Recv, Reply
  <2>3. QED BY <2>1, <2>2
<1>2. ASSUME NEW e \in Event, Send(e) PROVE RingInv'
  <2>1. CASE HasRoom
    <3>1. ~full
          BY <2>1 DEF HasRoom
    <3>2. w' \in Index /\ events' \in [Index -> Event \cup {NoEvent}]
          BY <1>2, <2>1, AdvanceType DEF Send
    <3>3. full' = (r = w') /\ r' = r
          BY <1>2, <2>1, <3>1 DEF Send
    <3>4. QED BY <1>2, <2>1, <3>2, <3>3 DEF Send, Reply
  <2>2. CASE ~HasRoom
        BY <1>2, <2>2 DEF Send, Reply
  <2>3. QED BY <2>1, <2>2
<1>3. ASSUME NEW e \in Event, ReplaceLast(e) PROVE RingInv'
      BY <1>3 DEF ReplaceLast, Reply
<1>4. CASE UNCHANGED ringVars
      BY <1>4 DEF ringVars
<1>5. QED BY <1>1, <1>2, <1>3, <1>4 DEF RingNext

(* The fields of event_queue_t keep their types in every reachable state:  *)
(* no operation indexes outside the slots that were allocated.             *)
THEOREM TypeCorrect == RingSpec => []RingTypeOK
<1>1. RingInv => RingTypeOK
      BY DEF RingInv
<1>2. QED BY <1>1, InitRing, NextRing, PTL DEF RingSpec

(* The full flag is only set while the indices meet.                       *)
THEOREM FullCorrect == RingSpec => []FullOnlyWhenMet
<1>1. RingInv => FullOnlyWhenMet
      BY DEF RingInv
<1>2. QED BY <1>1, InitRing, NextRing, PTL DEF RingSpec

-----------------------------------------------------------------------------
(* The ring always stands for a sequence of at most Capacity requests.     *)
LEMMA ContentsType ==
    RingInv => /\ Count \in 0 .. Capacity
               /\ Contents = RingSeq(r, Count, events)
               /\ Contents \in Seq(Event \cup {NoEvent})
               /\ Len(Contents) = Count
<1> SUFFICES ASSUME RingInv
             PROVE /\ Count \in 0 .. Capacity
                   /\ Contents = RingSeq(r, Count, events)
                   /\ Contents \in Seq(Event \cup {NoEvent})
                   /\ Len(Contents) = Count
    OBVIOUS
<1>1. Count \in 0 .. Capacity
      BY CapacityAssumption DEF RingInv, RingTypeOK, Index, Count
<1>2. Contents = RingSeq(r, Count, events)
      BY DEF Contents, RingSeq, Slot, RingSlot
<1>3. QED BY <1>1, <1>2, RingSeqType DEF RingInv, RingTypeOK, Slots

(* The same after a step.                                                  *)
LEMMA ContentsTypeNext ==
    RingInv' => /\ Count' \in 0 .. Capacity
                /\ Contents' = RingSeq(r', Count', events')
                /\ Contents' \in Seq(Event \cup {NoEvent})
                /\ Len(Contents') = Count'
<1>1. (RingInv => /\ Count \in 0 .. Capacity
                  /\ Contents = RingSeq(r, Count, events)
                  /\ Contents \in Seq(Event \cup {NoEvent})
                  /\ Len(Contents) = Count)'
      BY ContentsType, PTL
<1>2. QED BY <1>1

(* The tests of event_queue_recv and event_queue_send decide exactly       *)
(* whether the sequence is empty, and whether it has reached Capacity.     *)
LEMMA TestsAreExact ==
    RingInv => /\ HasEvent <=> Count > 0
               /\ HasRoom <=> Count < Capacity
BY CapacityAssumption
   DEF RingInv, RingTypeOK, FullOnlyWhenMet, Index, Count, HasEvent, HasRoom

-----------------------------------------------------------------------------
(* A fresh ring is the empty queue.                                        *)
LEMMA InitRefines == RingInit => Fifo!Init
BY CapacityAssumption
   DEF RingInit, Fifo!Init, Contents, Count, Reply, Fifo!Reply

(* A successful event_queue_send appends its request.                      *)
LEMMA SendAppends ==
    ASSUME RingInv, RingInv', HasRoom, NEW e \in Event, Send(e)
    PROVE  Contents' = Append(Contents, e)
<1>1. /\ w' = Advance(w) /\ r' = r /\ events' = [events EXCEPT ![w] = e]
      /\ r' = w' => full'
      BY DEF Send
<1>2. Count' = Count + 1 /\ Count \in 0 .. Capacity - 1 /\ RingSlot(r, Count) = w
      BY <1>1, CapacityAssumption
         DEF RingInv, RingTypeOK, FullOnlyWhenMet, Index, Count, Advance, HasRoom, RingSlot
<1>3. /\ r \in Index /\ w \in Index /\ events \in Slots /\ events' \in Slots
      BY DEF RingInv, RingTypeOK, Slots
<1>4. Contents' = RingSeq(r, Count + 1, events')
      BY <1>1, <1>2, ContentsTypeNext
<1>5. RingSeq(r, Count, events') = Contents
  <2>1. RingSeq(r, Count, [events EXCEPT ![RingSlot(r, Count)] = e]) = RingSeq(r, Count, events)
        BY <1>2, <1>3, RingSeqWrite
  <2>2. QED BY <1>1, <1>2, <2>1, ContentsType
<1>6. events'[w] = e
      BY <1>1, <1>3 DEF Slots
<1>7. QED BY <1>2, <1>3, <1>4, <1>5, <1>6, RingSeqSend, SMTT(30)

(* A successful event_queue_recv returns the oldest request and takes it   *)
(* off the front.                                                          *)
LEMMA RecvTakesHead ==
    ASSUME RingInv, RingInv', HasEvent, Recv
    PROVE  /\ Contents /= << >>
           /\ Contents' = Tail(Contents)
           /\ events[r] = Head(Contents)
<1>1. r' = Advance(r) /\ w' = w /\ events' = events /\ full' = FALSE
      BY DEF Recv
<1>2. Count \in 1 .. Capacity
      BY ContentsType, TestsAreExact
<1>3. Count' = Count - 1
      BY <1>1, CapacityAssumption
         DEF RingInv, RingTypeOK, FullOnlyWhenMet, Index, Count, Advance, HasEvent
<1>4. r \in Index /\ events \in Slots
      BY DEF RingInv, RingTypeOK, Slots
<1>5. QED BY <1>1, <1>2, <1>3, <1>4, RingSeqRecv, ContentsType, ContentsTypeNext

(* event_queue_replace_last overwrites the newest request, and leaves an   *)
(* empty queue empty.                                                      *)
LEMMA ReplaceLastOverwrites ==
    ASSUME RingInv, RingInv', NEW e \in Event, ReplaceLast(e)
    PROVE  Contents' = IF Contents = << >> THEN << >>
                       ELSE [Contents EXCEPT ![Len(Contents)] = e]
<1> DEFINE last == IF w > 0 THEN w - 1 ELSE Capacity - 1
<1>1. r' = r /\ w' = w /\ full' = full /\ events' = [events EXCEPT ![last] = e]
      BY DEF ReplaceLast
<1>2. Count' = Count /\ Count \in Nat /\ Len(Contents) = Count
      BY <1>1, ContentsType DEF Count
<1>3. /\ Contents' \in Seq(Event \cup {NoEvent}) /\ Len(Contents') = Count
      BY <1>2, ContentsTypeNext
<1>4. CASE Contents = << >>
      BY <1>2, <1>3, <1>4, EmptySeq
<1>5. CASE Contents /= << >>
  <2>1. Count \in 1 .. Capacity
        BY <1>2, <1>5, ContentsType, EmptySeq
  <2>2. Slot(Count - 1) = last
        BY <2>1, CapacityAssumption
           DEF Slot, Count, RingInv, RingTypeOK, FullOnlyWhenMet, Index
  <2>3. \A i \in 1 .. Count - 1 : Slot(i - 1) \in Index /\ Slot(i - 1) /= last
        BY <2>1, CapacityAssumption
           DEF Slot, Count, RingInv, RingTypeOK, FullOnlyWhenMet, Index
  <2>4. last \in Index
        BY CapacityAssumption DEF RingInv, RingTypeOK, Index
  <2> DEFINE new == [Contents EXCEPT ![Count] = e]
  <2>5. /\ new \in Seq(Event \cup {NoEvent}) /\ Len(new) = Count
        /\ \A i \in 1 .. Count : new[i] = IF i = Count THEN e ELSE Contents[i]
        BY <1>2, <2>1, ContentsType, ExceptSeq
  <2>6. \A i \in 1 .. Count : Contents'[i] = events'[Slot(i - 1)]
        BY <1>1, <1>2 DEF Contents, Slot
  <2>7. \A i \in 1 .. Count : Contents'[i] = new[i]
    <3> SUFFICES ASSUME NEW i \in 1 .. Count PROVE Contents'[i] = new[i]
        OBVIOUS
    <3>1. CASE i = Count
          BY <1>1, <2>1, <2>2, <2>4, <2>5, <2>6, <3>1 DEF RingInv, RingTypeOK
    <3>2. CASE i \in 1 .. Count - 1
      <4>1. new[i] = events[Slot(i - 1)]
            BY <2>1, <2>5, <3>2 DEF Contents
      <4>2. events'[Slot(i - 1)] = events[Slot(i - 1)]
            BY <1>1, <2>3, <3>2 DEF RingInv, RingTypeOK
      <4>3. QED BY <2>6, <4>1, <4>2
    <3>3. QED BY <2>1, <3>1, <3>2
  <2> HIDE DEF new
  <2>8. Contents' = new
        BY <1>3, <2>5, <2>7, SeqEqual
  <2>9. QED BY <1>2, <1>5, <2>8 DEF new
<1>6. QED BY <1>4, <1>5

(* Every step of the ring is a step of the bounded queue it stands for.    *)
LEMMA NextRefines == RingInv /\ RingInv' /\ [RingNext]_ringVars => [Fifo!Next]_Fifo!fifoVars
<1> SUFFICES ASSUME RingInv, RingInv', [RingNext]_ringVars
             PROVE  [Fifo!Next]_Fifo!fifoVars
    OBVIOUS
<1>1. Count \in 0 .. Capacity /\ Len(Contents) = Count
      BY ContentsType
<1>2. CASE Recv
  <2>1. CASE HasEvent
    <3>1. Fifo!Recv
          BY <1>2, <2>1, RecvTakesHead DEF Recv, Fifo!Recv, Reply, Fifo!Reply
    <3>2. QED BY <3>1 DEF Fifo!Next
  <2>2. CASE ~HasEvent
    <3>1. Contents = << >>
          BY <1>1, <2>2, TestsAreExact, ContentsType, EmptySeq
    <3>2. Contents' = Contents
          BY <1>2, <2>2 DEF Recv, Contents, Count, Slot
    <3>3. Fifo!Empty
          BY <1>2, <2>2, <3>1, <3>2 DEF Recv, Fifo!Empty, Reply, Fifo!Reply
    <3>4. QED BY <3>3 DEF Fifo!Next
  <2>3. QED BY <2>1, <2>2
<1>3. ASSUME NEW e \in Event, Send(e) PROVE Fifo!Next
  <2>1. CASE HasRoom
    <3>1. Fifo!Send(e)
          BY <1>1, <1>3, <2>1, SendAppends, TestsAreExact
             DEF Send, Fifo!Send, Reply, Fifo!Reply
    <3>2. QED BY <3>1 DEF Fifo!Next
  <2>2. CASE ~HasRoom
    <3>1. Contents' = Contents
          BY <1>3, <2>2 DEF Send, Contents, Count, Slot
    <3>2. Len(Contents) = Capacity
          BY <1>1, <2>2, TestsAreExact, CapacityAssumption
    <3>3. Fifo!Refuse(e)
          BY <1>3, <2>2, <3>1, <3>2 DEF Send, Fifo!Refuse, Reply, Fifo!Reply
    <3>4. QED BY <3>3 DEF Fifo!Next
  <2>3. QED BY <2>1, <2>2
<1>4. ASSUME NEW e \in Event, ReplaceLast(e) PROVE Fifo!Next
  <2>1. Fifo!ReplaceLast(e)
        BY <1>4, ReplaceLastOverwrites
           DEF ReplaceLast, Fifo!ReplaceLast, Reply, Fifo!Reply
  <2>2. QED BY <2>1 DEF Fifo!Next
<1>5. CASE UNCHANGED ringVars
      BY <1>5 DEF ringVars, Fifo!fifoVars, Contents, Count, Slot
<1>6. QED BY <1>2, <1>3, <1>4, <1>5 DEF RingNext

(* base/event_queue.c implements a bounded first-in first-out queue.       *)
THEOREM RingImplementsFifo == RingSpec => ImplementsFifo
<1>1. QED BY InitRing, NextRing, InitRefines, NextRefines, PTL
          DEF RingSpec, ImplementsFifo, Fifo!Spec

-----------------------------------------------------------------------------
(* The two facts together are inductive: they hold at the start ...        *)
LockedInv == LockedTypeOK /\ MutualExclusion

LEMMA LockedInitInv == LockedInit => LockedInv
<1> SUFFICES ASSUME LockedInit PROVE LockedInv
    OBVIOUS
<1>1. 0 \in Index
      BY CapacityAssumption DEF Index
<1>2. RingTypeOK
      BY <1>1 DEF LockedInit, RingInit, RingTypeOK, Reply
<1>3. LockedTypeOK
      BY <1>2 DEF LockedInit, LockedTypeOK
<1>4. MutualExclusion
      BY DEF LockedInit, MutualExclusion, InCriticalSection
<1>5. QED BY <1>3, <1>4 DEF LockedInv

(* ... and every access by every thread preserves them.                    *)
LEMMA LockedNextInv == LockedInv /\ [LockedNext]_lockedVars => LockedInv'
<1> SUFFICES ASSUME LockedInv, [LockedNext]_lockedVars PROVE LockedInv'
    OBVIOUS
<1> USE DEF LockedInv, LockedTypeOK, MutualExclusion, InCriticalSection
<1>1. ASSUME NEW t \in Thread, NEW e \in Event, QueueEvent(t, e) PROVE LockedInv'
      BY <1>1 DEF QueueEvent, Goto, ringVars, RingTypeOK
<1>2. CASE RecvEvent
      BY <1>2, ThreadAssumption DEF RecvEvent, Goto, ringVars, RingTypeOK
<1>3. ASSUME NEW t \in Thread, Lock(t) PROVE LockedInv'
  <2>1. \A u \in Thread : ~InCriticalSection(u)
        BY <1>3, ThreadAssumption DEF Lock
  <2>2. LockedTypeOK'
        BY <1>3 DEF Lock, Goto, ringVars, RingTypeOK
  <2>3. MutualExclusion'
        BY <1>3, <2>1 DEF Lock, Goto
  <2>4. QED BY <2>2, <2>3
<1>4. ASSUME NEW t \in Thread, Test(t) PROVE LockedInv'
  <2>1. reply' \in [op : {"create", "send", "recv", "replace"},
                    ret : {"OK", "FAIL"}, ev : Event \cup {NoEvent}]
    <3>1. reply' = reply \/ reply' = Reply(op[t], "FAIL", req[t])
          BY <1>4 DEF Test
    <3>2. op[t] \in {"send", "recv"} /\ req[t] \in Event \cup {NoEvent}
          OBVIOUS
    <3>3. QED BY <3>1, <3>2 DEF Reply, RingTypeOK
  <2>2. pc' = [pc EXCEPT ![t] = "copy"] \/ pc' = [pc EXCEPT ![t] = "unlock"]
        BY <1>4 DEF Test
  <2>3. pc[t] = "test" /\ UNCHANGED <<r, w, full, events, mutex, op, req>>
        BY <1>4 DEF Test
  <2>4. LockedTypeOK'
        BY <2>1, <2>2, <2>3 DEF RingTypeOK
  <2>5. MutualExclusion'
        BY <2>2, <2>3
  <2>6. QED BY <2>4, <2>5
<1>5. ASSUME NEW t \in Thread, Copy(t) PROVE LockedInv'
  <2>1. events' \in [Index -> Event \cup {NoEvent}] /\ req' \in [Thread -> Event \cup {NoEvent}]
        BY <1>5 DEF Copy, RingTypeOK
  <2>2. /\ pc[t] = "copy" /\ pc' = [pc EXCEPT ![t] = "advance"]
        /\ UNCHANGED <<r, w, full, reply, mutex, op>>
        BY <1>5 DEF Copy, Goto
  <2>3. QED BY <2>1, <2>2 DEF RingTypeOK
<1>6. ASSUME NEW t \in Thread, AdvanceIndex(t) PROVE LockedInv'
  <2>1. r' \in Index /\ w' \in Index
        BY <1>6, AdvanceType DEF AdvanceIndex, RingTypeOK
  <2>2. reply' = Reply(op[t], "OK", req[t])
        BY <1>6 DEF AdvanceIndex
  <2>3. reply' \in [op : {"create", "send", "recv", "replace"},
                    ret : {"OK", "FAIL"}, ev : Event \cup {NoEvent}]
        BY <2>2 DEF Reply
  <2>4. /\ pc[t] = "advance" /\ pc' = [pc EXCEPT ![t] = "mark"]
        /\ UNCHANGED <<full, events, mutex, op, req>>
        BY <1>6 DEF AdvanceIndex, Goto
  <2>5. QED BY <2>1, <2>3, <2>4 DEF RingTypeOK
<1>7. ASSUME NEW t \in Thread, MarkFull(t) PROVE LockedInv'
  <2>1. full' \in BOOLEAN
        BY <1>7 DEF MarkFull
  <2>2. /\ pc[t] = "mark" /\ pc' = [pc EXCEPT ![t] = "unlock"]
        /\ UNCHANGED <<r, w, events, reply, mutex, op, req>>
        BY <1>7 DEF MarkFull, Goto
  <2>3. QED BY <2>1, <2>2 DEF RingTypeOK
<1>8. ASSUME NEW t \in Thread, Unlock(t) PROVE LockedInv'
  <2>1. pc[t] = "unlock" /\ pc' = [pc EXCEPT ![t] = "idle"] /\ mutex' = NoThread
        BY <1>8 DEF Unlock, Goto
  <2>2. \A u \in Thread : u /= t => ~InCriticalSection(u)
        BY <2>1
  <2>3. MutualExclusion'
        BY <2>1, <2>2
  <2>4. LockedTypeOK'
        BY <1>8, <2>1 DEF Unlock, ringVars, RingTypeOK
  <2>5. QED BY <2>3, <2>4
<1>9. CASE UNCHANGED lockedVars
      BY <1>9 DEF lockedVars, ringVars, RingTypeOK
<1>10. QED BY <1>1, <1>2, <1>3, <1>4, <1>5, <1>6, <1>7, <1>8, <1>9
           DEF LockedNext, Step

(* main_loop_simple_queue_event and main_loop_simple_recv_event: whatever  *)
(* the number of threads, one that is inside event_queue_send or           *)
(* event_queue_recv holds the mutex, so there is never a second one.       *)
THEOREM MutexCorrect == LockedSpec => []MutualExclusion
<1>1. LockedInv => MutualExclusion
      BY DEF LockedInv
<1>2. QED BY <1>1, LockedInitInv, LockedNextInv, PTL DEF LockedSpec

(* The shared ring keeps its type under every interleaving of accesses.    *)
THEOREM LockedTypeCorrect == LockedSpec => []LockedTypeOK
<1>1. LockedInv => LockedTypeOK
      BY DEF LockedInv
<1>2. QED BY <1>1, LockedInitInv, LockedNextInv, PTL DEF LockedSpec

-----------------------------------------------------------------------------
(* What each thread may rely on between two of its accesses.  A poster     *)
(* carries a request, a receiver has an empty one until it has copied.     *)
RequestsReady ==
    \A t \in Thread :
      /\ op[t] = "send" /\ pc[t] /= "idle" => req[t] \in Event
      /\ op[t] = "recv" /\ pc[t] \in {"lock", "test", "copy"} => req[t] = NoEvent

(* The flag lags behind the indices only while a receiver has advanced r   *)
(* and not cleared the flag yet.                                           *)
Receiving == \E t \in Thread : pc[t] = "mark" /\ op[t] = "recv"

FlagLags == full => ((r /= w) <=> Receiving)

(* What a thread's test said is still true when it copies and advances.    *)
TestStillHolds ==
    \A t \in Thread : pc[t] \in {"copy", "advance"} =>
      IF op[t] = "send" THEN HasRoom ELSE HasEvent

(* The slot and the request agree once they are copied.                    *)
CopyStillHolds ==
    \A t \in Thread : pc[t] = "advance" =>
      req[t] = events[IF op[t] = "send" THEN w ELSE r]

SharedInv == /\ LockedInv
             /\ RequestsReady
             /\ FlagLags
             /\ TestStillHolds
             /\ CopyStillHolds

(* The mutex makes everything a thread relies on hold at the start ...     *)
LEMMA SharedInit == LockedInit => SharedInv
<1> SUFFICES ASSUME LockedInit PROVE SharedInv
    OBVIOUS
<1>1. LockedInv
      BY LockedInitInv
<1>2. RequestsReady /\ TestStillHolds /\ CopyStillHolds
      BY DEF LockedInit, RequestsReady, TestStillHolds, CopyStillHolds
<1>3. FlagLags
      BY DEF LockedInit, RingInit, FlagLags
<1>4. QED BY <1>1, <1>2, <1>3 DEF SharedInv

(* While one thread is in the critical section no other is.                *)
LEMMA Alone ==
    ASSUME LockedInv, NEW t \in Thread, InCriticalSection(t)
    PROVE  \A u \in Thread : u /= t => ~InCriticalSection(u)
BY DEF LockedInv, MutualExclusion

(* ... and no access of another thread takes it away.                      *)
LEMMA SharedNext == SharedInv /\ [LockedNext]_lockedVars => SharedInv'
<1> SUFFICES ASSUME SharedInv, [LockedNext]_lockedVars PROVE SharedInv'
    OBVIOUS
<1>0. LockedInv /\ LockedInv'
      BY LockedNextInv DEF SharedInv
<1>a. /\ r \in Index /\ w \in Index /\ full \in BOOLEAN /\ events \in Slots
      /\ pc \in [Thread -> {"idle", "lock", "test", "copy", "advance", "mark", "unlock"}]
      /\ op \in [Thread -> {"send", "recv"}] /\ req \in [Thread -> Event \cup {NoEvent}]
      BY <1>0 DEF LockedInv, LockedTypeOK, RingTypeOK, Slots
<1>b. RequestsReady /\ FlagLags /\ TestStillHolds /\ CopyStillHolds
      BY DEF SharedInv
<1> SUFFICES RequestsReady' /\ FlagLags' /\ TestStillHolds' /\ CopyStillHolds'
    BY <1>0 DEF SharedInv
<1>1. ASSUME NEW t \in Thread, NEW e \in Event, QueueEvent(t, e)
      PROVE  RequestsReady' /\ FlagLags' /\ TestStillHolds' /\ CopyStillHolds'
  <2>1. /\ pc[t] = "idle" /\ pc' = [pc EXCEPT ![t] = "lock"]
        /\ op' = [op EXCEPT ![t] = "send"] /\ req' = [req EXCEPT ![t] = e]
        /\ UNCHANGED <<r, w, full, events>>
        BY <1>1 DEF QueueEvent, Goto, ringVars
  <2>2. RequestsReady'
        BY <1>a, <1>b, <2>1 DEF RequestsReady
  <2>3. FlagLags'
        BY <1>a, <1>b, <2>1 DEF FlagLags, Receiving
  <2>4. TestStillHolds'
        BY <1>a, <1>b, <2>1 DEF TestStillHolds, HasRoom, HasEvent
  <2>5. CopyStillHolds'
        BY <1>a, <1>b, <2>1 DEF CopyStillHolds
  <2>6. QED BY <2>2, <2>3, <2>4, <2>5
<1>2. CASE RecvEvent
  <2>1. /\ pc[Gui] = "idle" /\ pc' = [pc EXCEPT ![Gui] = "lock"] /\ Gui \in Thread
        /\ op' = [op EXCEPT ![Gui] = "recv"] /\ req' = [req EXCEPT ![Gui] = NoEvent]
        /\ UNCHANGED <<r, w, full, events>>
        BY <1>2, ThreadAssumption DEF RecvEvent, Goto, ringVars
  <2>2. RequestsReady'
        BY <1>a, <1>b, <2>1 DEF RequestsReady
  <2>3. FlagLags'
        BY <1>a, <1>b, <2>1 DEF FlagLags, Receiving
  <2>4. TestStillHolds'
        BY <1>a, <1>b, <2>1 DEF TestStillHolds, HasRoom, HasEvent
  <2>5. CopyStillHolds'
        BY <1>a, <1>b, <2>1 DEF CopyStillHolds
  <2>6. QED BY <2>2, <2>3, <2>4, <2>5
<1>3. ASSUME NEW t \in Thread, Lock(t)
      PROVE  RequestsReady' /\ FlagLags' /\ TestStillHolds' /\ CopyStillHolds'
  <2>1. /\ pc[t] = "lock" /\ pc' = [pc EXCEPT ![t] = "test"]
        /\ UNCHANGED <<r, w, full, events, op, req>>
        BY <1>3 DEF Lock, Goto, ringVars
  <2>2. RequestsReady'
        BY <1>a, <1>b, <2>1 DEF RequestsReady
  <2>3. FlagLags'
        BY <1>a, <1>b, <2>1 DEF FlagLags, Receiving
  <2>4. TestStillHolds'
        BY <1>a, <1>b, <2>1 DEF TestStillHolds, HasRoom, HasEvent
  <2>5. CopyStillHolds'
        BY <1>a, <1>b, <2>1 DEF CopyStillHolds
  <2>6. QED BY <2>2, <2>3, <2>4, <2>5
<1>4. ASSUME NEW t \in Thread, Test(t)
      PROVE  RequestsReady' /\ FlagLags' /\ TestStillHolds' /\ CopyStillHolds'
  <2>1. /\ pc[t] = "test"
        /\ \/ /\ pc' = [pc EXCEPT ![t] = "copy"]
              /\ IF op[t] = "send" THEN HasRoom ELSE HasEvent
           \/ pc' = [pc EXCEPT ![t] = "unlock"]
        /\ UNCHANGED <<r, w, full, events, op, req>>
        BY <1>4 DEF Test
  <2>2. RequestsReady'
        BY <1>a, <1>b, <2>1 DEF RequestsReady
  <2>3. FlagLags'
        BY <1>a, <1>b, <2>1 DEF FlagLags, Receiving
  <2>4. TestStillHolds'
        BY <1>a, <1>b, <2>1 DEF TestStillHolds, HasRoom, HasEvent
  <2>5. CopyStillHolds'
        BY <1>a, <1>b, <2>1 DEF CopyStillHolds
  <2>6. QED BY <2>2, <2>3, <2>4, <2>5
<1>5. ASSUME NEW t \in Thread, Copy(t)
      PROVE  RequestsReady' /\ FlagLags' /\ TestStillHolds' /\ CopyStillHolds'
  <2>1. /\ pc[t] = "copy" /\ pc' = [pc EXCEPT ![t] = "advance"]
        /\ UNCHANGED <<r, w, full, op>>
        BY <1>5 DEF Copy, Goto
  <2>2. \A u \in Thread : u /= t => pc[u] \notin {"test", "copy", "advance", "mark", "unlock"}
        BY <1>0, <2>1, Alone DEF InCriticalSection
  <2>3. \/ op[t] = "send" /\ events' = [events EXCEPT ![w] = req[t]] /\ req' = req
        \/ op[t] = "recv" /\ req' = [req EXCEPT ![t] = events[r]] /\ events' = events
        BY <1>a, <1>5 DEF Copy
  <2>4. RequestsReady'
        BY <1>a, <1>b, <2>1, <2>3 DEF RequestsReady
  <2>5. FlagLags'
        BY <1>a, <1>b, <2>1 DEF FlagLags, Receiving
  <2>6. TestStillHolds'
        BY <1>a, <1>b, <2>1 DEF TestStillHolds, HasRoom, HasEvent
  <2>7. CopyStillHolds'
        BY <1>a, <2>1, <2>2, <2>3 DEF CopyStillHolds, Slots
  <2>8. QED BY <2>4, <2>5, <2>6, <2>7
<1>6. ASSUME NEW t \in Thread, AdvanceIndex(t)
      PROVE  RequestsReady' /\ FlagLags' /\ TestStillHolds' /\ CopyStillHolds'
  <2>1. /\ pc[t] = "advance" /\ pc' = [pc EXCEPT ![t] = "mark"]
        /\ UNCHANGED <<full, events, op, req>>
        BY <1>6 DEF AdvanceIndex, Goto
  <2>2. \A u \in Thread : u /= t => pc[u] \notin {"test", "copy", "advance", "mark", "unlock"}
        BY <1>0, <2>1, Alone DEF InCriticalSection
  <2>3. \/ op[t] = "send" /\ w' = Advance(w) /\ r' = r
        \/ op[t] = "recv" /\ r' = Advance(r) /\ w' = w
        BY <1>a, <1>6 DEF AdvanceIndex
  <2>4. RequestsReady'
        BY <1>a, <1>b, <2>1 DEF RequestsReady
  <2>5. FlagLags'
    <3>1. ~Receiving /\ (Receiving' <=> op[t] = "recv")
          BY <1>a, <2>1, <2>2 DEF Receiving
    <3>2. full => r = w
          BY <1>b, <3>1 DEF FlagLags
    <3>3. CASE op[t] = "send"
          BY <1>b, <2>1, <3>2, <3>3 DEF TestStillHolds, HasRoom, FlagLags
    <3>4. CASE op[t] = "recv"
          BY <1>a, <2>1, <2>3, <3>1, <3>2, <3>4, AdvanceType DEF FlagLags
    <3>5. QED BY <1>a, <3>3, <3>4
  <2>6. TestStillHolds' /\ CopyStillHolds'
        BY <1>a, <2>1, <2>2 DEF TestStillHolds, CopyStillHolds
  <2>7. QED BY <2>4, <2>5, <2>6
<1>7. ASSUME NEW t \in Thread, MarkFull(t)
      PROVE  RequestsReady' /\ FlagLags' /\ TestStillHolds' /\ CopyStillHolds'
  <2>1. /\ pc[t] = "mark" /\ pc' = [pc EXCEPT ![t] = "unlock"]
        /\ full' = (op[t] = "send" /\ (full \/ r = w))
        /\ UNCHANGED <<r, w, events, op, req>>
        BY <1>7 DEF MarkFull, Goto
  <2>2. \A u \in Thread : u /= t => pc[u] \notin {"test", "copy", "advance", "mark", "unlock"}
        BY <1>0, <2>1, Alone DEF InCriticalSection
  <2>3. RequestsReady'
        BY <1>a, <1>b, <2>1 DEF RequestsReady
  <2>4. FlagLags'
    <3>1. ~Receiving'
          BY <1>a, <2>1, <2>2 DEF Receiving
    <3>2. op[t] = "send" => ~Receiving
          BY <1>a, <2>1, <2>2 DEF Receiving
    <3>3. full' => r' = w'
          BY <1>b, <2>1, <3>2 DEF FlagLags
    <3>4. QED BY <3>1, <3>3 DEF FlagLags
  <2>5. TestStillHolds' /\ CopyStillHolds'
        BY <1>a, <2>1, <2>2 DEF TestStillHolds, CopyStillHolds
  <2>6. QED BY <2>3, <2>4, <2>5
<1>8. ASSUME NEW t \in Thread, Unlock(t)
      PROVE  RequestsReady' /\ FlagLags' /\ TestStillHolds' /\ CopyStillHolds'
  <2>1. /\ pc[t] = "unlock" /\ pc' = [pc EXCEPT ![t] = "idle"]
        /\ UNCHANGED <<r, w, full, events, op, req>>
        BY <1>8 DEF Unlock, Goto, ringVars
  <2>2. RequestsReady'
        BY <1>a, <1>b, <2>1 DEF RequestsReady
  <2>3. FlagLags'
        BY <1>a, <1>b, <2>1 DEF FlagLags, Receiving
  <2>4. TestStillHolds'
        BY <1>a, <1>b, <2>1 DEF TestStillHolds, HasRoom, HasEvent
  <2>5. CopyStillHolds'
        BY <1>a, <1>b, <2>1 DEF CopyStillHolds
  <2>6. QED BY <2>2, <2>3, <2>4, <2>5
<1>9. CASE UNCHANGED lockedVars
      BY <1>b, <1>9 DEF lockedVars, ringVars, RequestsReady, FlagLags, Receiving,
                       TestStillHolds, HasRoom, HasEvent, CopyStillHolds
<1>10. QED BY <1>1, <1>2, <1>3, <1>4, <1>5, <1>6, <1>7, <1>8, <1>9
           DEF LockedNext, Step

-----------------------------------------------------------------------------
(* A poster has advanced w and not set the flag yet.                       *)
Posting == \E t \in Thread : pc[t] = "mark" /\ op[t] = "send"

(* The shared ring always stands for a sequence of at most Capacity        *)
(* requests, and its length follows from the indices and the flag.         *)
LEMMA SharedContents ==
    SharedInv => /\ r \in Index /\ w \in Index /\ events \in Slots
                 /\ LockedRing!Count = IF r < w THEN w - r
                                       ELSE IF r > w \/ full \/ Posting THEN Capacity - r + w
                                       ELSE 0
                 /\ LockedRing!Count \in 0 .. Capacity
                 /\ LockedRing!Contents = RingSeq(r, LockedRing!Count, events)
                 /\ LockedRing!Contents \in Seq(Event \cup {NoEvent})
                 /\ Len(LockedRing!Contents) = LockedRing!Count
<1> SUFFICES ASSUME SharedInv
             PROVE  /\ r \in Index /\ w \in Index /\ events \in Slots
                    /\ LockedRing!Count = IF r < w THEN w - r
                                          ELSE IF r > w \/ full \/ Posting THEN Capacity - r + w
                                          ELSE 0
                    /\ LockedRing!Count \in 0 .. Capacity
                    /\ LockedRing!Contents = RingSeq(r, LockedRing!Count, events)
                    /\ LockedRing!Contents \in Seq(Event \cup {NoEvent})
                    /\ Len(LockedRing!Contents) = LockedRing!Count
    OBVIOUS
<1>1. r \in Index /\ w \in Index /\ events \in Slots
      BY DEF SharedInv, LockedInv, LockedTypeOK, RingTypeOK, Slots
<1>2. FullSoon <=> full \/ (r = w /\ Posting)
      BY DEF FullSoon, Posting
<1>3. LockedRing!Count = IF r < w THEN w - r
                         ELSE IF r > w \/ full \/ Posting THEN Capacity - r + w
                         ELSE 0
      BY <1>1, <1>2, CapacityAssumption DEF LockedRing!Count, Index
<1>4. LockedRing!Count \in 0 .. Capacity
      BY <1>1, <1>3, CapacityAssumption DEF Index
<1>5. LockedRing!Contents = RingSeq(r, LockedRing!Count, events)
      BY DEF LockedRing!Contents, RingSeq, LockedRing!Slot, RingSlot
<1>6. QED BY <1>1, <1>3, <1>4, <1>5, RingSeqType

(* The same after a step.                                                  *)
LEMMA SharedContentsNext ==
    SharedInv' => /\ LockedRing!Count' = IF r' < w' THEN w' - r'
                                         ELSE IF r' > w' \/ full' \/ Posting'
                                              THEN Capacity - r' + w' ELSE 0
                  /\ LockedRing!Contents' = RingSeq(r', LockedRing!Count', events')
<1>1. (SharedInv => /\ LockedRing!Count = IF r < w THEN w - r
                                          ELSE IF r > w \/ full \/ Posting
                                               THEN Capacity - r + w ELSE 0
                    /\ LockedRing!Contents = RingSeq(r, LockedRing!Count, events))'
  <2>1. SharedInv => /\ LockedRing!Count = IF r < w THEN w - r
                                           ELSE IF r > w \/ full \/ Posting
                                                THEN Capacity - r + w ELSE 0
                     /\ LockedRing!Contents = RingSeq(r, LockedRing!Count, events)
        BY SharedContents
  <2>2. QED BY <2>1, PTL
<1>2. QED BY <1>1

(* For the thread in the critical section the tests of event_queue_send    *)
(* and event_queue_recv are exact: the sequence has room, and w is the     *)
(* slot behind it; or the sequence is not empty.                           *)
LEMMA SharedTests ==
    ASSUME SharedInv, ~Posting, ~Receiving
    PROVE  /\ HasRoom <=> LockedRing!Count < Capacity
           /\ HasRoom => RingSlot(r, LockedRing!Count) = w
           /\ HasEvent <=> LockedRing!Count > 0
<1>1. full => r = w
      BY DEF SharedInv, FlagLags
<1>2. QED BY <1>1, SharedContents, CapacityAssumption DEF HasRoom, HasEvent, Index, RingSlot

(* A step that leaves the indices, the flag, the slots and the reply alone *)
(* and nobody's update half done leaves the abstract queue alone.          *)
LEMMA SharedStutter ==
    ASSUME SharedInv, SharedInv', UNCHANGED <<r, w, full, events, reply>>, Posting' <=> Posting
    PROVE  UNCHANGED LockedFifo!fifoVars
<1>1. LockedRing!Count' = LockedRing!Count
      BY SharedContents, SharedContentsNext
<1>2. QED BY <1>1, SharedContents, SharedContentsNext DEF LockedFifo!fifoVars

(* A fresh shared ring is the empty queue.                                 *)
LEMMA SharedInitRefines == LockedInit => LockedFifo!Init
<1> SUFFICES ASSUME LockedInit PROVE LockedFifo!Init
    OBVIOUS
<1>1. SharedInv
      BY SharedInit
<1>2. ~Posting
      BY DEF LockedInit, Posting
<1>3. LockedRing!Count = 0
      BY <1>1, <1>2, SharedContents DEF LockedInit, RingInit
<1>4. LockedRing!Contents = << >>
      BY <1>1, <1>3, SharedContents, EmptySeq
<1>5. QED BY <1>4 DEF LockedInit, RingInit, LockedFifo!Init, Reply, LockedFifo!Reply

(* Every access of every thread is a step of the bounded queue, or none:   *)
(* an operation takes effect where it advances its index, and a refused    *)
(* one at its test.                                                        *)
LEMMA SharedNextRefines ==
    SharedInv /\ SharedInv' /\ [LockedNext]_lockedVars => [LockedFifo!Next]_LockedFifo!fifoVars
<1> SUFFICES ASSUME SharedInv, SharedInv', [LockedNext]_lockedVars
             PROVE  [LockedFifo!Next]_LockedFifo!fifoVars
    OBVIOUS
<1>a. /\ pc \in [Thread -> {"idle", "lock", "test", "copy", "advance", "mark", "unlock"}]
      /\ op \in [Thread -> {"send", "recv"}] /\ req \in [Thread -> Event \cup {NoEvent}]
      BY DEF SharedInv, LockedInv, LockedTypeOK
<1>b. ASSUME NEW t \in Thread, pc[t] \in {"test", "copy", "advance", "unlock"}
      PROVE  /\ ~Posting /\ ~Receiving
             /\ \A u \in Thread : u /= t => pc[u] /= "mark"
  <2>1. \A u \in Thread : pc[u] /= "mark"
        BY <1>b, Alone DEF SharedInv, InCriticalSection
  <2>2. QED BY <2>1 DEF Posting, Receiving
<1>1. ASSUME NEW t \in Thread, NEW e \in Event, QueueEvent(t, e)
      PROVE  UNCHANGED LockedFifo!fifoVars
  <2>1. Posting' <=> Posting
        BY <1>a, <1>1 DEF QueueEvent, Goto, Posting
  <2>2. UNCHANGED <<r, w, full, events, reply>>
        BY <1>1 DEF QueueEvent, ringVars
  <2>3. QED BY <2>1, <2>2, SharedStutter
<1>2. CASE RecvEvent
  <2>1. Posting' <=> Posting
        BY <1>a, <1>2, ThreadAssumption DEF RecvEvent, Goto, Posting
  <2>2. UNCHANGED <<r, w, full, events, reply>>
        BY <1>2 DEF RecvEvent, ringVars
  <2>3. QED BY <2>1, <2>2, SharedStutter
<1>3. ASSUME NEW t \in Thread, Lock(t) \/ Unlock(t) PROVE UNCHANGED LockedFifo!fifoVars
  <2>1. Posting' <=> Posting
        BY <1>a, <1>3 DEF Lock, Unlock, Goto, Posting
  <2>2. UNCHANGED <<r, w, full, events, reply>>
        BY <1>3 DEF Lock, Unlock, ringVars
  <2>3. QED BY <2>1, <2>2, SharedStutter
<1>4. ASSUME NEW t \in Thread, Test(t) PROVE [LockedFifo!Next]_LockedFifo!fifoVars
  <2>1. /\ pc[t] = "test" /\ UNCHANGED <<r, w, full, events, op, req>>
        /\ pc' = [pc EXCEPT ![t] = "copy"] \/ pc' = [pc EXCEPT ![t] = "unlock"]
        BY <1>4 DEF Test
  <2>2. ~Posting /\ ~Receiving /\ ~Posting'
    <3>1. ~Posting /\ ~Receiving /\ \A u \in Thread : u /= t => pc[u] /= "mark"
          BY <1>b, <2>1
    <3>2. \A u \in Thread : pc'[u] /= "mark"
          BY <1>a, <2>1, <3>1
    <3>3. QED BY <3>1, <3>2 DEF Posting
  <2>3. LockedRing!Contents' = LockedRing!Contents
    <3>1. LockedRing!Count' = LockedRing!Count
          BY <2>1, <2>2, SharedContents, SharedContentsNext
    <3>2. QED BY <2>1, <3>1, SharedContents, SharedContentsNext
  <2>4. CASE reply' = reply
        BY <2>3, <2>4 DEF LockedFifo!fifoVars
  <2>5. CASE op[t] = "send" /\ reply' /= reply
    <3>1. ~HasRoom /\ reply' = Reply("send", "FAIL", req[t])
          BY <1>4, <2>5 DEF Test
    <3>2. req[t] \in Event
          BY <2>1, <2>5 DEF SharedInv, RequestsReady
    <3>3. Len(LockedRing!Contents) = Capacity
          BY <2>2, <3>1, SharedTests, SharedContents, CapacityAssumption
    <3>4. LockedFifo!Refuse(req[t])
          BY <2>3, <3>1, <3>3 DEF LockedFifo!Refuse, Reply, LockedFifo!Reply
    <3>5. QED BY <3>2, <3>4 DEF LockedFifo!Next
  <2>6. CASE op[t] = "recv" /\ reply' /= reply
    <3>1. ~HasEvent /\ reply' = Reply("recv", "FAIL", req[t])
          BY <1>4, <2>6 DEF Test
    <3>2. req[t] = NoEvent
          BY <2>1, <2>6 DEF SharedInv, RequestsReady
    <3>3. LockedRing!Contents = << >>
          BY <2>2, <3>1, SharedTests, SharedContents, EmptySeq
    <3>4. LockedFifo!Empty
          BY <2>3, <3>1, <3>2, <3>3 DEF LockedFifo!Empty, Reply, LockedFifo!Reply
    <3>5. QED BY <3>4 DEF LockedFifo!Next
  <2>7. QED BY <1>a, <2>4, <2>5, <2>6
<1>5. ASSUME NEW t \in Thread, Copy(t) PROVE UNCHANGED LockedFifo!fifoVars
  <2>1. /\ pc[t] = "copy" /\ pc' = [pc EXCEPT ![t] = "advance"]
        /\ UNCHANGED <<r, w, full, reply, op>>
        BY <1>5 DEF Copy, Goto
  <2>2. ~Posting /\ ~Receiving /\ ~Posting'
    <3>1. ~Posting /\ ~Receiving /\ \A u \in Thread : u /= t => pc[u] /= "mark"
          BY <1>b, <2>1
    <3>2. \A u \in Thread : pc'[u] /= "mark"
          BY <1>a, <2>1, <3>1
    <3>3. QED BY <3>1, <3>2 DEF Posting
  <2>3. LockedRing!Count' = LockedRing!Count
        BY <2>1, <2>2, SharedContents, SharedContentsNext
  <2>4. CASE op[t] = "send"
    <3>1. events' = [events EXCEPT ![w] = req[t]]
          BY <1>5, <2>4 DEF Copy
    <3>2. HasRoom
          BY <2>1, <2>4 DEF SharedInv, TestStillHolds
    <3>3. LockedRing!Count \in 0 .. Capacity - 1 /\ RingSlot(r, LockedRing!Count) = w
          BY <2>2, <3>2, SharedTests, SharedContents, CapacityAssumption
    <3>4. RingSeq(r, LockedRing!Count, events') = RingSeq(r, LockedRing!Count, events)
      <4>1. r \in Index /\ events \in Slots /\ req[t] \in Event \cup {NoEvent}
            BY <1>a, <2>1, <2>4, SharedContents DEF SharedInv, RequestsReady
      <4>2. events' = [events EXCEPT ![RingSlot(r, LockedRing!Count)] = req[t]]
            BY <3>1, <3>3
      <4>3. QED BY <3>3, <4>1, <4>2, RingSeqWrite, Zenon
    <3>5. LockedRing!Contents' = LockedRing!Contents
          BY <2>1, <2>3, <3>4, SharedContents, SharedContentsNext
    <3>6. QED BY <2>1, <3>5 DEF LockedFifo!fifoVars
  <2>5. CASE op[t] = "recv"
    <3>1. events' = events
          BY <1>5, <2>5 DEF Copy
    <3>2. QED BY <2>1, <2>2, <3>1, SharedStutter
  <2>6. QED BY <1>a, <2>4, <2>5
<1>6. ASSUME NEW t \in Thread, AdvanceIndex(t) PROVE LockedFifo!Next
  <2>1. /\ pc[t] = "advance" /\ pc' = [pc EXCEPT ![t] = "mark"]
        /\ UNCHANGED <<full, events, op, req>>
        /\ reply' = Reply(op[t], "OK", req[t])
        BY <1>6 DEF AdvanceIndex, Goto
  <2>2. ~Posting /\ ~Receiving /\ (Posting' <=> op[t] = "send")
    <3>1. ~Posting /\ ~Receiving /\ \A u \in Thread : u /= t => pc[u] /= "mark"
          BY <1>b, <2>1
    <3>2. QED BY <1>a, <2>1, <3>1 DEF Posting
  <2>3. full => r = w
        BY <2>2 DEF SharedInv, FlagLags
  <2>4. CASE op[t] = "send"
    <3>1. w' = Advance(w) /\ r' = r /\ Posting'
          BY <1>6, <2>2, <2>4 DEF AdvanceIndex
    <3>2. HasRoom /\ req[t] = events[w] /\ req[t] \in Event
          BY <2>1, <2>4 DEF SharedInv, TestStillHolds, CopyStillHolds, RequestsReady
    <3>3. LockedRing!Count \in 0 .. Capacity - 1 /\ RingSlot(r, LockedRing!Count) = w
          BY <2>2, <3>2, SharedTests, SharedContents, CapacityAssumption
    <3>4. LockedRing!Count' = LockedRing!Count + 1
      <4>1. /\ r \in Nat /\ w \in Nat /\ r < Capacity /\ w < Capacity
            BY SharedContents, CapacityAssumption DEF Index
      <4>2. LockedRing!Count = IF r < w THEN w - r
                               ELSE IF r > w \/ full THEN Capacity - r + w ELSE 0
            BY <2>2, SharedContents
      <4>3. LockedRing!Count' = IF r < w' THEN w' - r ELSE Capacity - r + w'
            BY <2>1, <2>2, <2>4, <3>1, SharedContentsNext
      <4>4. w' = IF w + 1 < Capacity THEN w + 1 ELSE 0
            BY <3>1 DEF Advance
      <4>5. QED BY <2>3, <3>2, <4>1, <4>2, <4>3, <4>4, CapacityAssumption DEF HasRoom
    <3>5. LockedRing!Contents' = Append(LockedRing!Contents, req[t])
          BY <2>1, <3>1, <3>2, <3>3, <3>4, SharedContents, SharedContentsNext, RingSeqSend
    <3>6. Len(LockedRing!Contents) < Capacity
          BY <3>3, SharedContents, CapacityAssumption
    <3>7. LockedFifo!Send(req[t])
          BY <2>1, <2>4, <3>5, <3>6 DEF LockedFifo!Send, Reply, LockedFifo!Reply
    <3>8. QED BY <3>2, <3>7 DEF LockedFifo!Next
  <2>5. CASE op[t] = "recv"
    <3>1. r' = Advance(r) /\ w' = w /\ ~Posting'
          BY <1>6, <2>2, <2>5 DEF AdvanceIndex
    <3>2. HasEvent /\ req[t] = events[r]
          BY <2>1, <2>5 DEF SharedInv, TestStillHolds, CopyStillHolds
    <3>3. LockedRing!Count \in 1 .. Capacity
          BY <2>2, <3>2, SharedTests, SharedContents
    <3>4. LockedRing!Count' = LockedRing!Count - 1
      <4>1. /\ r \in Nat /\ w \in Nat /\ r < Capacity /\ w < Capacity
            BY SharedContents, CapacityAssumption DEF Index
      <4>2. LockedRing!Count = IF r < w THEN w - r
                               ELSE IF r > w \/ full THEN Capacity - r + w ELSE 0
            BY <2>2, SharedContents
      <4>3. LockedRing!Count' = IF r' < w THEN w - r'
                                ELSE IF r' > w \/ full THEN Capacity - r' + w ELSE 0
            BY <2>1, <3>1, SharedContentsNext
      <4>4. r' = IF r + 1 < Capacity THEN r + 1 ELSE 0
            BY <3>1 DEF Advance
      <4>5. QED BY <2>3, <3>2, <4>1, <4>2, <4>3, <4>4, CapacityAssumption DEF HasEvent
    <3>5. /\ LockedRing!Contents /= << >> /\ Head(LockedRing!Contents) = req[t]
          /\ LockedRing!Contents' = Tail(LockedRing!Contents)
          BY <2>1, <3>1, <3>2, <3>3, <3>4, SharedContents, SharedContentsNext, RingSeqRecv
    <3>6. LockedFifo!Recv
          BY <2>1, <2>5, <3>5 DEF LockedFifo!Recv, Reply, LockedFifo!Reply
    <3>7. QED BY <3>6 DEF LockedFifo!Next
  <2>6. QED BY <1>a, <2>4, <2>5
<1>7. ASSUME NEW t \in Thread, MarkFull(t) PROVE UNCHANGED LockedFifo!fifoVars
  <2>1. /\ pc[t] = "mark" /\ pc' = [pc EXCEPT ![t] = "unlock"]
        /\ full' = (op[t] = "send" /\ (full \/ r = w))
        /\ UNCHANGED <<r, w, events, reply, op>>
        BY <1>7 DEF MarkFull, Goto
  <2>2. \A u \in Thread : u /= t => pc[u] /= "mark"
        BY <2>1, Alone DEF SharedInv, InCriticalSection
  <2>3. ~Posting' /\ (Posting <=> op[t] = "send") /\ (Receiving <=> op[t] = "recv")
        BY <1>a, <2>1, <2>2 DEF Posting, Receiving
  <2>4. full => ((r /= w) <=> op[t] = "recv")
        BY <2>3 DEF SharedInv, FlagLags
  <2>5. LockedRing!Count' = LockedRing!Count
    <3>1. r \in Nat /\ w \in Nat /\ Capacity \in Nat
          BY SharedContents, CapacityAssumption DEF Index
    <3>2. CASE op[t] = "send"
      <4>1. Posting /\ ~Posting' /\ (r = w => full')
            BY <2>1, <2>3, <3>2
      <4>2. QED BY <2>1, <3>1, <4>1, SharedContents, SharedContentsNext
    <3>3. CASE op[t] = "recv"
      <4>1. ~Posting /\ ~Posting' /\ ~full' /\ (full => r /= w)
            BY <2>1, <2>3, <2>4, <3>3
      <4>2. QED BY <2>1, <3>1, <4>1, SharedContents, SharedContentsNext
    <3>4. QED BY <1>a, <3>2, <3>3
  <2>6. LockedRing!Contents' = LockedRing!Contents
        BY <2>1, <2>5, SharedContents, SharedContentsNext
  <2>7. QED BY <2>1, <2>6 DEF LockedFifo!fifoVars
<1>8. CASE UNCHANGED lockedVars
  <2>1. Posting' <=> Posting
        BY <1>8 DEF lockedVars, Posting
  <2>2. UNCHANGED <<r, w, full, events, reply>>
        BY <1>8 DEF lockedVars, ringVars
  <2>3. QED BY <2>1, <2>2, SharedStutter
<1>9. QED BY <1>1, <1>2, <1>3, <1>4, <1>5, <1>6, <1>7, <1>8 DEF LockedNext, Step

(* main_loop_simple_queue_event and main_loop_simple_recv_event: whatever  *)
(* the number of threads and however their accesses interleave, they see a *)
(* bounded first-in first-out queue.                                       *)
THEOREM LockedImplements == LockedSpec => LockedImplementsFifo
<1>1. QED BY SharedInit, SharedNext, SharedInitRefines, SharedNextRefines, PTL
          DEF LockedSpec, LockedImplementsFifo, LockedFifo!Spec
-----------------------------------------------------------------------------
(* Only the outermost loop is that of tk_run.                              *)
OnlyBottomIsMain == \A i \in 1 .. Depth : /\ i = 1 => stack[i].win = Main
                                          /\ i > 1 => stack[i].win \in Dialog

(* window_manager_close_window is called with a window.                    *)
CallsName == \A i \in 1 .. Depth : stack[i].call.event = "close" => stack[i].call.win \in Window

(* Dialogs are animated when they are closed.                              *)
OpensOther == animator.open => animator.win = Other

HasJob(func, d, a) == [func |-> func, win |-> d] \in idles[a]

Kind == {"new", "loop", "call", "close", "free", "slot", "animator", "freed", "lost"}

(* The numbers that tell places of the same kind apart.                    *)
Numbers(kind) == IF kind \in {"loop", "call"} THEN 1 .. Depth
                 ELSE IF kind \in {"close", "free"} THEN {0, 1} ELSE {0}

(* The dialog d is at this place and at no other.                          *)
At(d, kind, n) ==
    /\ kind \in Kind /\ n \in Numbers(kind)
    /\ \A i \in 1 .. Depth : (stack[i].win = d <=> kind = "loop" /\ n = i)
    /\ \A i \in 1 .. Depth : (ClosedBy(i, d) <=> kind = "call" /\ n = i)
    /\ \A a \in {0, 1} : (HasJob("close", d, a) <=> kind = "close" /\ n = a)
    /\ \A a \in {0, 1} : (HasJob("destroy", d, a) <=> kind = "free" /\ n = a)
    /\ pendingClose = d <=> kind = "slot"
    /\ animator.win = d <=> kind = "animator"
    /\ d \in freed <=> kind = "freed"
    /\ d \in lost <=> kind = "lost"
    /\ d \notin shown <=> kind = "new"

IsSomewhere(d) == \E kind \in Kind : \E n \in Numbers(kind) : At(d, kind, n)

InOnePlace == Depth > 0 => \A d \in Dialog : IsSomewhere(d)

ModalInv == TypeOK /\ OnlyBottomIsMain /\ CallsName /\ OpensOther /\ FlagIsPerLoop /\ InOnePlace

LEMMA FoundNext ==
    ASSUME NEW d, NEW kind \in Kind, NEW n, At(d, kind, n)'
    PROVE  IsSomewhere(d)'
BY DEF At, IsSomewhere

(* Nothing happens to d in a step that keeps the number of loops.          *)
Kept(d) == /\ \A i \in 1 .. Depth : stack'[i].win = stack[i].win
           /\ \A i \in 1 .. Depth : ClosedBy(i, d)' <=> ClosedBy(i, d)
           /\ \A a \in {0, 1} : HasJob("close", d, a)' <=> HasJob("close", d, a)
           /\ \A a \in {0, 1} : HasJob("destroy", d, a)' <=> HasJob("destroy", d, a)
           /\ pendingClose' = d <=> pendingClose = d
           /\ animator'.win = d <=> animator.win = d
           /\ d \in freed' <=> d \in freed
           /\ d \in lost' <=> d \in lost
           /\ d \in shown' <=> d \in shown

LEMMA KeptStays ==
    ASSUME ModalInv, Depth > 0, Depth' = Depth, NEW d \in Dialog, Kept(d)
    PROVE  IsSomewhere(d)'
<1>0. PICK kind \in Kind : \E n \in Numbers(kind) : At(d, kind, n)
      BY DEF ModalInv, InOnePlace, IsSomewhere
<1>1. PICK n \in Numbers(kind) : At(d, kind, n)
      BY <1>0
<1>2. n \in Numbers(kind)'
      BY DEF Numbers
<1>3. At(d, kind, n)'
      BY <1>1, <1>2 DEF At, Kept
<1>4. QED BY <1>2, <1>3 DEF IsSomewhere

LEMMA AllKept ==
    ASSUME ModalInv, Depth > 0, Depth' = Depth, \A d \in Dialog : Kept(d)
    PROVE  InOnePlace'
BY KeptStays DEF InOnePlace

LEMMA ModalInitInv == Init => ModalInv
<1> SUFFICES ASSUME Init PROVE ModalInv
    OBVIOUS
<1>1. Loop(Main, FALSE) \in LoopState
      BY DEF Loop, LoopState, Phase, Call, NoCall
<1>0. stack = << Loop(Main, FALSE) >> /\ running = TRUE
      BY DEF Init
<1>2. stack \in Seq(LoopState) /\ Depth = 1 /\ stack[1] = Loop(Main, FALSE)
  <2> DEFINE x == Loop(Main, FALSE)
  <2>1. x \in LoopState => << x >> \in Seq(LoopState) /\ Len(<< x >>) = 1 /\ << x >>[1] = x
    <3> HIDE DEF x
    <3>1. QED OBVIOUS
  <2>2. QED BY <1>0, <1>1, <2>1 DEF Depth
<1>3. stack[1].win = Main /\ stack[1].quit = FALSE /\ stack[1].call = NoCall
      BY <1>2 DEF Loop
<1>4. TypeOK
      BY <1>2 DEF Init, TypeOK
<1>5. \A i \in 1 .. Depth : i = 1
      BY <1>2
<1>6. OnlyBottomIsMain
      BY <1>3, <1>5 DEF OnlyBottomIsMain
<1>7. CallsName /\ OpensOther
  <2>1. \A i \in 1 .. Depth : stack[i].call.event = "none"
        BY <1>3, <1>5 DEF NoCall
  <2>2. animator.open = FALSE
        BY DEF Init, NoAnimator
  <2>3. QED BY <2>1, <2>2 DEF CallsName, OpensOther
<1>8. FlagIsPerLoop
  <2> SUFFICES ASSUME NEW i \in 1 .. Depth PROVE RunningOf(i) = ~stack[i].quit
      BY DEF FlagIsPerLoop
  <2>1. i = 1 /\ i = Depth
        BY <1>2
  <2>2. QED BY <1>0, <1>3, <2>1 DEF RunningOf
<1>9. ASSUME NEW d \in Dialog PROVE At(d, "new", 0)
  <2>1. \A i \in 1 .. Depth : stack[i].win /= d /\ ~ClosedBy(i, d)
        BY <1>3, <1>5, DialogAssumption DEF ClosedBy, NoCall
  <2>2. pendingClose /= d /\ animator.win /= d
        BY DialogAssumption DEF Init, NoAnimator
  <2>3. QED BY <2>1, <2>2 DEF Init, At, Kind, Numbers, HasJob
<1>10. InOnePlace
      BY <1>9 DEF InOnePlace, IsSomewhere, Kind, Numbers
<1>11. QED BY <1>4, <1>6, <1>7, <1>8, <1>10 DEF ModalInv
-----------------------------------------------------------------------------
(* What replacing the innermost loop by rec leaves of the stack.           *)
LEMMA UpdateTop ==
    ASSUME TypeOK, Depth > 0, NEW rec \in LoopState, Becomes(rec)
    PROVE  /\ stack' \in Seq(LoopState)
           /\ Depth' = Depth
           /\ Depth \in Nat \ {0}
           /\ stack'[Depth] = rec
           /\ \A i \in 1 .. Depth : i /= Depth => stack'[i] = stack[i]
<1>1. Depth \in Nat \ {0} /\ stack \in Seq(LoopState) /\ Depth = Len(stack)
      BY DEF TypeOK, Depth
<1>2. Depth \in 1 .. Len(stack) /\ stack' = [stack EXCEPT ![Depth] = rec]
      BY <1>1 DEF Becomes
<1>3. stack' \in Seq(LoopState) /\ Len(stack') = Len(stack)
      BY <1>1, <1>2, ExceptSeq
<1>4. Depth' = Depth
      BY <1>1, <1>3 DEF Depth
<1>5. DOMAIN stack = 1 .. Len(stack)
      BY <1>1, LenProperties
<1>6. stack'[Depth] = rec /\ \A i \in 1 .. Depth : i /= Depth => stack'[i] = stack[i]
      BY <1>1, <1>2, <1>5
<1>7. QED BY <1>1, <1>3, <1>4, <1>6

LEMMA TopType == ASSUME TypeOK, Depth > 0 PROVE Top \in LoopState /\ Depth \in Nat \ {0}
BY ElementOfSeq DEF TypeOK, Depth, Top

(* The innermost loop goes on as rec, and is quit or not.                  *)
LEMMA TopStep ==
    ASSUME ModalInv, Depth > 0, NEW rec \in LoopState, Becomes(rec),
           rec.win = Top.win, rec.saved = Top.saved,
           \/ rec.quit = Top.quit /\ running' = running
           \/ rec.quit = TRUE /\ running' = FALSE,
           rec.call.event = "close" => rec.call.win \in Window
    PROVE  /\ stack' \in Seq(LoopState) /\ running' \in BOOLEAN
           /\ Depth' = Depth /\ Depth \in Nat \ {0}
           /\ OnlyBottomIsMain' /\ CallsName' /\ FlagIsPerLoop'
           /\ stack'[Depth] = rec /\ stack[Depth] = Top
           /\ \A i \in 1 .. Depth : i /= Depth => stack'[i] = stack[i]
           /\ \A i \in 1 .. Depth : stack'[i].win = stack[i].win
<1>1. TypeOK /\ OnlyBottomIsMain /\ CallsName /\ FlagIsPerLoop
      BY DEF ModalInv
<1>2. /\ stack' \in Seq(LoopState)
      /\ Depth' = Depth /\ Depth \in Nat \ {0}
      /\ stack'[Depth] = rec /\ stack[Depth] = Top
      /\ \A i \in 1 .. Depth : i /= Depth => stack'[i] = stack[i]
      BY <1>1, UpdateTop DEF Top
<1>3. \A i \in 1 .. Depth : stack'[i].win = stack[i].win /\ stack'[i].saved = stack[i].saved
      BY <1>2
<1>4. running' \in BOOLEAN
      BY <1>1 DEF TypeOK
<1>5. OnlyBottomIsMain'
      BY <1>1, <1>2, <1>3 DEF OnlyBottomIsMain
<1>6. CallsName'
      BY <1>1, <1>2 DEF CallsName
<1>7. FlagIsPerLoop'
  <2> SUFFICES ASSUME NEW i \in 1 .. Depth PROVE RunningOf(i)' = ~stack'[i].quit
      BY <1>2 DEF FlagIsPerLoop
  <2>1. RunningOf(i) = ~stack[i].quit
        BY <1>1 DEF FlagIsPerLoop
  <2>2. CASE i = Depth
        BY <1>2, <2>1, <2>2 DEF RunningOf
  <2>3. CASE i /= Depth
    <3>1. i + 1 \in 1 .. Depth /\ stack'[i] = stack[i]
          BY <1>2, <2>3
    <3>2. RunningOf(i)' = RunningOf(i)
          BY <1>2, <1>3, <2>3, <3>1 DEF RunningOf
    <3>3. QED BY <2>1, <3>1, <3>2
  <2>4. QED BY <2>2, <2>3
<1>8. QED BY <1>2, <1>3, <1>4, <1>5, <1>6, <1>7

(* The innermost loop moves on, and no dialog does: neither the loop nor   *)
(* what it goes on as is inside window_manager_close_window.               *)
LEMMA QuietStep ==
    ASSUME ModalInv, Depth > 0, NEW rec \in LoopState, Becomes(rec),
           rec.win = Top.win, rec.saved = Top.saved,
           \/ rec.quit = Top.quit /\ running' = running
           \/ rec.quit = TRUE /\ running' = FALSE,
           \/ rec.call = Top.call
           \/ rec.call.event /= "close" /\ Top.call.event /= "close",
           UNCHANGED <<shown, idles, pendingClose, lost, freed>>,
           animator' \in Animator \cup {NoAnimator},
           animator'.win = animator.win, animator'.open = animator.open,
           active' \in {0, 1}, quitTimer' \in BOOLEAN, asked' \in BOOLEAN
    PROVE  ModalInv'
<1>1. Top \in LoopState /\ (Top.call.event = "close" => Top.call.win \in Window)
      BY TopType DEF ModalInv, CallsName, Top
<1>2. /\ stack' \in Seq(LoopState) /\ running' \in BOOLEAN
      /\ Depth' = Depth /\ Depth \in Nat \ {0}
      /\ OnlyBottomIsMain' /\ CallsName' /\ FlagIsPerLoop'
      /\ stack'[Depth] = rec /\ stack[Depth] = Top
      /\ \A i \in 1 .. Depth : i /= Depth => stack'[i] = stack[i]
      /\ \A i \in 1 .. Depth : stack'[i].win = stack[i].win
      BY <1>1, TopStep
<1>3. TypeOK' /\ OpensOther'
      BY <1>2 DEF ModalInv, TypeOK, OpensOther
<1>4. ASSUME NEW d \in Dialog PROVE Kept(d)
  <2>1. ASSUME NEW i \in 1 .. Depth PROVE ClosedBy(i, d)' <=> ClosedBy(i, d)
    <3>1. CASE i = Depth
          BY <1>2, <3>1 DEF ClosedBy
    <3>2. CASE i /= Depth
          BY <1>2, <3>2 DEF ClosedBy
    <3>3. QED BY <3>1, <3>2
  <2>2. QED BY <1>2, <2>1 DEF Kept, HasJob
<1>5. InOnePlace'
      BY <1>2, <1>4, AllKept
<1>6. QED BY <1>2, <1>3, <1>5 DEF ModalInv

(* dialog_modal: the new innermost loop runs, and the value it saves is    *)
(* that of the loop below it.                                              *)
LEMMA ModalPushes ==
    ASSUME ModalInv, NEW d \in Dialog, Modal(d)
    PROVE  ModalInv'
<1> DEFINE rec == Loop(d, running)
<1>1. /\ Depth \in Nat /\ stack \in Seq(LoopState) /\ Depth = Len(stack) /\ Depth > 0
      BY DEF ModalInv, TypeOK, Depth, Modal, InUserCode
<1>2. /\ rec \in LoopState
      /\ rec.win = d /\ rec.saved = running /\ rec.quit = FALSE /\ rec.call = NoCall
      BY DEF LoopState, Loop, Phase, Call, NoCall, ModalInv, TypeOK
<1>3. /\ stack' = Append(stack, rec) /\ running' = TRUE /\ shown' = shown \cup {d}
      /\ d \notin shown
      /\ UNCHANGED <<idles, active, animator, pendingClose, lost, freed, quitTimer, asked>>
      BY DEF Modal, idleVars, wmVars, quitVars
<1> HIDE DEF rec
<1>4. /\ stack' \in Seq(LoopState) /\ Depth' = Depth + 1
      /\ stack'[Depth + 1] = rec
      /\ \A i \in 1 .. Depth : stack'[i] = stack[i]
      BY <1>1, <1>2, <1>3, AppendProperties DEF Depth
<1>5. \A i \in 1 .. Depth' : i \in 1 .. Depth \/ i = Depth + 1
      BY <1>1, <1>4
<1>6. TypeOK' /\ OpensOther'
      BY <1>3, <1>4 DEF ModalInv, TypeOK, OpensOther
<1>7. OnlyBottomIsMain'
      BY <1>1, <1>2, <1>3, <1>4, <1>5 DEF ModalInv, OnlyBottomIsMain
<1>8. CallsName'
      BY <1>2, <1>4, <1>5 DEF ModalInv, CallsName, NoCall
<1>9. FlagIsPerLoop'
  <2> SUFFICES ASSUME NEW i \in 1 .. Depth' PROVE RunningOf(i)' = ~stack'[i].quit
      BY DEF FlagIsPerLoop
  <2>1. CASE i = Depth + 1
        BY <1>2, <1>3, <1>4, <2>1 DEF RunningOf
  <2>2. CASE i = Depth
    <3>1. RunningOf(i)' = stack'[Depth + 1].saved
          BY <1>1, <1>4, <2>2 DEF RunningOf
    <3>2. running = ~stack[Depth].quit
          BY <1>1 DEF ModalInv, FlagIsPerLoop, RunningOf
    <3>3. QED BY <1>1, <1>2, <1>4, <2>2, <3>1, <3>2
  <2>3. CASE i \in 1 .. Depth - 1
    <3>1. i \in 1 .. Depth /\ i + 1 \in 1 .. Depth /\ i /= Depth /\ i /= Depth'
          BY <1>1, <1>4, <2>3
    <3>2. RunningOf(i)' = RunningOf(i)
          BY <1>4, <3>1 DEF RunningOf
    <3>3. QED BY <1>4, <3>1, <3>2 DEF ModalInv, FlagIsPerLoop
  <2>4. QED BY <1>1, <1>5, <2>1, <2>2, <2>3
<1>10. ASSUME NEW e \in Dialog PROVE IsSomewhere(e)'
  <2>1. PICK kind \in Kind : \E n \in Numbers(kind) : At(e, kind, n)
        BY <1>1 DEF ModalInv, InOnePlace, IsSomewhere
  <2>2. PICK n \in Numbers(kind) : At(e, kind, n)
        BY <2>1
  <2>3. \A i \in 1 .. Depth' : ClosedBy(i, e)' <=> (i \in 1 .. Depth /\ ClosedBy(i, e))
        BY <1>1, <1>2, <1>4, <1>5 DEF ClosedBy, NoCall
  <2>4. CASE e = d
    <3>1. kind = "new"
          BY <1>3, <2>2, <2>4 DEF At
    <3>0. PICK m \in Nat : m = Depth + 1
          BY <1>1
    <3>2. m \in Numbers("loop")' /\ "loop" \in Kind
          BY <1>1, <1>4, <3>0 DEF Numbers, Kind
    <3>3. \A i \in 1 .. Depth' : stack'[i].win = e <=> i = m
          BY <1>1, <1>2, <1>4, <1>5, <2>2, <2>4, <3>0, <3>1 DEF At
    <3>4. At(e, "loop", m)'
          BY <1>3, <2>2, <2>3, <2>4, <3>1, <3>2, <3>3 DEF At, HasJob
    <3>5. QED BY <3>2, <3>4, FoundNext
  <2>5. CASE e /= d
    <3>1. n \in Numbers(kind)'
          BY <1>1, <1>4, <2>2 DEF Numbers
    <3>2. \A i \in 1 .. Depth' : stack'[i].win = e <=> (i \in 1 .. Depth /\ stack[i].win = e)
          BY <1>1, <1>2, <1>4, <1>5, <2>5
    <3>3. kind \in {"loop", "call"} => n \in 1 .. Depth
          BY <2>2 DEF Numbers
    <3>4. At(e, kind, n)'
          BY <1>3, <1>5, <2>2, <2>3, <2>5, <3>1, <3>2, <3>3 DEF At, HasJob
    <3>5. QED BY <3>1, <3>4 DEF IsSomewhere
  <2>6. QED BY <2>4, <2>5
<1>11. InOnePlace'
      BY <1>10 DEF InOnePlace
<1>12. QED BY <1>6, <1>7, <1>8, <1>9, <1>11 DEF ModalInv

(* dialog_modal returns: the loop of its caller finds its own value again, *)
(* and the dialog waits to be closed.                                      *)
LEMMA ModalPops ==
    ASSUME ModalInv, ModalReturns
    PROVE  ModalInv'
<1>1. /\ Depth \in Nat /\ stack \in Seq(LoopState) /\ Depth = Len(stack) /\ Depth > 1
      BY DEF ModalInv, TypeOK, Depth, ModalReturns
<1>2. Top \in LoopState /\ Top.win \in Dialog /\ stack[Depth - 1] \in LoopState
      BY <1>1, ElementOfSeq DEF Top, ModalInv, OnlyBottomIsMain
<1>3. /\ Callers \in Seq(LoopState) /\ Len(Callers) = Depth - 1
      /\ \A i \in 1 .. Depth - 1 : Callers[i] = stack[i]
      BY <1>1, SubSeqProperties DEF Callers
<1> DEFINE rec == [Callers[Depth - 1] EXCEPT !.held = @ \cup {Top.win}]
<1>4. Callers[Depth - 1] \in LoopState
      BY <1>1, <1>2, <1>3
<1>5. /\ rec \in LoopState
      /\ rec.win = Callers[Depth - 1].win /\ rec.saved = Callers[Depth - 1].saved
      /\ rec.quit = Callers[Depth - 1].quit /\ rec.call = Callers[Depth - 1].call
      BY <1>2, <1>4 DEF LoopState
<1>6. stack' = [Callers EXCEPT ![Depth - 1] = rec]
      BY DEF ModalReturns
<1> HIDE DEF rec
<1>7. Depth - 1 \in 1 .. Len(Callers)
      BY <1>1, <1>3
<1>8. stack' \in Seq(LoopState) /\ Len(stack') = Depth - 1
      BY <1>3, <1>5, <1>6, <1>7, ExceptSeq
<1>9. Depth' = Depth - 1
      BY <1>8 DEF Depth
<1>10. DOMAIN Callers = 1 .. Depth - 1
      BY <1>3, LenProperties
<1>11. \A i \in 1 .. Depth - 1 : /\ stack'[i].win = stack[i].win
                                 /\ stack'[i].saved = stack[i].saved
                                 /\ stack'[i].quit = stack[i].quit
                                 /\ stack'[i].call = stack[i].call
  <2> SUFFICES ASSUME NEW i \in 1 .. Depth - 1
               PROVE  /\ stack'[i].win = stack[i].win
                      /\ stack'[i].saved = stack[i].saved
                      /\ stack'[i].quit = stack[i].quit
                      /\ stack'[i].call = stack[i].call
      OBVIOUS
  <2>1. Callers[i] = stack[i]
        BY <1>3
  <2>2. CASE i = Depth - 1
    <3>1. stack'[i] = rec
          BY <1>6, <1>10, <2>2
    <3>2. QED BY <1>5, <2>1, <2>2, <3>1
  <2>3. CASE i /= Depth - 1
    <3>1. stack'[i] = Callers[i]
          BY <1>6, <1>10, <2>3
    <3>2. QED BY <2>1, <3>1
  <2>4. QED BY <2>2, <2>3
<1> DEFINE job == [func |-> "close", win |-> Top.win]
<1>12. /\ running' = Top.saved /\ idles' = [idles EXCEPT ![active] = @ \cup {job}]
       /\ UNCHANGED <<shown, active, animator, pendingClose, lost, freed, quitTimer, asked>>
      BY DEF ModalReturns, wmVars, quitVars
<1>13. job \in Job /\ idles \in [{0, 1} -> SUBSET Job] /\ active \in {0, 1}
      BY <1>2 DEF Job, Window, ModalInv, TypeOK
<1>14. \A a \in {0, 1}, e \in Dialog :
          /\ HasJob("close", e, a)' <=> HasJob("close", e, a) \/ (a = active /\ e = Top.win)
          /\ HasJob("destroy", e, a)' <=> HasJob("destroy", e, a)
      BY <1>2, <1>12, <1>13 DEF HasJob
<1>15. idles' \in [{0, 1} -> SUBSET Job]
      BY <1>12, <1>13
<1> HIDE DEF job
<1>16. running' \in BOOLEAN
      BY <1>2, <1>12 DEF LoopState
<1>17. TypeOK' /\ OpensOther'
      BY <1>8, <1>12, <1>15, <1>16 DEF ModalInv, TypeOK, OpensOther
<1>18. \A i \in 1 .. Depth - 1 : i \in 1 .. Depth
      BY <1>1
<1>19. OnlyBottomIsMain' /\ CallsName'
      BY <1>9, <1>11, <1>18 DEF ModalInv, OnlyBottomIsMain, CallsName
<1>20. FlagIsPerLoop'
  <2> SUFFICES ASSUME NEW i \in 1 .. Depth - 1 PROVE RunningOf(i)' = ~stack'[i].quit
      BY <1>9 DEF FlagIsPerLoop
  <2>1. i \in 1 .. Depth /\ i /= Depth
        BY <1>1
  <2>2. stack[i + 1].saved = ~stack[i].quit
        BY <2>1 DEF ModalInv, FlagIsPerLoop, RunningOf
  <2>3. CASE i = Depth - 1
    <3>1. i + 1 = Depth
          BY <1>1, <2>3
    <3>2. running' = stack[i + 1].saved
          BY <1>12, <3>1 DEF Top
    <3>3. RunningOf(i)' = running'
          BY <1>9, <2>3 DEF RunningOf
    <3>4. QED BY <1>11, <2>2, <3>2, <3>3
  <2>4. CASE i /= Depth - 1
    <3>1. i + 1 \in 1 .. Depth - 1
          BY <1>1, <2>4
    <3>2. RunningOf(i)' = stack'[i + 1].saved
          BY <1>9, <2>4 DEF RunningOf
    <3>3. QED BY <1>11, <2>2, <3>1, <3>2
  <2>5. QED BY <2>3, <2>4
<1>21. ASSUME NEW e \in Dialog PROVE IsSomewhere(e)'
  <2>1. PICK kind \in Kind : \E n \in Numbers(kind) : At(e, kind, n)
        BY <1>1 DEF ModalInv, InOnePlace, IsSomewhere
  <2>2. PICK n \in Numbers(kind) : At(e, kind, n)
        BY <2>1
  <2>3. \A i \in 1 .. Depth' : /\ i \in 1 .. Depth /\ i /= Depth
                               /\ ClosedBy(i, e)' <=> ClosedBy(i, e)
                               /\ stack'[i].win = e <=> stack[i].win = e
        BY <1>1, <1>9, <1>11, <1>18 DEF ClosedBy
  <2>4. Depth \in 1 .. Depth
        BY <1>1
  <2>5. CASE e = Top.win
    <3>1. kind = "loop" /\ n = Depth
          BY <2>2, <2>4, <2>5 DEF At, Top
    <3>2. PICK b \in {0, 1} : b = active
          BY <1>13
    <3>3. b \in Numbers("close")' /\ "close" \in Kind
          BY DEF Numbers, Kind
    <3>4. At(e, "close", b)'
          BY <1>12, <1>14, <2>2, <2>3, <2>5, <3>1, <3>2, <3>3 DEF At
    <3>5. QED BY <3>3, <3>4, FoundNext
  <2>6. CASE e /= Top.win
    <3>1. ~ClosedBy(Depth, e)
          BY <1>1 DEF ModalReturns, Between, ClosedBy, Top, NoCall
    <3>2. kind \in {"loop", "call"} => n \in 1 .. Depth /\ n /= Depth
          BY <2>2, <2>4, <2>6, <3>1 DEF Numbers, At, Top
    <3>3. n \in Numbers(kind)'
          BY <1>1, <1>9, <2>2, <3>2 DEF Numbers
    <3>4. At(e, kind, n)'
          BY <1>12, <1>14, <2>2, <2>3, <2>6, <3>3 DEF At
    <3>5. QED BY <3>3, <3>4 DEF IsSomewhere
  <2>7. QED BY <2>5, <2>6
<1>22. InOnePlace'
      BY <1>21 DEF InOnePlace
<1>23. QED BY <1>17, <1>19, <1>20, <1>22 DEF ModalInv

LEMMA SameStack ==
    ASSUME ModalInv, UNCHANGED <<stack, running>>
    PROVE  /\ OnlyBottomIsMain' /\ CallsName' /\ FlagIsPerLoop' /\ Depth' = Depth
           /\ \A i \in 1 .. Depth : stack'[i].win = stack[i].win
           /\ \A i \in 1 .. Depth, d \in Dialog : ClosedBy(i, d)' <=> ClosedBy(i, d)
BY DEF ModalInv, OnlyBottomIsMain, CallsName, FlagIsPerLoop, RunningOf, Depth, ClosedBy

LEMMA TakeUpIdle ==
    ASSUME ModalInv, NEW job \in Job, Serve(job)
    PROVE  /\ Depth > 0 /\ Top.call = NoCall
           /\ idles' \in [{0, 1} -> SUBSET Job]
           /\ Top.array \in {0, 1} /\ job \in idles[Top.array]
           /\ \A a \in {0, 1} : idles'[a] = IF a = Top.array THEN idles[a] \ {job} ELSE idles[a]
           /\ UNCHANGED <<running, shown, active, animator, quitTimer, asked>>
<1>1. Depth > 0 /\ Top.call = NoCall /\ job \in idles[Top.array]
      BY DEF Serve, Between
<1>2. Top.array \in {0, 1} /\ idles \in [{0, 1} -> SUBSET Job]
      BY <1>1, TopType DEF ModalInv, TypeOK, LoopState
<1>3. QED BY <1>1, <1>2 DEF Serve, quitVars

(* dialog_idle_close: the dialog goes from the idles to the handlers of    *)
(* EVT_WINDOW_CLOSE, or to the slot, where it takes another one's place.   *)
LEMMA IdleCloseStep ==
    ASSUME ModalInv, NEW x \in Window, IdleClose(x)
    PROVE  ModalInv'
<1> DEFINE job == [func |-> "close", win |-> x]
<1>1. job \in Job
      BY DEF Job
<1>2. /\ Depth > 0 /\ Top.call = NoCall
      /\ idles' \in [{0, 1} -> SUBSET Job]
      /\ Top.array \in {0, 1} /\ job \in idles[Top.array]
      /\ \A a \in {0, 1} : idles'[a] = IF a = Top.array THEN idles[a] \ {job} ELSE idles[a]
      /\ UNCHANGED <<running, shown, active, animator, quitTimer, asked>>
      /\ freed' = freed
      BY <1>1, TakeUpIdle DEF IdleClose
<1>3. \A a \in {0, 1}, e \in Dialog :
          /\ HasJob("close", e, a)' <=> HasJob("close", e, a) /\ ~(a = Top.array /\ e = x)
          /\ HasJob("destroy", e, a)' <=> HasJob("destroy", e, a)
      BY <1>2 DEF HasJob
<1>4. HasJob("close", x, Top.array)
      BY <1>2 DEF HasJob
<1> HIDE DEF job
<1>5. TypeOK /\ Top \in LoopState /\ Depth \in Nat \ {0} /\ OpensOther'
      BY <1>2, TopType DEF ModalInv, OpensOther
<1>6. ASSUME NEW e \in Dialog PROVE e = x => At(e, "close", Top.array)
  <2>1. PICK kind \in Kind : \E n \in Numbers(kind) : At(e, kind, n)
        BY <1>2 DEF ModalInv, InOnePlace, IsSomewhere
  <2>2. PICK n \in Numbers(kind) : At(e, kind, n)
        BY <2>1
  <2>3. e = x => kind = "close" /\ n = Top.array
        BY <1>2, <1>4, <2>2 DEF At
  <2>4. QED BY <2>2, <2>3
<1>7. CASE animator /= NoAnimator
  <2>1. /\ UNCHANGED <<stack, running>> /\ pendingClose' = x
        /\ lost' = lost \cup ({pendingClose} \cap Dialog)
        BY <1>2, <1>7 DEF IdleClose, Postpone
  <2>2. /\ OnlyBottomIsMain' /\ CallsName' /\ FlagIsPerLoop' /\ Depth' = Depth
        /\ \A i \in 1 .. Depth : stack'[i].win = stack[i].win
        /\ \A i \in 1 .. Depth, d \in Dialog : ClosedBy(i, d)' <=> ClosedBy(i, d)
        BY <2>1, SameStack
  <2>3. TypeOK'
        BY <1>2, <1>5, <2>1 DEF TypeOK
  <2>4. ASSUME NEW e \in Dialog PROVE IsSomewhere(e)'
    <3>1. CASE e = x
      <4>1. At(e, "slot", 0)'
            BY <1>2, <1>3, <1>6, <2>1, <2>2, <3>1 DEF At, Numbers, Kind
      <4>2. QED BY <4>1, FoundNext DEF Kind
    <3>2. CASE e /= x /\ e = pendingClose
      <4>1. PICK kind \in Kind : \E n \in Numbers(kind) : At(e, kind, n)
            BY <1>2 DEF ModalInv, InOnePlace, IsSomewhere
      <4>2. PICK n \in Numbers(kind) : At(e, kind, n)
            BY <4>1
      <4>3. kind = "slot"
            BY <3>2, <4>2 DEF At
      <4>4. At(e, "lost", 0)'
            BY <1>2, <1>3, <2>1, <2>2, <3>2, <4>2, <4>3 DEF At, Numbers, Kind
      <4>5. QED BY <4>4, FoundNext DEF Kind
    <3>3. CASE e /= x /\ e /= pendingClose
      <4>1. Kept(e)
            BY <1>2, <1>3, <2>1, <2>2, <3>3 DEF Kept
      <4>2. QED BY <1>2, <2>2, <4>1, KeptStays
    <3>4. QED BY <3>1, <3>2, <3>3
  <2>5. QED BY <1>5, <2>2, <2>3, <2>4 DEF ModalInv, InOnePlace
<1>8. CASE animator = NoAnimator
  <2> DEFINE rec == [Top EXCEPT !.call = [event |-> "close", win |-> x]]
  <2>1. /\ rec \in LoopState /\ rec.win = Top.win /\ rec.saved = Top.saved
        /\ rec.quit = Top.quit /\ rec.call = [event |-> "close", win |-> x]
        BY <1>5 DEF LoopState, Call
  <2>2. Becomes(rec) /\ UNCHANGED <<pendingClose, lost>>
        BY <1>8 DEF IdleClose
  <2> HIDE DEF rec
  <2>3. rec.call.event = "close" => rec.call.win \in Window
        BY <2>1
  <2>4. /\ stack' \in Seq(LoopState) /\ running' \in BOOLEAN
        /\ Depth' = Depth
        /\ OnlyBottomIsMain' /\ CallsName' /\ FlagIsPerLoop'
        /\ stack'[Depth] = rec /\ stack[Depth] = Top
        /\ \A i \in 1 .. Depth : i /= Depth => stack'[i] = stack[i]
        /\ \A i \in 1 .. Depth : stack'[i].win = stack[i].win
        BY <1>2, <2>1, <2>2, <2>3, TopStep
  <2>5. TypeOK'
        BY <1>2, <1>5, <2>2, <2>4 DEF TypeOK
  <2>6. ASSUME NEW i \in 1 .. Depth, NEW e \in Dialog
        PROVE  ClosedBy(i, e)' <=> ClosedBy(i, e) \/ (i = Depth /\ e = x)
    <3>1. CASE i = Depth
      <4>1. ~ClosedBy(i, e)
            BY <1>2, <2>4, <3>1 DEF ClosedBy, NoCall
      <4>2. ClosedBy(i, e)' <=> e = x
            BY <2>1, <2>4, <3>1 DEF ClosedBy
      <4>3. QED BY <3>1, <4>1, <4>2
    <3>2. CASE i /= Depth
          BY <2>4, <3>2 DEF ClosedBy
    <3>3. QED BY <3>1, <3>2
  <2>7. ASSUME NEW e \in Dialog PROVE IsSomewhere(e)'
    <3>1. CASE e = x
      <4>1. PICK m \in Nat : m = Depth
            BY <1>5
      <4>2. m \in Numbers("call")' /\ "call" \in Kind
            BY <1>5, <2>4, <4>1 DEF Numbers, Kind
      <4>3. \A i \in 1 .. Depth : ~ClosedBy(i, e) /\ stack[i].win /= e
            BY <1>6, <3>1 DEF At
      <4>4. At(e, "call", m)'
            BY <1>2, <1>3, <1>6, <2>2, <2>4, <2>6, <3>1, <4>1, <4>2, <4>3 DEF At
      <4>5. QED BY <4>2, <4>4, FoundNext
    <3>2. CASE e /= x
      <4>1. Kept(e)
            BY <1>2, <1>3, <2>2, <2>4, <2>6, <3>2 DEF Kept
      <4>2. QED BY <1>2, <2>4, <4>1, KeptStays
    <3>3. QED BY <3>1, <3>2
  <2>8. QED BY <1>5, <2>4, <2>5, <2>7 DEF ModalInv, InOnePlace
<1>9. QED BY <1>7, <1>8

(* window_manager_idle_destroy_window.                                     *)
LEMMA IdleDestroyStep ==
    ASSUME ModalInv, NEW x \in Window, IdleDestroy(x)
    PROVE  ModalInv'
<1> DEFINE job == [func |-> "destroy", win |-> x]
<1>1. job \in Job
      BY DEF Job
<1>2. /\ Depth > 0 /\ Top.call = NoCall
      /\ idles' \in [{0, 1} -> SUBSET Job]
      /\ Top.array \in {0, 1} /\ job \in idles[Top.array]
      /\ \A a \in {0, 1} : idles'[a] = IF a = Top.array THEN idles[a] \ {job} ELSE idles[a]
      /\ UNCHANGED <<running, shown, active, animator, quitTimer, asked>>
      /\ freed' = freed \cup ({x} \cap Dialog)
      /\ UNCHANGED <<stack, pendingClose, lost>>
      BY <1>1, TakeUpIdle DEF IdleDestroy
<1>3. \A a \in {0, 1}, e \in Dialog :
          /\ HasJob("destroy", e, a)' <=> HasJob("destroy", e, a) /\ ~(a = Top.array /\ e = x)
          /\ HasJob("close", e, a)' <=> HasJob("close", e, a)
      BY <1>2 DEF HasJob
<1>4. HasJob("destroy", x, Top.array)
      BY <1>2 DEF HasJob
<1> HIDE DEF job
<1>5. TypeOK' /\ OpensOther'
      BY <1>2 DEF ModalInv, TypeOK, OpensOther
<1>6. /\ OnlyBottomIsMain' /\ CallsName' /\ FlagIsPerLoop' /\ Depth' = Depth
      /\ \A i \in 1 .. Depth : stack'[i].win = stack[i].win
      /\ \A i \in 1 .. Depth, d \in Dialog : ClosedBy(i, d)' <=> ClosedBy(i, d)
      BY <1>2, SameStack
<1>7. ASSUME NEW e \in Dialog PROVE IsSomewhere(e)'
  <2>1. CASE e = x
    <3>1. PICK kind \in Kind : \E n \in Numbers(kind) : At(e, kind, n)
          BY <1>2 DEF ModalInv, InOnePlace, IsSomewhere
    <3>2. PICK n \in Numbers(kind) : At(e, kind, n)
          BY <3>1
    <3>3. kind = "free" /\ n = Top.array
          BY <1>2, <1>4, <2>1, <3>2 DEF At
    <3>4. At(e, "freed", 0)'
          BY <1>2, <1>3, <1>6, <2>1, <3>2, <3>3 DEF At, Numbers, Kind
    <3>5. QED BY <3>4, FoundNext DEF Kind
  <2>2. CASE e /= x
    <3>1. Kept(e)
          BY <1>2, <1>3, <1>6, <2>2 DEF Kept
    <3>2. QED BY <1>2, <1>6, <3>1, KeptStays
  <2>3. QED BY <2>1, <2>2
<1>8. QED BY <1>5, <1>6, <1>7 DEF ModalInv, InOnePlace

(* The rest of window_manager_close_window: the dialog goes to the         *)
(* animator, or to the idle that frees it.                                 *)
LEMMA CloseReturnsStep ==
    ASSUME ModalInv, CloseReturns
    PROVE  ModalInv'
<1> DEFINE rec == [Top EXCEPT !.call = NoCall]
           job == [func |-> "destroy", win |-> Top.call.win]
<1>1. Depth > 0 /\ Top.call.event = "close"
      BY DEF CloseReturns
<1>2. Top \in LoopState /\ TypeOK /\ Depth \in Nat \ {0}
      BY <1>1, TopType DEF ModalInv
<1>3. Top.call.win \in Window /\ Top.call \in Call
      BY <1>1, <1>2 DEF ModalInv, CallsName, Top, LoopState
<1>4. /\ rec \in LoopState /\ rec.win = Top.win /\ rec.saved = Top.saved
      /\ rec.quit = Top.quit /\ rec.call = NoCall
      BY <1>2 DEF LoopState, Call, NoCall
<1>5. /\ Becomes(rec)
      /\ UNCHANGED <<running, shown, active, pendingClose, lost, freed, quitTimer, asked>>
      BY DEF CloseReturns, quitVars
<1> HIDE DEF rec
<1>6. rec.call.event = "close" => rec.call.win \in Window
      BY <1>4 DEF NoCall
<1>7. /\ stack' \in Seq(LoopState) /\ running' \in BOOLEAN
      /\ Depth' = Depth
      /\ OnlyBottomIsMain' /\ CallsName' /\ FlagIsPerLoop'
      /\ stack'[Depth] = rec /\ stack[Depth] = Top
      /\ \A i \in 1 .. Depth : i /= Depth => stack'[i] = stack[i]
      /\ \A i \in 1 .. Depth : stack'[i].win = stack[i].win
      BY <1>1, <1>4, <1>5, <1>6, TopStep
<1>8. ASSUME NEW i \in 1 .. Depth, NEW e \in Dialog
      PROVE  ClosedBy(i, e)' <=> ClosedBy(i, e) /\ ~(i = Depth /\ e = Top.call.win)
  <2>1. CASE i = Depth
    <3>1. ~ClosedBy(i, e)'
          BY <1>4, <1>7, <2>1 DEF ClosedBy, NoCall
    <3>2. ClosedBy(i, e) => e = Top.call.win
          BY <1>7, <2>1 DEF ClosedBy
    <3>3. QED BY <2>1, <3>1, <3>2
  <2>2. CASE i /= Depth
        BY <1>7, <2>2 DEF ClosedBy
  <2>3. QED BY <2>1, <2>2
<1>9. ASSUME NEW e \in Dialog, e = Top.call.win PROVE At(e, "call", Depth)
  <2>1. PICK kind \in Kind : \E n \in Numbers(kind) : At(e, kind, n)
        BY <1>1 DEF ModalInv, InOnePlace, IsSomewhere
  <2>2. PICK n \in Numbers(kind) : At(e, kind, n)
        BY <2>1
  <2>3. ClosedBy(Depth, e) /\ Depth \in 1 .. Depth
        BY <1>1, <1>2, <1>3, <1>7, <1>9 DEF ClosedBy, Call
  <2>4. kind = "call" /\ n = Depth
        BY <2>2, <2>3 DEF At
  <2>5. QED BY <2>2, <2>4
<1>10. CASE Animate(Top.call.win, FALSE) /\ UNCHANGED idles
  <2>1. /\ animator = NoAnimator /\ UNCHANGED idles
        /\ animator' = [win |-> Top.call.win, open |-> FALSE, left |-> Frames]
        BY <1>10 DEF Animate
  <2>2. /\ animator'.win = Top.call.win /\ animator'.open = FALSE
        /\ animator' \in Animator
        BY <1>3, <2>1, DialogAssumption DEF Animator
  <2>3. TypeOK' /\ OpensOther'
        BY <1>2, <1>5, <1>7, <2>1, <2>2 DEF TypeOK, OpensOther
  <2>4. ASSUME NEW e \in Dialog PROVE IsSomewhere(e)'
    <3>1. CASE e = Top.call.win
      <4>1. \A i \in 1 .. Depth : ~ClosedBy(i, e)'
            BY <1>8, <1>9, <3>1 DEF At
      <4>2. At(e, "animator", 0)'
            BY <1>5, <1>7, <1>9, <2>1, <2>2, <3>1, <4>1 DEF At, Numbers, Kind, HasJob
      <4>3. QED BY <4>2, FoundNext DEF Kind
    <3>2. CASE e /= Top.call.win
      <4>1. animator.win /= e /\ animator'.win /= e
            BY <2>1, <2>2, <3>2, DialogAssumption DEF NoAnimator
      <4>2. Kept(e)
            BY <1>5, <1>7, <1>8, <2>1, <3>2, <4>1 DEF Kept, HasJob
      <4>3. QED BY <1>1, <1>7, <4>2, KeptStays
    <3>3. QED BY <3>1, <3>2
  <2>5. QED BY <1>7, <2>3, <2>4 DEF ModalInv, InOnePlace
<1>11. CASE idles' = [idles EXCEPT ![active] = @ \cup {job}] /\ UNCHANGED animator
  <2>1. job \in Job /\ idles \in [{0, 1} -> SUBSET Job] /\ active \in {0, 1}
        BY <1>2, <1>3 DEF Job, TypeOK
  <2>2. \A a \in {0, 1}, e \in Dialog :
            /\ HasJob("destroy", e, a)' <=>
                  HasJob("destroy", e, a) \/ (a = active /\ e = Top.call.win)
            /\ HasJob("close", e, a)' <=> HasJob("close", e, a)
        BY <1>11, <2>1 DEF HasJob
  <2>3. idles' \in [{0, 1} -> SUBSET Job]
        BY <1>11, <2>1
  <2> HIDE DEF job
  <2>4. TypeOK' /\ OpensOther'
        BY <1>2, <1>5, <1>7, <1>11, <2>3 DEF TypeOK, OpensOther, ModalInv
  <2>5. ASSUME NEW e \in Dialog PROVE IsSomewhere(e)'
    <3>1. CASE e = Top.call.win
      <4>1. PICK b \in {0, 1} : b = active
            BY <2>1
      <4>2. b \in Numbers("free")' /\ "free" \in Kind
            BY DEF Numbers, Kind
      <4>3. \A i \in 1 .. Depth : ~ClosedBy(i, e)'
            BY <1>8, <1>9, <3>1 DEF At
      <4>4. At(e, "free", b)'
            BY <1>5, <1>7, <1>9, <1>11, <2>2, <3>1, <4>1, <4>2, <4>3 DEF At
      <4>5. QED BY <4>2, <4>4, FoundNext
    <3>2. CASE e /= Top.call.win
      <4>1. Kept(e)
            BY <1>5, <1>7, <1>8, <1>11, <2>2, <3>2 DEF Kept
      <4>2. QED BY <1>1, <1>7, <4>1, KeptStays
    <3>3. QED BY <3>1, <3>2
  <2>6. QED BY <1>7, <2>4, <2>5 DEF ModalInv, InOnePlace
<1>12. QED BY <1>10, <1>11 DEF CloseReturns

(* The end of window_manager_paint_animation: the dialog of the animator   *)
(* is freed, and the one in the slot is closed.                            *)
LEMMA AnimationEndsStep ==
    ASSUME ModalInv, Depth > 0, Top.call.event /= "close", AnimationEnds
    PROVE  ModalInv'
<1> DEFINE call == IF pendingClose = NoWindow THEN NoCall
                   ELSE [event |-> "close", win |-> pendingClose]
           rec == [Top EXCEPT !.at = "sleep", !.call = call]
<1>1. Top \in LoopState /\ TypeOK /\ Depth \in Nat \ {0}
      BY TopType DEF ModalInv
<1>2. /\ call \in Call
      /\ call.event = "close" => call.win \in Window
      /\ \A e \in Dialog : call = [event |-> "close", win |-> e] <=> pendingClose = e
      BY <1>1, DialogAssumption DEF TypeOK, Call, NoCall
<1>3. Becomes(rec)
      BY DEF AnimationEnds, TakeUp
<1> HIDE DEF call
<1>4. /\ rec \in LoopState /\ rec.win = Top.win /\ rec.saved = Top.saved
      /\ rec.quit = Top.quit /\ rec.call = call
      BY <1>1, <1>2 DEF LoopState, Phase
<1>5. /\ animator' = NoAnimator /\ pendingClose' = NoWindow
      /\ freed' = IF animator.open THEN freed ELSE freed \cup ({animator.win} \cap Dialog)
      /\ UNCHANGED <<running, shown, idles, active, lost, quitTimer, asked>>
      BY DEF AnimationEnds, TakeUp, idleVars, quitVars
<1> HIDE DEF rec
<1>6. /\ stack' \in Seq(LoopState) /\ running' \in BOOLEAN
      /\ Depth' = Depth
      /\ OnlyBottomIsMain' /\ CallsName' /\ FlagIsPerLoop'
      /\ stack'[Depth] = rec /\ stack[Depth] = Top
      /\ \A i \in 1 .. Depth : i /= Depth => stack'[i] = stack[i]
      /\ \A i \in 1 .. Depth : stack'[i].win = stack[i].win
      BY <1>2, <1>3, <1>4, <1>5, TopStep
<1>7. TypeOK'
      BY <1>1, <1>5, <1>6 DEF TypeOK
<1>8. OpensOther'
  <2>1. animator'.open = FALSE
        BY <1>5 DEF NoAnimator
  <2>2. QED BY <2>1 DEF OpensOther
<1>9. ASSUME NEW i \in 1 .. Depth, NEW e \in Dialog
      PROVE  ClosedBy(i, e)' <=> ClosedBy(i, e) \/ (i = Depth /\ e = pendingClose)
  <2>1. CASE i = Depth
    <3>1. ~ClosedBy(i, e)
          BY <1>6, <2>1 DEF ClosedBy
    <3>2. ClosedBy(i, e)' <=> e = pendingClose
          BY <1>2, <1>4, <1>6, <2>1 DEF ClosedBy
    <3>3. QED BY <2>1, <3>1, <3>2
  <2>2. CASE i /= Depth
        BY <1>6, <2>2 DEF ClosedBy
  <2>3. QED BY <2>1, <2>2
<1>10. ASSUME NEW e \in Dialog PROVE IsSomewhere(e)'
  <2>1. PICK kind \in Kind : \E n \in Numbers(kind) : At(e, kind, n)
        BY DEF ModalInv, InOnePlace, IsSomewhere
  <2>2. PICK n \in Numbers(kind) : At(e, kind, n)
        BY <2>1
  <2>3. animator'.win /= e /\ pendingClose' /= e
        BY <1>5, DialogAssumption DEF NoAnimator
  <2>4. CASE e = animator.win
    <3>1. kind = "animator"
          BY <2>2, <2>4 DEF At
    <3>2. ~animator.open
          BY <2>4, DialogAssumption DEF ModalInv, OpensOther
    <3>3. e \in freed' /\ pendingClose /= e
          BY <1>5, <2>2, <2>4, <3>1, <3>2 DEF At
    <3>4. At(e, "freed", 0)'
          BY <1>5, <1>6, <1>9, <2>2, <2>3, <3>1, <3>3 DEF At, Numbers, Kind, HasJob
    <3>5. QED BY <3>4, FoundNext DEF Kind
  <2>5. CASE e = pendingClose
    <3>1. kind = "slot"
          BY <2>2, <2>5 DEF At
    <3>2. PICK m \in Nat : m = Depth
          BY <1>1
    <3>3. m \in Numbers("call")' /\ "call" \in Kind
          BY <1>1, <1>6, <3>2 DEF Numbers, Kind
    <3>4. e \notin freed'
          BY <1>5, <2>2, <3>1 DEF At
    <3>5. \A i \in 1 .. Depth : ClosedBy(i, e)' <=> i = m
          BY <1>9, <2>2, <2>5, <3>1, <3>2 DEF At
    <3>6. At(e, "call", m)'
          BY <1>5, <1>6, <2>2, <2>3, <3>1, <3>3, <3>4, <3>5 DEF At, HasJob
    <3>7. QED BY <3>3, <3>6, FoundNext
  <2>6. CASE e /= animator.win /\ e /= pendingClose
    <3>1. e \in freed' <=> e \in freed
          BY <1>5, <2>6
    <3>2. Kept(e)
          BY <1>5, <1>6, <1>9, <2>3, <2>6, <3>1 DEF Kept, HasJob
    <3>3. QED BY <1>6, <3>2, KeptStays
  <2>7. QED BY <2>4, <2>5, <2>6
<1>11. QED BY <1>6, <1>7, <1>8, <1>10 DEF ModalInv, InOnePlace

(* Another window is animated, or takes the slot.                          *)
LEMMA AnimateOtherStep ==
    ASSUME ModalInv, NEW open \in BOOLEAN, AnimateOther(open)
    PROVE  ModalInv'
<1>1. /\ Depth > 0 /\ animator = NoAnimator
      /\ animator' = [win |-> Other, open |-> open, left |-> Frames]
      /\ UNCHANGED <<running, stack, shown, idles, active, pendingClose, lost, freed,
                     quitTimer, asked>>
      BY DEF AnimateOther, InUserCode, Animate, idleVars, quitVars
<1>2. animator' \in Animator /\ animator'.win = Other
      BY <1>1, DialogAssumption DEF Animator, Window
<1>3. TypeOK' /\ OpensOther'
      BY <1>1, <1>2 DEF ModalInv, TypeOK, OpensOther
<1>4. /\ OnlyBottomIsMain' /\ CallsName' /\ FlagIsPerLoop' /\ Depth' = Depth
      /\ \A i \in 1 .. Depth : stack'[i].win = stack[i].win
      /\ \A i \in 1 .. Depth, d \in Dialog : ClosedBy(i, d)' <=> ClosedBy(i, d)
      BY <1>1, SameStack
<1>5. ASSUME NEW e \in Dialog PROVE Kept(e)
  <2>1. animator.win /= e /\ animator'.win /= e
        BY <1>1, <1>2, DialogAssumption DEF NoAnimator
  <2>2. QED BY <1>1, <1>4, <2>1 DEF Kept, HasJob
<1>6. InOnePlace'
      BY <1>1, <1>4, <1>5, AllKept
<1>7. QED BY <1>3, <1>4, <1>6 DEF ModalInv

LEMMA CloseOtherStep ==
    ASSUME ModalInv, CloseOther
    PROVE  ModalInv'
<1>1. /\ Depth > 0 /\ pendingClose' = Other
      /\ lost' = lost \cup ({pendingClose} \cap Dialog)
      /\ UNCHANGED <<running, stack, shown, idles, active, animator, freed, quitTimer, asked>>
      BY DEF CloseOther, InUserCode, Postpone, idleVars, quitVars
<1>2. TypeOK' /\ OpensOther'
      BY <1>1 DEF ModalInv, TypeOK, OpensOther, Window
<1>3. /\ OnlyBottomIsMain' /\ CallsName' /\ FlagIsPerLoop' /\ Depth' = Depth
      /\ \A i \in 1 .. Depth : stack'[i].win = stack[i].win
      /\ \A i \in 1 .. Depth, d \in Dialog : ClosedBy(i, d)' <=> ClosedBy(i, d)
      BY <1>1, SameStack
<1>4. ASSUME NEW e \in Dialog PROVE IsSomewhere(e)'
  <2>1. pendingClose' /= e
        BY <1>1, DialogAssumption
  <2>2. CASE e = pendingClose
    <3>1. PICK kind \in Kind : \E n \in Numbers(kind) : At(e, kind, n)
          BY <1>1 DEF ModalInv, InOnePlace, IsSomewhere
    <3>2. PICK n \in Numbers(kind) : At(e, kind, n)
          BY <3>1
    <3>3. kind = "slot"
          BY <2>2, <3>2 DEF At
    <3>4. At(e, "lost", 0)'
          BY <1>1, <1>3, <2>1, <2>2, <3>2, <3>3 DEF At, Numbers, Kind, HasJob
    <3>5. QED BY <3>4, FoundNext DEF Kind
  <2>3. CASE e /= pendingClose
    <3>1. Kept(e)
          BY <1>1, <1>3, <2>1, <2>3 DEF Kept, HasJob
    <3>2. QED BY <1>1, <1>3, <3>1, KeptStays
  <2>4. QED BY <2>2, <2>3
<1>5. QED BY <1>2, <1>3, <1>4 DEF ModalInv, InOnePlace

-----------------------------------------------------------------------------
(* The steps of a loop that move no dialog.                                *)
LEMMA QuitStep ==
    ASSUME ModalInv, Depth > 0, NEW next \in Phase, MainLoopQuit(next),
           UNCHANGED <<shown, idles, active, animator, pendingClose, lost, freed>>,
           quitTimer' \in BOOLEAN, asked' \in BOOLEAN
    PROVE  ModalInv'
<1> DEFINE rec == [Top EXCEPT !.quit = TRUE, !.at = next]
<1>1. Top \in LoopState /\ TypeOK
      BY TopType DEF ModalInv
<1>2. /\ rec \in LoopState /\ rec.win = Top.win /\ rec.saved = Top.saved
      /\ rec.quit = TRUE /\ rec.call = Top.call
      BY <1>1 DEF LoopState
<1>3. Becomes(rec) /\ running' = FALSE
      BY DEF MainLoopQuit
<1> HIDE DEF rec
<1>4. QED BY <1>1, <1>2, <1>3, QuietStep DEF TypeOK

LEMMA TimerDispatchStep == ASSUME ModalInv, TimerDispatch PROVE ModalInv'
<1> DEFINE rec == [Top EXCEPT !.at = "events"]
<1>1. Depth > 0
      BY DEF TimerDispatch, Between
<1>2. Top \in LoopState /\ TypeOK /\ "events" \in Phase
      BY <1>1, TopType DEF ModalInv, Phase
<1>3. /\ UNCHANGED <<shown, idles, active, animator, pendingClose, lost, freed, asked>>
      /\ quitTimer' = FALSE
      BY DEF TimerDispatch, idleVars, wmVars
<1>4. CASE quitTimer
  <2>1. MainLoopQuit("events")
        BY <1>4 DEF TimerDispatch
  <2>2. QED BY <1>1, <1>2, <1>3, <2>1, QuitStep DEF TypeOK
<1>5. CASE ~quitTimer
  <2>1. Becomes(rec) /\ UNCHANGED running
        BY <1>5 DEF TimerDispatch
  <2>2. /\ rec \in LoopState /\ rec.win = Top.win /\ rec.saved = Top.saved
        /\ rec.quit = Top.quit /\ rec.call = Top.call
        BY <1>2 DEF LoopState
  <2> HIDE DEF rec
  <2>3. QED BY <1>1, <1>2, <1>3, <2>1, <2>2, QuietStep DEF TypeOK
<1>6. QED BY <1>4, <1>5

LEMMA HandlerReturnsStep == ASSUME ModalInv, HandlerReturns PROVE ModalInv'
<1> DEFINE rec == [Top EXCEPT !.held = {}]
<1>1. Depth > 0 /\ Becomes(rec)
      BY DEF HandlerReturns, InUserCode
<1>2. Top \in LoopState /\ TypeOK
      BY <1>1, TopType DEF ModalInv
<1>3. /\ rec \in LoopState /\ rec.win = Top.win /\ rec.saved = Top.saved
      /\ rec.quit = Top.quit /\ rec.call = Top.call
      BY <1>2 DEF LoopState
<1>4. UNCHANGED <<running, shown, idles, animator, pendingClose, lost, freed, quitTimer, asked>>
      BY DEF HandlerReturns, idleVars, wmVars, quitVars
<1>5. active' \in {0, 1}
      BY <1>2 DEF HandlerReturns, TypeOK, idleVars
<1> HIDE DEF rec
<1>6. QED BY <1>1, <1>2, <1>3, <1>4, <1>5, QuietStep DEF TypeOK

LEMMA EventsDispatchedStep == ASSUME ModalInv, EventsDispatched PROVE ModalInv'
<1> DEFINE rec == [Top EXCEPT !.at = "idle", !.array = active]
<1>1. Depth > 0 /\ Becomes(rec)
      BY DEF EventsDispatched, Between
<1>2. Top \in LoopState /\ TypeOK
      BY <1>1, TopType DEF ModalInv
<1>3. /\ rec \in LoopState /\ rec.win = Top.win /\ rec.saved = Top.saved
      /\ rec.quit = Top.quit /\ rec.call = Top.call
      BY <1>2 DEF LoopState, Phase, TypeOK
<1>4. UNCHANGED <<running, shown, idles, animator, pendingClose, lost, freed, quitTimer, asked>>
      BY DEF EventsDispatched, idleVars, wmVars, quitVars
<1>5. active' \in {0, 1}
      BY <1>2 DEF EventsDispatched, TypeOK, idleVars
<1> HIDE DEF rec
<1>6. QED BY <1>1, <1>2, <1>3, <1>4, <1>5, QuietStep DEF TypeOK

LEMMA IdleDoneStep == ASSUME ModalInv, IdleDone PROVE ModalInv'
<1> DEFINE rec == [Top EXCEPT !.at = "paint"]
<1>1. Depth > 0 /\ Becomes(rec)
      BY DEF IdleDone, Between
<1>2. Top \in LoopState /\ TypeOK
      BY <1>1, TopType DEF ModalInv
<1>3. /\ rec \in LoopState /\ rec.win = Top.win /\ rec.saved = Top.saved
      /\ rec.quit = Top.quit /\ rec.call = Top.call
      BY <1>2 DEF LoopState, Phase
<1>4. UNCHANGED <<running, shown, idles, animator, pendingClose, lost, freed, quitTimer, asked>>
      BY DEF IdleDone, idleVars, wmVars, quitVars
<1>5. active' \in {0, 1}
      BY <1>2 DEF IdleDone, TypeOK, idleVars
<1> HIDE DEF rec
<1>6. QED BY <1>1, <1>2, <1>3, <1>4, <1>5, QuietStep DEF TypeOK

LEMMA NextRoundStep == ASSUME ModalInv, NextRound PROVE ModalInv'
<1> DEFINE rec == [Top EXCEPT !.at = "timer"]
<1>1. Depth > 0 /\ Becomes(rec)
      BY DEF NextRound, Between
<1>2. Top \in LoopState /\ TypeOK
      BY <1>1, TopType DEF ModalInv
<1>3. /\ rec \in LoopState /\ rec.win = Top.win /\ rec.saved = Top.saved
      /\ rec.quit = Top.quit /\ rec.call = Top.call
      BY <1>2 DEF LoopState, Phase
<1>4. UNCHANGED <<running, shown, idles, animator, pendingClose, lost, freed, quitTimer, asked>>
      BY DEF NextRound, idleVars, wmVars, quitVars
<1>5. active' \in {0, 1}
      BY <1>2 DEF NextRound, TypeOK, idleVars
<1> HIDE DEF rec
<1>6. QED BY <1>1, <1>2, <1>3, <1>4, <1>5, QuietStep DEF TypeOK

LEMMA PaintFrameStep == ASSUME ModalInv, PaintFrame PROVE ModalInv'
<1> DEFINE rec == [Top EXCEPT !.at = "sleep"]
<1>1. Depth > 0 /\ Becomes(rec)
      BY DEF PaintFrame, Between
<1>2. Top \in LoopState /\ TypeOK
      BY <1>1, TopType DEF ModalInv
<1>3. /\ rec \in LoopState /\ rec.win = Top.win /\ rec.saved = Top.saved
      /\ rec.quit = Top.quit /\ rec.call = Top.call
      BY <1>2 DEF LoopState, Phase
<1>4. UNCHANGED <<running, shown, idles, active, pendingClose, lost, freed, quitTimer, asked>>
      BY DEF PaintFrame, idleVars, quitVars
<1>5. /\ animator' \in Animator \cup {NoAnimator}
      /\ animator'.win = animator.win /\ animator'.open = animator.open
  <2>1. CASE animator = NoAnimator
        BY <2>1 DEF PaintFrame
  <2>2. CASE animator /= NoAnimator
    <3>1. animator \in Animator /\ animator.left > 0 /\ animator' = [animator EXCEPT !.left = @ - 1]
          BY <1>2, <2>2 DEF PaintFrame, TypeOK
    <3>2. animator.left - 1 \in 0 .. Frames
          BY <3>1, DialogAssumption DEF Animator
    <3>3. QED BY <3>1, <3>2 DEF Animator
  <2>3. QED BY <2>1, <2>2
<1> HIDE DEF rec
<1>6. QED BY <1>1, <1>2, <1>3, <1>4, <1>5, QuietStep DEF TypeOK

LEMMA PaintLastOfOpenStep == ASSUME ModalInv, PaintLastOfOpen PROVE ModalInv'
<1> DEFINE call == [event |-> "open", win |-> animator.win]
           rec == [Top EXCEPT !.call = call]
<1>1. Depth > 0 /\ Becomes(rec) /\ Top.call = NoCall
      BY DEF PaintLastOfOpen, Between
<1>2. Top \in LoopState /\ TypeOK
      BY <1>1, TopType DEF ModalInv
<1>3. call \in Call /\ call.event /= "close" /\ Top.call.event /= "close"
      BY <1>1, <1>2 DEF TypeOK, Call, Animator, NoAnimator, NoCall
<1> HIDE DEF call
<1>4. /\ rec \in LoopState /\ rec.win = Top.win /\ rec.saved = Top.saved
      /\ rec.quit = Top.quit /\ rec.call = call
      BY <1>2, <1>3 DEF LoopState
<1>5. UNCHANGED <<running, shown, idles, active, animator, pendingClose, lost, freed,
                  quitTimer, asked>>
      BY DEF PaintLastOfOpen, idleVars, wmVars, quitVars
<1> HIDE DEF rec
<1>6. QED BY <1>1, <1>2, <1>3, <1>4, <1>5, QuietStep DEF TypeOK

(* Steps that leave the loops and the dialogs alone.                       *)
LEMMA IdleStep ==
    ASSUME ModalInv, Depth > 0, quitTimer' \in BOOLEAN, asked' \in BOOLEAN,
           UNCHANGED <<running, stack, shown, idles, active, animator, pendingClose, lost, freed>>
    PROVE  ModalInv'
<1>1. /\ OnlyBottomIsMain' /\ CallsName' /\ FlagIsPerLoop' /\ Depth' = Depth
      /\ \A i \in 1 .. Depth : stack'[i].win = stack[i].win
      /\ \A i \in 1 .. Depth, d \in Dialog : ClosedBy(i, d)' <=> ClosedBy(i, d)
      BY SameStack
<1>2. TypeOK' /\ OpensOther'
      BY DEF ModalInv, TypeOK, OpensOther
<1>3. ASSUME NEW d \in Dialog PROVE Kept(d)
      BY <1>1 DEF Kept, HasJob
<1>4. InOnePlace'
      BY <1>1, <1>3, AllKept
<1>5. QED BY <1>1, <1>2, <1>4 DEF ModalInv

LEMMA TkExitStep == ASSUME ModalInv, TkExit PROVE ModalInv'
<1>1. /\ stack' = << >> /\ animator' = NoAnimator /\ pendingClose' = NoWindow
      /\ idles' = [a \in {0, 1} |-> {}]
      /\ UNCHANGED <<running, shown, active, lost, quitTimer, asked>>
      BY DEF TkExit, quitVars
<1>2. freed' \subseteq Dialog
      BY DEF TkExit, ModalInv, TypeOK
<1>3. stack' \in Seq(LoopState) /\ Depth' = 0
      BY <1>1 DEF Depth
<1>4. TypeOK'
      BY <1>1, <1>2, <1>3 DEF ModalInv, TypeOK
<1>5. OpensOther'
  <2>1. animator'.open = FALSE
        BY <1>1 DEF NoAnimator
  <2>2. QED BY <2>1 DEF OpensOther
<1>6. \A i \in 1 .. Depth' : FALSE
      BY <1>3
<1>7. OnlyBottomIsMain' /\ CallsName' /\ FlagIsPerLoop' /\ InOnePlace'
      BY <1>3, <1>6 DEF OnlyBottomIsMain, CallsName, FlagIsPerLoop, InOnePlace
<1>8. QED BY <1>4, <1>5, <1>7 DEF ModalInv

LEMMA ModalNextInv == ModalInv /\ [Next]_vars => ModalInv'
<1> SUFFICES ASSUME ModalInv, [Next]_vars PROVE ModalInv'
    OBVIOUS
<1>1. ASSUME NEW d \in Dialog, Modal(d) PROVE ModalInv'
      BY <1>1, ModalPushes
<1>2. ASSUME NEW d \in Dialog, DialogQuit(d) PROVE ModalInv'
  <2>1. /\ Depth > 0 /\ MainLoopQuit(Top.at)
        /\ UNCHANGED <<shown, idles, active, animator, pendingClose, lost, freed, quitTimer, asked>>
        BY <1>2 DEF DialogQuit, InUserCode, idleVars, wmVars, quitVars
  <2>2. TypeOK /\ Top.at \in Phase
        BY <2>1, TopType DEF ModalInv, LoopState
  <2>3. QED BY <2>1, <2>2, QuitStep DEF TypeOK
<1>3. ASSUME TkQuit PROVE ModalInv'
  <2>1. /\ Depth > 0 /\ quitTimer' = TRUE /\ asked' = TRUE
        /\ UNCHANGED <<running, stack, shown, idles, active, animator, pendingClose, lost, freed>>
        BY <1>3 DEF TkQuit, InUserCode, idleVars, wmVars
  <2>2. QED BY <2>1, IdleStep
<1>4. ASSUME NEW open \in BOOLEAN, AnimateOther(open) PROVE ModalInv'
      BY <1>4, AnimateOtherStep
<1>5. ASSUME NEW x \in Window, IdleClose(x) PROVE ModalInv'
      BY <1>5, IdleCloseStep
<1>6. ASSUME NEW x \in Window, IdleDestroy(x) PROVE ModalInv'
      BY <1>6, IdleDestroyStep
<1>7. CASE OpenReturns
      BY <1>7, AnimationEndsStep DEF OpenReturns
<1>8. CASE PaintLastOfClose
      BY <1>8, AnimationEndsStep DEF PaintLastOfClose, Between, NoCall
<1>9. CASE UNCHANGED vars
  <2>1. UNCHANGED <<running, stack, shown, idles, active, animator, pendingClose, lost, freed,
                    quitTimer, asked>>
        BY <1>9 DEF vars, idleVars, wmVars, quitVars
  <2>2. CASE Depth > 0
        BY <2>1, <2>2, IdleStep DEF ModalInv, TypeOK
  <2>3. CASE ~(Depth > 0)
    <3>1. Depth' = Depth /\ Depth \in Nat
          BY <2>1 DEF Depth, ModalInv, TypeOK
    <3>2. \A i \in 1 .. Depth' : FALSE
          BY <2>3, <3>1
    <3>3. OnlyBottomIsMain' /\ CallsName' /\ FlagIsPerLoop' /\ InOnePlace'
          BY <2>3, <3>1, <3>2 DEF OnlyBottomIsMain, CallsName, FlagIsPerLoop, InOnePlace
    <3>4. QED BY <2>1, <3>3 DEF ModalInv, TypeOK, OpensOther
  <2>4. QED BY <2>2, <2>3
<1>10. QED
      BY <1>1, <1>2, <1>3, <1>4, <1>5, <1>6, <1>7, <1>8, <1>9, CloseOtherStep, HandlerReturnsStep,
         CloseReturnsStep, TimerDispatchStep, EventsDispatchedStep, IdleDoneStep, PaintFrameStep,
         PaintLastOfOpenStep, NextRoundStep, ModalPops, TkExitStep
      DEF Next, Application, LoopStep

LEMMA ModalInvAlways == Spec => []ModalInv
<1>1. ModalInv /\ [Next]_vars => ModalInv'
      BY ModalNextInv
<1>2. QED BY ModalInitInv, <1>1, PTL DEF Spec

(* The variables of the loops, the idles and the window manager keep their *)
(* types, for any number of dialogs.                                       *)
THEOREM ModalTypeCorrect == Spec => []TypeOK
<1>1. ModalInv => TypeOK
      BY DEF ModalInv
<1>2. QED BY ModalInvAlways, <1>1, PTL

(* Whatever the number of dialogs and the depth of the loops, the flag     *)
(* that main_loop_run reads has the value that the innermost loop was      *)
(* given, and dialog_modal restores its caller's.                          *)
THEOREM FlagCorrect == Spec => []FlagIsPerLoop
<1>1. ModalInv => FlagIsPerLoop
      BY DEF ModalInv
<1>2. QED BY ModalInvAlways, <1>1, PTL

(* A dialog that is at one place in the sense of At is in one of Places.   *)
LEMMA OnePlace ==
    ASSUME NEW d \in Dialog, NEW kind \in Kind, NEW n \in Numbers(kind), At(d, kind, n)
    PROVE  Places(d) = IF kind = "new" THEN {} ELSE {<<kind, n>>}
<1>1. /\ {j \in 1 .. Depth : stack[j].win = d} = IF kind = "loop" THEN {n} ELSE {}
      /\ {j \in 1 .. Depth : ClosedBy(j, d)} = IF kind = "call" THEN {n} ELSE {}
      BY DEF At, Numbers
<1>2. /\ {b \in {0, 1} : [func |-> "close", win |-> d] \in idles[b]}
               = IF kind = "close" THEN {n} ELSE {}
      /\ {b \in {0, 1} : [func |-> "destroy", win |-> d] \in idles[b]}
               = IF kind = "free" THEN {n} ELSE {}
      BY DEF At, Numbers, HasJob
<1>3. /\ {y \in {0} : pendingClose = d} = IF kind = "slot" THEN {0} ELSE {}
      /\ {y \in {0} : animator.win = d} = IF kind = "animator" THEN {0} ELSE {}
      /\ {y \in {0} : d \in freed} = IF kind = "freed" THEN {0} ELSE {}
      /\ {y \in {0} : d \in lost} = IF kind = "lost" THEN {0} ELSE {}
      BY DEF At
<1>4. kind \in {"slot", "animator", "freed", "lost"} => n = 0
      BY DEF Numbers
<1>5. QED BY <1>1, <1>2, <1>3, <1>4 DEF Places, Kind

(* A dialog is closed and freed once, and not while its loop runs, for any *)
(* number of dialogs, loops nested in any callback, and frames of an       *)
(* animation.                                                              *)
THEOREM ClosedOnceCorrect == Spec => []ClosedOnce
<1>1. ASSUME ModalInv PROVE ClosedOnce
  <2> SUFFICES ASSUME stack /= << >>
               PROVE  /\ \A d \in shown : \E p \in Places(d) : Places(d) = {p}
                      /\ \A d \in Dialog \ shown : Places(d) = {}
      BY DEF ClosedOnce
  <2>1. stack \in Seq(LoopState) /\ shown \subseteq Dialog
        BY <1>1 DEF ModalInv, TypeOK
  <2>2. Depth > 0
        BY <2>1, EmptySeq DEF Depth
  <2>3. ASSUME NEW d \in Dialog
        PROVE  \/ d \in shown /\ \E p \in Places(d) : Places(d) = {p}
               \/ d \notin shown /\ Places(d) = {}
    <3>1. PICK kind \in Kind : \E n \in Numbers(kind) : At(d, kind, n)
          BY <1>1, <2>2 DEF ModalInv, InOnePlace, IsSomewhere
    <3>2. PICK n \in Numbers(kind) : At(d, kind, n)
          BY <3>1
    <3>3. Places(d) = IF kind = "new" THEN {} ELSE {<<kind, n>>}
          BY <3>2, OnePlace
    <3>4. d \notin shown <=> kind = "new"
          BY <3>2 DEF At
    <3>5. QED BY <3>3, <3>4
  <2>4. QED BY <2>1, <2>3
<1>2. QED BY ModalInvAlways, <1>1, PTL
=============================================================================
