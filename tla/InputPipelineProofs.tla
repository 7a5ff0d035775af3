------------------------ MODULE InputPipelineProofs ------------------------
(***************************************************************************)
(* Proofs about the way of a pointer event from the mouse to the window    *)
(* manager, for every capacity of the event queue and every set of         *)
(* requests that other threads post in between.                            *)
(***************************************************************************)
EXTENDS InputPipeline, SequenceTheorems, TLAPS

(* A thread that posts has something to post.                              *)
PostsPointer == tpc = "post" => req \in Pointer

(* Only idle_queue and timer_queue requests carry an id.                   *)
IdsAreRequests == \A i \in 1 .. Len(queue) : queue[i].type \notin Pointer => queue[i].id \in Request

PipelineType == TypeOK /\ PostsPointer /\ IdsAreRequests

(* What Append and Tail do to the queue.                                   *)
LEMMA Appended ==
    ASSUME queue \in Seq(Event), NEW e \in Event, queue' = Append(queue, e)
    PROVE  /\ queue' \in Seq(Event)
           /\ Len(queue) \in Nat /\ Len(queue') = Len(queue) + 1
           /\ \A i \in 1 .. Len(queue) : queue'[i] = queue[i]
           /\ queue'[Len(queue) + 1] = e
           /\ \A i \in 1 .. Len(queue') : i \in 1 .. Len(queue) \/ i = Len(queue) + 1
BY AppendProperties

LEMMA Shifted ==
    ASSUME queue \in Seq(Event), queue /= << >>, queue' = Tail(queue)
    PROVE  /\ queue' \in Seq(Event)
           /\ Len(queue) \in Nat \ {0} /\ Len(queue') = Len(queue) - 1
           /\ Head(queue) \in Event /\ Head(queue) = queue[1]
           /\ \A i \in 1 .. Len(queue') : queue'[i] = queue[i + 1] /\ i + 1 \in 1 .. Len(queue)
           /\ \A i \in 2 .. Len(queue) : queue'[i - 1] = queue[i] /\ i - 1 \in 1 .. Len(queue')
<1>1. Len(queue) \in Nat \ {0}
      BY EmptySeq, LenProperties
<1>2. /\ Head(queue) \in Event /\ Head(queue) = queue[1] /\ queue' \in Seq(Event)
      /\ Len(queue') = Len(queue) - 1
      /\ \A i \in 1 .. Len(queue') : queue'[i] = queue[i + 1]
      BY HeadTailProperties
<1>3. QED BY <1>1, <1>2

(* What showing a dialog and its return do to the stack of callbacks.      *)
LEMMA Pushed ==
    ASSUME stack \in Seq(Frame), NEW f \in Frame, stack' = Append(stack, f)
    PROVE  /\ stack' \in Seq(Frame)
           /\ Len(stack) \in Nat /\ Len(stack') = Len(stack) + 1
           /\ \A i \in 1 .. Len(stack) : stack'[i] = stack[i]
           /\ stack'[Len(stack) + 1] = f
BY AppendProperties

LEMMA Unstacked ==
    ASSUME stack \in Seq(Frame), stack /= << >>, stack' = SubSeq(stack, 1, Len(stack) - 1)
    PROVE  /\ stack' \in Seq(Frame)
           /\ Len(stack) \in Nat \ {0} /\ Len(stack') = Len(stack) - 1
           /\ stack[Len(stack)] \in Frame
           /\ \A i \in 1 .. Len(stack') : stack'[i] = stack[i]
<1>1. Len(stack) \in Nat \ {0}
      BY EmptySeq, LenProperties
<1>2. \A i \in 1 .. Len(stack) : stack[i] \in Frame
      BY ElementOfSeq
<1>3. Len(stack) - 1 \in Int /\ \A i \in 1 .. Len(stack) - 1 : stack[i] \in Frame
      BY <1>1, <1>2
<1>4. /\ stack' \in Seq(Frame)
      /\ Len(stack') = IF 1 <= Len(stack) - 1 THEN Len(stack) - 1 - 1 + 1 ELSE 0
      /\ \A i \in 1 .. Len(stack) - 1 - 1 + 1 : stack'[i] = stack[1 + i - 1]
      BY <1>3, SubSeqProperties
<1>5. Len(stack') = Len(stack) - 1
  <2> DEFINE n == Len(stack)
             m == Len(stack')
  <2>1. n \in Nat \ {0} /\ m = IF 1 <= n - 1 THEN n - 1 - 1 + 1 ELSE 0
        BY <1>1, <1>4
  <2> HIDE DEF n, m
  <2>2. m = n - 1
        BY <2>1
  <2>3. QED BY <2>2 DEF n, m
<1>6. ASSUME NEW i \in 1 .. Len(stack') PROVE stack'[i] = stack[i]
  <2>1. i \in 1 .. Len(stack) - 1 - 1 + 1 /\ 1 + i - 1 = i
        BY <1>1, <1>5
  <2>2. QED BY <1>4, <2>1
<1>7. stack[Len(stack)] \in Frame
      BY <1>1, <1>2
<1>8. QED BY <1>1, <1>4, <1>5, <1>6, <1>7

(* A callback returns, or leaves a frame for its caller on the stack.      *)
LEMMA CallbackStack ==
    ASSUME stack \in Seq(Frame), Len(stack) <= MaxNest, running \in BOOLEAN,
           NEW ignoring \in BOOLEAN, NEW from \in Origin, NEW next \in Phase,
           Callback(from, next, ignoring)
    PROVE  /\ stack' \in Seq(Frame) /\ Len(stack') <= MaxNest
           /\ running' \in BOOLEAN /\ ignoreInput' \in BOOLEAN /\ gpc' \in {"timer", next}
           /\ Len(stack) \in Nat /\ Len(stack') \in {Len(stack), Len(stack) + 1}
           /\ \A i \in 1 .. Len(stack) : stack'[i] = stack[i]
           /\ \/ gpc' = next /\ stack' = stack
              \/ Len(stack') = Len(stack) + 1 /\ stack'[Len(stack) + 1].from = from
<1>1. CASE gpc' = next /\ UNCHANGED stack /\ running' \in {running, FALSE}
      BY <1>1, LenProperties DEF Callback
<1>2. CASE /\ Len(stack) < MaxNest /\ running' = TRUE /\ gpc' = "timer"
           /\ stack' = Append(stack, [from |-> from, running |-> running])
  <2>1. [from |-> from, running |-> running] \in Frame
        BY DEF Frame
  <2>2. /\ stack' \in Seq(Frame)
        /\ Len(stack) \in Nat /\ Len(stack') = Len(stack) + 1
        /\ \A i \in 1 .. Len(stack) : stack'[i] = stack[i]
        /\ stack'[Len(stack) + 1] = [from |-> from, running |-> running]
        BY <1>2, <2>1, Pushed
  <2>3. ignoreInput' \in BOOLEAN
        BY DEF Callback
  <2>4. stack'[Len(stack) + 1].from = from
        BY <2>2
  <2>5. Len(stack') <= MaxNest /\ Len(stack') \in {Len(stack), Len(stack) + 1}
        BY <1>2, <2>2, PipelineAssumption
  <2>6. QED BY <1>2, <2>2, <2>3, <2>4, <2>5
<1>3. QED BY <1>1, <1>2 DEF Callback

-----------------------------------------------------------------------------
LEMMA PipelineInitType == Init => PipelineType
<1> SUFFICES ASSUME Init PROVE PipelineType
    OBVIOUS
<1>1. queue = << >> /\ queue \in Seq(Event) /\ Len(queue) = 0 /\ Len(queue) <= Capacity
      BY PipelineAssumption, EmptySeq DEF Init
<1>2. IdsAreRequests /\ PostsPointer
      BY <1>1 DEF Init, IdsAreRequests, PostsPointer
<1>3. status \in [Request -> {"new", "queued", "refused", "idle", "timer", "ran"}]
      BY DEF Init
<1>4. stack \in Seq(Frame) /\ Len(stack) <= MaxNest /\ held \in 0 .. MaxNest + 1
      BY PipelineAssumption, EmptySeq DEF Init
<1>5. TypeOK
      BY <1>1, <1>3, <1>4 DEF Init, TypeOK, Phase
<1>6. QED BY <1>2, <1>5 DEF PipelineType

LEMMA PipelineNextType == PipelineType /\ [Next]_vars => PipelineType'
<1> SUFFICES ASSUME PipelineType, [Next]_vars PROVE PipelineType'
    OBVIOUS
<1> USE DEF PipelineType, TypeOK, PostsPointer, IdsAreRequests
<1>1. ASSUME ReadFails PROVE PipelineType'
      BY <1>1 DEF ReadFails, guiVars
<1>2. ASSUME NEW left \in BOOLEAN, ReadMouse(left) PROVE PipelineType'
  <2>1. TypeOf(left) \in Pointer
        BY DEF TypeOf, Pointer
  <2>2. QED BY <1>2, <2>1 DEF ReadMouse, guiVars
<1>3. CASE InputDispatch
  <2>1. UNCHANGED <<infoPressed, status, guiVars>> /\ tpc' = "read" /\ req' = "NONE"
        BY <1>3 DEF InputDispatch
  <2>2. req \in Pointer
        BY <1>3 DEF InputDispatch
  <2>3. PointerEvent(req) \in Event /\ PointerEvent(req).type \in Pointer
        BY <2>2 DEF PointerEvent, Event
  <2>4. CASE Accepts
    <3>1. queue' = Append(queue, PointerEvent(req)) /\ refused' = refused
          BY <1>3, <2>4 DEF InputDispatch
    <3>2. queue' \in Seq(Event) /\ Len(queue') <= Capacity
          BY <2>3, <2>4, <3>1, Appended, PipelineAssumption DEF Accepts
    <3>3. IdsAreRequests'
          BY <2>3, <3>1, Appended
    <3>4. QED BY <2>1, <3>1, <3>2, <3>3 DEF guiVars
  <2>5. CASE ~Accepts
        BY <1>3, <2>1, <2>2, <2>5 DEF InputDispatch, guiVars
  <2>6. QED BY <2>4, <2>5
<1>4. ASSUME NEW q \in Request, NEW type \in {"ADD_IDLE", "ADD_TIMER"}, QueueRequest(q, type)
      PROVE  PipelineType'
  <2>1. UNCHANGED <<threadVars, refused, guiVars>>
        BY <1>4 DEF QueueRequest
  <2>2. status' \in [Request -> {"new", "queued", "refused", "idle", "timer", "ran"}]
        BY <1>4 DEF QueueRequest
  <2> DEFINE e == [type |-> type, id |-> q]
  <2>3. e \in Event /\ e.id \in Request
        BY DEF Event
  <2>4. CASE Accepts
    <3>1. queue' = Append(queue, e)
          BY <1>4, <2>4 DEF QueueRequest
    <3> HIDE DEF e
    <3>2. queue' \in Seq(Event) /\ Len(queue') <= Capacity
          BY <2>3, <2>4, <3>1, Appended, PipelineAssumption DEF Accepts
    <3>3. IdsAreRequests'
          BY <2>3, <3>1, Appended
    <3>4. QED BY <2>1, <2>2, <3>2, <3>3 DEF threadVars, guiVars
  <2>5. CASE ~Accepts
        BY <1>4, <2>1, <2>2, <2>5 DEF QueueRequest, threadVars, guiVars
  <2>6. QED BY <2>4, <2>5
<1>5. CASE TimerDispatch
      BY <1>5, CallbackStack DEF TimerDispatch, Ran, threadVars, Origin, Phase
<1>6. CASE DispatchPointer
  <2>1. queue' = Tail(queue) /\ queue /= << >>
        BY <1>6 DEF DispatchPointer
  <2>2. queue' \in Seq(Event) /\ Len(queue') <= Capacity /\ IdsAreRequests'
        BY <2>1, Shifted, PipelineAssumption
  <2>3. UNCHANGED <<tpc, infoPressed, req, refused, status>>
        BY <1>6 DEF DispatchPointer, threadVars
  <2>4. CASE UNCHANGED guiVars
        BY <2>2, <2>3, <2>4 DEF guiVars
  <2>5. CASE ~Ignored(Head(queue).type)
    <3> DEFINE from == IF Head(queue).type = "UP" THEN "up" ELSE "events"
    <3>1. Callback(from, "events", ignoreInput)
          BY <1>6, <2>5 DEF DispatchPointer
    <3>2. from \in Origin /\ "events" \in Phase
          BY DEF Origin, Phase
    <3> HIDE DEF from
    <3>3. /\ stack' \in Seq(Frame) /\ Len(stack') <= MaxNest /\ Len(stack) \in Nat
          /\ running' \in BOOLEAN /\ ignoreInput' \in BOOLEAN /\ gpc' \in Phase
          BY <3>1, <3>2, CallbackStack DEF Phase
    <3>4. wmPressed' \in BOOLEAN
          BY <1>6, <2>5 DEF DispatchPointer
    <3>5. held' \in {Len(stack) + 1, 0, held}
          BY <1>6, <2>5 DEF DispatchPointer
    <3>6. held' \in 0 .. MaxNest + 1
          BY <3>3, <3>5, PipelineAssumption
    <3>7. QED BY <2>2, <2>3, <3>3, <3>4, <3>6
  <2>6. QED BY <1>6, <2>4, <2>5 DEF DispatchPointer
<1>7. CASE DispatchRequest
  <2>1. queue' = Tail(queue) /\ queue /= << >>
        BY <1>7 DEF DispatchRequest
  <2>2. queue' \in Seq(Event) /\ Len(queue') <= Capacity /\ IdsAreRequests'
        BY <2>1, Shifted, PipelineAssumption
  <2>3. status' \in [Request -> {"new", "queued", "refused", "idle", "timer", "ran"}]
        BY <1>7 DEF DispatchRequest
  <2>4. QED BY <1>7, <2>2, <2>3 DEF DispatchRequest, threadVars, guiVars
<1>8. CASE EventsDrained
      BY <1>8 DEF EventsDrained, threadVars, Phase
<1>9. CASE IdleDispatch
      BY <1>9, CallbackStack DEF IdleDispatch, Ran, threadVars, Origin, Phase
<1>10. CASE PaintFrame \/ Sleep
      BY <1>10 DEF PaintFrame, Sleep, threadVars, Phase
<1>15. CASE PaintLast \/ AnimationEnds
      BY <1>15, CallbackStack DEF PaintLast, AnimationEnds, threadVars, Origin, Phase
<1>11. CASE MainLoopDestroy
  <2>1. queue' = << >> /\ queue' \in Seq(Event) /\ Len(queue') = 0 /\ Len(queue') <= Capacity
        BY <1>11, PipelineAssumption, EmptySeq DEF MainLoopDestroy
  <2>2. IdsAreRequests'
        BY <2>1
  <2>3. /\ UNCHANGED <<tpc, infoPressed, req, refused, status, wmPressed, ignoreInput,
                      stack, held>>
        /\ gpc' = "gone" /\ running' = FALSE
        BY <1>11 DEF MainLoopDestroy, threadVars
  <2>4. TypeOK'
        BY <2>1, <2>3 DEF Phase
  <2>5. QED BY <2>2, <2>3, <2>4
<1>12. CASE ModalReturns
  <2> DEFINE f == stack[Len(stack)]
  <2>1. UNCHANGED <<tpc, infoPressed, req, queue, refused, status>>
        BY <1>12 DEF ModalReturns, threadVars
  <2>2. /\ stack' \in Seq(Frame) /\ Len(stack) \in Nat \ {0} /\ Len(stack') = Len(stack) - 1
        /\ f \in Frame
        BY <1>12, Unstacked DEF ModalReturns
  <2>3. held' \in 0 .. MaxNest + 1 /\ Len(stack') <= MaxNest
        BY <1>12, <2>2, PipelineAssumption DEF ModalReturns
  <2>4. /\ gpc' \in Phase /\ running' \in BOOLEAN /\ wmPressed' \in BOOLEAN
        /\ ignoreInput' \in BOOLEAN
        BY <1>12, <2>2 DEF ModalReturns, StillPressed, After, Frame, Origin, Phase
  <2>5. QED BY <2>1, <2>2, <2>3, <2>4
<1>13. CASE UNCHANGED vars
      BY <1>13 DEF vars, threadVars, guiVars
<1>14. QED BY <1>1, <1>2, <1>3, <1>4, <1>5, <1>6, <1>7, <1>8, <1>9, <1>10, <1>11, <1>12, <1>13,
              <1>15 DEF Next, InputThread, OtherThread, GuiThread

(* The state of the pipeline keeps its type; in particular the queue never *)
(* holds more than its capacity.                                           *)
THEOREM PipelineTypeCorrect == Spec => []TypeOK
<1>1. PipelineType => TypeOK
      BY DEF PipelineType
<1>2. QED BY <1>1, PipelineInitType, PipelineNextType, PTL DEF Spec

-----------------------------------------------------------------------------
Holds(type) == \E i \in 1 .. Len(queue) : queue[i].type = type

ReleasePosted == tpc = "post" /\ req = "UP"

(* A press that waits in the queue is followed by its release, or the      *)
(* button is still down.  Without this nothing could be said of the moment *)
(* when the window manager gets to see the press.                          *)
PressIsFollowed ==
    \A i \in 1 .. Len(queue) :
        queue[i].type = "DOWN" =>
            \/ infoPressed
            \/ ReleasePosted
            \/ \E j \in 1 .. Len(queue) : i < j /\ queue[j].type = "UP"

(* A press is posted while the button is down.                             *)
PostsPressed == tpc = "post" /\ req = "DOWN" => infoPressed

(* The window manager's own belief, spelled out.                           *)
PressedIsFollowed == wmPressed => infoPressed \/ ReleasePosted \/ Holds("UP") \/ ReleaseWaits

PressInv == "UP" \notin refused /\ gpc /= "gone" =>
                PressIsFollowed /\ PostsPressed /\ PressedIsFollowed

LEMMA PressInit == Init => PressInv
<1> SUFFICES ASSUME Init PROVE PressIsFollowed /\ PostsPressed /\ PressedIsFollowed
    BY DEF PressInv
<1>1. Len(queue) = 0
      BY EmptySeq DEF Init
<1>2. QED BY <1>1 DEF Init, PressIsFollowed, PostsPressed, PressedIsFollowed

(* A release that waits on the stack stays there while callbacks come.     *)
LEMMA CallbackWaits ==
    ASSUME PipelineType, NEW from \in Origin, NEW next \in Phase, NEW ignoring \in BOOLEAN,
           Callback(from, next, ignoring)
    PROVE  /\ ReleaseWaits => ReleaseWaits'
           /\ gpc' /= next /\ from = "up" => ReleaseWaits'
           /\ gpc' = "gone" => next = "gone"
<1>1. /\ Len(stack) \in Nat /\ Len(stack') \in {Len(stack), Len(stack) + 1}
      /\ \A i \in 1 .. Len(stack) : stack'[i] = stack[i]
      /\ gpc' \in {"timer", next}
      /\ \/ gpc' = next /\ stack' = stack
         \/ Len(stack') = Len(stack) + 1 /\ stack'[Len(stack) + 1].from = from
      BY CallbackStack DEF PipelineType, TypeOK
<1>2. QED BY <1>1 DEF ReleaseWaits

(* A step that leaves the queue and the thread alone, sets no pressed and  *)
(* drops no release from the stack while pressed is set.                   *)
LEMMA PressSame ==
    ASSUME PressInv, UNCHANGED <<threadVars, queue, refused>>, wmPressed' => wmPressed,
           wmPressed' /\ ReleaseWaits => ReleaseWaits', gpc = "gone" => gpc' = "gone"
    PROVE  PressInv'
BY DEF PressInv, PressIsFollowed, PostsPressed, PressedIsFollowed, ReleasePosted, Holds,
       threadVars

LEMMA PressNext == PipelineType /\ PressInv /\ [Next]_vars => PressInv'
<1> SUFFICES ASSUME PipelineType, PressInv, [Next]_vars,
                    "UP" \notin refused', gpc' /= "gone"
             PROVE  (PressIsFollowed /\ PostsPressed /\ PressedIsFollowed)'
    BY DEF PressInv
<1>0. queue \in Seq(Event) /\ infoPressed \in BOOLEAN /\ wmPressed \in BOOLEAN
      BY DEF PipelineType, TypeOK
<1> DEFINE Goal == (PressIsFollowed /\ PostsPressed /\ PressedIsFollowed)'
<1>1. ASSUME ReadFails PROVE Goal
      BY <1>1 DEF ReadFails, guiVars, PressInv, PressIsFollowed, PostsPressed,
                  PressedIsFollowed, ReleasePosted, Holds, ReleaseWaits
<1>2. ASSUME NEW left \in BOOLEAN, ReadMouse(left) PROVE Goal
  <2>1. /\ tpc = "read" /\ tpc' = "post" /\ infoPressed' = left /\ req' = TypeOf(left)
        /\ UNCHANGED <<queue, refused, wmPressed, gpc, stack>>
        BY <1>2 DEF ReadMouse, guiVars
  <2>2. PressIsFollowed /\ PressedIsFollowed /\ ~ReleasePosted
        BY <2>1 DEF PressInv, ReleasePosted
  <2>3. infoPressed => infoPressed' \/ ReleasePosted'
        BY <2>1 DEF TypeOf, ReleasePosted
  <2>4. PostsPressed'
        BY <2>1 DEF TypeOf, PostsPressed
  <2>5. PressIsFollowed'
        BY <2>1, <2>2, <2>3 DEF PressIsFollowed
  <2>6. PressedIsFollowed'
        BY <2>1, <2>2, <2>3 DEF PressedIsFollowed, Holds, ReleaseWaits
  <2>7. QED BY <2>4, <2>5, <2>6
<1>3. CASE InputDispatch
  <2>1. /\ tpc = "post" /\ tpc' = "read" /\ UNCHANGED <<infoPressed, wmPressed, gpc, stack>>
        /\ ~ReleasePosted'
        BY <1>3 DEF InputDispatch, guiVars, ReleasePosted
  <2>2. PressIsFollowed /\ PostsPressed /\ PressedIsFollowed
        BY <1>3, <2>1 DEF PressInv, InputDispatch
  <2>3. CASE Accepts
    <3>1. req \in Pointer /\ PointerEvent(req) \in Event /\ PointerEvent(req).type = req
          BY <2>1 DEF PipelineType, PostsPointer, PointerEvent, Event
    <3>2. queue' = Append(queue, PointerEvent(req))
          BY <1>3, <2>3 DEF InputDispatch
    <3>3. /\ Len(queue) \in Nat /\ Len(queue') = Len(queue) + 1
          /\ \A i \in 1 .. Len(queue) : queue'[i] = queue[i]
          /\ queue'[Len(queue) + 1] = PointerEvent(req)
          /\ \A i \in 1 .. Len(queue') : i \in 1 .. Len(queue) \/ i = Len(queue) + 1
          BY <1>0, <3>1, <3>2, Appended
    <3>4. ReleasePosted => queue'[Len(queue) + 1].type = "UP"
          BY <3>1, <3>3 DEF ReleasePosted
    <3>5. PressedIsFollowed'
          BY <2>1, <2>2, <3>3, <3>4 DEF PressedIsFollowed, Holds, ReleaseWaits
    <3>6. PressIsFollowed'
      <4> SUFFICES ASSUME NEW i \in 1 .. Len(queue'), queue'[i].type = "DOWN", ~infoPressed
                   PROVE  \E j \in 1 .. Len(queue') : i < j /\ queue'[j].type = "UP"
          BY <2>1 DEF PressIsFollowed
      <4>1. CASE i = Len(queue) + 1
            BY <2>1, <2>2, <3>1, <3>3, <4>1 DEF PostsPressed
      <4>2. CASE i \in 1 .. Len(queue)
        <5>1. ReleasePosted \/ \E j \in 1 .. Len(queue) : i < j /\ queue[j].type = "UP"
              BY <2>2, <3>3, <4>2 DEF PressIsFollowed
        <5>2. CASE ReleasePosted
              BY <3>3, <3>4, <4>2, <5>2
        <5>3. CASE \E j \in 1 .. Len(queue) : i < j /\ queue[j].type = "UP"
              BY <3>3, <5>3
        <5>4. QED BY <5>1, <5>2, <5>3
      <4>3. QED BY <3>3, <4>1, <4>2
    <3>7. QED BY <2>1, <3>5, <3>6 DEF PostsPressed
  <2>4. CASE ~Accepts
    <3>1. queue' = queue /\ refused' = refused \cup {req}
          BY <1>3, <2>4 DEF InputDispatch
    <3>2. ~ReleasePosted
          BY <3>1 DEF ReleasePosted
    <3>3. QED BY <2>1, <2>2, <3>1, <3>2 DEF PressIsFollowed, PostsPressed, PressedIsFollowed,
                                           Holds, ReleaseWaits
  <2>5. QED BY <2>3, <2>4
<1>4. ASSUME NEW q \in Request, NEW type \in {"ADD_IDLE", "ADD_TIMER"}, QueueRequest(q, type)
      PROVE  Goal
  <2>1. UNCHANGED <<tpc, infoPressed, req, wmPressed, refused, gpc, stack>>
        BY <1>4 DEF QueueRequest, threadVars, guiVars
  <2>2. PressIsFollowed /\ PostsPressed /\ PressedIsFollowed
        BY <2>1 DEF PressInv
  <2>3. CASE Accepts
    <3> DEFINE e == [type |-> type, id |-> q]
    <3>1. e \in Event /\ e.type \notin Pointer
          BY DEF Event, Pointer
    <3>2. queue' = Append(queue, e)
          BY <1>4, <2>3 DEF QueueRequest
    <3> HIDE DEF e
    <3>3. /\ Len(queue) \in Nat /\ Len(queue') = Len(queue) + 1
          /\ \A i \in 1 .. Len(queue) : queue'[i] = queue[i]
          /\ queue'[Len(queue) + 1] = e
          /\ \A i \in 1 .. Len(queue') : i \in 1 .. Len(queue) \/ i = Len(queue) + 1
          BY <1>0, <3>1, <3>2, Appended
    <3>4. PressedIsFollowed' /\ PostsPressed'
          BY <2>1, <2>2, <3>3 DEF PressedIsFollowed, PostsPressed, Holds, ReleasePosted,
                                      ReleaseWaits
    <3>5. PressIsFollowed'
      <4> SUFFICES ASSUME NEW i \in 1 .. Len(queue'), queue'[i].type = "DOWN",
                          ~infoPressed, ~ReleasePosted
                   PROVE  \E j \in 1 .. Len(queue') : i < j /\ queue'[j].type = "UP"
          BY <2>1 DEF PressIsFollowed, ReleasePosted
      <4>1. i \in 1 .. Len(queue)
            BY <3>1, <3>3 DEF Pointer
      <4>2. QED BY <2>2, <3>3, <4>1 DEF PressIsFollowed
    <3>6. QED BY <3>4, <3>5
  <2>4. CASE ~Accepts
        BY <1>4, <2>1, <2>2, <2>4 DEF QueueRequest, PressIsFollowed, PostsPressed,
                                     PressedIsFollowed, Holds, ReleasePosted, ReleaseWaits
  <2>5. QED BY <2>3, <2>4
<1>5. CASE TimerDispatch
      BY <1>5, PressSame, CallbackWaits DEF TimerDispatch, PressInv, PipelineType, TypeOK, Origin, Phase
<1>6. ASSUME gpc = "events", queue /= << >>, queue' = Tail(queue),
             UNCHANGED <<threadVars, refused>>,
             ReleaseWaits => ReleaseWaits',
             wmPressed' => \/ wmPressed /\ Head(queue).type /= "UP"
                           \/ Head(queue).type = "DOWN"
                           \/ ReleaseWaits'
      PROVE  Goal
  <2>1. UNCHANGED <<tpc, infoPressed, req, refused>>
        BY <1>6 DEF threadVars
  <2>2. PressIsFollowed /\ PostsPressed /\ PressedIsFollowed
        BY <1>6, <2>1 DEF PressInv
  <2>3. /\ Len(queue) \in Nat \ {0} /\ Len(queue') = Len(queue) - 1
        /\ Head(queue) = queue[1]
        /\ \A i \in 1 .. Len(queue') : queue'[i] = queue[i + 1] /\ i + 1 \in 1 .. Len(queue)
        /\ \A i \in 2 .. Len(queue) : queue'[i - 1] = queue[i] /\ i - 1 \in 1 .. Len(queue')
        BY <1>0, <1>6, Shifted
  <2>4. PressIsFollowed'
    <3> SUFFICES ASSUME NEW i \in 1 .. Len(queue'), queue'[i].type = "DOWN",
                        ~infoPressed, ~ReleasePosted
                 PROVE  \E j \in 1 .. Len(queue') : i < j /\ queue'[j].type = "UP"
        BY <2>1 DEF PressIsFollowed, ReleasePosted
    <3>1. PICK j \in 1 .. Len(queue) : i + 1 < j /\ queue[j].type = "UP"
          BY <2>2, <2>3 DEF PressIsFollowed
    <3>2. j \in 2 .. Len(queue) /\ i < j - 1
          BY <2>3, <3>1
    <3>3. QED BY <2>3, <3>1, <3>2
  <2>5. PressedIsFollowed'
    <3> SUFFICES ASSUME wmPressed', ~infoPressed, ~ReleasePosted, ~ReleaseWaits'
                 PROVE  \E j \in 1 .. Len(queue') : queue'[j].type = "UP"
        BY <2>1 DEF PressedIsFollowed, ReleasePosted, Holds
    <3>1. CASE Head(queue).type = "DOWN"
      <4>1. PICK j \in 1 .. Len(queue) : 1 < j /\ queue[j].type = "UP"
            BY <2>2, <2>3, <3>1 DEF PressIsFollowed
      <4>2. j \in 2 .. Len(queue)
            BY <2>3, <4>1
      <4>3. QED BY <2>3, <4>1, <4>2
    <3>2. CASE wmPressed /\ Head(queue).type /= "UP"
      <4>1. PICK j \in 1 .. Len(queue) : queue[j].type = "UP"
            BY <1>6, <2>2, <3>2 DEF PressedIsFollowed, Holds
      <4>2. j \in 2 .. Len(queue)
            BY <2>3, <3>2, <4>1
      <4>3. QED BY <2>3, <4>1, <4>2
    <3>3. QED BY <1>6, <3>1, <3>2
  <2>6. QED BY <2>1, <2>2, <2>4, <2>5 DEF PostsPressed
<1>7. CASE DispatchPointer
  <2> DEFINE type == Head(queue).type
             from == IF type = "UP" THEN "up" ELSE "events"
  <2>1. CASE Ignored(type)
    <3>1. UNCHANGED <<gpc, wmPressed, stack>> /\ gpc = "events" /\ queue /= << >>
          BY <1>7, <2>1 DEF DispatchPointer, guiVars
    <3>2. /\ ReleaseWaits => ReleaseWaits'
          /\ wmPressed' => (wmPressed /\ type /= "UP") \/ ReleaseWaits'
          BY <2>1, <3>1 DEF Ignored, ReleaseWaits
    <3>3. CASE wmPressed /\ type = "UP"
          BY <2>1, <3>3 DEF Ignored
    <3>4. QED BY <1>6, <1>7, <3>1, <3>2, <3>3 DEF DispatchPointer
  <2>2. CASE ~Ignored(type)
    <3>1. Callback(from, "events", ignoreInput) /\ from \in Origin
          BY <1>7, <2>2 DEF DispatchPointer, Origin
    <3>2. /\ ReleaseWaits => ReleaseWaits'
          /\ gpc' /= "events" /\ from = "up" => ReleaseWaits'
          BY <3>1, CallbackWaits DEF PipelineType, TypeOK, Phase
    <3>3. wmPressed' => (wmPressed /\ type /= "UP") \/ type = "DOWN" \/ ReleaseWaits'
          BY <1>0, <1>7, <2>2, <3>2 DEF DispatchPointer
    <3>4. QED BY <1>6, <1>7, <3>2, <3>3 DEF DispatchPointer
  <2>3. QED BY <2>1, <2>2
<1>8. CASE DispatchRequest
  <2>1. Head(queue).type /= "UP" /\ wmPressed' = wmPressed /\ stack' = stack
        BY <1>8 DEF DispatchRequest, Pointer, guiVars
  <2>2. QED BY <1>6, <1>8, <2>1 DEF DispatchRequest, ReleaseWaits
<1>9. CASE EventsDrained
      BY <1>9, PressSame DEF EventsDrained, PressInv, ReleaseWaits
<1>10. CASE IdleDispatch
      BY <1>10, PressSame, CallbackWaits DEF IdleDispatch, PressInv, PipelineType, TypeOK, Origin, Phase
<1>11. CASE PaintFrame \/ Sleep
      BY <1>11, PressSame DEF PaintFrame, Sleep, PressInv, ReleaseWaits
<1>16. CASE PaintLast
      BY <1>16, PressSame, CallbackWaits DEF PaintLast, PressInv, PipelineType, TypeOK, Origin, Phase
<1>17. CASE AnimationEnds
      BY <1>17, PressSame, CallbackWaits DEF AnimationEnds, PressInv, Origin, Phase
<1>12. CASE MainLoopDestroy
      BY <1>12 DEF MainLoopDestroy
<1>13. CASE ModalReturns
  <2>1. /\ Len(stack) \in Nat \ {0} /\ Len(stack') = Len(stack) - 1
        /\ \A i \in 1 .. Len(stack') : stack'[i] = stack[i]
        BY <1>13, Unstacked DEF ModalReturns, PipelineType, TypeOK
  <2>2. wmPressed' = (wmPressed /\ stack[Len(stack)].from /= "up")
        BY <1>13 DEF ModalReturns, StillPressed
  <2>3. ASSUME wmPressed', ReleaseWaits PROVE ReleaseWaits'
    <3>1. PICK i \in 1 .. Len(stack) : stack[i].from = "up"
          BY <2>3 DEF ReleaseWaits
    <3>2. i /= Len(stack)
          BY <2>2, <2>3, <3>1
    <3>3. i \in 1 .. Len(stack')
          BY <2>1, <3>2
    <3>4. QED BY <2>1, <3>1, <3>3 DEF ReleaseWaits
  <2>4. QED BY <1>13, <2>2, <2>3, PressSame DEF ModalReturns, PressInv
<1>14. CASE UNCHANGED vars
      BY <1>14, PressSame DEF vars, guiVars, PressInv, ReleaseWaits
<1>15. QED BY <1>1, <1>2, <1>3, <1>4, <1>5, <1>7, <1>8, <1>9, <1>10, <1>11, <1>12, <1>13, <1>14,
              <1>16, <1>17 DEF Next, InputThread, OtherThread, GuiThread

(* window_manager_dispatch_input_event: while the window manager believes  *)
(* the button to be down, it is down, its release is on the way, or the    *)
(* handler of a release waits for a dialog, unless a full queue refused a  *)
(* release.  Animations may ignore any input and dialogs may nest.         *)
THEOREM NeverStuckCorrect == Spec => []NeverStuckPressed
<1>1. PressInv => NeverStuckPressed
      BY DEF PressInv, PressedIsFollowed, NeverStuckPressed, ReleasePosted, Holds, InFlight
<1>2. QED BY <1>1, PipelineInitType, PipelineNextType, PressInit, PressNext, PTL DEF Spec

-----------------------------------------------------------------------------
(* Between two presses that wait in the queue there is a release.          *)
PressesSeparated ==
    \A i, j \in 1 .. Len(queue) :
        i < j /\ queue[i].type = "DOWN" /\ queue[j].type = "DOWN" =>
            \E k \in 1 .. Len(queue) : i < k /\ k < j /\ queue[k].type = "UP"

(* While the window manager is pressed, a release comes before the next    *)
(* press, unless a handler of a release waits.                             *)
ReleaseComesFirst ==
    wmPressed /\ ~ReleaseWaits =>
        \A j \in 1 .. Len(queue) :
            queue[j].type = "DOWN" => \E k \in 1 .. Len(queue) : k < j /\ queue[k].type = "UP"

(* A press is posted behind the release of all presses that were posted    *)
(* before, seen by the window manager or not.                              *)
PostsBehindRelease ==
    tpc = "post" /\ req = "DOWN" =>
        /\ \A i \in 1 .. Len(queue) :
              queue[i].type = "DOWN" => \E j \in 1 .. Len(queue) : i < j /\ queue[j].type = "UP"
        /\ wmPressed /\ ~ReleaseWaits => Holds("UP")

Alternates == PressesSeparated /\ ReleaseComesFirst /\ PostsBehindRelease

AlternateInv == "UP" \notin refused /\ gpc /= "gone" => Alternates

LEMMA AlternateInit == Init => AlternateInv
<1> SUFFICES ASSUME Init PROVE Alternates
    BY DEF AlternateInv
<1>1. Len(queue) = 0
      BY EmptySeq DEF Init
<1>2. QED BY <1>1 DEF Init, Alternates, PressesSeparated, ReleaseComesFirst, PostsBehindRelease

(* A step that leaves the queue and the thread alone and does not make the *)
(* window manager wait for a release.                                      *)
LEMMA AlternateSame ==
    ASSUME AlternateInv, UNCHANGED <<threadVars, queue, refused>>,
           wmPressed' /\ ~ReleaseWaits' => wmPressed /\ ~ReleaseWaits,
           gpc = "gone" => gpc' = "gone"
    PROVE  AlternateInv'
BY DEF AlternateInv, Alternates, PressesSeparated, ReleaseComesFirst, PostsBehindRelease, Holds,
       threadVars

(* An element is appended that is no press, or one that is posted.         *)
LEMMA AlternateAppend ==
    ASSUME PipelineType, Alternates, NEW e \in Event, queue' = Append(queue, e),
           UNCHANGED <<wmPressed, stack>>,
           e.type = "DOWN" => tpc = "post" /\ req = "DOWN",
           tpc' = "post" /\ req' = "DOWN" => tpc = "post" /\ req = "DOWN" /\ e.type /= "DOWN"
    PROVE  Alternates'
<1>1. /\ Len(queue) \in Nat /\ Len(queue') = Len(queue) + 1
      /\ \A i \in 1 .. Len(queue) : queue'[i] = queue[i]
      /\ queue'[Len(queue) + 1] = e
      /\ \A i \in 1 .. Len(queue') : i \in 1 .. Len(queue) \/ i = Len(queue) + 1
      BY Appended DEF PipelineType, TypeOK
<1>2. ReleaseWaits' = ReleaseWaits
      BY DEF ReleaseWaits
<1>3. PressesSeparated'
  <2> SUFFICES ASSUME NEW i \in 1 .. Len(queue'), NEW j \in 1 .. Len(queue'), i < j,
                      queue'[i].type = "DOWN", queue'[j].type = "DOWN"
               PROVE  \E k \in 1 .. Len(queue') : i < k /\ k < j /\ queue'[k].type = "UP"
      BY DEF PressesSeparated
  <2>1. i \in 1 .. Len(queue)
        BY <1>1
  <2>2. CASE j \in 1 .. Len(queue)
        BY <1>1, <2>1, <2>2 DEF Alternates, PressesSeparated
  <2>3. CASE j = Len(queue) + 1
        BY <1>1, <2>1, <2>3 DEF Alternates, PostsBehindRelease
  <2>4. QED BY <1>1, <2>2, <2>3
<1>4. ReleaseComesFirst'
  <2> SUFFICES ASSUME wmPressed, ~ReleaseWaits, NEW j \in 1 .. Len(queue'),
                      queue'[j].type = "DOWN"
               PROVE  \E k \in 1 .. Len(queue') : k < j /\ queue'[k].type = "UP"
      BY <1>2 DEF ReleaseComesFirst
  <2>1. CASE j \in 1 .. Len(queue)
        BY <1>1, <2>1 DEF Alternates, ReleaseComesFirst
  <2>2. CASE j = Len(queue) + 1
        BY <1>1, <2>2 DEF Alternates, PostsBehindRelease, Holds
  <2>3. QED BY <1>1, <2>1, <2>2
<1>5. PostsBehindRelease'
      BY <1>1, <1>2 DEF Alternates, PostsBehindRelease, Holds
<1>6. QED BY <1>3, <1>4, <1>5 DEF Alternates

(* Taking the oldest element off leaves the others in their order.         *)
LEMMA SeparatedShifted ==
    ASSUME PressesSeparated, Len(queue) \in Nat \ {0}, Len(queue') = Len(queue) - 1,
           \A i \in 1 .. Len(queue') : queue'[i] = queue[i + 1] /\ i + 1 \in 1 .. Len(queue),
           \A i \in 2 .. Len(queue) : queue'[i - 1] = queue[i] /\ i - 1 \in 1 .. Len(queue')
    PROVE  PressesSeparated'
<1> SUFFICES ASSUME NEW i \in 1 .. Len(queue'), NEW j \in 1 .. Len(queue'), i < j,
                    queue'[i].type = "DOWN", queue'[j].type = "DOWN"
             PROVE  \E k \in 1 .. Len(queue') : i < k /\ k < j /\ queue'[k].type = "UP"
    BY DEF PressesSeparated
<1>0. /\ i + 1 \in 1 .. Len(queue) /\ j + 1 \in 1 .. Len(queue) /\ i + 1 < j + 1
      /\ queue[i + 1].type = "DOWN" /\ queue[j + 1].type = "DOWN"
      OBVIOUS
<1>1. PICK k \in 1 .. Len(queue) : i + 1 < k /\ k < j + 1 /\ queue[k].type = "UP"
      BY <1>0, Zenon DEF PressesSeparated
<1>2. k \in 2 .. Len(queue) /\ i < k - 1 /\ k - 1 < j
      BY <1>1
<1>3. QED BY <1>1, <1>2

(* The oldest element is taken off the queue.  A press makes the window    *)
(* manager pressed, and after a release it is not, or the handler waits.   *)
LEMMA AlternateTail ==
    ASSUME PipelineType, Alternates, queue /= << >>, queue' = Tail(queue),
           UNCHANGED <<tpc, req>>,
           PressIsFollowed, PostsPressed,
           wmPressed' /\ ~ReleaseWaits' =>
               \/ wmPressed /\ ~ReleaseWaits /\ Head(queue).type /= "UP"
               \/ Head(queue).type = "DOWN"
    PROVE  Alternates'
<1>1. /\ Len(queue) \in Nat \ {0} /\ Len(queue') = Len(queue) - 1
      /\ Head(queue) = queue[1]
      /\ \A i \in 1 .. Len(queue') : queue'[i] = queue[i + 1] /\ i + 1 \in 1 .. Len(queue)
      /\ \A i \in 2 .. Len(queue) : queue'[i - 1] = queue[i] /\ i - 1 \in 1 .. Len(queue')
      BY Shifted DEF PipelineType, TypeOK
<1>2. PressesSeparated'
      BY <1>1, SeparatedShifted DEF Alternates
<1>3. ReleaseComesFirst'
  <2> SUFFICES ASSUME wmPressed', ~ReleaseWaits', NEW j \in 1 .. Len(queue'),
                      queue'[j].type = "DOWN"
               PROVE  \E k \in 1 .. Len(queue') : k < j /\ queue'[k].type = "UP"
      BY DEF ReleaseComesFirst
  <2>1. PICK k \in 2 .. Len(queue) : k < j + 1 /\ queue[k].type = "UP"
    <3>1. CASE Head(queue).type = "DOWN"
      <4>1. \E k \in 1 .. Len(queue) : 1 < k /\ k < j + 1 /\ queue[k].type = "UP"
            BY <1>1, <3>1 DEF Alternates, PressesSeparated
      <4>2. QED BY <1>1, <4>1
    <3>2. CASE wmPressed /\ ~ReleaseWaits /\ Head(queue).type /= "UP"
      <4>1. \E k \in 1 .. Len(queue) : k < j + 1 /\ queue[k].type = "UP"
            BY <1>1, <3>2 DEF Alternates, ReleaseComesFirst
      <4>2. QED BY <1>1, <3>2, <4>1
    <3>3. QED BY <3>1, <3>2
  <2>2. k - 1 < j
        BY <1>1, <2>1
  <2>3. QED BY <1>1, <2>1, <2>2
<1>4. PostsBehindRelease'
  <2> SUFFICES ASSUME tpc = "post", req = "DOWN"
               PROVE  /\ \A i \in 1 .. Len(queue') :
                            queue'[i].type = "DOWN" =>
                                \E j \in 1 .. Len(queue') : i < j /\ queue'[j].type = "UP"
                      /\ wmPressed' /\ ~ReleaseWaits' =>
                            \E j \in 1 .. Len(queue') : queue'[j].type = "UP"
      BY DEF PostsBehindRelease, Holds
  <2>1. ASSUME NEW i \in 1 .. Len(queue'), queue'[i].type = "DOWN"
        PROVE  \E j \in 1 .. Len(queue') : i < j /\ queue'[j].type = "UP"
    <3>1. PICK j \in 1 .. Len(queue) : i + 1 < j /\ queue[j].type = "UP"
          BY <1>1, <2>1 DEF Alternates, PostsBehindRelease
    <3>2. j \in 2 .. Len(queue) /\ i < j - 1
          BY <1>1, <3>1
    <3>3. QED BY <1>1, <3>1, <3>2
  <2>2. ASSUME wmPressed', ~ReleaseWaits'
        PROVE  \E j \in 1 .. Len(queue') : queue'[j].type = "UP"
    <3>1. PICK j \in 2 .. Len(queue) : queue[j].type = "UP"
      <4>1. CASE Head(queue).type = "DOWN"
        <5>1. \E j \in 1 .. Len(queue) : 1 < j /\ queue[j].type = "UP"
              BY <1>1, <4>1 DEF Alternates, PostsBehindRelease
        <5>2. QED BY <1>1, <5>1
      <4>2. CASE wmPressed /\ ~ReleaseWaits /\ Head(queue).type /= "UP"
        <5>1. \E j \in 1 .. Len(queue) : queue[j].type = "UP"
              BY <4>2 DEF Alternates, PostsBehindRelease, Holds
        <5>2. QED BY <1>1, <4>2, <5>1
      <4>3. QED BY <2>2, <4>1, <4>2
    <3>2. QED BY <1>1, <3>1
  <2>3. QED BY <2>1, <2>2
<1>5. QED BY <1>2, <1>3, <1>4 DEF Alternates

LEMMA AlternateNext == PipelineType /\ PressInv /\ AlternateInv /\ [Next]_vars => AlternateInv'
<1> SUFFICES ASSUME PipelineType, PressInv, AlternateInv, [Next]_vars,
                    "UP" \notin refused', gpc' /= "gone"
             PROVE  Alternates'
    BY DEF AlternateInv
<1>0. queue \in Seq(Event) /\ infoPressed \in BOOLEAN /\ wmPressed \in BOOLEAN
      BY DEF PipelineType, TypeOK
<1>1. CASE ReadFails
      BY <1>1 DEF ReadFails, guiVars, AlternateInv, Alternates, PressesSeparated,
                  ReleaseComesFirst, PostsBehindRelease, Holds, ReleaseWaits
<1>2. ASSUME NEW left \in BOOLEAN, ReadMouse(left) PROVE Alternates'
  <2>1. /\ tpc = "read" /\ tpc' = "post" /\ req' = TypeOf(left)
        /\ UNCHANGED <<queue, refused, wmPressed, gpc, stack>>
        BY <1>2 DEF ReadMouse, guiVars
  <2>2. PressIsFollowed /\ PressedIsFollowed /\ Alternates /\ ~ReleasePosted
        BY <2>1 DEF PressInv, AlternateInv, ReleasePosted
  <2>3. req' = "DOWN" => ~infoPressed
        BY <1>0, <2>1 DEF TypeOf
  <2>4. PostsBehindRelease'
        BY <2>1, <2>2, <2>3 DEF PostsBehindRelease, PressIsFollowed, PressedIsFollowed, Holds,
                                ReleaseWaits
  <2>5. PressesSeparated' /\ ReleaseComesFirst'
        BY <2>1, <2>2 DEF Alternates, PressesSeparated, ReleaseComesFirst, ReleaseWaits
  <2>6. QED BY <2>4, <2>5 DEF Alternates
<1>3. CASE InputDispatch
  <2>1. /\ tpc = "post" /\ tpc' = "read" /\ UNCHANGED <<wmPressed, gpc, stack>>
        /\ refused \subseteq refused'
        BY <1>3 DEF InputDispatch, guiVars
  <2>2. Alternates
        BY <2>1 DEF AlternateInv
  <2>3. CASE Accepts
    <3>1. PointerEvent(req) \in Event /\ PointerEvent(req).type = req
          BY <2>1 DEF PipelineType, PostsPointer, PointerEvent, Event
    <3>2. QED BY <1>3, <2>1, <2>2, <2>3, <3>1, AlternateAppend DEF InputDispatch
  <2>4. CASE ~Accepts
    <3>1. queue' = queue
          BY <1>3, <2>4 DEF InputDispatch
    <3>2. QED BY <2>1, <2>2, <3>1 DEF Alternates, PressesSeparated, ReleaseComesFirst,
                                      PostsBehindRelease, Holds, ReleaseWaits
  <2>5. QED BY <2>3, <2>4
<1>4. ASSUME NEW q \in Request, NEW type \in {"ADD_IDLE", "ADD_TIMER"}, QueueRequest(q, type)
      PROVE  Alternates'
  <2>1. UNCHANGED <<tpc, req, wmPressed, refused, gpc, stack>>
        BY <1>4 DEF QueueRequest, threadVars, guiVars
  <2>2. Alternates
        BY <2>1 DEF AlternateInv
  <2>3. CASE Accepts
    <3> DEFINE e == [type |-> type, id |-> q]
    <3>1. e \in Event /\ e.type /= "DOWN"
          BY DEF Event
    <3>2. queue' = Append(queue, e)
          BY <1>4, <2>3 DEF QueueRequest
    <3> HIDE DEF e
    <3>3. QED BY <2>1, <2>2, <3>1, <3>2, AlternateAppend
  <2>4. CASE ~Accepts
    <3>1. queue' = queue
          BY <1>4, <2>4 DEF QueueRequest
    <3>2. QED BY <2>1, <2>2, <3>1 DEF Alternates, PressesSeparated, ReleaseComesFirst,
                                      PostsBehindRelease, Holds, ReleaseWaits
  <2>5. QED BY <2>3, <2>4
<1>5. ASSUME NEW from \in Origin, NEW next \in Phase, NEW ignoring \in BOOLEAN,
             Callback(from, next, ignoring), next /= "gone", wmPressed' = wmPressed,
             gpc /= "gone", UNCHANGED <<threadVars, queue, refused>>
      PROVE  Alternates'
      BY <1>5, CallbackWaits, AlternateSame DEF AlternateInv
<1>6. CASE TimerDispatch \/ IdleDispatch \/ PaintLast \/ AnimationEnds
      BY <1>5, <1>6 DEF TimerDispatch, IdleDispatch, PaintLast, AnimationEnds, PipelineType,
                        TypeOK, Origin, Phase
<1>7. CASE DispatchPointer
  <2> DEFINE type == Head(queue).type
             from == IF type = "UP" THEN "up" ELSE "events"
  <2>1. /\ gpc = "events" /\ queue /= << >> /\ queue' = Tail(queue)
        /\ UNCHANGED <<tpc, req, refused>>
        BY <1>7 DEF DispatchPointer, threadVars
  <2>2. Alternates /\ PressIsFollowed /\ PostsPressed
        BY <2>1 DEF AlternateInv, PressInv
  <2>3. wmPressed' /\ ~ReleaseWaits' => \/ wmPressed /\ ~ReleaseWaits /\ type /= "UP"
                                        \/ type = "DOWN"
    <3>1. CASE Ignored(type)
          BY <1>7, <3>1 DEF DispatchPointer, Ignored, guiVars, ReleaseWaits
    <3>2. CASE ~Ignored(type)
      <4>1. Callback(from, "events", ignoreInput) /\ from \in Origin
            BY <1>7, <3>2 DEF DispatchPointer, Origin
      <4>2. /\ ReleaseWaits => ReleaseWaits'
            /\ gpc' /= "events" /\ from = "up" => ReleaseWaits'
            BY <4>1, CallbackWaits DEF PipelineType, TypeOK, Phase
      <4>3. wmPressed' => (wmPressed /\ type /= "UP") \/ type = "DOWN" \/ ReleaseWaits'
            BY <1>0, <1>7, <3>2, <4>2 DEF DispatchPointer
      <4>4. QED BY <4>2, <4>3
    <3>3. QED BY <3>1, <3>2
  <2> HIDE DEF type
  <2>4. QED BY <2>1, <2>2, <2>3, AlternateTail DEF type
<1>8. CASE DispatchRequest
  <2>1. /\ gpc = "events" /\ queue /= << >> /\ queue' = Tail(queue)
        /\ UNCHANGED <<tpc, req, refused, wmPressed, stack>>
        /\ Head(queue).type /= "UP"
        BY <1>8 DEF DispatchRequest, threadVars, guiVars, Pointer
  <2>2. Alternates /\ PressIsFollowed /\ PostsPressed
        BY <2>1 DEF AlternateInv, PressInv
  <2>3. ReleaseWaits' = ReleaseWaits
        BY <2>1 DEF ReleaseWaits
  <2>4. QED BY <2>1, <2>2, <2>3, AlternateTail
<1>9. CASE EventsDrained \/ PaintFrame \/ Sleep
      BY <1>9, AlternateSame DEF EventsDrained, PaintFrame, Sleep, AlternateInv, ReleaseWaits
<1>10. CASE MainLoopDestroy
      BY <1>10 DEF MainLoopDestroy
<1>11. CASE ModalReturns
  <2>1. /\ Len(stack) \in Nat \ {0} /\ Len(stack') = Len(stack) - 1
        /\ \A i \in 1 .. Len(stack') : stack'[i] = stack[i]
        BY <1>11, Unstacked DEF ModalReturns, PipelineType, TypeOK
  <2>2. wmPressed' = (wmPressed /\ stack[Len(stack)].from /= "up")
        BY <1>11 DEF ModalReturns, StillPressed
  <2>3. ASSUME wmPressed', ReleaseWaits PROVE ReleaseWaits'
    <3>1. PICK i \in 1 .. Len(stack) : stack[i].from = "up"
          BY <2>3 DEF ReleaseWaits
    <3>2. i /= Len(stack)
          BY <2>2, <2>3, <3>1
    <3>3. i \in 1 .. Len(stack')
          BY <2>1, <3>2
    <3>4. QED BY <2>1, <3>1, <3>3 DEF ReleaseWaits
  <2>4. QED BY <1>11, <2>2, <2>3, AlternateSame DEF ModalReturns, AlternateInv
<1>12. CASE UNCHANGED vars
      BY <1>12, AlternateSame DEF vars, guiVars, AlternateInv, ReleaseWaits
<1>13. QED BY <1>1, <1>2, <1>3, <1>4, <1>6, <1>7, <1>8, <1>9, <1>10, <1>11, <1>12
           DEF Next, InputThread, OtherThread, GuiThread

(* input_dispatch_one_event and window_manager_dispatch_input_event: the   *)
(* widgets are not handed a second press without a release between, unless *)
(* a full queue refused a release or the handler of one shows the dialog   *)
(* whose loop takes the press.                                             *)
THEOREM PressesAlternateCorrect == Spec => PressesAlternate
<1>1. PipelineType /\ AlternateInv /\ [Next]_vars =>
          [GetsPress => ~wmPressed \/ "UP" \in refused \/ ReleaseWaits]_vars
  <2> SUFFICES ASSUME PipelineType, AlternateInv, GetsPress, wmPressed, "UP" \notin refused,
                      ~ReleaseWaits
               PROVE  FALSE
      OBVIOUS
  <2>1. queue[1].type = "DOWN" /\ 1 \in 1 .. Len(queue) /\ Len(queue) \in Nat
        BY Shifted DEF GetsPress, PipelineType, TypeOK
  <2>2. ReleaseComesFirst
        BY DEF AlternateInv, Alternates, GetsPress
  <2>3. QED BY <2>1, <2>2 DEF ReleaseComesFirst
<1>2. QED BY <1>1, PipelineInitType, PipelineNextType, PressInit, PressNext, AlternateInit,
             AlternateNext, PTL DEF Spec, PressesAlternate

-----------------------------------------------------------------------------
(* What the widgets hold, the window manager knows of; and no release is   *)
(* being handled by the loop that handed them the press or by one inside   *)
(* it, since the return of such a handler would clear pressed.             *)
HeldInv == held /= 0 => /\ wmPressed
                        /\ held <= Len(stack) + 1
                        /\ \A i \in held .. Len(stack) : stack[i].from /= "up"

LEMMA HeldCallback ==
    ASSUME PipelineType, HeldInv, wmPressed' = wmPressed, held' = held,
           NEW from \in Origin \ {"up"}, NEW next \in Phase, NEW ignoring \in BOOLEAN,
           Callback(from, next, ignoring)
    PROVE  HeldInv'
<1>1. /\ Len(stack) \in Nat /\ Len(stack') \in {Len(stack), Len(stack) + 1}
      /\ \A i \in 1 .. Len(stack) : stack'[i] = stack[i]
      /\ \/ stack' = stack
         \/ Len(stack') = Len(stack) + 1 /\ stack'[Len(stack) + 1].from = from
      BY CallbackStack DEF PipelineType, TypeOK
<1>2. held \in Nat
      BY PipelineAssumption DEF PipelineType, TypeOK
<1>3. QED BY <1>1, <1>2 DEF HeldInv

LEMMA HeldNext == PipelineType /\ HeldInv /\ [Next]_vars => HeldInv'
<1> SUFFICES ASSUME PipelineType, HeldInv, [Next]_vars PROVE HeldInv'
    OBVIOUS
<1>0. held \in Nat /\ Len(stack) \in Nat /\ wmPressed \in BOOLEAN
      BY PipelineAssumption, LenProperties DEF PipelineType, TypeOK
<1>1. ASSUME UNCHANGED <<wmPressed, stack, held>> PROVE HeldInv'
      BY <1>1 DEF HeldInv
<1>2. CASE InputThread \/ OtherThread
      BY <1>1, <1>2 DEF InputThread, OtherThread, ReadFails, ReadMouse, InputDispatch,
                        QueueRequest, guiVars
<1>3. CASE TimerDispatch
      BY <1>3, HeldCallback DEF TimerDispatch, PipelineType, TypeOK, Origin, Phase
<1>4. CASE DispatchPointer
  <2> DEFINE type == Head(queue).type
  <2>1. CASE Ignored(type)
        BY <1>1, <1>4, <2>1 DEF DispatchPointer, guiVars
  <2>2. CASE ~Ignored(type) /\ type = "UP"
    <3>1. held' = 0
          BY <1>4, <2>2 DEF DispatchPointer
    <3>2. QED BY <3>1 DEF HeldInv
  <2>3. CASE ~Ignored(type) /\ type = "DOWN"
    <3>1. Callback("events", "events", ignoreInput) /\ wmPressed' = TRUE /\ held' = Len(stack) + 1
          BY <1>4, <2>3 DEF DispatchPointer
    <3>2. /\ Len(stack') \in {Len(stack), Len(stack) + 1}
          /\ \/ stack' = stack
             \/ Len(stack') = Len(stack) + 1 /\ stack'[Len(stack) + 1].from = "events"
          BY <3>1, CallbackStack DEF PipelineType, TypeOK, Origin, Phase
    <3>3. QED BY <1>0, <3>1, <3>2 DEF HeldInv
  <2>4. CASE ~Ignored(type) /\ type \notin {"UP", "DOWN"}
    <3>1. Callback("events", "events", ignoreInput) /\ wmPressed' = wmPressed /\ held' = held
          BY <1>0, <1>4, <2>4 DEF DispatchPointer
    <3>2. QED BY <3>1, HeldCallback DEF PipelineType, TypeOK, Origin, Phase
  <2>5. QED BY <2>1, <2>2, <2>3, <2>4
<1>5. CASE DispatchRequest \/ EventsDrained \/ PaintFrame \/ Sleep \/ MainLoopDestroy
      BY <1>1, <1>5 DEF DispatchRequest, EventsDrained, PaintFrame, Sleep, MainLoopDestroy,
                        guiVars
<1>10. CASE PaintLast \/ AnimationEnds
      BY <1>10, HeldCallback DEF PaintLast, AnimationEnds, PipelineType, TypeOK, Origin, Phase
<1>6. CASE IdleDispatch
      BY <1>6, HeldCallback DEF IdleDispatch, PipelineType, TypeOK, Origin, Phase
<1>7. CASE ModalReturns
  <2>1. /\ Len(stack) \in Nat \ {0} /\ Len(stack') = Len(stack) - 1
        /\ \A i \in 1 .. Len(stack') : stack'[i] = stack[i]
        BY <1>7, Unstacked DEF ModalReturns, PipelineType, TypeOK
  <2>2. /\ wmPressed' = (wmPressed /\ stack[Len(stack)].from /= "up")
        /\ held' = IF held > Len(stack) THEN 0 ELSE held
        BY <1>7 DEF ModalReturns, StillPressed
  <2>3. QED BY <1>0, <2>1, <2>2 DEF HeldInv
<1>8. CASE UNCHANGED vars
      BY <1>1, <1>8 DEF vars, guiVars
<1>9. QED BY <1>2, <1>3, <1>4, <1>5, <1>6, <1>7, <1>8, <1>10 DEF Next, GuiThread

(* window_manager_dispatch_input_event, the exception for the last         *)
(* pointer_up: whatever animates, and however deep dialogs nest, widgets   *)
(* that hold a press get its release from a loop that is still running.    *)
THEOREM ReleaseReachesCorrect == Spec => ReleaseReachesWidgets
<1>1. Init => HeldInv
      BY DEF Init, HeldInv
<1>2. HeldInv /\ [Next]_vars => [IgnoresUp => held = 0]_vars
      BY DEF HeldInv, IgnoresUp, Ignored
<1>3. QED BY <1>1, <1>2, PipelineInitType, PipelineNextType, HeldNext, PTL
          DEF Spec, ReleaseReachesWidgets
=============================================================================
