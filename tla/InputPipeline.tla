--------------------------- MODULE InputPipeline ---------------------------
(***************************************************************************)
(* The way of a request from the thread that makes it to the widgets:      *)
(*                                                                         *)
(*   mouse device -> input thread (awtk-port/input_thread.c)               *)
(*                -> event queue -> main loop (main_loop_simple.c)         *)
(*                -> window manager (window_manager_dispatch_input_event)  *)
(*   other threads -> idle_queue, timer_queue -> event queue -> main loop  *)
(*                                                                         *)
(* The queue is the atomic bounded queue that LockedQueue implements.      *)
(* Coordinates, keys and the widgets themselves are abstracted away: what  *)
(* is kept is who believes the button to be pressed, and which request is  *)
(* where.  Callbacks of the application may open an animated window, which *)
(* makes the window manager ignore input until the animation has been      *)
(* painted to its end, may quit the loop, and may show a modal dialog: the *)
(* callback then waits on the stack while a nested loop reads the same     *)
(* queue (ModalLoop has the dialogs themselves).  Callbacks run in every   *)
(* phase: timers, input, idles, and the events that the window manager     *)
(* dispatches at the end of an animation while it paints.                  *)
(***************************************************************************)
EXTENDS Naturals, Sequences

CONSTANTS Capacity,    \* of the event queue, 20 in main_loop_simple_init
          Request,     \* calls of idle_queue and timer_queue by other threads
          NoRequest,   \* the id of a pointer event
          MaxNest      \* bound on the nesting of modal dialogs

ASSUME PipelineAssumption == /\ Capacity \in Nat /\ Capacity > 1
                             /\ NoRequest \notin Request
                             /\ MaxNest \in Nat

VARIABLES tpc,         \* input thread: "read", "post" or "dead"
          infoPressed, \* run_info_t.pressed, the thread's view of the button
          req,         \* run_info_t.req.event.type
          queue,       \* the event queue
          refused,     \* pointer events that queue_event turned away
          status,      \* where each call of idle_queue/timer_queue got to
          gpc,         \* the phase of the loop in main_loop_simple_run
          running,     \* main_loop_t.running
          wmPressed,   \* window_manager_t.pressed
          ignoreInput, \* window_manager_t.ignore_user_input
          stack,       \* callbacks that wait for a modal dialog, innermost last
          held         \* history: the nesting of the loop that handed the widgets
                       \* the press they hold; 0 if they hold none

threadVars == <<tpc, infoPressed, req>>
guiVars == <<gpc, running, wmPressed, ignoreInput, stack, held>>
vars == <<threadVars, queue, refused, status, guiVars>>

Pointer == {"DOWN", "MOVE", "UP"}
Phase == {"timer", "events", "idle", "paint", "ended", "sleep", "exit", "gone"}
Event == [type : Pointer \cup {"ADD_IDLE", "ADD_TIMER"},
          id : Request \cup {NoRequest}]

(* Where callbacks are called from; "ended" are the handlers of            *)
(* EVT_WINDOW_OPEN in the last frame of an animation, "sleep" those of     *)
(* EVT_WINDOW_CLOSE of a window that waited for its end.                   *)
Origin == {"timer", "events", "up", "idle", "ended", "sleep"}

(* A callback that waits, the value of running it restores.                *)
Frame == [from : Origin, running : BOOLEAN]

PointerEvent(t) == [type |-> t, id |-> NoRequest]

Init == /\ tpc = "read"
        /\ infoPressed = FALSE
        /\ req = "NONE"
        /\ queue = << >>
        /\ refused = {}
        /\ status = [q \in Request |-> "new"]
        /\ gpc = "timer"
        /\ running = TRUE
        /\ wmPressed = FALSE
        /\ ignoreInput = FALSE
        /\ stack = << >>
        /\ held = 0
-----------------------------------------------------------------------------
(* A full queue refuses, and so does the loop once main_loop_simple_reset  *)
(* has cleared its queue_event function.                                   *)
Accepts == Len(queue) < Capacity /\ gpc /= "gone"

(* input_dispatch_one_event: a failed read ends the thread, and so does a  *)
(* short one, whose message says "continue".                               *)
ReadFails == /\ tpc = "read"
             /\ tpc' = "dead"
             /\ UNCHANGED <<infoPressed, req, queue, refused, status, guiVars>>

(* Mutant: a sample with the button down is a press, whatever came before. *)
TypeOfForgetful(left) == IF left THEN "DOWN" ELSE IF infoPressed THEN "UP" ELSE "MOVE"

(* The type of event that the state of the left button amounts to.         *)
TypeOf(left) == IF left = infoPressed THEN "MOVE" ELSE IF left THEN "DOWN" ELSE "UP"

ReadMouse(left) == /\ tpc = "read"
                   /\ req' = TypeOf(left)
                   /\ infoPressed' = left
                   /\ tpc' = "post"
                   /\ UNCHANGED <<queue, refused, status, guiVars>>

(* input_dispatch: the result of queue_event is returned and not looked at.*)
InputDispatch == /\ tpc = "post"
                 /\ IF Accepts
                    THEN /\ queue' = Append(queue, PointerEvent(req))
                         /\ UNCHANGED refused
                    ELSE /\ refused' = refused \cup {req}
                         /\ UNCHANGED queue
                 /\ req' = "NONE"
                 /\ tpc' = "read"
                 /\ UNCHANGED <<infoPressed, status, guiVars>>

(* idle_queue and timer_queue, called by some other thread.                *)
QueueRequest(q, type) ==
    /\ status[q] = "new"
    /\ IF Accepts
       THEN /\ queue' = Append(queue, [type |-> type, id |-> q])
            /\ status' = [status EXCEPT ![q] = "queued"]
       ELSE /\ status' = [status EXCEPT ![q] = "refused"]
            /\ UNCHANGED queue
    /\ UNCHANGED <<threadVars, refused, guiVars>>
-----------------------------------------------------------------------------
(* What application code called from the loop may do to it: open animated  *)
(* windows, quit, and return to phase next; or show a modal dialog, whose  *)
(* loop starts with a round of its own.  ignoring is ignore_user_input     *)
(* when it is called.                                                      *)
Callback(from, next, ignoring) ==
    /\ ignoreInput' \in {ignoring, TRUE}
    /\ \/ running' \in {running, FALSE} /\ gpc' = next /\ UNCHANGED stack
       \/ /\ Len(stack) < MaxNest
          /\ stack' = Append(stack, [from |-> from, running |-> running])
          /\ running' = TRUE
          /\ gpc' = "timer"

Ran(kind) == [q \in Request |-> IF status[q] = kind THEN "ran" ELSE status[q]]

(* timer_dispatch (TimerManager models durations; here they have elapsed). *)
TimerDispatch == /\ gpc = "timer"
                 /\ status' = Ran("timer")
                 /\ Callback("timer", "events", ignoreInput)
                 /\ UNCHANGED <<threadVars, queue, refused, wmPressed, held>>

(* Mutant: nothing that arrives during an animation is let through.        *)
IgnoredWithoutException(type) == ignoreInput

(* window_manager_dispatch_input_event ignores input during an animation,  *)
(* except the release of a button whose press it has seen.                 *)
Ignored(type) == ignoreInput /\ ~(wmPressed /\ type = "UP")

(* One round of the loop in main_loop_dispatch_events.  pressed is set     *)
(* before the widgets get a press and cleared after they got the release,  *)
(* which is after the return of a dialog that they showed.                 *)
DispatchPointer ==
    /\ gpc = "events"
    /\ queue /= << >>
    /\ LET type == Head(queue).type
       IN  /\ type \in Pointer
           /\ queue' = Tail(queue)
           /\ IF Ignored(type)
              THEN UNCHANGED guiVars
              ELSE /\ Callback(IF type = "UP" THEN "up" ELSE "events", "events", ignoreInput)
                   /\ wmPressed' = IF type = "UP" THEN wmPressed /\ gpc' /= "events"
                                   ELSE wmPressed \/ type = "DOWN"
                   /\ held' = CASE type = "DOWN" -> Len(stack) + 1
                                [] type = "UP" -> 0
                                [] OTHER -> held
    /\ UNCHANGED <<threadVars, refused, status>>

DispatchRequest ==
    /\ gpc = "events"
    /\ queue /= << >>
    /\ Head(queue).type \notin Pointer
    /\ status' = [status EXCEPT ![Head(queue).id] =
                    IF Head(queue).type = "ADD_IDLE" THEN "idle" ELSE "timer"]
    /\ queue' = Tail(queue)
    /\ UNCHANGED <<threadVars, refused, guiVars>>

(* Mutant: the loop goes on to painting without idle_dispatch.             *)
EventsDrainedSkipsIdle == /\ gpc = "events"
                          /\ queue = << >>
                          /\ gpc' = "paint"
                          /\ UNCHANGED <<threadVars, queue, refused, status, running,
                                         wmPressed, ignoreInput, stack, held>>

EventsDrained == /\ gpc = "events"
                 /\ queue = << >>
                 /\ gpc' = "idle"
                 /\ UNCHANGED <<threadVars, queue, refused, status, running,
                                wmPressed, ignoreInput, stack, held>>

IdleDispatch == /\ gpc = "idle"
                /\ status' = Ran("idle")
                /\ Callback("idle", "paint", ignoreInput)
                /\ UNCHANGED <<threadVars, queue, refused, wmPressed, held>>

(* window_manager_paint draws a frame that is not the last one of an       *)
(* animation.                                                              *)
PaintFrame == /\ gpc = "paint"
              /\ gpc' = "sleep"
              /\ UNCHANGED <<threadVars, queue, refused, status, running, wmPressed,
                             ignoreInput, stack, held>>

(* The last frame of an animation, up to the handlers of EVT_WINDOW_OPEN.  *)
PaintLast == /\ gpc = "paint"
             /\ ignoreInput
             /\ Callback("ended", "ended", ignoreInput)
             /\ UNCHANGED <<threadVars, queue, refused, status, wmPressed, held>>

(* The animator is gone and input is let in; then a window whose close     *)
(* waited is closed, which calls handlers and may start an animation.      *)
AnimationEnds == /\ gpc = "ended"
                 /\ Callback("sleep", "sleep", FALSE)
                 /\ UNCHANGED <<threadVars, queue, refused, status, wmPressed, held>>

(* main_loop_sleep, and the test of running.                               *)
Sleep == /\ gpc = "sleep"
         /\ gpc' = IF running THEN "timer" ELSE "exit"
         /\ UNCHANGED <<threadVars, queue, refused, status, running, wmPressed,
                        ignoreInput, stack, held>>

(* Mutant: a release whose handler showed a dialog is never finished.      *)
StillPressedAfterAll(from) == wmPressed

(* pressed, once the callback that showed a dialog has returned.           *)
StillPressed(from) == wmPressed /\ from /= "up"

(* The phase after a callback that showed a dialog.                        *)
After(from) == CASE from \in {"timer", "events", "up"} -> "events"
                 [] from = "idle" -> "paint"
                 [] OTHER -> from

(* dialog_modal restores running; the callback that showed the dialog goes *)
(* on to its end and returns to the loop around it.                        *)
ModalReturns ==
    /\ gpc = "exit"
    /\ stack /= << >>
    /\ LET f == stack[Len(stack)]
       IN  /\ gpc' = After(f.from)
           /\ running' \in {f.running, FALSE}
           /\ wmPressed' = StillPressed(f.from)
    /\ ignoreInput' \in {ignoreInput, TRUE}
    /\ stack' = SubSeq(stack, 1, Len(stack) - 1)
    /\ held' = IF held > Len(stack) THEN 0 ELSE held
    /\ UNCHANGED <<threadVars, queue, refused, status>>

(* tk_exit: main_loop_destroy frees the queue and clears the loop while    *)
(* the input thread lives on.                                              *)
MainLoopDestroy == /\ gpc = "exit"
                   /\ stack = << >>
                   /\ gpc' = "gone"
                   /\ queue' = << >>
                   /\ running' = FALSE
                   /\ UNCHANGED <<threadVars, refused, status, wmPressed, ignoreInput,
                                  stack, held>>
-----------------------------------------------------------------------------
InputThread == \/ ReadFails
               \/ \E left \in BOOLEAN : ReadMouse(left)
               \/ InputDispatch

OtherThread == \E q \in Request, type \in {"ADD_IDLE", "ADD_TIMER"} : QueueRequest(q, type)

GuiThread == \/ TimerDispatch
             \/ DispatchPointer
             \/ DispatchRequest
             \/ EventsDrained
             \/ IdleDispatch
             \/ PaintFrame
             \/ PaintLast
             \/ AnimationEnds
             \/ Sleep
             \/ ModalReturns
             \/ MainLoopDestroy

Next == InputThread \/ OtherThread \/ GuiThread

Spec == Init /\ [][Next]_vars

(* The GUI thread never blocks for ever (recv_event polls, sleep is        *)
(* bounded), and a thread that has a request in hand delivers it.  Nothing *)
(* is assumed of the mouse or of the other threads.                        *)
FairSpec == Spec /\ WF_vars(GuiThread) /\ WF_vars(InputDispatch)
-----------------------------------------------------------------------------
(* Types of the pipeline's state.                                          *)
TypeOK == /\ tpc \in {"read", "post", "dead"}
          /\ infoPressed \in BOOLEAN
          /\ req \in Pointer \cup {"NONE"}
          /\ queue \in Seq(Event) /\ Len(queue) <= Capacity
          /\ refused \subseteq Pointer
          /\ status \in [Request -> {"new", "queued", "refused", "idle", "timer", "ran"}]
          /\ gpc \in Phase
          /\ running \in BOOLEAN
          /\ wmPressed \in BOOLEAN
          /\ ignoreInput \in BOOLEAN
          /\ stack \in Seq(Frame) /\ Len(stack) <= MaxNest
          /\ held \in 0 .. MaxNest + 1

InFlight(type) == \/ tpc = "post" /\ req = type
                  \/ \E i \in 1 .. Len(queue) : queue[i].type = type

ReleaseWaits == \E i \in 1 .. Len(stack) : stack[i].from = "up"

(* The window manager never stays pressed after the button was released:   *)
(* while it believes the button to be down, the button is down, the        *)
(* release is on its way, or the handler of a release is showing a dialog, *)
(* unless the full queue turned a release away.  Animations that ignore    *)
(* input do not break this, which is what the exception for the last       *)
(* pointer_up is for.                                                      *)
NeverStuckPressed ==
    wmPressed /\ "UP" \notin refused /\ gpc /= "gone" =>
      infoPressed \/ InFlight("UP") \/ ReleaseWaits

IgnoresUp == /\ gpc = "events" /\ queue /= << >>
             /\ Head(queue).type = "UP"
             /\ Ignored("UP")
             /\ queue' = Tail(queue)

(* Widgets that were handed a press are handed its release, even during an *)
(* animation, unless the loop that handed them the press has ended since:  *)
(* a handler of a release that returns from a dialog clears pressed, also  *)
(* when the button is down again.                                          *)
ReleaseReachesWidgets == [][IgnoresUp => held = 0]_vars

GetsPress == /\ gpc = "events" /\ queue /= << >>
             /\ Head(queue).type = "DOWN"
             /\ ~Ignored("DOWN")
             /\ queue' = Tail(queue)

(* The widgets are never handed a second press without a release between,  *)
(* although presses and releases are refused by a full queue and ignored   *)
(* during animations one by one: unless a release was refused, or the      *)
(* handler of one shows the dialog whose loop takes the new press.         *)
PressesAlternate ==
    [][GetsPress => ~wmPressed \/ "UP" \in refused \/ ReleaseWaits]_vars

Ended == gpc = "gone"

QuietMouse == tpc /= "post"

(* An accepted idle_queue or timer_queue request runs, however dialogs     *)
(* nest, provided the mouse comes to rest: main_loop_dispatch_events       *)
(* drains the queue completely before idles, timers and painting get their *)
(* turn.                                                                   *)
AcceptedRuns ==
    <>[]QuietMouse => \A q \in Request : status[q] = "queued" ~> (status[q] = "ran" \/ Ended)
=============================================================================
