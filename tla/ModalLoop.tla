----------------------------- MODULE ModalLoop -----------------------------
(***************************************************************************)
(* base/dialog.c, base/main_loop.c and tk_run, tk_quit of awtk.c: modal    *)
(* dialogs.  dialog_modal calls main_loop_run from inside an event         *)
(* handler, so that main loops nest, yet they share one flag running:      *)
(* dialog_quit and tk_quit clear it, the innermost loop sees it, and       *)
(* dialog_modal puts the value back that it found.                         *)
(*                                                                         *)
(* A dialog that returned is closed by an idle, through window_manager.c:  *)
(* there is one animator and one slot for a close that has to wait for its *)
(* end, and both are shared with all other windows, for which Other        *)
(* stands.  The idles are those of IdleManager, with two arrays that swap  *)
(* roles, except that a dispatch serves its array in any order here.       *)
(*                                                                         *)
(* stack holds the calls of main_loop_run in progress, the outermost       *)
(* first.  at is where a loop is in its round, array what its idle         *)
(* dispatch captured, and call the function of the window manager that     *)
(* waits for handlers of the application.  A loop that is not the          *)
(* innermost is inside application code.  quit and held are history:       *)
(* whether the loop was quit while it was the innermost, and the dialogs   *)
(* that returned to the handler that is running in it.                     *)
(***************************************************************************)
EXTENDS Naturals, Sequences

CONSTANTS Dialog,       \* dialog objects, each shown once
          Main,         \* stands for the loop of tk_run
          Other,        \* a window that is not one of the dialogs
          NoWindow,     \* NULL
          Frames        \* of an animation before its last one

ASSUME DialogAssumption == /\ Main \notin Dialog /\ Other \notin Dialog
                           /\ NoWindow \notin Dialog \cup {Other}
                           /\ Frames \in Nat

VARIABLES running,      \* main_loop_t.running
          stack,        \* calls of main_loop_run in progress
          shown,        \* dialogs that dialog_modal was called for
          idles,        \* the two arrays of the idle manager
          active,       \* index of the active one
          animator,     \* wm->animator
          pendingClose, \* wm->pending_close_window
          freed,        \* dialogs that were destroyed
          lost,         \* history: dialogs whose close was overwritten in the slot
          quitTimer,    \* the timer of tk_quit is waiting
          asked         \* tk_quit was called

wmVars == <<animator, pendingClose, lost>>
idleVars == <<idles, active>>
quitVars == <<quitTimer, asked>>
vars == <<running, stack, shown, idleVars, wmVars, freed, quitVars>>

Window == Dialog \cup {Other}

Phase == {"timer", "events", "idle", "paint", "sleep"}

(* What idles are added for: dialog_idle_close and                         *)
(* window_manager_idle_destroy_window.                                     *)
Job == [func : {"close", "destroy"}, win : Window]

(* EVT_WINDOW_OPEN of the last frame, EVT_WINDOW_CLOSE.                    *)
Call == [event : {"none", "open", "close"}, win : Window \cup {NoWindow}]
NoCall == [event |-> "none", win |-> NoWindow]

NoAnimator == [win |-> NoWindow, open |-> FALSE, left |-> 0]
Animator == [win : Window, open : BOOLEAN, left : 0 .. Frames]

LoopState == [win : Dialog \cup {Main}, saved : BOOLEAN, at : Phase, array : {0, 1},
              call : Call, quit : BOOLEAN, held : SUBSET Dialog]

(* A loop at its start, entered while the flag was saved.                  *)
Loop(win, saved) ==
    [win |-> win, saved |-> saved, at |-> "timer", array |-> 0, call |-> NoCall,
     quit |-> FALSE, held |-> {}]

Init == /\ running = TRUE
        /\ stack = << Loop(Main, FALSE) >>
        /\ shown = {} /\ freed = {} /\ lost = {}
        /\ idles = [a \in {0, 1} |-> {}] /\ active = 0
        /\ animator = NoAnimator /\ pendingClose = NoWindow
        /\ quitTimer = FALSE /\ asked = FALSE
-----------------------------------------------------------------------------
Depth == Len(stack)

Top == stack[Depth]

(* The loops that wait for the innermost one.                              *)
Callers == SubSeq(stack, 1, Depth - 1)

(* The innermost loop goes on as rec.                                      *)
Becomes(rec) == stack' = [stack EXCEPT ![Depth] = rec]

(* Timers, events and idles are functions of the application, and the      *)
(* window manager dispatches events to it also while it paints.            *)
InUserCode == Depth > 0 /\ (Top.at \in {"timer", "events", "idle"} \/ Top.call /= NoCall)

(* No function of the application is running in the innermost loop.        *)
Between(phase) == Depth > 0 /\ Top.at = phase /\ Top.call = NoCall /\ Top.held = {}

(* Mutant: the flag is saved after main_loop_run has set it.               *)
ModalSavesLate(d) == /\ InUserCode
                     /\ d \notin shown
                     /\ shown' = shown \cup {d}
                     /\ stack' = Append(stack, Loop(d, TRUE))
                     /\ running' = TRUE
                     /\ UNCHANGED <<idleVars, wmVars, freed, quitVars>>

(* dialog_modal up to the nested loop.                                     *)
Modal(d) == /\ InUserCode
            /\ d \notin shown
            /\ shown' = shown \cup {d}
            /\ stack' = Append(stack, Loop(d, running))
            /\ running' = TRUE
            /\ UNCHANGED <<idleVars, wmVars, freed, quitVars>>

(* main_loop_quit.                                                         *)
MainLoopQuit(next) == /\ running' = FALSE
                      /\ Becomes([Top EXCEPT !.quit = TRUE, !.at = next])

(* Some handler quits the dialog d that is being shown.  Whichever dialog  *)
(* d is, the flag that the innermost loop looks at is cleared.             *)
DialogQuit(d) == /\ InUserCode
                 /\ \E i \in 1 .. Depth : stack[i].win = d
                 /\ MainLoopQuit(Top.at)
                 /\ UNCHANGED <<shown, idleVars, wmVars, freed, quitVars>>

(* Called once, which bounds the timers that are waiting.                  *)
TkQuit == /\ InUserCode
          /\ ~asked
          /\ quitTimer' = TRUE
          /\ asked' = TRUE
          /\ UNCHANGED <<running, stack, shown, idleVars, wmVars, freed>>

(* The handler that showed dialogs returns to the loop.                    *)
HandlerReturns == /\ InUserCode
                  /\ Top.held /= {}
                  /\ Becomes([Top EXCEPT !.held = {}])
                  /\ UNCHANGED <<running, shown, idleVars, wmVars, freed, quitVars>>
-----------------------------------------------------------------------------
(* window_manager_create_animator, for a window that has a hint.           *)
Animate(w, open) == /\ animator = NoAnimator
                    /\ animator' = [win |-> w, open |-> open, left |-> Frames]

(* Some other window, opened or closed by the application, is animated.    *)
(* It stands for the opening animation of a dialog, too.                   *)
AnimateOther(open) == /\ InUserCode
                      /\ Animate(Other, open)
                      /\ UNCHANGED <<running, stack, shown, idleVars, pendingClose, lost,
                                     freed, quitVars>>

(* The slot takes one window: what was in it is forgotten.                 *)
Postpone(w) == /\ pendingClose' = w
               /\ lost' = lost \cup ({pendingClose} \cap Dialog)

(* Another window is closed by the application during an animation.        *)
CloseOther == /\ InUserCode
              /\ animator /= NoAnimator
              /\ Postpone(Other)
              /\ UNCHANGED <<running, stack, shown, idleVars, animator, freed, quitVars>>

(* The rest of window_manager_close_window, after EVT_WINDOW_CLOSE.        *)
CloseReturns ==
    /\ Depth > 0 /\ Top.call.event = "close" /\ Top.held = {}
    /\ \/ Animate(Top.call.win, FALSE) /\ UNCHANGED idles
       \/ /\ idles' = [idles EXCEPT ![active] =
                         @ \cup {[func |-> "destroy", win |-> Top.call.win]}]
          /\ UNCHANGED animator
    /\ Becomes([Top EXCEPT !.call = NoCall])
    /\ UNCHANGED <<running, shown, active, pendingClose, lost, freed, quitVars>>
-----------------------------------------------------------------------------
(* timer_dispatch, with the timer of tk_quit if there is one.              *)
TimerDispatch == /\ Between("timer")
                 /\ IF quitTimer
                    THEN MainLoopQuit("events")
                    ELSE Becomes([Top EXCEPT !.at = "events"]) /\ UNCHANGED running
                 /\ quitTimer' = FALSE
                 /\ UNCHANGED <<shown, idleVars, wmVars, freed, asked>>

(* The queue is empty, and idle_manager_dispatch captures its array.       *)
EventsDispatched == /\ Between("events")
                    /\ Becomes([Top EXCEPT !.at = "idle", !.array = active])
                    /\ UNCHANGED <<running, shown, idleVars, wmVars, freed, quitVars>>

(* The idle job is popped off the array.                                   *)
Serve(job) == /\ Between("idle")
              /\ job \in idles[Top.array]
              /\ idles' = [idles EXCEPT ![Top.array] = @ \ {job}]
              /\ UNCHANGED <<running, shown, active, animator, quitVars>>

(* dialog_idle_close, up to the handlers of EVT_WINDOW_CLOSE.              *)
IdleClose(w) == /\ Serve([func |-> "close", win |-> w])
                /\ IF animator /= NoAnimator
                   THEN Postpone(w) /\ UNCHANGED stack
                   ELSE /\ Becomes([Top EXCEPT !.call = [event |-> "close", win |-> w]])
                        /\ UNCHANGED <<pendingClose, lost>>
                /\ UNCHANGED freed

IdleDestroy(w) == /\ Serve([func |-> "destroy", win |-> w])
                  /\ freed' = freed \cup ({w} \cap Dialog)
                  /\ UNCHANGED <<stack, pendingClose, lost>>

IdleDone == /\ Between("idle")
            /\ idles[Top.array] = {}
            /\ active' = 1 - active
            /\ Becomes([Top EXCEPT !.at = "paint"])
            /\ UNCHANGED <<running, shown, idles, wmVars, freed, quitVars>>
-----------------------------------------------------------------------------
(* window_manager_paint: a frame of the windows or of the animation.       *)
PaintFrame ==
    /\ Between("paint")
    /\ animator = NoAnimator \/ animator.left > 0
    /\ animator' = IF animator = NoAnimator THEN animator
                   ELSE [animator EXCEPT !.left = @ - 1]
    /\ Becomes([Top EXCEPT !.at = "sleep"])
    /\ UNCHANGED <<running, shown, idleVars, pendingClose, lost, freed, quitVars>>

(* The last frame of an opening animation, up to EVT_WINDOW_OPEN.  A loop  *)
(* that a handler starts there paints that frame once more.                *)
PaintLastOfOpen ==
    /\ Between("paint")
    /\ animator.open /\ animator.left = 0
    /\ Becomes([Top EXCEPT !.call = [event |-> "open", win |-> animator.win]])
    /\ UNCHANGED <<running, shown, idleVars, wmVars, freed, quitVars>>

(* Mutant: the close that waited is not carried out.                       *)
TakeUpForgets == /\ Becomes([Top EXCEPT !.at = "sleep", !.call = NoCall])
                 /\ pendingClose' = NoWindow

(* Mutant: the slot is not cleared, so the window is closed once more.     *)
TakeUpKeepsSlot ==
    /\ Becomes([Top EXCEPT !.at = "sleep",
                           !.call = IF pendingClose = NoWindow THEN NoCall
                                    ELSE [event |-> "close", win |-> pendingClose]])
    /\ UNCHANGED pendingClose

(* After an animation a close that waited is carried out, again up to the  *)
(* handlers of EVT_WINDOW_CLOSE.                                           *)
TakeUp ==
    /\ Becomes([Top EXCEPT !.at = "sleep",
                           !.call = IF pendingClose = NoWindow THEN NoCall
                                    ELSE [event |-> "close", win |-> pendingClose]])
    /\ pendingClose' = NoWindow

(* The end of window_manager_paint_animation.  The animator that is        *)
(* destroyed is the one that is there now; one of a closing animation      *)
(* destroys its window.                                                    *)
AnimationEnds == /\ animator' = NoAnimator
                 /\ freed' = IF animator.open THEN freed ELSE freed \cup ({animator.win} \cap Dialog)
                 /\ TakeUp
                 /\ UNCHANGED <<running, shown, idleVars, lost, quitVars>>

OpenReturns == /\ Depth > 0 /\ Top.call.event = "open" /\ Top.held = {}
               /\ AnimationEnds

PaintLastOfClose == /\ Between("paint")
                    /\ animator /= NoAnimator /\ ~animator.open /\ animator.left = 0
                    /\ AnimationEnds

(* while (l->running)                                                      *)
NextRound == /\ Between("sleep") /\ running
             /\ Becomes([Top EXCEPT !.at = "timer"])
             /\ UNCHANGED <<running, shown, idleVars, wmVars, freed, quitVars>>

(* Mutant: the loop of the caller goes on in any case.                     *)
ModalReturnsRunning ==
    /\ Depth > 1 /\ Between("sleep") /\ ~running
    /\ running' = TRUE
    /\ stack' = [Callers EXCEPT ![Depth - 1].held = @ \cup {Top.win}]
    /\ idles' = [idles EXCEPT ![active] = @ \cup {[func |-> "close", win |-> Top.win]}]
    /\ UNCHANGED <<shown, active, wmVars, freed, quitVars>>

(* The loop of a dialog ends, and dialog_modal returns to its caller.      *)
ModalReturns ==
    /\ Depth > 1 /\ Between("sleep") /\ ~running
    /\ running' = Top.saved
    /\ stack' = [Callers EXCEPT ![Depth - 1].held = @ \cup {Top.win}]
    /\ idles' = [idles EXCEPT ![active] = @ \cup {[func |-> "close", win |-> Top.win]}]
    /\ UNCHANGED <<shown, active, wmVars, freed, quitVars>>

Waits(job) == \E a \in {0, 1} : job \in idles[a]

(* tk_run: the outermost loop ends and tk_exit follows.  The windows that  *)
(* are still children of the window manager are destroyed with it.         *)
TkExit == /\ Depth = 1 /\ Between("sleep") /\ ~running
          /\ stack' = << >>
          /\ freed' = freed \cup {d \in shown : ~Waits([func |-> "destroy", win |-> d])}
          /\ idles' = [a \in {0, 1} |-> {}]
          /\ animator' = NoAnimator /\ pendingClose' = NoWindow
          /\ UNCHANGED <<running, shown, active, lost, quitVars>>
-----------------------------------------------------------------------------
Application == \/ \E d \in Dialog : Modal(d) \/ DialogQuit(d)
               \/ TkQuit
               \/ \E open \in BOOLEAN : AnimateOther(open)
               \/ CloseOther

LoopStep == \/ HandlerReturns
            \/ CloseReturns
            \/ TimerDispatch
            \/ EventsDispatched
            \/ \E w \in Window : IdleClose(w) \/ IdleDestroy(w)
            \/ IdleDone
            \/ PaintFrame
            \/ PaintLastOfOpen
            \/ OpenReturns
            \/ PaintLastOfClose
            \/ NextRound
            \/ ModalReturns
            \/ TkExit

Next == Application \/ LoopStep

Spec == Init /\ [][Next]_vars

(* Handlers return and the loop goes on; users need not do anything.       *)
FairSpec == Spec /\ WF_vars(LoopStep)
-----------------------------------------------------------------------------
(* Types of the loops' state.                                              *)
TypeOK == /\ running \in BOOLEAN
          /\ stack \in Seq(LoopState)
          /\ shown \subseteq Dialog /\ freed \subseteq Dialog /\ lost \subseteq Dialog
          /\ idles \in [{0, 1} -> SUBSET Job] /\ active \in {0, 1}
          /\ animator \in Animator \cup {NoAnimator}
          /\ pendingClose \in Window \cup {NoWindow}
          /\ quitTimer \in BOOLEAN
          /\ asked \in BOOLEAN

(* The value of running that loop i has before it, or will have when the   *)
(* dialog it waits for has returned.                                       *)
RunningOf(i) == IF i = Depth THEN running ELSE stack[i + 1].saved

(* A loop that was quit is not revived by the dialogs shown from it        *)
(* afterwards, and no dialog that returns ends the loop of its caller: the *)
(* value of the flag is that of the loop that looks at it.                 *)
FlagIsPerLoop == \A i \in 1 .. Depth : RunningOf(i) = ~stack[i].quit

IsShown(d) == \E i \in 1 .. Depth : stack[i].win = d

(* The loop in which the handlers of EVT_WINDOW_CLOSE of d are running.    *)
ClosedBy(i, d) == stack[i].call = [event |-> "close", win |-> d]

(* Everything that shows the dialog d, is going to close or to free it, or *)
(* has given it up.                                                        *)
Places(d) == {<<"loop", i>> : i \in {j \in 1 .. Depth : stack[j].win = d}}
             \cup {<<"call", i>> : i \in {j \in 1 .. Depth : ClosedBy(j, d)}}
             \cup {<<"close", a>> : a \in {b \in {0, 1} : [func |-> "close", win |-> d] \in idles[b]}}
             \cup {<<"free", a>> : a \in {b \in {0, 1} : [func |-> "destroy", win |-> d] \in idles[b]}}
             \cup {<<"slot", 0>> : x \in {y \in {0} : pendingClose = d}}
             \cup {<<"animator", 0>> : x \in {y \in {0} : animator.win = d}}
             \cup {<<"freed", 0>> : x \in {y \in {0} : d \in freed}}
             \cup {<<"lost", 0>> : x \in {y \in {0} : d \in lost}}

(* A dialog is never closed while its loop runs, and it is closed once and *)
(* freed once, whichever loop its idle, the slot and the animator are      *)
(* served by: at any time exactly one of them has it.                      *)
ClosedOnce == stack /= << >> =>
                /\ \A d \in shown : \E p \in Places(d) : Places(d) = {p}
                /\ \A d \in Dialog \ shown : Places(d) = {}

(* Handlers of EVT_WINDOW_CLOSE of d wait for a dialog that they show.     *)
CloseCovered(d) == \E i \in 1 .. Depth - 1 : ClosedBy(i, d)

(* base/dialog.h: after dialog_modal has returned the dialog is reclaimed, *)
(* whatever is animated and closed meanwhile.  Excused are a dialog whose  *)
(* close was overwritten in the slot, one whose handlers of                *)
(* EVT_WINDOW_CLOSE never return, and the end of the application.          *)
ReturnedIsFreed ==
    \A d \in Dialog : (d \in shown /\ ~IsShown(d)) ~>
                        (d \in freed \cup lost \/ stack = << >> \/ []CloseCovered(d))

WasQuit(d) == \E i \in 1 .. Depth : stack[i].win = d /\ stack[i].quit

Covered(d) == Depth > 0 /\ IsShown(d) /\ Top.win /= d

(* The loop of a dialog that was quit ends, unless a dialog shown from it  *)
(* stays open.                                                             *)
QuitEnds == \A d \in Dialog : WasQuit(d) ~> (~IsShown(d) \/ []Covered(d))

(* base/dialog.h: what dialog_modal returned from can be accessed until    *)
(* the event ends, that is by the handler that called it.                  *)
AccessibleUntilEventEnds == \A i \in 1 .. Depth : stack[i].held \cap freed = {}

(* awtk.h: tk_quit ends the main event loop, here provided that no dialog  *)
(* stays open for ever.                                                    *)
TkQuitEndsMain == []<>(Depth <= 1) => (asked ~> stack = << >>)
=============================================================================
