--------------------------- MODULE WindowManager ---------------------------
(***************************************************************************)
(* base/window_manager.c: how windows are opened, animated, closed and     *)
(* freed.  Nothing of this happens at once.  Opening leaves an idle that   *)
(* dispatches EVT_WINDOW_WILL_OPEN and starts the animation, closing may   *)
(* start an animation and leaves an idle that frees the window, and what   *)
(* is asked for during an animation waits in one of two pending slots      *)
(* until the last frame is painted.  Event handlers of the application run *)
(* in the middle of most of these functions and may open and close windows *)
(* themselves: stack holds the functions that wait for a handler.          *)
(*                                                                         *)
(* A window is an object: it is opened once and, once freed, gone.         *)
(***************************************************************************)
EXTENDS Naturals, Sequences, SequencesExt

CONSTANTS Window,
          Normal,      \* the windows of type WIDGET_TYPE_NORMAL_WINDOW
          Popup,       \* the windows of type WIDGET_TYPE_POPUP
          OpenHint,    \* the windows that have an animation hint for opening
          CloseHint,   \* the windows that have one for closing
          NoWindow,    \* NULL
          Duration,    \* of an animation, in ticks
          Patient,     \* the application closes a window only once it got
                       \* EVT_WINDOW_OPEN and on_idle_invalidate has run,
                       \* and not from a handler of EVT_WINDOW_CLOSE
          OneAtATime   \* the application makes one request per animation

ASSUME WindowAssumption ==
    /\ NoWindow \notin Window
    /\ Normal \subseteq Window /\ Popup \subseteq Window \ Normal
    /\ OpenHint \subseteq Window /\ CloseHint \subseteq Window
    /\ Duration \in Nat /\ Duration > 0
    /\ Patient \in BOOLEAN /\ OneAtATime \in BOOLEAN

VARIABLES children,     \* wm->children, bottom to top
          target,       \* wm->target
          grab,         \* wm->grab_widget
          animator,     \* wm->animator
          ignoreInput,  \* wm->ignore_user_input
          pendingOpen,  \* wm->pending_open_window
          pendingClose, \* wm->pending_close_window
          idles,        \* the idles of this module, served last in first out
          timers,       \* windows with an on_idle_invalidate timer
          stack,        \* functions that have called event handlers
          phase,        \* of the main loop
          created,      \* windows that were opened
          closed,       \* windows that the application closed
          notified,     \* windows that got EVT_WINDOW_OPEN
          freed         \* windows that were destroyed

focusVars == <<target, grab>>
pendingVars == <<pendingOpen, pendingClose>>
ghostVars == <<created, closed, notified>>
vars == <<children, focusVars, animator, ignoreInput, pendingVars, idles, timers,
          stack, phase, ghostVars, freed>>

(* start_time is 0 until the first frame: that is time = 0 here.           *)
NoAnimator == [win |-> NoWindow, prev |-> NoWindow, open |-> FALSE, time |-> 0]
Animator == [win : Window, prev : Window, open : BOOLEAN, time : 0 .. Duration]

Func == {"check_open", "first_open", "destroy"}
Frame == {"will_open", "will_first", "open", "first", "anim_open", "close"}

Init == /\ children = << >>
        /\ target = NoWindow /\ grab = NoWindow
        /\ animator = NoAnimator
        /\ ignoreInput = FALSE
        /\ pendingOpen = NoWindow /\ pendingClose = NoWindow
        /\ idles = << >> /\ timers = {}
        /\ stack = << >> /\ phase = "events"
        /\ created = {} /\ closed = {} /\ notified = {} /\ freed = {}
-----------------------------------------------------------------------------
Animating == animator /= NoAnimator

(* Application code runs in the event phase and in every event handler.    *)
InUserCode == stack /= << >> \/ phase = "events"

InHandler(at) == stack /= << >> /\ Last(stack).at = at

Handler(at, w) == [at |-> at, win |-> w]

(* The stack once the function on top of it, if any, has returned.         *)
Popped == IF stack = << >> THEN << >> ELSE Front(stack)

(* The normal window below the topmost child, wherever that one is.        *)
PrevWindow ==
    LET below == {i \in 1 .. Len(children) - 1 : children[i] \in Normal}
    IN  IF below = {} THEN NoWindow ELSE children[Max(below)]

(* Mutant: the window that disappears keeps the pointer.                   *)
DropForgets(ptr, w) == ptr

(* The pointer of the window manager once w is out of the way.             *)
Drop(ptr, w) == IF ptr = w THEN NoWindow ELSE ptr

(* window_manager_create_animator gives up without a window to come from,  *)
(* without a hint, and while there is an animator already.                 *)
CanAnimate(w, open) == /\ PrevWindow /= NoWindow /\ ~Animating
                       /\ w \in (IF open THEN OpenHint ELSE CloseHint)

CreateAnimator(w, open) ==
    /\ animator' = [win |-> w, prev |-> PrevWindow, open |-> open, time |-> 0]
    /\ ignoreInput' = TRUE

(* window_manager_do_open_window.                                          *)
OpenIdle(w) == [func |-> IF children = << >> THEN "first_open" ELSE "check_open", win |-> w]

(* What the application refrains from under OneAtATime.                    *)
MayAsk == OneAtATime => ~Animating \/ (pendingOpen = NoWindow /\ pendingClose = NoWindow)

(* What the application refrains from if it is Patient.                    *)
MayClose(w) == Patient => /\ w \in notified \ timers
                          /\ ~Contains(stack, Handler("open", w))
                          /\ \A i \in 1 .. Len(stack) : stack[i].at /= "close"

OpenWindow(w) ==
    /\ InUserCode
    /\ w \notin created
    /\ MayAsk
    /\ IF Animating
       THEN pendingOpen' = w /\ UNCHANGED idles
       ELSE idles' = Append(idles, OpenIdle(w)) /\ UNCHANGED pendingOpen
    /\ children' = Append(children, w)
    /\ target' = w
    /\ created' = created \cup {w}
    /\ UNCHANGED <<grab, animator, ignoreInput, pendingClose, timers, stack, phase,
                   closed, notified, freed>>

CloseWindow(w) ==
    /\ InUserCode
    /\ w \in created \ closed
    /\ MayClose(w)
    /\ MayAsk
    /\ target' = Drop(target, w)
    /\ grab' = Drop(grab, w)
    /\ IF Animating
       THEN pendingClose' = w /\ UNCHANGED stack
       ELSE stack' = Append(stack, Handler("close", w)) /\ UNCHANGED pendingClose
    /\ closed' = closed \cup {w}
    /\ UNCHANGED <<children, animator, ignoreInput, pendingOpen, idles, timers, phase,
                   created, notified, freed>>

(* The rest of window_manager_close_window, after EVT_WINDOW_CLOSE.        *)
CloseReturns ==
    /\ InHandler("close")
    /\ LET w == Last(stack).win
       IN  IF CanAnimate(w, FALSE)
           THEN /\ CreateAnimator(w, FALSE)
                /\ UNCHANGED <<children, focusVars, idles>>
           ELSE /\ children' = RemoveFirst(children, w)
                /\ target' = Drop(target, w)
                /\ grab' = Drop(grab, w)
                /\ idles' = Append(idles, [func |-> "destroy", win |-> w])
                /\ UNCHANGED <<animator, ignoreInput>>
    /\ stack' = Front(stack)
    /\ UNCHANGED <<pendingVars, timers, phase, ghostVars, freed>>

(* A pointer_down goes to the window that grabbed the input, else to the   *)
(* topmost one; it is ignored during an animation.                         *)
PointerDown ==
    /\ phase = "events" /\ stack = << >>
    /\ ~ignoreInput
    /\ target' = IF grab /= NoWindow THEN grab
                 ELSE IF children = << >> THEN NoWindow ELSE Last(children)
    /\ UNCHANGED <<children, grab, animator, ignoreInput, pendingVars, idles, timers,
                   stack, phase, ghostVars, freed>>

(* on_idle_invalidate, some 100 ms after a window opened unanimated.       *)
TimerInvalidate(w) ==
    /\ phase = "events" /\ stack = << >>
    /\ w \in timers
    /\ timers' = timers \ {w}
    /\ UNCHANGED <<children, focusVars, animator, ignoreInput, pendingVars, idles,
                   stack, phase, ghostVars, freed>>

EventsDone == /\ phase = "events" /\ stack = << >>
              /\ phase' = "idle"
              /\ UNCHANGED <<children, focusVars, animator, ignoreInput, pendingVars, idles,
                             timers, stack, ghostVars, freed>>
-----------------------------------------------------------------------------
(* window_manager_check_if_need_open_animation and                         *)
(* window_manager_idle_dispatch_window_open up to EVT_WINDOW_WILL_OPEN.    *)
IdleWillOpen ==
    /\ phase = "idle" /\ stack = << >> /\ idles /= << >>
    /\ Last(idles).func /= "destroy"
    /\ stack' = << Handler(IF Last(idles).func = "check_open" THEN "will_open" ELSE "will_first",
                           Last(idles).win) >>
    /\ idles' = Front(idles)
    /\ UNCHANGED <<children, focusVars, animator, ignoreInput, pendingVars, timers,
                   phase, ghostVars, freed>>

(* window_manager_idle_destroy_window.                                     *)
IdleDestroy ==
    /\ phase = "idle" /\ stack = << >> /\ idles /= << >>
    /\ Last(idles).func = "destroy"
    /\ freed' = freed \cup {Last(idles).win}
    /\ idles' = Front(idles)
    /\ UNCHANGED <<children, focusVars, animator, ignoreInput, pendingVars, timers, stack,
                   phase, ghostVars>>

IdleDone == /\ phase = "idle" /\ stack = << >> /\ idles = << >>
            /\ phase' = "paint"
            /\ UNCHANGED <<children, focusVars, animator, ignoreInput, pendingVars, idles,
                           timers, stack, ghostVars, freed>>

(* EVT_WINDOW_OPEN is dispatched to w, and a popup grabs the input.        *)
DispatchOpen(at, w) ==
    /\ stack' = Append(Popped, Handler(at, w))
    /\ grab' = IF w \in Popup /\ Contains(children, w) THEN w ELSE grab
    /\ notified' = notified \cup {w}

WillOpenReturns ==
    /\ InHandler("will_open")
    /\ LET w == Last(stack).win
       IN  IF CanAnimate(w, TRUE)
           THEN /\ CreateAnimator(w, TRUE)
                /\ stack' = Front(stack)
                /\ UNCHANGED <<grab, notified>>
           ELSE /\ DispatchOpen("open", w)
                /\ UNCHANGED <<animator, ignoreInput>>
    /\ UNCHANGED <<children, target, pendingVars, idles, timers, phase, created, closed, freed>>

WillFirstReturns ==
    /\ InHandler("will_first")
    /\ DispatchOpen("first", Last(stack).win)
    /\ UNCHANGED <<children, target, animator, ignoreInput, pendingVars, idles, timers,
                   phase, created, closed, freed>>

OpenReturns ==
    /\ InHandler("open") \/ InHandler("first")
    /\ timers' = IF InHandler("open") THEN timers \cup {Last(stack).win} ELSE timers
    /\ stack' = Front(stack)
    /\ UNCHANGED <<children, focusVars, animator, ignoreInput, pendingVars, idles, phase,
                   ghostVars, freed>>
-----------------------------------------------------------------------------
(* window_manager_paint: without an animator, a frame of the windows.      *)
PaintNormal == /\ phase = "paint" /\ stack = << >>
               /\ ~Animating
               /\ phase' = "events"
               /\ UNCHANGED <<children, focusVars, animator, ignoreInput, pendingVars, idles,
                              timers, stack, ghostVars, freed>>

(* Mutant: time_percent is not limited to 1.                               *)
PaintFrameUnlimited == /\ phase = "paint" /\ stack = << >>
                       /\ Animating
                       /\ animator' = [animator EXCEPT !.time = @ + 2]
                       /\ phase' = "events"
                       /\ UNCHANGED <<children, focusVars, ignoreInput, pendingVars, idles,
                                      timers, stack, ghostVars, freed>>

(* window_animator_update before the end: the first frame sets start_time. *)
PaintFrame == /\ phase = "paint" /\ stack = << >>
              /\ Animating
              /\ \E t \in animator.time + 1 .. Duration :
                   animator' = [animator EXCEPT !.time = t]
              /\ phase' = "events"
              /\ UNCHANGED <<children, focusVars, ignoreInput, pendingVars, idles,
                             timers, stack, ghostVars, freed>>

(* The last frame of an opening animation, up to EVT_WINDOW_OPEN.          *)
PaintLastOfOpen == /\ phase = "paint" /\ stack = << >>
                   /\ animator.time = Duration /\ animator.open
                   /\ DispatchOpen("anim_open", animator.win)
                   /\ phase' = "events"
                   /\ UNCHANGED <<children, target, animator, ignoreInput, pendingVars, idles,
                                  timers, created, closed, freed>>

(* Mutant: the close that waited is dropped.                               *)
TakeUpCloseForgets == Popped

(* After an animation a close that waited is taken up ...                  *)
TakeUpClose == IF pendingClose = NoWindow THEN Popped
               ELSE Append(Popped, Handler("close", pendingClose))

(* Mutant: the open that waited is dropped.                                *)
TakeUpOpenForgets == idles

(* ... and only if there was none, an open that waited.                    *)
TakeUpOpen == IF pendingClose /= NoWindow \/ pendingOpen = NoWindow THEN idles
              ELSE Append(idles, OpenIdle(pendingOpen))

(* The end of window_manager_paint_animation.  gone is the window that the *)
(* animator destroyed, if any.                                             *)
Resume(gone) ==
    /\ pendingClose' = NoWindow
    /\ pendingOpen' = IF pendingClose = NoWindow THEN NoWindow ELSE pendingOpen
    /\ target' = Drop(Drop(target, gone), pendingClose)
    /\ grab' = Drop(Drop(grab, gone), pendingClose)
    /\ stack' = TakeUpClose
    /\ idles' = TakeUpOpen

(* Mutant: user input stays ignored.                                       *)
FinishStaysDeaf == animator' = NoAnimator /\ UNCHANGED ignoreInput

Finish == animator' = NoAnimator /\ ignoreInput' = FALSE

AnimOpenReturns ==
    /\ InHandler("anim_open")
    /\ Finish
    /\ Resume(NoWindow)
    /\ UNCHANGED <<children, timers, phase, ghostVars, freed>>

(* Mutant: the window is freed but stays in the list of children.          *)
PaintLastOfCloseKeepsChild ==
    /\ phase = "paint" /\ stack = << >>
    /\ animator.time = Duration /\ ~animator.open
    /\ freed' = freed \cup {animator.win}
    /\ Finish
    /\ Resume(animator.win)
    /\ phase' = "events"
    /\ UNCHANGED <<children, timers, ghostVars>>

(* The last frame of a closing animation; window_animator_close_destroy    *)
(* destroys the window.                                                    *)
PaintLastOfClose ==
    /\ phase = "paint" /\ stack = << >>
    /\ animator.time = Duration /\ ~animator.open
    /\ children' = RemoveFirst(children, animator.win)
    /\ freed' = freed \cup {animator.win}
    /\ Finish
    /\ Resume(animator.win)
    /\ phase' = "events"
    /\ UNCHANGED <<timers, ghostVars>>
-----------------------------------------------------------------------------
Application == \E w \in Window : OpenWindow(w) \/ CloseWindow(w)

LoopStep == \/ EventsDone
            \/ IdleWillOpen
            \/ IdleDestroy
            \/ IdleDone
            \/ WillOpenReturns
            \/ WillFirstReturns
            \/ OpenReturns
            \/ CloseReturns
            \/ PaintNormal
            \/ PaintFrame
            \/ PaintLastOfOpen
            \/ AnimOpenReturns
            \/ PaintLastOfClose

Next == Application \/ PointerDown \/ (\E w \in Window : TimerInvalidate(w)) \/ LoopStep

Spec == Init /\ [][Next]_vars

(* The main loop keeps turning and event handlers return.                  *)
FairSpec == Spec /\ WF_vars(LoopStep)
-----------------------------------------------------------------------------
(* Types of the window manager's state.                                    *)
TypeOK ==
    /\ children \in Seq(Window) /\ IsInjective(children)
    /\ {target, grab, pendingOpen, pendingClose} \subseteq Window \cup {NoWindow}
    /\ animator \in Animator \cup {NoAnimator}
    /\ ignoreInput \in BOOLEAN
    /\ idles \in Seq([func : Func, win : Window])
    /\ stack \in Seq([at : Frame, win : Window])
    /\ phase \in {"events", "idle", "paint"}
    /\ \A s \in {timers, created, closed, notified, freed} : s \subseteq Window

(* The windows that something is still going to be done with.              *)
Referenced == {children[i] : i \in 1 .. Len(children)}
              \cup {idles[i].win : i \in 1 .. Len(idles)}
              \cup {stack[i].win : i \in 1 .. Len(stack)}
              \cup timers
              \cup ({target, grab, pendingOpen, pendingClose, animator.win, animator.prev}
                      \ {NoWindow})

(* No idle, timer, pending slot, animator, event handler in progress or    *)
(* pointer of the window manager names a window that was freed.            *)
NothingDangles == Referenced \cap freed = {}

(* The window that gets the user's input is one of the open windows.       *)
FocusIsOpen == \A w \in {target, grab} \ {NoWindow} : Contains(children, w)

(* base/events.h: EVT_WINDOW_OPEN is triggered when the animation is done, *)
(* or in the next round of the loop; a window closed before that is        *)
(* excused.                                                                *)
OpenedIsNotified == \A w \in Window : w \in created ~> w \in notified \cup closed

(* A window that was closed is freed in the end.                           *)
ClosedIsFreed == \A w \in Window : w \in closed ~> w \in freed

(* Input that an animation shut out is let in again.                       *)
InputComesBack == []<>~ignoreInput
=============================================================================
