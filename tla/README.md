# TLA+ models of AWTK on SylixOS

AWTK is a GUI toolkit for embedded systems; this repository is its port to
SylixOS. The models here cover what is hard to test in it: the queue between
the input thread and the GUI thread, the main loop and the loops that modal
dialogs nest in it, the callback managers (idles, timers, event emitters) whose
callbacks change them while they run, the life of windows between request,
animation and destruction, and, below the windows, the routing of input through
a tree of widgets that handlers change, the soft keyboard, and the timers that
widgets own.

Paths below are relative to `src/sylixos_awtk/src/awtk/src/`, except
`awtk-port/`, which is `src/awtk-port/`.

## 1. The system

### Parts, their state and their operations

| part | source | state | operations |
|---|---|---|---|
| event queue | `base/event_queue.c` | ring: `r`, `w`, `full`, slots | create, send, recv, replace_last |
| shared queue | `main_loop/main_loop_simple.c`, `platforms/pc/mutex.c` | ring + mutex | queue_event (any thread), recv_event (GUI thread) |
| input thread | `awtk-port/input_thread.c`, `awtk-port/main_loop_sylixos.c` | `run_info_t.pressed`, `req` | read the mouse, classify, post |
| main loop | `main_loop/main_loop_simple.c`, `base/main_loop.c` | `running` | run (timers, events, idles, paint, sleep), quit, destroy |
| idle manager | `base/idle.c` | two arrays, `active`, `next_idle_id` | add, remove, remove_all, dispatch, destroy |
| timer manager | `base/timer.c` | two arrays, `active`, start and duration of each timer | add, remove, dispatch, next_time |
| emitter | `base/emitter.c` | linked list, `curr_iter`, `remove_curr_iter`, `enable` | on, off, dispatch, enable, disable, deinit |
| window manager | `base/window_manager.c`, `base/window_animator.c`, `window_animators/` | children, target, grab, animator, `ignore_user_input`, `pressed`, two pending slots | open, close, paint, dispatch_input_event |
| dialogs and quitting | `base/dialog.c`, `awtk.c` | a saved `running` per `dialog_modal` | dialog_modal, dialog_quit, tk_run, tk_quit |
| widget tree | `base/widget.c`, `base/widget_vtable.c` | parent, children, `target`, `grab_widget`, `key_target`, `focused` | pointer, key and menu events; grab, ungrab; add, remove, destroy |
| input method | `input_methods/input_method_default.inc`, `base/input_method.c` | widget, keyboard, input type, the window it pushed up | request, close in an idle, push and restore the window |
| timers of widgets | `base/button.c`, `base/edit.c`, `ext_widgets/scroll_view/list_item.c`, `ext_widgets/image_animation/`, `ext_widgets/slide_view/` | a `timer_id` per widget | press, release, abort, focus, play, pause, destroy |
| animators | `base/widget_animator.c` | widget, `timer_id`, rounds left | start, delay, timer, destroy |

### How they interact

The input thread and any caller of `idle_queue` or `timer_queue` post requests
into the queue under the loop's mutex. The GUI thread takes them out: pointer
events go to the window manager, the other requests become idles and timers.
Everything else is on the GUI thread, yet far from sequential. A callback may
call back into the manager that called it, and one that calls `dialog_modal`
runs the whole main loop before it returns. So a dispatch in progress has local
variables that were read before, and are used after, arbitrary other steps.
The window manager hands input to the window, whose widgets pass it on to a
child each. A press moves the focus, the focus opens and closes the keyboard,
which is a window again, through idles. Widgets and animators keep the id of a
timer whose function gets a plain pointer to them.

### What is hard

* Threads inside the ring buffer; a full queue, whose refusal nobody looks at.
* State read before a callback and used after it (emitter, idle, timer).
* Nested loops that share one flag and one pair of arrays.
* Work handed to idles, timers, pending slots and animators that still hold a
  window when it is closed.
* Handlers that add, remove and destroy widgets while an event is on its way
  through the tree, and grabs and focus that must survive this.
* A timer whose function is running is in no array, so that removing it has no
  effect; timers whose owner died.
* 32 bit time.
* Things that must happen in the end: an accepted request runs, a closed window
  is freed, ignored input comes back, a loop that was quit ends.

The `hazards` list of `PROJECT.json` has each of these at its line.

## 2. Modules

| module | models | composed of |
|---|---|---|
| `BoundedFifo` | abstract specification: a bounded first-in first-out queue with refusals | |
| `EventQueue` | the ring, one operation per step | refines `BoundedFifo` |
| `LockedQueue` | `queue_event` / `recv_event`, one load or store per step | extends `EventQueue`, refines `BoundedFifo` |
| `InputPipeline` | input thread, other threads, main loop, input half of the window manager | uses the atomic queue that `LockedQueue` justifies |
| `IdleManager` | `base/idle.c` | |
| `TimerManager` | `base/timer.c` | |
| `Emitter` | `base/emitter.c` | |
| `WindowManager` | life of a window | the LIFO order of idles is that of `IdleManager` |
| `ModalLoop` | nested loops, quitting, and the closing of dialogs | idles as in `IdleManager`, animator and slot as in `WindowManager` |
| `InputMethod` | the soft keyboard and the focus that drives it | idles as in `IdleManager`, windows as in `WindowManager` |
| `WidgetTree` | input routing, focus and grabs among the widgets of a window | receives what `InputPipeline` dispatches |
| `WidgetTimers` | widgets and animators that own timers | timers as in `TimerManager`, loops of dialogs as in `ModalLoop` |
| `MC*` | one per specification, instantiated by the `.cfg` files | |
| `*Proofs` | theorems (section 4) | extend one or two specifications and `TLAPS` |

Definitions named "Mutant" in their comment are plausible bugs of the code
(a missing reset, an off-by-one, a dropped guard). No specification uses them;
each is there to show that some property notices that bug.

### EventQueue and LockedQueue

`r`, `w`, `full` and `events` are the fields of `event_queue_t`. `reply` records
what the last operation returned, so that the abstract queue can speak about
results. `Contents` reads the abstract queue off the ring: `Count` slots from
`r` on.

`LockedQueue` splits an operation into lock, test, copy, advance, mark, unlock.
The mutex is the only thing that separates threads. An operation takes effect
when it advances its index. Between that step and the update of the flag a
queue that just became full is not flagged yet; `FullSoon` accounts for this in
the refinement mapping.

### InputPipeline

`infoPressed` is the input thread's idea of the button, `wmPressed` the window
manager's. `gpc` follows `main_loop_simple_run`: timers, events, idles, a frame
(`paint`, and `ended` between the last frame of an animation and its end), sleep.
Application callbacks run in all of these but the plain frame and the sleep
proper: the last frame of an animation dispatches `EVT_WINDOW_OPEN`, and then
closes a window whose close had to wait, which dispatches `EVT_WINDOW_CLOSE`.
`Callback` is what each of them may do: start an animation (`ignoreInput`), quit
the loop, and show a modal dialog. Then `stack` keeps where the callback was
called from and the value of `running` that `dialog_modal` saved, and a nested
loop starts over with the same queue. So the handler of a release can be waiting
while `wm->pressed`, which is cleared after it (`window_manager.c:612`), is still
set. `refused` and `held` are history: what the full queue turned away, and how
deep the loop was nested that handed the widgets the press they hold.

`MainLoopDestroy` is `main_loop_simple_reset`. Afterwards a post is refused,
because `queue_event` is NULL. A thread that is inside `queue_event` at that
very moment works on freed memory; this is listed as a hazard and not modelled.

### IdleManager and TimerManager

The two arrays are sequences of ids, pushed and popped at the end. The id of a
new idle is one that no allocated idle has (the code counts up, and only ever
compares ids of allocated idles), so that additions never end; `MaxId` bounds the
idles that are allocated at the same time. `stack` has
one frame per dispatch in progress, with the array that it captured; a callback
that runs a nested loop pushes a second frame. `owed` is history: what waited
(or was due) when the dispatch began and was not served yet. `nested` is history
too: a dispatch began inside another one. The arrays are then swapped twice, an
idle or timer that repeats is left on the array that is not active, and the next
dispatch does not see it. So the promises about what a dispatch serves
(`DispatchCallsAll`, `WaitingIsServed`, `DispatchFiresAllDue`,
`NextTimeIsEarliest`) are stated for histories without nesting, while
`OnePlaceEach` and `NeverEarly` hold with it. `WaitingIsServed` needs a second
proviso: what an idle function adds goes on the array that the dispatch is popping
from the end (`idle.c:111`, `166`), so a function that adds an idle each time it is
called keeps the dispatch in its loop for ever, and older idles starve. The property
assumes that idle functions come to an end of adding idles; events and timers may go
on. `clock` is true time; the code sees
`clock % Wrap`.

### Emitter

The list is modelled with its `next` pointers. `live` is the set of items that
are allocated, `Listed` what a walk along the pointers meets: the least set that
holds the head and the successors of its allocated members. Following or writing through a pointer to a freed item sets
`fault` and ends the behaviour. `allowed` is what handlers do, one of the
`Disciplines`, chosen at the start. The passing run has the four that the code
supports: handlers that register handlers and unregister others; that remove
themselves; that also stop the dispatch; that register handlers and dispatch
further events. `OffTakesEffect` excepts the third (see section 3). `emitter_deinit` happens
between dispatches only.

### WindowManager

Opening a window leaves an idle, closing one may start an animation and leaves
an idle, and the last frame of an animation takes up what waited. Handlers run
in the middle of `window_manager_close_window`, of the open idles and of the
last frame; `stack` holds what continues when they return. A window is an
object that is opened once; `OpenHint` and `CloseHint` are the windows that have an
animation for opening and for closing, which the code asks for separately. Two
constants say how the application behaves:

* `Patient`: it closes a window only after that window got `EVT_WINDOW_OPEN`,
  not within the 100 ms in which `on_idle_invalidate` is outstanding, and not
  from a handler of `EVT_WINDOW_CLOSE`. Without each of these restrictions the
  code uses a freed window; the hazards say where.
* `OneAtATime`: it makes at most one request while an animation is running.
  Without it requests are lost (section 3).

`key_target` is assigned and cleared with `target` and is not a variable of its
own. Grabs by widgets inside a window are in `WidgetTree`; handlers of
`EVT_DESTROY` are left out.

### ModalLoop

`stack` has one record per `main_loop_run` in progress: the dialog, the value of
`running` that `dialog_modal` saved, the phase, the array of idles that its
`idle_dispatch` captured, and the call of the window manager that waits for
handlers (`EVT_WINDOW_OPEN` in the last frame of an animation, `EVT_WINDOW_CLOSE`).
Application code, and so further dialogs and quits, may run in timers, events and
idles and in these two calls. A dialog that returned is closed by an idle. If an
animation is running the close goes to `pendingClose`, the one slot, and is taken up
after the last frame; otherwise the dialog is animated or goes to the idle that
destroys it. The animator and the slot are shared with all other windows, which
`Other` stands for: the application may animate it, and close it during an animation,
at any time. A close that is overwritten in the slot (`window_manager.c:198-200`) is
recorded in `lost`: that dialog is never closed. `lost`, `quit` (the loop was quit
while it was innermost), `held` (dialogs that returned to the handler that is running)
and `asked` (`tk_quit` was called) are history. The idles of one array run in any
order here, which includes the order of `IdleManager`. The timer of `tk_quit` has
duration 0, so it fires in the next timer phase of the innermost loop.

### InputMethod

A press on an edit sends blur to the old focus and focus and press to the new
one, and each of them calls `input_method_request`. `Request`, `ShowKeyboard`
and `OpenKeyboard` are functions from the state before a call to the state after
it, so that `Press` is their composition. A keyboard goes through opening (an
idle), its animation, open, and its closing animation. `idles` is the stack on
which open and close idles wait; they run last in first out. `y` is how far the
window was pushed up. `OncePerRound` says that the focus moves at most once per
round of the loop, as it does when a user taps.

### WidgetTree

An event goes down the tree by tail calls: the record `call` holds the widget
that has the event, its local `target`, and the end of a walk that sends leave or
blur events. Between any two of its steps a handler may add, remove or destroy
widgets that the call does not hold. `Grabbed` and `Ungrabbed` are the recursions
of `widget_grab` and `widget_ungrab` up to the window. `OnEvent` is what button,
slider, dragger, scroll view and switch do on press and release. A press may hit
any child: positions are left out. `Patient` says that the application leaves
widgets that hold the grab in the tree and does not add widgets whose focus flag
is still set.

### WidgetTimers

`timer` is the `timer_id` of each owner, `waiting` what is in the arrays of the
timer manager, `calls` the functions that are running, innermost last. Only
functions that call handlers of the application can be interrupted by other
steps. Ids are numbered per owner and reused when nobody stores them. `Patient`
excludes what the code does not survive: a release or a pause of the widget whose
timer function is running, and destroying a widget that is on the stack or has a
timer it does not know (a list item within 50 ms of a press, an image whose
delayed play waits).

## 3. Runs

Runs that pass:

| run | states | shows |
|---|---|---|
| `event_queue` | 380 | the ring is a bounded FIFO; capacity 3, two events: every index wraps, the queue is empty and full at every index |
| `locked_queue` | 36,609 | the same with three threads interleaving at every access; capacity 2 |
| `input_pipeline` | 2.77 M | with a dialog shown from any callback, those of the last frame included: pressed is cleared in the end, a press that widgets hold gets its release, also during animations, and before the next press; a request runs once the mouse rests; capacity 2 |
| `idle_manager` | 22,932 | dispatches nested three deep, additions without end: each idle in exactly one place; without nesting all that waited are called, and none waits for ever if idle functions stop adding idles |
| `timer_manager` | 1.24 M | each timer in one place, none early; without nesting all due timers fire and `next_time` is never late |
| `emitter` | 446,538 | four disciplines of handlers: no freed item is used, each handler is called once per dispatch, `emitter_off` takes effect |
| `window_manager` | 62,532 | home, page, dialog, popup: nothing dangles, focus is open; windows are notified and freed, input comes back |
| `modal_loop` | 791,873 | two dialogs, one animator, one slot: the flag is each loop's own; a dialog is closed and freed once, and is freed in the end unless its close was overwritten in the slot; a loop that was quit ends |
| `input_method` | 369 | four edits, two input types, high and low: no keyboard is orphaned, it follows the focus, the window comes back, and a focused edit gets its keyboard |
| `widget_tree` | 112,352 | window, box, button and scroll view, rearranged by handlers: targets are live children, focus is a path, a grabber gets its release, no grab is left over |
| `widget_timers` | 649,348 | one widget of each kind and an animator: no timer outlives its owner, none is doubled or forgotten, a button stops repeating, a caret stops blinking |

One run ends in a counterexample, against a sentence of a header:

| run | sentence | what the code does |
|---|---|---|
| `emitter_on_remove` | `emitter.h:102`: RET_REMOVE removes the handler | after `emitter_on` in the first handler it is freed and stays linked |

### Where the passing runs end

The constants and histories that the passing runs exclude are not free: with them
TLC finds a counterexample. Each line is one change of a `.cfg`.

| change | property that fails | code |
|---|---|---|
| `TimerManager.cfg` with `MaxId = 1`, `MaxDepth = 1`, `Duration = {1}`, `MaxTime = 5`, `Wrap = 4` | `DispatchFiresAllDue` | `timer.c:175` compares absolute 32 bit times; `timer.h:144` says that functions whose time has come are called |
| `WindowManager.cfg` with `OneAtATime = FALSE` | `ClosedIsFreed` | `window_manager.c:199`: the second close during an animation overwrites the first; `window.h:99` says that RET_OK is success |
| `WindowManager.cfg` with `Patient = FALSE` | `NothingDangles` | `window_manager.c:112`, `137`, `203` |
| `IdleManager.cfg` with `PROPERTY NobodyStarves` | `NobodyStarves` | `idle.c:111`, `166`: an idle function that adds an idle each time it is called is always the next to be called |
| `ModalLoop.cfg` with `PROPERTY TkQuitEndsMain` | `TkQuitEndsMain` | `dialog.c:179` restores the flag that the timer of `tk_quit` cleared; `awtk.h:54` says that the main loop ends |
| `ModalLoop.cfg` with `INVARIANT AccessibleUntilEventEnds` | `AccessibleUntilEventEnds` | `dialog.c:182`: the loop of a second dialog that the same handler shows runs the idles that close and free the first; `dialog.h:130` says that a dialog can be accessed until the event ends |
| `InputMethod.cfg` with `OncePerRound = FALSE` | `KeyboardFollowsFocus` | `input_method_default.inc:169`: an edit that is focused again in the same round finds itself in `im->widget`, and the idle closes its keyboard; `input_method.h:265` says that a widget opens the input method |
| `WidgetTree.cfg` with `Switch = {item}` | `NoGhostGrab` | `switch.c:138`: an aborted press is not ungrabbed |
| `WidgetTree.cfg` with `Patient = FALSE` | `NoGhostGrab` | `widget.c:263`: only the parent forgets a removed grabber |
| `WidgetTimers.cfg` with `Patient = FALSE` | `RepeatStopsOnRelease`, `OwnersKnowTheirTimers`, `NoTimerOfTheDead` | `button.c:47`, `image_animation.c:232`, `list_item.c:50`, `image_animation.c:131`, `widget_animator.c:87` |

`ReturnedIsFreed` of `ModalLoop` excuses the dialogs in `lost`. TLC gets there in 14
steps: a dialog returns during the animation of another window, its close waits in
the slot, and a second close takes the slot.

### Other places where a comment and the code disagree

Seen while modelling; each follows from reading the lines, has no run of its
own, and bounds what the passing runs claim.

* `awtk-port/input_thread.c:63` prints "continue" on a short read and returns
  `RET_FAIL`, which ends the thread.
* `idle.h:67` and `timer.h:75` say that functions run after the paint; both are
  dispatched before it.
* `idle.h:124` says that a dispatch calls all idles; after a nested dispatch it
  leaves out those that repeated (`nested` above).
* `idle.h:113` promises a call of `on_destroy`; nothing reads that field.
* `timer.h:153` promises the number of timers; `timer_count` returns the size of
  one of the two arrays.
* `emitter.h:126`: after a handler returned `RET_STOP`, `curr_iter` stays set and
  `emitter_off` of that item only sets a flag.
* `emitter.h:69` says that removing the running handler is deferred; a nested
  dispatch resets `curr_iter`, and the item is freed at once.
* `events.h:232`: two requests during one animation can leave an open in its
  pending slot without `EVT_WINDOW_OPEN`.
* `dialog.h:139`: `dialog_quit` of a covered dialog ends the innermost one.
* `image_animation.h:162` promises that play plays; after the end of an animation
  that does not loop `timer_id` is still set and play does nothing.
* `input_method_default.inc:107`: with keyboards of different heights the window
  is restored by the last offset only; `WindowComesBack` assumes equal heights.

### Bounds

`Capacity` 2 or 3 instead of 20: what the ring tells apart is empty, partly
filled, full and the wrap of either index, all of which happen from 2 on; the
proofs cover every capacity. `MaxId`, `MaxItem`, `MaxDepth`, `MaxTime` cap
counters and are named in the guards. Three timers give one that is
running and one on each array; the idle manager has four at a time, and any number
in the course of time. `MaxItem` 4 gives an item before, at and after the
one being dispatched and one added meanwhile. `MaxDepth` 3 gives a dispatch
that is both inner and outer (timers have one inside another). `Wrap` stands for 2^32: the passing runs give it
a value that their clock does not reach (the code has 49.7 days until then). `Duration` 2 lets other steps fall before,
between and after the frames of an animation. Four windows cover the kinds that
the code tells apart (the first one, a normal one with an animation, a dialog,
a popup that grabs). `InputPipeline` has one request and one nested loop, since
what a second one adds is what `ModalLoop` and the proofs, which have no such
bound, are about. `ModalLoop` has two dialogs: one below the other, or one after the
other in a handler that still holds the first; with `Other` they make three windows
that compete for the animator and the slot. `Frames` 1 is one frame before the last,
in which requests meet an animation. `InputMethod` has four edits, one for each combination of type
and height in the window, and three keyboards: one open, one opening, one in its
closing animation. `WidgetTree` has a grabber two levels deep, which is the least
for a grab to pass an ancestor, and a scroll view beside it that widgets can be
moved into. In `WidgetTimers`, `MaxNest` 1 lets a function be interrupted by
another one, `MaxPress` 2 lets a list item forget a timer, and `Rounds` 2 lets an
animator be between two of its calls. Deadlock is checked where the system runs for ever; it is
off where a bound or the end of the application stops it.

### Fairness

* `InputPipeline`: weak fairness of the GUI thread as a whole (`recv_event` does
  not wait, the sleep is bounded, painting ends) and of a post in progress. No
  fairness of the mouse or of other threads. `AcceptedRuns` assumes that the
  mouse comes to rest, since the loop drains the queue to its end before it goes
  on; the code has no bound on that.
* `IdleManager`: weak fairness of dispatching, which the main loop does in every
  round; callbacks return. That idle functions stop adding idles is a hypothesis of
  `WaitingIsServed`, and not of the specification.
* `WindowManager`, `ModalLoop`: weak fairness of the loop's steps, including
  the return of handlers. Nothing is assumed of users: a dialog may stay open
  for ever, which the properties excuse explicitly.
* `InputMethod`: weak fairness of the loop (idles, frames of an animation); none of
  the user.
* `WidgetTimers`: functions return, and strong fairness of the timer of an edit.
  A timer that waits is due again and again, but while functions without handlers
  run nothing fires, so that weak fairness would say less than the dispatch
  guarantees.

## 4. Proofs

TLAPS checks all of these, for every value of the constants allowed by the
assumptions next to the constants, and under the hypotheses in the last column.
`MainLoopProofs` is about `EventQueue`, `LockedQueue` and `ModalLoop`,
`HandlerProofs` about `Emitter` and `InputMethod`, `WindowProofs` about
`WindowManager`; the others are about the module in their name. So that two
specifications can be extended together, those of the ring and of the emitter call
their parts `RingInit`, `EmitterInit` and so on.

| theorem | says | inductive invariant | hypotheses |
|---|---|---|---|
| `MainLoopProofs!TypeCorrect`, `FullCorrect` | indices in range; `FullOnlyWhenMet` | `RingInv` | |
| `MainLoopProofs!RingImplementsFifo` | `ImplementsFifo`, the ring refines `BoundedFifo` | `RingInv` | |
| `MainLoopProofs!MutexCorrect`, `LockedTypeCorrect` | mutual exclusion; types | `LockedInv` | |
| `MainLoopProofs!LockedImplements` | `LockedImplementsFifo`, the shared ring refines `BoundedFifo` | `SharedInv` | |
| `InputPipelineProofs!PipelineTypeCorrect` | types, queue within its capacity | `PipelineType` | |
| `InputPipelineProofs!NeverStuckCorrect` | `NeverStuckPressed` | `PressInv` | |
| `InputPipelineProofs!PressesAlternateCorrect` | `PressesAlternate`, an action property | `PressInv`, `AlternateInv` | |
| `InputPipelineProofs!ReleaseReachesCorrect` | `ReleaseReachesWidgets`, an action property | `HeldInv` | |
| `HandlerProofs!EmitterTypeCorrect`, `NoUseAfterFreeCorrect`, `CallsEachOnceCorrect`, `OffTakesEffectCorrect` | types; `NoUseAfterFree`; `CallsEachOnce`; `OffTakesEffect` | `EmitterInv` | `SafeDisciplines` |
| `IdleManagerProofs!IdleTypeCorrect`, `IdleOnePlaceCorrect` | types; `OnePlaceEach` | `IdleInv` | |
| `IdleManagerProofs!DispatchCallsAllCorrect` | `DispatchCallsAll` | `IdleInv`, `Settled` | |
| `TimerManagerProofs!TimerTypeCorrect`, `TimerOnePlaceCorrect` | types; `OnePlaceEach` | `TimerInv` | |
| `TimerManagerProofs!NextTimeCorrect` | `NextTimeIsEarliest` | `TimerInv`, `Settled` | |
| `TimerManagerProofs!NeverEarlyCorrect` | `NeverEarly` | `TimerInv`, `Timely` | `NoWrap` |
| `TimerManagerProofs!FiresAllDueCorrect` | `DispatchFiresAllDue` | `TimerInv`, `Timely`, `Settled`, `OwedDue` | `NoWrap` |
| `WindowProofs!WindowTypeCorrect`, `NothingDanglesCorrect`, `FocusOpenCorrect` | types; `NothingDangles`; `FocusIsOpen` | `WindowInv` | `Patient` |
| `MainLoopProofs!ModalTypeCorrect`, `FlagCorrect`, `ClosedOnceCorrect` | types; `FlagIsPerLoop`; `ClosedOnce` | `ModalInv` | |
| `HandlerProofs!InputMethodTypeCorrect`, `NoOrphanCorrect`, `WindowComesBackCorrect` | types; `NoOrphan`; `WindowComesBack` | `KeyboardInv` | |
| `HandlerProofs!FollowsCorrect` | `KeyboardFollowsFocus` | `KeyboardInv` | `OncePerRound` |
| `WidgetTreeProofs!WidgetTypeCorrect`, `TargetsCorrect` | types; `TargetsAreChildren` | `TreeInv` | |
| `WidgetTreeProofs!FocusCorrect` | `FocusIsAPath` | `FocusInv` | `Patient` |
| `WidgetTreeProofs!ReleaseCorrect` | `ReleaseReachesGrabber` | `GrabInv` | `Patient` |
| `WidgetTreeProofs!NoGhostCorrect` | `NoGhostGrab` | `GrabInv` | `Patient`, `Switch = {}` |
| `WidgetTimersProofs!TimersTypeCorrect`, `NoTimerOfTheDeadCorrect`, `OwnersKnowCorrect`, `RepeatStopsCorrect` | types; `NoTimerOfTheDead`; `OwnersKnowTheirTimers`; `RepeatStopsOnRelease` | `TimersInv` | `Patient` |

The hypotheses are those of the runs. `Patient`, `OncePerRound` and `Switch = {}`
are constants that the `.cfg` files set; section 3 has the counterexample of
each. `NoWrap` says that no deadline reaches the end of the 32 bit clock.
`SafeDisciplines` says that handlers of an emitter keep to one of: returning
`RET_REMOVE`, unregistering themselves and stopping the dispatch; registering
handlers and unregistering others; registering handlers and dispatching. The
disciplines of the passing run are among these. Outside lie a new handler and a
nested dispatch that meet a removal, which the code does not survive
(`emitter_on_remove`, and `emitter.h:69` in section 3). `OneAtATime` is not needed
for safety.

The assumptions next to the constants that proofs use beyond types: `Capacity > 1`;
the widgets of the initial tree form a forest; the kinds of owners of timers are
disjoint; there is at least one type of event; `Main` stands for no dialog.

*The ring.* `FullOnlyWhenMet` makes the two tests of the code exact
(`TestsAreExact`): "not full" is `Count < Capacity`, "not empty" is `Count > 0`.
Then `SendAppends`, `RecvTakesHead` and `ReplaceLastOverwrites` compute
`Contents'` for each operation, by cases on whether the index wraps.

*The shared ring.* `SharedInv` says what a thread that holds the mutex may still
rely on: the outcome of its test (`TestStillHolds`), the slot it copied
(`CopyStillHolds`), and that the flag is out of step with the indices only between
the advance and the update of the flag by a receiver (`FlagLags`). The advance of an
index is then the abstract operation, and all other steps stutter, including the
update of the flag, for which the mapping looks ahead (`FullSoon`).

*Never stuck.* `NeverStuckPressed` is not inductive: it says nothing about a
press that is still in the queue. `PressInv` adds that every press in the queue
is followed there by a release or is the last word of the thread, that a press
about to be posted comes from a pressed thread, and that a pressed window
manager has a release ahead of it, the button down, or the handler of a release
waiting on the stack. It holds until a release is refused.

*Release reaches.* `HeldInv` says that widgets hold a press only while the window
manager is pressed, that the loop which handed it to them is still on the stack,
and that no handler of a release waits in it or inside it: its return would clear
`pressed` under them.

*Presses alternate.* `AlternateInv` says that between two presses in the queue there
is a release (`PressesSeparated`), that while the window manager is pressed a release
comes before the first of them (`ReleaseComesFirst`), and that what the input thread
is about to post fits behind the last (`PostsBehindRelease`). It holds until a release
is refused; a refused press does no harm.

*The emitter.* `emitter_on` puts an item at the head and gives it the next id, so
that the list is sorted by id and goes through all items that are allocated
(`Sorted`). "Linked and allocated" and "ahead of the dispatch" become statements
about numbers: what a dispatch has yet to call are the items of its type below its
own (`Ahead`). `Nested` says that every dispatch but the innermost is inside a
handler of an item that is still there, and `OneDeep` that without nesting
`curr_iter` is the item whose handler runs; the latter is what makes deferring the
removal of that item right, and what a nested dispatch destroys.

*One place each.* `Placed` says of both arrays that they repeat nothing, share
nothing with each other or with the functions that run, and that together these
are all there is. The lemmas on sequences say what pushing, popping and
`array_remove` do to the set of members.

*What a dispatch serves.* `Settled` says that without nesting at most one dispatch
is in progress and that between dispatches the array that is not active is empty,
so that `next_time` sees every timer. What a dispatch owes lies in the array that it
empties (`Owes`, a part of `Settled` for idles, and `OwedDue` for timers, which adds
that it was due when the dispatch started, so that no test passes over it). When
that array is empty nothing is owed.

*Never early.* As long as no deadline reaches the end of the 32 bit clock
(`NoWrap`), the start times that the code keeps are the true ones and the time a
dispatch read lies in the past (`Timely`), so that the test of the code implies
that the duration has passed, also for the stale time of an outer dispatch.

*Windows.* `NothingDangles` needs to know for whoever holds a window where that
window is in its life. `JobsFit`, `CallsFit`, `PendingFit`, `AnimatorFits` and
`TimersFit` say this for the idles, the continuations of handlers, the pending
slots, the animator and the timers: the window of an open idle is a child that was
not notified yet, that of a destroy idle is a child no longer and in no other idle,
and so on; `Lives` says how these sets are included in each other. `Shapely` says in
which order continuations can lie on the stack.

*The shared flag.* `FlagIsPerLoop` relates the flag, or the value saved by the
dialog above, to the loop's own history. `ModalInv` adds that the bottom loop is
`tk_run`'s and all others belong to dialogs.

*Closed once.* `InOnePlace` says that each dialog is new, in a loop, in a close or
destroy idle of one array, in the handlers of its `EVT_WINDOW_CLOSE`, in the slot, in
the animator, freed or lost, and nowhere else (`At`). `ModalInv` also needs that
opening animations are never those of a returned dialog (`OpensOther`): the end of
one frees nothing. There is one lemma per action; steps that leave a dialog where it
is use `KeptStays`.

*The keyboard.* `Sound` says that the keyboard on the screen is the one the input
method has and which idles may concern it; `Follows` that it is the one of the
focused edit and no idle will close it, or that no edit has the focus and an idle
will; `Pushed` that the window is up by the height of a keyboard exactly while
`im->win` is set. Each is carried through the calls of a press one by one, as
statements about the states between them.

*The tree.* `TargetsAreChildren` is inductive together with two facts: freed
widgets are detached, and the local target of the event under way is a child. It
needs neither `Patient` nor any shape of the tree, not even that it has no cycles.
Focus and grabs do need the latter. `Forest` (every set of widgets has a member
whose parent is outside) is preserved because `AddChild` does not put a widget below
itself, and gives what induction over the tree would: a set that goes up with every
widget reaches the window. `FocusInv` adds where the old path of the focus is cut
while it is blurred, `GrabInv` that the way to a pressed widget is grabbed, except
behind a release that is under way, that without switches no other way is, and that
the event under way is on it.

*Timers of widgets.* `TimersInv` says which functions belong to which kind of owner
(`Kinds`, for which the kinds must be disjoint), that the id an owner stores is that
of its timer, waiting or running (`KnownIds`), that it has at most one (`OneEach`),
and that a repeat which is running belongs to a pressed button, or to a release that
it interrupts and that is going to remove it (`RepeatRuns`). `Few` bounds the timers
that a list item has forgotten, so that there is always an id left.

Only model-checked: the liveness properties, which rest on fairness and ENABLED,
out of the prover's reach (`AcceptedRuns`, `WaitingIsServed`, `OpenedIsNotified`,
`ClosedIsFreed`, `InputComesBack`, `ReturnedIsFreed`, `QuitEnds`,
`FocusOpensKeyboard`, `CaretStops`). Every invariant, both action properties and both
refinements that the passing runs check are proved.

## 5. Not modelled

Layout, properties, the drawing of widgets and the physics of scrolling, canvas,
LCD, blending, fonts and images (pixels and continuous data); assets, UI and XML
loaders, theme and locale (tables filled at start-up); the engines and suggestions
of input methods (dictionaries), what the code does when an allocation fails (such as
`input_method_default.inc:186`, which then closes the keyboard at once and leaves the
window pushed up); `emitter_deinit` called by a handler of that emitter; and the destruction of an edit while
`im->widget` points to it; in `widget_on_pointer_down` the exception for keyboards
(`widget.c:929`); slide views that start to animate between press and release
(`slide_view.c:206`); array and string utilities (sequences here);
`idle_set_on_destroy` and `timer_set_on_destroy` (fields nothing reads),
`timer_count`, `timer_manager_deinit`; `main_loop_post_pointer_event` and
`main_loop_post_key_event`, which nothing calls in this port.

`src/sylixos_base` is the SylixOS operating system with its own vendored
libraries (file systems, network, TLS), which makes up most of the lines of the
repository; like the `3rd` directory and the demos it is not this program's logic
and no part of it is modelled. Of it the models use only that a mutex excludes
and that a read of the mouse may fail.

## 6. Plan

In this order, the most important first:

1. `LockedQueue` with `main_loop_simple_reset`: the end of the application while
   another thread posts.
2. `WindowManager` with `ModalLoop`: the opening of dialogs, with its pending slot and
   the order of its idles, below nested loops.
3. `InputMethod` with `WidgetTree`: edits that are destroyed while the keyboard is
   open.
4. `TimerManager`: deinit; `main_loop_sleep` with `next_time`, and that no timer is
   later than a round of the loop.
5. Proofs: that `InputPipeline`, whose queue is atomic, refines `BoundedFifo`, so that
   what `LockedQueue` is proved to be is what it uses.
