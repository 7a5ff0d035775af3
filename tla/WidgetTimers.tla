---------------------------- MODULE WidgetTimers ----------------------------
(***************************************************************************)
(* Widgets that own timers: the repeat of base/button.c, the caret of      *)
(* base/edit.c, the delayed press of scroll_view/list_item.c, the frames   *)
(* of image_animation.c, the auto play of slide_view.c, and the animators  *)
(* of base/widget_animator.c.                                              *)
(*                                                                         *)
(* An owner stores the id of its timer and removes the timer by that id.   *)
(* timer_remove finds a timer that waits; one whose function is running is *)
(* in no array (TimerManager), and comes back if the function returns      *)
(* RET_REPEAT.  Handlers called from a timer function may show a dialog,   *)
(* whose loop fires other timers and dispatches events.  calls is the      *)
(* stack of the functions and of the button releases that wait for their   *)
(* handlers.                                                               *)
(*                                                                         *)
(* Durations are left out: any timer that waits may be due.  Ids are only  *)
(* compared, so the model numbers the timers of each owner by themselves,  *)
(* and takes a number again once it is stored nowhere; the code counts 32  *)
(* bits up.                                                                *)
(***************************************************************************)
EXTENDS Integers, Sequences, FiniteSets, SequencesExt, FiniteSetsExt

CONSTANTS Button,     \* buttons that repeat
          Edit,
          Item,       \* list items
          Image,      \* image animations
          Slide,      \* slide views
          Animated,   \* widgets that the application animates
          Animator,   \* animators that can exist at the same time
          None,       \* NULL
          Rounds,     \* calls of widget_animator_on_timer until it ends
          MaxNest,    \* bound on the nesting of functions that wait
          Patient     \* handlers leave the widget whose timer is running alone,
                      \* and nobody destroys a widget with a timer it forgot

Widget == Button \cup Edit \cup Item \cup Image \cup Slide
Owner == Widget \cup Animator
NoId == 0
MaxPress == 2         \* bound on the timers that one list item waits for
Id == 1 .. MaxPress + MaxNest + 3
Func == {"repeat", "caret", "press", "update", "play", "next", "animate", "delay", "up"}
Timer == [id : Id \cup {NoId}, func : Func, ctx : Owner]

ASSUME TimersAssumption == /\ None \notin Owner
                           /\ Edit \cap Button = {} /\ Item \cap (Button \cup Edit) = {}
                           /\ Image \cap (Button \cup Edit \cup Item) = {}
                           /\ Slide \cap (Button \cup Edit \cup Item \cup Image) = {}
                           /\ Animator \cap Widget = {}
                           /\ Animated \subseteq Widget
                           /\ Rounds \in Nat \ {0} /\ MaxNest \in Nat
                           /\ Patient \in BOOLEAN

VARIABLES alive,    \* widgets that are not freed
          anim,     \* the widget that an animator belongs to; None if it is freed
          left,     \* calls that an animator has left
          timer,    \* timer_id of widgets and animators
          waiting,  \* timers in the arrays of the timer manager
          calls,    \* functions that are running, innermost last
          pressed,  \* buttons that had a press and neither a release nor an abort
          focused   \* edits that have the focus

vars == <<alive, anim, left, timer, waiting, calls, pressed, focused>>

(* image_animation_on_open, which is called once, with auto_play: with a   *)
(* delay nobody knows the timer.                                           *)
ImageOpened(i) == [id |-> 1, func |-> "play", ctx |-> i]

(* The window with the widgets has just opened.                            *)
Init == /\ alive = Widget
        /\ anim = [a \in Animator |-> None]
        /\ left = [a \in Animator |-> 0]
        /\ timer = [o \in Owner |-> NoId]
        /\ \E delayed \in SUBSET Image : waiting = {ImageOpened(i) : i \in delayed}
        /\ calls = << >>
        /\ pressed = {}
        /\ focused = {}
-----------------------------------------------------------------------------
Stored(o) == {timer[o]} \cup {t.id : t \in {u \in waiting \cup Range(calls) : u.ctx = o}}

Fresh(o) == Min(Id \ Stored(o))

New(func, o) == [id |-> Fresh(o), func |-> func, ctx |-> o]

(* timer_remove(o->timer_id).                                              *)
Without(o) == {t \in waiting : ~(t.ctx = o /\ t.id = timer[o])}

Runs(func, o) == \E i \in DOMAIN calls : calls[i].func = func /\ calls[i].ctx = o

(* Owners whose functions or handlers are on the stack.                    *)
Held(w) == \E i \in DOMAIN calls : \/ calls[i].ctx = w
                                   \/ calls[i].ctx \in Animator /\ anim[calls[i].ctx] = w

(* Functions that call handlers of the application.                        *)
HandlerRuns == calls /= << >> => Last(calls).func \in {"repeat", "update", "animate", "up"}

(* if (timer_id) {timer_remove(timer_id); timer_id = 0;}                   *)
DropTimer(o) == /\ waiting' = Without(o)
                /\ timer' = [timer EXCEPT ![o] = NoId]

AddTimer(func, o) == /\ timer' = [timer EXCEPT ![o] = Fresh(o)]
                     /\ waiting' = waiting \cup {New(func, o)}
-----------------------------------------------------------------------------
MayPress(b) == /\ HandlerRuns /\ b \in alive
               /\ Patient => ~Runs("repeat", b)

(* button_on_event: a press starts the repeat anew, ...                    *)
ButtonDown(b) == /\ MayPress(b)
                 /\ timer' = [timer EXCEPT ![b] = Fresh(b)]
                 /\ waiting' = Without(b) \cup {New("repeat", b)}
                 /\ pressed' = pressed \cup {b}
                 /\ UNCHANGED <<alive, anim, left, calls, focused>>

(* ... a press that a scroll view takes over ends it, ...                  *)
ButtonAbort(b) == /\ MayPress(b)
                  /\ DropTimer(b)
                  /\ pressed' = pressed \ {b}
                  /\ UNCHANGED <<alive, anim, left, calls, focused>>

(* ... and so does a release, after the handlers of EVT_CLICK returned.    *)
ButtonUp(b) == /\ MayPress(b)
               /\ Len(calls) <= MaxNest
               /\ pressed' = pressed \ {b}
               /\ calls' = Append(calls, [id |-> NoId, func |-> "up", ctx |-> b])
               /\ UNCHANGED <<alive, anim, left, timer, waiting, focused>>

(* Mutant: the timer is not removed.                                       *)
UpReturnsKeepsTimer(b) == UNCHANGED <<alive, anim, left, timer, waiting>>

UpReturns(b) == /\ DropTimer(b)
                /\ UNCHANGED <<alive, anim, left>>

(* edit_on_event: a press after the focus starts the caret.                *)
EditDown(e) == /\ HandlerRuns /\ e \in alive
               /\ IF timer[e] = NoId THEN AddTimer("caret", e) ELSE UNCHANGED <<timer, waiting>>
               /\ focused' = focused \cup {e}
               /\ UNCHANGED <<alive, anim, left, calls, pressed>>

EditBlur(e) == /\ HandlerRuns /\ e \in focused
               /\ focused' = focused \ {e}
               /\ UNCHANGED <<alive, anim, left, timer, waiting, calls, pressed>>

(* Mutant: the caret blinks on.                                            *)
CaretReturnsRepeat(e, t) == /\ waiting' = waiting \cup {t}
                            /\ UNCHANGED <<alive, anim, left, timer>>

(* edit_update_caret.                                                      *)
CaretReturns(e, t) == /\ IF e \in focused
                         THEN waiting' = waiting \cup {t} /\ UNCHANGED timer
                         ELSE timer' = [timer EXCEPT ![e] = NoId] /\ UNCHANGED waiting
                      /\ UNCHANGED <<alive, anim, left>>

(* list_item_on_event: a press forgets the timer of the press before it.   *)
ItemDown(l) == /\ HandlerRuns /\ l \in alive
               /\ Cardinality({t \in waiting : t.ctx = l}) < MaxPress
               /\ AddTimer("press", l)
               /\ UNCHANGED <<alive, anim, left, calls, pressed, focused>>

ItemAbort(l) == /\ HandlerRuns /\ l \in alive
                /\ DropTimer(l)
                /\ UNCHANGED <<alive, anim, left, calls, pressed, focused>>

(* list_item_on_timer.                                                     *)
PressReturns(l) == /\ timer' = [timer EXCEPT ![l] = NoId]
                   /\ UNCHANGED <<alive, anim, left, waiting>>
-----------------------------------------------------------------------------
(* Mutant: image_animation_play does not look whether it is playing.       *)
PlayAgain(i) == AddTimer("update", i)

(* image_animation_play.                                                   *)
Play(i) == IF timer[i] = NoId THEN AddTimer("update", i) ELSE UNCHANGED <<timer, waiting>>

ImagePlay(i) == /\ HandlerRuns /\ i \in alive
                /\ Play(i)
                /\ UNCHANGED <<alive, anim, left, calls, pressed, focused>>

(* image_animation_pause, and image_animation_stop.                        *)
ImagePause(i) == /\ HandlerRuns /\ i \in alive
                 /\ Patient => ~Runs("update", i)
                 /\ DropTimer(i)
                 /\ UNCHANGED <<alive, anim, left, calls, pressed, focused>>

PlayReturns(i) == Play(i) /\ UNCHANGED <<alive, anim, left>>

(* image_animation_on_update: an animation that does not loop ends, and    *)
(* any animation does that has lost its image or its sequence.  That       *)
(* leaves the id of the timer as it is.                                    *)
UpdateReturns(t) == /\ waiting' \in {waiting, waiting \cup {t}}
                    /\ UNCHANGED <<alive, anim, left, timer>>
-----------------------------------------------------------------------------
FreeAnimators == {a \in Animator : anim[a] = None}

(* widget_animator_init and widget_animator_start, with a delay or not.    *)
Animate(a, w, func) == /\ anim' = [anim EXCEPT ![a] = w]
                       /\ left' = [left EXCEPT ![a] = Rounds]
                       /\ timer' = [timer EXCEPT ![a] = Fresh(a)]
                       /\ waiting' = waiting \cup {New(func, a)}

AnimatorStart(a, w) == /\ HandlerRuns /\ w \in alive
                       /\ a \in FreeAnimators
                       /\ \E func \in {"animate", "delay"} : Animate(a, w, func)
                       /\ UNCHANGED <<alive, calls, pressed, focused>>

(* widget_animator_destroy, called by the application.                     *)
AnimatorDestroy(a) == /\ HandlerRuns /\ anim[a] /= None
                      /\ Patient => \A i \in DOMAIN calls : calls[i].ctx /= a
                      /\ DropTimer(a)
                      /\ anim' = [anim EXCEPT ![a] = None]
                      /\ left' = [left EXCEPT ![a] = 0]
                      /\ UNCHANGED <<alive, calls, pressed, focused>>

(* widget_animator_on_delay_timer.                                         *)
DelayReturns(a) == /\ AddTimer("animate", a)
                   /\ UNCHANGED <<alive, anim, left>>

(* widget_animator_on_timer: another round, or the end of the animator.    *)
AnimateReturns(a, t) ==
    /\ UNCHANGED alive
    /\ \/ /\ left[a] > 1
          /\ left' = [left EXCEPT ![a] = @ - 1]
          /\ waiting' = waiting \cup {t}
          /\ UNCHANGED <<anim, timer>>
       \/ /\ left[a] <= 1
          /\ timer' = [timer EXCEPT ![a] = NoId]
          /\ anim' = [anim EXCEPT ![a] = None]
          /\ left' = [left EXCEPT ![a] = 0]
          /\ UNCHANGED waiting

(* slide_view_set_auto_play, on or off.                                    *)
SlideAutoPlay(s, on) ==
    /\ HandlerRuns /\ s \in alive
    /\ waiting' = Without(s) \cup IF on THEN {New("next", s)} ELSE {}
    /\ timer' = [timer EXCEPT ![s] = IF on THEN Fresh(s) ELSE NoId]
    /\ UNCHANGED <<alive, anim, left, calls, pressed, focused>>

(* slide_view_on_timer_next, as long as the model has an animator left.    *)
NextReturns(s, t) ==
    \/ /\ FreeAnimators = {}
       /\ waiting' = waiting \cup {t}
       /\ UNCHANGED <<alive, anim, left, timer>>
    \/ \E a \in FreeAnimators : /\ anim' = [anim EXCEPT ![a] = s]
                                /\ left' = [left EXCEPT ![a] = Rounds]
                                /\ timer' = [timer EXCEPT ![a] = Fresh(a)]
                                /\ waiting' = waiting \cup {New("animate", a), t}
                                /\ UNCHANGED alive
-----------------------------------------------------------------------------
(* Mutant: animators are not told that their widget dies.                  *)
DyingAlone(w) == {w}

(* A widget and the animators that listen to its EVT_DESTROY.              *)
Dying(w) == {w} \cup {a \in Animator : anim[a] = w}

(* widget_destroy: every owner removes the timer it knows, except list     *)
(* items, which have no destroy function.                                  *)
Destroy(w) ==
    /\ HandlerRuns /\ w \in alive
    /\ Patient => /\ ~Held(w)
                  /\ \A t \in waiting : t.ctx = w => t.func \notin {"press", "play"}
    /\ waiting' = {t \in waiting : \A o \in Dying(w) \ Item : t \in Without(o)}
    /\ timer' = [o \in Owner |-> IF o \in Dying(w) THEN NoId ELSE timer[o]]
    /\ anim' = [a \in Animator |-> IF a \in Dying(w) THEN None ELSE anim[a]]
    /\ left' = [a \in Animator |-> IF a \in Dying(w) THEN 0 ELSE left[a]]
    /\ alive' = alive \ {w}
    /\ pressed' = pressed \ {w}
    /\ focused' = focused \ {w}
    /\ UNCHANGED calls

(* timer_manager_dispatch takes t out of its array and calls its function, *)
(* in the outer loop or in that of a dialog which a handler shows.         *)
Fire(t) == /\ HandlerRuns /\ Len(calls) <= MaxNest
           /\ waiting' = waiting \ {t}
           /\ calls' = Append(calls, t)
           /\ UNCHANGED <<alive, anim, left, timer, pressed, focused>>

(* The innermost function returns; RET_REPEAT puts its timer back.         *)
Return == /\ calls /= << >>
          /\ LET t == Last(calls)
                 o == t.ctx
             IN  \/ t.func = "repeat" /\ waiting' = waiting \cup {t}
                                      /\ UNCHANGED <<alive, anim, left, timer>>
                 \/ t.func = "caret" /\ CaretReturns(o, t)
                 \/ t.func = "press" /\ PressReturns(o)
                 \/ t.func = "update" /\ UpdateReturns(t)
                 \/ t.func = "play" /\ PlayReturns(o)
                 \/ t.func = "next" /\ NextReturns(o, t)
                 \/ t.func = "animate" /\ AnimateReturns(o, t)
                 \/ t.func = "delay" /\ DelayReturns(o)
                 \/ t.func = "up" /\ UpReturns(o)
          /\ calls' = Front(calls)
          /\ UNCHANGED <<pressed, focused>>
-----------------------------------------------------------------------------
FireOf(o) == \E t \in waiting : t.ctx = o /\ Fire(t)

Next == \/ \E b \in Button : ButtonDown(b) \/ ButtonAbort(b) \/ ButtonUp(b)
        \/ \E e \in Edit : EditDown(e) \/ EditBlur(e)
        \/ \E l \in Item : ItemDown(l) \/ ItemAbort(l)
        \/ \E i \in Image : ImagePlay(i) \/ ImagePause(i)
        \/ \E s \in Slide, on \in BOOLEAN : SlideAutoPlay(s, on)
        \/ \E a \in Animator : AnimatorDestroy(a) \/ \E w \in Animated : AnimatorStart(a, w)
        \/ \E w \in Widget : Destroy(w)
        \/ \E o \in Owner : FireOf(o)
        \/ Return

Spec == Init /\ [][Next]_vars

(* A timer that is due is called by some dispatch (TimerManager), also in  *)
(* the loops of dialogs; functions return.                                 *)
FairSpec == Spec /\ WF_vars(Return) /\ \A e \in Edit : SF_vars(FireOf(e))
-----------------------------------------------------------------------------
(* Types of the timers and their owners.                                   *)
TypeOK == /\ alive \subseteq Widget
          /\ anim \in [Animator -> Widget \cup {None}]
          /\ left \in [Animator -> 0 .. Rounds]
          /\ timer \in [Owner -> Id \cup {NoId}]
          /\ waiting \subseteq Timer
          /\ calls \in Seq(Timer) /\ Len(calls) <= MaxNest + 1
          /\ pressed \subseteq Button
          /\ focused \subseteq Edit

Exists(o) == IF o \in Animator THEN anim[o] /= None /\ anim[o] \in alive ELSE o \in alive

(* A timer is never called, and no function is running, for a widget or an *)
(* animator that was freed: destroying a widget takes the timers of its    *)
(* animators along.                                                        *)
NoTimerOfTheDead == /\ \A t \in waiting : Exists(t.ctx)
                    /\ \A i \in DOMAIN calls : Exists(calls[i].ctx)

(* A timer that waits is the one whose id its owner stores, so that the    *)
(* owner can still remove it, and is not doubled by the next press or the  *)
(* next play.  Excepted are the two that the code forgets: the press of a  *)
(* list item and the delayed play.                                         *)
OwnersKnowTheirTimers ==
    \A t \in waiting : t.func \notin {"press", "play"} => timer[t.ctx] = t.id

(* button.h: a button repeats EVT_CLICK while it is pressed.  After the    *)
(* release, or the abort, of the press no repeat is waiting any more.      *)
RepeatStopsOnRelease ==
    \A t \in waiting : t.func = "repeat" => t.ctx \in pressed \/ Runs("up", t.ctx)

(* The caret of an edit that lost the focus stops.                         *)
CaretStops == \A e \in Edit : [](e \notin focused => <>(timer[e] = NoId \/ e \in focused))
=============================================================================
