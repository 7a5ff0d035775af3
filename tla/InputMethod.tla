----------------------------- MODULE InputMethod -----------------------------
(***************************************************************************)
(* The soft keyboard: input_methods/input_method_default.inc and           *)
(* base/input_method.c, driven by the focus and blur events that           *)
(* widget_on_pointer_down sends to the edits of one window.                *)
(*                                                                         *)
(* A keyboard is a window.  It gets EVT_WINDOW_OPEN in an idle, or after   *)
(* an animation during which the window manager ignores input.  When an    *)
(* edit loses the focus the keyboard is closed in an idle, so that the     *)
(* next edit may reuse it.  A keyboard that would cover the edit pushes    *)
(* the window of the edit up.  Idles run last in, first out (IdleManager). *)
(*                                                                         *)
(* Presses wait for a keyboard that is opening: closing a window before it *)
(* was opened is the business of WindowManager.  Keys, candidates and      *)
(* suggested words are left out.                                           *)
(***************************************************************************)
EXTENDS Integers, Sequences, SequencesExt

CONSTANTS Edit,          \* edits of the window
          Numeric,       \* those that ask for the numeric keyboard
          Low,           \* those at the bottom of the window
          Other,         \* a widget of the window that is not an edit
          NoWidget,      \* NULL
          MaxKeyboard,   \* keyboards that exist at the same time
          DefaultHeight, \* of the keyboard for text
          NumericHeight, \* of the keyboard for numbers
          OncePerRound   \* the focus moves at most once per round of the loop

ASSUME InputMethodAssumption ==
    /\ Numeric \subseteq Edit /\ Low \subseteq Edit
    /\ Other \notin Edit /\ NoWidget \notin Edit \cup {Other}
    /\ MaxKeyboard \in Nat \ {0}
    /\ DefaultHeight \in Nat \ {0} /\ NumericHeight \in Nat \ {0}
    /\ OncePerRound \in BOOLEAN

VARIABLES im,        \* input_method_t: widget, keyboard, input_type, win, win_delta_y
          y,         \* widget_t.y of the window of the edits
          keyboards, \* what became of each keyboard window
          pushes,    \* keyboards with on_push_window registered
          idles,     \* idles that wait, the next one to run is the last
          focus,     \* the focused widget of the window
          phase      \* of the main loop

vars == <<im, y, keyboards, pushes, idles, focus, phase>>

NoKeyboard == 0
Keyboard == 1 .. MaxKeyboard
InputType == {"text", "number"}
Idle == [does : {"open", "close"}, keyboard : Keyboard, widget : Edit \cup {NoWidget}]

TypeOf(e) == IF e \in Numeric THEN "number" ELSE "text"
Height(type) == IF type = "number" THEN NumericHeight ELSE DefaultHeight

Init == /\ im = [widget |-> NoWidget, keyboard |-> NoKeyboard, input_type |-> "text",
                 win |-> FALSE, win_delta_y |-> 0]
        /\ y = 0
        /\ keyboards = [k \in Keyboard |-> "closed"]
        /\ pushes = {}
        /\ idles = << >>
        /\ focus = NoWidget
        /\ phase = "events"
-----------------------------------------------------------------------------
(* A press takes several calls of the input method; each is a function     *)
(* from the state s of input method and windows to the state after it.     *)
State == [im |-> im, keyboards |-> keyboards, pushes |-> pushes, idles |-> idles]

Becomes(s) == /\ im' = s.im /\ keyboards' = s.keyboards
              /\ pushes' = s.pushes /\ idles' = s.idles

Free(s) == {k \in Keyboard : /\ s.keyboards[k] = "closed"
                             /\ \A i \in 1 .. Len(s.idles) : s.idles[i].keyboard /= k}

(* The keyboard would hide the lower edge of the edit, where it is now.    *)
Covers(type, e) == e \in Low /\ y + Height(type) > 0

OpenKeyboard(s, type) ==
    LET k == CHOOSE k \in Free(s) : TRUE
        covered == Covers(type, s.im.widget)
    IN  [im |-> [s.im EXCEPT !.keyboard = k, !.input_type = type,
                             !.win = @ \/ covered,
                             !.win_delta_y = IF covered THEN y + Height(type) ELSE @],
         keyboards |-> [s.keyboards EXCEPT ![k] = "opening"],
         pushes |-> IF covered THEN s.pushes \cup {k} ELSE s.pushes,
         idles |-> Append(s.idles, [does |-> "open", keyboard |-> k, widget |-> NoWidget])]

(* Mutant: the keyboard of the other type is left open.                    *)
ShowKeyboardKeepsOld(s) ==
    LET type == TypeOf(s.im.widget)
    IN  IF s.im.keyboard /= NoKeyboard /\ s.im.input_type = type
        THEN s
        ELSE OpenKeyboard(s, type)

(* A keyboard of the right type is kept.  One of another type is closed    *)
(* at once, without an animation.                                          *)
ShowKeyboard(s) ==
    LET type == TypeOf(s.im.widget)
    IN  IF s.im.keyboard = NoKeyboard
        THEN OpenKeyboard(s, type)
        ELSE IF s.im.input_type = type
             THEN s
             ELSE OpenKeyboard([s EXCEPT !.keyboards[s.im.keyboard] = "closed",
                                         !.pushes = @ \ {s.im.keyboard}], type)

(* input_method_request, with a widget or with NULL.                       *)
Request(s, w) ==
    IF s.im.widget = w
    THEN s
    ELSE IF w /= NoWidget
         THEN ShowKeyboard([s EXCEPT !.im.widget = w])
         ELSE IF s.im.keyboard /= NoKeyboard
              THEN [s EXCEPT !.idles = Append(@, [does |-> "close", keyboard |-> s.im.keyboard,
                                                  widget |-> s.im.widget])]
              ELSE s

Blur(s) == IF focus \in Edit THEN Request(s, NoWidget) ELSE s

Focus(s, w) == IF w \in Edit THEN Request(s, w) ELSE s

Animating == \E k \in Keyboard : keyboards[k] \in {"opens", "closes"}

Opening == \E k \in Keyboard : keyboards[k] \in {"opening", "opens"}

(* widget_on_pointer_down of the window: blur, focus, then the press.      *)
Press(w) ==
    /\ phase = "events"
    /\ ~Animating /\ ~Opening
    /\ OncePerRound => idles = << >>
    /\ Free(State) \ {im.keyboard} /= {}
    /\ Becomes(Focus(IF w = focus THEN State ELSE Focus(Blur(State), w), w))
    /\ focus' = w
    /\ UNCHANGED <<y, phase>>

(* The loop turns to its idles once the events are dispatched.             *)
IdleDispatch == /\ phase = "events"
                /\ idles /= << >>
                /\ phase' = "idle"
                /\ UNCHANGED <<im, y, keyboards, pushes, idles, focus>>

(* EVT_WINDOW_OPEN of keyboard k; on_push_window removes itself.           *)
Opened(k) == /\ keyboards' = [keyboards EXCEPT ![k] = "open"]
             /\ y' = IF k \in pushes THEN y - im.win_delta_y ELSE y
             /\ pushes' = pushes \ {k}

(* The idle that window_manager_open_window left: the keyboard is opened   *)
(* now or after an animation.                                              *)
IdleOpen(k) == /\ \/ Opened(k)
                  \/ /\ keyboards' = [keyboards EXCEPT ![k] = "opens"]
                     /\ UNCHANGED <<y, pushes>>
               /\ UNCHANGED im

(* Mutant: the window is left where the keyboard pushed it.                *)
IdleCloseLeavesWindow(k, w) ==
    IF im.keyboard = k /\ im.widget = w
    THEN /\ keyboards' = [keyboards EXCEPT ![k] = "closes"]
         /\ im' = [im EXCEPT !.keyboard = NoKeyboard, !.widget = NoWidget, !.win = FALSE]
         /\ UNCHANGED <<pushes, y>>
    ELSE UNCHANGED <<im, y, keyboards, pushes>>

(* Mutant: the keyboard is closed although another edit took it over.      *)
IdleCloseAnyWidget(k, w) ==
    IF im.keyboard = k
    THEN /\ y' = IF im.win THEN y + im.win_delta_y ELSE y
         /\ keyboards' = [keyboards EXCEPT ![k] = "closes"]
         /\ im' = [im EXCEPT !.keyboard = NoKeyboard, !.widget = NoWidget, !.win = FALSE]
         /\ UNCHANGED pushes
    ELSE UNCHANGED <<im, y, keyboards, pushes>>

(* on_idle_close_keyboard, with input_method_default_restore_win_position. *)
IdleClose(k, w) ==
    IF im.keyboard = k /\ im.widget = w
    THEN /\ y' = IF im.win THEN y + im.win_delta_y ELSE y
         /\ keyboards' = [keyboards EXCEPT ![k] = "closes"]
         /\ im' = [im EXCEPT !.keyboard = NoKeyboard, !.widget = NoWidget, !.win = FALSE]
         /\ UNCHANGED pushes
    ELSE UNCHANGED <<im, y, keyboards, pushes>>

RunIdle == /\ phase = "idle"
           /\ idles /= << >>
           /\ LET idle == Last(idles)
              IN  \/ idle.does = "open" /\ IdleOpen(idle.keyboard)
                  \/ idle.does = "close" /\ IdleClose(idle.keyboard, idle.widget)
           /\ idles' = Front(idles)
           /\ UNCHANGED <<focus, phase>>

IdleDone == /\ phase = "idle"
            /\ idles = << >>
            /\ phase' = "events"
            /\ UNCHANGED <<im, y, keyboards, pushes, idles, focus>>

(* The last frame of the animation of keyboard k.                          *)
AnimationEnds(k) ==
    /\ phase = "events"
    /\ idles = << >>
    /\ \/ keyboards[k] = "opens" /\ Opened(k)
       \/ /\ keyboards[k] = "closes"
          /\ keyboards' = [keyboards EXCEPT ![k] = "closed"]
          /\ UNCHANGED <<y, pushes>>
    /\ UNCHANGED <<im, idles, focus, phase>>
-----------------------------------------------------------------------------
Loop == IdleDispatch \/ RunIdle \/ IdleDone \/ \E k \in Keyboard : AnimationEnds(k)

Next == Loop \/ \E w \in Edit \cup {Other} : Press(w)

Spec == Init /\ [][Next]_vars

(* The main loop goes on; nothing is assumed of the user.                  *)
FairSpec == Spec /\ WF_vars(Loop)
-----------------------------------------------------------------------------
(* Types of the state of the input method.                                 *)
TypeOK == /\ im \in [widget : Edit \cup {NoWidget}, keyboard : Keyboard \cup {NoKeyboard},
                     input_type : InputType, win : BOOLEAN, win_delta_y : Int]
          /\ y \in Int
          /\ keyboards \in [Keyboard -> {"opening", "opens", "open", "closes", "closed"}]
          /\ pushes \subseteq Keyboard
          /\ idles \in Seq(Idle)
          /\ focus \in Edit \cup {Other, NoWidget}
          /\ phase \in {"events", "idle"}

AtRest == phase = "events" /\ idles = << >> /\ ~Opening /\ ~Animating

(* No keyboard is left on the screen that the input method has lost: one   *)
(* that is opening or open is the one it would close.                      *)
NoOrphan ==
    \A k \in Keyboard : keyboards[k] \in {"opening", "opens", "open"} => k = im.keyboard

(* base/input_method.h: a request with a widget opens the input method, a  *)
(* request with NULL closes it.  So when the loop has nothing left to do,  *)
(* a keyboard of the right type is shown for the edit that has the focus,  *)
(* and none if no edit has it.                                             *)
KeyboardFollowsFocus ==
    AtRest => IF focus \in Edit
              THEN /\ im.widget = focus /\ im.keyboard /= NoKeyboard
                   /\ keyboards[im.keyboard] = "open" /\ im.input_type = TypeOf(focus)
              ELSE im.widget = NoWidget /\ im.keyboard = NoKeyboard

(* A window that a keyboard pushed up is back in its place when no         *)
(* keyboard is shown any more, provided that all keyboards are equally     *)
(* high.                                                                   *)
WindowComesBack ==
    AtRest /\ im.keyboard = NoKeyboard /\ DefaultHeight = NumericHeight => y = 0

(* An edit that gets the focus gets its keyboard, unless the focus moves   *)
(* on.                                                                     *)
FocusOpensKeyboard ==
    \A e \in Edit :
      focus = e ~> (focus /= e \/ \E k \in Keyboard : k = im.keyboard /\ keyboards[k] = "open")
=============================================================================
