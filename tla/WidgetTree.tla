----------------------------- MODULE WidgetTree -----------------------------
(***************************************************************************)
(* The widgets of a window and the routing of input among them:            *)
(* base/widget.c, find_target of base/widget_vtable.c, and the widgets     *)
(* that grab the pointer while they are pressed (button, dragger, slider,  *)
(* scroll view, slide view, switch).                                       *)
(*                                                                         *)
(* An input event goes down the tree by calls that end in a call for a     *)
(* child, so that one record is the whole call stack.  Between two steps   *)
(* of it a handler of the application may change the tree.  It may not     *)
(* free what the call is using; that discipline is the caller's.           *)
(*                                                                         *)
(* Positions are left out: a press may hit any child or none, disabled     *)
(* children being those that it does not hit.  A widget is not disabled    *)
(* while it holds the grab.  The order of the children matters to drawing  *)
(* only.                                                                   *)
(***************************************************************************)
EXTENDS Naturals, FiniteSets

CONSTANTS Widget,
          Root,        \* the window
          NoWidget,    \* NULL
          TreeParent,  \* parents when the window opens; NoWidget if detached
          Grabber,     \* widgets that grab the pointer while they are pressed
          Scroll,      \* those that may turn a press into a drag
          Switch,      \* those that end a press like switch.c
          Patient      \* the application leaves widgets that grab in the tree

ASSUME WidgetAssumption ==
    /\ Root \in Widget /\ NoWidget \notin Widget
    /\ TreeParent \in [Widget -> Widget \cup {NoWidget}] /\ TreeParent[Root] = NoWidget
    /\ \A S \in SUBSET Widget : S /= {} => \E w \in S : TreeParent[w] \notin S
    /\ Scroll \subseteq Grabber /\ Switch \subseteq Grabber /\ Grabber \subseteq Widget \ {Root}
    /\ Patient \in BOOLEAN

VARIABLES alive,      \* widgets that are not freed
          parent,     \* widget_t.parent, and its inverse widget_t.children
          target,     \* widget_t.target
          grab,       \* widget_t.grab_widget
          keyTarget,  \* widget_t.key_target
          focused,    \* widgets with widget_t.focused set
          pressed,    \* grabbers that had a press and not yet its release
          aborted,    \* grabbers whose press became a drag of a scroll view
          call        \* the event under way: op, the widget w that has it, its
                      \* local target t, the end k of a walk that sends leave or
                      \* blur events, and pc

treeVars == <<alive, parent>>
pointers == <<target, grab, keyTarget>>
vars == <<treeVars, pointers, focused, pressed, aborted, call>>

Link == [Widget -> Widget \cup {NoWidget}]
Op == {"down", "move", "up", "key", "menu"}

Children(w) == {c \in alive : parent[c] = w}

(* x and what is below it.                                                 *)
Subtree(x) == {w \in Widget : \A S \in SUBSET Widget :
                 x \in S /\ (\A c \in Widget : parent[c] \in S => c \in S) => w \in S}

Above(w) == {a \in Widget \ {w} : w \in Subtree(a)}

(* The child of a that w is or is below.                                   *)
Toward(a, w) == CHOOSE c \in Widget : parent[c] = a /\ w \in Subtree(c)

Init == /\ alive = Widget
        /\ parent = TreeParent
        /\ target = [w \in Widget |-> NoWidget]
        /\ grab = [w \in Widget |-> NoWidget]
        /\ keyTarget = [w \in Widget |-> NoWidget]
        /\ focused = {}
        /\ pressed = {}
        /\ aborted = {}
        /\ call = [op |-> "up", w |-> Root, t |-> NoWidget, k |-> NoWidget, pc |-> "rest"]
-----------------------------------------------------------------------------
(* Mutant: only the parent of the widget learns of the grab.               *)
GrabbedParentOnly(w) == [a \in Widget |-> IF a = parent[w] THEN w ELSE grab[a]]

(* widget_grab goes up to the window.                                      *)
Grabbed(w) == [a \in Widget |-> IF a \in Above(w) THEN Toward(a, w) ELSE grab[a]]

(* Mutant: only the parent of the widget is told that the grab is over.    *)
UngrabbedParentOnly(w) ==
    [a \in Widget |-> IF a = parent[w] /\ grab[a] = w THEN NoWidget ELSE grab[a]]

(* widget_ungrab goes up as long as the grab leads to the widget.          *)
Ungrabbed(w) ==
    [a \in Widget |->
       IF a \in Above(w) /\ \A b \in Above(w) \cap Subtree(a) : grab[b] = Toward(b, w)
       THEN NoWidget ELSE grab[a]]

(* What on_event of a grabber does.  switch.c keeps the grab of an aborted *)
(* press; the others give it back.                                         *)
OnEvent(op, w) ==
    CASE op = "down" /\ w \in Grabber ->
           /\ grab' = Grabbed(w)
           /\ pressed' = pressed \cup {w}
           /\ aborted' = aborted \ {w}
      [] op = "up" /\ w \in Grabber ->
           /\ grab' = IF w \in Switch /\ w \in aborted THEN grab ELSE Ungrabbed(w)
           /\ pressed' = pressed \ {w}
           /\ UNCHANGED aborted
      [] op = "move" /\ w \in Scroll /\ w \in pressed ->
           /\ aborted' \in {aborted, aborted \cup ({target[w]} \cap Grabber)}
           /\ UNCHANGED <<grab, pressed>>
      [] OTHER -> UNCHANGED <<grab, pressed, aborted>>

(* widget_on_pointer_down, move and up, widget_on_keydown and              *)
(* widget_dispatch_to_target start at the window ...                       *)
Begin(op) == /\ call.pc = "rest"
             /\ call' = [op |-> op, w |-> Root, t |-> NoWidget, k |-> NoWidget, pc |-> "self"]
             /\ UNCHANGED <<treeVars, pointers, focused, pressed, aborted>>

(* ... and hand the event first to the widget itself.                      *)
Self == /\ call.pc = "self"
        /\ OnEvent(call.op, call.w)
        /\ call' = [call EXCEPT !.pc = "find"]
        /\ UNCHANGED <<treeVars, target, keyTarget, focused>>

(* widget_find_target, or the pointer that a key or a menu event follows.  *)
Targets(op, w) == CASE op = "key" -> {keyTarget[w]}
                    [] op = "menu" -> {target[w]}
                    [] OTHER -> IF grab[w] /= NoWidget THEN {grab[w]}
                                ELSE Children(w) \cup {NoWidget}

(* The call for the child is the last thing that the call for w does.      *)
Descend(t) ==
    /\ target' = IF call.op \in {"down", "move"} THEN [target EXCEPT ![call.w] = t] ELSE target
    /\ call' = IF t = NoWidget
               THEN [call EXCEPT !.pc = "rest", !.t = NoWidget, !.k = NoWidget]
               ELSE [call EXCEPT !.pc = "self", !.w = t, !.t = NoWidget, !.k = NoWidget]

(* A press on a widget without the focus first blurs the old key target,   *)
(* a move to another child first leaves the old target.                    *)
FindWalks(t) == \/ call.op = "down" /\ t /= NoWidget /\ t \notin focused
                \/ call.op = "move" /\ t /= target[call.w]

Find == /\ call.pc = "find"
        /\ \E t \in Targets(call.op, call.w) :
             \/ /\ FindWalks(t)
                /\ call' = [call EXCEPT !.pc = "walk", !.t = t,
                              !.k = IF call.op = "down" THEN keyTarget[call.w] ELSE target[call.w]]
                /\ UNCHANGED <<target, keyTarget>>
             \/ /\ ~FindWalks(t)
                /\ keyTarget' = IF call.op = "down" /\ t /= NoWidget
                                THEN [keyTarget EXCEPT ![call.w] = t] ELSE keyTarget
                /\ Descend(t)
        /\ UNCHANGED <<treeVars, grab, focused, pressed, aborted>>

(* Mutant: widget_dispatch_blur_event stops at the first widget.           *)
WalkOnStops == NoWidget

(* The next widget to blur or to leave.                                    *)
WalkOn == IF call.op = "down" THEN keyTarget[call.k] ELSE target[call.k]

(* widget_dispatch_blur_event and widget_dispatch_leave_event: the next    *)
(* pointer is read after the handlers of the event have run.               *)
Walk == /\ call.pc = "walk"
        /\ call.k /= NoWidget
        /\ focused' = IF call.op = "down" THEN focused \ {call.k} ELSE focused
        /\ call' = [call EXCEPT !.pc = "walked"]
        /\ UNCHANGED <<treeVars, pointers, pressed, aborted>>

Walked == /\ call.pc = "walked"
          /\ call' = [call EXCEPT !.pc = "walk", !.k = WalkOn]
          /\ UNCHANGED <<treeVars, pointers, focused, pressed, aborted>>

(* EVT_FOCUS or EVT_POINTER_ENTER of the new target.                       *)
Enter == /\ call.pc = "walk"
         /\ call.k = NoWidget
         /\ call' = [call EXCEPT !.pc = "arrive"]
         /\ UNCHANGED <<treeVars, pointers, focused, pressed, aborted>>

Arrive == /\ call.pc = "arrive"
          /\ IF call.op = "down"
             THEN /\ keyTarget' = [keyTarget EXCEPT ![call.w] = call.t]
                  /\ focused' = focused \cup {call.t}
             ELSE UNCHANGED <<keyTarget, focused>>
          /\ Descend(call.t)
          /\ UNCHANGED <<treeVars, grab, pressed, aborted>>
-----------------------------------------------------------------------------
Held == IF call.pc = "rest" THEN {} ELSE {call.w, call.t, call.k}

(* What a handler or a timer of the application may take out of the tree.  *)
MayTake(x) == /\ x \in alive \ {Root}
              /\ Subtree(x) \cap Held = {}
              /\ Patient /\ parent[x] /= NoWidget => grab[parent[x]] /= x

(* widget_remove_child: a pointer of the parent of x that leads to x.      *)
ForgetsChild(link, x) ==
    [w \in Widget |-> IF w = parent[x] /\ link[w] = x THEN NoWidget ELSE link[w]]

(* A field of widgets that are filled with zeros before they are freed.    *)
Zeroed(link, gone) == [w \in Widget |-> IF w \in gone THEN NoWidget ELSE link[w]]

(* widget_destroy_only, of all widgets of gone.                            *)
Free(gone) == /\ alive' = alive \ gone
              /\ parent' = Zeroed(parent, gone)
              /\ focused' = focused \ gone
              /\ pressed' = pressed \ gone
              /\ aborted' = aborted \ gone

RemoveChild(x) == /\ MayTake(x)
                  /\ parent[x] /= NoWidget
                  /\ target' = ForgetsChild(target, x)
                  /\ grab' = ForgetsChild(grab, x)
                  /\ keyTarget' = ForgetsChild(keyTarget, x)
                  /\ parent' = [parent EXCEPT ![x] = NoWidget]
                  /\ UNCHANGED <<alive, focused, pressed, aborted, call>>

(* Mutant: the parent keeps its key target.                                *)
DestroyKeepsKeyTarget(x) == /\ MayTake(x)
                            /\ target' = Zeroed(ForgetsChild(target, x), Subtree(x))
                            /\ grab' = Zeroed(ForgetsChild(grab, x), Subtree(x))
                            /\ keyTarget' = Zeroed(keyTarget, Subtree(x))
                            /\ Free(Subtree(x))
                            /\ UNCHANGED call

(* widget_destroy: widget_remove_child, then widget_destroy_only, which    *)
(* frees what is below as well.                                            *)
Destroy(x) == /\ MayTake(x)
              /\ target' = Zeroed(ForgetsChild(target, x), Subtree(x))
              /\ grab' = Zeroed(ForgetsChild(grab, x), Subtree(x))
              /\ keyTarget' = Zeroed(ForgetsChild(keyTarget, x), Subtree(x))
              /\ Free(Subtree(x))
              /\ UNCHANGED call

(* widget_destroy_children, called by the application: it leaves target,   *)
(* grab_widget and key_target of w alone, so that a careful caller waits   *)
(* until they are NULL.                                                    *)
DestroyChildren(w) ==
    /\ w \in alive
    /\ target[w] = NoWidget /\ grab[w] = NoWidget /\ keyTarget[w] = NoWidget
    /\ Children(w) /= {}
    /\ \A c \in Children(w) : Subtree(c) \cap Held = {}
    /\ LET gone == Subtree(w) \ {w}
       IN  /\ target' = Zeroed(target, gone)
           /\ grab' = Zeroed(grab, gone)
           /\ keyTarget' = Zeroed(keyTarget, gone)
           /\ Free(gone)
    /\ UNCHANGED call

(* widget_add_child, of a widget that is new or was removed.  A widget     *)
(* that is added with its focus flag set never gets EVT_FOCUS again.       *)
AddChild(w, c) ==
    /\ w \in alive /\ c \in alive \ {Root}
    /\ parent[c] = NoWidget
    /\ w \notin Subtree(c)
    /\ Patient => c \notin focused
    /\ parent' = [parent EXCEPT ![c] = w]
    /\ UNCHANGED <<alive, pointers, focused, pressed, aborted, call>>
-----------------------------------------------------------------------------
Dispatch == Self \/ Find \/ Walk \/ Walked \/ Enter \/ Arrive

Application == \/ \E x \in Widget : RemoveChild(x) \/ Destroy(x) \/ DestroyChildren(x)
               \/ \E w, c \in Widget : AddChild(w, c)

Next == (\E op \in Op : Begin(op)) \/ Dispatch \/ Application

Spec == Init /\ [][Next]_vars
-----------------------------------------------------------------------------
(* Types of the widgets' fields and of the event under way.                *)
TypeOK == /\ alive \subseteq Widget
          /\ parent \in Link /\ target \in Link /\ grab \in Link /\ keyTarget \in Link
          /\ focused \subseteq Widget
          /\ pressed \subseteq Grabber
          /\ aborted \subseteq Grabber
          /\ call \in [op : Op, w : Widget, t : Widget \cup {NoWidget},
                       k : Widget \cup {NoWidget},
                       pc : {"rest", "self", "find", "walk", "walked", "arrive"}]

(* widget.h: target, grab_widget and key_target are children of the widget *)
(* that receive its events.  However handlers change the tree, each is     *)
(* NULL or a live child, and the widgets that the event under way is going *)
(* to touch are not freed.                                                 *)
TargetsAreChildren ==
    /\ \A w \in alive : {target[w], grab[w], keyTarget[w]} \subseteq Children(w) \cup {NoWidget}
    /\ Held \subseteq alive \cup {NoWidget}

(* Widgets with the focus form a path from the window down, each of them   *)
(* the key target of its parent, except while the old path is blurred.     *)
FocusIsAPath ==
    call.op /= "down" \/ call.pc \notin {"walk", "walked"} =>
      \A w \in focused \cap alive :
         parent[w] /= NoWidget =>
           keyTarget[parent[w]] = w /\ (parent[w] = Root \/ parent[w] \in focused)

(* A widget that grabbed the pointer when it was pressed gets the release, *)
(* wherever the pointer is by then.                                        *)
ReleaseReachesGrabber == call.pc = "rest" /\ call.op = "up" => pressed \cap alive = {}

(* Once nothing is pressed any more nothing is grabbed either: a grab that *)
(* stays would take the next press away from the widget under it.          *)
NoGhostGrab == call.pc = "rest" /\ pressed = {} => \A w \in alive : grab[w] = NoWidget
=============================================================================
