-------------------------- MODULE WidgetTreeProofs --------------------------
(***************************************************************************)
(* Proofs that the pointers which route input in a window always lead to   *)
(* live children, for any tree of widgets, however the application changes *)
(* it while an event is on its way down; that the focus is a path from the *)
(* window down; that a release reaches the widget which grabbed the        *)
(* pointer, and that no grab is left behind.                               *)
(***************************************************************************)
EXTENDS WidgetTree, TLAPS

(* A set of widgets that holds the children of its members.                *)
Closed(S) == \A c \in Widget : parent[c] \in S => c \in S

LEMMA SubtreeDef ==
    ASSUME NEW x \in Widget, NEW S \in SUBSET Widget, x \in S, Closed(S)
    PROVE  Subtree(x) \subseteq S
BY DEF Subtree, Closed

LEMMA SubtreeSelf ==
    ASSUME NEW x \in Widget
    PROVE  x \in Subtree(x) /\ Subtree(x) \subseteq Widget
BY DEF Subtree

LEMMA SubtreeClosed ==
    ASSUME NEW x \in Widget
    PROVE  Closed(Subtree(x))
<1> SUFFICES ASSUME NEW c \in Widget, parent[c] \in Subtree(x)
             PROVE  c \in Subtree(x)
    BY DEF Closed
<1> SUFFICES ASSUME NEW S \in SUBSET Widget, x \in S,
                    \A d \in Widget : parent[d] \in S => d \in S
             PROVE  c \in S
    BY DEF Subtree
<1>1. parent[c] \in S
      BY SubtreeDef DEF Closed
<1>2. QED BY <1>1

(* Apart from its top a subtree holds the parents of its widgets.          *)
LEMMA SubtreeParent ==
    ASSUME NEW x \in Widget, NEW c \in Subtree(x), c /= x
    PROVE  parent[c] \in Subtree(x)
<1> SUFFICES ASSUME parent[c] \notin Subtree(x) PROVE FALSE
    OBVIOUS
<1> DEFINE S == Subtree(x) \ {c}
<1>1. x \in S /\ S \in SUBSET Widget
      BY SubtreeSelf
<1>2. Closed(S)
  <2> SUFFICES ASSUME NEW d \in Widget, parent[d] \in S PROVE d \in S
      BY DEF Closed
  <2>1. d \in Subtree(x)
        BY SubtreeClosed DEF Closed
  <2>2. d /= c
        OBVIOUS
  <2>3. QED BY <2>1, <2>2
<1> HIDE DEF S
<1>3. Subtree(x) \subseteq S
      BY <1>1, <1>2, SubtreeDef
<1>4. QED BY <1>3 DEF S

(* What is below a is below a child of a.                                  *)
LEMMA BelowChild ==
    ASSUME NEW w \in Widget, NEW a \in Above(w)
    PROVE  \E c \in Widget : parent[c] = a /\ w \in Subtree(c)
<1> DEFINE S == {a} \cup {v \in Widget : \E c \in Widget : parent[c] = a /\ v \in Subtree(c)}
<1>1. a \in Widget /\ a /= w /\ w \in Subtree(a)
      BY DEF Above
<1>2. S \in SUBSET Widget /\ a \in S
      BY <1>1
<1>3. Closed(S)
  <2> SUFFICES ASSUME NEW d \in Widget, parent[d] \in S PROVE d \in S
      BY DEF Closed
  <2>1. CASE parent[d] = a
        BY <2>1, SubtreeSelf
  <2>2. CASE parent[d] /= a
    <3>1. PICK c \in Widget : parent[c] = a /\ parent[d] \in Subtree(c)
          BY <2>2
    <3>2. d \in Subtree(c)
          BY <3>1, SubtreeClosed DEF Closed
    <3>3. QED BY <3>1, <3>2
  <2>3. QED BY <2>1, <2>2
<1>4. w \in S
  <2> HIDE DEF S
  <2>1. QED BY <1>1, <1>2, <1>3, SubtreeDef
<1>5. QED BY <1>1, <1>4

LEMMA TowardChild ==
    ASSUME NEW w \in Widget, NEW a \in Above(w)
    PROVE  /\ Toward(a, w) \in Widget /\ parent[Toward(a, w)] = a
           /\ w \in Subtree(Toward(a, w))
BY BelowChild DEF Toward

(* What is below a widget of a subtree is in the subtree.                  *)
LEMMA SubtreeNested ==
    ASSUME NEW x \in Widget, NEW y \in Subtree(x)
    PROVE  Subtree(y) \subseteq Subtree(x)
<1>1. y \in Widget /\ Subtree(x) \in SUBSET Widget
      BY SubtreeSelf
<1>2. QED BY <1>1, SubtreeClosed, SubtreeDef

(* Of two subtrees that meet one holds the other.                          *)
LEMMA SubtreesNest ==
    ASSUME NEW x \in Widget, NEW y \in Widget, NEW w \in Subtree(x), w \in Subtree(y)
    PROVE  x \in Subtree(y) \/ y \in Subtree(x)
<1> SUFFICES ASSUME x \notin Subtree(y), y \notin Subtree(x) PROVE FALSE
    OBVIOUS
<1> DEFINE S == Subtree(x) \ Subtree(y)
<1>1. x \in S /\ S \in SUBSET Widget
      BY SubtreeSelf
<1>2. Closed(S)
  <2> SUFFICES ASSUME NEW d \in Widget, parent[d] \in S PROVE d \in S
      BY DEF Closed
  <2>1. d \in Subtree(x)
        BY SubtreeClosed DEF Closed
  <2>2. d \in Subtree(y) => d = y
        BY SubtreeParent
  <2>3. QED BY <2>1, <2>2
<1> HIDE DEF S
<1>3. Subtree(x) \subseteq S
      BY <1>1, <1>2, SubtreeDef
<1>4. QED BY <1>3 DEF S

(* Every set of widgets has one whose parent is not in the set: nothing is *)
(* its own ancestor.                                                       *)
Forest == \A S \in SUBSET Widget : S /= {} => \E w \in S : parent[w] \notin S

LEMMA ParentNotBelow ==
    ASSUME Forest, NEW x \in Widget
    PROVE  parent[x] \notin Subtree(x)
<1>1. Subtree(x) \in SUBSET Widget /\ x \in Subtree(x)
      BY SubtreeSelf
<1>2. PICK w \in Subtree(x) : parent[w] \notin Subtree(x)
      BY <1>1 DEF Forest
<1>3. w = x
      BY <1>2, SubtreeParent
<1>4. QED BY <1>2, <1>3

LEMMA SubtreesDiffer ==
    ASSUME Forest, NEW x \in Widget, NEW y \in Subtree(x), x \in Subtree(y)
    PROVE  x = y
<1> SUFFICES ASSUME x /= y PROVE FALSE
    OBVIOUS
<1>1. y \in Widget /\ parent[y] \in Subtree(x)
      BY SubtreeSelf, SubtreeParent
<1>2. parent[y] \in Subtree(y)
      BY <1>1, SubtreeNested
<1>3. QED BY <1>1, <1>2, ParentNotBelow

(* w is below one child of a only, the one that Toward names.              *)
LEMMA OneChildToward ==
    ASSUME Forest, NEW w \in Widget, NEW c \in Widget, NEW d \in Widget,
           parent[c] = parent[d], w \in Subtree(c), w \in Subtree(d)
    PROVE  c = d
<1>1. ASSUME NEW x \in Widget, NEW y \in Widget, parent[x] = parent[y], x \in Subtree(y)
      PROVE  x = y
  <2> SUFFICES ASSUME x /= y PROVE FALSE
      OBVIOUS
  <2>1. parent[y] \in Subtree(y)
        BY <1>1, SubtreeParent
  <2>2. QED BY <2>1, ParentNotBelow
<1>2. c \in Subtree(d) \/ d \in Subtree(c)
      BY SubtreesNest
<1>3. QED BY <1>1, <1>2

LEMMA ChildBelow ==
    ASSUME NEW a \in Widget, NEW c \in Widget, parent[c] = a
    PROVE  c \in Subtree(a) /\ Subtree(c) \subseteq Subtree(a)
<1>1. c \in Subtree(a)
      BY SubtreeSelf, SubtreeClosed DEF Closed
<1>2. QED BY <1>1, SubtreeNested

(* A child that has w below it or is w, seen from its parent.              *)
LEMMA TowardIs ==
    ASSUME Forest, NEW w \in Widget, NEW c \in Widget, parent[c] \in Widget, w \in Subtree(c)
    PROVE  parent[c] \in Above(w) /\ Toward(parent[c], w) = c
<1>1. w \in Subtree(parent[c])
      BY ChildBelow
<1>2. parent[c] /= w
      BY ParentNotBelow
<1>3. parent[c] \in Above(w)
      BY <1>1, <1>2 DEF Above
<1> DEFINE e == Toward(parent[c], w)
<1>4. e \in Widget /\ parent[e] = parent[c] /\ w \in Subtree(e)
      BY <1>3, TowardChild
<1> HIDE DEF e
<1>5. e = c
      BY <1>4, OneChildToward
<1>6. QED BY <1>3, <1>5 DEF e
-----------------------------------------------------------------------------
(* Freed widgets are not in the tree, and the window is its top.           *)
DeadDetached == /\ \A w \in Widget \ alive : parent[w] = NoWidget
                /\ Root \in alive /\ parent[Root] = NoWidget

(* The event under way: the local target is a child, and the walk has a    *)
(* widget to blur or to leave.                                             *)
Routed == /\ call.pc \in {"walk", "walked", "arrive"} =>
               /\ call.t \in Children(call.w) \cup {NoWidget}
               /\ call.op = "down" => call.t /= NoWidget
          /\ call.pc = "walked" => call.k /= NoWidget

TreeInv == TypeOK /\ DeadDetached /\ TargetsAreChildren /\ Routed

(* Pointers that lead to children, or nowhere.                             *)
LeadsDown(link) == \A w \in alive : link[w] \in Children(w) \cup {NoWidget}

LEMMA TreeInit == Init => TreeInv
<1> SUFFICES ASSUME Init PROVE TreeInv
    OBVIOUS
<1>1. TypeOK
      BY WidgetAssumption DEF Init, TypeOK, Link, Op
<1>2. QED BY <1>1, WidgetAssumption DEF Init, TreeInv, DeadDetached, TargetsAreChildren, Routed,
                                       Held, Children

LEMMA LinksLeadDown ==
    TargetsAreChildren <=> /\ LeadsDown(target) /\ LeadsDown(grab) /\ LeadsDown(keyTarget)
                           /\ Held \subseteq alive \cup {NoWidget}
BY DEF TargetsAreChildren, LeadsDown

LEMMA GrabbedLeadsDown ==
    ASSUME TreeInv, NEW w \in Widget
    PROVE  Grabbed(w) \in Link /\ LeadsDown(Grabbed(w))
<1>1. \A a \in Above(w) : Toward(a, w) \in Widget /\ parent[Toward(a, w)] = a
      BY TowardChild
<1>2. \A a \in Above(w) : Toward(a, w) \in Children(a)
  <2> SUFFICES ASSUME NEW a \in Above(w) PROVE Toward(a, w) \in Children(a)
      OBVIOUS
  <2>1. a \in Widget /\ a /= NoWidget
        BY WidgetAssumption DEF Above
  <2>2. Toward(a, w) \in alive
        BY <1>1, <2>1 DEF TreeInv, DeadDetached
  <2>3. QED BY <1>1, <2>2 DEF Children
<1>3. grab \in Link /\ LeadsDown(grab) /\ alive \subseteq Widget
      BY LinksLeadDown DEF TreeInv, TypeOK
<1>4. QED BY <1>1, <1>2, <1>3 DEF Grabbed, Link, LeadsDown

LEMMA UngrabbedLeadsDown ==
    ASSUME TreeInv, NEW w \in Widget
    PROVE  Ungrabbed(w) \in Link /\ LeadsDown(Ungrabbed(w))
<1>1. grab \in Link /\ LeadsDown(grab) /\ alive \subseteq Widget
      BY LinksLeadDown DEF TreeInv, TypeOK
<1>2. QED BY <1>1 DEF Ungrabbed, Link, LeadsDown
-----------------------------------------------------------------------------
(* A step of an event leaves the tree as it is.                            *)
LEMMA SameTree ==
    ASSUME UNCHANGED treeVars
    PROVE  /\ alive' = alive /\ parent' = parent
           /\ DeadDetached => DeadDetached'
           /\ \A w : Children(w)' = Children(w)
           /\ LeadsDown(target') => LeadsDown(target)'
           /\ LeadsDown(grab') => LeadsDown(grab)'
           /\ LeadsDown(keyTarget') => LeadsDown(keyTarget)'
BY DEF treeVars, DeadDetached, Children, LeadsDown

(* What the steps of an event have to show.                                *)
LEMMA EventStep ==
    ASSUME TreeInv, UNCHANGED treeVars, TypeOK',
           LeadsDown(target'), LeadsDown(grab'), LeadsDown(keyTarget'),
           Held' \subseteq alive \cup {NoWidget}, Routed'
    PROVE  TreeInv'
<1>1. DeadDetached' /\ alive' = alive
      BY SameTree DEF TreeInv
<1>2. TargetsAreChildren'
  <2>1. LeadsDown(target)' /\ LeadsDown(grab)' /\ LeadsDown(keyTarget)'
        BY SameTree
  <2>2. Held' \subseteq alive' \cup {NoWidget}
        BY <1>1
  <2>3. QED BY <2>1, <2>2 DEF TargetsAreChildren, LeadsDown
<1>3. QED BY <1>1, <1>2 DEF TreeInv

LEMMA Facts ==
    ASSUME TreeInv
    PROVE  /\ TypeOK /\ Routed /\ alive \subseteq Widget
           /\ LeadsDown(target) /\ LeadsDown(grab) /\ LeadsDown(keyTarget)
           /\ call.pc /= "rest" => /\ call.w \in alive
                                   /\ {call.t, call.k} \subseteq alive \cup {NoWidget}
<1>1. TypeOK /\ Routed /\ alive \subseteq Widget /\ call.w \in Widget
      BY DEF TreeInv, TypeOK
<1>2. QED BY <1>1, LinksLeadDown, WidgetAssumption DEF TreeInv, Held

LEMMA TreeBegin ==
    ASSUME TreeInv, NEW op \in Op, Begin(op)
    PROVE  TreeInv'
<1>1. /\ UNCHANGED <<treeVars, pointers, focused, pressed, aborted>>
      /\ call' = [op |-> op, w |-> Root, t |-> NoWidget, k |-> NoWidget, pc |-> "self"]
      BY DEF Begin
<1>2. TypeOK'
      BY <1>1, Facts, WidgetAssumption DEF TypeOK, treeVars, pointers
<1>3. Held' = {Root, NoWidget} /\ Routed'
      BY <1>1 DEF Held, Routed
<1>4. Held' \subseteq alive \cup {NoWidget}
      BY <1>3 DEF TreeInv, DeadDetached
<1>5. QED BY <1>1, <1>2, <1>3, <1>4, Facts, EventStep DEF pointers

LEMMA TreeSelf ==
    ASSUME TreeInv, Self
    PROVE  TreeInv'
<1>1. /\ call.pc = "self" /\ OnEvent(call.op, call.w)
      /\ call' = [call EXCEPT !.pc = "find"]
      /\ UNCHANGED <<treeVars, target, keyTarget, focused>>
      BY DEF Self
<1>2. call.w \in Widget /\ call.op \in Op /\ TypeOK
      BY Facts DEF TypeOK
<1>3. /\ grab' \in {grab, Grabbed(call.w), Ungrabbed(call.w)}
      /\ pressed' \subseteq Grabber /\ aborted' \subseteq Grabber
  <2> DEFINE w == call.w
             op == call.op
  <2>1. CASE op = "down" /\ w \in Grabber
        BY <1>1, <1>2, <2>1 DEF OnEvent, TypeOK
  <2>2. CASE op = "up" /\ w \in Grabber
        BY <1>1, <1>2, <2>2 DEF OnEvent, TypeOK
  <2>3. CASE op = "move" /\ w \in Scroll /\ w \in pressed
        BY <1>1, <1>2, <2>3 DEF OnEvent, TypeOK
  <2>4. CASE ~(op = "down" /\ w \in Grabber) /\ ~(op = "up" /\ w \in Grabber)
             /\ ~(op = "move" /\ w \in Scroll /\ w \in pressed)
    <3>1. UNCHANGED <<grab, pressed, aborted>>
          BY <1>1, <2>4 DEF OnEvent
    <3>2. QED BY <1>2, <3>1 DEF TypeOK
  <2>5. QED BY <2>1, <2>2, <2>3, <2>4
<1>4. grab' \in Link /\ LeadsDown(grab')
  <2>1. CASE grab' = grab
        BY <1>2, <2>1, Facts DEF TypeOK
  <2>2. CASE grab' = Grabbed(call.w)
        BY <1>2, <2>2, GrabbedLeadsDown
  <2>3. CASE grab' = Ungrabbed(call.w)
        BY <1>2, <2>3, UngrabbedLeadsDown
  <2>4. QED BY <1>3, <2>1, <2>2, <2>3
<1>5. /\ call'.w = call.w /\ call'.t = call.t /\ call'.k = call.k /\ call'.pc = "find"
      /\ call'.op = call.op
      BY <1>1, <1>2 DEF TypeOK
<1>6. TypeOK'
      BY <1>1, <1>2, <1>3, <1>4 DEF TypeOK, treeVars
<1>7. Held' \subseteq alive \cup {NoWidget} /\ Routed'
      BY <1>1, <1>5, Facts DEF Held, Routed
<1>8. QED BY <1>1, <1>4, <1>6, <1>7, Facts, EventStep

(* The call for the child t of call.w, or the return.                      *)
LEMMA DescendStep ==
    ASSUME TreeInv, call.pc /= "rest", NEW t \in Children(call.w) \cup {NoWidget}, Descend(t)
    PROVE  /\ target' \in Link /\ LeadsDown(target')
           /\ call' \in [op : Op, w : Widget, t : Widget \cup {NoWidget},
                         k : Widget \cup {NoWidget},
                         pc : {"rest", "self", "find", "walk", "walked", "arrive"}]
           /\ Held' \subseteq alive \cup {NoWidget} /\ Routed'
<1>1. TypeOK /\ call.w \in alive /\ alive \subseteq Widget
      BY Facts
<1>2. t \in alive \cup {NoWidget} /\ Children(call.w) \subseteq alive
      BY DEF Children
<1>3. target' \in Link /\ LeadsDown(target')
      BY <1>1, <1>2, Facts DEF Descend, TypeOK, Link, LeadsDown
<1>4. CASE t = NoWidget
      BY <1>1, <1>3, <1>4 DEF Descend, TypeOK, Held, Routed
<1>5. CASE t /= NoWidget
      BY <1>1, <1>2, <1>3, <1>5 DEF Descend, TypeOK, Held, Routed
<1>6. QED BY <1>4, <1>5

LEMMA TreeFind ==
    ASSUME TreeInv, Find
    PROVE  TreeInv'
<1>1. PICK t \in Targets(call.op, call.w) :
        \/ /\ FindWalks(t)
           /\ call' = [call EXCEPT !.pc = "walk", !.t = t,
                         !.k = IF call.op = "down" THEN keyTarget[call.w] ELSE target[call.w]]
           /\ UNCHANGED <<target, keyTarget>>
        \/ /\ ~FindWalks(t)
           /\ keyTarget' = IF call.op = "down" /\ t /= NoWidget
                           THEN [keyTarget EXCEPT ![call.w] = t] ELSE keyTarget
           /\ Descend(t)
      BY DEF Find
<1>2. call.pc = "find" /\ UNCHANGED <<treeVars, grab, focused, pressed, aborted>>
      BY DEF Find
<1>3. TypeOK /\ call.w \in alive /\ alive \subseteq Widget
      BY <1>2, Facts
<1>4. t \in Children(call.w) \cup {NoWidget}
  <2>1. /\ target[call.w] \in Children(call.w) \cup {NoWidget}
        /\ grab[call.w] \in Children(call.w) \cup {NoWidget}
        /\ keyTarget[call.w] \in Children(call.w) \cup {NoWidget}
        BY <1>3, Facts DEF LeadsDown
  <2>2. QED BY <2>1 DEF Targets
<1>5. Children(call.w) \subseteq alive
      BY DEF Children
<1>6. CASE /\ FindWalks(t)
           /\ call' = [call EXCEPT !.pc = "walk", !.t = t,
                         !.k = IF call.op = "down" THEN keyTarget[call.w] ELSE target[call.w]]
           /\ UNCHANGED <<target, keyTarget>>
  <2> DEFINE k == IF call.op = "down" THEN keyTarget[call.w] ELSE target[call.w]
  <2>1. k \in alive \cup {NoWidget}
        BY <1>3, <1>5, Facts DEF LeadsDown
  <2>2. call.op = "down" => t /= NoWidget
        BY <1>6 DEF FindWalks
  <2> HIDE DEF k
  <2>3. /\ call'.w = call.w /\ call'.t = t /\ call'.k = k /\ call'.pc = "walk"
        /\ call'.op = call.op
        BY <1>3, <1>6 DEF TypeOK, k
  <2>4. TypeOK'
    <3>1. call' = [call EXCEPT !.pc = "walk", !.t = t, !.k = k]
          BY <1>6 DEF k
    <3>2. t \in Widget \cup {NoWidget} /\ k \in Widget \cup {NoWidget}
          BY <1>3, <1>4, <1>5, <2>1
    <3>3. QED BY <1>2, <1>3, <1>6, <3>1, <3>2 DEF TypeOK, treeVars
  <2>5. Held' \subseteq alive \cup {NoWidget}
        BY <1>3, <1>4, <1>5, <2>1, <2>3 DEF Held
  <2>6. Routed'
    <3>1. Children(call.w)' = Children(call.w)
          BY <1>2, <2>3 DEF Children, treeVars
    <3>2. QED BY <1>4, <2>2, <2>3, <3>1 DEF Routed
  <2>7. QED BY <1>2, <1>6, <2>4, <2>5, <2>6, Facts, EventStep
<1>7. CASE /\ ~FindWalks(t)
           /\ keyTarget' = IF call.op = "down" /\ t /= NoWidget
                           THEN [keyTarget EXCEPT ![call.w] = t] ELSE keyTarget
           /\ Descend(t)
  <2>1. /\ target' \in Link /\ LeadsDown(target')
        /\ call' \in [op : Op, w : Widget, t : Widget \cup {NoWidget},
                      k : Widget \cup {NoWidget},
                      pc : {"rest", "self", "find", "walk", "walked", "arrive"}]
        /\ Held' \subseteq alive \cup {NoWidget} /\ Routed'
        BY <1>2, <1>4, <1>7, DescendStep
  <2>2. keyTarget' \in Link /\ LeadsDown(keyTarget')
        BY <1>3, <1>4, <1>5, <1>7, Facts DEF TypeOK, Link, LeadsDown
  <2>3. TypeOK'
        BY <1>2, <1>3, <2>1, <2>2 DEF TypeOK, treeVars
  <2>4. QED BY <1>2, <2>1, <2>2, <2>3, Facts, EventStep
<1>8. QED BY <1>1, <1>6, <1>7

LEMMA TreeWalk ==
    ASSUME TreeInv, Walk \/ Walked \/ Enter
    PROVE  TreeInv'
<1>1. TypeOK /\ Routed /\ alive \subseteq Widget /\ call.pc \in {"walk", "walked"}
      /\ call.w \in alive /\ {call.t, call.k} \subseteq alive \cup {NoWidget}
      /\ UNCHANGED <<treeVars, pointers, pressed, aborted>>
      /\ focused' \subseteq Widget
      BY Facts DEF Walk, Walked, Enter, TypeOK
<1>2. /\ call'.w = call.w /\ call'.t = call.t /\ call'.op = call.op
      /\ call'.pc \in {"walk", "walked", "arrive"}
      /\ call'.k \in alive \cup {NoWidget} /\ (call'.pc = "walked" => call'.k /= NoWidget)
      /\ call' = [call EXCEPT !.pc = call'.pc, !.k = call'.k]
  <2>1. CASE Walk
        BY <1>1, <2>1 DEF Walk, TypeOK
  <2>2. CASE Enter
        BY <1>1, <2>2 DEF Enter, TypeOK
  <2>3. CASE Walked
    <3>1. call.k \in alive
          BY <1>1, <2>3 DEF Walked, Routed
    <3>2. WalkOn \in alive \cup {NoWidget}
          BY <3>1, Facts DEF WalkOn, LeadsDown, Children
    <3>3. QED BY <1>1, <2>3, <3>2 DEF Walked, TypeOK
  <2>4. QED BY <2>1, <2>2, <2>3
<1>3. TypeOK'
      BY <1>1, <1>2 DEF TypeOK, treeVars, pointers
<1>4. Routed'
  <2>1. Children(call.w)' = Children(call.w)
        BY <1>1, <1>2 DEF Children, treeVars
  <2>2. QED BY <1>1, <1>2, <2>1 DEF Routed
<1>5. Held' \subseteq alive \cup {NoWidget}
      BY <1>1, <1>2 DEF Held
<1>6. QED BY <1>1, <1>3, <1>4, <1>5, Facts, EventStep DEF pointers

LEMMA TreeArrive ==
    ASSUME TreeInv, Arrive
    PROVE  TreeInv'
<1>1. /\ call.pc = "arrive" /\ Descend(call.t)
      /\ UNCHANGED <<treeVars, grab, pressed, aborted>>
      BY DEF Arrive
<1>2. /\ TypeOK /\ alive \subseteq Widget /\ call.w \in alive
      /\ call.t \in Children(call.w) \cup {NoWidget} /\ Children(call.w) \subseteq alive
      /\ (call.op = "down" => call.t /= NoWidget)
      BY <1>1, Facts DEF Routed, Children
<1>3. /\ target' \in Link /\ LeadsDown(target')
      /\ call' \in [op : Op, w : Widget, t : Widget \cup {NoWidget},
                    k : Widget \cup {NoWidget},
                    pc : {"rest", "self", "find", "walk", "walked", "arrive"}]
      /\ Held' \subseteq alive \cup {NoWidget} /\ Routed'
      BY <1>1, <1>2, DescendStep
<1>4. keyTarget' \in Link /\ LeadsDown(keyTarget') /\ focused' \subseteq Widget
      BY <1>2, Facts DEF Arrive, TypeOK, Link, LeadsDown
<1>5. TypeOK'
      BY <1>1, <1>2, <1>3, <1>4 DEF TypeOK, treeVars
<1>6. QED BY <1>1, <1>3, <1>4, <1>5, Facts, EventStep
-----------------------------------------------------------------------------
(* new routes like link, except that it forgets some children.             *)
Forgets(new, link, gone) ==
    /\ new \in Link
    /\ \A w \in alive \ gone : /\ new[w] \in {link[w], NoWidget}
                              /\ new[w] \notin gone

LEMMA FreeStep ==
    ASSUME TreeInv, NEW gone \in SUBSET Widget, Free(gone), call' = call,
           Held \cap gone = {}, Root \notin gone,
           Forgets(target', target, gone), Forgets(grab', grab, gone),
           Forgets(keyTarget', keyTarget, gone)
    PROVE  TreeInv'
<1>1. /\ alive' = alive \ gone /\ TypeOK /\ alive \subseteq Widget
      /\ parent' = [w \in Widget |-> IF w \in gone THEN NoWidget ELSE parent[w]]
      BY Facts DEF Free, Zeroed
<1>2. TypeOK'
      BY <1>1 DEF TypeOK, Free, Forgets, Link
<1>3. DeadDetached'
      BY <1>1, WidgetAssumption DEF TreeInv, DeadDetached
<1>4. \A w \in alive \ gone : Children(w)' = Children(w) \ gone
      BY <1>1, WidgetAssumption DEF Children
<1>5. LeadsDown(target)' /\ LeadsDown(grab)' /\ LeadsDown(keyTarget)'
      BY <1>1, <1>4, Facts DEF LeadsDown, Forgets
<1>6. Held' = Held
      BY DEF Held
<1>7. TargetsAreChildren'
  <2>1. Held \subseteq alive \cup {NoWidget}
        BY LinksLeadDown DEF TreeInv
  <2>2. Held' \subseteq alive' \cup {NoWidget}
        BY <1>1, <1>6, <2>1
  <2>3. QED BY <1>5, <2>2 DEF TargetsAreChildren, LeadsDown
<1>8. Routed'
  <2>1. CASE call.pc = "rest"
        BY <2>1 DEF Routed
  <2>2. CASE call.pc /= "rest"
    <3>1. call.w \in alive \ gone /\ call.t \notin gone
          BY <2>2, Facts DEF Held
    <3>2. Children(call.w)' = Children(call.w) \ gone
          BY <1>1, <3>1, WidgetAssumption DEF Children
    <3>3. QED BY <3>1, <3>2, Facts DEF Routed
  <2>3. QED BY <2>1, <2>2
<1>9. QED BY <1>2, <1>3, <1>7, <1>8 DEF TreeInv

(* widget_destroy and widget_remove_child: the pointers of the parent.     *)
LEMMA ForgetsSubtree ==
    ASSUME TreeInv, NEW x \in Widget, NEW link \in Link, LeadsDown(link)
    PROVE  Forgets(Zeroed(ForgetsChild(link, x), Subtree(x)), link, Subtree(x))
<1> DEFINE gone == Subtree(x)
           new == Zeroed(ForgetsChild(link, x), gone)
<1>1. alive \subseteq Widget /\ x \in gone /\ gone \subseteq Widget
      BY Facts, SubtreeSelf
<1>2. \A c \in gone : c /= x => parent[c] \in gone
      BY SubtreeParent
<1> HIDE DEF gone
<1>3. new \in Link
      BY DEF Link, Zeroed, ForgetsChild
<1>4. ASSUME NEW w \in alive \ gone
      PROVE  new[w] \in {link[w], NoWidget} /\ new[w] \notin gone
  <2>1. new[w] = IF w = parent[x] /\ link[w] = x THEN NoWidget ELSE link[w]
        BY <1>1 DEF Zeroed, ForgetsChild
  <2>2. link[w] \in Children(w) \cup {NoWidget} /\ NoWidget \notin gone
        BY <1>1, WidgetAssumption DEF LeadsDown
  <2>3. link[w] \in gone => link[w] = x /\ w = parent[x]
        BY <1>2, <2>2 DEF Children
  <2>4. QED BY <2>1, <2>2, <2>3
<1>5. QED BY <1>3, <1>4 DEF Forgets, gone

LEMMA RootNotBelow ==
    ASSUME TreeInv, NEW x \in Widget, x /= Root
    PROVE  Root \notin Subtree(x)
<1>1. Root \in Subtree(x) => NoWidget \in Subtree(x)
      BY SubtreeParent DEF TreeInv, DeadDetached
<1>2. NoWidget \notin Subtree(x)
      BY SubtreeSelf, WidgetAssumption
<1>3. QED BY <1>1, <1>2

LEMMA TreeDestroy ==
    ASSUME TreeInv, NEW x \in Widget, Destroy(x)
    PROVE  TreeInv'
<1>1. /\ x /= Root /\ Subtree(x) \cap Held = {} /\ Free(Subtree(x)) /\ call' = call
      BY DEF Destroy, MayTake
<1>2. Subtree(x) \in SUBSET Widget /\ Root \notin Subtree(x)
      BY <1>1, SubtreeSelf, RootNotBelow
<1>3. target \in Link /\ grab \in Link /\ keyTarget \in Link
      /\ LeadsDown(target) /\ LeadsDown(grab) /\ LeadsDown(keyTarget)
      BY Facts DEF TypeOK
<1>4. /\ Forgets(target', target, Subtree(x)) /\ Forgets(grab', grab, Subtree(x))
      /\ Forgets(keyTarget', keyTarget, Subtree(x))
      BY <1>3, ForgetsSubtree DEF Destroy
<1>5. QED BY <1>1, <1>2, <1>4, FreeStep

(* What is below w is below a live child of w.                             *)
LEMMA BelowLiveChild ==
    ASSUME TreeInv, NEW w \in Widget, NEW h \in Subtree(w) \ {w}
    PROVE  \E c \in Children(w) : h \in Subtree(c)
<1>1. h \in Widget /\ w \in Above(h)
      BY SubtreeSelf DEF Above
<1>2. \E c \in Widget : parent[c] = w /\ h \in Subtree(c)
      BY <1>1, BelowChild
<1>3. PICK c \in Widget : parent[c] = w /\ h \in Subtree(c)
      BY <1>2
<1>4. c \in Children(w)
      BY <1>3, WidgetAssumption DEF TreeInv, DeadDetached, Children
<1>5. QED BY <1>3, <1>4

LEMMA TreeDestroyChildren ==
    ASSUME TreeInv, NEW w \in Widget, DestroyChildren(w)
    PROVE  TreeInv'
<1> DEFINE gone == Subtree(w) \ {w}
<1>1. /\ target[w] = NoWidget /\ grab[w] = NoWidget /\ keyTarget[w] = NoWidget
      /\ target' = Zeroed(target, gone) /\ grab' = Zeroed(grab, gone)
      /\ keyTarget' = Zeroed(keyTarget, gone) /\ Free(gone) /\ call' = call
      /\ \A c \in Children(w) : Subtree(c) \cap Held = {}
      BY DEF DestroyChildren
<1>2. gone \in SUBSET Widget /\ Root \notin gone
      BY SubtreeSelf, RootNotBelow
<1>3. Held \cap gone = {}
      BY <1>1, <1>2, BelowLiveChild
<1>4. ASSUME NEW link \in Link, LeadsDown(link), link[w] = NoWidget
      PROVE  Forgets(Zeroed(link, gone), link, gone)
  <2>1. alive \subseteq Widget /\ NoWidget \notin gone /\ NoWidget \notin Widget
        BY <1>2, Facts, WidgetAssumption
  <2>2. \A c \in gone : parent[c] \in gone \cup {w}
        BY SubtreeParent
  <2> HIDE DEF gone
  <2>3. ASSUME NEW a \in alive \ gone PROVE link[a] \notin gone
    <3>1. link[a] \in gone => parent[link[a]] = a
          BY <1>4, <2>1 DEF LeadsDown, Children
    <3>2. QED BY <1>4, <2>1, <2>2, <3>1
  <2>4. \A a \in alive \ gone : Zeroed(link, gone)[a] = link[a]
        BY <2>1 DEF Zeroed
  <2>5. Zeroed(link, gone) \in Link
        BY <1>4 DEF Zeroed, Link
  <2>6. QED BY <2>3, <2>4, <2>5 DEF Forgets
<1>5. target \in Link /\ grab \in Link /\ keyTarget \in Link
      /\ LeadsDown(target) /\ LeadsDown(grab) /\ LeadsDown(keyTarget)
      BY Facts DEF TypeOK
<1> HIDE DEF gone
<1>6. /\ Forgets(target', target, gone) /\ Forgets(grab', grab, gone)
      /\ Forgets(keyTarget', keyTarget, gone)
      BY <1>1, <1>4, <1>5
<1>7. QED BY <1>1, <1>2, <1>3, <1>6, FreeStep

(* Only the parent of x changes; the pointers forget x if it leaves.       *)
LEMMA TreeMoves ==
    ASSUME TreeInv, NEW x \in alive \ {Root}, NEW p \in Widget \cup {NoWidget},
           parent' = [parent EXCEPT ![x] = p],
           UNCHANGED <<alive, focused, pressed, aborted, call>>,
           Forgets(target', target, {}), Forgets(grab', grab, {}),
           Forgets(keyTarget', keyTarget, {}),
           \A w \in alive : x \notin {target'[w], grab'[w], keyTarget'[w]},
           call.pc \in {"walk", "walked", "arrive"} => call.t /= x
    PROVE  TreeInv'
<1>1. TypeOK /\ alive \subseteq Widget /\ x \in Widget
      BY Facts
<1>2. TypeOK'
      BY <1>1 DEF TypeOK, Forgets, Link
<1>3. DeadDetached'
      BY <1>1 DEF TreeInv, DeadDetached, TypeOK, Link
<1>4. \A w \in Widget : Children(w) \ {x} \subseteq Children(w)'
      BY <1>1 DEF Children, TypeOK, Link
<1>5. LeadsDown(target)' /\ LeadsDown(grab)' /\ LeadsDown(keyTarget)'
      BY <1>1, <1>4, Facts DEF LeadsDown, Forgets
<1>6. TargetsAreChildren'
  <2>1. Held' \subseteq alive' \cup {NoWidget}
        BY LinksLeadDown DEF TreeInv, Held
  <2>2. QED BY <1>5, <2>1 DEF TargetsAreChildren, LeadsDown
<1>7. Routed'
  <2>1. CASE call.pc \notin {"walk", "walked", "arrive"}
        BY <2>1 DEF Routed
  <2>2. CASE call.pc \in {"walk", "walked", "arrive"}
    <3>1. call.w \in Widget /\ call.t /= x
          BY <1>1, <2>2 DEF TypeOK
    <3>2. Children(call.w) \ {x} \subseteq Children(call.w)'
          BY <1>1, <3>1 DEF Children, TypeOK, Link
    <3>3. QED BY <3>1, <3>2, Facts DEF Routed
  <2>3. QED BY <2>1, <2>2
<1>8. QED BY <1>2, <1>3, <1>6, <1>7 DEF TreeInv

LEMMA TreeRemoveChild ==
    ASSUME TreeInv, NEW x \in Widget, RemoveChild(x)
    PROVE  TreeInv'
<1>1. /\ x \in alive \ {Root} /\ Subtree(x) \cap Held = {}
      /\ parent' = [parent EXCEPT ![x] = NoWidget]
      /\ UNCHANGED <<alive, focused, pressed, aborted, call>>
      BY DEF RemoveChild, MayTake
<1>2. call.pc /= "rest" => call.t /= x
      BY <1>1, SubtreeSelf DEF Held
<1>3. ASSUME NEW link \in Link, LeadsDown(link)
      PROVE  /\ Forgets(ForgetsChild(link, x), link, {})
             /\ \A w \in alive : ForgetsChild(link, x)[w] /= x
  <2>1. alive \subseteq Widget /\ x /= NoWidget
        BY Facts, WidgetAssumption
  <2>2. \A w \in alive : ForgetsChild(link, x)[w] =
                         IF w = parent[x] /\ link[w] = x THEN NoWidget ELSE link[w]
        BY <2>1 DEF ForgetsChild
  <2>3. \A w \in alive : link[w] = x => w = parent[x]
        BY <1>3, <2>1 DEF LeadsDown, Children
  <2>4. ForgetsChild(link, x) \in Link
        BY <1>3 DEF ForgetsChild, Link
  <2>5. QED BY <2>1, <2>2, <2>3, <2>4 DEF Forgets
<1>4. target \in Link /\ grab \in Link /\ keyTarget \in Link
      /\ LeadsDown(target) /\ LeadsDown(grab) /\ LeadsDown(keyTarget)
      BY Facts DEF TypeOK
<1>5. /\ Forgets(target', target, {}) /\ Forgets(grab', grab, {})
      /\ Forgets(keyTarget', keyTarget, {})
      /\ \A w \in alive : x \notin {target'[w], grab'[w], keyTarget'[w]}
      BY <1>3, <1>4 DEF RemoveChild
<1>6. QED BY <1>1, <1>2, <1>5, TreeMoves

LEMMA TreeAddChild ==
    ASSUME TreeInv, NEW w \in Widget, NEW c \in Widget, AddChild(w, c)
    PROVE  TreeInv'
<1>1. /\ c \in alive \ {Root} /\ parent[c] = NoWidget
      /\ parent' = [parent EXCEPT ![c] = w]
      /\ UNCHANGED <<alive, pointers, focused, pressed, aborted, call>>
      BY DEF AddChild
<1>2. \A a \in alive : c \notin Children(a) /\ c /= NoWidget
      BY <1>1, Facts, WidgetAssumption DEF Children
<1>3. target \in Link /\ grab \in Link /\ keyTarget \in Link
      /\ LeadsDown(target) /\ LeadsDown(grab) /\ LeadsDown(keyTarget)
      BY Facts DEF TypeOK
<1>4. /\ Forgets(target', target, {}) /\ Forgets(grab', grab, {})
      /\ Forgets(keyTarget', keyTarget, {})
      /\ \A a \in alive : c \notin {target'[a], grab'[a], keyTarget'[a]}
      BY <1>1, <1>2, <1>3 DEF Forgets, LeadsDown, pointers
<1>5. call.pc \in {"walk", "walked", "arrive"} => call.t /= c
      BY <1>2, Facts DEF Routed
<1>6. QED BY <1>1, <1>4, <1>5, TreeMoves

LEMMA TreeNext == TreeInv /\ [Next]_vars => TreeInv'
<1> SUFFICES ASSUME TreeInv, [Next]_vars PROVE TreeInv'
    OBVIOUS
<1>1. CASE UNCHANGED vars
  <2>1. TypeOK' /\ Routed' /\ Held' = Held
        BY <1>1, Facts DEF vars, treeVars, pointers, TypeOK, Routed, Children, Held
  <2>2. Held' \subseteq alive \cup {NoWidget}
        BY <2>1, LinksLeadDown DEF TreeInv
  <2>3. QED BY <1>1, <2>1, <2>2, Facts, EventStep DEF vars, pointers
<1>2. ASSUME NEW op \in Op, Begin(op) PROVE TreeInv'
      BY <1>2, TreeBegin
<1>3. CASE Dispatch
      BY <1>3, TreeSelf, TreeFind, TreeWalk, TreeArrive DEF Dispatch
<1>4. CASE Application
      BY <1>4, TreeRemoveChild, TreeDestroy, TreeDestroyChildren, TreeAddChild DEF Application
<1>5. QED BY <1>1, <1>2, <1>3, <1>4 DEF Next

LEMMA TreeAlways == Spec => []TreeInv
BY TreeInit, TreeNext, PTL DEF Spec

(* The fields of the widgets and of the event under way keep their types.  *)
THEOREM WidgetTypeCorrect == Spec => []TypeOK
<1>1. TreeInv => TypeOK
      BY DEF TreeInv
<1>2. QED BY <1>1, TreeAlways, PTL

(* Whatever handlers add, remove and destroy while an event is on its way, *)
(* target, grab_widget and key_target of a live widget lead to live        *)
(* children, and the event never reaches a widget that was freed.  This    *)
(* holds for patient applications and for others.                          *)
THEOREM TargetsCorrect == Spec => []TargetsAreChildren
<1>1. TreeInv => TargetsAreChildren
      BY DEF TreeInv
<1>2. QED BY <1>1, TreeAlways, PTL
-----------------------------------------------------------------------------
(* Subtrees of a tree that changes below a cut: the widgets of K, which    *)
(* holds all that is below its members, may get other parents.             *)
SubtreeOf(link, x) == {w \in Widget : \A S \in SUBSET Widget :
                         x \in S /\ (\A c \in Widget : link[c] \in S => c \in S) => w \in S}

LEMMA CutOneWay ==
    ASSUME NEW old, NEW new, NEW K \in SUBSET Widget,
           \A c \in Widget : old[c] \in K => c \in K,
           \A c \in Widget \ K : new[c] = old[c],
           NEW a \in Widget, NEW v \in SubtreeOf(new, a) \ K
    PROVE  v \in SubtreeOf(old, a)
<1> SUFFICES ASSUME NEW S \in SUBSET Widget, a \in S,
                    \A c \in Widget : old[c] \in S => c \in S
             PROVE  v \in S
    BY DEF SubtreeOf
<1> DEFINE T == S \cup K
<1>1. T \in SUBSET Widget /\ a \in T /\ \A c \in Widget : new[c] \in T => c \in T
      OBVIOUS
<1> HIDE DEF T
<1>2. v \in T
      BY <1>1 DEF SubtreeOf
<1>3. QED BY <1>2 DEF T

Cut(K) == /\ K \in SUBSET Widget
          /\ \A c \in Widget : parent[c] \in K \/ parent'[c] \in K => c \in K
          /\ \A c \in Widget \ K : parent'[c] = parent[c]

LEMMA OutsideCut ==
    ASSUME NEW K, Cut(K), NEW a \in Widget, NEW v \in Widget \ K
    PROVE  v \in Subtree(a)' <=> v \in Subtree(a)
<1>1. Subtree(a) = SubtreeOf(parent, a) /\ Subtree(a)' = SubtreeOf(parent', a)
      BY DEF Subtree, SubtreeOf
<1>2. /\ K \in SUBSET Widget /\ \A c \in Widget \ K : parent'[c] = parent[c]
      /\ \A c \in Widget : parent[c] \in K => c \in K
      /\ \A c \in Widget : parent'[c] \in K => c \in K
      BY DEF Cut
<1>3. v \in SubtreeOf(parent', a) => v \in SubtreeOf(parent, a)
      BY <1>2, CutOneWay
<1>4. v \in SubtreeOf(parent, a) => v \in SubtreeOf(parent', a)
      BY <1>2, CutOneWay
<1>5. QED BY <1>1, <1>3, <1>4

LEMMA InsideCut ==
    ASSUME NEW K, Cut(K), NEW a \in K
    PROVE  Subtree(a) \subseteq K /\ Subtree(a)' \subseteq K
BY DEF Cut, Subtree

(* A step that adds no parents leaves the tree a forest.                   *)
LEMMA ForestLoses ==
    ASSUME Forest, \A c \in Widget : parent'[c] \in {parent[c], NoWidget}
    PROVE  Forest'
<1> SUFFICES ASSUME NEW S \in SUBSET Widget, S /= {}
             PROVE  \E w \in S : parent'[w] \notin S
    BY DEF Forest
<1>1. PICK w \in S : parent[w] \notin S
      BY DEF Forest
<1>2. parent'[w] \notin S
      BY <1>1, WidgetAssumption
<1>3. QED BY <1>2

(* So does a step that gives c a parent that is not below c.               *)
LEMMA ForestGains ==
    ASSUME Forest, TypeOK, NEW w \in Widget, NEW c \in Widget, w \notin Subtree(c),
           parent' = [parent EXCEPT ![c] = w]
    PROVE  Forest'
<1> SUFFICES ASSUME NEW S \in SUBSET Widget, S /= {}
             PROVE  \E v \in S : parent'[v] \notin S
    BY DEF Forest
<1>1. parent'[c] = w /\ \A v \in Widget \ {c} : parent'[v] = parent[v]
      BY DEF TypeOK, Link
<1>2. CASE S \subseteq Subtree(c)
  <2>1. PICK v \in S : parent[v] \notin S
        BY DEF Forest
  <2>2. parent'[v] \notin S
        BY <1>1, <1>2, <2>1
  <2>3. QED BY <2>2
<1>3. CASE ~(S \subseteq Subtree(c))
  <2> DEFINE T == S \ Subtree(c)
  <2>1. T \in SUBSET Widget /\ T /= {}
        BY <1>3
  <2>2. PICK v \in T : parent[v] \notin T
        BY <2>1 DEF Forest
  <2>3. v \in Widget /\ v /= c /\ parent[v] \notin Subtree(c)
        BY <2>2, SubtreeSelf, SubtreeClosed DEF Closed
  <2>4. v \in S /\ parent'[v] \notin S
        BY <1>1, <2>2, <2>3
  <2>5. QED BY <2>4
<1>4. QED BY <1>2, <1>3

LEMMA ForestNext ==
    ASSUME Forest, TreeInv, [Next]_vars
    PROVE  Forest'
<1>1. TypeOK
      BY DEF TreeInv
<1>2. CASE parent' = parent
      BY <1>2 DEF Forest
<1>3. ASSUME NEW x \in Widget, RemoveChild(x) PROVE Forest'
  <2>1. \A c \in Widget : parent'[c] \in {parent[c], NoWidget}
        BY <1>1, <1>3 DEF RemoveChild, TypeOK, Link
  <2>2. QED BY <2>1, ForestLoses
<1>4. ASSUME NEW x \in Widget, Destroy(x) \/ DestroyChildren(x) PROVE Forest'
  <2>1. \A c \in Widget : parent'[c] \in {parent[c], NoWidget}
        BY <1>4 DEF Destroy, DestroyChildren, Free, Zeroed
  <2>2. QED BY <2>1, ForestLoses
<1>5. ASSUME NEW w \in Widget, NEW c \in Widget, AddChild(w, c) PROVE Forest'
      BY <1>1, <1>5, ForestGains DEF AddChild
<1>6. QED BY <1>2, <1>3, <1>4, <1>5 DEF Next, Application, Dispatch, Begin, Self, Find, Walk,
                                       Walked, Enter, Arrive, vars, treeVars

LEMMA ForestInit == Init => Forest
BY WidgetAssumption DEF Init, Forest
-----------------------------------------------------------------------------
(* While the old path is blurred from its top, its first widget that still *)
(* has the focus has lost the parent that had it.                          *)
Exempt(w) == /\ call.op = "down"
             /\ \/ call.pc = "walk" /\ w = call.k
                \/ call.pc = "walked" /\ parent[w] = call.k

(* The focused widgets lead to each other.                                 *)
Path == \A w \in focused : parent[w] /= NoWidget =>
          /\ keyTarget[parent[w]] = w
          /\ parent[w] = Root \/ parent[w] \in focused \/ Exempt(w)

(* A press has the focus where it is, the walk is below it, and behind the *)
(* walk no child of the pressed widget has the focus.                      *)
Leads == call.op = "down" =>
           /\ call.pc /= "rest" => call.w = Root \/ call.w \in focused
           /\ call.pc \in {"walk", "walked"} /\ call.k /= NoWidget =>
                call.k \in Subtree(call.w) /\ call.k /= call.w
           /\ call.pc \in {"walk", "walked", "arrive"} =>
                \A c \in focused : parent[c] = call.w => call.pc = "walk" /\ c = call.k

FocusInv == TreeInv /\ Forest /\ Path /\ Leads

LEMMA FocusInit == Init => FocusInv
<1> SUFFICES ASSUME Init PROVE FocusInv
    OBVIOUS
<1>1. Path /\ Leads
      BY DEF Init, Path, Leads
<1>2. QED BY <1>1, TreeInit, ForestInit DEF FocusInv

LEMMA FocusFacts ==
    ASSUME FocusInv
    PROVE  /\ TypeOK /\ Routed /\ Forest /\ Path /\ Leads
           /\ focused \subseteq Widget /\ NoWidget \notin Widget
           /\ LeadsDown(keyTarget)
           /\ call.w \in Widget /\ call.k \in Widget \cup {NoWidget}
           /\ call.pc /= "rest" => /\ call.w \in alive
                                   /\ {call.t, call.k} \subseteq alive \cup {NoWidget}
<1>1. TreeInv /\ Forest /\ Path /\ Leads
      BY DEF FocusInv
<1>2. TypeOK
      BY <1>1, Facts
<1>3. focused \subseteq Widget /\ call.w \in Widget /\ call.k \in Widget \cup {NoWidget}
      BY <1>2 DEF TypeOK
<1>4. QED BY <1>1, <1>2, <1>3, Facts, WidgetAssumption

LEMMA FocusBegin ==
    ASSUME FocusInv, NEW op \in Op, Begin(op)
    PROVE  Path' /\ Leads'
<1>1. /\ parent' = parent /\ keyTarget' = keyTarget /\ focused' = focused
      /\ call'.op = op /\ call'.w = Root /\ call'.pc = "self" /\ call.pc = "rest"
      BY DEF Begin, treeVars, pointers
<1>2. Path'
      BY <1>1, FocusFacts DEF Path, Exempt
<1>3. Leads'
      BY <1>1 DEF Leads
<1>4. QED BY <1>2, <1>3

LEMMA FocusSelf ==
    ASSUME FocusInv, Self
    PROVE  Path' /\ Leads'
<1>1. /\ parent' = parent /\ keyTarget' = keyTarget /\ focused' = focused
      /\ call'.op = call.op /\ call'.w = call.w /\ call'.pc = "find" /\ call.pc = "self"
      BY FocusFacts DEF Self, treeVars, TypeOK
<1>2. Path'
      BY <1>1, FocusFacts DEF Path, Exempt
<1>3. Leads'
      BY <1>1, FocusFacts DEF Leads
<1>4. QED BY <1>2, <1>3

LEMMA FocusFind ==
    ASSUME FocusInv, Find
    PROVE  Path' /\ Leads'
<1>1. PICK t \in Targets(call.op, call.w) :
        \/ /\ FindWalks(t)
           /\ call' = [call EXCEPT !.pc = "walk", !.t = t,
                         !.k = IF call.op = "down" THEN keyTarget[call.w] ELSE target[call.w]]
           /\ UNCHANGED <<target, keyTarget>>
        \/ /\ ~FindWalks(t)
           /\ keyTarget' = IF call.op = "down" /\ t /= NoWidget
                           THEN [keyTarget EXCEPT ![call.w] = t] ELSE keyTarget
           /\ Descend(t)
      BY DEF Find
<1>2. call.pc = "find" /\ parent' = parent /\ focused' = focused
      BY DEF Find, treeVars
<1>3. \A w \in focused : parent[w] /= NoWidget =>
        keyTarget[parent[w]] = w /\ (parent[w] = Root \/ parent[w] \in focused)
      BY <1>2, FocusFacts DEF Path, Exempt
<1>4. call.op = "down" => call.w = Root \/ call.w \in focused
      BY <1>2, FocusFacts DEF Leads
<1>5. call.w \in alive /\ call.w \in Widget /\ keyTarget \in Link /\ NoWidget \notin Widget
      BY <1>2, FocusFacts DEF TypeOK
<1>6. CASE /\ FindWalks(t)
           /\ call' = [call EXCEPT !.pc = "walk", !.t = t,
                         !.k = IF call.op = "down" THEN keyTarget[call.w] ELSE target[call.w]]
           /\ UNCHANGED <<target, keyTarget>>
  <2>1. /\ call'.op = call.op /\ call'.w = call.w /\ call'.pc = "walk"
        /\ call.op = "down" => call'.k = keyTarget[call.w]
        BY <1>6, FocusFacts DEF TypeOK
  <2>2. Path'
        BY <1>2, <1>3, <1>6 DEF Path
  <2>3. keyTarget[call.w] \in Children(call.w) \cup {NoWidget}
        BY <1>5, FocusFacts DEF LeadsDown
  <2>4. ASSUME keyTarget[call.w] /= NoWidget
        PROVE  keyTarget[call.w] \in Subtree(call.w) /\ keyTarget[call.w] /= call.w
    <3>1. keyTarget[call.w] \in Widget /\ parent[keyTarget[call.w]] = call.w
          BY <2>3, <2>4, Facts DEF Children, FocusInv
    <3>2. QED BY <1>5, <3>1, ChildBelow, ParentNotBelow, FocusFacts, SubtreeSelf
  <2>5. Subtree(call.w)' = Subtree(call.w)
        BY <1>2, <2>1 DEF Subtree
  <2>6. Leads'
        BY <1>2, <1>3, <1>4, <1>5, <2>1, <2>4, <2>5 DEF Leads
  <2>7. QED BY <2>2, <2>6
<1>7. CASE /\ ~FindWalks(t)
           /\ keyTarget' = IF call.op = "down" /\ t /= NoWidget
                           THEN [keyTarget EXCEPT ![call.w] = t] ELSE keyTarget
           /\ Descend(t)
  <2>1. /\ call'.op = call.op
        /\ \/ t = NoWidget /\ call'.pc = "rest"
           \/ t /= NoWidget /\ call'.pc = "self" /\ call'.w = t
        BY <1>7, FocusFacts DEF Descend, TypeOK
  <2>2. call.op = "down" /\ t /= NoWidget => t \in focused
        BY <1>7 DEF FindWalks
  <2>3. call.op = "down" /\ t /= NoWidget => t \in Children(call.w)
        BY <1>5, Facts DEF Targets, LeadsDown, FocusInv
  <2>4. keyTarget' = keyTarget
    <3>1. CASE call.op = "down" /\ t /= NoWidget
      <4>1. parent[t] = call.w /\ t \in focused
            BY <2>2, <2>3, <3>1 DEF Children
      <4>2. keyTarget[call.w] = t
            BY <1>3, <1>5, <4>1
      <4>3. QED BY <1>5, <1>7, <3>1, <4>2 DEF Link
    <3>2. CASE ~(call.op = "down" /\ t /= NoWidget)
          BY <1>7, <3>2
    <3>3. QED BY <3>1, <3>2
  <2>5. Path'
        BY <1>2, <1>3, <2>4 DEF Path
  <2>6. Leads'
        BY <1>2, <2>1, <2>2 DEF Leads
  <2>7. QED BY <2>5, <2>6
<1>8. QED BY <1>1, <1>6, <1>7

LEMMA FocusWalk ==
    ASSUME FocusInv, Walk \/ Walked \/ Enter
    PROVE  Path' /\ Leads'
<1>1. /\ parent' = parent /\ keyTarget' = keyTarget /\ call'.op = call.op /\ call'.w = call.w
      BY FocusFacts DEF Walk, Walked, Enter, treeVars, pointers, TypeOK
<1>2. Subtree(call.w)' = Subtree(call.w)
      BY <1>1 DEF Subtree
<1>3. CASE call.op /= "down"
  <2>1. focused' = focused
        BY <1>3 DEF Walk, Walked, Enter
  <2>2. QED BY <1>1, <1>3, <2>1, FocusFacts DEF Path, Leads, Exempt
<1>4. CASE call.op = "down" /\ Walk
  <2>1. /\ call.pc = "walk" /\ call.k /= NoWidget /\ call.k \in Widget
        /\ focused' = focused \ {call.k} /\ call'.pc = "walked" /\ call'.k = call.k
        BY <1>4, FocusFacts DEF Walk, TypeOK
  <2>2. Path'
        BY <1>1, <1>4, <2>1, FocusFacts DEF Path, Exempt
  <2>3. Leads'
        BY <1>1, <1>2, <1>4, <2>1, FocusFacts DEF Leads
  <2>4. QED BY <2>2, <2>3
<1>5. CASE call.op = "down" /\ Walked
  <2>1. /\ call.pc = "walked" /\ call.k /= NoWidget /\ call.k \in alive /\ call.k \in Widget
        /\ focused' = focused /\ call'.pc = "walk" /\ call'.k = keyTarget[call.k]
        BY <1>5, FocusFacts DEF Walked, WalkOn, TypeOK, Routed
  <2>2. Path'
        BY <1>1, <1>5, <2>1, FocusFacts DEF Path, Exempt
  <2>3. ASSUME keyTarget[call.k] /= NoWidget
        PROVE  keyTarget[call.k] \in Subtree(call.w) /\ keyTarget[call.k] /= call.w
    <3> DEFINE j == keyTarget[call.k]
    <3>1. call.k \in Subtree(call.w)
          BY <1>5, <2>1, FocusFacts DEF Leads
    <3>2. j \in Children(call.k)
          BY <2>1, <2>3, FocusFacts DEF LeadsDown
    <3>3. j \in Widget /\ parent[j] = call.k
          BY <3>2, Facts DEF Children, FocusInv
    <3> HIDE DEF j
    <3>4. j \in Subtree(call.w)
          BY <3>1, <3>3, SubtreeClosed, FocusFacts DEF Closed
    <3>5. j /= call.w
          BY <3>1, <3>3, ParentNotBelow, FocusFacts
    <3>6. QED BY <3>4, <3>5 DEF j
  <2>4. Leads'
        BY <1>1, <1>2, <1>5, <2>1, <2>3, FocusFacts DEF Leads
  <2>5. QED BY <2>2, <2>4
<1>6. CASE call.op = "down" /\ Enter
  <2>1. /\ call.pc = "walk" /\ call.k = NoWidget /\ focused' = focused
        /\ call'.pc = "arrive" /\ call'.k = call.k
        BY <1>6, FocusFacts DEF Enter, TypeOK
  <2>2. NoWidget \notin focused
        BY FocusFacts
  <2>3. Path'
        BY <1>1, <1>6, <2>1, <2>2, FocusFacts DEF Path, Exempt
  <2>4. Leads'
        BY <1>1, <1>6, <2>1, <2>2, FocusFacts DEF Leads
  <2>5. QED BY <2>3, <2>4
<1>7. QED BY <1>3, <1>4, <1>5, <1>6

LEMMA FocusArrive ==
    ASSUME FocusInv, Arrive
    PROVE  Path' /\ Leads'
<1>1. call.pc = "arrive" /\ parent' = parent /\ Descend(call.t)
      BY DEF Arrive, treeVars
<1>2. CASE call.op /= "down"
  <2>1. keyTarget' = keyTarget /\ focused' = focused /\ call'.op = call.op
        BY <1>1, <1>2, FocusFacts DEF Arrive, Descend, TypeOK
  <2>2. QED BY <1>1, <1>2, <2>1, FocusFacts DEF Path, Leads, Exempt
<1>3. CASE call.op = "down"
  <2>1. /\ call.t \in Children(call.w) /\ call.t /= NoWidget /\ call.w \in Widget
        /\ call.t \in Widget /\ parent[call.t] = call.w
        BY <1>1, <1>3, FocusFacts, Facts DEF Routed, Children, FocusInv
  <2>2. /\ keyTarget' = [keyTarget EXCEPT ![call.w] = call.t]
        /\ focused' = focused \cup {call.t}
        BY <1>3 DEF Arrive
  <2>3. call'.op = call.op /\ call'.pc = "self" /\ call'.w = call.t
        BY <1>1, <2>1, FocusFacts DEF Descend, TypeOK
  <2>4. call.w = Root \/ call.w \in focused
        BY <1>1, <1>3, FocusFacts DEF Leads
  <2>5. \A w \in focused : parent[w] /= NoWidget =>
          /\ keyTarget[parent[w]] = w /\ parent[w] /= call.w
          /\ parent[w] = Root \/ parent[w] \in focused
        BY <1>1, <1>3, FocusFacts DEF Path, Leads, Exempt
  <2>6. /\ keyTarget'[call.w] = call.t
        /\ \A a \in Widget \ {call.w} : keyTarget'[a] = keyTarget[a]
        BY <2>1, <2>2, FocusFacts DEF TypeOK, Link
  <2>7. \A w \in focused : parent[w] /= NoWidget => parent[w] \in Widget
        BY FocusFacts DEF TypeOK, Link
  <2>8. Path'
    <3> SUFFICES ASSUME NEW w \in focused', parent[w] /= NoWidget
                 PROVE  /\ keyTarget'[parent[w]] = w
                        /\ parent[w] = Root \/ parent[w] \in focused'
        BY <1>1 DEF Path
    <3>1. CASE w = call.t
          BY <2>1, <2>2, <2>4, <2>6, <3>1
    <3>2. CASE w \in focused
          BY <2>2, <2>5, <2>6, <2>7, <3>2
    <3>3. QED BY <2>2, <3>1, <3>2
  <2>9. Leads'
        BY <2>2, <2>3 DEF Leads
  <2>10. QED BY <2>8, <2>9
<1>4. QED BY <1>2, <1>3
-----------------------------------------------------------------------------
(* The cuts below which the steps of the application change the tree.      *)
LEMMA CutByLoss ==
    ASSUME NEW K \in SUBSET Widget, Closed(K),
           \A c \in Widget : parent'[c] \in {parent[c], NoWidget},
           \A c \in Widget \ K : parent'[c] = parent[c]
    PROVE  Cut(K)
BY WidgetAssumption DEF Closed, Cut

LEMMA CutRemoveChild ==
    ASSUME TreeInv, NEW x \in Widget, RemoveChild(x)
    PROVE  /\ Cut(Subtree(x)) /\ parent'[x] = NoWidget
           /\ \A c \in Widget \ {x} : parent'[c] = parent[c]
<1>1. /\ parent'[x] = NoWidget
      /\ \A c \in Widget \ {x} : parent'[c] = parent[c]
      BY Facts DEF RemoveChild, TypeOK, Link
<1>2. Subtree(x) \in SUBSET Widget /\ x \in Subtree(x) /\ Closed(Subtree(x))
      BY SubtreeSelf, SubtreeClosed
<1>3. QED BY <1>1, <1>2, CutByLoss

LEMMA CutDestroy ==
    ASSUME NEW x \in Widget, Destroy(x)
    PROVE  /\ Cut(Subtree(x)) /\ \A c \in Subtree(x) : parent'[c] = NoWidget
<1>1. \A c \in Widget : parent'[c] = IF c \in Subtree(x) THEN NoWidget ELSE parent[c]
      BY DEF Destroy, Free, Zeroed
<1>2. Subtree(x) \in SUBSET Widget /\ Closed(Subtree(x))
      BY SubtreeSelf, SubtreeClosed
<1>3. QED BY <1>1, <1>2, CutByLoss

LEMMA CutDestroyChildren ==
    ASSUME TreeInv, Forest, NEW w \in Widget, DestroyChildren(w)
    PROVE  /\ Cut(Subtree(w) \ {w}) /\ \A c \in Subtree(w) \ {w} : parent'[c] = NoWidget
           /\ Held \cap (Subtree(w) \ {w}) = {}
<1> DEFINE K == Subtree(w) \ {w}
<1>1. \A c \in Widget : parent'[c] = IF c \in K THEN NoWidget ELSE parent[c]
      BY DEF DestroyChildren, Free, Zeroed
<1>2. K \in SUBSET Widget
      BY SubtreeSelf
<1>3. Closed(K)
      BY SubtreeClosed, ParentNotBelow DEF Closed
<1>4. Held \cap K = {}
      BY BelowLiveChild DEF DestroyChildren
<1> HIDE DEF K
<1>5. Cut(K) /\ \A c \in K : parent'[c] = NoWidget
      BY <1>1, <1>2, <1>3, CutByLoss
<1>6. QED BY <1>4, <1>5 DEF K

LEMMA CutAddChild ==
    ASSUME TreeInv, NEW w \in Widget, NEW c \in Widget, AddChild(w, c)
    PROVE  /\ Cut(Subtree(c)) /\ parent'[c] = w
           /\ \A d \in Widget \ {c} : parent'[d] = parent[d]
<1>1. /\ parent'[c] = w
      /\ \A d \in Widget \ {c} : parent'[d] = parent[d]
      BY Facts DEF AddChild, TypeOK, Link
<1>2. Subtree(c) \in SUBSET Widget /\ c \in Subtree(c) /\ Closed(Subtree(c))
      BY SubtreeSelf, SubtreeClosed
<1>3. \A d \in Widget : parent[d] \in Subtree(c) \/ parent'[d] \in Subtree(c) => d \in Subtree(c)
      BY <1>1, <1>2 DEF AddChild, Closed
<1>4. QED BY <1>1, <1>2, <1>3 DEF Cut
-----------------------------------------------------------------------------
(* A press under way does not notice what changes below a cut.             *)
LEMMA LeadsCut ==
    ASSUME FocusInv, NEW K, Cut(K), Held \cap K = {}, call' = call,
           focused' \subseteq focused, focused \ K \subseteq focused',
           \A c \in Widget : parent'[c] \in {parent[c], NoWidget}
    PROVE  Leads'
<1>1. ASSUME call.op = "down", call.pc /= "rest", call.w = Root \/ call.w \in focused
      PROVE  call.w = Root \/ call.w \in focused'
      BY <1>1 DEF Held
<1>2. ASSUME call.pc /= "rest", call.k \in Subtree(call.w)
      PROVE  call.k \in Subtree(call.w)'
  <2>1. call.w \in Widget /\ call.k \in Widget \ K
        BY <1>2, SubtreeSelf, FocusFacts DEF Held
  <2>2. PICK a \in Widget, v \in Widget \ K : a = call.w /\ v = call.k
        BY <2>1
  <2>3. v \in Subtree(a)'
        BY <1>2, <2>2, OutsideCut
  <2>4. Subtree(a)' = Subtree(call.w)'
        BY <2>2 DEF Subtree
  <2>5. QED BY <2>2, <2>3, <2>4
<1>3. \A c \in focused' : parent'[c] = call.w => c \in focused /\ parent[c] = call.w
      BY FocusFacts
<1>4. QED BY <1>1, <1>2, <1>3, FocusFacts DEF Leads

LEMMA FocusRemoveChild ==
    ASSUME FocusInv, NEW x \in Widget, RemoveChild(x)
    PROVE  Path' /\ Leads'
<1>1. /\ Cut(Subtree(x)) /\ parent'[x] = NoWidget
      /\ \A c \in Widget \ {x} : parent'[c] = parent[c]
      BY CutRemoveChild DEF FocusInv
<1>2. /\ call' = call /\ focused' = focused /\ Held \cap Subtree(x) = {}
      /\ keyTarget' = ForgetsChild(keyTarget, x)
      BY DEF RemoveChild, MayTake
<1>3. Path'
  <2> SUFFICES ASSUME NEW w \in focused, parent'[w] /= NoWidget
               PROVE  /\ keyTarget'[parent'[w]] = w
                      /\ parent'[w] = Root \/ parent'[w] \in focused \/ Exempt(w)'
      BY <1>2 DEF Path
  <2>1. w /= x /\ w \in Widget /\ parent'[w] = parent[w] /\ parent[w] \in Widget
        BY <1>1, FocusFacts DEF TypeOK, Link
  <2>2. /\ keyTarget[parent[w]] = w
        /\ parent[w] = Root \/ parent[w] \in focused \/ Exempt(w)
        BY <2>1, FocusFacts DEF Path
  <2>3. keyTarget'[parent[w]] = w
        BY <1>2, <2>1, <2>2 DEF ForgetsChild
  <2>4. Exempt(w)' <=> Exempt(w)
        BY <1>2, <2>1 DEF Exempt
  <2>5. QED BY <2>1, <2>2, <2>3, <2>4
<1>4. Leads'
      BY <1>1, <1>2, LeadsCut
<1>5. QED BY <1>3, <1>4

(* widget_destroy and widget_destroy_children.                             *)
LEMMA FocusFree ==
    ASSUME FocusInv, NEW K, Cut(K), \A c \in K : parent'[c] = NoWidget,
           Held \cap K = {}, call' = call, focused' = focused \ K,
           \A a \in Widget \ K, w \in Widget \ K : keyTarget[a] = w => keyTarget'[a] = w
    PROVE  Path' /\ Leads'
<1>1. /\ K \in SUBSET Widget /\ \A c \in Widget \ K : parent'[c] = parent[c]
      /\ \A c \in Widget : parent[c] \in K => c \in K
      BY DEF Cut
<1>2. Path'
  <2> SUFFICES ASSUME NEW w \in focused', parent'[w] /= NoWidget
               PROVE  /\ keyTarget'[parent'[w]] = w
                      /\ parent'[w] = Root \/ parent'[w] \in focused' \/ Exempt(w)'
      BY DEF Path
  <2>1. /\ w \in focused /\ w \in Widget \ K /\ parent'[w] = parent[w]
        /\ parent[w] \in Widget \ K
        BY <1>1, FocusFacts DEF TypeOK, Link
  <2>2. /\ keyTarget[parent[w]] = w
        /\ parent[w] = Root \/ parent[w] \in focused \/ Exempt(w)
        BY <2>1, FocusFacts DEF Path
  <2>3. Exempt(w)' <=> Exempt(w)
        BY <2>1 DEF Exempt
  <2>4. QED BY <2>1, <2>2, <2>3
<1>3. \A c \in Widget : parent'[c] \in {parent[c], NoWidget}
      BY <1>1
<1>4. Leads'
      BY <1>3, LeadsCut
<1>5. QED BY <1>2, <1>4

LEMMA FocusDestroy ==
    ASSUME FocusInv, NEW x \in Widget, Destroy(x)
    PROVE  Path' /\ Leads'
<1>1. Cut(Subtree(x)) /\ \A c \in Subtree(x) : parent'[c] = NoWidget
      BY CutDestroy
<1>2. /\ Held \cap Subtree(x) = {} /\ call' = call /\ focused' = focused \ Subtree(x)
      /\ keyTarget' = Zeroed(ForgetsChild(keyTarget, x), Subtree(x))
      BY DEF Destroy, MayTake, Free
<1>3. x \in Subtree(x)
      BY SubtreeSelf
<1>4. \A a \in Widget \ Subtree(x), w \in Widget \ Subtree(x) :
        keyTarget[a] = w => keyTarget'[a] = w
      BY <1>2, <1>3 DEF Zeroed, ForgetsChild
<1>5. QED BY <1>1, <1>2, <1>4, FocusFree

LEMMA FocusDestroyChildren ==
    ASSUME FocusInv, NEW w \in Widget, DestroyChildren(w)
    PROVE  Path' /\ Leads'
<1> DEFINE K == Subtree(w) \ {w}
<1>1. Cut(K) /\ (\A c \in K : parent'[c] = NoWidget) /\ Held \cap K = {}
      BY CutDestroyChildren DEF FocusInv
<1>2. call' = call /\ focused' = focused \ K /\ keyTarget' = Zeroed(keyTarget, K)
      BY DEF DestroyChildren, Free
<1> HIDE DEF K
<1>3. \A a \in Widget \ K, v \in Widget \ K : keyTarget[a] = v => keyTarget'[a] = v
      BY <1>2 DEF Zeroed
<1>4. QED BY <1>1, <1>2, <1>3, FocusFree

LEMMA SubtreeGrows ==
    ASSUME NEW a \in Widget, \A c \in Widget : parent[c] \in Widget => parent'[c] = parent[c]
    PROVE  Subtree(a) \subseteq Subtree(a)'
<1> SUFFICES ASSUME NEW v \in Subtree(a), NEW S \in SUBSET Widget, a \in S,
                    \A c \in Widget : parent'[c] \in S => c \in S
             PROVE  v \in S
    BY DEF Subtree
<1>1. \A c \in Widget : parent[c] \in S => c \in S
      OBVIOUS
<1>2. QED BY <1>1 DEF Subtree

LEMMA FocusAddChild ==
    ASSUME FocusInv, Patient, NEW w \in Widget, NEW c \in Widget, AddChild(w, c)
    PROVE  Path' /\ Leads'
<1>1. /\ call' = call /\ focused' = focused /\ keyTarget' = keyTarget
      /\ c \notin focused /\ parent[c] = NoWidget
      BY DEF AddChild, pointers
<1>2. \A d \in Widget \ {c} : parent'[d] = parent[d]
      BY CutAddChild DEF FocusInv
<1>3. \A d \in focused : parent'[d] = parent[d]
      BY <1>1, <1>2, FocusFacts
<1>4. Path'
      BY <1>1, <1>3, FocusFacts DEF Path, Exempt
<1>5. Subtree(call.w) \subseteq Subtree(call.w)'
  <2>1. PICK a \in Widget : a = call.w
        BY FocusFacts
  <2>2. \A d \in Widget : parent[d] \in Widget => parent'[d] = parent[d]
        BY <1>1, <1>2, WidgetAssumption
  <2>3. Subtree(a) \subseteq Subtree(a)'
        BY <2>2, SubtreeGrows
  <2>4. Subtree(a)' = Subtree(call.w)'
        BY <1>1, <2>1 DEF Subtree
  <2>5. QED BY <2>1, <2>3, <2>4
<1>6. Leads'
      BY <1>1, <1>3, <1>5, FocusFacts DEF Leads
<1>7. QED BY <1>4, <1>6

LEMMA FocusNext ==
    ASSUME Patient, FocusInv, [Next]_vars
    PROVE  FocusInv'
<1>1. TreeInv' /\ Forest'
      BY TreeNext, ForestNext DEF FocusInv
<1>2. Path' /\ Leads'
  <2>1. CASE UNCHANGED vars
    <3>1. UNCHANGED <<parent, keyTarget, focused, call>>
          BY <2>1 DEF vars, treeVars, pointers
    <3>2. Subtree(call.w)' = Subtree(call.w)
          BY <3>1 DEF Subtree
    <3>3. QED BY <3>1, <3>2, FocusFacts DEF Path, Leads, Exempt
  <2>2. ASSUME NEW op \in Op, Begin(op) PROVE Path' /\ Leads'
        BY <2>2, FocusBegin
  <2>3. CASE Dispatch
        BY <2>3, FocusSelf, FocusFind, FocusWalk, FocusArrive DEF Dispatch
  <2>4. CASE Application
        BY <2>4, FocusRemoveChild, FocusDestroy, FocusDestroyChildren, FocusAddChild
           DEF Application
  <2>5. QED BY <2>1, <2>2, <2>3, <2>4 DEF Next
<1>3. QED BY <1>1, <1>2 DEF FocusInv

(* However an event interleaves with handlers that add, remove and destroy *)
(* widgets, the focused widgets form a path from the window along          *)
(* key_target, as long as the application adds no widget that still has    *)
(* its focus flag set.                                                     *)
THEOREM FocusCorrect == ASSUME Patient PROVE Spec => []FocusIsAPath
<1>1. FocusInv => FocusIsAPath
      BY DEF FocusInv, Path, Exempt, FocusIsAPath
<1>2. FocusInv /\ [Next]_vars => FocusInv'
      BY FocusNext
<1>3. QED BY <1>1, <1>2, FocusInit, PTL DEF Spec
-----------------------------------------------------------------------------
(* Pressed widgets and the grabs that lead to them.                        *)
OnPath(c) == \E p \in pressed : p \in Subtree(c)

Grabs(c) == parent[c] /= NoWidget /\ grab[parent[c]] = c

(* A release is on its way down.                                           *)
Passing == call.op = "up" /\ call.pc /= "rest"

InTree == /\ pressed \subseteq Subtree(Root)
          /\ call.pc /= "rest" => call.w \in Subtree(Root)

(* Each grab leads to a pressed widget, if no switch keeps one, and the    *)
(* path to every pressed widget is grabbed, behind a release that is under *)
(* way excepted.                                                           *)
GrabsLead ==
    \A c \in Widget :
      /\ Switch = {} /\ Grabs(c) => OnPath(c)
      /\ parent[c] /= NoWidget /\ OnPath(c)
         /\ (Passing => c \in Subtree(call.w) /\ c /= call.w) => Grabs(c)

(* What a release has ungrabbed is the upper end of a path.                *)
GrabsGoOn ==
    Switch = {} /\ Passing => \A c, d \in Widget :
      Grabs(c) /\ d \in Subtree(c) /\ parent[d] /= NoWidget /\ OnPath(d) => Grabs(d)

Track(w) == \A p \in pressed : p \in Subtree(w) \/ w \in Subtree(p)

(* A press meets no pressed widget beside its way; a release has all of    *)
(* them ahead, and is over when none is left.                              *)
EventOnTrack ==
    /\ call.op = "down" /\ call.pc /= "rest" => Track(call.w)
    /\ call.op = "down" /\ call.pc \in {"walk", "walked", "arrive"} => Track(call.t)
    /\ Passing => /\ call.pc \in {"self", "find"}
                  /\ pressed \subseteq Subtree(call.w)
                  /\ call.pc = "find" => call.w \notin pressed
    /\ call.op = "up" /\ call.pc = "rest" => pressed = {}

GrabParts == InTree /\ GrabsLead /\ GrabsGoOn /\ EventOnTrack

GrabInv == TreeInv /\ Forest /\ GrabParts

LEMMA GrabInit == Init => GrabInv
<1> SUFFICES ASSUME Init PROVE GrabInv
    OBVIOUS
<1>1. pressed = {} /\ call.pc = "rest" /\ \A w \in Widget : grab[w] = NoWidget
      BY DEF Init
<1>2. InTree /\ GrabsGoOn /\ EventOnTrack
      BY <1>1 DEF InTree, GrabsGoOn, EventOnTrack, Passing
<1>3. \A c \in Widget : parent[c] = NoWidget \/ parent[c] \in Widget
      BY WidgetAssumption DEF Init
<1>4. GrabsLead
      BY <1>1, <1>3, WidgetAssumption DEF GrabsLead, Grabs, OnPath
<1>5. QED BY <1>2, <1>4, TreeInit, ForestInit DEF GrabInv, GrabParts

LEMMA GrabFacts ==
    ASSUME GrabInv
    PROVE  /\ TreeInv /\ TypeOK /\ Routed /\ Forest
           /\ InTree /\ GrabsLead /\ GrabsGoOn /\ EventOnTrack
           /\ NoWidget \notin Widget /\ Root \in Widget
           /\ pressed \subseteq Widget /\ call.w \in Widget
           /\ \A c \in Widget : parent[c] /= NoWidget => parent[c] \in Widget
<1>1. TreeInv /\ Forest /\ InTree /\ GrabsLead /\ GrabsGoOn /\ EventOnTrack
      BY DEF GrabInv, GrabParts
<1>2. TypeOK /\ Routed
      BY <1>1, Facts
<1>3. /\ pressed \subseteq Widget /\ call.w \in Widget
      /\ \A c \in Widget : parent[c] /= NoWidget => parent[c] \in Widget
      BY <1>2, WidgetAssumption DEF TypeOK, Link
<1>4. QED BY <1>1, <1>2, <1>3, WidgetAssumption

(* A step of an event that changes neither grabs nor presses.              *)
LEMMA SameGrabs ==
    ASSUME parent' = parent, grab' = grab, pressed' = pressed
    PROVE  \A c : /\ Subtree(c)' = Subtree(c) /\ Grabs(c)' = Grabs(c)
                  /\ OnPath(c)' = OnPath(c) /\ Track(c)' = Track(c)
BY DEF Subtree, Grabs, OnPath, Track

(* Such a step of another event than a release has EventOnTrack to show.   *)
LEMMA GrabQuietStep ==
    ASSUME GrabInv, parent' = parent, grab' = grab, pressed' = pressed,
           ~Passing, ~Passing', EventOnTrack',
           call'.pc /= "rest" => call'.w \in Subtree(Root)
    PROVE  GrabParts'
<1>1. \A c : /\ Subtree(c)' = Subtree(c) /\ Grabs(c)' = Grabs(c)
             /\ OnPath(c)' = OnPath(c)
      BY SameGrabs
<1>2. InTree'
      BY <1>1, GrabFacts DEF InTree
<1>3. GrabsLead'
      BY <1>1, GrabFacts DEF GrabsLead
<1>4. GrabsGoOn'
      BY DEF GrabsGoOn
<1>5. QED BY <1>2, <1>3, <1>4 DEF GrabParts

LEMMA GrabBegin ==
    ASSUME GrabInv, NEW op \in Op, Begin(op)
    PROVE  GrabParts'
<1>1. /\ parent' = parent /\ grab' = grab /\ pressed' = pressed
      /\ call'.op = op /\ call'.w = Root /\ call'.pc = "self" /\ call.pc = "rest"
      BY DEF Begin, treeVars, pointers
<1>2. \A c : /\ Subtree(c)' = Subtree(c) /\ Grabs(c)' = Grabs(c)
             /\ OnPath(c)' = OnPath(c)
      BY <1>1, SameGrabs
<1>3. \A c \in Widget : /\ Switch = {} /\ Grabs(c) => OnPath(c)
                        /\ parent[c] /= NoWidget /\ OnPath(c) => Grabs(c)
      BY <1>1, GrabFacts DEF GrabsLead, Passing
<1>4. InTree'
      BY <1>1, <1>2, GrabFacts, SubtreeSelf DEF InTree
<1>5. GrabsLead' /\ GrabsGoOn'
      BY <1>1, <1>2, <1>3 DEF GrabsLead, GrabsGoOn
<1>6. EventOnTrack'
  <2>1. pressed \subseteq Subtree(Root)
        BY GrabFacts DEF InTree
  <2>2. /\ Subtree(call.w)' = Subtree(Root) /\ Track(call.w)'
        BY <1>1, <1>2, <2>1 DEF Subtree, Track
  <2>3. QED BY <1>1, <2>1, <2>2 DEF EventOnTrack, Passing
<1>7. QED BY <1>4, <1>5, <1>6 DEF GrabParts

(* widget_grab when a widget is pressed.                                   *)
LEMMA GrabPress ==
    ASSUME GrabInv, NEW w \in Widget, call.w = w, call.op = "down", call.pc = "self",
           parent' = parent, grab' = Grabbed(w), pressed' = pressed \cup {w},
           call'.w = w, call'.op = "down", call'.pc = "find"
    PROVE  GrabParts'
<1>1. \A c : Subtree(c)' = Subtree(c)
      BY DEF Subtree
<1>2. /\ Track(w) /\ w \in Subtree(Root) /\ pressed \subseteq Subtree(Root)
      /\ pressed \subseteq Widget /\ Forest /\ NoWidget \notin Widget
      BY GrabFacts DEF EventOnTrack, InTree
<1>3. \A c \in Widget : /\ Switch = {} /\ Grabs(c) => OnPath(c)
                        /\ parent[c] /= NoWidget /\ OnPath(c) => Grabs(c)
      BY GrabFacts DEF GrabsLead, Passing
<1>4. \A c \in Widget : parent[c] /= NoWidget => parent[c] \in Widget
      BY GrabFacts
<1>5. ASSUME NEW c \in Widget, Switch = {}, Grabs(c)' PROVE OnPath(c)'
  <2>1. parent[c] \in Widget /\ Grabbed(w)[parent[c]] = c
        BY <1>4, <1>5 DEF Grabs
  <2>2. CASE parent[c] \in Above(w)
    <3>1. Toward(parent[c], w) = c
          BY <2>1, <2>2 DEF Grabbed
    <3>2. w \in Subtree(c)
          BY <2>2, <3>1, TowardChild
    <3>3. QED BY <1>1, <3>2 DEF OnPath
  <2>3. CASE parent[c] \notin Above(w)
    <3>1. Grabs(c)
          BY <1>2, <2>1, <2>3 DEF Grabbed, Grabs
    <3>2. OnPath(c)
          BY <1>3, <1>5, <3>1
    <3>3. QED BY <1>1, <3>2 DEF OnPath
  <2>4. QED BY <2>2, <2>3
<1>6. ASSUME NEW c \in Widget, parent[c] /= NoWidget, OnPath(c)' PROVE Grabs(c)'
  <2>1. parent[c] \in Widget
        BY <1>4, <1>6
  <2>2. PICK p \in pressed \cup {w} : p \in Subtree(c)
        BY <1>1, <1>6 DEF OnPath
  <2>3. CASE w \in Subtree(c)
    <3>1. parent[c] \in Above(w) /\ Toward(parent[c], w) = c
          BY <1>2, <2>1, <2>3, TowardIs
    <3>2. QED BY <1>6, <2>1, <3>1 DEF Grabs, Grabbed
  <2>4. CASE w \notin Subtree(c)
    <3>1. p \in pressed /\ p \in Widget
          BY <1>2, <2>2, <2>4
    <3>2. p \in Subtree(w)
      <4>1. w \notin Subtree(p)
            BY <2>2, <2>4, SubtreeNested
      <4>2. QED BY <1>2, <3>1, <4>1 DEF Track
    <3>3. c \in Subtree(w) /\ c /= w
      <4>1. c \in Subtree(w) \/ w \in Subtree(c)
            BY <2>2, <3>2, SubtreesNest
      <4>2. QED BY <2>4, <4>1, SubtreeSelf
    <3>4. parent[c] \in Subtree(w)
          BY <3>3, SubtreeParent
    <3>5. parent[c] \notin Above(w)
          BY <1>2, <3>4, SubtreesDiffer DEF Above
    <3>6. Grabs(c)
          BY <1>3, <1>6, <2>2, <3>1 DEF OnPath
    <3>7. QED BY <1>6, <2>1, <3>5, <3>6 DEF Grabs, Grabbed
  <2>5. QED BY <2>3, <2>4
<1>7. GrabsLead' /\ GrabsGoOn'
      BY <1>5, <1>6 DEF GrabsLead, GrabsGoOn, Passing
<1>8. InTree'
      BY <1>1, <1>2 DEF InTree
<1>9. EventOnTrack'
  <2>1. w \in Subtree(w)
        BY SubtreeSelf
  <2>2. Track(w)'
        BY <1>1, <1>2, <2>1 DEF Track
  <2>3. Track(call.w)'
        BY <2>2 DEF Track, Subtree
  <2>4. QED BY <2>3 DEF EventOnTrack, Passing
<1>10. QED BY <1>7, <1>8, <1>9 DEF GrabParts

(* A grab that leads to w is given up with w, up to its upper end.         *)
LEMMA UngrabReaches ==
    ASSUME Switch = {}, Forest, GrabsGoOn, Passing,
           NEW w \in Widget, NEW p \in pressed, p \in Subtree(w),
           NEW c \in Widget, Grabs(c), parent[c] \in Widget, w \in Subtree(c),
           NoWidget \notin Widget
    PROVE  Ungrabbed(w)[parent[c]] = NoWidget
<1> DEFINE a == parent[c]
<1>1. a \in Above(w) /\ Toward(a, w) = c
      BY TowardIs
<1>2. ASSUME NEW b \in Above(w) \cap Subtree(a) PROVE grab[b] = Toward(b, w)
  <2> DEFINE d == Toward(b, w)
  <2>1. d \in Widget /\ parent[d] = b /\ w \in Subtree(d) /\ b \in Widget
        BY TowardChild DEF Above
  <2>2. CASE b = a
        BY <1>1, <2>2 DEF Grabs
  <2>3. CASE b /= a
    <3> HIDE DEF d
    <3>1. a \in Above(b)
          BY <2>1, <2>3 DEF Above
    <3>2. PICK e \in Widget : parent[e] = a /\ b \in Subtree(e)
          BY <2>1, <3>1, BelowChild
    <3>3. d \in Subtree(e) /\ w \in Subtree(e)
          BY <2>1, <3>2, SubtreeNested, ChildBelow
    <3>4. e = c
          BY <3>2, <3>3, OneChildToward
    <3>5. OnPath(d)
      <4>1. p \in Subtree(d)
            BY <2>1, SubtreeNested
      <4>2. QED BY <4>1 DEF OnPath
    <3>6. Grabs(d)
          BY <2>1, <3>3, <3>4, <3>5 DEF GrabsGoOn
    <3>7. QED BY <2>1, <3>6 DEF Grabs, d
  <2>4. QED BY <2>2, <2>3
<1>3. QED BY <1>1, <1>2 DEF Ungrabbed

(* widget_ungrab when the release arrives at w.                            *)
LEMMA GrabRelease ==
    ASSUME GrabInv, NEW w \in Widget, call.w = w, call.op = "up", call.pc = "self",
           parent' = parent, grab' = Ungrabbed(w), pressed' = pressed \ {w},
           call'.w = w, call'.op = "up", call'.pc = "find"
    PROVE  GrabParts'
<1>1. \A c : Subtree(c)' = Subtree(c)
      BY DEF Subtree
<1>2. /\ w \in Subtree(Root) /\ pressed \subseteq Subtree(Root) /\ pressed \subseteq Widget
      /\ Forest /\ NoWidget \notin Widget /\ Passing /\ Passing' /\ GrabsGoOn /\ GrabsLead
      BY GrabFacts DEF InTree, Passing
<1>3. pressed \subseteq Subtree(w)
      BY <1>2, GrabFacts DEF EventOnTrack
<1>4. \A c \in Widget : parent[c] /= NoWidget => parent[c] \in Widget
      BY GrabFacts
<1>5. \A c \in Widget : OnPath(c)' => OnPath(c)
      BY <1>1 DEF OnPath
<1>6. ASSUME NEW c \in Widget, Grabs(c)' PROVE Grabs(c) /\ parent[c] \in Widget
  <2>1. parent[c] \in Widget /\ Ungrabbed(w)[parent[c]] = c
        BY <1>4, <1>6 DEF Grabs
  <2>2. QED BY <1>2, <2>1 DEF Ungrabbed, Grabs
<1>7. ASSUME Switch = {}, NEW c \in Widget, Grabs(c)', NEW p \in pressed
      PROVE  w \notin Subtree(c)
  <2>1. Ungrabbed(w)[parent[c]] /= NoWidget
        BY <1>2, <1>7 DEF Grabs
  <2>2. QED BY <1>2, <1>3, <1>6, <1>7, <2>1, UngrabReaches
<1>8. ASSUME Switch = {}, NEW c \in Widget, Grabs(c)' PROVE OnPath(c)'
  <2>1. PICK p \in pressed : p \in Subtree(c)
        BY <1>2, <1>6, <1>8 DEF GrabsLead, OnPath
  <2>2. p /= w
        BY <1>7, <1>8, <2>1
  <2>3. QED BY <1>1, <2>1, <2>2 DEF OnPath
<1>9. ASSUME NEW c \in Widget, parent[c] /= NoWidget, OnPath(c)', c \in Subtree(w), c /= w
      PROVE  Grabs(c)'
  <2>1. Grabs(c)
        BY <1>2, <1>5, <1>9 DEF GrabsLead
  <2>2. parent[c] \in Subtree(w) /\ parent[c] \in Widget
        BY <1>4, <1>9, SubtreeParent
  <2>3. parent[c] \notin Above(w)
        BY <1>2, <2>2, SubtreesDiffer DEF Above
  <2>4. QED BY <2>1, <2>2, <2>3 DEF Grabs, Ungrabbed
<1>10. ASSUME Switch = {}, NEW c \in Widget, NEW d \in Widget, Grabs(c)', d \in Subtree(c),
              parent[d] /= NoWidget, OnPath(d)'
       PROVE  Grabs(d)'
  <2>1. Grabs(d) /\ parent[d] \in Widget
        BY <1>2, <1>4, <1>5, <1>6, <1>10 DEF GrabsGoOn
  <2>2. PICK p \in pressed : p \in Subtree(d)
        BY <1>5, <1>10 DEF OnPath
  <2>3. w \notin Subtree(d)
        BY <1>7, <1>10, SubtreeNested
  <2>4. CASE Ungrabbed(w)[parent[d]] = grab[parent[d]]
        BY <2>1, <2>4 DEF Grabs
  <2>5. CASE Ungrabbed(w)[parent[d]] /= grab[parent[d]]
    <3>1. /\ parent[d] \in Above(w)
          /\ \A b \in Above(w) \cap Subtree(parent[d]) : grab[b] = Toward(b, w)
          BY <2>1, <2>5 DEF Ungrabbed
    <3>2. Toward(parent[d], w) = d
          BY <2>1, <3>1, SubtreeSelf DEF Grabs
    <3>3. QED BY <2>3, <3>1, <3>2, TowardChild
  <2>6. QED BY <2>4, <2>5
<1>11. GrabsLead'
  <2>1. Subtree(call.w)' = Subtree(w)
        BY DEF Subtree
  <2>2. QED BY <1>2, <1>8, <1>9, <2>1 DEF GrabsLead
<1>12. GrabsGoOn'
      BY <1>1, <1>10 DEF GrabsGoOn
<1>13. InTree'
      BY <1>1, <1>2 DEF InTree
<1>14. EventOnTrack'
  <2>1. Subtree(call.w)' = Subtree(w)
        BY DEF Subtree
  <2>2. QED BY <1>3, <2>1 DEF EventOnTrack, Passing
<1>15. QED BY <1>11, <1>12, <1>13, <1>14 DEF GrabParts

(* An aborted switch, which keeps the grab.                                *)
LEMMA GrabKept ==
    ASSUME GrabInv, NEW w \in Switch, call.w = w, call.op = "up", call.pc = "self",
           parent' = parent, grab' = grab, pressed' = pressed \ {w},
           call'.w = w, call'.op = "up", call'.pc = "find"
    PROVE  GrabParts'
<1>1. \A c : Subtree(c)' = Subtree(c) /\ Grabs(c)' = Grabs(c) /\ (OnPath(c)' => OnPath(c))
      BY DEF Subtree, Grabs, OnPath
<1>2. Subtree(call.w)' = Subtree(call.w)
      BY DEF Subtree
<1>3. Passing /\ Passing' /\ Switch /= {}
      BY DEF Passing
<1>4. InTree' /\ GrabsLead' /\ GrabsGoOn'
      BY <1>1, <1>2, <1>3, GrabFacts DEF InTree, GrabsLead, GrabsGoOn
<1>5. EventOnTrack'
      BY <1>2, <1>3, GrabFacts DEF EventOnTrack, Passing
<1>6. QED BY <1>4, <1>5 DEF GrabParts

LEMMA GrabSelf ==
    ASSUME GrabInv, Self
    PROVE  GrabParts'
<1>1. /\ call.pc = "self" /\ OnEvent(call.op, call.w) /\ parent' = parent
      /\ call'.op = call.op /\ call'.w = call.w /\ call'.t = call.t /\ call'.pc = "find"
      BY GrabFacts DEF Self, treeVars, TypeOK
<1>2. call.w \in Widget /\ call.op \in Op /\ pressed \subseteq Grabber
      BY GrabFacts DEF TypeOK
<1>3. PICK w \in Widget : w = call.w
      BY <1>2
<1>4. CASE call.op = "down" /\ w \in Grabber
  <2>1. grab' = Grabbed(w) /\ pressed' = pressed \cup {w}
        BY <1>1, <1>3, <1>4 DEF OnEvent
  <2>2. QED BY <1>1, <1>3, <1>4, <2>1, GrabPress
<1>5. CASE call.op = "up" /\ w \in Grabber /\ ~(w \in Switch /\ w \in aborted)
  <2>1. grab' = Ungrabbed(w) /\ pressed' = pressed \ {w}
        BY <1>1, <1>3, <1>5 DEF OnEvent
  <2>2. QED BY <1>1, <1>3, <1>5, <2>1, GrabRelease
<1>6. CASE call.op = "up" /\ w \in Grabber /\ w \in Switch /\ w \in aborted
  <2>1. grab' = grab /\ pressed' = pressed \ {w}
        BY <1>1, <1>3, <1>6 DEF OnEvent
  <2>2. QED BY <1>1, <1>3, <1>6, <2>1, GrabKept
<1>7. CASE ~(call.op \in {"down", "up"} /\ w \in Grabber)
  <2>1. grab' = grab /\ pressed' = pressed
    <3>1. CASE call.op = "move" /\ w \in Scroll /\ w \in pressed
          BY <1>1, <1>3, <3>1 DEF OnEvent
    <3>2. CASE ~(call.op = "move" /\ w \in Scroll /\ w \in pressed)
          BY <1>1, <1>3, <1>7, <3>2 DEF OnEvent
    <3>3. QED BY <3>1, <3>2
  <2>2. \A c : /\ Subtree(c)' = Subtree(c) /\ Grabs(c)' = Grabs(c)
               /\ OnPath(c)' = OnPath(c) /\ Track(c)' = Track(c)
        BY <1>1, <2>1, SameGrabs
  <2>3. Subtree(call.w)' = Subtree(call.w) /\ Track(call.w)' = Track(call.w)
        BY <1>1, <2>1 DEF Subtree, Track
  <2>4. InTree' /\ GrabsLead' /\ GrabsGoOn'
        BY <1>1, <2>1, <2>2, <2>3, GrabFacts DEF InTree, GrabsLead, GrabsGoOn, Passing
  <2>5. call.op = "up" => call.w \notin pressed
        BY <1>2, <1>3, <1>7
  <2>6. EventOnTrack'
        BY <1>1, <2>1, <2>3, <2>5, GrabFacts DEF EventOnTrack, Passing
  <2>7. QED BY <2>4, <2>6 DEF GrabParts
<1>8. QED BY <1>4, <1>5, <1>6, <1>7

(* The child that a press or a release goes to is the one that leads to    *)
(* the pressed widgets, if they are below.                                 *)
LEMMA GrabAhead ==
    ASSUME GrabInv, call.pc /= "rest", NEW p \in pressed, p \in Subtree(call.w), p /= call.w,
           NEW t \in Targets(call.op, call.w), call.op \in {"down", "up"}
    PROVE  t \in Widget /\ parent[t] = call.w /\ p \in Subtree(t)
<1>1. p \in Widget /\ call.w \in Widget /\ call.w \in Above(p)
      BY GrabFacts DEF Above
<1>2. PICK c \in Widget : parent[c] = call.w /\ p \in Subtree(c)
      BY <1>1, BelowChild
<1>3. OnPath(c) /\ parent[c] /= NoWidget
      BY <1>1, <1>2, GrabFacts DEF OnPath
<1>4. c \in Subtree(call.w) /\ c /= call.w
      BY <1>1, <1>2, ChildBelow, ParentNotBelow, SubtreeSelf, GrabFacts
<1>5. Grabs(c)
      BY <1>3, <1>4, GrabFacts DEF GrabsLead
<1>6. grab[call.w] = c
      BY <1>2, <1>5 DEF Grabs
<1>7. t = c
      BY <1>6, GrabFacts DEF Targets
<1>8. QED BY <1>2, <1>7

LEMMA TargetsBelow ==
    ASSUME GrabInv, call.pc /= "rest", NEW t \in Targets(call.op, call.w), t /= NoWidget
    PROVE  /\ t \in Widget /\ parent[t] = call.w
           /\ t \in Subtree(call.w) /\ t \in Subtree(Root)
<1>1. call.w \in Widget /\ call.w \in alive /\ call.w \in Subtree(Root) /\ TreeInv
      BY GrabFacts, Facts DEF InTree
<1>2. t \in Children(call.w)
      BY <1>1, Facts DEF Targets, LeadsDown
<1>3. t \in Widget /\ parent[t] = call.w
      BY <1>1, <1>2, Facts DEF Children
<1>4. QED BY <1>1, <1>3, ChildBelow, SubtreeNested, GrabFacts

(* A press stays on the track of the pressed widgets.                      *)
LEMMA TrackDown ==
    ASSUME GrabInv, call.pc /= "rest", call.op = "down",
           NEW t \in Targets(call.op, call.w), t /= NoWidget
    PROVE  Track(t)
<1> SUFFICES ASSUME NEW p \in pressed PROVE p \in Subtree(t) \/ t \in Subtree(p)
    BY DEF Track
<1>1. /\ p \in Widget /\ call.w \in Widget /\ t \in Widget /\ parent[t] = call.w
      /\ p \in Subtree(call.w) \/ call.w \in Subtree(p)
      BY TargetsBelow, GrabFacts DEF EventOnTrack, Track
<1>2. CASE call.w \in Subtree(p)
  <2>1. t \in Subtree(p)
        BY <1>1, <1>2, SubtreeClosed DEF Closed
  <2>2. QED BY <2>1
<1>3. CASE call.w \notin Subtree(p)
  <2>1. p /= call.w /\ p \in Subtree(call.w)
        BY <1>1, <1>3, SubtreeSelf
  <2>2. p \in Subtree(t)
        BY <2>1, GrabAhead
  <2>3. QED BY <2>2
<1>4. QED BY <1>2, <1>3

LEMMA GrabFind ==
    ASSUME GrabInv, Find
    PROVE  GrabParts'
<1>1. PICK t \in Targets(call.op, call.w) :
        \/ /\ FindWalks(t)
           /\ call' = [call EXCEPT !.pc = "walk", !.t = t,
                         !.k = IF call.op = "down" THEN keyTarget[call.w] ELSE target[call.w]]
        \/ /\ ~FindWalks(t)
           /\ Descend(t)
      BY DEF Find
<1>2. call.pc = "find" /\ parent' = parent /\ grab' = grab /\ pressed' = pressed
      BY DEF Find, treeVars
<1>3. /\ call.w \in Widget /\ call.w \in Subtree(Root)
      /\ call.op = "down" => Track(call.w)
      BY <1>2, GrabFacts DEF InTree, EventOnTrack
<1>4. t /= NoWidget => /\ t \in Widget /\ parent[t] = call.w
                       /\ t \in Subtree(call.w) /\ t \in Subtree(Root)
      BY <1>2, TargetsBelow
<1>5. call.op = "down" /\ t /= NoWidget => Track(t)
      BY <1>2, TrackDown
<1>6. \A c : /\ Subtree(c)' = Subtree(c) /\ Grabs(c)' = Grabs(c)
             /\ OnPath(c)' = OnPath(c) /\ Track(c)' = Track(c)
      BY <1>2, SameGrabs
<1>7. CASE FindWalks(t) /\ call'.pc = "walk" /\ call'.w = call.w /\ call'.op = call.op
           /\ call'.t = t
  <2>1. call.op /= "up" /\ (call.op = "down" => t /= NoWidget)
        BY <1>7 DEF FindWalks
  <2>2. Track(call.w)' = Track(call.w)
        BY <1>2, <1>7 DEF Track, Subtree
  <2>3. call.op = "down" => Track(call.t)'
    <3>1. Track(call.t)' = Track(t)
          BY <1>2, <1>7 DEF Track, Subtree
    <3>2. QED BY <1>5, <2>1, <3>1
  <2>4. EventOnTrack'
        BY <1>3, <1>7, <2>1, <2>2, <2>3 DEF EventOnTrack, Passing
  <2>5. QED BY <1>2, <1>3, <1>7, <2>1, <2>4, GrabQuietStep DEF Passing
<1>8. CASE t = NoWidget /\ call'.pc = "rest" /\ call'.op = call.op
  <2>1. call.op = "up" => pressed = {}
    <3> SUFFICES ASSUME call.op = "up", NEW p \in pressed PROVE FALSE
        OBVIOUS
    <3>1. p \in Subtree(call.w) /\ p /= call.w
          BY <1>2, GrabFacts DEF EventOnTrack, Passing
    <3>2. t \in Widget
          BY <1>2, <3>1, GrabAhead
    <3>3. QED BY <1>8, <3>2, GrabFacts
  <2>2. EventOnTrack' /\ ~Passing'
        BY <1>2, <1>8, <2>1 DEF EventOnTrack, Passing
  <2>3. CASE call.op = "up"
    <3>1. InTree' /\ GrabsGoOn'
          BY <1>2, <1>8, <2>1, <2>2, <2>3 DEF InTree, GrabsGoOn
    <3>2. \A c : ~OnPath(c)
          BY <2>1, <2>3 DEF OnPath
    <3>3. GrabsLead'
          BY <1>6, <3>2, GrabFacts DEF GrabsLead
    <3>4. QED BY <2>2, <3>1, <3>3 DEF GrabParts
  <2>4. CASE call.op /= "up"
        BY <1>2, <1>8, <2>2, <2>4, GrabQuietStep DEF Passing
  <2>5. QED BY <2>3, <2>4
<1>9. CASE t /= NoWidget /\ call'.pc = "self" /\ call'.op = call.op /\ call'.w = t
  <2>1. Subtree(call.w)' = Subtree(t) /\ Track(call.w)' = Track(t)
        BY <1>2, <1>9 DEF Track, Subtree
  <2>2. call.op = "up" => pressed \subseteq Subtree(t)
    <3> SUFFICES ASSUME call.op = "up", NEW p \in pressed PROVE p \in Subtree(t)
        OBVIOUS
    <3>1. p \in Subtree(call.w) /\ p /= call.w
          BY <1>2, GrabFacts DEF EventOnTrack, Passing
    <3>2. QED BY <1>2, <3>1, GrabAhead
  <2>3. EventOnTrack'
        BY <1>2, <1>5, <1>9, <2>1, <2>2 DEF EventOnTrack, Passing
  <2>4. CASE call.op = "up"
    <3>1. Subtree(t) \subseteq Subtree(call.w) \ {call.w}
          BY <1>3, <1>4, <1>9, SubtreeNested, ParentNotBelow, GrabFacts
    <3>2. InTree'
          BY <1>2, <1>4, <1>6, <1>9, GrabFacts DEF InTree
    <3>3. Passing /\ Passing'
          BY <1>2, <1>9, <2>4 DEF Passing
    <3>4. GrabsLead'
          BY <1>2, <1>6, <2>1, <3>1, <3>3, GrabFacts DEF GrabsLead
    <3>5. GrabsGoOn'
          BY <1>2, <1>6, <3>3, GrabFacts DEF GrabsGoOn
    <3>6. QED BY <2>3, <3>2, <3>4, <3>5 DEF GrabParts
  <2>5. CASE call.op /= "up"
        BY <1>2, <1>4, <1>9, <2>3, <2>5, GrabQuietStep DEF Passing
  <2>6. QED BY <2>4, <2>5
<1>10. \/ FindWalks(t) /\ call'.pc = "walk" /\ call'.w = call.w /\ call'.op = call.op
          /\ call'.t = t
       \/ t = NoWidget /\ call'.pc = "rest" /\ call'.op = call.op
       \/ t /= NoWidget /\ call'.pc = "self" /\ call'.op = call.op /\ call'.w = t
       BY <1>1, GrabFacts DEF Descend, TypeOK
<1>11. QED BY <1>7, <1>8, <1>9, <1>10

LEMMA GrabWalk ==
    ASSUME GrabInv, Walk \/ Walked \/ Enter
    PROVE  GrabParts'
<1>1. /\ parent' = parent /\ grab' = grab /\ pressed' = pressed
      /\ call'.op = call.op /\ call'.w = call.w /\ call'.t = call.t
      /\ call.pc \in {"walk", "walked"} /\ call'.pc \in {"walk", "walked", "arrive"}
      BY GrabFacts DEF Walk, Walked, Enter, treeVars, pointers, TypeOK
<1>2. call.op /= "up" /\ call.w \in Subtree(Root)
      BY <1>1, GrabFacts DEF EventOnTrack, Passing, InTree
<1>3. Track(call.w)' = Track(call.w) /\ Track(call.t)' = Track(call.t)
      BY <1>1 DEF Track, Subtree
<1>4. EventOnTrack'
      BY <1>1, <1>2, <1>3, GrabFacts DEF EventOnTrack, Passing
<1>5. QED BY <1>1, <1>2, <1>4, GrabQuietStep DEF Passing

LEMMA GrabArrive ==
    ASSUME GrabInv, Arrive
    PROVE  GrabParts'
<1>1. /\ call.pc = "arrive" /\ Descend(call.t)
      /\ parent' = parent /\ grab' = grab /\ pressed' = pressed
      BY DEF Arrive, treeVars
<1>2. call.op /= "up" /\ call.w \in Subtree(Root)
      BY <1>1, GrabFacts DEF EventOnTrack, Passing, InTree
<1>3. /\ call'.op = call.op
      /\ \/ call'.pc = "rest"
         \/ call.t /= NoWidget /\ call'.pc = "self" /\ call'.w = call.t
      BY <1>1, GrabFacts DEF Descend, TypeOK
<1>4. call.t /= NoWidget => call.t \in Subtree(Root)
  <2> SUFFICES ASSUME call.t /= NoWidget PROVE call.t \in Subtree(Root)
      OBVIOUS
  <2>1. call.t \in Widget /\ parent[call.t] = call.w
        BY <1>1, GrabFacts, Facts DEF Routed, Children
  <2>2. QED BY <1>2, <2>1, SubtreeClosed, GrabFacts DEF Closed
<1>5. call'.pc = "self" /\ call.op = "down" => Track(call.w)'
  <2> SUFFICES ASSUME call'.pc = "self", call.op = "down" PROVE Track(call.w)'
      OBVIOUS
  <2>1. Track(call.t)
        BY <1>1, GrabFacts DEF EventOnTrack
  <2>2. Track(call.w)' = Track(call.t)
        BY <1>1, <1>3 DEF Track, Subtree
  <2>3. QED BY <2>1, <2>2
<1>6. EventOnTrack'
      BY <1>2, <1>3, <1>5 DEF EventOnTrack, Passing
<1>7. QED BY <1>1, <1>2, <1>3, <1>4, <1>6, GrabQuietStep DEF Passing
-----------------------------------------------------------------------------
(* What changes below a cut that holds no pressed widget and no widget of  *)
(* the event under way.                                                    *)
LEMMA GrabCut ==
    ASSUME GrabInv, NEW K, Cut(K), call' = call, pressed' = pressed, pressed \cap K = {},
           call.pc /= "rest" => call.w \notin K,
           call.pc \in {"walk", "walked", "arrive"} /\ call.op = "down" =>
             call.t \in Widget \ K,
           \A c \in Widget \ K : Grabs(c)' <=> Grabs(c),
           Switch = {} => \A c \in K : ~Grabs(c)'
    PROVE  GrabParts'
<1>1. /\ K \in SUBSET Widget /\ \A c \in Widget \ K : parent'[c] = parent[c]
      BY DEF Cut
<1>2. \A a \in Widget, v \in Widget \ K : v \in Subtree(a)' <=> v \in Subtree(a)
      BY OutsideCut
<1>3. \A a \in K : Subtree(a) \subseteq K /\ Subtree(a)' \subseteq K
      BY InsideCut
<1>4. pressed \subseteq Widget \ K /\ Root \in Widget
      BY GrabFacts
<1>5. \A c \in Widget : /\ OnPath(c)' <=> OnPath(c)
                        /\ OnPath(c) => c \notin K
      BY <1>2, <1>3, <1>4 DEF OnPath
<1>6. \A v \in Widget \ K : call.pc /= "rest" =>
        (v \in Subtree(call.w)' <=> v \in Subtree(call.w))
  <2>1. PICK a \in Widget : a = call.w
        BY GrabFacts
  <2>2. Subtree(call.w)' = Subtree(a)'
        BY <2>1 DEF Subtree
  <2>3. QED BY <1>2, <2>1, <2>2
<1>7. Passing' <=> Passing
      BY DEF Passing
<1>8. InTree'
      BY <1>2, <1>4, GrabFacts DEF InTree
<1>9. GrabsLead'
  <2> SUFFICES ASSUME NEW c \in Widget
               PROVE  /\ Switch = {} /\ Grabs(c)' => OnPath(c)'
                      /\ parent'[c] /= NoWidget /\ OnPath(c)'
                         /\ (Passing => c \in Subtree(call.w)' /\ c /= call.w) => Grabs(c)'
      BY <1>7 DEF GrabsLead
  <2>1. CASE c \in K
        BY <1>5, <2>1
  <2>2. CASE c \notin K
    <3>1. parent'[c] = parent[c] /\ (Grabs(c)' <=> Grabs(c)) /\ (OnPath(c)' <=> OnPath(c))
          BY <1>1, <1>5, <2>2
    <3>2. Passing => (c \in Subtree(call.w)' <=> c \in Subtree(call.w))
          BY <1>6, <2>2 DEF Passing
    <3>3. QED BY <3>1, <3>2, GrabFacts DEF GrabsLead
  <2>3. QED BY <2>1, <2>2
<1>10. GrabsGoOn'
  <2> SUFFICES ASSUME Switch = {}, Passing, NEW c \in Widget, NEW d \in Widget, Grabs(c)',
                      d \in Subtree(c)', parent'[d] /= NoWidget, OnPath(d)'
               PROVE  Grabs(d)'
      BY <1>7 DEF GrabsGoOn
  <2>1. c \notin K /\ d \notin K
        BY <1>5
  <2>2. Grabs(c) /\ d \in Subtree(c) /\ parent[d] /= NoWidget /\ OnPath(d)
        BY <1>1, <1>2, <1>5, <2>1
  <2>3. QED BY <2>1, <2>2, GrabFacts DEF GrabsGoOn
<1>11. ASSUME NEW v \in Widget \ K, Track(v) PROVE Track(v)'
  <2> SUFFICES ASSUME NEW p \in pressed PROVE p \in Subtree(v)' \/ v \in Subtree(p)'
      BY DEF Track
  <2>1. p \in Subtree(v) \/ v \in Subtree(p)
        BY <1>11 DEF Track
  <2>2. QED BY <1>2, <1>4, <2>1
<1>12. EventOnTrack'
  <2>1. ASSUME call.op = "down", call.pc /= "rest" PROVE Track(call.w)'
    <3>1. PICK v \in Widget \ K : v = call.w
          BY <2>1, GrabFacts
    <3>2. Track(v)
          BY <2>1, <3>1, GrabFacts DEF EventOnTrack
    <3>3. Track(call.w)' = Track(v)'
          BY <3>1 DEF Track, Subtree
    <3>4. QED BY <1>11, <3>2, <3>3
  <2>2. ASSUME call.op = "down", call.pc \in {"walk", "walked", "arrive"}
        PROVE  Track(call.t)'
    <3>1. PICK v \in Widget \ K : v = call.t
          BY <2>2
    <3>2. Track(v)
          BY <2>2, <3>1, GrabFacts DEF EventOnTrack
    <3>3. Track(call.t)' = Track(v)'
          BY <3>1 DEF Track, Subtree
    <3>4. QED BY <1>11, <3>2, <3>3
  <2>3. Passing => pressed \subseteq Subtree(call.w)'
        BY <1>4, <1>6, GrabFacts DEF EventOnTrack, Passing
  <2>4. QED BY <1>7, <2>1, <2>2, <2>3, GrabFacts DEF EventOnTrack
<1>13. QED BY <1>8, <1>9, <1>10, <1>12 DEF GrabParts

(* Nothing is pressed below a widget that its parent does not grab, unless *)
(* a release has just passed there.                                        *)
LEMMA NotPressedBelow ==
    ASSUME GrabInv, NEW x \in Widget, x /= Root, ~Grabs(x),
           parent[x] /= NoWidget /\ call.pc /= "rest" => call.w \notin Subtree(x)
    PROVE  pressed \cap Subtree(x) = {}
<1> SUFFICES ASSUME NEW p \in pressed, p \in Subtree(x) PROVE FALSE
    OBVIOUS
<1>1. p \in Subtree(Root) /\ OnPath(x)
      BY GrabFacts DEF InTree, OnPath
<1>2. CASE parent[x] = NoWidget
  <2>1. x \in Subtree(Root) \/ Root \in Subtree(x)
        BY <1>1, SubtreesNest, GrabFacts
  <2>2. x \in Subtree(Root)
        BY <2>1, RootNotBelow, GrabFacts
  <2>3. NoWidget \in Subtree(Root)
        BY <1>2, <2>2, SubtreeParent, GrabFacts
  <2>4. QED BY <2>3, SubtreeSelf, GrabFacts
<1>3. CASE parent[x] /= NoWidget
  <2>1. Passing /\ ~(x \in Subtree(call.w) /\ x /= call.w)
        BY <1>1, <1>3, GrabFacts DEF GrabsLead
  <2>2. p \in Subtree(call.w) /\ call.w \notin Subtree(x) /\ call.w \in Widget
        BY <1>3, <2>1, GrabFacts DEF EventOnTrack, Passing
  <2>3. x \in Subtree(call.w)
        BY <2>2, SubtreesNest
  <2>4. QED BY <2>1, <2>2, <2>3, SubtreeSelf
<1>4. QED BY <1>2, <1>3

LEMMA GrabRemoveChild ==
    ASSUME GrabInv, Patient, NEW x \in Widget, RemoveChild(x)
    PROVE  GrabParts'
<1> DEFINE K == Subtree(x)
<1>1. /\ Cut(K) /\ parent'[x] = NoWidget
      /\ \A c \in Widget \ {x} : parent'[c] = parent[c]
      BY CutRemoveChild, GrabFacts
<1>2. /\ call' = call /\ pressed' = pressed /\ Held \cap K = {} /\ x /= Root
      /\ grab' = ForgetsChild(grab, x) /\ ~Grabs(x) /\ x \in K
      BY SubtreeSelf DEF RemoveChild, MayTake, Grabs
<1>3. call.pc /= "rest" => call.w \notin K /\ call.t \notin K
      BY <1>2 DEF Held
<1>4. pressed \cap K = {}
      BY <1>2, <1>3, NotPressedBelow
<1>5. call.pc \in {"walk", "walked", "arrive"} /\ call.op = "down" => call.t \in Widget \ K
      BY <1>3, GrabFacts DEF Routed, TypeOK
<1>6. \A c \in Widget \ {x} : Grabs(c)' <=> Grabs(c)
  <2> SUFFICES ASSUME NEW c \in Widget \ {x} PROVE Grabs(c)' <=> Grabs(c)
      OBVIOUS
  <2>1. parent'[c] = parent[c] /\ (parent[c] /= NoWidget => parent[c] \in Widget)
        BY <1>1, GrabFacts
  <2>2. parent[c] \in Widget => (grab'[parent[c]] = c <=> grab[parent[c]] = c)
        BY <1>2, GrabFacts DEF ForgetsChild
  <2>3. QED BY <2>1, <2>2 DEF Grabs
<1>7. Switch = {} => \A c \in K : ~Grabs(c)'
  <2> SUFFICES ASSUME Switch = {}, NEW c \in K, Grabs(c)' PROVE FALSE
      OBVIOUS
  <2>1. c /= x /\ c \in Widget /\ Subtree(c) \subseteq K
        BY <1>1, SubtreeSelf, SubtreeNested DEF Grabs
  <2>2. OnPath(c)
        BY <1>6, <2>1, GrabFacts DEF GrabsLead
  <2>3. QED BY <1>4, <2>1, <2>2 DEF OnPath
<1> HIDE DEF K
<1>8. \A c \in Widget \ K : Grabs(c)' <=> Grabs(c)
      BY <1>2, <1>6
<1>9. QED BY <1>1, <1>2, <1>3, <1>4, <1>5, <1>7, <1>8, GrabCut

(* widget_destroy and widget_destroy_children.                             *)
LEMMA GrabFree ==
    ASSUME GrabInv, NEW K, Cut(K), \A c \in K : parent'[c] = NoWidget,
           Held \cap K = {}, call' = call, pressed' = pressed \ K, pressed \cap K = {},
           \A a \in Widget \ K, w \in Widget \ K : grab[a] = w <=> grab'[a] = w
    PROVE  GrabParts'
<1>1. /\ \A c \in Widget \ K : parent'[c] = parent[c]
      /\ \A c \in Widget : parent[c] \in K => c \in K
      BY DEF Cut
<1>2. \A c \in Widget \ K : Grabs(c)' <=> Grabs(c)
  <2> SUFFICES ASSUME NEW c \in Widget \ K PROVE Grabs(c)' <=> Grabs(c)
      OBVIOUS
  <2>1. parent'[c] = parent[c] /\ (parent[c] /= NoWidget => parent[c] \in Widget \ K)
        BY <1>1, GrabFacts
  <2>2. QED BY <2>1 DEF Grabs
<1>3. \A c \in K : ~Grabs(c)'
      BY DEF Grabs
<1>4. call.pc /= "rest" => call.w \notin K /\ call.t \notin K
      BY DEF Held
<1>5. call.pc \in {"walk", "walked", "arrive"} /\ call.op = "down" => call.t \in Widget \ K
      BY <1>4, GrabFacts DEF Routed, TypeOK
<1>6. pressed' = pressed
      OBVIOUS
<1>7. QED BY <1>2, <1>3, <1>4, <1>5, <1>6, GrabCut

LEMMA GrabDestroy ==
    ASSUME GrabInv, Patient, NEW x \in Widget, Destroy(x)
    PROVE  GrabParts'
<1> DEFINE K == Subtree(x)
<1>1. Cut(K) /\ \A c \in K : parent'[c] = NoWidget
      BY CutDestroy
<1>2. /\ call' = call /\ pressed' = pressed \ K /\ Held \cap K = {} /\ x /= Root
      /\ grab' = Zeroed(ForgetsChild(grab, x), K) /\ ~Grabs(x) /\ x \in K
      BY SubtreeSelf DEF Destroy, MayTake, Free, Grabs
<1>3. call.pc /= "rest" => call.w \notin K
      BY <1>2 DEF Held
<1>4. pressed \cap K = {}
      BY <1>2, <1>3, NotPressedBelow
<1> HIDE DEF K
<1>5. \A a \in Widget \ K, w \in Widget \ K : grab[a] = w <=> grab'[a] = w
      BY <1>2, GrabFacts DEF Zeroed, ForgetsChild
<1>6. QED BY <1>1, <1>2, <1>4, <1>5, GrabFree

LEMMA GrabDestroyChildren ==
    ASSUME GrabInv, NEW w \in Widget, DestroyChildren(w)
    PROVE  GrabParts'
<1> DEFINE K == Subtree(w) \ {w}
<1>1. Cut(K) /\ (\A c \in K : parent'[c] = NoWidget) /\ Held \cap K = {}
      BY CutDestroyChildren, GrabFacts
<1>2. /\ call' = call /\ pressed' = pressed \ K /\ grab' = Zeroed(grab, K)
      /\ grab[w] = NoWidget /\ \A c \in Children(w) : Subtree(c) \cap Held = {}
      BY DEF DestroyChildren, Free
<1>3. pressed \cap K = {}
  <2> SUFFICES ASSUME NEW p \in pressed, p \in K PROVE FALSE
      OBVIOUS
  <2>1. PICK c \in Children(w) : p \in Subtree(c)
        BY BelowLiveChild, GrabFacts
  <2>2. c \in Widget /\ parent[c] = w
        BY Facts, GrabFacts DEF Children
  <2>3. c /= Root /\ ~Grabs(c)
        BY <1>2, <2>2, GrabFacts DEF TreeInv, DeadDetached, Grabs
  <2>4. call.pc /= "rest" => call.w \notin Subtree(c)
        BY <1>2 DEF Held
  <2>5. pressed \cap Subtree(c) = {}
        BY <2>2, <2>3, <2>4, NotPressedBelow
  <2>6. QED BY <2>1, <2>5
<1> HIDE DEF K
<1>4. \A a \in Widget \ K, v \in Widget \ K : grab[a] = v <=> grab'[a] = v
      BY <1>2 DEF Zeroed
<1>5. QED BY <1>1, <1>2, <1>3, <1>4, GrabFree

LEMMA GrabAddChild ==
    ASSUME GrabInv, NEW w \in Widget, NEW c \in Widget, AddChild(w, c)
    PROVE  GrabParts'
<1> DEFINE K == Subtree(c)
<1>1. /\ Cut(K) /\ parent'[c] = w
      /\ \A d \in Widget \ {c} : parent'[d] = parent[d]
      BY CutAddChild, GrabFacts
<1>2. /\ call' = call /\ pressed' = pressed /\ grab' = grab /\ c /= Root
      /\ parent[c] = NoWidget /\ w \in alive
      BY DEF AddChild, pointers
<1>3. c \in K /\ K \subseteq Widget /\ c \notin Subtree(Root)
  <2>1. c \in Subtree(Root) => NoWidget \in Subtree(Root)
        BY <1>2, SubtreeParent, GrabFacts
  <2>2. QED BY <2>1, SubtreeSelf, GrabFacts
<1>4. K \cap Subtree(Root) = {}
  <2> SUFFICES ASSUME NEW v \in K, v \in Subtree(Root) PROVE FALSE
      OBVIOUS
  <2>1. c \in Subtree(Root) \/ Root \in Subtree(c)
        BY SubtreesNest, GrabFacts
  <2>2. QED BY <1>2, <1>3, <2>1, RootNotBelow, GrabFacts
<1>5. pressed \cap K = {} /\ (call.pc /= "rest" => call.w \notin K)
      BY <1>4, GrabFacts DEF InTree
<1>6. call.pc \in {"walk", "walked", "arrive"} /\ call.op = "down" => call.t \in Widget \ K
  <2> SUFFICES ASSUME call.pc \in {"walk", "walked", "arrive"}, call.op = "down"
               PROVE  call.t \in Widget \ K
      OBVIOUS
  <2>1. call.t \in Widget /\ parent[call.t] = call.w
        BY GrabFacts, Facts DEF Routed, Children
  <2>2. call.w \in Subtree(Root)
        BY GrabFacts DEF InTree
  <2>3. call.t \in Subtree(Root)
        BY <2>1, <2>2, SubtreeClosed, GrabFacts DEF Closed
  <2>4. QED BY <1>4, <2>1, <2>3
<1>7. \A d \in Widget \ {c} : Grabs(d)' <=> Grabs(d)
      BY <1>1, <1>2 DEF Grabs
<1>8. ~Grabs(c)'
  <2>1. grab[w] \in Children(w) \cup {NoWidget}
        BY <1>2, Facts, GrabFacts DEF LeadsDown
  <2>2. grab[w] /= c
        BY <1>2, <2>1, GrabFacts DEF Children
  <2>3. QED BY <1>1, <1>2, <2>2 DEF Grabs
<1>9. Switch = {} => \A d \in K : ~Grabs(d)'
  <2> SUFFICES ASSUME Switch = {}, NEW d \in K, Grabs(d)' PROVE FALSE
      OBVIOUS
  <2>1. d /= c /\ d \in Widget /\ Subtree(d) \subseteq K
        BY <1>3, <1>8, SubtreeNested
  <2>2. OnPath(d)
        BY <1>7, <2>1, GrabFacts DEF GrabsLead
  <2>3. QED BY <1>5, <2>1, <2>2 DEF OnPath
<1> HIDE DEF K
<1>10. \A d \in Widget \ K : Grabs(d)' <=> Grabs(d)
      BY <1>3, <1>7
<1>11. QED BY <1>1, <1>2, <1>5, <1>6, <1>9, <1>10, GrabCut

LEMMA GrabNext ==
    ASSUME Patient, GrabInv, [Next]_vars
    PROVE  GrabInv'
<1>1. TreeInv' /\ Forest'
      BY TreeNext, ForestNext DEF GrabInv
<1>2. GrabParts'
  <2>1. CASE UNCHANGED vars
    <3>1. parent' = parent /\ grab' = grab /\ pressed' = pressed /\ call' = call
          BY <2>1 DEF vars, treeVars, pointers
    <3>2. QED BY <3>1, GrabFacts DEF GrabParts, InTree, GrabsLead, GrabsGoOn, EventOnTrack, Passing,
                                     Track, Grabs, OnPath, Subtree
  <2>2. ASSUME NEW op \in Op, Begin(op) PROVE GrabParts'
        BY <2>2, GrabBegin
  <2>3. CASE Dispatch
        BY <2>3, GrabSelf, GrabFind, GrabWalk, GrabArrive DEF Dispatch
  <2>4. CASE Application
        BY <2>4, GrabRemoveChild, GrabDestroy, GrabDestroyChildren, GrabAddChild
           DEF Application
  <2>5. QED BY <2>1, <2>2, <2>3, <2>4 DEF Next
<1>3. QED BY <1>1, <1>2 DEF GrabInv

LEMMA GrabAlways == ASSUME Patient PROVE Spec => []GrabInv
<1>1. GrabInv /\ [Next]_vars => GrabInv'
      BY GrabNext
<1>2. QED BY <1>1, GrabInit, PTL DEF Spec

(* For any tree of widgets and any interleaving with handlers that leave   *)
(* the widgets that hold the grab in the tree: a widget that grabbed the   *)
(* pointer when it was pressed gets the release.                           *)
THEOREM ReleaseCorrect ==
    ASSUME Patient PROVE Spec => []ReleaseReachesGrabber
<1>1. GrabInv => ReleaseReachesGrabber
      BY GrabFacts DEF EventOnTrack, ReleaseReachesGrabber
<1>2. QED BY <1>1, GrabAlways, PTL

(* If there is no switch, which keeps the grab of an aborted press, then   *)
(* no grab outlives the presses either.                                    *)
THEOREM NoGhostCorrect ==
    ASSUME Patient, Switch = {} PROVE Spec => []NoGhostGrab
<1>1. GrabInv => NoGhostGrab
  <2> SUFFICES ASSUME GrabInv, pressed = {}, NEW w \in alive, grab[w] /= NoWidget PROVE FALSE
      BY DEF NoGhostGrab
  <2>1. grab[w] \in Children(w) /\ w \in Widget
        BY Facts, GrabFacts DEF LeadsDown
  <2>2. grab[w] \in Widget /\ parent[grab[w]] = w
        BY <2>1, Facts, GrabFacts DEF Children
  <2>3. Grabs(grab[w])
        BY <2>1, <2>2, GrabFacts DEF Grabs
  <2>4. QED BY <2>2, <2>3, GrabFacts DEF GrabsLead, OnPath
<1>2. QED BY <1>1, GrabAlways, PTL
=============================================================================
