---------------------------- MODULE IdleManager ----------------------------
(***************************************************************************)
(* base/idle.c: the functions that run when the main loop has nothing      *)
(* else to do.  Two arrays; idle_manager_add pushes on the active one,     *)
(* idle_manager_dispatch pops the active one empty, puts what wants to be  *)
(* repeated on the other and swaps their roles.                            *)
(*                                                                         *)
(* Everything runs on the GUI thread, yet not one after the other: a       *)
(* callback may add and remove idles, and one that opens a modal dialog    *)
(* runs the main loop, and so idle_manager_dispatch, again before it       *)
(* returns.  stack holds the calls of idle_manager_dispatch that have not  *)
(* returned, each with the array it captured at its start and, to state    *)
(* what it should do, the idles that waited then and were not served yet.  *)
(***************************************************************************)
EXTENDS Naturals, Sequences, SequencesExt

CONSTANTS MaxId,      \* bound on the idles that are allocated at the same time
          MaxDepth    \* bound on nested calls of idle_manager_dispatch

ASSUME IdleAssumption == MaxId \in Nat /\ MaxDepth \in Nat

VARIABLES idles,      \* the two arrays, idle_manager_t.idles
          active,     \* index of the active one
          live,       \* idle_info_t objects that are allocated
          stack,      \* calls of idle_manager_dispatch in progress
          nested,     \* history: a dispatch was started inside another one
          exists      \* idle_manager_destroy was not called yet

vars == <<idles, active, live, stack, nested, exists>>

Id == 1 .. MaxId
None == 0

Frame == [array : {0, 1}, iter : Id \cup {None}, owed : SUBSET Id]

Init == /\ idles = [a \in {0, 1} |-> << >>]
        /\ active = 0
        /\ live = {}
        /\ stack = << >>
        /\ nested = FALSE
        /\ exists = TRUE
-----------------------------------------------------------------------------
Other(a) == 1 - a

Top == stack[Len(stack)]

SetTop(iter) == [stack EXCEPT ![Len(stack)].iter = iter]

(* Application code runs between dispatches and inside callbacks: every    *)
(* dispatch in progress is inside the callback it called.                  *)
InUserCode == exists /\ \A i \in 1 .. Len(stack) : stack[i].iter /= None

(* The stack once ids were served.                                         *)
Served(s, ids) == [i \in 1 .. Len(s) |-> [s[i] EXCEPT !.owed = @ \ ids]]

Holds(a, id) == \E i \in 1 .. Len(idles[a]) : idles[a][i] = id

Waiting == {id \in Id : \E a \in {0, 1} : Holds(a, id)}

(* idle_info_destroy clears and frees the object; the on_destroy callback  *)
(* that idle_set_on_destroy may have stored in it is not called.           *)
Destroy(ids) == live' = live \ ids

(* The code counts ids up.  All that is ever done with them is to compare  *)
(* those of allocated idles, so the new idle takes the least one that none *)
(* of them has, and there is no end to the additions.                      *)
ManagerAdd(id) == /\ InUserCode
                  /\ id \notin live /\ \A j \in Id \ live : id <= j
                  /\ idles' = [idles EXCEPT ![active] = Append(@, id)]
                  /\ live' = live \cup {id}
                  /\ UNCHANGED <<active, stack, nested, exists>>

(* idle_manager_remove looks in the active array, then in the other one.   *)
(* An idle whose callback is running is in neither: it is not found.       *)
ManagerRemove(id) ==
    /\ InUserCode
    /\ \E a \in {0, 1} :
         /\ Holds(a, id)
         /\ a = active \/ ~Holds(active, id)
         /\ \E i \in 1 .. Len(idles[a]) :
              /\ idles[a][i] = id
              /\ \A j \in 1 .. i - 1 : idles[a][j] /= id
              /\ idles' = [idles EXCEPT ![a] = RemoveAt(@, i)]
    /\ Destroy({id})
    /\ stack' = Served(stack, {id})
    /\ UNCHANGED <<active, nested, exists>>

ActiveIds == {idles[active][i] : i \in 1 .. Len(idles[active])}

RemoveAll == /\ InUserCode
             /\ idles' = [idles EXCEPT ![active] = << >>]
             /\ Destroy(ActiveIds)
             /\ stack' = Served(stack, ActiveIds)
             /\ UNCHANGED <<active, nested, exists>>

(* idle_manager_destroy, when the application ends: the idles that         *)
(* remove_all finds are destroyed, then both arrays are freed.             *)
ManagerDestroy == /\ stack = << >> /\ exists
                  /\ Destroy(ActiveIds)
                  /\ idles' = [a \in {0, 1} |-> << >>]
                  /\ exists' = FALSE
                  /\ UNCHANGED <<active, stack, nested>>

BeginDispatch == /\ InUserCode
                 /\ Len(stack) < MaxDepth
                 /\ stack' = Append(stack, [array |-> active, iter |-> None, owed |-> Waiting])
                 /\ nested' = (nested \/ stack /= << >>)
                 /\ UNCHANGED <<idles, active, live, exists>>

(* Mutant: the idle stays in its array while its callback runs.            *)
PopKeepsElement == /\ stack /= << >> /\ Top.iter = None
                   /\ idles[Top.array] /= << >>
                   /\ stack' = Served(SetTop(Last(idles[Top.array])), {Last(idles[Top.array])})
                   /\ UNCHANGED <<idles, active, live, nested, exists>>

Pop == /\ stack /= << >> /\ Top.iter = None
       /\ idles[Top.array] /= << >>
       /\ stack' = Served(SetTop(Last(idles[Top.array])), {Last(idles[Top.array])})
       /\ idles' = [idles EXCEPT ![Top.array] = Front(@)]
       /\ UNCHANGED <<active, live, nested, exists>>

(* Mutant: the idle goes back on the array that is being emptied.          *)
RepeatOnSameArray == /\ stack /= << >> /\ Top.iter /= None
                     /\ idles' = [idles EXCEPT ![Top.array] = Append(@, Top.iter)]
                     /\ stack' = SetTop(None)
                     /\ UNCHANGED <<active, live, nested, exists>>

(* The callback returns RET_REPEAT.                                        *)
Repeat == /\ stack /= << >> /\ Top.iter /= None
          /\ idles' = [idles EXCEPT ![Other(Top.array)] = Append(@, Top.iter)]
          /\ stack' = SetTop(None)
          /\ UNCHANGED <<active, live, nested, exists>>

(* The callback returns anything else.                                     *)
Finish == /\ stack /= << >> /\ Top.iter /= None
          /\ Destroy({Top.iter})
          /\ stack' = SetTop(None)
          /\ UNCHANGED <<idles, active, nested, exists>>

(* Mutant: the arrays do not swap roles.                                   *)
EndKeepsActive == /\ stack /= << >> /\ Top.iter = None
                  /\ idles[Top.array] = << >>
                  /\ stack' = Front(stack)
                  /\ UNCHANGED <<idles, active, live, nested, exists>>

EndDispatch == /\ stack /= << >> /\ Top.iter = None
               /\ idles[Top.array] = << >>
               /\ active' = Other(active)
               /\ stack' = Front(stack)
               /\ UNCHANGED <<idles, live, nested, exists>>

Dispatch == BeginDispatch \/ Pop \/ Repeat \/ Finish \/ EndDispatch

Next == \/ \E id \in Id : ManagerAdd(id) \/ ManagerRemove(id)
        \/ RemoveAll
        \/ ManagerDestroy
        \/ Dispatch

Spec == Init /\ [][Next]_vars

(* The main loop calls idle_dispatch for ever, and every callback either   *)
(* returns or runs a loop of its own that does.                            *)
FairSpec == Spec /\ WF_vars(Dispatch)
-----------------------------------------------------------------------------
(* Types.                                                                  *)
TypeOK == /\ idles \in [{0, 1} -> Seq(Id)]
          /\ active \in {0, 1}
          /\ live \subseteq Id
          /\ stack \in Seq(Frame) /\ Len(stack) <= MaxDepth
          /\ nested \in BOOLEAN
          /\ exists \in BOOLEAN

Running == {stack[i].iter : i \in 1 .. Len(stack)} \ {None}

Places(id) == {<<0, i>> : i \in {j \in 1 .. Len(idles[0]) : idles[0][j] = id}}
              \cup {<<1, i>> : i \in {j \in 1 .. Len(idles[1]) : idles[1][j] = id}}
              \cup {<<2, i>> : i \in {j \in 1 .. Len(stack) : stack[j].iter = id}}

(* An idle that was added and neither removed nor finished is in exactly   *)
(* one place: one of the arrays or one running callback.  None is lost     *)
(* when nested dispatches swap the arrays under an outer one, none is run  *)
(* a second time while its callback has not returned, and no array or      *)
(* running callback holds an object that was freed.                        *)
OnePlaceEach == /\ exists => \A id \in live : \E p \in Places(id) : Places(id) = {p}
                /\ \A id \in Id \ live : Places(id) = {}

(* base/idle.h on idle_dispatch: it calls the functions of all idles.  As  *)
(* long as dispatches did not nest, one that has nothing left to pop has   *)
(* called every idle that waited when it started, unless it was removed.   *)
(* After nested ones it need not: both swap the arrays.                    *)
DispatchCallsAll ==
    /\ ~nested
    /\ stack /= << >> /\ Top.iter = None /\ idles[Top.array] = << >>
    => Top.owed = {}

(* An idle function adds an idle.  The dispatch that called it pops what   *)
(* was pushed last, so the new idle is the next to be called.              *)
AddsFromCallback == stack /= << >> /\ \E id \in Id : ManagerAdd(id)

IsServed(id) == (id \in live /\ id \notin Running) ~> (id \notin live \/ id \in Running)

(* Every idle that waits is eventually called or removed, unless           *)
(* dispatches nest, provided that the idle functions come to an end of     *)
(* adding idles: others may add without end.                               *)
WaitingIsServed == []~nested /\ <>[][~AddsFromCallback]_vars => \A id \in Id : IsServed(id)

(* The same without the proviso.  It does not hold: a function that adds   *)
(* an idle each time it is called keeps idle_manager_dispatch in its loop, *)
(* and what waited before it is never called.                              *)
NobodyStarves == []~nested => \A id \in Id : IsServed(id)
=============================================================================
