------------------------------ MODULE Emitter ------------------------------
(***************************************************************************)
(* base/emitter.c: the observer list every widget has.  emitter_dispatch   *)
(* walks a linked list and calls the handlers of the event's type, while   *)
(* the handlers themselves may register and unregister handlers or         *)
(* dispatch further events on the same emitter.                            *)
(*                                                                         *)
(* The list is modelled with its pointers.  live holds the items that are  *)
(* allocated; following or writing through a pointer to any other item is  *)
(* undefined behaviour, which sets fault and ends the behaviour.  What the *)
(* handlers do is limited to one of the Disciplines, chosen at the start,  *)
(* so that each of them is examined by itself.                             *)
(***************************************************************************)
EXTENDS Naturals, Sequences, SequencesExt

CONSTANTS MaxItem,    \* bound on the calls of emitter_on
          MaxDepth,   \* bound on nested calls of emitter_dispatch
          Type,       \* event types
          Disciplines \* what handlers may do: sets of habits

Habit == {"on",         \* call emitter_on
          "off_self",   \* call emitter_off on the item being dispatched
          "off_other",  \* call emitter_off on another item
          "nest",       \* call emitter_dispatch
          "remove",     \* return RET_REMOVE
          "stop"}       \* return RET_STOP

ASSUME EmitterAssumption == /\ MaxItem \in Nat /\ MaxDepth \in Nat
                            /\ Type /= {}
                            /\ Disciplines \subseteq SUBSET Habit

VARIABLES items,      \* emitter_t.items, the first item of the list
          next,       \* emitter_item_t.next of every item
          type,       \* emitter_item_t.type of every item
          nextId,     \* emitter_t.next_id
          live,       \* items that are allocated
          curr,       \* emitter_t.curr_iter
          removeCurr, \* emitter_t.remove_curr_iter
          enable,     \* emitter_t.enable
          stack,      \* calls of emitter_dispatch in progress
          off,        \* items unregistered with a result of RET_OK
          allowed,    \* the discipline that handlers follow
          fault       \* freed memory was used

listVars == <<items, next, type, nextId, live>>
settings == <<enable, allowed>>
emitterVars == <<listVars, curr, removeCurr, settings, stack, off, fault>>

Item == 1 .. MaxItem
NULL == 0

(* A call in progress: its local variables, whether it is inside a         *)
(* handler, and (not in the code) the items it has yet to call and whether *)
(* it called one it should not have.                                       *)
Frame == [iter : Item \cup {NULL}, prev : Item \cup {NULL}, type : Type,
          inHandler : BOOLEAN, todo : SUBSET Item, extra : BOOLEAN]

EmitterInit == /\ items = NULL
               /\ next = [i \in Item |-> NULL]
               /\ type = [i \in Item |-> CHOOSE t \in Type : TRUE]
               /\ nextId = 1
               /\ live = {}
               /\ curr = NULL
               /\ removeCurr = FALSE
               /\ enable = TRUE
               /\ stack = << >>
               /\ off = {}
               /\ allowed \in Disciplines
               /\ fault = FALSE
-----------------------------------------------------------------------------
Top == stack[Len(stack)]

WithTop(frame) == [stack EXCEPT ![Len(stack)] = frame]

(* Code outside emitter.c runs: no dispatch is in progress, or a handler.  *)
InUserCode == ~fault /\ \A i \in 1 .. Len(stack) : stack[i].inHandler

May(habit) == InUserCode /\ (stack /= << >> => habit \in allowed)

(* A set that holds the head of the list and, with an item, its successor; *)
(* past a freed item there is none.                                        *)
Closed(S) == /\ items /= NULL => items \in S
             /\ \A i \in S \cap live : next[i] /= NULL => next[i] \in S

(* The items met on a walk along the list: they are in each of these sets. *)
Listed == {i \in Item : \A S \in SUBSET Item : Closed(S) => i \in S}

(* The item before a listed one, or that one itself if it is the first.    *)
PrevOf(i) == IF i = items THEN i ELSE CHOOSE p \in Listed \cap live : next[p] = i

(* The frames once an item was freed: nobody has to call it any more.      *)
Forget(s, i) == [k \in 1 .. Len(s) |-> [s[k] EXCEPT !.todo = @ \ {i}]]

(* Mutant: next_id is not counted up.                                      *)
OnReusesId(t) == /\ May("on")
                 /\ nextId \in Item
                 /\ next' = [next EXCEPT ![nextId] = items]
                 /\ type' = [type EXCEPT ![nextId] = t]
                 /\ items' = nextId
                 /\ live' = live \cup {nextId}
                 /\ UNCHANGED <<nextId, curr, removeCurr, settings, stack, off, fault>>

On(t) == /\ May("on")
         /\ nextId \in Item
         /\ next' = [next EXCEPT ![nextId] = items]
         /\ type' = [type EXCEPT ![nextId] = t]
         /\ items' = nextId
         /\ live' = live \cup {nextId}
         /\ nextId' = nextId + 1
         /\ UNCHANGED <<curr, removeCurr, settings, stack, off, fault>>

(* Mutant: the link around the removed item is not made.                   *)
UnlinkForgetsPrev(prev, i) ==
    IF i = items
    THEN /\ items' = next[i]
         /\ live' = live \ {i}
         /\ UNCHANGED <<next, type, nextId, fault>>
    ELSE /\ live' = live \ {i}
         /\ UNCHANGED <<items, next, type, nextId, fault>>

(* The second half of emitter_remove: unlink the item and destroy it.      *)
Unlink(prev, i) ==
    IF i = items
    THEN /\ items' = next[i]
         /\ live' = live \ {i}
         /\ UNCHANGED <<next, type, nextId, fault>>
    ELSE /\ fault' = (prev \notin live)
         /\ next' = IF prev \in live THEN [next EXCEPT ![prev] = next[i]] ELSE next
         /\ live' = live \ {i}
         /\ UNCHANGED <<items, type, nextId>>

(* emitter_off and emitter_off_by_func: search, then emitter_remove, which *)
(* leaves the item that is being dispatched to emitter_dispatch.           *)
Off(i) ==
    /\ IF stack /= << >> /\ Top.iter = i THEN May("off_self") ELSE May("off_other")
    /\ i \in Listed \/ ~(Listed \subseteq live)
    /\ IF i \in Listed \cap live
       THEN /\ off' = off \cup {i}
            /\ IF curr = i
               THEN /\ removeCurr' = TRUE
                    /\ UNCHANGED <<listVars, stack, fault>>
               ELSE /\ Unlink(PrevOf(i), i)
                    /\ stack' = Forget(stack, i)
                    /\ UNCHANGED removeCurr
       ELSE /\ fault' = TRUE
            /\ UNCHANGED <<listVars, removeCurr, stack, off>>
    /\ UNCHANGED <<curr, settings>>

SetEnable(b) == /\ InUserCode
                /\ enable /= b
                /\ enable' = b
                /\ UNCHANGED <<listVars, curr, removeCurr, stack, off, allowed, fault>>

(* emitter_deinit, when the owner of the emitter is destroyed.             *)
Deinit == /\ InUserCode /\ stack = << >>
          /\ items /= NULL
          /\ fault' = ~(Listed \subseteq live)
          /\ items' = NULL
          /\ live' = live \ Listed
          /\ UNCHANGED <<next, type, nextId, curr, removeCurr, settings, stack, off>>
-----------------------------------------------------------------------------
BeginDispatch(t) ==
    /\ May("nest")
    /\ Len(stack) < MaxDepth
    /\ enable /\ items /= NULL
    /\ stack' = Append(stack, [iter |-> items, prev |-> items, type |-> t,
                               inHandler |-> FALSE,
                               todo |-> {i \in Listed : type[i] = t}, extra |-> FALSE])
    /\ UNCHANGED <<listVars, curr, removeCurr, settings, off, fault>>

(* A disabled or empty emitter: only the two fields are reset.             *)
DispatchNothing == /\ May("nest")
                   /\ ~enable \/ items = NULL
                   /\ curr' = NULL
                   /\ removeCurr' = FALSE
                   /\ UNCHANGED <<listVars, settings, stack, off, fault>>

InLoop == ~fault /\ stack /= << >> /\ ~Top.inHandler

(* Mutant: after a handler of another type its successor is left out.      *)
VisitSkips ==
    /\ InLoop /\ Top.iter /= NULL
    /\ IF Top.iter \in live
       THEN /\ curr' = Top.iter
            /\ stack' = WithTop(
                 IF type[Top.iter] = Top.type
                 THEN [Top EXCEPT !.inHandler = TRUE, !.todo = @ \ {Top.iter},
                                  !.extra = @ \/ Top.iter \notin Top.todo]
                 ELSE [Top EXCEPT !.prev = Top.iter, !.iter = NULL])
            /\ UNCHANGED fault
       ELSE /\ fault' = TRUE
            /\ UNCHANGED <<curr, stack>>
    /\ UNCHANGED <<listVars, removeCurr, settings, off>>

(* One round of the while loop, up to the call of the handler.             *)
Visit ==
    /\ InLoop /\ Top.iter /= NULL
    /\ IF Top.iter \in live
       THEN /\ curr' = Top.iter
            /\ stack' = WithTop(
                 IF type[Top.iter] = Top.type
                 THEN [Top EXCEPT !.inHandler = TRUE, !.todo = @ \ {Top.iter},
                                  !.extra = @ \/ Top.iter \notin Top.todo]
                 ELSE [Top EXCEPT !.prev = Top.iter, !.iter = next[Top.iter]])
            /\ UNCHANGED fault
       ELSE /\ fault' = TRUE
            /\ UNCHANGED <<curr, stack>>
    /\ UNCHANGED <<listVars, removeCurr, settings, off>>

InHandler == ~fault /\ stack /= << >> /\ Top.inHandler

(* RET_STOP leaves curr_iter and remove_curr_iter as they are.             *)
ReturnStop == /\ InHandler /\ "stop" \in allowed
              /\ stack' = Front(stack)
              /\ UNCHANGED <<listVars, curr, removeCurr, settings, off, fault>>

(* Otherwise iter->next is read, whether or not the item is still there.   *)
ReturnRemove ==
    /\ InHandler
    /\ "remove" \in allowed \/ removeCurr
    /\ IF Top.iter \in live
       THEN /\ curr' = NULL
            /\ removeCurr' = FALSE
            /\ Unlink(Top.prev, Top.iter)
            /\ stack' = Forget(WithTop([Top EXCEPT !.inHandler = FALSE,
                                                   !.iter = next[Top.iter]]), Top.iter)
            /\ off' = off \cup {Top.iter}
       ELSE /\ fault' = TRUE
            /\ UNCHANGED <<listVars, curr, removeCurr, stack, off>>
    /\ UNCHANGED settings

ReturnOk ==
    /\ InHandler
    /\ ~removeCurr
    /\ fault' = (Top.iter \notin live)
    /\ stack' = WithTop([Top EXCEPT !.inHandler = FALSE, !.prev = Top.iter,
                                    !.iter = next[Top.iter]])
    /\ UNCHANGED <<listVars, curr, removeCurr, settings, off>>

EndDispatch == /\ InLoop /\ Top.iter = NULL
               /\ curr' = NULL
               /\ removeCurr' = FALSE
               /\ stack' = Front(stack)
               /\ UNCHANGED <<listVars, settings, off, fault>>

EmitterNext == \/ \E t \in Type : On(t) \/ BeginDispatch(t)
               \/ \E i \in Item : Off(i)
               \/ \E b \in BOOLEAN : SetEnable(b)
               \/ Deinit
               \/ DispatchNothing
               \/ Visit
               \/ ReturnStop
               \/ ReturnRemove
               \/ ReturnOk
               \/ EndDispatch

EmitterSpec == EmitterInit /\ [][EmitterNext]_emitterVars
-----------------------------------------------------------------------------
(* Types of the emitter's fields and of the dispatches in progress.        *)
EmitterTypeOK == /\ items \in Item \cup {NULL}
                 /\ next \in [Item -> Item \cup {NULL}]
                 /\ type \in [Item -> Type]
                 /\ nextId \in 1 .. MaxItem + 1
                 /\ live \subseteq 1 .. nextId - 1
                 /\ curr \in Item \cup {NULL}
                 /\ removeCurr \in BOOLEAN
                 /\ enable \in BOOLEAN
                 /\ stack \in Seq(Frame) /\ Len(stack) <= MaxDepth
                 /\ off \subseteq Item
                 /\ allowed \in Disciplines
                 /\ fault \in BOOLEAN

(* No step of emitter.c uses an item that was freed, although handlers     *)
(* change the list under the dispatch that called them.                    *)
NoUseAfterFree == ~fault

(* A dispatch calls every handler of its type that was registered when it  *)
(* started and was not unregistered meanwhile, each once; handlers that    *)
(* are registered during the dispatch are not called by it.                *)
CallsEachOnce == \A k \in 1 .. Len(stack) :
                    /\ ~stack[k].extra
                    /\ stack[k].iter = NULL => stack[k].todo = {}

(* emitter.h on emitter_off and RET_REMOVE: the handler is unregistered.   *)
(* Once no dispatch is in progress, no item that was removed is still      *)
(* listed.  Handlers that stop the dispatch are excepted: curr_iter stays  *)
(* set then, and emitter_off of that item only leaves a flag.              *)
OffTakesEffect == "stop" \notin allowed /\ stack = << >> => off \cap Listed = {}
=============================================================================
