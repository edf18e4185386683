--------------------------- MODULE ListTurnHistory ---------------------------
(***************************************************************************)
(* List as the kernel uses it: the items of a ready list are only ever put *)
(* in behind the rotation.  History variables tell, for each item of a     *)
(* ready list, which others were there when it was inserted and have not   *)
(* been returned since, and at which of them the rotation stood.           *)
(***************************************************************************)
EXTENDS List

CONSTANT ReadyLists

ASSUME ReadyListsAssumption == ReadyLists \subseteq Lists

VARIABLES unseen,         \* those others
          stoodAt         \* pxIndex when the item was inserted

history == <<unseen, stoodAt>>

HInit == ListInit /\ unseen = [x \in Items |-> {}] /\ stoodAt = [x \in Items |-> NULL]

Operation == \/ \E l \in Lists : TakeNext(l) \/ \E x \in Items : InsertLast(l, x)
             \/ \E l \in Lists \ ReadyLists, x \in Items : InsertInOrder(l, x)
             \/ \E x \in Items : RemoveItem(x)

Inserted(x) == pxContainer[x] = NULL /\ pxContainer'[x] \in ReadyLists
Removed(x)  == pxContainer[x] # NULL /\ pxContainer'[x] = NULL
\* listGET_OWNER_OF_NEXT_ENTRY returns x.
Returned(l, x) == TakeNext(l) /\ pxIndex'[l] = x

HNext ==
    /\ Operation
    /\ unseen' = [x \in Items |->
         IF Inserted(x) THEN {y \in Items : pxContainer[y] = pxContainer'[x]}
         ELSE IF Removed(x) \/ \E l \in ReadyLists : Returned(l, x) THEN {}
         ELSE {y \in unseen[x] : ~Removed(y) /\ \A l \in ReadyLists : ~Returned(l, y)}]
    /\ stoodAt' = [x \in Items |-> IF Inserted(x) THEN pxIndex[pxContainer'[x]]
                                   ELSE IF Removed(x) THEN NULL ELSE stoodAt[x]]

\* vTaskSwitchContext takes the next entry of a ready list again and again.
HSpec == /\ HInit /\ [][HNext]_<<listVars, history>>
         /\ \A l \in ReadyLists : WF_listVars(TakeNext(l))

\* listINSERT_END: when an item is returned for the first time, all that were in
\* its ready list before it have been returned or have left, but for the one the
\* rotation stood at.
OneIsOvertaken ==
    [][\A l \in ReadyLists, x \in Items :
          Returned(l, x) => unseen[x] \subseteq {stoodAt[x]}]_<<listVars, history>>

\* As long as the next entry is taken again and again, every item of a ready list
\* is taken or leaves, whatever is inserted and removed meanwhile: among tasks
\* of one priority nobody starves.
EveryTurnComes == \A l \in ReadyLists, x \in Items :
                     pxContainer[x] = l ~> (pxIndex[l] = x \/ pxContainer[x] # l)
=============================================================================
