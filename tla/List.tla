-------------------------------- MODULE List --------------------------------
(***************************************************************************)
(* The doubly linked lists of Source/list.c and include/list.h: a ring of  *)
(* items closed by the marker xListEnd, whose value is portMAX_DELAY and   *)
(* which the model identifies with its list.  An operation runs in a       *)
(* critical section or with the scheduler suspended, so it is one step.    *)
(***************************************************************************)
EXTENDS TickType, Sequences, FiniteSets

CONSTANTS Items, Lists

NULL  == "NULL"

ASSUME ListAssumption == /\ IsFiniteSet(Items)
                         /\ Items \cap Lists = {} /\ NULL \notin Lists

Nodes == Items \cup Lists
Values == 0 .. portMAX_DELAY

VARIABLES pxNext, pxPrevious,   \* the links of items and list ends
          pxContainer,          \* the list an item is in
          xItemValue,
          uxNumberOfItems,
          pxIndex               \* where the rotation of a list has got to

listVars == <<pxNext, pxPrevious, pxContainer, xItemValue, uxNumberOfItems, pxIndex>>

\* vListInitialise and vListInitialiseItem.
ListInit ==
    /\ pxNext = [n \in Nodes |-> n] /\ pxPrevious = [n \in Nodes |-> n]
    /\ pxContainer = [x \in Items |-> NULL]
    /\ xItemValue \in [Items -> Values]
    /\ uxNumberOfItems = [l \in Lists |-> 0]
    /\ pxIndex = [l \in Lists |-> l]

ValueOf(n) == IF n \in Lists THEN portMAX_DELAY ELSE xItemValue[n]

\* The node k links after the end of list l.
Nth(l, k) == LET nth[i \in 0 .. Cardinality(Items) + 1] ==
                     IF i = 0 THEN l ELSE pxNext[nth[i - 1]]
             IN  nth[k]

\* Mutant: an item goes before those of its own value.
FirstBehindEqual(l, v) ==
    Nth(l, CHOOSE k \in 0 .. Cardinality(Items) :
             /\ ValueOf(Nth(l, k + 1)) >= v
             /\ \A j \in 1 .. k : ValueOf(Nth(l, j)) < v)

\* The node after which vListInsert links an item of value v: the last node
\* for the largest value, otherwise the one the loop stops at.
InsertionPoint(l, v) ==
    IF v = portMAX_DELAY
    THEN pxPrevious[l]
    ELSE Nth(l, CHOOSE k \in 0 .. Cardinality(Items) :
                  /\ ValueOf(Nth(l, k + 1)) > v
                  /\ \A j \in 1 .. k : ValueOf(Nth(l, j)) <= v)

\* Item x is linked between neighbours.
LinkBetween(x, before, after) ==
    /\ pxNext' = [pxNext EXCEPT ![x] = after, ![before] = x]
    /\ pxPrevious' = [pxPrevious EXCEPT ![x] = before, ![after] = x]

Enter(l, x) == /\ pxContainer' = [pxContainer EXCEPT ![x] = l]
               /\ uxNumberOfItems' = [uxNumberOfItems EXCEPT ![l] = @ + 1]
               /\ UNCHANGED pxIndex

\* listSET_LIST_ITEM_VALUE by the caller, then vListInsert.
InsertInOrder(l, x) ==
    /\ pxContainer[x] = NULL
    /\ \E v \in Values :
        /\ xItemValue' = [xItemValue EXCEPT ![x] = v]
        /\ LET i == InsertionPoint(l, v) IN LinkBetween(x, i, pxNext[i])
    /\ Enter(l, x)

\* Mutant: the item is put at the end of the ring, not behind the rotation.
InsertAtRingEnd(l, x) ==
    /\ pxContainer[x] = NULL
    /\ \E v \in Values : xItemValue' = [xItemValue EXCEPT ![x] = v]
    /\ LinkBetween(x, pxPrevious[l], l)
    /\ Enter(l, x)

\* vListInsertEnd and listINSERT_END.
InsertLast(l, x) ==
    /\ pxContainer[x] = NULL
    /\ \E v \in Values : xItemValue' = [xItemValue EXCEPT ![x] = v]
    /\ LinkBetween(x, pxPrevious[pxIndex[l]], pxIndex[l])
    /\ Enter(l, x)

\* Mutant: the rotation starts afresh when the item it stands at leaves.
RemoveItemAndRestart(x) ==
    /\ pxContainer[x] # NULL
    /\ pxPrevious' = [pxPrevious EXCEPT ![pxNext[x]] = pxPrevious[x]]
    /\ pxNext' = [pxNext EXCEPT ![pxPrevious[x]] = pxNext[x]]
    /\ pxIndex' = [pxIndex EXCEPT ![pxContainer[x]] = IF @ = x THEN pxContainer[x] ELSE @]
    /\ pxContainer' = [pxContainer EXCEPT ![x] = NULL]
    /\ uxNumberOfItems' = [uxNumberOfItems EXCEPT ![pxContainer[x]] = @ - 1]
    /\ UNCHANGED xItemValue

\* uxListRemove and listREMOVE_ITEM; the links of the item itself stay.
RemoveItem(x) ==
    /\ pxContainer[x] # NULL
    /\ pxPrevious' = [pxPrevious EXCEPT ![pxNext[x]] = pxPrevious[x]]
    /\ pxNext' = [pxNext EXCEPT ![pxPrevious[x]] = pxNext[x]]
    /\ pxIndex' = [pxIndex EXCEPT ![pxContainer[x]] = IF @ = x THEN pxPrevious[x] ELSE @]
    /\ pxContainer' = [pxContainer EXCEPT ![x] = NULL]
    /\ uxNumberOfItems' = [uxNumberOfItems EXCEPT ![pxContainer[x]] = @ - 1]
    /\ UNCHANGED xItemValue

\* listGET_OWNER_OF_NEXT_ENTRY, of a list that is not empty.
TakeNext(l) ==
    /\ uxNumberOfItems[l] # 0
    /\ LET n == pxNext[pxIndex[l]] IN pxIndex' = [pxIndex EXCEPT ![l] = IF n = l THEN pxNext[l] ELSE n]
    /\ UNCHANGED <<pxNext, pxPrevious, pxContainer, xItemValue, uxNumberOfItems>>

ListNext ==
    \/ \E l \in Lists : \/ TakeNext(l)
                        \/ \E x \in Items : InsertInOrder(l, x) \/ InsertLast(l, x)
    \/ \E x \in Items : RemoveItem(x)

ListSpec == ListInit /\ [][ListNext]_listVars

-----------------------------------------------------------------------------
\* Type invariant: links, containers, values and counts of the structures of
\* list.h.
ListTypeOK ==
    /\ pxNext \in [Nodes -> Nodes] /\ pxPrevious \in [Nodes -> Nodes]
    /\ pxContainer \in [Items -> Lists \cup {NULL}]
    /\ xItemValue \in [Items -> Values]
    /\ uxNumberOfItems \in [Lists -> 0 .. Cardinality(Items)]
    /\ pxIndex \in [Lists -> Nodes]

\* The items met following the links from the end of a list.
Forward(l) == [k \in 1 .. uxNumberOfItems[l] |-> Nth(l, k)]

\* The sequence a ring stands for.
Sequences == INSTANCE OrderedLists WITH
    lists <- [l \in Lists |-> Forward(l)],
    turn  <- [l \in Lists |-> CHOOSE k \in 0 .. uxNumberOfItems[l] : pxIndex[l] = Nth(l, k)],
    value <- xItemValue

\* Every operation of list.c does to the ring what OrderedLists says it does to
\* the sequence, and pxIndex is where the turn is.
ImplementsSequences == Sequences!Spec
=============================================================================
