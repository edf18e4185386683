---------------------------- MODULE OrderedLists ----------------------------
(***************************************************************************)
(* What the lists of list.c are to the rest of the kernel: sequences of    *)
(* items with a value each, and in each a place, turn, from which the next *)
(* item is taken in rotation (0: before the first).  List.tla is shown to  *)
(* implement this specification.                                           *)
(***************************************************************************)
EXTENDS ListOps

CONSTANTS Items, Lists,
          Values        \* the values an item may be given

VARIABLES lists, turn, value

vars == <<lists, turn, value>>

Listed == UNION {ToSet(lists[l]) : l \in Lists}

Init == /\ lists = [l \in Lists |-> <<>>]
        /\ turn = [l \in Lists |-> 0]
        /\ value \in [Items -> Values]

\* An item outside the lists is given a value, and put in a list by value.
InsertInOrder(l, x) ==
    /\ x \notin Listed
    /\ \E v \in Values : value' = [value EXCEPT ![x] = v]
    /\ lists' = [lists EXCEPT ![l] = ListInsert(@, value', x)]
    /\ turn' = [turn EXCEPT ![l] =
                  IF \E i \in 1 .. @ : lists'[l][i] = x THEN @ + 1 ELSE @]

\* Or in front of the item whose turn it is, to be the last of a rotation.
InsertLast(l, x) ==
    /\ x \notin Listed
    /\ \E v \in Values : value' = [value EXCEPT ![x] = v]
    /\ lists' = [lists EXCEPT ![l] =
                   InsertAt(@, IF turn[l] = 0 THEN Len(@) + 1 ELSE turn[l], x)]
    /\ turn' = [turn EXCEPT ![l] = IF @ = 0 THEN 0 ELSE @ + 1]

\* An item leaves its list; if it was its turn, that goes back one place.
RemoveItem(l, x) ==
    /\ x \in ToSet(lists[l])
    /\ lists' = [lists EXCEPT ![l] = ListRemove(@, x)]
    /\ turn' = [turn EXCEPT ![l] =
                  IF \E i \in 1 .. @ : lists[l][i] = x THEN @ - 1 ELSE @]
    /\ UNCHANGED value

\* The turn goes round.
TakeNext(l) ==
    /\ lists[l] # <<>>
    /\ turn' = [turn EXCEPT ![l] = IF @ = Len(lists[l]) THEN 1 ELSE @ + 1]
    /\ UNCHANGED <<lists, value>>

Next == \E l \in Lists :
            \/ \E x \in Items : InsertInOrder(l, x) \/ InsertLast(l, x) \/ RemoveItem(l, x)
            \/ TakeNext(l)

Spec == Init /\ [][Next]_vars
=============================================================================
