------------------------------- MODULE ListOps -------------------------------
(***************************************************************************)
(* The kernel's lists (Source/list.c) as the rest of the kernel uses them: *)
(* sequences of tasks, head first.  List.tla shows that the linked lists   *)
(* of list.c behave like this.                                             *)
(***************************************************************************)
EXTENDS Integers, Sequences, SequencesExt, FiniteSets

\* Mutant: the task is put at the end whatever its value.
ListInsertAtEnd(l, value, t) == Append(l, t)

\* vListInsert: in front of the first item whose value is larger, so an ascending
\* list stays ascending and keeps items of one value in order of arrival.
ListInsert(l, value, t) ==
    LET ahead == {i \in DOMAIN l : \A j \in 1 .. i : value[l[j]] <= value[t]}
    IN  InsertAt(l, Cardinality(ahead) + 1, t)

\* uxListRemove, if the item is in the list at all.
ListRemove(l, t) ==
    IF t \in ToSet(l) THEN RemoveAt(l, CHOOSE i \in DOMAIN l : l[i] = t) ELSE l

\* rest is what uxListRemove of every task in S leaves of the list.
IsWithout(rest, l, S) ==
    LET kept == {i \in DOMAIN l : l[i] \notin S} IN
    \E f \in [1 .. Cardinality(kept) -> kept] :
        /\ \A i, j \in DOMAIN f : i < j => f[i] < f[j]
        /\ rest = [i \in DOMAIN f |-> l[f[i]]]

\* The first n owners of a list, and the list without them.
FirstOf(l, n) == {l[i] : i \in {j \in DOMAIN l : j <= n}}
RestOf(l, n)  == SubSeq(l, n + 1, Len(l))

\* Nobody is in the list twice, and the values ascend.
NoDuplicates(l) == \A i, j \in DOMAIN l : i # j => l[i] # l[j]
Ascending(l, value) == \A i, j \in DOMAIN l : i < j => value[l[i]] <= value[l[j]]
=============================================================================
