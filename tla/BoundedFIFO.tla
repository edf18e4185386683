----------------------------- MODULE BoundedFIFO -----------------------------
(***************************************************************************)
(* What a FreeRTOS queue promises its users (include/queue.h): a sequence  *)
(* of at most uxLength items.  Items are posted at the back or at the      *)
(* front, or overwrite the only slot of a queue of length one; they are    *)
(* taken from the front or looked at in place; a reset empties the queue.  *)
(* The ring buffer, the queue lock and the waiting tasks are all invisible *)
(* here.  Queue.tla is shown to implement this specification.              *)
(***************************************************************************)
EXTENDS Naturals, Sequences

CONSTANTS Items,     \* the values that may be posted
          NoItem,    \* the content of memory nobody has written yet
          uxLength   \* the number of slots

VARIABLES items,     \* what the queue holds, its head first
          lastRead   \* the item most recently handed to a reader

vars == <<items, lastRead>>

Init == items = <<>> /\ lastRead = NoItem

PostBack == /\ Len(items) < uxLength
            /\ \E x \in Items : items' = Append(items, x)
            /\ UNCHANGED lastRead

PostFront == /\ Len(items) < uxLength
             /\ \E x \in Items : items' = <<x>> \o items
             /\ UNCHANGED lastRead

PostOver == /\ uxLength = 1
            /\ \E x \in Items : items' = <<x>>
            /\ UNCHANGED lastRead

Take == /\ items # <<>>
        /\ items' = Tail(items)
        /\ lastRead' = Head(items)

Look == /\ items # <<>>
        /\ lastRead' = Head(items)
        /\ UNCHANGED items

Clear == items' = <<>> /\ UNCHANGED lastRead

Next == PostBack \/ PostFront \/ PostOver \/ Take \/ Look \/ Clear

Spec == Init /\ [][Next]_vars
=============================================================================
