------------------------------- MODULE MCHeap4 -------------------------------
(* Instances of Heap4 for TLC. *)
EXTENDS Heap4

SomeArrays == {<<3, 7>>, <<256, 256>>}
=============================================================================
