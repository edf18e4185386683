------------------------------ MODULE MCTimers ------------------------------
(* Instances of Timers for TLC. *)
EXTENDS Timers
CONSTANTS t1, t2

Symmetric == Permutations(Timers)
=============================================================================
