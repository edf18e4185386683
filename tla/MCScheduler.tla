----------------------------- MODULE MCScheduler -----------------------------
(* Instances of Scheduler for TLC. *)
EXTENDS SchedulerInv
CONSTANTS a, b, c, idle

SymmetricTasks == Permutations(Tasks \ {idle})
=============================================================================
