------------------------------- MODULE MCMutex -------------------------------
(* Instances of Mutex for TLC. *)
EXTENDS Mutex
CONSTANTS lo, mid, hi, low2

Staggered == [t \in Tasks |-> IF t = hi THEN 3 ELSE IF t = mid THEN 2 ELSE 1]

\* Some tasks use both mutexes; every task uses the one mutex.
OneOrTwo == [t \in Tasks |-> IF t \in {lo, mid} THEN {1} ELSE Mutexes]
OneOnly  == [t \in Tasks |-> {1}]
BothPrograms == {OneOrTwo, OneOnly}
NestedOnly   == {OneOrTwo}
=============================================================================
