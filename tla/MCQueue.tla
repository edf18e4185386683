------------------------------- MODULE MCQueue -------------------------------
(* Instances of Queue for TLC. *)
EXTENDS QueueInv, TLC
CONSTANTS s1, r1, r2

SamePriority == [t \in Tasks |-> 1]
Staggered    == [t \in Tasks |-> IF t = r1 THEN 3 ELSE IF t = r2 THEN 2 ELSE 1]

Mixed     == [t \in Tasks |-> IF t = s1 THEN {"back", "abort"}
                              ELSE IF t = r1 THEN {"peek"} ELSE {"back", "receive"}]
OneOfEach == [t \in Tasks |-> IF t = s1 THEN {"back", "overwrite", "reset"}
                              ELSE IF t = r1 THEN {"receive"} ELSE {"peek"}]

\* Nothing depends on what an item is.
Symmetry == Permutations(Items)
=============================================================================
