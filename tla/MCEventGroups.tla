---------------------------- MODULE MCEventGroups ----------------------------
(* Instances of EventGroups for TLC. *)
EXTENDS EventGroups
CONSTANTS a, b, c, d

\* The bit of a participant is named after it, so that exchanging two participants
\* exchanges their bits: the symmetry is one of the model.
OwnBits == [t \in Participants |-> t]
Meeting == Permutations(Participants)

AllOf(bits, clear, wait) == [bits |-> bits, clear |-> clear, all |-> TRUE, wait |-> wait]
AnyOf(bits, clear, wait) == [AllOf(bits, clear, wait) EXCEPT !.all = FALSE]
ThreeCalls == {AnyOf({3}, TRUE, "finite"), AllOf({3, 4}, TRUE, "finite"),
               AnyOf({3, 4}, FALSE, "forever")}
Equal == [t \in Tasks |-> 1]
=============================================================================
