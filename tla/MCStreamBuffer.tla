---------------------------- MODULE MCStreamBuffer ----------------------------
(* Instances of StreamBuffer for TLC. *)
EXTENDS StreamBuffer

\* Bytes that could be taken for lengths.
Short == {<<1>>, <<2, 1>>}
=============================================================================
