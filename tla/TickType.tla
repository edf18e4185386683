------------------------------ MODULE TickType ------------------------------
(* TickType_t (portmacro.h), 16 or 32 bits wide. *)
EXTENDS Integers

CONSTANT portMAX_DELAY    \* the largest value of a TickType_t

ASSUME TickTypeAssumption == portMAX_DELAY \in Nat \ {0}
=============================================================================
