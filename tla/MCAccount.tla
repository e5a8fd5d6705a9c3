------------------------------ MODULE MCAccount ------------------------------
(* Small instance of Account for TLC. *)
EXTENDS Account, TLC

CONSTANTS a1, a2, q1, q2

==============================================================================
