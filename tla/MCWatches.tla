------------------------------ MODULE MCWatches ------------------------------
(* Small instance of Watches for TLC. *)
EXTENDS Watches, TLC

CONSTANTS k1, k2, w1, w2

==============================================================================
