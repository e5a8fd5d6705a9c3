----------------------------- MODULE MCJoinManager -----------------------------
(* Small instance of JoinManager for TLC. *)
EXTENDS JoinManager, TLC

CONSTANTS c1, c2

================================================================================
