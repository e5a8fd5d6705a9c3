--------------------------- MODULE MCSignalingClient ---------------------------
(* Small instance of SignalingClient for TLC. *)
EXTENDS SignalingClient, TLC

CONSTANT i1

================================================================================
