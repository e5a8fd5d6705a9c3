----------------------------- MODULE MCRtcSession ------------------------------
(* Small instance of RtcSession for TLC: candidates are interchangeable. *)
EXTENDS RtcSession, TLC

CONSTANTS c1, c2, c3

================================================================================
