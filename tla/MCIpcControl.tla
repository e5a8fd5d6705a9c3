---------------------------- MODULE MCIpcControl ----------------------------
(* Small instance of IpcControl for TLC. *)
EXTENDS IpcControl, TLC

CONSTANTS r1, r2, h1, h2, j1, j2

=============================================================================
