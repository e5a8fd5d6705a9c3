----------------------------- MODULE MCHostManager -----------------------------
(* Small instances of HostManager for TLC. *)
EXTENDS HostManager, TLC

CONSTANTS o1, o2, sA, sB

\* Two OFFERs of one signaling session: the second replaces the first.
RepeatedSid == o1 :> sA @@ o2 :> sA
\* Two friends, or one friend twice: different session ids.
DistinctSids == o1 :> sA @@ o2 :> sB
OneSid == o1 :> sA

================================================================================
