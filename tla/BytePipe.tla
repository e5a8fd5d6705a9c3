-------------------------------- MODULE BytePipe --------------------------------
(***************************************************************************)
(* What one direction of the tunnel promises: the receiving end gets the   *)
(* source's bytes in order, each once, with nothing added.                 *)
(***************************************************************************)
EXTENDS Naturals, Sequences

VARIABLES
    source,   \* the bytes to be carried
    got       \* the bytes delivered so far

Init == got = << >>

\* Some more bytes arrive.
Deliver ==
    /\ \E k \in Len(got) + 1 .. Len(source) : got' = SubSeq(source, 1, k)
    /\ UNCHANGED source

Spec == Init /\ [][Deliver]_<<source, got>>

================================================================================
