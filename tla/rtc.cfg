SPECIFICATION FairSpec
CONSTANTS
    c1 = c1
    c2 = c2
    c3 = c3
    None = None
    Cands = {c1, c2, c3}
INVARIANTS
    CandidatesConserved
    NoneLeftQueued
    RefusedOnlyAfterClose
    InitiatorDropsNone
PROPERTIES
    HostCandidatesArrive
CHECK_DEADLOCK FALSE
