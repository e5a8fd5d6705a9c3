SPECIFICATION FairSpec
CONSTANTS
    o1 = o1
    o2 = o2
    sA = sA
    sB = sB
    None = None
    Done = Done
    Offers = {o1, o2}
    Sids = {sA, sB}
    SidOf <- DistinctSids
    HangUps = {}
    NewFails = {o2}
    CanStop = FALSE
PROPERTIES
    SessionsIndependent
    ClosedIsReleased
    HalfOpenEnds
CHECK_DEADLOCK FALSE
