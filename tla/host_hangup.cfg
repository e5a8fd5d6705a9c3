SPECIFICATION FairSpec
CONSTANTS
    o1 = o1
    o2 = o2
    sA = sA
    sB = sB
    None = None
    Done = Done
    Offers = {o1}
    Sids = {sA}
    SidOf <- OneSid
    HangUps = {o1}
    NewFails = {}
    CanStop = FALSE
PROPERTIES
    AbandonedSessionEnds
CHECK_DEADLOCK FALSE
