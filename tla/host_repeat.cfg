SPECIFICATION FairSpec
CONSTANTS
    o1 = o1
    o2 = o2
    sA = sA
    sB = sB
    None = None
    Done = Done
    Offers = {o1, o2}
    Sids = {sA}
    SidOf <- RepeatedSid
    HangUps = {}
    NewFails = {}
    CanStop = FALSE
INVARIANTS
    ManagerNotReentered
CHECK_DEADLOCK FALSE
