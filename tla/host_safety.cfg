SPECIFICATION Spec
CONSTANTS
    o1 = o1
    o2 = o2
    sA = sA
    sB = sB
    None = None
    Done = Done
    Offers = {o1, o2}
    Sids = {sA}
    SidOf <- RepeatedSid
    HangUps = {o1}
    NewFails = {o2}
    CanStop = TRUE
INVARIANTS
    TypeOK
    OrphanIsClosing
    CloseReleases
CHECK_DEADLOCK FALSE
