SPECIFICATION FairSpec
CONSTANTS
    c1 = c1
    c2 = c2
    None = None
    Conns = {c1, c2}
INVARIANTS
    OneJoin
    LocalNotLeaked
    RtcNotLeaked
PROPERTIES
    CurrentStays
    JoinResolves
    PeerGoneEndsJoin
CHECK_DEADLOCK FALSE
