SPECIFICATION FairSpec
CONSTANTS
    k1 = k1
    k2 = k2
    w1 = w1
    w2 = w2
    None = None
    Nil = Nil
    NoETag = NoETag
    Loops = {k1, k2}
    Requests = {w1, w2}
    MaxCalls = 3
INVARIANTS
    LoopsStoppable
    FriendsConsistent
PROPERTIES
    FriendsConverge
    StatusSettles
CHECK_DEADLOCK FALSE
