SPECIFICATION FairSpec
CONSTANTS
    i1 = i1
    None = None
    Calls = {i1}
    MaxAttempts = 3
    MaxBackoff = 3
INVARIANTS
    SingleOwner
    WsIsOwned
    ReadyMeansConnected
    AnswersDeliverable
    PendingIsLive
PROPERTIES
    CallsReturn
    CloseEndsAll
    Reconnects
CHECK_DEADLOCK FALSE
