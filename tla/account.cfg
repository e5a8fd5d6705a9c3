SPECIFICATION FairSpec
CONSTANTS
    a1 = a1
    a2 = a2
    q1 = q1
    q2 = q2
    None = None
    Accounts = {a1, a2}
    Requests = {q1, q2}
    MaxCalls = 3
    MaxCrashes = 1
INVARIANTS
    ApprovalNotLost
    SwitchIsClean
    RefreshOnlyStale
PROPERTIES
    RequestsEnd
CHECK_DEADLOCK FALSE
