SPECIFICATION FairSpec
CONSTANTS
    r1 = r1
    r2 = r2
    h1 = h1
    h2 = h2
    j1 = j1
    j2 = j2
    None = None
    Requests = {r1, r2}
    Hosts = {h1, h2}
    Joins = {j1, j2}
    MaxLines = 3
INVARIANTS
    NoOrphans
    StoppedIsNotAdvertised
PROPERTIES
    ServerDrains
CHECK_DEADLOCK FALSE
