SPECIFICATION FairSpec
CONSTANTS
    UpLen = 4
    DownLen = 4
    HsLen = 2
    WarmLen = 2
    ChunkMax = 2
    MaxBuffered = 2
    Capacity = 4
    EarlyData = FALSE
PROPERTIES
    UpIsPipe
    DownIsPipe
    AllArrives
CHECK_DEADLOCK FALSE
