SPECIFICATION FairSpec
CONSTANTS
    UpLen = 4
    DownLen = 4
    HsLen = 2
    WarmLen = 2
    ChunkMax = 2
    MaxBuffered = 2
    Capacity = 4
    EarlyData = TRUE
PROPERTIES
    UpIsPipe
CHECK_DEADLOCK FALSE
