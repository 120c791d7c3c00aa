SPECIFICATION ProcessSpec
CONSTANTS
    None = None
    Walls <- MCWalls
    Redirects <- MCRedirects
    DStateTimeout = 2
    CleanupTimeout = 1
    Limit = 1
    MaxWrite = 1
    MaxTime = 9
INVARIANTS
    ReceiptIsWhole
    StageOutlivesWriters
    ReturnsInTime
PROPERTIES
    EverythingReleased
