SPECIFICATION FairSpec
CONSTANTS
    Ids = {i1, i2}
    None = None
    Cap = 1
    MaxMessages = 3
    MaxLosses = 0
    MaxQueue = 2
    Reorders = FALSE
    Offered <- Shipped
INVARIANT CloudKept
PROPERTY EventuallySynced
CHECK_DEADLOCK FALSE
