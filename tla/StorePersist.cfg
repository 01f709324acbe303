SPECIFICATION Spec
CONSTANTS
    Ids = {i1, i2}
    None = None
    Cap = 2
    MaxMessages = 3
    MaxLosses = 1
    MaxQueue = 2
    Reorders = FALSE
    Offered <- Shipped
SYMMETRY Interchangeable
INVARIANT HistoryPersisted
CHECK_DEADLOCK FALSE
