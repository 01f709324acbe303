SPECIFICATION Spec
CONSTANTS
    Ids = {i1, i2, i3}
    None = None
    Cap = 2
    MaxMessages = 3
    MaxLosses = 1
    MaxQueue = 2
    Reorders = TRUE
    Offered <- Everything
SYMMETRY Interchangeable
INVARIANTS
    TypeOK
    LocalOrdered
    LocalKept
CHECK_DEADLOCK FALSE
