SPECIFICATION Spec
CONSTANTS
    Runs = {r1, r2}
    Chats = {c1, c2}
    Ids = {i1, i2}
    None = None
    MaxLoops = 2
    RetryLoops = 2
    MaxCalls = 1
    Offered <- Shipped
SYMMETRY Interchangeable
INVARIANT FinishedRunsSaved
CHECK_DEADLOCK FALSE
