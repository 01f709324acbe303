SPECIFICATION FairSpec
CONSTANTS
    Runs = {r1, r2}
    Chats = {c1}
    Ids = {i1}
    None = None
    MaxLoops = 2
    RetryLoops = 2
    MaxCalls = 1
    Offered <- Everything
INVARIANT BusyImpliesPending
PROPERTIES
    BusyEnds
    RunsEnd
CHECK_DEADLOCK FALSE
