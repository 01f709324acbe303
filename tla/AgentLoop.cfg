SPECIFICATION Spec
CONSTANTS
    Runs = {r1, r2}
    Chats = {c1, c2}
    Ids = {i1, i2}
    None = None
    MaxLoops = 2
    RetryLoops = 2
    MaxCalls = 2
    Offered <- Shipped
SYMMETRY Interchangeable
INVARIANTS
    TypeOK
    BusyImpliesPending
    LiveRequestsAbortable
    ConversationsStaySeparate
    CallsAnswered
    ResultsAnswerCalls
PROPERTIES
    SavedOnlyGrows
    RunsComeCloser
CHECK_DEADLOCK FALSE
