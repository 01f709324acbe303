SPECIFICATION FairSpec
CONSTANTS
    MaxRequests = 3
    MaxRounds = 1
    MaxCalls = 1
    Kinds = {"runCommand"}
    MaxClicks = 2
    None = None
INVARIANTS
    TypeOK
    LoadingJustified
    ShownIsRun
    MessagesStay
PROPERTY LoadingEnds
CHECK_DEADLOCK FALSE
