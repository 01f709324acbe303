SPECIFICATION FairSpec
CONSTANTS
    Cmds = {k1, k2}
    Ids = {t1, t2}
    None = None
    MaxBatch = 1
    MaxToggles = 2
INVARIANTS
    TypeOK
    ModeAgrees
PROPERTIES
    ImplementsGate
    ClickedSettles
CHECK_DEADLOCK FALSE
