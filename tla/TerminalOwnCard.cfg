SPECIFICATION Spec
CONSTANTS
    Cmds = {k1, k2}
    Ids = {t1, t2}
    None = None
    MaxBatch = 2
    MaxToggles = 0
SYMMETRY Interchangeable
INVARIANTS
    OwnCardApproved
CHECK_DEADLOCK FALSE
