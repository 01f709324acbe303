SPECIFICATION Spec
CONSTANTS
    Cmds = {k1, k2, k3}
    Ids = {t1, t2, t3}
    None = None
    MaxBatch = 2
    MaxToggles = 1
SYMMETRY Interchangeable
INVARIANTS
    EveryRunWasApproved
    OneRunPerId
CHECK_DEADLOCK FALSE
