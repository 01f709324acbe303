SPECIFICATION Spec
CONSTANTS
    Requests = {q1, q2}
    MaxRounds = 2
    MaxCalls = 2
    Kinds = {"tool", "unknown", "runCommand", "null", "malformed"}
SYMMETRY Interchangeable
INVARIANTS
    TypeOK
    CallsSettled
    ProposalIsLast
    EndsOnce
    StatsOwn
CHECK_DEADLOCK FALSE
