SPECIFICATION Spec
CONSTANTS
    Files = {f1}
    Edits = {e1, e2}
    Patches = {p1}
    Deletes = {d1}
    Lines = {l1}
    None = None
    Offered <- Everything
SYMMETRY Interchangeable
INVARIANTS
    TypeOK
    EditsWereApproved
    RefusedStaysOut
    LoneProposalsStay
CHECK_DEADLOCK FALSE
