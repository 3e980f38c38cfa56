SPECIFICATION Spec
CONSTANTS
    a1 = a1
    a2 = a2
    c1 = c1
    c2 = c2
    w1 = w1
    w2 = w2
    f1 = f1
    Via = Via
    Rtbf = Rtbf
    None = None
    Ids = {a1, a2}
    Contents = {c1}
    Calls = {w1, w2}
    SlowCalls = TRUE
    Legacy = {}
    Forgetters = {}
    ForgetBy = {"drawer"}
    StoreMay = {}
    MaxAudit = 2
    MaxEdits = 0
    MaxCrashes = 1
SYMMETRY CallSymmetry
INVARIANTS
    DurableHasOneOwner
    FinalizedIsDurable
CHECK_DEADLOCK FALSE
