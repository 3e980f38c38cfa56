SPECIFICATION Spec
CONSTANTS
    a1 = a1
    a2 = a2
    c1 = c1
    c2 = c2
    w1 = w1
    w2 = w2
    f1 = f1
    Via = Via
    Rtbf = Rtbf
    None = None
    Ids = {a1}
    Contents = {c1, c2}
    Calls = {w1, w2}
    SlowCalls = FALSE
    Legacy = {a1}
    Forgetters = {f1}
    ForgetBy = {"drawer"}
    StoreMay = {"raise", "lose"}
    MaxAudit = 2
    MaxEdits = 1
    MaxCrashes = 1
SYMMETRY CallSymmetry
INVARIANTS
    ClaimedIsNeverUnmapped
    ForgottenLeavesNoCopy
PROPERTIES
    WriteNeedsClaim
CHECK_DEADLOCK FALSE
