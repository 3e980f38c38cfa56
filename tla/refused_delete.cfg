SPECIFICATION Spec
CONSTANTS
    a1 = a1
    a2 = a2
    c1 = c1
    c2 = c2
    w1 = w1
    w2 = w2
    f1 = f1
    Via = Via
    Rtbf = Rtbf
    None = None
    Ids = {a1}
    Contents = {c1}
    Calls = {w1}
    SlowCalls = FALSE
    Legacy = {}
    Forgetters = {f1}
    ForgetBy = {"drawer"}
    StoreMay = {"refuse"}
    MaxAudit = 1
    MaxEdits = 0
    MaxCrashes = 0
INVARIANTS
    ClaimedIsNeverUnmapped
CHECK_DEADLOCK FALSE
