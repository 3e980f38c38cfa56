SPECIFICATION Spec
CONSTANTS
    a1 = a1
    a2 = a2
    c1 = c1
    c2 = c2
    w1 = w1
    w2 = w2
    f1 = f1
    Via = Via
    Rtbf = Rtbf
    None = None
    Ids = {a1}
    Contents = {c1, c2}
    Calls = {w1, w2}
    SlowCalls = TRUE
    Legacy = {a1}
    Forgetters = {}
    ForgetBy = {"drawer"}
    StoreMay = {}
    MaxAudit = 3
    MaxEdits = 1
    MaxCrashes = 1
SYMMETRY CallContentSymmetry
INVARIANTS
    TypeOK
    DurableIsReceipted
    DurableIsStamped
    OneDurablePerApproval
PROPERTIES
    DecisionIsFinal
CHECK_DEADLOCK FALSE
