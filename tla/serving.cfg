SPECIFICATION Spec
CONSTANTS
    t1 = t1
    t2 = t2
    t3 = t3
    all = all
    d1 = d1
    d2 = d2
    d3 = d3
    d4 = d4
    d5 = d5
    r1 = r1
    r2 = r2
    r3 = r3
    r4 = r4
    r5 = r5
    k1 = k1
    k2 = k2
    own = own
    other = other
    room = room
    tenant = tenant
    stranger = stranger
    Cases = {i1, i2}
    Messages = {m1, m2}
    NoMessage = NoMessage
    DeferHours = 1
    MaxPresses = 3
    Writers = {w1, w2}
    Bodies = {b1, b2}
    NoWriter = NoWriter
    MaxChainRows = 3
    MaxDamages = 1
    Bearers = {l1}
    SuccessorLabels = {l2}
    Elevations = {l3}
    Threads = {u1}
    Ttl = 1
    Grace = 1
    Never = 99
    MaxHours = 3
    MaxOutages = 1
    KeptDrawers = {d1}
    Patrols = {p1, p2}
    NotDeleted = NotDeleted
    MaxStamps = 2
    MaxMisses = 1
    MaxPatrols = 1
    Rows = {r1, r2, r3, r4, r5}
    Queries = {k1, k2}
    Readers = {c1}
    Undated = Undated
    OwnTenants = {tenant}
    Star = Star
    DefaultWing = own
    FirstMarks <- MCFirstMarks
    Relevance <- MCRelevance
    Epoch <- MCEpoch
    Alike <- MCAlike
    PathOf <- MCPathOf
    TenantOf <- MCTenantOf
    ReadAllowlist <- MCReadAllowlist
    Deny <- MCDeny
    WingBoost <- MCWingBoost
    MaxQueryK = 2
    Overfetch = 4
    PanellaOverfetch = 3
    RrfK = 60
    MaxRetired = 1
    Asks = {q1, q2}
    Tokens = {t1, t2, t3}
    Bearing <- MCBearing
    SubmitRegistered = FALSE
    ApprovalRegistered = TRUE
    PerMinute = 1
    Minute = 2
    PoolSize = 1
    MaxSeconds = 2
    MaxBoots = 1
    Walks = {v1, v2}
    Drawers = {d1, d2, d3, d4, d5}
    FirstListing <- MCFirstListing
    Scopes = {all}
    Sees <- MCSees
    PageSize = 2
    CacheTtl = 1
    MaxChanges = 2
    MaxStatClock = 1
    NoEntry = NoEntry
    Requests = {y1, y2}
    Texts = {x1}
    GatedRooms = {gated}
    OpenRooms = {open}
    DeniedRooms = {denied}
    QuotaPerDay = 1
    ChargesDuplicates = FALSE
    MaxGateFaults = 1
    MaxBoxStarts = 1
INVARIANTS
    ServingTypeOK
    RateWindowHolds
    CrossTenantIsOnRecord
    RevocationHolds
    OverrunIsBounded
    NothingHiddenIsRead
    CountErrorIsBounded
    OneEventPerApproval
    AcceptedReceiptPinsHistory
PROPERTIES
    CanonicalRowWins
    DecisionGetsAThread
    DeferredComesBack
    EveryForgettingIsRecorded
CHECK_DEADLOCK FALSE
