SPECIFICATION Spec
CONSTANTS
    s1 = s1
    s2 = s2
    x4 = x4
    x1 = x1
    x2 = x2
    x3 = x3
    BoxDecisions = {d1}
    MaxCommands = 3
    MaxMishaps = 1
    Bridges = {b1}
    Wings = {w1}
    StreakThreshold = 2
    StaleAfter = 1
    SinkSettings <- MCSinkSettings
    MaxStreak = 3
    MaxTime = 4
    MaxSlips = 2
    BinCount = 4
    MinPerGroup = 2
    MaxRows = 5
    Approvals = {a1, a2}
    Probes <- MCProbes
    MaxLegacyClaims = 2
    MaxBreaks = 1
    Slots = {h1, h2, o1}
    HighRisk = {h1, h2}
    Uids = {r1, r2}
    NoSlot = NoSlot
    Manifests <- MCManifests
    TopConfidence = 2
    MaxCalls = 2
    ChoiceK = 2
    MaxForced = 2
    Ups = {u1, u2}
    MaxUpCalls = 3
    MaxHitches = 2
    MaxForces = 1
    Sources = {s1, s2}
    Atoms = {x1, x2, x3, x4}
    Versions <- MCVersions
    Syncers = {c1, c2}
    NoSource = NoSource
    DailyMax = 3
    BurstMax = 2
    CountsDedup = FALSE
    MaxEdits = 1
    MaxFaults = 1
    Overlapping = {c2}
INVARIANTS
    RestoreIsAllOrNothing
    OneOwnerBearer
    HighRiskIsArbitrated
    FittedSliceIsSound
PROPERTIES
    QuotaNeverSplitsASet
    EverySourceHeals
    OutageIsHeard
    ReceiptPrecedesWrite
CHECK_DEADLOCK FALSE
