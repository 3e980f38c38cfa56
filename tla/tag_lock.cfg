SPECIFICATION FairSpec
CONSTANTS
    m1 = m1
    w1 = w1
    w2 = w2
    permanent = permanent
    None = None
    Memories = {m1}
    Writers = {w1, w2}
    Labels = {permanent}
    MaxAttempts = 2
    LateMemories = {}
    MaxLate = 0
    MaxLives = 2
INVARIANTS
    RecordIsTrue
PROPERTIES
    TransitionsAreAtomic
    LocksAreReleased
CHECK_DEADLOCK FALSE
