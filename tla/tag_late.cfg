SPECIFICATION Spec
CONSTANTS
    m1 = m1
    w1 = w1
    w2 = w2
    permanent = permanent
    None = None
    Memories = {m1}
    Writers = {w1, w2}
    Labels = {permanent}
    MaxAttempts = 2
    LateMemories = {m1}
    MaxLate = 1
    MaxLives = 1
SYMMETRY WriterSymmetry
PROPERTIES
    RetiredStaysExcluded
CHECK_DEADLOCK FALSE
