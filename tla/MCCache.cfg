SPECIFICATION Spec
CONSTANTS
    Processes = {r1}
    Threads = {t1, t2}
    Home <- SameHome
    TTL = 2
    MaxLate = 1
    MaxVersions = 3
    MaxFaults = 2
    MaxRestarts = 1
CHECK_DEADLOCK FALSE
SYMMETRY Symmetric
INVARIANTS
    FreshRead
    StaleAtMostTTL
PROPERTIES
    UpdateUndoesOnlyConcurrent
    RotationKept
