SPECIFICATION LifecycleSpec
CONSTANTS
    Goroutines = {g1, g2}
    Periodic = {p1, p2}
    DrainTimeout = 2
    BrpopTimeout = 1
    MaxHandlers = 1
CHECK_DEADLOCK FALSE
INVARIANTS
    DrainBounded
    CleanExit
PROPERTY
    StopsAsAWhole
