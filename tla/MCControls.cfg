SPECIFICATION ControlsSpec
CONSTANTS
    Goroutines = {g1, g2}
    Callers = {g1, g2}
    Semaphores = {m1, m2}
    None = None
    PerSubConcurrency = 1
    DrainTimeout = 1
    RegistryIdleTTL = 1
    Threshold = 1
    Stalls = "long"
    MaxCalls = 5
SYMMETRY Symmetric
CHECK_DEADLOCK FALSE
INVARIANTS
    PermitsAccounted
    LimitExceededOnlyByPolicy
    WedgedOnlyByLateEra
    SecondProbeOnlyAfterRelease
    OpenAdmitsProbe
