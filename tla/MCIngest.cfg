SPECIFICATION Spec
CONSTANTS
    RatePerSec = 1
    Burst = 1
    Scale = 3
    TicksPerSecond = 2
    RegistryIdleTTL = 2
    MaxResets = 1
    Handlers = {h1, h2}
    Requests = {r1}
    SignatureDriftWindow = 1
    SecretGraceWindow = 6
    IdempotencyTTL = 4
    MaxSkew = 1
    HandlingTime = 1
    MaxRotations = 2
SYMMETRY Symmetric
CHECK_DEADLOCK FALSE
INVARIANTS
    AcceptedSeldom
    RefusedOnlyAfterTwo
    OverIdealOnlyByResets
PROPERTY
    LossBounded
