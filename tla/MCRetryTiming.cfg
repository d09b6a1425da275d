SPECIFICATION Spec
CONSTANTS
    Workers = {w1, w2}
    MaxRetryAttempts = 3
    RetryBaseDelay = 2
    RetryMaxDelay = 5
    DenialBackoff = 1
    VisibilityTimeout = 3
    TicksPerMilli = 2
    TicksPerSecond = 2
    MaxInt = 5
    MaxSkew = 1
    ProcessTime = 2
    MaxQueue = 1
CHECK_DEADLOCK FALSE
INVARIANTS
    StrandedOnlyBySkewOrFailure
    AttemptsSpaced
    OverlapsCounted
PROPERTY
    EventuallyClaimed
