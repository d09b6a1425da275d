SPECIFICATION Spec
CONSTANTS
    Webhooks = {w1, w2}
    Subs = {s1}
    Keys = {k1}
    None = None
    MaxRetryAttempts = 2
    AutoDisableThreshold = 1
    MaxRows = 3
    MaxReplays = 3
    Clients = {c1, c2}
    MaxFaults = 1
CHECK_DEADLOCK FALSE
INVARIANTS
    WonRowKeepsItsSubscription
    CyclesNeedDeleteAndInsert
PROPERTIES
    ImplementsStore
    EveryTransactionEnds
