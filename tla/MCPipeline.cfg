SPECIFICATION Spec
CONSTANTS
    Webhooks = {w1}
    Subs = {s1}
    Keys = {}
    None = None
    MaxRetryAttempts = 2
    AutoDisableThreshold = 1
    MaxRows = 2
    MaxReplays = 0
    MaxCopies = 1
    Workers = {p1, p2}
    Requests = {h1}
    SyncDelivery = FALSE
    MaxFaults = 0
    Active = {"recovery"}
CHECK_DEADLOCK FALSE
SYMMETRY Symmetric
INVARIANTS
    LeaseExclusive
    OutcomeJustified
