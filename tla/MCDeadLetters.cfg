SPECIFICATION FairSpec
CONSTANTS
    Webhooks = {w1}
    Subs = {s1}
    Keys = {k1}
    None = None
    MaxRetryAttempts = 1
    AutoDisableThreshold = 4
    MaxRows = 2
    MaxReplays = 1
    MaxCopies = 1
    Workers = {p1, p2}
    Requests = {h1}
    SyncDelivery = FALSE
    MaxFaults = 1
    Active = {"reconciler", "triage", "cleanup"}
CHECK_DEADLOCK FALSE
INVARIANTS
    RemovesOnlySettled
PROPERTY
    DLQConverges
