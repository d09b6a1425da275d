SPECIFICATION Spec
CONSTANTS
    Webhooks = {w1}
    Subs = {s1}
    Keys = {}
    None = None
    MaxRetryAttempts = 2
    AutoDisableThreshold = 1
    MaxRows = 2
    MaxReplays = 0
    MaxCopies = 1
    Workers = {p1}
    Requests = {h1}
    SyncDelivery = TRUE
    MaxFaults = 0
    Active = {"recovery", "delete", "update"}
CHECK_DEADLOCK FALSE
PROPERTY
    ImplementsStore
