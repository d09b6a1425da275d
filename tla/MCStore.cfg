SPECIFICATION StoreSpec
CONSTANTS
    Webhooks = {w1, w2}
    Subs = {s1}
    Keys = {k1}
    None = None
    MaxRetryAttempts = 2
    AutoDisableThreshold = 2
    MaxRows = 4
    MaxReplays = 1
SYMMETRY Symmetric
CHECK_DEADLOCK FALSE
INVARIANTS
    OneLiveRow
    NewestRowIsCurrent
    RetryHasSuccessor
    BudgetRespected
    KeyNamesAcceptedWebhook
PROPERTIES
    SettledStaysSettled
    WorkOnlyCascades
    ImplementsOutcome
