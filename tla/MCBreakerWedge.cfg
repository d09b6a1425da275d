SPECIFICATION Spec
CONSTANTS
    Callers = {c1, c2}
    Threshold = 1
    Stalls = "short"
    MaxCalls = 5
SYMMETRY Symmetric
CHECK_DEADLOCK FALSE
INVARIANT
    NotWedged
