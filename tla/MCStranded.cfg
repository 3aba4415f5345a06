CONSTANTS
    r1 = r1
    r2 = r2
    w1 = w1
    w2 = w2
    s1 = s1
    s2 = s2
    None = None
    Run = {r1}
    Legacy = {}
    Worker = {w1}
    Stream = {s1}
    LeaseTTL = 1
    SetupRaises = TRUE
    MaxRequests = 0
    MaxFaults = 1
SPECIFICATION BoundedSpec
SYMMETRY Symmetric
INVARIANTS
    LiveRunsAreDispatchable
CHECK_DEADLOCK FALSE
