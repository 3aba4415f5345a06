CONSTANTS
    r1 = r1
    r2 = r2
    w1 = w1
    w2 = w2
    s1 = s1
    s2 = s2
    None = None
    Run = {r1, r2}
    Legacy = {}
    Worker = {w1, w2}
    Stream = {s1}
    LeaseTTL = 1
    SetupRaises = TRUE
    MaxRequests = 1
    MaxFaults = 1
SPECIFICATION FairSpec
PROPERTIES
    DispatchedRunsSettle
CHECK_DEADLOCK FALSE
