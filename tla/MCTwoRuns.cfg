CONSTANTS
    r1 = r1
    r2 = r2
    w1 = w1
    w2 = w2
    s1 = s1
    s2 = s2
    None = None
    Run = {r1, r2}
    Legacy = {r1}
    Worker = {w1, w2}
    Stream = {s1}
    LeaseTTL = 1
    SetupRaises = FALSE
    MaxRequests = 2
    MaxFaults = 2
SPECIFICATION BoundedSpec
SYMMETRY Symmetric
INVARIANTS
    CommittedByCompletedRuns
    CandidateBaseIsWhatWasRead
    CompletedSourceStaysStaged
    FirstDispatchIsRecoverable
PROPERTIES
    NoLostUpdate
CHECK_DEADLOCK FALSE
