SPECIFICATION FairSpec
CONSTANTS
    r1 = r1
    r2 = r2
    g1 = g1
    Requests <- TwoRequests
    Gossips <- OneGossip
    FailureThreshold = 2
    SuccessThreshold = 2
    BackoffBase = 1
    BackoffMax = 2
    ProbeInterval = 1
INVARIANTS
    CountersMatchState
    ProbePacing
PROPERTIES
    CircuitFollowsPeer
