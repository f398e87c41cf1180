SPECIFICATION FairSpec
CONSTANTS
    Conns = {c1}
    Speakers <- AllProtocols
    Kinds <- AllKinds
    Features <- Full
    Streams = {s1}
    IdleTicks = 1
    GraceTicks = 1
    MaxChunks = 1
CHECK_DEADLOCK FALSE
INVARIANTS
    ReadIsWhatWasSent
    AdmittedRequestsAreAwaited
    DrainIsAnnounced
PROPERTIES
    StreamsAreNotCut
    SignalEndsTheProcess
    SilentClientsAreDropped
