SPECIFICATION FairSpec
CONSTANTS
    i1 = i1
    r1 = r1  r2 = r2
    NoInst = NoInst
    Instances <- OneInstance
    Requests <- TwoRequests
    Slots = 2
    Window = 1
    MaxFaults = 1
    MaxBuffer = 3
    Usage = 9
    Chunks <- SomeChunks
    MaxChunks = 4
INVARIANTS
    SlotsAndWaitsAreCounted
    ChunkingIsInvisible
PROPERTIES
    KillsAreJustified
    HungInstanceLosesItsRequests
