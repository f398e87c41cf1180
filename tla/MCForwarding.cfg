SPECIFICATION FairSpec
CONSTANTS
    n1 = n1  n2 = n2
    c1 = c1
    f1 = f1  f2 = f2  f3 = f3
    NoNode = NoNode
    Nobody = Nobody
    Nodes <- TwoNodes
    Entries <- OneEntry
    Clients <- OneClient
    Frames <- ThreeFrames
    MaxHops = 1
    Hardware <- Alike
    MaxEvents = 1
CHECK_DEADLOCK FALSE
INVARIANTS
    RequestsAreAccounted
    NoSleepThroughDrain
    DrainedPeerIsLeftAlone
PROPERTIES
    AnswersAreJustified
    EveryRequestEnds
