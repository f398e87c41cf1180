SPECIFICATION FairSpec
CONSTANTS
    r1 = r1
    r2 = r2
    r3 = r3
    t1 = t1
    Maintenance = maintenance
    NoOne = noone
    Requests <- ThreeRequests
    Deadlines <- WithDeadline
    Clients <- MayLeave
    Tasks <- OneTask
    Slots = 1
    Limits <- EitherLimit
    MayShutDown = TRUE
    MayReload = TRUE
INVARIANTS
    SleepersAreReachable
    QueueIsConsistent
PROPERTIES
    WaitersLeaveTheQueue
    DrainEndsIdle
