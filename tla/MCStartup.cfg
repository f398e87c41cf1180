SPECIFICATION FairSpec
CONSTANTS
    LastDay = 2
    Persisters = {t1, t2}
    Profiles <- FourProfiles
    Own <- HasItsOwn
    LegacyHash <- TwoOldHashes
    ArgsHash <- TheirHashes
    Configs <- AllConfigs
    Books <- TwoBooksAndTwoBad
    Happens <- Outside
    MaxEvents <- Limit
CHECK_DEADLOCK FALSE
INVARIANTS
    StartedNodeIsFit
    RestartsLoseNothing
PROPERTIES
    SnapshotsMoveForward
    CookbookFollowsFile
