SPECIFICATION FairSpec
CONSTANTS
    c1 = c1  c2 = c2  c3 = c3
    NoCommit = NoCommit
    Commits <- ThreeCommits
    Broken <- OneBroken
    FirstHeads <- TheFirst
    KeepBuilds = 1
    InitialRetries = 1
    UpdateRetries = 0
    MaxMoves = 2
    MaxCrashes = 1
    Flaky = TRUE
INVARIANTS
    LinkIsSound
PROPERTIES
    RollbacksAreKept
    HeadGoesLive
