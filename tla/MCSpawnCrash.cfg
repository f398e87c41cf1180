SPECIFICATION Spec
CONSTANTS
    s1 = s1  s2 = s2  s3 = s3
    i1 = i1  i2 = i2  i3 = i3
    small = small  large = large
    p1 = p1  p2 = p2
    NoOne = NoOne
    Spawners <- TwoSpawners
    Prewarms <- Nobody
    Clients <- OneClient
    Ids <- TwoIds
    Profiles <- BothProfiles
    ProfileOf <- ProfileOfSpawner
    Cost <- CostOfProfile
    MaxMem = 2
    MaxNode = 1
    Limits <- OneLimit
    MaxSlots = 1
    Ports <- TwoPorts
    MaxAttempts = 2
    External <- NoExternal
    MayCrash = TRUE
SYMMETRY Symmetry
INVARIANTS
    ResourcesAreOwned
PROPERTIES
    UsedInstancesAreKept
