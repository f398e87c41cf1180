SPECIFICATION FairSpec
CONSTANTS
    s1 = s1  s2 = s2  s3 = s3
    i1 = i1  i2 = i2  i3 = i3
    small = small  large = large
    p1 = p1  p2 = p2
    NoOne = NoOne
    Spawners <- SamePair
    Prewarms <- Nobody
    Clients <- OneClient
    Ids <- TwoIds
    Profiles <- BothProfiles
    ProfileOf <- ProfileOfSpawner
    Cost <- CostOfProfile
    MaxMem = 2
    MaxNode = 2
    Limits <- TwoLimits
    MaxSlots = 1
    Ports <- TwoPorts
    MaxAttempts = 1
    External <- SomeExternal
    MayCrash = FALSE
PROPERTIES
    TeardownCompletes
