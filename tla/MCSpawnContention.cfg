SPECIFICATION Spec
CONSTANTS
    s1 = s1  s2 = s2  s3 = s3
    i1 = i1  i2 = i2  i3 = i3
    small = small  large = large
    p1 = p1  p2 = p2
    NoOne = NoOne
    Spawners <- ThreeSpawners
    Prewarms <- OnePrewarm
    Clients <- OneClient
    Ids <- ThreeIds
    Profiles <- BothProfiles
    ProfileOf <- ProfileOfSpawner
    Cost <- CostOfProfile
    MaxMem = 3
    MaxNode = 2
    Limits <- OneLimit
    MaxSlots = 2
    Ports <- TwoPorts
    MaxAttempts = 1
    External <- NoExternal
    MayCrash = FALSE
SYMMETRY Symmetry
INVARIANTS
    AdmissionsFit
PROPERTIES
    EvictionIsNecessary
