SPECIFICATION FairSpec
CONSTANTS
    i1 = i1  i2 = i2  a = a  b = b
    NoProfile = NoProfile
    Ids <- OneId
    Args <- TwoArgs
    MaxSwaps = 2
    MaxReloads = 2
INVARIANTS
    NoStaleBuild
    NoStaleArgs
PROPERTIES
    UpdateDrainIsFinal
    OldInstancesRetire
