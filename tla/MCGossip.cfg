SPECIFICATION FairSpec
CONSTANTS
    MaxRuns = 2
    MaxSeq = 2
    Timeout = 1
    Seconds <- TwoSeconds
    Legacy = TRUE
    Rejects = TRUE
CHECK_DEADLOCK FALSE
PROPERTIES
    ReceiverIsNotMisled
    ReceiverCatchesUp
