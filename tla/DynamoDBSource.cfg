SPECIFICATION FairSpec
CONSTANTS
    NumShards = 2
    MaxRecords = 2
    MaxFaults = 2
INVARIANTS InOrder NoGap
PROPERTIES ShardsServed
CHECK_DEADLOCK FALSE
