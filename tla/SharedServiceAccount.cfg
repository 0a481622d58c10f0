SPECIFICATION FairSpec
CONSTANTS
    NumInstances = 2
    MaxChanges = 3
INVARIANTS TypeOK NoDuplicateOwner
PROPERTIES NoOwnerLost UserAccountKept Converges CleanedUp
CHECK_DEADLOCK FALSE
