SPECIFICATION FairSpec
CONSTANTS
    Sources = {s1, s2}
    MaxChanges = 2
    MaxFaults = 1
INVARIANTS OnlyPendingDangles
PROPERTIES EventuallySubscribed
CHECK_DEADLOCK FALSE
