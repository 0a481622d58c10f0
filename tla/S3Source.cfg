SPECIFICATION FairSpec
CONSTANTS
    Sources = {s1, s2}
    EventTypes = {created, removed}
    MaxChanges = 3
    MaxFaults = 1
    Nobody = Nobody
    NoEntry = NoEntry
INVARIANTS TypeOK RemovedUnlessOverlapped
PROPERTIES QueueKept Converges
CHECK_DEADLOCK FALSE
