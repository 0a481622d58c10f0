SPECIFICATION FairSpec
CONSTANTS
    MaxEvents = 3
    InitialReplays <- AllReplays
INVARIANTS TypeOK OneToken NoSilentSkip NothingDropped
PROPERTIES RetriesAfterError StopsUnlessLocked
CHECK_DEADLOCK FALSE
