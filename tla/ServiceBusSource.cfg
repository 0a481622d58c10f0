SPECIFICATION FairSpec
CONSTANTS
    Messages = {m1, m2}
    NumEvents <- OneEvent
    Locks = {l1, l2}
    Consumers = {c1, c2}
    Producer = prod
    None = None
INVARIANTS TypeOK
PROPERTIES Implements ErrorStopsAllRoutines
