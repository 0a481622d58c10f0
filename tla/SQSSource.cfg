SPECIFICATION FairSpec
CONSTANTS
    m1 = m1
    m2 = m2
    Messages = {m1, m2}
    NumEvents <- MCNumEvents
    Handles = {h1, h2}
    Receivers = {c1}
    Processors = {p1, p2}
    Deleters = {d1}
    ReceiveBatch = 2
    DeleteBatch = 2
    ProcessCap = 1
    DeleteCap = 1
    None = None
INVARIANTS TypeOK DeletedWasDelivered DeleteBufferHasRoom
PROPERTIES Implements PipelineDrains ShutdownCompletes
