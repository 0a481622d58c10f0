SPECIFICATION FairSpec
CONSTANTS
    Requests = {r1, r2}
    Responses = {p1, p2}
    Keys = {k1, k2}
    None = None
INVARIANTS TypeOK SessionOwned AckedResponseReceived CorrectCorrelation
PROPERTIES NoLateAnswer HandlersReturn
CHECK_DEADLOCK FALSE
