CONSTANTS
    Turns = {t1, t2}
    Jobs = {j1}
    Workers = {}
    None = None
    Callers = {"poll", "request"}
    MaxConcurrent = 2
    MaxExtraction = 1
    MaxAttempts = 1
    EventPage = 2
    MaxOutbox = 2
    MaxEvidence = 2
    MaxWritten = 2
    MaxFaults = 1
    FaultKinds = {"call", "restart"}
SPECIFICATION Spec
INVARIANTS
    RevokedUncited
    WorkIsCurrent
    CursorsCovered
PROPERTIES
    AnswersRespectCancellation
