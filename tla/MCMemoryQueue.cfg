CONSTANTS
    Turns = {t1}
    Jobs = {}
    Workers = {w1, w2}
    None = None
    Callers = {"poll"}
    MaxConcurrent = 2
    MaxExtraction = 1
    MaxAttempts = 2
    EventPage = 2
    MaxOutbox = 2
    MaxEvidence = 1
    MaxWritten = 0
    MaxFaults = 1
    FaultKinds = {"slow", "call", "crash", "restart"}
SPECIFICATION Spec
INVARIANTS
    OneResultPerItem
PROPERTIES
    Drains
