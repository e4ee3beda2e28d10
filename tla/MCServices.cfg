CONSTANTS
    Nobody = Nobody
    a1 = a1
    a2 = a2
    Sessions = {a1}
    MaxCalls = 2
    MaxFaults = 1
    Conversations = {a1, a2}
    Requests = {r1, r2}
    Refreshers = {a1, a2}
    Page = 1
    MaxEvents = 1
    MaxFailures = 1
    Nothing = Nothing
    Writers = {a1, a2}
    MaxRevision = 2
    MaxLosses = 2
SPECIFICATION PartsSpec
INVARIANTS
    HonestErrors
    CardTrue
    NotificationsTrue
    ControlsTrue
    MemoryTrue
    DocumentsKept
    HostsHonest
CHECK_DEADLOCK FALSE
