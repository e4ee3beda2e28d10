CONSTANTS
    c1 = c1
    c2 = c2
    s1 = s1
    Conversations = {c1, c2}
    Sessions = {s1, s2}
    None = None
    Limit = 2
    MaxJobs = 6
    MaxCommands = 2
    MaxFaults = 1
    Starts <- MCStarts
    SwitchSessions = {a, b}
    NoSession = NoSession
    QueueLimit = 2
    MaxMessages = 2
    MaxSwitches = 1
    MaxUpsets = 2
    Nobody = Nobody
    Summaries = {2}
    Concurrency = 1
    Window = 1
    MaxMoves = 1
SPECIFICATION FairSpec
INVARIANTS
    BindingsTrue
    MessagesAccounted
    TurnCardsTrue
PROPERTIES
    AttachmentsDecided
    SwitchEnds
CHECK_DEADLOCK FALSE
