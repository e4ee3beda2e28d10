CONSTANTS
    c1 = c1
    c2 = c2
    s1 = s1
    s2 = s2
    s3 = s3
    agent = agent
    None = None
    TaskBoard = TaskBoard
    Kinds = {"started", "completed", "working", "text"}
    Cores = {{"started", "completed", "working"}}
    SessionOrder <- MCFewSessions
    Conversations <- MCConversations
    Backends <- MCBackends
    BackendOf <- MCBackendOf
    Bound <- MCBoundOne
    Work <- MCWork
    Scripts <- MCScripts
    Capacity = 2
    Concurrency = 2
    ConversationCapacity = 2
    StreamCapacity = 1
    MaxReloads = 1
    MaxRecoveries = 2
    MaxRoutings = 100
    MaxErrors = 0
SPECIFICATION FairSpec
PROPERTIES
    ImplementsQueue
    GapsAnswered
CHECK_DEADLOCK FALSE
