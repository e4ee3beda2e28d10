CONSTANTS
    c1 = c1
    c2 = c2
    s1 = s1
    s2 = s2
    s3 = s3
    agent = agent
    None = None
    TaskBoard = TaskBoard
    Kinds = {"text", "attach", "exited", "resumed"}
    Cores = {{"text", "attach", "exited", "resumed"}}
    SessionOrder <- MCSessions
    Conversations <- MCConversations
    Backends <- MCBackends
    BackendOf <- MCBackendOf
    Bound <- MCBound
    Work <- MCWork
    Scripts <- MCScripts
    Capacity = 3
    Concurrency = 2
    ConversationCapacity = 2
    StreamCapacity = 1
    MaxReloads = 0
    MaxRecoveries = 2
    MaxRoutings = 100
    MaxErrors = 1
SPECIFICATION Spec
INVARIANT
    Serialised
CHECK_DEADLOCK FALSE
