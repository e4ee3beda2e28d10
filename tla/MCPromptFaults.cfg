CONSTANTS
    None = None
    a = a
    b = b
    c = c
    halt = halt
    move = move
    s1 = s1
    s2 = s2
    Inputs = {a, b}
    Sessions = {s1}
    Writable = {s1}
    FirstBound = s1
    Kind <- MCKind
    Target <- MCTarget
    Earlier <- MCEarlier
    MaxPending = 1
    MaxQueued = 2
    ConversationCapacity = 2
    MaxRedeliveries = 1
    MaxRestarts = 1
    MaxDisruptions = 1
    MaxLostWrites = 1
SPECIFICATION FairSpec
CHECK_DEADLOCK FALSE
INVARIANTS AtMostOnce ClaimsCarried
PROPERTIES Settles
