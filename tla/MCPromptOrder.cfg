CONSTANTS
    None = None
    a = a
    b = b
    c = c
    halt = halt
    move = move
    s1 = s1
    s2 = s2
    Inputs = {a, b, c, halt, move}
    Sessions = {s1, s2}
    Writable = {s1, s2}
    FirstBound = s1
    Kind <- MCKind
    Target <- MCTarget
    Earlier <- MCEarlier
    MaxPending = 1
    MaxQueued = 2
    ConversationCapacity = 2
    MaxRedeliveries = 0
    MaxRestarts = 0
    MaxDisruptions = 0
    MaxLostWrites = 0
SPECIFICATION Spec
CHECK_DEADLOCK FALSE
PROPERTIES InOrder StopCancels StopReaches
