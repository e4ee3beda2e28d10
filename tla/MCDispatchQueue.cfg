CONSTANTS
    a = a
    b = b
    reader = reader
    transfer = transfer
    moving = moving
    other = other
    lifecycle = lifecycle
    session = session
    Work <- MCWork
    Keys <- MCKeys
    Routings <- MCRoutings
    Capacity = 4
    Concurrency = 2
    MaxReroutes = 2
SPECIFICATION PartsSpec
INVARIANTS
    Exclusion
PROPERTIES
    NoOvertaking
    Dispatched
    FollowedInTheEnd
