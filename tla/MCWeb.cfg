SPECIFICATION MCSpec
CONSTANTS
    MaxChats = 3
    MaxMade = 5
    MaxSent = 3
    Keys = {k1, k2, k3}
    MaxRequests = 2
    Window = 2
    TableLimit = 1
    Batch = 1
    MaxTime = 3
    Sessions = {s1, s2}
    Requests = {r1, r2, r3}
    MaxAgents = 1
    MaxStops = 1
    None = None
INVARIANTS
    ActiveExists
    LimitExact
    TableBound
    CacheExact
    OneAskPerOpenAgent
    RowsContiguous
PROPERTIES
    MessagesKept
    TranscriptSpec
    EveryRequestEnds
CHECK_DEADLOCK FALSE
