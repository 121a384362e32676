SPECIFICATION MCSpec
CONSTANTS
    Models = {a, b, c}
    MaxFallbacks = 2
    MaxRetries = 1
    Statuses <- MCStatuses
    Urls = {here, there, inside}
    Public = {here, there}
    MaxPages = 2
    MaxCompared = 2
    MaxRedirects = 1
CHECK_DEADLOCK FALSE
INVARIANTS
    CallBounded
    VerdictsStand
    FailsLast
    RequestsBounded
    PagesAccounted
    NothingLeft
PROPERTIES
    FallbackSpec
    CallEnds
    CallsEnd
