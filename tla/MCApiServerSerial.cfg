SPECIFICATION Spec
CONSTANTS
    Sessions = {s1, s2}
    Requests = {r1, r2, r3}
    MaxAgents = 1
    MaxStops = 0
    None = None
INVARIANTS
    SessionSerialized
CHECK_DEADLOCK FALSE
