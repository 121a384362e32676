SPECIFICATION Spec
CONSTANTS
    Conns = {c1, c2}
    Sessions = {a, b}
    Keys = {k1, k2}
    MaxMessages = 1
    MaxFacts = 1
    MaxId = 3
    MaxClock = 2
    MaxFaults = 1
    None = None
SYMMETRY Symmetry
CONSTRAINT LastRowAlone
INVARIANTS
    FileExact
    BoundedGrowth
PROPERTIES
    SessionIsolation
    FactKept
    WedgedUntilClosed
