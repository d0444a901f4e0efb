SPECIFICATION Spec
CONSTANTS
    Parties = {p1, p2}
    Watched = {p1}
    Conns = {c1, c2}
    Handlers = {w1}
    MaxMessages = 3
    MaxTime = 3
    Limit = 1
    Latest = 2
INVARIANTS
    TypeOK
    NoSilentGap
PROPERTIES
    NotShadowed
CHECK_DEADLOCK FALSE
