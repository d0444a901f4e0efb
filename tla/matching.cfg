SPECIFICATION FairSpec
CONSTANTS
    Providers = {p1, p2}
    Requests = {r1}
    Categories = {c1, c2}
    MaxChanges = 2
    MaxFaults = 1
INVARIANTS
    TypeOK
    SettledListIsComplete
PROPERTIES
    OwnerChangesMark
    MatchReachesProvider
CHECK_DEADLOCK FALSE
