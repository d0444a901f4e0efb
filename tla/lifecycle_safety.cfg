SPECIFICATION Spec
CONSTANTS
    Requests = {h1}
    Providers = {v1, v2}
    Handlers = {w1, w2}
    Workers = {j1}
    Day = 2
    MaxTime = 9
    MaxDelivery = 2
    MaxCalls = 5
    MaxFaults = 1
SYMMETRY Symmetry
INVARIANTS
    TypeOK
    FinishedIsDue
    SuccessIsOverdue
    ReminderIsDue
PROPERTIES
    OffersAdvance
    BoardKept
