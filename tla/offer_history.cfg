SPECIFICATION HSpec
CONSTANTS
    Requests = {h1}
    Providers = {v1, v2}
    Handlers = {w1}
    Workers = {j1, j2}
    Day = 1
    MaxTime = 5
    MaxDelivery = 1
    MaxCalls = 4
    MaxFaults = 0
SYMMETRY Symmetry
INVARIANTS
    OnlyChosenFinish
    OnlyFinishedReviewed
    SuccessWasDelivered
PROPERTY
    MilestonesInOrder
