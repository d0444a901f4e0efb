SPECIFICATION FairSpec
CONSTANTS
    Requests = {h1}
    Providers = {v1}
    Handlers = {w1}
    Workers = {j1}
    Day = 1
    MaxTime = 5
    MaxDelivery = 1
    MaxCalls = 4
    MaxFaults = 0
PROPERTY NegativeReviewCloses
