SPECIFICATION FairSpec
CONSTANTS
    Requests = {h1}
    Providers = {v1}
    Handlers = {w1}
    Workers = {j1}
    Day = 1
    MaxTime = 5
    MaxDelivery = 1
    MaxCalls = 5
    MaxFaults = 1
PROPERTIES
    ExpiredLeavesPending
    EveryRequestCompletes
