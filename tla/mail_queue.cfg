SPECIFICATION Spec
CONSTANTS
    Tasks = {t1}
    Runs = {r1, r2, r3}
    MaxTries = 3
    MaxFaults = 1
INVARIANTS
    TypeOK
    GivenUpLate
    DoneWasSent
PROPERTY
    EveryMailSettles
CHECK_DEADLOCK FALSE
