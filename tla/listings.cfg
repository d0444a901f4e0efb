SPECIFICATION Spec
CONSTANTS
    Rows = {r1, r2, r3, r4}
    Limit = 2
    MaxKey = 2
SYMMETRY Symmetry
INVARIANTS
    TypeOK
    NothingSkipped
    NothingTwice
CHECK_DEADLOCK FALSE
