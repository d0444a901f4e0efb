SPECIFICATION Spec
CONSTANTS
    Users = {u1, u2}
    Emails = {e1, e2}
    Passwords = {p1, p2}
    Addresses = {a1, a2}
    Handlers = {w1, w2}
    MaxFaults = 1
SYMMETRY Symmetry
INVARIANTS
    TypeOK
    SessionsWereMailed
    ActivationMailed
PROPERTIES
    AddressesLeaveKnowingly
    ImplementsDirectory
CHECK_DEADLOCK FALSE
