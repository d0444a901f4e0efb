SPECIFICATION Spec
CONSTANTS
    Users = {u1}
    Emails = {e1}
    Passwords = {p1}
    Addresses = {a1, a2}
    Handlers = {w1}
    MaxFaults = 0
INVARIANT HorecaHasAddress
CHECK_DEADLOCK FALSE
