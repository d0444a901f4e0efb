SPECIFICATION Spec
SYMMETRY Symmetry
CONSTANTS
    Offers = {o1}
    Favourites = {f1}
    Supports = {s1}
    Admins = {a1, a2}
    Handlers = {w1, w2}
    MaxIds = 2
    MaxChats = 2
INVARIANTS
    TypeOK
    LinkedChatOpened
    MessagesBelong
    SupportChatHasAdmin
PROPERTY
    SettledLink
CHECK_DEADLOCK FALSE
