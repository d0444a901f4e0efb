SPECIFICATION Spec
CONSTANTS
    Images = {i1, i2, i3}
    Products = {product}
    Profiles = {profile}
    Others = {template}
    Handlers = {w1, w2}
    MaxUpdates = 2
    MaxFaults = 1
SYMMETRY Symmetry
INVARIANTS
    TypeOK
    AllOrNothing
    GoneProfileIsBare
PROPERTY NoImageIsTaken
CHECK_DEADLOCK FALSE
