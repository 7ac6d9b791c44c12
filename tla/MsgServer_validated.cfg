SPECIFICATION Spec
CONSTANTS
    Handles = {h1, h2}
    Addresses = {a1, a2}
    Modes = {TRUE}
    MaxConn = 3
    MaxIds = 1
    MaxLinkDrops = 0
SYMMETRY Symmetry
CHECK_DEADLOCK FALSE
INVARIANTS
    OpenOnlyIfValidated
