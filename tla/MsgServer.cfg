SPECIFICATION Spec

CONSTANTS
    Handles = {h1, h2}
    Addresses = {a1, a2}
    Modes = {TRUE, FALSE}
    MaxConn = 3
    MaxIds = 1
    MaxLinkDrops = 1

SYMMETRY Symmetry
CHECK_DEADLOCK FALSE

INVARIANTS
    UserConnsLive
    UserMapsLive
    OnlineFindable
    
    LoginPending
