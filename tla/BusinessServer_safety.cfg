SPECIFICATION Spec
CONSTANTS
    Handles = {h1, h2}
    Workers = {w1, w2}
    UuidMod = 3
    MaxConn = 3
    MaxReq = 2
    Sigterm = FALSE
SYMMETRY Symmetry
INVARIANTS
    UuidDistance
    MapsMatchConns
    ReplyToRequester
    AtMostOneReply
    RequestNotLost
PROPERTIES
    CloseJustified
