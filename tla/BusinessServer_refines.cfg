SPECIFICATION FairSpec
CONSTANTS
    Handles = {h1}
    Workers = {w1}
    UuidMod = 5
    MaxConn = 2
    MaxReq = 2
    Sigterm = TRUE
CHECK_DEADLOCK FALSE
PROPERTIES
    ExitsAfterSigterm
    
    GonePeerClosed
    LoopReturns
