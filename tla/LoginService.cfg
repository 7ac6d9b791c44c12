SPECIFICATION Spec
CONSTANTS
    Threads = {t1, t2, t3}
    MinConnCnt = 1
    MaxConnCnt = 2
    Addresses = {a1, a2}
    FirstId = 3
    MaxLogins = 4
    MaxFaults = 1
SYMMETRY Symmetry
CHECK_DEADLOCK FALSE
INVARIANTS
    
    PoolSound
    NoLostWakeup
    BlockedOnlyByLeak
PROPERTIES
    IdReplacedOnlyBlindOrRaced
