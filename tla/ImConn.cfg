SPECIFICATION FairSpec
CONSTANTS
    IM_PDU_HEADER_LEN = 2
    Lengths = {2, 3, 5}
    SocketSize = 3
    MaxPdus = 4
CHECK_DEADLOCK FALSE
INVARIANTS
    
    NoUnreadPdu
 
