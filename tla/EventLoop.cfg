SPECIFICATION Spec
CONSTANTS
    Fds = {l, f1, f2}
    Sockets = {s1, s2, s3, s4}
    listener = l
    None = None
    MaxBacklog = 2
SYMMETRY Symmetry
INVARIANTS
    CountsRight
    MapsAgree
    
    NothingUnseen
