CONSTANTS
    c1 = c1
    c2 = c2
    c3 = c3
    s1 = s1
    s2 = s2
    Conn <- MCConn
    SN <- MCSN
    NoSN = NoSN
    NoID = NoID
    Timeout = 1
    MaxTime = 2
    ReAuth = FALSE
SYMMETRY MCSymmetry
SPECIFICATION Spec
INVARIANT StopUnblocksReaders
