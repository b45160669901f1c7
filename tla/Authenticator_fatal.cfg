CONSTANTS
    t1 = t1
    t2 = t2
    t3 = t3
    n1 = n1
    n2 = n2
    k1 = k1
    k2 = k2
    Attempt <- MCAttempt
    Nonce <- MCNonce
    AppID <- MCAppID
    Keys <- MCKeys
    Stamp <- MCStamp
    Window = 1
    Width = 4
    MaxTime = 2
SYMMETRY MCSymmetry
SPECIFICATION Spec
INVARIANT NoFatalMapRace
CHECK_DEADLOCK FALSE
