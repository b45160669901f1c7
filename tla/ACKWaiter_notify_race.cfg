CONSTANTS
    m1 = m1
    m2 = m2
    CmdID <- MCCmdID
    MaxAcks = 1
    UseCancel = FALSE
SPECIFICATION Spec
INVARIANT NoSendOnClosed
CHECK_DEADLOCK FALSE
