CONSTANTS
    m1 = m1
    m2 = m2
    CmdID <- MCCmdID
    MaxAcks = 1
    UseCancel = TRUE
SPECIFICATION Spec
PROPERTY WaitReturns
CHECK_DEADLOCK FALSE
