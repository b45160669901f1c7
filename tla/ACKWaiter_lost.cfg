CONSTANTS
    m1 = m1
    m2 = m2
    CmdID <- MCCmdID
    MaxAcks = 1
    UseCancel = FALSE
SPECIFICATION Spec
PROPERTY AckNotDroppedWhileAwaited
CHECK_DEADLOCK FALSE
