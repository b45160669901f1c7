CONSTANTS
    m1 = m1
    m2 = m2
    CmdID <- MCCmdID
    MaxAcks = 2
    UseCancel = TRUE
SPECIFICATION Spec
INVARIANT TypeOK
INVARIANT SlotHeldWhileWaiting
PROPERTY ImplementsAckCorrelation
CHECK_DEADLOCK FALSE
