CONSTANTS
    Proc = {"master", "client"}
    RingSize = 4
    MsgSize = 2
    CountMod = 16
    MaxMessages = 7
SPECIFICATION Spec
INVARIANTS TypeOK RingFifo CompleteDrained ReapedDrained KillFindsGroup
PROPERTY WaitReturns
CHECK_DEADLOCK FALSE
