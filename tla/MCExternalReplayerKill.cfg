CONSTANTS
    Proc = {"master", "client"}
    RingSize = 4
    MsgSize = 2
    CountMod = 16
    MaxMessages = 2
SPECIFICATION Spec
PROPERTY KilledWaitReturns
CHECK_DEADLOCK FALSE
