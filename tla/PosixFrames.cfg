SPECIFICATION Spec
CONSTANTS
    Sizes <- MCSizes
    MaxSize = 3
    SIZE_MOD = 16
    QueueMaxSizes = {0}
    Transports = {"tcp"}
    Interruptible = FALSE
    MaxMsgs = 2
    MaxFails = 2
    MaxConns = 1
INVARIANT FramesOnWire
CHECK_DEADLOCK FALSE
