SPECIFICATION ClientFairSpec
CONSTANTS
    Sizes <- MCSizes
    MaxSize = 3
    SIZE_MOD = 16
    QueueMaxSizes <- MCQueueMaxSizes
    Transports = {"tcp"}
    Interruptible = FALSE
    MaxMsgs = 2
    MaxFails = 3
    MaxConns = 2
    Clients = {"simple"}
    EventSizes <- MCEventSizes
PROPERTY SyncEventsLeave
CHECK_DEADLOCK FALSE
