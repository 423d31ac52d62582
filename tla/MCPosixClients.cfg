SPECIFICATION ClientFairSpec
CONSTANTS
    Sizes <- MCSizes
    MaxSize = 3
    SIZE_MOD = 16
    QueueMaxSizes <- MCQueueMaxSizes
    Transports = {"tcp"}
    Interruptible = FALSE
    MaxMsgs = 5
    MaxFails = 3
    MaxConns = 2
    Clients = {"simple", "async"}
    EventSizes <- MCEventSizes
INVARIANT EpollWatchesSocket
PROPERTY AsyncEventsLeave
CHECK_DEADLOCK FALSE
