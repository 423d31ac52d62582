SPECIFICATION Spec
CONSTANTS
    Sizes <- MCSizes
    MaxSize = 3
    SIZE_MOD = 16
    QueueMaxSizes <- MCQueueMaxSizes
    Transports = {"tcp", "tls"}
    Interruptible = FALSE
    MaxMsgs = 3
    MaxFails = 2
    MaxConns = 2
INVARIANTS
    TypeOK
    QueueIsUnsentSuffix
    QueueSizeExact
    FramesOnWireUntilFailure
    SentIsOnWire
    NoFrameSpansConnections
    WireInPostingOrder
    SocketModeAgrees
    HealthyNeverAbandoned
PROPERTIES
    NoSpuriousDrop
    QueueBoundedUntilFailure
CHECK_DEADLOCK FALSE
