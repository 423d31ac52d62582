SPECIFICATION FairSpec
CONSTANTS
    Sizes <- MCSizes
    QueueMaxSizes <- MCQueueMaxSizes
    Transports = {"tcp", "tls"}
    Sharing = {FALSE, TRUE}
    Patience = {TRUE, FALSE}
    MaxMsgs = 4
    MaxFails = 2
    MaxConnects = 2
INVARIANTS
    TypeOK
    OneLoop
    FlagHasLoop
    Conservation
    QueueSizeExact
    StreamKept
    NoWriteAfterClose
PROPERTIES
    QueueBounded
    DisconnectResolves
    KeepsTrying
CHECK_DEADLOCK FALSE
