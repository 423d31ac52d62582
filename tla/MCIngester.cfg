SPECIFICATION FairSpec
CONSTANTS
    Handlers = {h1, h2}
    Workers = {w1, w2}
    BufferSize = 2
    Backends = {"mongo", "clickhouse"}
    InKinds <- MCInKinds
    MaxMsgs = 4
INVARIANTS
    TypeOK
    QueueInOrder
    Accounted
    NoSilentLoss
    WorkerInOrder
PROPERTIES
    ImplementsEventLog
    EveryMessageSettled
CHECK_DEADLOCK FALSE
