SPECIFICATION ServerFairSpec
CONSTANTS
    login = login
    logout = logout
    Handlers = {h1}
    Workers = {w1, w2}
    BufferSize = 2
    Backends = {"mongo", "clickhouse"}
    StorageTypes = {"mongo", "clickhouse", "other"}
    InKinds <- MCInKinds
    MaxMsgs = 3
    Events <- MCEvents
    Deployments <- MCDeployments
    MaxStarts = 2
INVARIANTS
    ServerTypeOK
    TypedExact
PROPERTIES
    ServerImplementsEventLog
    SettledAcrossRestarts
CHECK_DEADLOCK FALSE
