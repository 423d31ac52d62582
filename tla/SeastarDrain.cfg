SPECIFICATION FairSpec
CONSTANTS
    Sizes = {2}
    QueueMaxSizes = {0}
    Transports = {"tcp"}
    Sharing = {FALSE}
    Patience = {TRUE}
    MaxMsgs = 2
    MaxFails = 0
    MaxConnects = 1
INVARIANT DrainedAtClose
CHECK_DEADLOCK FALSE
