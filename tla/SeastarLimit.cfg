SPECIFICATION FairSpec
CONSTANTS
    Sizes = {2}
    QueueMaxSizes = {0, 3}
    Transports = {"tcp"}
    Sharing = {FALSE}
    Patience = {TRUE}
    MaxMsgs = 2
    MaxFails = 1
    MaxConnects = 2
PROPERTY DropsOnlyWhenFull
CHECK_DEADLOCK FALSE
