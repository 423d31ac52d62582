SPECIFICATION FairSpec
CONSTANTS
    Conns = {c1, c2}
    Bodies <- MCBodies
    ShortBody = 2
    MaxFrames = 2
INVARIANTS
    TypeOK
    DeliveredIsPrefix
PROPERTIES
    EveryBodyDelivered
CHECK_DEADLOCK FALSE
