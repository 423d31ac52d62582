SPECIFICATION Spec
CONSTANTS
    Base = 2
    Ints <- MCInts
    MaxLen = 4
    MaxFields = 2
INVARIANT FullEvent
CHECK_DEADLOCK FALSE
