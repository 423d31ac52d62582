SPECIFICATION Spec
CONSTANTS
    Base = 2
    Ints <- MCInts
    MaxLen = 4
    MaxFields = 4
INVARIANTS
    TypeOK
    FillsBuffer
    RoundTrip
CHECK_DEADLOCK FALSE
