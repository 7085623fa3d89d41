SPECIFICATION Spec
CONSTANTS
    Bytes <- FieldBytes
    MaxLength = 6
    NameCapacity = 2
CHECK_DEADLOCK FALSE
INVARIANTS
    InBounds
    ResultExpected
PROPERTIES
    Terminates
