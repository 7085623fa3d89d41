SPECIFICATION Spec
CONSTANTS
    BUFFER_SIZE_UP = 6
    MaxLines = 4
    MaxResets = 1
    MaxCaptures = 2
INVARIANTS
    TypeOK
    VerdictTrue
PROPERTIES
    FirstCaptureFair
    WriterNeverStalls
CHECK_DEADLOCK FALSE
