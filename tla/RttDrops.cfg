SPECIFICATION Spec
CONSTANTS
    BUFFER_SIZE_UP = 6
    MaxLines = 4
    MaxResets = 1
    MaxCaptures = 2
INVARIANT
    LinesDroppedWhole
CHECK_DEADLOCK FALSE
