SPECIFICATION Spec
CONSTANTS
    Paths <- GeneratedPaths
    Files <- PlainFiles
    FaultKinds = {"error", "interrupt", "terminate"}
    MaxFaults = 2
    MaxRuns = 2
CHECK_DEADLOCK FALSE
INVARIANTS
    AllOrNothing
    NeverMixed
    NothingLost
    StatusTrue
