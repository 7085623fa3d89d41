SPECIFICATION Spec
CONSTANTS
    Paths <- GeneratedPaths
    Files <- PlainFiles
    FaultKinds = {"terminate"}
    MaxFaults = 1
    MaxRuns = 1
CHECK_DEADLOCK FALSE
INVARIANTS
    Transactional
