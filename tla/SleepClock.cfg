SPECIFICATION Spec
CONSTANTS
    Configs <- SomeConfigs
    TickMod = 16
    TicksPerSecond <- Ticks
    MsPerSecond = 3
    MaxElapsed = 34
    MaxStack = 1
INVARIANTS
    UptimeFaithful
    ProbeReadable
    BranchesClocked
CHECK_DEADLOCK FALSE
