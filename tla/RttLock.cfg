SPECIFICATION LockSpec
CONSTANTS
    Handlers <- AllHandlers
    Priority <- Priorities
    Writers <- AllWriters
    SEGGER_RTT_MAX_INTERRUPT_PRIORITY = 2
    Main = "main"
    MaxNesting = 2
    Builds <- AllBuilds
INVARIANTS
    OneWriter
    MaskRestored
PROPERTIES
    UrgentServed
