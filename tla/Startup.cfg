SPECIFICATION Spec
CONSTANTS
    InstanceLists <- AllLists
    MaxReports = 2
INVARIANTS
    TypeOK
    ConsoleReady
    ConsolePreferred
    TrackerReady
PROPERTIES
    ScanStarts
