SPECIFICATION Spec
CONSTANTS
    Devices <- TwoDevices
    Boot = "boot"
    Other = "other"
    QueueCapacity = 3
INVARIANTS
    NoSleepOverWork
    SummaryNotOvertaken
PROPERTIES
    EventsServed
    SummaryServed
