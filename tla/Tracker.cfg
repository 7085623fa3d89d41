SPECIFICATION MCSpec
CONSTANTS
    UINT_MOD = 4
    ClockPeriod = 4
    Capacity = 2
    Addresses <- TwoAddresses
    AddressTypes <- TwoTypes
    Names <- TwoNames
    Rssis <- NewsSignals
    ZeroAddress = "a0"
    ZeroAddressType = 0
    NoName = ""
    Reports <- LogReports
    RssiDelta = 12
    GlobalInterval = 1
    MinInterval = 2
    RefreshInterval = 3
    SummaryInterval = 1
    BootTimes = {2}
    MaxUptime = 6
    MaxReports = 4
INVARIANTS
    EntriesAreOwn
    SummaryDueOnTime
    ReportsAccounted
PROPERTIES
    OldestEvicted
    GlobalCeiling
    NoNewsWithheld
    ImplementsScanLog
