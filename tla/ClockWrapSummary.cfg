SPECIFICATION MCPromptSpec
CONSTANTS
    UINT_MOD = 64
    ClockPeriod = 8
    Capacity = 2
    Addresses <- TwoAddresses
    AddressTypes <- TwoTypes
    Names <- TwoNames
    Rssis <- NewsSignals
    ZeroAddress = "a0"
    ZeroAddressType = 0
    NoName = ""
    Reports <- LogReports
    RssiDelta = 12
    GlobalInterval = 1
    MinInterval = 2
    RefreshInterval = 4
    SummaryInterval = 3
    BootTimes = {0}
    MaxUptime = 20
    MaxReports = 1
INVARIANTS
    SummaryDueOnTime
