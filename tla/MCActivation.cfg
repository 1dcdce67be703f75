CONSTANTS
    Files = {apidb}
    ApiFile = apidb
    ScriptFile = apidb
    Empty = Empty
    Missing = Missing
    StoreFaults = {}
    Workers = {w1}
    Runs = {timer, manual}
    TimerRun = timer
    LicenceKeys = {k1, k2}
    k1 = k1
    k2 = k2
    vendor = vendor
    other = other
    invalid = invalid
    Urls = {vendor, other, invalid}
    ServerAt <- Behind
    Flags = {"1", "0"}
    Absent = Absent
    Submitted <- Both
    Genuine = Genuine
    Forged = Forged
    CaInstalled = FALSE
    KeyInstalled = TRUE
    MaxRequests = 3
    MaxKills = 1
SPECIFICATION FairMCSpec
INVARIANTS
    TypeOK
PROPERTIES
    ActiveIsBackedAlone
    StandingKeyIsActiveAlone
    RevocationReaches
    OnlyVendorActivates
CHECK_DEADLOCK FALSE
