CONSTANTS
    KeyOnMedium = TRUE
    MaxFaults = 3
    Threads = {t1, t2}
    Scripts = {s1}
    Ids = {"i1", "i2", "i3", "i4", "e"}
    EtcTexts = {"", "e"}
    MaxCalls = 4
    MaxStops = 1
SPECIFICATION BootSpec
INVARIANTS
    BootTypeOK
    CompleteHasBase
    AllFindIt
PROPERTIES
    RetryCompletes
    IdentityStays
CHECK_DEADLOCK FALSE
