CONSTANTS
    Timer = timer
    Manual = {manual}
    LastVersion = 3
    Rollback = FALSE
    ChecksumGiven = TRUE
    Nothing = Nothing
    MaxPublish = 2
    MaxFaults = 1
    MaxPowerLoss = 1
SPECIFICATION FairSpec
INVARIANTS
    TypeOK
    OnlyCheckedInstalled
    VersionFileTrue
PROPERTIES
    UpdateArrives
