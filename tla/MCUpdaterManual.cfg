CONSTANTS
    Timer = timer
    Manual = {manual}
    LastVersion = 2
    Rollback = FALSE
    ChecksumGiven = TRUE
    Nothing = Nothing
    MaxPublish = 1
    MaxFaults = 0
    MaxPowerLoss = 0
SPECIFICATION FairSpec
PROPERTIES
    ApiReturns
