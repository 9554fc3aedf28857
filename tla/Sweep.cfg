SPECIFICATION SumSpec
CONSTANTS
    Rounds = {1, 2}
    Attempts = 2
    Redos = {TRUE, FALSE}
    MaxMeasured = 3
    MaxCrashes = 2
    MaxPower = 1
    Nodes = {1, 2}
    Units = 2
    Faults = 1
    Settled = TRUE
    Plan <- Campaigns
    MaxFaults = 2
    MaxDriverDeaths = 1
    MaxDocs = 2
    MaxDeaths = 1
    LastNode = 2
    MaxCalibrations = 2
    MaxKills = 2
    NPixels = 6
    MasterLocs = {3, 4}
    DummyPx = 0
    Rate1 <- Rates
    Rate2 <- Rates
    Need = 12
    MinTime = 2
    MaxTime = 9
    Infinite = 99
    Requests <- SomeRequests
    NotYet = NotYet
    Refused = Refused
INVARIANTS
    RoundSound
    CampaignSound
    RecorderSound
    PageSound
    CalibrationKept
    PlanSound
PROPERTY SweepEnds
CHECK_DEADLOCK FALSE
