SPECIFICATION PowerSpec
CONSTANTS
    N = 3
    Kind = "stateless"
    ClosesAt <- AtOnce
    Polls <- OneRowPerRead
    Drains = FALSE
    DeltaInterval = 0
    PruneEvery = 64
    MaxAttempts = 1
    InitiallyAvailable = 1
    MaxStarts = 0
    MaxCrashes = 1
    MaxFaults = 0
    Stops = FALSE
    StopsDuringReplay = FALSE
    FaultsBeforeRestorePoint = FALSE
INVARIANTS NoRowLost
