SPECIFICATION Spec
CONSTANTS
    N = 4
    Kind = "stateless"
    ClosesAt <- AtOnce
    Polls <- OneRowPerRead
    Drains = TRUE
    DeltaInterval = 0
    PruneEvery = 2
    MaxAttempts = 1
    InitiallyAvailable = 1
    MaxStarts = 1
    MaxCrashes = 2
    MaxFaults = 2
    Stops = TRUE
    StopsDuringReplay = FALSE
    FaultsBeforeRestorePoint = FALSE
INVARIANTS TypeOK WriteAhead NoRowLost NoRowDuplicated EndsDelivered LogsBounded
