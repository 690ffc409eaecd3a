SPECIFICATION FairSpec
CONSTANTS
    N = 4
    Kind = "windowed"
    ClosesAt <- OpenForTwo
    Polls <- UnevenFiles
    Drains = FALSE
    DeltaInterval = 9
    PruneEvery = 2
    MaxAttempts = 1
    InitiallyAvailable = 4
    MaxStarts = 1
    MaxCrashes = 2
    MaxFaults = 0
    Stops = TRUE
    StopsDuringReplay = FALSE
    FaultsBeforeRestorePoint = FALSE
INVARIANTS ResumeExact ReplayIdentical EndsDelivered
PROPERTIES ExactlyOnce EventuallyDelivered StopReturns
