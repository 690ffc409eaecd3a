SPECIFICATION Spec
CONSTANTS
    N = 6
    Kind = "complete"
    ClosesAt <- AtOnce
    Polls <- OneRowPerRead
    Drains = FALSE
    DeltaInterval = 2
    PruneEvery = 3
    MaxAttempts = 1
    InitiallyAvailable = 1
    MaxStarts = 0
    MaxCrashes = 2
    MaxFaults = 2
    Stops = FALSE
    StopsDuringReplay = FALSE
    FaultsBeforeRestorePoint = FALSE
INVARIANTS ResumeExact AnswerExact ChainBounded StateDirBounded
PROPERTIES CommitDecides
