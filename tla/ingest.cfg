SPECIFICATION Spec
CONSTANTS
    NumFiles = 4
    Batches = 2
    MaxFiles = 3
    Runners = {"local", "distributed"}
    SinkWriters = {"transactional", "files"}
    Workers = {2}
    Orders <- SortedAndNot
    Triggers = {FALSE, TRUE}
    MaxStarts = 1
    MaxCrashes = 1
    MaxFaults = 1
    FaultsBeforeRestorePoint = FALSE
INVARIANTS LossBounded CopiesBounded
PROPERTIES EventuallyIngested
