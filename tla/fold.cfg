SPECIFICATION Spec
CONSTANTS
    Partitions = {"a", "b"}
    Declared = {"a", "b"}
    Batches <- Reads
    Lateness = 1
    Width = 2
    Hop = 1
    Intervals = {0, 1}
    TimedReplay = FALSE
    MaxEpochs = 3
    MaxCrashes = 1
    MaxExpiries = 1
INVARIANTS Accounted NoOverclaim OnlyOpenHeld FrontierKept
