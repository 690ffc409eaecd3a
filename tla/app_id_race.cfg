SPECIFICATION Spec
CONSTANTS
    Drivers = {d1, d2, d3}
    Nobody = Nobody
    N = 2
    Reads <- OneRowPerRead
    Modes = {"local"}
    PruneEvery = 1
    RacingStarts = TRUE
    MaxCrashes = 1
INVARIANTS TableExact
