SPECIFICATION FairSpec
CONSTANTS
    Drivers = {d1, d2, d3}
    Nobody = Nobody
    N = 2
    Reads <- OneRowPerRead
    Modes = {"local", "remote"}
    PruneEvery = 1
    RacingStarts = FALSE
    MaxCrashes = 1
INVARIANTS TableExact FencedAtOnce
 
