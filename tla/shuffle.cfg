SPECIFICATION FairSpec
CONSTANTS
    W = 3
    SourceCounts = {3, 4}
    MaxAttempts = 3
    Allowance = 4
    MaxLosses = 2
    B = 3
    ReduceWindow = 2
    Replication = TRUE
    MaxBackups = 1
    MinFinishedPercent = 50
INVARIANTS AddressesHold NoHealthyBlamed OneLossSurvived
PROPERTIES HonoursContract Terminates
