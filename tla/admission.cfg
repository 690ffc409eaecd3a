SPECIFICATION FairSpec
CONSTANTS
    Threads = {t1, t2, t3, t4, t5}
    Patient = {t1, t2, t3}
    Slots = 2
    QueueDepth = 2
    MaxQueries = 2
INVARIANTS SlotsExact NoLostWakeup
PROPERTIES EventuallyAdmitted
