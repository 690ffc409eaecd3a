SPECIFICATION Spec
CONSTANTS
    Threads = {t1, t2}
    Keys = {k1, k2}
    Results <- Mixed
    Budgets = {1, 2}
    DiskBudgets = {0, 1}
    Scale = 2
    MaxOps = 4
SYMMETRY TwoWorkers
INVARIANTS OneTier Accounted ClockIsFloor StaleOnlyAfterRace
