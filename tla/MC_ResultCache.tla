-------------------------- MODULE MC_ResultCache --------------------------
(* Instances of ResultCache.                                               *)
EXTENDS ResultCache, TLC

Result(size, cost, level) == [size |-> size, cost |-> cost, level |-> level]

(* Results that fill the cache or share it, one that is never demoted, one *)
(* that never enters memory, and an empty one.                             *)
Mixed == {Result(2, 2, "MEMORY_AND_DISK"), Result(1, 3, "MEMORY_AND_DISK"),
          Result(1, 1, "MEMORY_ONLY"), Result(1, 1, "DISK_ONLY"),
          Result(0, 1, "MEMORY_AND_DISK")}

TwoWorkers == Permutations(Threads) \cup Permutations(Keys)
===========================================================================
