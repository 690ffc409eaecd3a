----------------------------- MODULE PowerLoss -----------------------------
(***************************************************************************)
(* The streaming query on a machine that can lose power.  The state files  *)
(* and the sink's files are synced before they are relied on; the offset   *)
(* and commit logs are SQLite databases in WAL mode with synchronous=NORMAL*)
(* (logs._tune), each of which may lose its own last transactions.         *)
(***************************************************************************)
EXTENDS StreamingQuery

(* What an OS-level crash leaves of a log: a prefix of its ids.            *)
Survivors(ids) == {{i \in ids : i < k} : k \in ids} \cup {ids}

(* Only from a log no sweep has touched yet, whose rows are its history.   *)
OSCrash ==
    /\ pc # "done" /\ crashes < MaxCrashes
    /\ prunedThrough = 0 /\ \A log \in {DOMAIN offsets, commits} : log # {} => 0 \in log
    /\ \E kept \in Survivors(DOMAIN offsets) :
          /\ offsets' = Restrict(offsets, kept)
          /\ finals' = finals \cap kept
    /\ commits' \in Survivors(commits)
    /\ crashes' = crashes + 1
    /\ Die
    /\ UNCHANGED <<snapshots, deltas, sink, available, starts, faults>>

PowerNext == Next \/ OSCrash

PowerSpec == Init /\ [][PowerNext]_vars
============================================================================
