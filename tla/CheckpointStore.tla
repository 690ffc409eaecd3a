-------------------------- MODULE CheckpointStore --------------------------
(***************************************************************************)
(* The durable half of a streaming query: the offset log, the commit log   *)
(* and the state directory that io/formats/streaming/checkpoint bundles    *)
(* into one CheckpointStore, as operators on their contents.               *)
(*                                                                         *)
(*   offsets    [batch id -> source position]  write-ahead, before publish *)
(*   finals     set of batch ids carrying the finalize marker              *)
(*   commits    set of committed batch ids     the epoch's last write      *)
(*   snapshots  [batch id -> fold]             whole state files           *)
(*   deltas     [batch id -> changelog entry]  incremental state files     *)
(*                                                                         *)
(* A log is a partial function, so the operators read its DOMAIN.  What a  *)
(* file holds is opaque here: combining files is the fold's algebra and is *)
(* left to the module that owns the fold, as recovery.py leaves it to core.*)
(*                                                                         *)
(* A definition X_Defect before X is a plausible defect of X, only to show  *)
(* that a property notices it.                                             *)
(***************************************************************************)
EXTENDS Integers, Functions

(* The id that stands for "no batch": every real id is a natural number.   *)
NoBatch == -1

(* Insert-or-replace of one row, or the atomic rename of one state file.   *)
Put(f, k, v) == [i \in DOMAIN f \cup {k} |-> IF i = k THEN v ELSE f[i]]

(* Deletion of a set of rows or files.                                     *)
Remove(f, S) == Restrict(f, DOMAIN f \ S)

(* The largest element of a set of ids, or NoBatch when it is empty.       *)
Newest(S) == IF S = {} THEN NoBatch ELSE CHOOSE i \in S : \A j \in S : j <= i

(* CommitLog.last_committed: the maximum committed id.                     *)
LastCommitted(commits) == Newest(commits)

-----------------------------------------------------------------------------
(* The state directory.                                                    *)

(* restore_chain's base: the newest snapshot at or before b.               *)
BaseId(snapshots, b) == Newest({i \in DOMAIN snapshots : i <= b})

ChainDeltas_Uncommitted(snapshots, deltas, b) ==
    {d \in DOMAIN deltas : BaseId(snapshots, b) < d}

(* restore_chain's changelog: the deltas after the base, up to b.  A delta *)
(* above b belongs to an epoch that never committed.                       *)
ChainDeltas(snapshots, deltas, b) ==
    {d \in DOMAIN deltas : BaseId(snapshots, b) < d /\ d <= b}

PruneFloor_ByIdAlone(snapshots, keep) == keep

(* prune's floor: the base that recovery to `keep' starts from.            *)
PruneFloor(snapshots, keep) ==
    IF BaseId(snapshots, keep) = NoBatch THEN keep ELSE BaseId(snapshots, keep)

DeadIds_SnapshotsOnly(snapshots, deltas, keep) ==
    {i \in DOMAIN snapshots : i < PruneFloor(snapshots, keep)}

(* The ids of the state files a prune through `keep' removes.              *)
DeadIds(snapshots, deltas, keep) ==
    {i \in DOMAIN snapshots \cup DOMAIN deltas : i < PruneFloor(snapshots, keep)}

-----------------------------------------------------------------------------
(* recover(): the resume plan, read off the logs.                          *)

(* Nothing to resume from: no offsets, or nothing committed.               *)
Fresh(offsets, commits) == DOMAIN offsets = {} \/ LastCommitted(commits) = NoBatch

ResumeBatch_SameId(offsets, commits) == LastCommitted(commits)
ResumeBatch_PastLogged(offsets, commits) == Newest(DOMAIN offsets) + 1

(* The first uncommitted id.                                               *)
ResumeBatch(offsets, commits) ==
    IF Fresh(offsets, commits) THEN 0 ELSE LastCommitted(commits) + 1

SeekBatch_Latest(offsets, commits) == Newest(DOMAIN offsets)
(* The id whose recorded position the sources are sought to.               *)
SeekBatch(offsets, commits) ==
    IF Fresh(offsets, commits) THEN NoBatch ELSE LastCommitted(commits)

PendingFlush_Unseen(offsets, finals, commits) == FALSE

(* The id to resume under was logged as an end-of-stream flush.            *)
PendingFlush(offsets, finals, commits) ==
    /\ DOMAIN offsets # {}
    /\ LastCommitted(commits) + 1 \in finals

(* `seek' is meaningful only when `hasSeek'; `stateAt' is the committed id *)
(* whose chain is restored, NoBatch when no state is.                      *)
Recover(offsets, finals, commits, snapshots, deltas) ==
    LET last  == LastCommitted(commits)
        at    == SeekBatch(offsets, commits)
        empty == BaseId(snapshots, last) = NoBatch /\ ChainDeltas(snapshots, deltas, last) = {}
    IN  [start   |-> ResumeBatch(offsets, commits),
         hasSeek |-> at \in DOMAIN offsets,
         seek    |-> IF at \in DOMAIN offsets THEN offsets[at] ELSE 0,
         stateAt |-> IF Fresh(offsets, commits) \/ empty THEN NoBatch ELSE last,
         pending |-> PendingFlush(offsets, finals, commits)]
============================================================================
