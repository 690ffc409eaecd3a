--------------------------- MODULE StreamingQuery ---------------------------
(***************************************************************************)
(* One checkpointed streaming query: StreamingQuery (core/streaming_query/ *)
(* engine.py) driving a LocalRunner over a replayable source, a processor  *)
(* with or without running state, and a sink keyed by batch id, against    *)
(* the CheckpointStore.                                                    *)
(*                                                                         *)
(* The source holds rows 1..N in event-time order and a position is the    *)
(* number of rows read, so a row is its own offset.  The data is abstracted*)
(* to what exactly-once is about: a fold, a state file or a sink write is  *)
(* the number of times each row is counted in it.                          *)
(*                                                                         *)
(* Kind is the processor and the output it owes its sink:                  *)
(*   "stateless"  appends each micro-batch's rows                          *)
(*   "complete"   AggregateProcessor: every write is the whole answer      *)
(*   "windowed"   WindowedAggregateProcessor: a row's window is emitted    *)
(*                when the stream reaches row ClosesAt[row], or by the     *)
(*                end-of-stream flush                                      *)
(*                                                                         *)
(* A definition X_Defect before X is a plausible defect of X, only to show  *)
(* that a property notices it.                                             *)
(***************************************************************************)
EXTENDS CheckpointStore, FiniteSets

CONSTANTS
    N,                        \* rows the source will ever hold
    Kind,                     \* "stateless", "complete" or "windowed"
    ClosesAt,                 \* row -> position at which its window closes
    Polls,                    \* position -> positions a read from it can end at
    Drains,                   \* trigger.is_drain: once / available_now
    DeltaInterval,            \* streaming.checkpoint_delta_interval (0: off)
    PruneEvery,               \* store._PRUNE_EVERY
    MaxAttempts,              \* distributed.recovery_max_attempts
    InitiallyAvailable,       \* rows the source holds before the first start
    MaxStarts,                \* bound: restarts of a query that ended by itself
    MaxCrashes,               \* bound: process crashes
    MaxFaults,                \* bound: transient faults inside the loop
    Stops,                    \* the user may call stop()
    StopsDuringReplay,        \* ... also while a logged epoch awaits replay
    FaultsBeforeRestorePoint  \* a fault may precede the first restorable commit

Rows == 1..N

ASSUME NAssumption == N \in Nat \ {0}
ASSUME KindAssumption == Kind \in {"stateless", "complete", "windowed"}
ASSUME ClosesAtAssumption ==
    ClosesAt \in [Rows -> Nat] /\ \A r \in Rows : ClosesAt[r] >= r
ASSUME PollsAssumption ==
    /\ Polls \in [0..N -> SUBSET Rows]
    /\ \A p \in 0..N : \A e \in Polls[p] : e > p
ASSUME SwitchAssumption ==
    {Drains, Stops, StopsDuringReplay, FaultsBeforeRestorePoint} \subseteq BOOLEAN
ASSUME BoundAssumption ==
    /\ InitiallyAvailable \in 0..N
    /\ PruneEvery \in Nat \ {0}
    /\ {DeltaInterval, MaxAttempts, MaxStarts, MaxCrashes, MaxFaults} \subseteq Nat

VARIABLES
    \* the engine and its runner: lost with the process
    pc,            \* the next step of the loop, "down" when no process runs
    epoch,         \* what the id being committed is for
    batches,       \* engine._batches: the id the next epoch takes
    position,      \* the source's cursor
    staged,        \* rows of the staged micro-batch
    output,        \* what the processor returned for the sink
    fold,          \* running state: counted rows and the eviction bound
    delta,         \* fold._delta: rows of the last push not yet taken
    deltasWritten, \* engine._deltas_written
    restarts,      \* _run_resilient: consecutive restarts
    progressMark,  \* _run_resilient: batches when the loop was entered
    prunedThrough, \* store._pruned_through
    stopping,      \* engine._stop
    \* the checkpoint and the sink: durable
    offsets, finals, commits, snapshots, deltas, sink,
    \* the environment
    available, starts, crashes, faults

work    == <<staged, output>>
state   == <<fold, delta, deltasWritten>>
retry   == <<restarts, progressMark>>
engine  == <<pc, epoch, batches, position, work, state, retry, prunedThrough, stopping>>
logs    == <<offsets, finals, commits>>
files   == <<snapshots, deltas>>
durable == <<logs, files, sink>>
env     == <<available, starts, crashes, faults>>
vars    == <<engine, durable, env>>

-----------------------------------------------------------------------------
(* The fold algebra: partial states add up, and eviction drops a prefix of *)
(* the window axis.                                                        *)

NoRows     == [r \in Rows |-> 0]
OneEach(S) == [r \in Rows |-> IF r \in S THEN 1 ELSE 0]
Plus(f, g) == [r \in Rows |-> f[r] + g[r]]
Open(f, bound)   == [r \in Rows |-> IF ClosesAt[r] > bound THEN f[r] ELSE 0]
Closed(f, bound) == [r \in Rows |-> IF ClosesAt[r] > bound THEN 0 ELSE f[r]]

EmptyFold == [count |-> NoRows, evicted |-> 0]

Held(f) == {r \in Rows : f.count[r] > 0}

Stateful == Kind # "stateless"

(* _drop_evicted: what a restored chain's partials predate.                *)
DropEvicted(f, bound) == Open(f, bound)

(* The state a chain restores: base plus every delta after it, then the    *)
(* eviction bound of the chain's last part re-applied.                     *)
RestoreChain(b) ==
    LET base  == BaseId(snapshots, b)
        chain == ChainDeltas(snapshots, deltas, b)
        from  == IF base = NoBatch THEN EmptyFold ELSE snapshots[base]
        bound == IF chain = {} THEN from.evicted ELSE deltas[Newest(chain)].evicted
        times == [r \in Rows |-> Cardinality({d \in chain : r \in deltas[d].rows})]
    IN  [count |-> DropEvicted(Plus(from.count, times), bound), evicted |-> bound]

Plan == Recover(offsets, finals, commits, snapshots, deltas)

(* The state recovery hands the processor of a new process ...             *)
Recovered == IF Plan.stateAt = NoBatch THEN EmptyFold ELSE RestoreChain(Plan.stateAt)

RolledBack_KeepsFold == fold

(* ... and of a living one, whose fold is replaced only by a restored one. *)
RolledBack == IF Plan.stateAt = NoBatch THEN fold ELSE RestoreChain(Plan.stateAt)

ChainLength_Forgotten == 0

ChainLength == Cardinality(ChainDeltas(snapshots, deltas, LastCommitted(commits)))

(* What one micro-batch reading up to `end' does to the fold ...           *)
Push(f, rows, end) ==
    CASE Kind = "stateless" -> f
      [] Kind = "complete"  -> [f EXCEPT !.count = Plus(f.count, OneEach(rows))]
      [] Kind = "windowed"  -> [count   |-> Open(Plus(f.count, OneEach(rows)), end),
                                evicted |-> end]

(* ... and what it hands the sink.                                         *)
Emitted(f, rows, end) ==
    CASE Kind = "stateless" -> OneEach(rows)
      [] Kind = "complete"  -> Plus(f.count, OneEach(rows))
      [] Kind = "windowed"  -> Closed(Plus(f.count, OneEach(rows)), end)

(* state_policy.worth_a_delta, a row standing for its group's bytes.       *)
WorthADelta == delta # {} /\ 2 * Cardinality(delta) <= Cardinality(Held(fold))

MayTakeDelta == DeltaInterval > 0 /\ deltasWritten < DeltaInterval

(* take_delta consumes the entry, on the one path of write_state that asks *)
(* for it.                                                                 *)
TakenDelta == IF MayTakeDelta THEN {} ELSE delta

SinkWrite_DroppedOnStop(id, out) ==
    IF id \in DOMAIN sink \/ out = NoRows \/ stopping THEN sink ELSE Put(sink, id, out)

SinkWrite_EveryTime(id, out) ==
    IF out = NoRows THEN sink
    ELSE Put(sink, id, IF id \in DOMAIN sink THEN Plus(sink[id], out) ELSE out)

(* A sink write under `id': an append sink that already holds the id keeps *)
(* what it has, a complete sink replaces it.  Nothing is written for an    *)
(* append epoch without output rows.                                       *)
SinkWrite(id, out) ==
    IF Kind # "complete" /\ (id \in DOMAIN sink \/ out = NoRows)
    THEN sink
    ELSE Put(sink, id, out)

Logged_Late(id, at) == offsets

(* OffsetLog.record, the write-ahead of an id.                             *)
Logged(id, at) == Put(offsets, id, at)

Superseded_OneSweepLate(ids) == {i \in ids : i < prunedThrough}

(* The log rows a sweep after the commit of `batches' removes.             *)
Superseded(ids) == {i \in ids : i < batches}

AfterPublish_CommitFirst == "commit"

(* _commit_microbatch writes the state of a stateful runner, then commits. *)
AfterPublish == IF Stateful THEN "state" ELSE "commit"

-----------------------------------------------------------------------------
Init ==
    /\ pc = "down" /\ epoch = "data" /\ batches = 0 /\ position = 0
    /\ staged = {} /\ output = NoRows /\ fold = EmptyFold /\ delta = {}
    /\ deltasWritten = 0 /\ restarts = 0 /\ progressMark = 0
    /\ prunedThrough = 0 /\ stopping = FALSE
    /\ offsets = <<>> /\ finals = {} /\ commits = {}
    /\ snapshots = <<>> /\ deltas = <<>> /\ sink = <<>>
    /\ available = InitiallyAvailable /\ starts = 0 /\ crashes = 0 /\ faults = 0

(* The source receives one more row.                                       *)
Produce ==
    /\ available < N
    /\ available' = available + 1
    /\ UNCHANGED <<engine, durable, starts, crashes, faults>>

Readable_NotTheNewest == {e \in Polls[position] : e < available}

(* The ends a read from the current position can have now.                 *)
Readable == {e \in Polls[position] : e <= available}

(* start(): a new process recovers from the checkpoint and runs the loop,  *)
(* first finishing a flush that was logged and never committed.            *)
Start ==
    /\ pc \in {"down", "done"}
    /\ pc = "done" => starts < MaxStarts
    /\ starts' = IF pc = "done" THEN starts + 1 ELSE starts
    /\ batches' = Plan.start
    /\ progressMark' = Plan.start
    /\ position' = Plan.seek
    /\ fold' = Recovered
    /\ deltasWritten' = IF Plan.stateAt = NoBatch THEN 0 ELSE ChainLength
    /\ pc' = IF Plan.pending THEN "replay" ELSE "loop"
    /\ epoch' = "data" /\ staged' = {} /\ output' = NoRows /\ delta' = {}
    /\ restarts' = 0 /\ prunedThrough' = 0 /\ stopping' = FALSE
    /\ UNCHANGED <<durable, available, crashes, faults>>

(* stop(): sets the event the loop and the source look at.                 *)
StopRequest ==
    /\ Stops /\ ~stopping /\ pc \notin {"down", "done"}
    /\ StopsDuringReplay \/ pc \notin {"loop", "stage"} \/ batches \notin DOMAIN offsets
    /\ stopping' = TRUE
    /\ UNCHANGED <<pc, epoch, batches, position, work, state, retry, prunedThrough,
                   durable, env>>

-----------------------------------------------------------------------------
(* One micro-batch: stage, write-ahead, publish, write state, commit.      *)

(* The loop's own test of the stop event, once per micro-batch.            *)
TestStop ==
    /\ pc = "loop"
    /\ pc' = IF stopping THEN "finalize" ELSE "stage"
    /\ UNCHANGED <<epoch, batches, position, work, state, retry, prunedThrough, stopping,
                   durable, env>>

(* stage() reads the next rows of the source.                              *)
Stage ==
    /\ pc = "stage"
    /\ \E e \in Readable :
          /\ position' = e
          /\ staged' = {r \in Rows : position < r /\ r <= e}
    /\ epoch' = "data"
    /\ pc' = "record"
    /\ UNCHANGED <<batches, output, state, retry, prunedThrough, stopping, durable, env>>

StageEnds_DeafToStop == Drains /\ Readable = {}

(* stage() returns None: a drain found nothing, or the source saw the stop *)
(* event, which it tests before it polls.                                  *)
StageEnds == stopping \/ (Drains /\ Readable = {})

(* The drain marker: the final position under an id of its own.            *)
Exhausted ==
    /\ pc = "stage" /\ StageEnds
    /\ epoch' = "drain"
    /\ pc' = "record"
    /\ UNCHANGED <<batches, position, work, state, retry, prunedThrough, stopping,
                   durable, env>>

(* An idle source under a trigger that does not drain: sleep, look again.  *)
Idle ==
    /\ pc = "stage" /\ Readable = {} /\ ~StageEnds
    /\ UNCHANGED vars

RecordOffsets ==
    /\ pc = "record"
    /\ offsets' = Logged(batches, position)
    /\ pc' = IF epoch = "data" THEN "fold" ELSE AfterPublish
    /\ UNCHANGED <<epoch, batches, position, work, state, retry, prunedThrough, stopping,
                   finals, commits, files, sink, env>>

(* publish(), first half: the processor folds the batch in.                *)
Fold ==
    /\ pc = "fold"
    /\ fold' = Push(fold, staged, position)
    /\ output' = Emitted(fold, staged, position)
    /\ delta' = IF Stateful THEN staged ELSE {}
    /\ staged' = {}
    /\ pc' = "sink"
    /\ UNCHANGED <<epoch, batches, position, deltasWritten, retry, prunedThrough,
                   stopping, durable, env>>

(* publish(), second half, and emit_final() of a flush.                    *)
WriteSink ==
    /\ pc = "sink"
    /\ sink' = SinkWrite(batches, output)
    /\ output' = NoRows
    /\ pc' = AfterPublish
    /\ UNCHANGED <<epoch, batches, position, staged, state, retry, prunedThrough, stopping,
                   logs, files, env>>

WriteDelta ==
    /\ pc = "state" /\ MayTakeDelta /\ WorthADelta
    /\ deltas' = Put(deltas, batches, [rows |-> delta, evicted |-> fold.evicted])
    /\ delta' = TakenDelta
    /\ deltasWritten' = deltasWritten + 1
    /\ pc' = "dropsnapshot"
    /\ UNCHANGED <<epoch, batches, position, work, fold, retry, prunedThrough, stopping,
                   logs, snapshots, sink, env>>

(* A fold that never held anything has no state to write.                  *)
WriteSnapshot ==
    /\ pc = "state" /\ ~(MayTakeDelta /\ WorthADelta)
    /\ snapshots' = IF fold = EmptyFold THEN snapshots ELSE Put(snapshots, batches, fold)
    /\ delta' = TakenDelta
    /\ deltasWritten' = 0
    /\ pc' = IF fold = EmptyFold THEN "commit" ELSE "dropdelta"
    /\ UNCHANGED <<epoch, batches, position, work, fold, retry, prunedThrough, stopping,
                   logs, deltas, sink, env>>

(* One state file per id: the write that landed removes the other kind.    *)
DropOther ==
    /\ pc \in {"dropsnapshot", "dropdelta"}
    /\ snapshots' = IF pc = "dropsnapshot" THEN Remove(snapshots, {batches}) ELSE snapshots
    /\ deltas' = IF pc = "dropdelta" THEN Remove(deltas, {batches}) ELSE deltas
    /\ pc' = "commit"
    /\ UNCHANGED <<epoch, batches, position, work, state, retry, prunedThrough, stopping,
                   logs, sink, env>>

Commit ==
    /\ pc = "commit"
    /\ commits' = commits \cup {batches}
    /\ pc' = IF Stateful THEN "prunestate" ELSE "prunelogs"
    /\ UNCHANGED <<epoch, batches, position, work, state, retry, prunedThrough, stopping,
                   offsets, finals, files, sink, env>>

(* prune() deletes the dead files one by one, oldest first, a snapshot     *)
(* before the delta of the same id.                                        *)
PruneState ==
    /\ pc = "prunestate"
    /\ LET dead == DeadIds(snapshots, deltas, batches)
       IN  \/ /\ dead = {}
              /\ pc' = "prunelogs"
              /\ UNCHANGED files
           \/ \E i \in dead :
                 /\ \A j \in dead : i <= j
                 /\ snapshots' = Remove(snapshots, {i})
                 /\ deltas' = IF i \in DOMAIN snapshots THEN deltas ELSE Remove(deltas, {i})
                 /\ pc' = pc
    /\ UNCHANGED <<epoch, batches, position, work, state, retry, prunedThrough, stopping,
                   logs, sink, env>>

(* Where the engine goes once an id is committed and pruned.               *)
NextEpoch ==
    /\ batches' = batches + 1
    /\ progressMark' = IF epoch = "replay" THEN batches + 1 ELSE progressMark
    /\ pc' = CASE epoch \in {"data", "replay"} -> "loop"
               [] epoch = "drain" -> "finalize"
               [] epoch = "flush" -> "done"

(* prune_logs(): swept every PruneEvery batches of this store, offsets     *)
(* (and the markers that live in the same table) before commits.           *)
PruneLogs ==
    /\ pc = "prunelogs"
    /\ IF batches - prunedThrough < PruneEvery
       THEN NextEpoch /\ UNCHANGED <<prunedThrough, offsets, finals>>
       ELSE /\ prunedThrough' = batches
            /\ offsets' = Remove(offsets, Superseded(DOMAIN offsets))
            /\ finals' = finals \ Superseded(finals)
            /\ pc' = "prunecommits"
            /\ UNCHANGED <<batches, progressMark>>
    /\ UNCHANGED <<epoch, position, work, state, restarts, stopping, commits, files, sink,
                   env>>

PruneCommits ==
    /\ pc = "prunecommits"
    /\ commits' = commits \ Superseded(commits)
    /\ NextEpoch
    /\ UNCHANGED <<epoch, position, work, state, restarts, prunedThrough, stopping,
                   offsets, finals, files, sink, env>>

-----------------------------------------------------------------------------
(* _emit_finalize: the end-of-stream flush of the windows still open.      *)

Flushable_Nothing == NoRows

(* finalize(): the rows of every open window ...                           *)
Flushable == IF Kind = "windowed" THEN fold.count ELSE NoRows

(* ... and the fold it leaves behind.                                      *)
Flushed == IF Kind = "windowed" THEN [fold EXCEPT !.count = NoRows] ELSE fold

FinalizeNothing ==
    /\ pc = "finalize" /\ Flushable = NoRows
    /\ pc' = "done"
    /\ UNCHANGED <<epoch, batches, position, work, state, retry, prunedThrough, stopping,
                   durable, env>>

(* The write-ahead of a flush: the position, then the finalize marker.     *)
FinalizeRecord ==
    /\ pc = "finalize" /\ Flushable # NoRows
    /\ output' = Flushable
    /\ fold' = Flushed
    /\ epoch' = "flush"
    /\ offsets' = Logged(batches, position)
    /\ pc' = "mark"
    /\ UNCHANGED <<batches, position, staged, delta, deltasWritten, retry, prunedThrough,
                   stopping, finals, commits, files, sink, env>>

FinalizeMark ==
    /\ pc = "mark"
    /\ finals' = finals \cup {batches}
    /\ pc' = "sink"
    /\ UNCHANGED <<epoch, batches, position, work, state, retry, prunedThrough, stopping,
                   offsets, commits, files, sink, env>>

(* A flush found logged and uncommitted is re-run under its own id, and    *)
(* the id is committed even when nothing is left to flush.                 *)
ReplayFinalize ==
    /\ pc = "replay"
    /\ output' = Flushable
    /\ fold' = Flushed
    /\ epoch' = "replay"
    /\ pc' = IF Flushable # NoRows THEN "sink" ELSE AfterPublish
    /\ UNCHANGED <<batches, position, staged, delta, deltasWritten, retry, prunedThrough,
                   stopping, durable, env>>

-----------------------------------------------------------------------------
(* Failures.                                                               *)

(* The process dies, or its loop ends with an error: nothing volatile      *)
(* survives.                                                               *)
Die ==
    /\ pc' = "down" /\ epoch' = "data" /\ batches' = 0 /\ position' = 0
    /\ staged' = {} /\ output' = NoRows /\ fold' = EmptyFold /\ delta' = {}
    /\ deltasWritten' = 0 /\ restarts' = 0 /\ progressMark' = 0
    /\ prunedThrough' = 0 /\ stopping' = FALSE

Crash ==
    /\ pc \notin {"down", "done"} /\ crashes < MaxCrashes
    /\ crashes' = crashes + 1
    /\ Die
    /\ UNCHANGED <<durable, available, starts, faults>>

(* Consecutive restarts after a fault here: progress resets the count.     *)
NextRestarts == IF batches > progressMark THEN 0 ELSE restarts + 1

(* _run_resilient rolls back to the checkpoint in the living process.  The *)
(* source is re-sought and the fold restored only when the plan has        *)
(* something to restore, and the fold's pending delta is not touched.      *)
RollBack ==
    /\ batches' = Plan.start
    /\ progressMark' = Plan.start
    /\ position' = IF Plan.hasSeek THEN Plan.seek ELSE position
    /\ fold' = RolledBack
    /\ deltasWritten' = IF Plan.stateAt = NoBatch THEN deltasWritten ELSE ChainLength
    /\ restarts' = NextRestarts
    /\ staged' = {} /\ output' = NoRows
    /\ pc' = "loop"
    /\ UNCHANGED <<epoch, delta, prunedThrough, stopping>>

(* The plan seeks the source and, for a stateful query, restores the fold. *)
HasRestorePoint == Plan.hasSeek /\ (Stateful => Plan.stateAt # NoBatch)

(* A transient error out of stage, process, the sink write or the state    *)
(* write, inside _loop: the flush and its replay run outside the retry.    *)
Fault ==
    /\ pc \in {"stage", "fold", "sink", "state"}
    /\ pc # "stage" => epoch \in {"data", "drain"}
    /\ faults < MaxFaults
    /\ FaultsBeforeRestorePoint \/ HasRestorePoint
    /\ faults' = faults + 1
    /\ IF stopping \/ NextRestarts > MaxAttempts THEN Die ELSE RollBack
    /\ UNCHANGED <<durable, available, starts, crashes>>

-----------------------------------------------------------------------------
EngineStep ==
    \/ TestStop \/ Stage \/ Exhausted \/ Idle
    \/ RecordOffsets \/ Fold \/ WriteSink \/ WriteDelta \/ WriteSnapshot \/ DropOther
    \/ Commit \/ PruneState \/ PruneLogs \/ PruneCommits
    \/ FinalizeNothing \/ FinalizeRecord \/ FinalizeMark \/ ReplayFinalize

(* A query that ended by itself and is not started again.                  *)
Terminated == pc = "done" /\ UNCHANGED vars

Next == Produce \/ Start \/ StopRequest \/ EngineStep \/ Crash \/ Fault \/ Terminated

Spec == Init /\ [][Next]_vars

(* The loop thread keeps running, the source keeps receiving and somebody  *)
(* starts a query whose process died.  Failures and stop() are never owed. *)
FairSpec == Spec /\ WF_vars(EngineStep) /\ WF_vars(Start) /\ WF_vars(Produce)

-----------------------------------------------------------------------------
(* Properties.                                                             *)

FoldStates == [count : [Rows -> Nat], evicted : Nat]
Entries    == [rows : SUBSET Rows, evicted : Nat]

PartialFunction(f, V) == DOMAIN f \subseteq Nat /\ f \in [DOMAIN f -> V]

(* Every variable of the engine, the checkpoint and the sink keeps the     *)
(* shape its Python counterpart has.                                       *)
TypeOK ==
    /\ pc \in {"down", "done", "replay", "loop", "stage", "record", "fold", "sink", "state",
               "dropsnapshot", "dropdelta", "commit", "prunestate", "prunelogs",
               "prunecommits", "finalize", "mark"}
    /\ epoch \in {"data", "drain", "flush", "replay"}
    /\ batches \in Nat /\ position \in 0..N
    /\ staged \subseteq Rows /\ delta \subseteq Rows
    /\ output \in [Rows -> Nat] /\ fold \in FoldStates
    /\ deltasWritten \in Nat /\ restarts \in Nat /\ progressMark \in Nat
    /\ prunedThrough \in Nat /\ stopping \in BOOLEAN
    /\ PartialFunction(offsets, 0..N)
    /\ finals \subseteq Nat /\ commits \subseteq Nat
    /\ PartialFunction(snapshots, FoldStates) /\ PartialFunction(deltas, Entries)
    /\ PartialFunction(sink, [Rows -> Nat])
    /\ available \in 0..N /\ starts \in Nat /\ crashes \in Nat /\ faults \in Nat

(* The ids whose sink write counts row r.                                  *)
Deliveries(r) == {i \in DOMAIN sink : sink[i][r] > 0}

(* Write-ahead: the sink never holds an id the commit log has not passed   *)
(* unless the offset log already names it, and never one beyond the next.  *)
(* So whatever a crash leaves in the sink is an epoch recovery will re-run *)
(* under the same id (record_offsets before publish in _process_next, and  *)
(* before emit_final in _emit_finalize).                                   *)
WriteAhead ==
    \A i \in DOMAIN sink :
        \/ i <= LastCommitted(commits)
        \/ i = LastCommitted(commits) + 1 /\ i \in DOMAIN offsets

(* No row is lost: every row at or before the committed position is in the *)
(* sink or in the state recovery would restore.                            *)
NoRowLost ==
    LET seek     == Plan.seek
        restored == Recovered.count
    IN  \A r \in Rows : r <= seek =>
            restored[r] > 0 \/ (Kind # "complete" /\ Deliveries(r) # {})

(* No row is duplicated: no write counts a row twice and no two writes of  *)
(* an append sink count the same row.                                      *)
NoRowDuplicated ==
    \A r \in Rows :
        /\ \A i \in DOMAIN sink : sink[i][r] <= 1
        /\ Kind # "complete" => \A i, j \in Deliveries(r) : i = j

(* Recovery resumes exactly where the commit log says: whenever the        *)
(* process may die, the committed output and the state the chain restores  *)
(* together count each row before the committed position once, and no row  *)
(* after it.                                                               *)
ResumeExact ==
    LET last     == LastCommitted(commits)
        seek     == Plan.seek
        restored == Recovered.count
    IN  \A r \in Rows :
            LET inSink == \E i \in Deliveries(r) : i <= last
            IN  IF Kind = "complete"
                THEN restored[r] = (IF r <= seek THEN 1 ELSE 0)
                ELSE IF r > seek THEN restored[r] = 0 /\ ~inSink
                                 ELSE restored[r] = (IF inSink THEN 0 ELSE 1)

(* The commit row is the one step of an epoch that moves the restart       *)
(* point: the write-ahead, the sink and state writes before it, the prunes *)
(* and log sweeps after it, a crash and a restart all leave the id, the    *)
(* position and the fold a recovery would restore as they were             *)
(* (_commit_microbatch, StateStore.prune, prune_logs against recover).     *)
CommitDecides ==
    [][LastCommitted(commits') = LastCommitted(commits) =>
          /\ Recovered' = Recovered
          /\ (Plan.start)' = Plan.start
          /\ (Plan.seek)' = Plan.seek]_vars

(* A replayed epoch publishes what its first attempt published, so it does *)
(* not matter which of the two the sink keeps.                             *)
ReplayIdentical ==
    pc = "sink" /\ batches \in DOMAIN sink => sink[batches] = output

(* The answer of a complete-mode aggregate: each committed write that the  *)
(* offset log still names counts exactly the rows before its position.     *)
AnswerExact ==
    Kind = "complete" =>
        \A i \in DOMAIN sink \cap commits \cap DOMAIN offsets :
            sink[i] = OneEach(1..offsets[i])

(* A query that ended by itself delivered every row it read and left no    *)
(* window behind: the drain marker and the flush are both committed.       *)
EndsDelivered ==
    pc = "done" /\ Kind # "complete" =>
        \A r \in Rows : r <= position => Deliveries(r) # {} /\ Recovered.count[r] = 0

(* The changelog recovery replays never grows past                         *)
(* checkpoint_delta_interval entries, however often the query restarts.    *)
ChainBounded ==
    Cardinality(ChainDeltas(snapshots, deltas, LastCommitted(commits))) <= DeltaInterval

(* The offset and commit logs hold at most PruneEvery rows besides the one *)
(* in flight; a process that dies between a commit and its sweep can leave *)
(* one more, and a restart never skips the sweep for good.                 *)
LogsBounded ==
    LET bound == PruneEvery + 1 + crashes + faults
    IN  Cardinality(DOMAIN offsets) <= bound /\ Cardinality(commits) <= bound

(* The state directory holds at most one chain, its replacement and the    *)
(* file being replaced; a process that dies between a commit and its prune *)
(* can leave one more, and the next prune removes what it left.            *)
StateDirBounded ==
    Cardinality(DOMAIN snapshots) + Cardinality(DOMAIN deltas)
        <= DeltaInterval + 2 + crashes + faults

(* stop() returns: the loop thread it joins ends, flush included, even on  *)
(* an idle source.                                                         *)
StopReturns == stopping ~> pc \in {"done", "down"}

(* Every row whose window the source has passed is delivered in the end,   *)
(* unless somebody stops the query first.                                  *)
EventuallyDelivered ==
    \A r \in Rows : (available >= ClosesAt[r]) ~> (Deliveries(r) # {} \/ pc = "done")
=============================================================================
