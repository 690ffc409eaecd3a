---------------------------- MODULE FileIngest ----------------------------
(***************************************************************************)
(* A watched directory ingested by a streaming query: the Auto Loader      *)
(* source (io/formats/streaming/autoloader.py) with its durable store of   *)
(* seen files, read by LocalRunner one batch per epoch, or by              *)
(* DistributedRunner (dist/streaming/microbatch.py) one discovery pass per *)
(* epoch.  The source keeps a position of its own beside the checkpoint's  *)
(* logs, and the two are written at different moments of an epoch.         *)
(*                                                                         *)
(* A file is its rank in the listing; a row is <<file, batch of it>>.      *)
(***************************************************************************)
EXTENDS Integers, FiniteSets, FiniteSetsExt

CONSTANTS
    NumFiles,           \* files that ever arrive
    Batches,            \* record batches in each file
    MaxFiles,           \* max_files_per_trigger
    Runners,            \* who runs the epochs: "local", "distributed"
    SinkWriters,        \* the kinds of sink: "transactional", "files"
    Workers,            \* the worker counts a start may be given
    Orders,             \* the orders they may arrive in: order[f] is the rank of f
    Triggers,           \* the triggers: TRUE drains and ends, FALSE goes on
    MaxStarts,          \* bound: starts after the query ended by itself
    MaxCrashes,         \* bound: processes killed
    MaxFaults,          \* bound: errors the engine retries in process
    FaultsBeforeRestorePoint  \* a fault may precede the first commit

Files == 1..NumFiles
RowsOf(f) == {<<f, i>> : i \in 1..Batches}
Rows == Files \X (1..Batches)

ASSUME IngestAssumption ==
    /\ NumFiles \in Nat /\ Batches \in Nat \ {0} /\ MaxFiles \in Nat \ {0}
    /\ Runners \subseteq {"local", "distributed"}
    /\ SinkWriters \subseteq {"transactional", "files"}
    /\ Workers \subseteq Nat \ {0} /\ Workers # {}
    /\ Orders \subseteq [Files -> Nat]
    /\ {FaultsBeforeRestorePoint} \cup Triggers \subseteq BOOLEAN
    /\ MaxStarts \in Nat /\ MaxCrashes \in Nat /\ MaxFaults \in Nat

VARIABLES
    arrived,            \* the files in the directory
    seen,               \* the seen-file store
    offsets, commits,   \* the checkpoint's logs: id -> pending files; ids
    sink,               \* <<id, shard>> -> rows
    pc,                 \* the engine's next step
    id,                 \* the micro-batch it is at
    draining,           \* the id is the drain marker's
    pending, completed, \* the source's discovered and fully read files
    pass, reading,      \* rows its generator has left; files being read
    open, productive,   \* a generator exists; it has yielded
    staged,             \* the epoch in hand: shard -> rows
    unwritten,          \* its shards whose worker has not returned
    runner,             \* who runs this query's epochs
    writer, drains,     \* its sink and its trigger
    order,              \* the order its files arrive in
    workers,            \* this process's worker count
    starts, crashes, faults

durable == <<offsets, commits, sink>>
source == <<pending, completed, pass, reading, open, productive>>
epoch == <<staged, unwritten>>
config == <<runner, writer, drains, order, workers>>
bounds == <<starts, crashes, faults>>
vars == <<arrived, seen, durable, pc, id, draining, source, epoch, config, bounds>>

-----------------------------------------------------------------------------
(* A record stored under its key replaces the one that was there.          *)
Put(f, k, v) == [x \in DOMAIN f \cup {k} |-> IF x = k THEN v ELSE f[x]]

(* The source.                                                             *)

(* The `n' files of fs that are listed first.                              *)
First(fs, n) == {f \in fs : Cardinality({g \in fs : g < f}) < n}

Fresh_AfterSeen ==
    First({f \in arrived \ (seen \cup pending) : \A g \in seen : g < f}, MaxFiles)

(* discover(): unseen files that no earlier pass of this process holds.    *)
Fresh == First(arrived \ (seen \cup pending), MaxFiles)

(* The generator yields a pass in name order: r is its next row.           *)
Before(r, s) == r[1] < s[1] \/ (r[1] = s[1] /\ r[2] < s[2])
IsNext(r) == r \in pass /\ \A s \in pass \ {r} : Before(r, s)

(* confirm(): the files read to the end become durable.                    *)
Confirms(done) ==
    /\ seen' = seen \cup done
    /\ pending' = pending \ done
    /\ completed' = {}

(* seek(): the files of a committed position were published.               *)
Seeks(position) ==
    /\ seen' = seen \cup position
    /\ pending' = {} /\ completed' = {}
    /\ pass' = {} /\ reading' = {} /\ open' = FALSE

(* A file's name need not say when it was written.                         *)
Arrive ==
    /\ \E f \in Files \ arrived :
          /\ \A g \in Files : order[g] < order[f] => g \in arrived
          /\ arrived' = arrived \cup {f}
    /\ UNCHANGED <<seen, durable, pc, id, draining, source, epoch, config, bounds>>

-----------------------------------------------------------------------------
(* Recovery: the id after the last committed one, the source at the        *)
(* position committed with it.                                             *)

Resume_AfterLastLogged == IF offsets = <<>> THEN 0 ELSE Max(DOMAIN offsets) + 1

Resume == IF commits = {} THEN 0 ELSE Max(commits) + 1
Committed == IF commits = {} THEN {} ELSE offsets[Max(commits)]

Start ==
    /\ pc = "down" \/ (pc = "done" /\ starts < MaxStarts)
    /\ starts' = IF pc = "done" THEN starts + 1 ELSE starts
    /\ id' = Resume
    /\ Seeks(Committed)
    /\ productive' = FALSE
    /\ workers' \in Workers
    /\ pc' = "stage"
    /\ UNCHANGED <<arrived, durable, draining, epoch, runner, writer, drains,
                   order, crashes, faults>>

-----------------------------------------------------------------------------
(* LocalRunner.stage: the next batch of the current pass.                  *)

Open ==
    /\ runner = "local" /\ pc = "stage" /\ ~open
    /\ pending' = pending \cup Fresh
    /\ pass' = UNION {RowsOf(f) : f \in Fresh}
    /\ open' = TRUE
    /\ UNCHANGED <<arrived, seen, durable, pc, id, draining, completed, reading, productive,
                   epoch, config, bounds>>

ReadDone_BeforeRead(f) == {f} \ reading

(* A file is complete when the generator is asked for what follows it.     *)
ReadDone(f) == reading \ {f}

Pull ==
    /\ runner = "local" /\ pc = "stage"
    /\ \E r \in Rows :
          /\ IsNext(r)
          /\ completed' = completed \cup ReadDone(r[1])
          /\ reading' = {r[1]}
          /\ staged' = [s \in {0} |-> {r}]
          /\ pass' = pass \ {r}
    /\ productive' = TRUE
    /\ pc' = "record"
    /\ UNCHANGED <<arrived, seen, durable, id, draining, pending, open, unwritten, config,
                   bounds>>

(* The pass is over: its files are confirmed and the directory is listed   *)
(* again; a drain ends on a pass without rows.                             *)
EndPass ==
    /\ runner = "local" /\ pc = "stage" /\ open /\ pass = {}
    /\ Confirms(completed \cup reading)
    /\ reading' = {} /\ open' = FALSE /\ productive' = FALSE
    /\ draining' = (~productive /\ drains)
    /\ pc' = IF draining' THEN "record" ELSE "stage"
    /\ UNCHANGED <<arrived, durable, id, pass, epoch, config, bounds>>

-----------------------------------------------------------------------------
(* DistributedRunner.stage: one discovery pass, fanned over the workers.   *)

(* _balance: the files of shard s, dealt round-robin in listing order.     *)
Dealt(fs, w, s) == {f \in fs : Cardinality({g \in fs : g < f}) % w = s}

(* The workers of a transactional sink write files nobody sees yet; those  *)
(* of a plain file sink write the final ones.                              *)
Discover ==
    /\ runner = "distributed" /\ pc = "stage" /\ Fresh # {}
    /\ LET w == Min({workers, Cardinality(Fresh)})
       IN  /\ staged' = [s \in 0..w - 1 |-> UNION {RowsOf(f) : f \in Dealt(Fresh, w, s)}]
           /\ unwritten' = IF writer = "files" THEN 0..w - 1 ELSE {}
    /\ pending' = pending \cup Fresh
    /\ reading' = Fresh
    /\ pc' = "shards"
    /\ UNCHANGED <<arrived, seen, durable, id, draining, completed, pass, open, productive,
                   config, bounds>>

(* A shard's file is named for the epoch and the shard.                    *)
WriteShard ==
    /\ pc = "shards"
    /\ \E s \in unwritten : /\ sink' = Put(sink, <<id, s>>, staged[s])
                            /\ unwritten' = unwritten \ {s}
    /\ UNCHANGED <<arrived, seen, offsets, commits, pc, id, draining, source, staged, config,
                   bounds>>

(* _merge: every shard is back, and the pass is read.                      *)
Merge ==
    /\ pc = "shards" /\ unwritten = {}
    /\ completed' = completed \cup reading
    /\ reading' = {}
    /\ pc' = "record"
    /\ UNCHANGED <<arrived, seen, durable, id, draining, pending, pass, open, productive,
                   epoch, config, bounds>>

(* Nothing new: the end of a drain, or another look after a wait.          *)
Exhausted ==
    /\ runner = "distributed" /\ pc = "stage" /\ Fresh = {}
    /\ draining' = drains
    /\ pc' = IF drains THEN "record" ELSE "stage"
    /\ UNCHANGED <<arrived, seen, durable, id, source, epoch, config, bounds>>

-----------------------------------------------------------------------------
(* The rest of an epoch: write-ahead, publish, confirm, commit.            *)

Record ==
    /\ pc = "record"
    /\ offsets' = Put(offsets, id, completed)
    /\ pc' = IF draining THEN "commit" ELSE "publish"
    /\ UNCHANGED <<arrived, seen, commits, sink, id, draining, source, epoch, config, bounds>>

(* A sink that already holds the id keeps what it has.                     *)
Publish ==
    /\ pc = "publish"
    /\ sink' = IF writer = "files" \/ \E k \in DOMAIN sink : k[1] = id
               THEN sink
               ELSE [k \in DOMAIN sink \cup ({id} \X DOMAIN staged) |->
                         IF k[1] = id THEN staged[k[2]] ELSE sink[k]]
    /\ staged' = <<>>
    /\ pc' = "confirm"
    /\ UNCHANGED <<arrived, seen, offsets, commits, id, draining, source, unwritten, config,
                   bounds>>

Confirm ==
    /\ pc = "confirm"
    /\ Confirms(completed)
    /\ pc' = "commit"
    /\ UNCHANGED <<arrived, durable, id, draining, pass, reading, open, productive, epoch,
                   config, bounds>>

Commit ==
    /\ pc = "commit"
    /\ commits' = commits \cup {id}
    /\ id' = id + 1
    /\ draining' = FALSE
    /\ pc' = IF draining THEN "done" ELSE "stage"
    /\ UNCHANGED <<arrived, seen, offsets, sink, source, epoch, config, bounds>>

-----------------------------------------------------------------------------
(* Failures.                                                               *)

Crash ==
    /\ pc \notin {"down", "done"} /\ crashes < MaxCrashes
    /\ crashes' = crashes + 1
    /\ pc' = "down" /\ draining' = FALSE /\ staged' = <<>> /\ unwritten' = {}
    /\ UNCHANGED <<arrived, seen, durable, id, source, config, starts, faults>>

(* A lost worker or connection inside stage() or the sink write: the loop  *)
(* recovers in the living process, which seeks only to a committed         *)
(* position.                                                               *)
Fault ==
    /\ pc \in {"stage", "shards", "publish"} /\ faults < MaxFaults
    /\ FaultsBeforeRestorePoint \/ commits # {}
    /\ faults' = faults + 1
    /\ id' = Resume
    /\ IF commits # {} THEN Seeks(Committed)
       ELSE UNCHANGED <<seen, pending, completed, pass, reading, open>>
    /\ pc' = "stage" /\ staged' = <<>> /\ unwritten' = {}
    /\ UNCHANGED <<arrived, durable, draining, productive, config, starts, crashes>>

-----------------------------------------------------------------------------
Init ==
    /\ arrived = {} /\ seen = {}
    /\ offsets = <<>> /\ commits = {} /\ sink = <<>>
    /\ pc = "down" /\ id = 0 /\ draining = FALSE
    /\ pending = {} /\ completed = {} /\ pass = {} /\ reading = {}
    /\ open = FALSE /\ productive = FALSE
    /\ staged = <<>> /\ unwritten = {}
    /\ runner \in Runners /\ writer \in SinkWriters
    /\ runner = "local" => writer = "transactional"
    /\ drains \in Triggers /\ order \in Orders /\ workers \in Workers
    /\ starts = 0 /\ crashes = 0 /\ faults = 0

EngineStep ==
    \/ Open \/ Pull \/ EndPass
    \/ Discover \/ WriteShard \/ Merge \/ Exhausted
    \/ Record \/ Publish \/ Confirm \/ Commit

(* A query that drained and is not started again.                          *)
Terminated == pc = "done" /\ UNCHANGED vars

Next == Arrive \/ Start \/ EngineStep \/ Crash \/ Fault \/ Terminated

(* The loop thread keeps running and somebody starts a query whose process *)
(* died.  Failures and arrivals are never owed.                            *)
Spec == Init /\ [][Next]_vars /\ WF_vars(EngineStep) /\ WF_vars(Start)

-----------------------------------------------------------------------------
(* Properties.                                                             *)

(* The shape of the state.  The files a process has read to the end are    *)
(* among those it withholds from later passes: confirm() releases them     *)
(* from both lists together, or a file would be confirmed again in the     *)
(* next epoch's position.                                                  *)
TypeOK ==
    /\ seen \subseteq arrived /\ arrived \subseteq Files
    /\ completed \subseteq pending /\ pending \subseteq arrived
    /\ reading \subseteq Files
    /\ DOMAIN offsets \subseteq Nat /\ \A i \in DOMAIN offsets : offsets[i] \subseteq Files
    /\ commits \subseteq DOMAIN offsets
    /\ \A k \in DOMAIN sink : k \in Nat \X Nat /\ sink[k] \subseteq Rows
    /\ pc \in {"down", "done", "stage", "shards", "record", "publish", "confirm", "commit"}
    /\ id \in Nat /\ {draining, open, productive} \subseteq BOOLEAN
    /\ pass \subseteq Rows
    /\ unwritten \subseteq DOMAIN staged /\ \A s \in DOMAIN staged : staged[s] \subseteq Rows
    /\ runner \in Runners /\ writer \in SinkWriters
    /\ drains \in Triggers /\ order \in Orders /\ workers \in Workers

Delivered(f) == \A r \in RowsOf(f) : \E k \in DOMAIN sink : r \in sink[k]

(* Names sort in the order in which the files arrive.                      *)
InOrder == \A f, g \in Files : g < f => order[g] < order[f]

(* The seen-file store remembers only files whose every row has reached    *)
(* the sink, whatever died in between: a file is completed only once it    *)
(* has been read to the end, and confirmed only after its last batch was   *)
(* published (complete() and confirm() of IncrementalFileSource).  The     *)
(* local runner is held to it when names sort as files arrive.  The        *)
(* distributed runner keeps it less well, under any names: an epoch run    *)
(* again under the id it had may find other files than its first run did,  *)
(* and loses them: at most one pass of files for each failure.             *)
LossBounded ==
    /\ TypeOK
    /\ InOrder \/ runner = "distributed" =>
          Cardinality({f \in seen : ~Delivered(f)}) <=
              IF runner = "local" THEN 0 ELSE MaxFiles * (crashes + faults)

(* The writes up to the last committed epoch that hold row r.  (The files  *)
(* of an epoch that is being staged again may overlap for a moment.)       *)
Copies(r) == {k \in DOMAIN sink : r \in sink[k] /\ \E c \in commits : k[1] <= c}

(* No row is twice in the output of the distributed runner when names sort *)
(* as files arrive: an epoch run again replaces what its first run wrote,  *)
(* or writes nothing.  The local runner, whose epochs are smaller than a   *)
(* file, re-reads a file from its beginning: at most one more copy of its  *)
(* rows for each failure, and none in an undisturbed run or after a drain, *)
(* whatever the names.                                                     *)
CopiesBounded ==
    InOrder \/ runner = "local" =>
        \A r \in Rows :
            Cardinality(Copies(r)) <= 1 + IF runner = "local" THEN crashes + faults ELSE 0

(* Every file that arrives while the query runs is eventually remembered   *)
(* as seen, so that it is offered no more: none is withheld forever by the *)
(* cap on a pass, by a name that sorts before files already seen           *)
(* (_list_candidates() and discover()), or by a pass that failed after the *)
(* first commit, from when on a rollback releases what the source holds    *)
(* (seek()).                                                               *)
EventuallyIngested == \A f \in Files : f \in arrived ~> (f \in seen \/ pc = "done")
===========================================================================
