-------------------------- MODULE CheckpointOwner --------------------------
(***************************************************************************)
(* Several drivers started on one checkpoint of a stateless query: the     *)
(* lease and its fence (io/formats/streaming/checkpoint/identity.py), the  *)
(* log writes it guards (checkpoint/store.py) and the transactional table  *)
(* sink (sinks.py, TransactionalStreamSink).  On a local path the lease is *)
(* a flock held for the query's life; on an object store the newest token  *)
(* wins and is read again before every log write.                          *)
(***************************************************************************)
EXTENDS Integers, FiniteSetsExt, Functions

CONSTANTS
    Drivers,           \* query processes, each started at most once
    Nobody,            \* no driver: an unheld lock, an unwritten document
    N,                 \* rows the source holds
    Reads,             \* Reads[p]: the positions a read from p may end at
    Modes,             \* locations to check: "local", "remote"
    PruneEvery,        \* batches between log sweeps
    RacingStarts,      \* may another driver step in while one starts up?
    MaxCrashes

ASSUME OwnerAssumption ==
    /\ Nobody \notin Drivers
    /\ N \in Nat /\ PruneEvery \in Nat /\ MaxCrashes \in Nat
    /\ Reads \in [0..N -> SUBSET (0..N)] /\ \A p \in 0..N : \A q \in Reads[p] : q > p
    /\ Modes \subseteq {"local", "remote"} /\ RacingStarts \in BOOLEAN

VARIABLES
    mode,              \* where the checkpoint is
    metadata,          \* the stream's persisted application id
    lock, owner,       \* who holds owner.lock, and the token in owner.json
    offsets, commits,  \* the logs: end position by batch id, and committed ids
    table, txns,       \* the table's transactions, and the last version per app id
    pc,                \* where each driver is
    app, batch, start, \* its application id, batch id and position,
    upto, swept,       \* the end of its current read, its last log sweep
    stale,             \* history: log records it wrote after losing the lease
    astray,            \* history: drivers whose recovery found no position to seek
    crashes

logs    == <<offsets, commits>>
sink    == <<table, txns>>
lease   == <<metadata, lock, owner>>
mine    == <<app, batch, start, upto, swept>>
vars    == <<mode, lease, logs, sink, pc, mine, astray, stale, crashes>>

Rows == 1..N

(* Ids start at 1, so 0 is "no batch".                                     *)
LastCommitted == Max(commits \cup {0})

Goto(d, label) == pc' = [pc EXCEPT ![d] = label]

-----------------------------------------------------------------------------
(* Start-up.                                                               *)

(* stream_app_id(): the persisted id, or a new one ...                     *)
ResolveId(d) ==
    /\ pc[d] = "new"
    /\ RacingStarts \/ \A e \in Drivers : pc[e] # "persist"
    /\ IF metadata # Nobody
       THEN app' = [app EXCEPT ![d] = metadata] /\ Goto(d, "claim")
       ELSE Goto(d, "persist") /\ UNCHANGED app
    /\ UNCHANGED <<mode, lease, logs, sink, batch, start, upto, swept, astray, stale, crashes>>

(* ... written back by whoever found none, before any lease is taken.      *)
PersistId(d) ==
    /\ pc[d] = "persist"
    /\ metadata' = d
    /\ app' = [app EXCEPT ![d] = d]
    /\ Goto(d, "claim")
    /\ UNCHANGED <<mode, lock, owner, logs, sink, batch, start, upto, swept, astray, stale, crashes>>

(* CheckpointOwner(): a local driver whose _try_lock() finds the lock held *)
(* is refused; every other one writes its token over the last.             *)
Claim(d) ==
    /\ pc[d] = "claim"
    /\ IF mode = "local" /\ lock # Nobody
       THEN Goto(d, "stopped") /\ UNCHANGED <<lock, owner>>
       ELSE /\ lock' = IF mode = "local" THEN d ELSE lock
            /\ owner' = d
            /\ Goto(d, "recover")
    /\ UNCHANGED <<mode, metadata, logs, sink, mine, astray, stale, crashes>>

(* recover() reads the logs one after the other, and other drivers may     *)
(* write and sweep them in between.  Nothing recorded, or nothing          *)
(* committed: the first id, from the beginning ...                         *)
FromTheBeginning(d) ==
    /\ batch' = [batch EXCEPT ![d] = 1]
    /\ start' = [start EXCEPT ![d] = 0]
    /\ Goto(d, "stage")

ReadOffsetLog(d) ==
    /\ pc[d] = "recover"
    /\ IF DOMAIN offsets = {} THEN FromTheBeginning(d)
       ELSE Goto(d, "committed") /\ UNCHANGED <<batch, start>>
    /\ UNCHANGED <<mode, lease, logs, sink, app, upto, swept, astray, stale, crashes>>

(* ... else the id after the last committed one ...                        *)
ReadCommitLog(d) ==
    /\ pc[d] = "committed"
    /\ IF commits = {} THEN FromTheBeginning(d)
       ELSE /\ batch' = [batch EXCEPT ![d] = LastCommitted + 1]
            /\ Goto(d, "position")
            /\ UNCHANGED start
    /\ UNCHANGED <<mode, lease, logs, sink, app, upto, swept, astray, stale, crashes>>

(* ... from the position recorded for that one.  A position that is not    *)
(* there any more is an empty plan: the source is not sought, and the      *)
(* driver goes on from the beginning under the later id.                   *)
ReadPosition(d) ==
    /\ pc[d] = "position"
    /\ IF batch[d] - 1 \in DOMAIN offsets
       THEN start' = [start EXCEPT ![d] = offsets[batch[d] - 1]] /\ UNCHANGED astray
       ELSE start' = [start EXCEPT ![d] = 0] /\ astray' = astray \cup {d}
    /\ Goto(d, "stage")
    /\ UNCHANGED <<mode, lease, logs, sink, app, batch, upto, swept, stale, crashes>>

-----------------------------------------------------------------------------
(* One epoch.                                                              *)

(* A read, which ends where the source says.                               *)
Stage(d) ==
    /\ pc[d] = "stage"
    /\ \E q \in Reads[start[d]] : upto' = [upto EXCEPT ![d] = q]
    /\ Goto(d, "record")
    /\ UNCHANGED <<mode, lease, logs, sink, app, batch, start, swept, astray, stale, crashes>>

Owns_Always(d) == TRUE

(* verify(): nothing to check on a local path, else the token read back.   *)
Owns(d) == mode = "local" \/ owner = d


(* The CommitError out of verify() ends the query: it is not transient.    *)
Fenced(d) == Goto(d, "stopped")

(* A driver that is no longer the owner stops at its next verify().        *)
Verify(d) ==
    /\ pc[d] \in {"record", "finish"}
    /\ \/ Owns(d) /\ pc[d] = "record" /\ Goto(d, "offsets")
       \/ Owns(d) /\ pc[d] = "finish" /\ Goto(d, "commit")
       \/ ~Owns(d) /\ Fenced(d)
    /\ UNCHANGED <<mode, lease, logs, sink, mine, astray, stale, crashes>>

(* A record written by a driver whose lease is gone.                       *)
NoteStale(d) == stale' = IF owner = d THEN stale ELSE [stale EXCEPT ![d] = @ + 1]

(* record_offsets(): the document of this id, over any there was.          *)
WriteOffsets(d) ==
    /\ pc[d] = "offsets"
    /\ offsets' = [i \in DOMAIN offsets \cup {batch[d]} |->
                      IF i = batch[d] THEN upto[d] ELSE offsets[i]]
    /\ NoteStale(d)
    /\ Goto(d, "check")
    /\ UNCHANGED <<mode, lease, commits, sink, mine, astray, crashes>>

Recorded_Unchecked(d) == FALSE

(* The id, or a later one, is already in the table's log.                  *)
Recorded(d) == txns[app[d]] >= batch[d]

(* write_batch(): the pre-check ...                                        *)
CheckTable(d) ==
    /\ pc[d] = "check"
    /\ IF Recorded(d) THEN Goto(d, "finish") ELSE Goto(d, "append")
    /\ UNCHANGED <<mode, lease, logs, sink, mine, astray, stale, crashes>>

(* ... and the commit of the data file, which the table's log refuses when *)
(* another writer recorded the id meanwhile; that conflict is benign.      *)
Append(d) ==
    /\ pc[d] = "append"
    /\ IF Recorded(d) THEN UNCHANGED sink
       ELSE /\ table' = table \cup {[by |-> d, app |-> app[d], id |-> batch[d],
                                     rows |-> start[d] + 1 .. upto[d]]}
            /\ txns' = [txns EXCEPT ![app[d]] = batch[d]]
    /\ Goto(d, "finish")
    /\ UNCHANGED <<mode, lease, logs, mine, astray, stale, crashes>>

(* commit(): the last step of the epoch.                                   *)
WriteCommit(d) ==
    /\ pc[d] = "commit"
    /\ commits' = commits \cup {batch[d]}
    /\ NoteStale(d)
    /\ Goto(d, "prune")
    /\ UNCHANGED <<mode, lease, offsets, sink, mine, astray, crashes>>

(* The ids before the one a driver has just committed.                     *)
Superseded(d) == {i \in DOMAIN offsets : i < batch[d]}

NextEpoch(d) ==
    /\ batch' = [batch EXCEPT ![d] = @ + 1]
    /\ start' = [start EXCEPT ![d] = upto[d]]
    /\ Goto(d, "stage")

(* prune_logs(): every PruneEvery batches, and without asking the fence,   *)
(* the offset log is swept ...                                             *)
SweepOffsets(d) ==
    /\ pc[d] = "prune"
    /\ IF batch[d] - swept[d] < PruneEvery THEN NextEpoch(d) /\ UNCHANGED <<offsets, swept>>
       ELSE /\ swept' = [swept EXCEPT ![d] = batch[d]]
            /\ offsets' = Restrict(offsets, DOMAIN offsets \ Superseded(d))
            /\ Goto(d, "sweep")
            /\ UNCHANGED <<batch, start>>
    /\ UNCHANGED <<mode, lease, commits, sink, app, upto, astray, stale, crashes>>

(* ... and then the commit log.                                            *)
SweepCommits(d) ==
    /\ pc[d] = "sweep"
    /\ commits' = {i \in commits : i >= batch[d]}
    /\ NextEpoch(d)
    /\ UNCHANGED <<mode, lease, offsets, sink, app, upto, swept, astray, stale, crashes>>

-----------------------------------------------------------------------------
(* The kernel drops a flock with the process that holds it.                *)
Unlocked(d) == IF lock = d THEN Nobody ELSE lock

(* A process dies.                                                         *)
Crash(d) ==
    /\ pc[d] \notin {"new", "stopped"} /\ crashes < MaxCrashes
    /\ crashes' = crashes + 1
    /\ lock' = Unlocked(d)
    /\ Goto(d, "stopped")
    /\ UNCHANGED <<mode, metadata, owner, logs, sink, mine, astray, stale>>

Init ==
    /\ mode \in Modes
    /\ metadata = Nobody /\ lock = Nobody /\ owner = Nobody
    /\ offsets = [i \in {} |-> 0] /\ commits = {}
    /\ table = {} /\ txns = [d \in Drivers |-> 0]
    /\ pc = [d \in Drivers |-> "new"]
    /\ app = [d \in Drivers |-> Nobody]
    /\ batch = [d \in Drivers |-> 0] /\ start = [d \in Drivers |-> 0]
    /\ upto = [d \in Drivers |-> 0] /\ swept = [d \in Drivers |-> 0]
    /\ astray = {} /\ stale = [d \in Drivers |-> 0] /\ crashes = 0

(* A started driver's own steps.                                           *)
Step(d) ==
    \/ PersistId(d) \/ Claim(d)
    \/ ReadOffsetLog(d) \/ ReadCommitLog(d) \/ ReadPosition(d)
    \/ Stage(d) \/ Verify(d)
    \/ WriteOffsets(d) \/ CheckTable(d) \/ Append(d) \/ WriteCommit(d)
    \/ SweepOffsets(d) \/ SweepCommits(d)

(* Every driver was started and has stopped or has nothing left to read.   *)
Quiet ==
    /\ \A d \in Drivers : pc[d] = "stopped" \/ (pc[d] = "stage" /\ Reads[start[d]] = {})
    /\ UNCHANGED vars

Next == Quiet \/ \E d \in Drivers : ResolveId(d) \/ Step(d) \/ Crash(d)

Spec == Init /\ [][Next]_vars

(* A process that was started runs; nobody owes a start or a crash.        *)
FairSpec == Spec /\ \A d \in Drivers : WF_vars(Step(d))

-----------------------------------------------------------------------------
(* Properties.                                                             *)

Transactions(r) == {x \in table : r \in x.rows}

(* Rows reach the table once and none is skipped: however drivers overlap, *)
(* take over or die between a check and the write it guards, no row is in  *)
(* two transactions, and every row before the position a restart would     *)
(* resume from is in one (record_offsets, write_batch and commit under     *)
(* verify's check-then-act).  The one exception is a recovery whose        *)
(* position was swept away between its reads of the two logs (recover()    *)
(* against prune_logs()), and a flock excludes it.                         *)
TableExact ==
    /\ mode = "local" => astray = {}
    /\ astray = {} =>
          /\ \A r \in Rows : Cardinality(Transactions(r)) <= 1
          /\ commits # {} =>
                /\ LastCommitted \in DOMAIN offsets
                /\ \A r \in 1..offsets[LastCommitted] : Transactions(r) # {}

Working(d) == pc[d] \notin {"new", "persist", "claim", "stopped"}

(* Every variable keeps the shape its Python counterpart has, and a held   *)
(* lock belongs to a working local driver whose token is the current one.  *)
TypeOK ==
    /\ mode \in Modes
    /\ metadata \in Drivers \cup {Nobody} /\ lock \in Drivers \cup {Nobody}
    /\ owner \in Drivers \cup {Nobody}
    /\ commits \subseteq Nat /\ DOMAIN offsets \subseteq Nat
    /\ \A i \in DOMAIN offsets : offsets[i] \in 0..N
    /\ \A x \in table : {x.by, x.app} \subseteq Drivers /\ x.id \in Nat /\ x.rows \subseteq Rows
    /\ txns \in [Drivers -> Nat]
    /\ app \in [Drivers -> Drivers \cup {Nobody}]
    /\ batch \in [Drivers -> Nat] /\ swept \in [Drivers -> Nat]
    /\ start \in [Drivers -> 0..N] /\ upto \in [Drivers -> 0..N]
    /\ astray \subseteq Drivers /\ stale \in [Drivers -> Nat] /\ crashes \in 0..MaxCrashes
    /\ \A d \in Drivers : lock = d => mode = "local" /\ Working(d) /\ owner = d

(* The fence bounds what a superseded driver can still write to one log    *)
(* record, the one it had verified before the takeover; under a flock it   *)
(* writes none (verify before record_offsets and before commit), since a   *)
(* held lock belongs to a working driver (TypeOK).                         *)
FencedAtOnce ==
    /\ TypeOK
    /\ \A d \in Drivers : stale[d] <= (IF mode = "local" THEN 0 ELSE 1)

=============================================================================
