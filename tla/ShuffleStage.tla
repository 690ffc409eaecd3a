---------------------------- MODULE ShuffleStage ----------------------------
(***************************************************************************)
(* One whole shuffle: the map barrier (MapBarrier), the copies of its      *)
(* output (dist/shuffle_replication.py), the move off draining workers and *)
(* the bucket reduce under recompute-on-worker-loss recovery               *)
(* (run_bucket_reduce in dist/executors/ray_runtime/reduce.py, with        *)
(* ShuffleRecovery, SourcePlacement and gather_with_backups of             *)
(* carbonite/resilience).                                                  *)
(*                                                                         *)
(* The reduce of a bucket is the set of sources whose rows it read.  The   *)
(* gather (bc-py/src/shuffle/gather.rs) is strict: a copy that is down and *)
(* a live one without the ticket both send it to the next copy, and a      *)
(* source with no copy left is named to the driver.                        *)
(***************************************************************************)
EXTENDS MapBarrier

CONSTANTS
    B,                  \* buckets to reduce
    ReduceWindow,       \* _reduce_window: bucket reduces outstanding at once
    Replication,        \* distributed.shuffle_replication > 1
    MaxBackups,         \* distributed.speculation_max_backups
    MinFinishedPercent  \* distributed.speculation_min_finished_frac

Buckets == 0..(B - 1)

ASSUME ReduceAssumption ==
    /\ B \in Nat \ {0} /\ ReduceWindow \in Nat \ {0}
    /\ Replication \in BOOLEAN
    /\ MaxBackups \in Nat /\ MinFinishedPercent \in 0..100

VARIABLES
    replicas,       \* source -> peers advertised as holding a copy
    lost,           \* workers the reduce will not use
    replicaServed,  \* sources whose regeneration was skipped once
    round,          \* ShuffleRecovery.run: attempts made before this one
    todo,           \* sources recompute still has to visit
    queue,          \* buckets of this attempt not yet launched
    chunk,          \* buckets of the window in flight
    copies,         \* bucket -> outstanding copies of its reduce
    slot,           \* bucket -> what gather_with_backups holds for it
    backedUp,       \* buckets given a backup
    failed,         \* sources this attempt could not reach
    done            \* bucket -> sources its accepted result read, NoResult before

reduceVars == <<replicas, lost, replicaServed, round, todo, queue, chunk,
                copies, slot, backedUp, failed, done>>
vars == <<phase, failure, fleetVars, barrierVars, reduceVars>>

NoResult == {-1}
Waiting == [kind |-> "none", data |-> {}]
AllDone == \A b \in Buckets : done[b] # NoResult

Init ==
    /\ MapInit
    /\ replicas = [s \in Sources |-> {}] /\ lost = {}
    /\ replicaServed = {} /\ round = 0 /\ todo = {}
    /\ queue = {} /\ chunk = {} /\ copies = [b \in Buckets |-> {}]
    /\ slot = [b \in Buckets |-> Waiting] /\ backedUp = {} /\ failed = {}
    /\ done = [b \in Buckets |-> NoResult]

(***************************************************************************)
(* Replication.  placement_probe calls every worker and gives up if one    *)
(* does not answer; a copy is advertised only once it is acknowledged.     *)
(***************************************************************************)
Probe ==
    /\ phase = "probe" /\ phase' = "copy"
    /\ todo' = IF Replication /\ W >= 2 /\ alive = Workers THEN Sources ELSE {}
    /\ UNCHANGED <<failure, fleetVars, barrierVars, replicas, lost, replicaServed, round,
                   queue, chunk, copies, slot, backedUp, failed, done>>

\* assign_replica_hosts for one second copy on distinct nodes: source by
\* source, the least loaded live worker that is not the primary.
AssignReplica ==
    /\ phase = "copy" /\ todo # {}
    /\ LET s == Least(todo)
           others == Workers \ (dead \cup {addr[s]})
           load(w) == Cardinality({t \in Sources : addr[t] = w})
                        + Cardinality({t \in Sources : w \in replicas[t]})
           best == {w \in others : \A v \in others :
                        load(w) < load(v) \/ (load(w) = load(v) /\ w <= v)}
       IN  /\ replicas' = [replicas EXCEPT ![s] = best]
           /\ todo' = todo \ {s}
    /\ UNCHANGED <<phase, failure, fleetVars, barrierVars, lost, replicaServed, round,
                   queue, chunk, copies, slot, backedUp, failed, done>>

\* A copy is made, and acknowledged, if both ends are still up.
Acked_Unasked(s) == replicas[s]
Acked(s) == {w \in replicas[s] : w \in alive /\ <<addr[s], s>> \in holds}

\* replicate_shuffle_output advertises what was acknowledged.
Copy ==
    /\ phase = "copy" /\ todo = {}
    /\ replicas' = [s \in Sources |-> Acked(s)]
    /\ holds' = holds \cup {p \in alive \X Sources :
                              p[1] \in replicas[p[2]] /\ <<addr[p[2]], p[2]>> \in holds}
    /\ phase' = "ready"
    /\ UNCHANGED <<failure, alive, blips, transients, draining, barrierVars, lost,
                   replicaServed, round, todo, queue, chunk, copies, slot, backedUp,
                   failed, done>>

(***************************************************************************)
(* Recomputing sources.  migrate is the proactive move, whose exceptions   *)
(* are suppressed; recompute is ShuffleRecovery's, whose are not.          *)
(***************************************************************************)
\* SourcePlacement: what a worker's death loses, and where a source is now.
HostOf_SourceId(src) == src % W
HostOf(src) == host[src]
SourcesOn(w) == {s \in Sources : host[s] = w}

\* run_bucket_reduce up to its first attempt.
StartReduce ==
    /\ phase = "ready" /\ phase' = "migrate"
    /\ lost' = dead
    /\ todo' = UNION {SourcesOn(w) : w \in draining}
    /\ queue' = Buckets
    /\ UNCHANGED <<failure, fleetVars, barrierVars, replicas, replicaServed, round,
                   chunk, copies, slot, backedUp, failed, done>>

\* _survives_on_a_peer: lost workers are known by the addresses of the
\* sources they hold.
SurvivesOnPeer(src, gone) ==
    \E w \in replicas[src] : w \notin {addr[s] : s \in {t \in Sources : host[t] \in gone}}

\* recompute raises: into suppress() when it was proactive.
RecomputeRaises(why) ==
    IF phase = "migrate" THEN todo' = {} /\ UNCHANGED <<phase, failure>>
                         ELSE Raise(why) /\ UNCHANGED todo

\* recompute, one source.  A small set of small integers iterates in order.
Recompute ==
    /\ phase \in {"migrate", "recompute"} /\ todo # {}
    /\ LET src     == Least(todo)
           nowLost == lost \cup {HostOf(src)}
           targets == {w \in Workers : w \notin nowLost}
           target  == Least(targets)
       IN  /\ lost' = nowLost
           /\ IF src \notin replicaServed /\ SurvivesOnPeer(src, nowLost)
              THEN /\ replicaServed' = replicaServed \cup {src}
                   /\ todo' = todo \ {src}
                   /\ UNCHANGED <<phase, failure, replicas, host, addr, holds>>
              ELSE IF targets = {}
              THEN /\ RecomputeRaises("no_survivor")
                   /\ UNCHANGED <<replicaServed, replicas, host, addr, holds>>
              ELSE /\ host' = [host EXCEPT ![src] = target]
                   /\ replicas' = [replicas EXCEPT ![src] = {}]
                   /\ UNCHANGED replicaServed
                   /\ IF target \in alive
                      THEN /\ addr' = [addr EXCEPT ![src] = target]
                           /\ holds' = holds \cup {<<target, src>>}
                           /\ todo' = todo \ {src}
                           /\ UNCHANGED <<phase, failure>>
                      ELSE RecomputeRaises("republish") /\ UNCHANGED <<addr, holds>>
    /\ UNCHANGED <<alive, blips, transients, sources, pending, inflight, ran, filling,
                   attempts, spent, dead, confirmed, idle, draining, round, queue, chunk,
                   copies, slot, backedUp, failed, done>>

\* The next attempt of ShuffleRecovery.run.
NextAttempt ==
    /\ phase \in {"migrate", "recompute"} /\ todo = {}
    /\ phase' = "launch"
    /\ queue' = {b \in Buckets : done[b] = NoResult}
    /\ failed' = {}
    /\ UNCHANGED <<failure, fleetVars, barrierVars, replicas, lost, replicaServed,
                   round, todo, chunk, copies, slot, backedUp, done>>

(***************************************************************************)
(* One attempt: the pending buckets, a window at a time.                   *)
(***************************************************************************)
HostFor_Fixed(b, avoid) == {b % W}

\* _host_for: the bucket's own worker, else the first that is neither lost
\* nor avoided; {} when _pick_live raises.
HostFor(b, avoid) ==
    LET usable == Workers \ (lost \cup avoid)
    IN  IF (b % W) \in usable THEN {b % W}
        ELSE IF usable = {} THEN {} ELSE {Least(usable)}

\* The copies of a source a gather may read: the primary and its replicas.
\* It is reported when none of them has it.
Candidates(s) == {addr[s]} \cup replicas[s]
Unreachable == {s \in Sources : \A w \in Candidates(s) : <<w, s>> \notin holds}

\* The reducer's answer: every source's rows, or the sources it missed.
Answer(missed) ==
    IF missed = {} THEN [kind |-> "ok", data |-> Sources]
                   ELSE [kind |-> "retry", data |-> missed]

\* The first ReduceWindow buckets of the queue.
NextChunk == {b \in queue : Cardinality({c \in queue : c < b}) < ReduceWindow}

LaunchChunk ==
    /\ phase = "launch" /\ queue # {}
    /\ IF Workers \ lost = {}
       THEN Raise("no_survivor") /\ UNCHANGED <<queue, chunk, copies, slot, backedUp>>
       ELSE /\ phase' = "reduce"
            /\ chunk' = NextChunk /\ queue' = queue \ NextChunk
            /\ copies' = [b \in Buckets |->
                             IF b \notin NextChunk THEN {}
                             ELSE {[host |-> h, backup |-> FALSE, gone |-> Unreachable]
                                     : h \in HostFor(b, {})}]
            /\ slot' = [b \in Buckets |-> Waiting] /\ backedUp' = {}
            /\ UNCHANGED failure
    /\ UNCHANGED <<fleetVars, barrierVars, replicas, lost, replicaServed, round,
                   todo, failed, done>>

\* A copy answers: "ok" with what it read, or "retry" with the sources it
\* could not reach.  Its fetches are spread over time, so a source that went
\* down after the launch may have been read already.  First to finish wins.
ReduceAnswers(b) ==
    /\ phase = "reduce" /\ b \in chunk /\ slot[b] = Waiting
    /\ \E c \in copies[b] : \E missed \in SUBSET Unreachable :
        /\ c.host \in alive /\ c.gone \subseteq missed
        /\ slot' = [slot EXCEPT ![b] = Answer(missed)]
    /\ copies' = [copies EXCEPT ![b] = {}]
    /\ UNCHANGED <<phase, failure, fleetVars, barrierVars, replicas, lost,
                   replicaServed, round, todo, queue, chunk, backedUp, failed, done>>

\* A copy fails with a worker loss.  The slot fails only with its last copy,
\* and is charged to that copy's worker.
CopyLost(b) ==
    /\ phase = "reduce" /\ b \in chunk /\ slot[b] = Waiting
    /\ \E c \in copies[b] :
        /\ \/ c.host \notin alive /\ UNCHANGED blips
           \/ c.host \in alive /\ CanFail /\ blips' = blips + 1
        /\ copies' = [copies EXCEPT ![b] = @ \ {c}]
        /\ slot' = IF copies[b] = {c}
                   THEN [slot EXCEPT ![b] = [kind |-> "dead", data |-> {c.host}]]
                   ELSE slot
    /\ UNCHANGED <<phase, failure, alive, holds, transients, draining, barrierVars, replicas,
                   lost, replicaServed, round, todo, queue, chunk, backedUp, failed, done>>

\* stragglers_to_backup: a slot whose worker is leaving, or, once enough of
\* the window has finished, one that is slow.
Straggles(b) ==
    LET finished == {c \in chunk : slot[c] # Waiting}
    IN  \/ HostFor(b, {}) \subseteq draining
        \/ /\ finished # {}
           /\ 100 * Cardinality(finished) >= MinFinishedPercent * Cardinality(chunk)

\* gather_with_backups launches a backup (_relaunch): on another worker if
\* there is one.
Backup(b) ==
    /\ phase = "reduce" /\ b \in chunk /\ slot[b] = Waiting /\ b \notin backedUp
    /\ Cardinality({c \in backedUp : slot[c] = Waiting}) < MaxBackups
    /\ Straggles(b)
    /\ backedUp' = backedUp \cup {b}
    /\ LET elsewhere == HostFor(b, HostFor(b, {}))
           hosts == IF elsewhere # {} THEN elsewhere ELSE HostFor(b, {})
       IN  copies' = [copies EXCEPT ![b] = @ \cup
                {[host |-> h, backup |-> TRUE, gone |-> Unreachable] : h \in hosts}]
    /\ UNCHANGED <<phase, failure, fleetVars, barrierVars, replicas, lost,
                   replicaServed, round, todo, queue, chunk, slot, failed, done>>

\* _reduce_chunk folds the window's slots into done, lost and failed.
ChunkDone ==
    /\ phase = "reduce" /\ \A b \in chunk : slot[b] # Waiting
    /\ phase' = "launch" /\ chunk' = {}
    /\ LET of(kind) == {b \in chunk : slot[b].kind = kind}
           deadHosts == UNION {slot[b].data : b \in of("dead")}
       IN  /\ done' = [b \in Buckets |-> IF b \in of("ok") THEN slot[b].data ELSE done[b]]
           /\ lost' = lost \cup deadHosts
           /\ failed' = failed \cup (UNION {slot[b].data : b \in of("retry")})
                               \cup (UNION {SourcesOn(w) : w \in deadHosts})
    /\ UNCHANGED <<failure, fleetVars, barrierVars, replicas, replicaServed, round,
                   todo, queue, copies, slot, backedUp>>

\* A bucket that finished neither way, with no source to blame, is the
\* RELAUNCH marker: another round, nothing to regenerate.
Complete_NoFailures == failed = {}
Complete == failed = {} /\ AllDone

LastRound == round + 1 >= MaxAttempts

\* attempt returns to ShuffleRecovery.run.
EndAttempt ==
    /\ phase = "launch" /\ queue = {}
    /\ IF Complete THEN phase' = "done" /\ UNCHANGED <<failure, todo, round>>
       ELSE IF LastRound THEN Raise("rounds") /\ UNCHANGED <<todo, round>>
       ELSE /\ phase' = "recompute" /\ todo' = failed /\ round' = round + 1
            /\ UNCHANGED failure
    /\ UNCHANGED <<fleetVars, barrierVars, replicas, lost, replicaServed, queue,
                   chunk, copies, slot, backedUp, failed, done>>

(***************************************************************************)
(* The stage.                                                              *)
(***************************************************************************)
MapStep == MapProgress /\ UNCHANGED reduceVars
Reduce ==
    \/ Probe \/ AssignReplica \/ Copy \/ StartReduce \/ Recompute \/ NextAttempt
    \/ LaunchChunk \/ ChunkDone \/ EndAttempt
    \/ \E b \in Buckets : ReduceAnswers(b) \/ CopyLost(b) \/ Backup(b)
Progress == MapStep \/ Reduce

Fault ==
    \/ \E w \in Workers : (Die(w) \/ Drain(w)) /\ UNCHANGED reduceVars
    \/ \E s \in Sources : MapTransient(s) /\ UNCHANGED reduceVars

Finished == Ended /\ UNCHANGED vars

Next == Progress \/ Fault \/ Finished

Spec == Init /\ [][Next]_vars
\* The driver's loop runs, a live worker finishes what it was given, and a
\* call on a dead one raises.
FairSpec == Spec /\ WF_vars(Progress)

ReduceTypeOK ==
    /\ lost \subseteq Workers
    /\ replicas \in [Sources -> SUBSET Workers]
    /\ replicaServed \subseteq Sources /\ todo \subseteq Sources /\ failed \subseteq Sources
    /\ round \in 0..(MaxAttempts - 1)
    /\ queue \subseteq Buckets /\ chunk \subseteq Buckets /\ backedUp \subseteq Buckets
    /\ copies \in [Buckets -> SUBSET [host : Workers, backup : BOOLEAN,
                                      gone : SUBSET Sources]]
    /\ slot \in [Buckets -> [kind : {"none", "ok", "retry", "dead"},
                             data : SUBSET (Sources \cup Workers)]]
    /\ done \in [Buckets -> (SUBSET Sources) \cup {NoResult}]

TypeOK ==
    /\ phase \in {"map", "probe", "copy", "ready", "migrate", "launch", "reduce",
                  "recompute", "done", "failed"}
    /\ MapTypeOK /\ ReduceTypeOK

(***************************************************************************)
(* Properties.                                                             *)
(***************************************************************************)
Contract == INSTANCE ShuffleContract WITH
    BucketSet <- Buckets, Missing <- NoResult, whole <- Sources, result <- done,
    status <- CASE phase = "done" -> "returned" [] phase = "failed" -> "raised"
                [] OTHER -> "running"

\* The stage implements its contract: a bucket's result is accepted once,
\* made of every source, and the stage returns only with all of them.
HonoursContract == Contract!CSpec

\* Once the map barrier is over, a live worker the reducers are sent to, as
\* primary or as copy, holds what it is asked for: no recovery round, and no
\* healthy worker's place in the fleet, is spent on a stale address
\* (the acknowledged copies, retire_replicas before a republish).  The state
\* is well formed throughout, the rounds within their budget.
AddressesHold ==
    /\ TypeOK
    /\ phase \notin {"map", "probe", "copy"} =>
          \A s \in Sources : \A w \in Candidates(s) \cap alive : <<w, s>> \in holds

\* Only a worker that died, was reported leaving, or failed a call is ever
\* treated as lost: recovery never writes off a healthy worker.
NoHealthyBlamed ==
    blips = 0 => dead \cup lost \subseteq (Workers \ alive) \cup draining

\* One loss (a death, a drain notice, a failed call or a retryable error),
\* wherever it falls, never fails the stage.
OneLossSurvived == phase = "failed" => Losses >= 2

\* Whatever is lost, the stage ends: it returns or raises.
Terminates == <>Ended

=============================================================================
