----------------------------- MODULE MapBarrier -----------------------------
(***************************************************************************)
(* The map side of a distributed shuffle: map_barrier over                 *)
(* gather_map_results (dist/executors/ray_runtime/policies/_barrier.py).   *)
(* The driver deals sources to pinned worker actors, each of which maps    *)
(* its source and publishes the buckets on its own Flight server; a worker *)
(* can die at any moment and takes what it published with it.              *)
(*                                                                         *)
(* A source is a number and a published output the pair <<worker, source>>:*)
(* its buckets are a deterministic function of the source, so only who     *)
(* holds them matters.  ray.wait, ray.get and the actor calls are external:*)
(* a call on a worker that has died raises, and a reply that has been sent *)
(* (an address) outlives its sender.                                       *)
(*                                                                         *)
(* A definition X_Defect before X is a plausible defect of X, only to show *)
(* that a property notices it.                                             *)
(***************************************************************************)
EXTENDS Integers, FiniteSets, Sequences

CONSTANTS
    W,             \* workers of the fleet
    SourceCounts,  \* how many sources a stage may map: W, or more
    MaxAttempts,   \* distributed.recovery_max_attempts
    Allowance,     \* RetryBudget._allowance(): retries the whole job may draw
    MaxLosses      \* bound: faults of any kind

Workers == 0..(W - 1)

ASSUME FleetAssumption == W \in Nat \ {0}
ASSUME SourceAssumption == SourceCounts \subseteq Nat /\ \A n \in SourceCounts : n >= W
ASSUME AttemptAssumption == MaxAttempts \in Nat \ {0} /\ Allowance \in Nat
ASSUME FaultAssumption == MaxLosses \in Nat

VARIABLES
    phase,       \* where the driver is
    failure,     \* why the stage raised, "none" while it has not
    \* the fleet
    alive,       \* workers that are up
    holds,       \* <<worker, source>> outputs that can be fetched
    blips,       \* calls that failed although their worker lives
    transients,  \* map tasks that failed with a retryable error
    draining,    \* workers reported as leaving, which still answer
    \* map_barrier and gather_map_results
    sources,     \* how many sources this stage maps
    pending,     \* sources awaiting (re)submission, in order
    inflight,    \* sources with a task outstanding
    ran,         \* of those, the ones whose task has replied
    filling,     \* inside _fill, which submits until the window is full
    attempts,    \* source -> retries charged to it
    spent,       \* RetryBudget._spent
    dead,        \* workers the barrier knows to be gone
    confirmed,   \* workers that have completed a source
    idle,        \* workers free to take a source, in the order they went idle
    host,        \* SourcePlacement: source -> worker it was last dealt to
    addr         \* source -> worker it was published on, NoAddr before

fleetVars   == <<alive, holds, blips, transients, draining>>
barrierVars == <<sources, pending, inflight, ran, filling, attempts, spent,
                 dead, confirmed, idle, host, addr>>

NoAddr == -1
Sources == 0..(sources - 1)
Ended == phase \in {"done", "failed"}

\* Faults so far: deaths, drain notices, failed calls and retryable errors.
Losses == W - Cardinality(alive) + Cardinality(draining) + blips + transients
CanFail == ~Ended /\ Losses < MaxLosses

MapTypeOK ==
    /\ failure \in {"none", "no_survivor", "attempts", "republish", "rounds"}
    /\ alive \subseteq Workers /\ holds \subseteq alive \X Sources
    /\ blips \in Nat /\ transients \in Nat /\ draining \subseteq Workers
    /\ sources \in SourceCounts
    /\ pending \in Seq(Sources) /\ inflight \subseteq Sources /\ ran \subseteq inflight
    /\ filling \in BOOLEAN
    /\ attempts \in [Sources -> 0..(MaxAttempts + 1)] /\ spent \in 0..Allowance
    /\ dead \subseteq Workers /\ confirmed \subseteq Workers /\ idle \in Seq(Workers)
    /\ host \in [Sources -> Nat] /\ addr \in [Sources -> Workers \cup {NoAddr}]

MapInit ==
    /\ phase = "map" /\ failure = "none"
    /\ alive = Workers /\ holds = {} /\ blips = 0 /\ transients = 0 /\ draining = {}
    /\ sources \in SourceCounts
    /\ pending = [i \in 1..sources |-> i - 1]
    /\ inflight = {} /\ ran = {} /\ filling = TRUE
    /\ attempts = [s \in Sources |-> 0] /\ spent = 0
    /\ dead = {} /\ confirmed = {}
    /\ idle = [i \in 1..W |-> i - 1]
    /\ host = [s \in Sources |-> s]
    /\ addr = [s \in Sources |-> NoAddr]

(***************************************************************************)
(* Dealing a source to a worker.                                           *)
(***************************************************************************)
Pinned == sources <= W
Window == IF Pinned THEN sources ELSE W

\* map_barrier._pick_live.  The rotation and the fault ledger only choose
\* among these.
PickLive ==
    LET proven == confirmed \ dead
    IN  IF proven # {} THEN proven ELSE Workers \ dead

Least(S) == CHOOSE x \in S : \A y \in S : x <= y

\* map_barrier._next_idle pops up to the first idle worker not known dead.
LiveIdle == {i \in DOMAIN idle : idle[i] \notin dead}
NextIdle == Least(LiveIdle)
Popped   == IF LiveIdle = {} THEN <<>> ELSE SubSeq(idle, NextIdle + 1, Len(idle))

\* The workers _submit may launch src on.
HostsFor(src) ==
    IF Pinned THEN IF src \notin dead THEN {src} ELSE PickLive
    ELSE IF LiveIdle # {} THEN {idle[NextIdle]} ELSE PickLive

CanSubmit == pending # <<>> /\ Cardinality(inflight) < Window

Raise(why) == phase' = "failed" /\ failure' = why

\* _fill: one submission of its loop.
Submit ==
    /\ phase = "map" /\ CanSubmit
    /\ filling' = TRUE
    /\ LET src == Head(pending)
       IN  IF HostsFor(src) = {}
           THEN /\ Raise("no_survivor")
                /\ UNCHANGED <<pending, inflight, idle, host>>
           ELSE \E h \in HostsFor(src) :
                /\ pending' = Tail(pending)
                /\ inflight' = inflight \cup {src}
                /\ host' = [host EXCEPT ![src] = h]
                /\ idle' = IF Pinned THEN idle ELSE Popped
                /\ UNCHANGED <<phase, failure>>
    /\ UNCHANGED <<fleetVars, sources, ran, attempts, spent, dead, confirmed, addr>>

\* The worker maps its source, publishes the buckets and replies.
MapFinish(s) ==
    /\ phase = "map" /\ s \in inflight \ ran /\ host[s] \in alive
    /\ holds' = holds \cup {<<host[s], s>>}
    /\ ran' = ran \cup {s}
    /\ UNCHANGED <<phase, failure, alive, blips, transients, draining, sources, pending,
                   inflight, filling, attempts, spent, dead, confirmed, idle, host, addr>>

\* The driver drains every reply that is ready before it fills the window again.
Collecting(s) ==
    /\ phase = "map" /\ s \in inflight
    /\ ~(filling /\ CanSubmit)
    /\ filling' = FALSE
    /\ inflight' = inflight \ {s}

\* gather_map_results takes a reply; _on_done.
MapDone(s) ==
    /\ Collecting(s) /\ s \in ran
    /\ ran' = ran \ {s}
    /\ addr' = [addr EXCEPT ![s] = host[s]]
    /\ confirmed' = confirmed \cup {host[s]}
    /\ idle' = IF Pinned \/ host[s] \in dead THEN idle ELSE Append(idle, host[s])
    /\ UNCHANGED <<phase, failure, fleetVars, sources, pending, attempts, spent, dead, host>>

\* A retry is charged to the source and to the job's budget, or the failure raised.
Retry(s) ==
    /\ attempts' = [attempts EXCEPT ![s] = @ + 1]
    /\ IF attempts[s] + 1 > MaxAttempts \/ spent + 1 > Allowance
       THEN Raise("attempts") /\ UNCHANGED <<pending, spent>>
       ELSE /\ pending' = <<s>> \o pending
            /\ spent' = spent + 1
            /\ UNCHANGED <<phase, failure>>

\* _on_lost records the worker, not the source, as gone.
Blame_Nobody(w) == UNCHANGED dead
Blame(w) == dead' = dead \cup {w}

\* A worker-loss RayError; _on_lost.  A failure that reveals a newly dead
\* worker is not charged.
MapLost(s) ==
    /\ Collecting(s) /\ s \notin ran
    /\ \/ host[s] \notin alive /\ UNCHANGED blips
       \/ host[s] \in alive /\ CanFail /\ blips' = blips + 1
    /\ Blame(host[s])
    /\ confirmed' = confirmed \ {host[s]}
    /\ IF host[s] \notin dead
       THEN /\ pending' = <<s>> \o pending
            /\ UNCHANGED <<phase, failure, attempts, spent>>
       ELSE Retry(s)
    /\ UNCHANGED <<alive, holds, transients, draining, sources, ran, idle, host, addr>>

\* A retryable RayTaskError: the worker is not blamed, and not returned to the pool.
MapTransient(s) ==
    /\ Collecting(s) /\ s \notin ran /\ host[s] \in alive
    /\ CanFail /\ transients' = transients + 1
    /\ Retry(s)
    /\ UNCHANGED <<alive, holds, blips, draining, sources, ran, dead, confirmed, idle, host,
                   addr>>

\* The barrier returns (addrs, dead) once nothing is outstanding.
EndMap ==
    /\ phase = "map" /\ pending = <<>> /\ inflight = {}
    /\ phase' = "probe"
    /\ UNCHANGED <<failure, fleetVars, barrierVars>>

\* A worker is preempted or crashes, and what it published is gone.
Die(w) ==
    /\ CanFail /\ w \in alive
    /\ alive' = alive \ {w}
    /\ holds' = {p \in holds : p[1] # w}
    /\ UNCHANGED <<phase, failure, blips, transients, draining, barrierVars>>

\* A worker is being drained, reclaimed or quarantined.
Drain(w) ==
    /\ CanFail /\ w \notin draining
    /\ draining' = draining \cup {w}
    /\ UNCHANGED <<phase, failure, alive, holds, blips, transients, barrierVars>>

MapProgress ==
    \/ Submit
    \/ EndMap
    \/ \E s \in Sources : MapFinish(s) \/ MapDone(s) \/ MapLost(s)

=============================================================================
