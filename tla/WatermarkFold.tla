--------------------------- MODULE WatermarkFold ---------------------------
(***************************************************************************)
(* The watermarked windowed aggregation of one streaming query:            *)
(* _WindowedAggFold (core/streaming/folds/windowed.py) over a              *)
(* WatermarkTracker (plan/streaming/tracker.py), with the checkpoint it is *)
(* restored from.  Partial aggregates are the sets of rows folded into     *)
(* them, event times are positive integers, and 0 is Python's None.        *)
(*                                                                         *)
(* StreamingQuery has the protocol around an epoch; here its state write   *)
(* and commit are one step, and so are a restart's reads.                  *)
(***************************************************************************)
EXTENDS Integers, Sequences, FiniteSetsExt

CONSTANTS
    Partitions,        \* the stream's partitions
    Declared,          \* the ones the source announced (expected_partitions)
    Batches,           \* what one read may return: sets of [p, t] rows
    Lateness,          \* allowed lateness, in event time
    Width, Hop,        \* window width and hop
    Intervals,         \* candidate values of checkpoint_delta_interval
    TimedReplay,       \* may idleness change an epoch the sink already holds?
    MaxEpochs, MaxCrashes, MaxExpiries \* bounds of the instance

Times == UNION {{r.t : r \in b} : b \in Batches}

ASSUME FoldAssumption ==
    /\ Declared \subseteq Partitions
    /\ Batches \subseteq (SUBSET [p : Partitions, t : Nat]) \ {{}}
    /\ \A b \in Batches : IsFiniteSet(b)
    /\ Width \in Nat /\ Hop \in 1..Width /\ Lateness \in Nat
    /\ \A t \in Times : t > Lateness + Width
    /\ Intervals \subseteq Nat
    /\ {MaxEpochs, MaxCrashes, MaxExpiries} \subseteq Nat

VARIABLES
    interval,          \* checkpoint_delta_interval of this deployment
    log,               \* log[e]: the rows the write-ahead offsets pin epoch e to
    committed,         \* epochs committed
    chain,             \* the state files recovery combines: a snapshot, then deltas
    sink,              \* sink[e]: the windows written under batch id e
    pc,                \* where the query is in its epoch
    maxima, wm, idle,  \* the tracker: maxima per partition, frontier, idle partitions
    seen,              \* the fold's copy of the frontier (_wm)
    open,              \* the open windows' partials: <<window start, row>> pairs
    through, bound,    \* last boundary index swept, and the eviction threshold
    kept, delta, out,  \* rows past the filter, this epoch's entry, closed windows
    admitted, dropped, \* history: rows counted and rows ruled late, by epoch
    released,          \* history: partitions that were ever ruled idle
    timed,             \* history: idleness had a say in this epoch's frontier
    crashes, expiries

tracker == <<maxima, wm, idle>>
fold    == <<seen, open, through, bound>>
durable == <<log, committed, chain, sink>>
history == <<admitted, dropped, released>>
vars    == <<interval, durable, pc, tracker, fold, kept, delta, out, history, timed,
             crashes, expiries>>

None  == 0
Empty == [p \in {} |-> None]

(* The epoch in progress, or the next one.                                 *)
epoch == committed + 1

-----------------------------------------------------------------------------
(* WatermarkTracker.                                                       *)

(* A declared partition that has neither spoken nor gone idle.             *)
Silent(highs, away) == \E p \in Declared : p \notin DOMAIN highs /\ p \notin away

Slowest_Fastest(active, highs) == Max({highs[p] : p \in active})

Slowest(active, highs) == Min({highs[p] : p \in active})

(* _refresh(): the running maximum of the minima over active partitions.   *)
Refreshed(highs, away, frontier) ==
    LET active == DOMAIN highs \ away
    IN  IF Silent(highs, away) \/ active = {} THEN frontier
        ELSE Max({frontier, Slowest(active, highs) - Lateness})

(* observe(): this batch's per-partition maxima, folded in.                *)
Observed(highs, batch) ==
    LET spoke == {r.p : r \in batch}
        high(p) == Max({r.t : r \in {x \in batch : x.p = p}})
    IN  [p \in DOMAIN highs \cup spoke |->
            IF p \notin spoke THEN highs[p]
            ELSE IF p \in DOMAIN highs THEN Max({highs[p], high(p)}) ELSE high(p)]

(* A partition the tracker knows of passes its idle timeout.  A replay of  *)
(* an epoch the sink holds already meets none unless TimedReplay.          *)
Expire(p) ==
    /\ pc # "down" /\ expiries < MaxExpiries
    /\ TimedReplay \/ epoch \notin DOMAIN sink
    /\ p \in (Declared \cup DOMAIN maxima) \ idle
    /\ idle' = idle \cup {p}
    /\ released' = released \cup {p}
    /\ expiries' = expiries + 1
    /\ UNCHANGED <<interval, durable, pc, maxima, wm, fold, kept, delta, out, admitted,
                   dropped, timed, crashes>>

-----------------------------------------------------------------------------
(* One epoch of the fold.                                                  *)

(* The window starts that cover a row: the multiples of Hop in             *)
(* (t - Width, t].                                                         *)
WindowsOf(row) == {s \in row.t - Width + 1 .. row.t : s % Hop = 0}

(* The offsets of a new epoch are logged before anything reads its rows.   *)
Plan ==
    /\ pc = "next" /\ Len(log) = committed /\ committed < MaxEpochs
    /\ \E b \in Batches : log' = Append(log, b)
    /\ pc' = "filter" /\ timed' = FALSE
    /\ UNCHANGED <<interval, committed, chain, sink, tracker, fold, kept, delta, out, history,
                   crashes, expiries>>

(* A logged epoch without a commit is read again, over the same rows.      *)
Replay ==
    /\ pc = "next" /\ Len(log) > committed
    /\ pc' = "filter" /\ timed' = FALSE
    /\ UNCHANGED <<interval, durable, tracker, fold, kept, delta, out, history, crashes,
                   expiries>>

(* A row is late below the frontier, and on time at it.                    *)
OnTime(row, frontier) == row.t >= frontier

(* push(), first half: the frontier is re-read, then rows below it are     *)
(* dropped.                                                                *)
Filter ==
    /\ pc = "filter"
    /\ LET now == Refreshed(maxima, idle, wm)
           ok  == {r \in log[epoch] : OnTime(r, now)}
       IN  /\ wm' = now /\ seen' = now
           /\ kept' = ok
           /\ admitted' = [admitted EXCEPT ![epoch] = ok]
           /\ dropped' = [dropped EXCEPT ![epoch] = log[epoch] \ ok]
    /\ timed' = (timed \/ idle # {})
    /\ pc' = "fold"
    /\ UNCHANGED <<interval, durable, maxima, idle, open, through, bound, delta, out,
                   released, crashes, expiries>>

Bucket_OfWidth(threshold) == threshold \div Width

(* The boundary index the threshold has reached.                           *)
Bucket(threshold) == threshold \div Hop

(* A sweep is due only when a new boundary has been crossed.               *)
SweepDue(pairs, frontier) ==
    pairs # {} /\ frontier # None /\ Bucket(frontier - Width) # through

(* The partials of the windows at or below the threshold.                  *)
Closed(pairs, threshold) == {x \in pairs : x[1] <= threshold}

(* push(), second half: the whole batch is observed, late rows included,   *)
(* the kept rows are folded in, and _evict() emits and drops the windows   *)
(* the new frontier closes.                                                *)
Fold ==
    /\ pc = "fold"
    /\ LET away  == idle \ {r.p : r \in log[epoch]}
           highs == Observed(maxima, log[epoch])
           now   == Refreshed(highs, away, wm)
           fresh == UNION {WindowsOf(r) \X {[e |-> epoch, row |-> r]} : r \in kept}
           pairs == open \cup fresh
           sweep == SweepDue(pairs, now)
           gone  == IF sweep THEN Closed(pairs, now - Width) ELSE {}
       IN  /\ maxima' = highs /\ idle' = away /\ wm' = now /\ seen' = now
           /\ timed' = (timed \/ away # {})
           /\ delta' = fresh
           /\ open' = pairs \ gone
           /\ out' = gone
           /\ through' = IF sweep THEN Bucket(now - Width) ELSE through
           /\ bound' = IF sweep THEN now - Width ELSE bound
    /\ pc' = "sink"
    /\ UNCHANGED <<interval, durable, kept, history, crashes, expiries>>

(* The sink takes a batch id once; an epoch without output never asks it.  *)
Publish ==
    /\ pc = "sink"
    /\ sink' = IF out = {} \/ epoch \in DOMAIN sink THEN sink
               ELSE [e \in DOMAIN sink \cup {epoch} |-> IF e = epoch THEN out ELSE sink[e]]
    /\ pc' = "commit"
    /\ UNCHANGED <<interval, log, committed, chain, tracker, fold, kept, delta, out, history,
                   timed, crashes, expiries>>

(* The scalars that ride with every checkpointed batch (_meta).            *)
Part(rows) == [rows |-> rows, maxima |-> maxima, wm |-> wm, bound |-> bound]

(* A delta is at most half the state, counted in groups (worth_a_delta).   *)
WorthADelta ==
    LET groups(pairs) == Cardinality({x[1] : x \in pairs})
    IN  delta # {} /\ 2 * groups(delta) <= groups(open)

(* write_state(): changelog on, and fewer than interval deltas since the   *)
(* last snapshot.                                                          *)
ExtendsChain == interval > 0 /\ Len(chain) <= interval /\ WorthADelta

(* write_state(), then the commit row.                                     *)
Commit ==
    /\ pc = "commit"
    /\ chain' = IF ExtendsChain THEN Append(chain, Part(delta)) ELSE <<Part(open)>>
    /\ committed' = epoch
    /\ delta' = {} /\ out' = {} /\ kept' = {}
    /\ pc' = "next"
    /\ UNCHANGED <<interval, log, sink, tracker, fold, history, timed, crashes, expiries>>

-----------------------------------------------------------------------------
(* Failure and recovery.                                                   *)

(* The process dies.  Not while the sink holds an uncommitted epoch whose  *)
(* frontier idleness moved, unless TimedReplay.                            *)
Crash ==
    /\ pc # "down" /\ crashes < MaxCrashes
    /\ TimedReplay \/ epoch \notin DOMAIN sink \/ ~timed
    /\ crashes' = crashes + 1
    /\ pc' = "down"
    /\ maxima' = Empty /\ wm' = None /\ idle' = {}
    /\ seen' = None /\ open' = {} /\ through' = None /\ bound' = None
    /\ kept' = {} /\ delta' = {} /\ out' = {}
    /\ UNCHANGED <<interval, durable, history, timed, expiries>>

RestoredTracker_Fresh == [maxima |-> Empty, wm |-> None]

(* The tracker document comes from the first part that has one ...         *)
RestoredTracker == Head(chain)

RestoredBound_First == Head(chain).bound

(* ... and the eviction bound from the last.                               *)
RestoredBound ==
    LET swept == {i \in DOMAIN chain : chain[i].bound # None}
    IN  IF swept = {} THEN None ELSE chain[Max(swept)].bound

(* Parts combined, less the prefix the bound says was emitted already.     *)
RestoredOpen ==
    {x \in UNION {chain[i].rows : i \in DOMAIN chain} : x[1] > RestoredBound}

(* restore_parts(), into a new tracker whose partitions all start fresh.   *)
Restart ==
    /\ pc = "down"
    /\ pc' = "next"
    /\ IF chain = <<>> THEN UNCHANGED <<tracker, fold>>
       ELSE LET t   == RestoredTracker
                now == Refreshed(t.maxima, {}, t.wm)
            IN  /\ maxima' = t.maxima /\ wm' = now /\ seen' = now
                /\ open' = RestoredOpen
                /\ bound' = RestoredBound
                /\ through' = IF RestoredBound = None THEN None ELSE Bucket(RestoredBound)
                /\ UNCHANGED idle
    /\ UNCHANGED <<interval, durable, kept, delta, out, history, timed, crashes, expiries>>

-----------------------------------------------------------------------------
Init ==
    /\ interval \in Intervals
    /\ log = <<>> /\ committed = 0 /\ chain = <<>> /\ sink = [e \in {} |-> {}]
    /\ pc = "next"
    /\ maxima = Empty /\ wm = None /\ idle = {}
    /\ seen = None /\ open = {} /\ through = None /\ bound = None
    /\ kept = {} /\ delta = {} /\ out = {}
    /\ admitted = [e \in 1..MaxEpochs |-> {}] /\ dropped = [e \in 1..MaxEpochs |-> {}]
    /\ released = {} /\ timed = FALSE /\ crashes = 0 /\ expiries = 0

(* The instance's last epoch is committed.                                 *)
Finished == pc = "next" /\ committed = MaxEpochs /\ UNCHANGED vars

Next ==
    \/ Plan \/ Replay \/ Filter \/ Fold \/ Publish \/ Commit
    \/ Crash \/ Restart \/ Finished
    \/ \E p \in Partitions : Expire(p)

Spec == Init /\ [][Next]_vars

-----------------------------------------------------------------------------
(* Properties.                                                             *)

(* No restart from a changelog so far: one resumes at an older frontier    *)
(* (see FrontierKept), after which a closed window can come back.          *)
Settled == interval = 0 \/ crashes = 0

(* The batch ids under which the sink holds a window.                      *)
Writers(s) == {e \in DOMAIN sink : \E x \in sink[e] : x[1] = s}

(* What the rows admitted by the first n epochs contribute to.             *)
Contributions(n) ==
    UNION {UNION {WindowsOf(r) \X {[e |-> i, row |-> r]} : r \in admitted[i]} : i \in 1..n}

(* Every contribution of an admitted row is in exactly one place: the      *)
(* checkpoint, if its window is open, or the one committed write that      *)
(* emitted it; and a window is final when it is written: no second batch   *)
(* id ever writes it.  Whatever arrives late, goes idle or restarts, a     *)
(* restore from a changelog finds the open windows a snapshot would have   *)
(* (take_delta and restore_parts against _evict).                          *)
Accounted ==
    LET emitted  == UNION {sink[e] : e \in DOMAIN sink \cap 1..committed}
        restored == IF chain = <<>> THEN {} ELSE RestoredOpen
    IN  Settled =>
            /\ restored \cup emitted = Contributions(committed)
            /\ restored \cap emitted = {}
            /\ \A x \in emitted : Cardinality(Writers(x[1])) = 1

(* No over-claim: a row of a declared partition that never went idle is    *)
(* ruled late only when its own partition had moved more than the allowed  *)
(* lateness past it in an earlier epoch (the minimum over partitions, the  *)
(* declared set, and the maxima that ride with the checkpoint).            *)
NoOverclaim ==
    \A e \in 1..MaxEpochs : \A r \in dropped[e] :
        r.p \in Declared \ released =>
            \E d \in 1..e-1 : \E x \in log[d] : x.p = r.p /\ x.t - Lateness > r.t

(* The fold's variables keep the shape their Python counterparts have.     *)
TypeOK ==
    /\ interval \in Intervals /\ committed \in 0..MaxEpochs
    /\ Len(log) \in {committed, epoch} /\ \A e \in DOMAIN log : log[e] \in Batches
    /\ Len(chain) <= interval + 1
    /\ DOMAIN sink \subseteq 1..epoch
    /\ pc \in {"next", "filter", "fold", "sink", "commit", "down"}
    /\ DOMAIN maxima \subseteq Partitions /\ \A p \in DOMAIN maxima : maxima[p] \in Times
    /\ wm \in Nat /\ seen \in Nat /\ through \in Nat /\ bound \in Nat
    /\ idle \subseteq Partitions

(* State is bounded by the open windows: after an epoch, and after a       *)
(* restart, no window the fold's frontier has closed is still held (_evict *)
(* keys its sweeps on hop boundaries to be cheap), and the chain is no     *)
(* longer than its interval allows (TypeOK).                               *)
OnlyOpenHeld ==
    /\ TypeOK
    /\ Settled /\ pc = "next" => \A x \in open : x[1] > seen - Width

(* A restart takes no decision back that the last snapshot had recorded:   *)
(* the frontier is never behind the snapshot's (to_json and restore).  It  *)
(* may be behind the last commit's, when that commit wrote a delta.        *)
FrontierKept ==
    pc # "down" /\ chain # <<>> => wm >= Head(chain).wm
=============================================================================
