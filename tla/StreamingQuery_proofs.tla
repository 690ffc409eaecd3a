----------------------- MODULE StreamingQuery_proofs -----------------------
(***************************************************************************)
(* What holds of the streaming query for every number of rows, every       *)
(* source, every window shape and every number of crashes, faults and      *)
(* restarts: its types, its write-ahead discipline, that the commit row    *)
(* alone moves the restart point, and that neither the logs nor the chain  *)
(* nor the state directory grows without bound.                            *)
(*                                                                         *)
(* The argument is about batch ids.  Every decision of recovery is a       *)
(* maximum over a set of ids, so the invariant first says that the maxima  *)
(* exist, and then where the id in flight stands: one past the last commit *)
(* until its own commit, at the last commit while it is being pruned.      *)
(***************************************************************************)
EXTENDS StreamingQuery, TLAPS, FiniteSetTheorems, WellFoundedInduction

-----------------------------------------------------------------------------
(* The inductive invariant.                                                *)

Last == LastCommitted(commits)

Pruning == {"prunestate", "prunelogs", "prunecommits"}

(* Steps an epoch takes only after its write-ahead.                        *)
AfterLogging == {"replay", "fold", "mark", "sink", "state", "dropsnapshot", "dropdelta",
                 "commit"}

CommitsHaveLast == commits # {} => \E c \in commits : \A j \in commits : j <= c

NoIdBeyondNext ==
    DOMAIN offsets \cup DOMAIN snapshots \cup DOMAIN deltas \cup DOMAIN sink \subseteq 0..(Last + 1)

LastIsLogged == commits # {} => Last \in DOMAIN offsets

MarkersAreLogged == finals \subseteq DOMAIN offsets

IdInFlight ==
    /\ pc \in Pruning => commits # {} /\ batches = Last
    /\ pc \notin Pruning \cup {"down", "done"} => batches = Last + 1
    /\ pc \in AfterLogging => batches \in DOMAIN offsets

IInv ==
    /\ TypeOK
    /\ CommitsHaveLast
    /\ NoIdBeyondNext
    /\ LastIsLogged
    /\ MarkersAreLogged
    /\ IdInFlight
    /\ WriteAhead

(* The second invariant, about the chain: no delta without a snapshot      *)
(* under it.  A first write is always whole, because a fold with rows the  *)
(* pending entry does not hold was restored from, or written to, a base.   *)

HasBase == \E i \in DOMAIN snapshots : i <= Last

BaseUnderDeltas == DOMAIN deltas # {} => HasBase

FoldBacked ==
    /\ pc \in Pruning \cup {"loop", "stage", "record", "fold", "replay", "finalize"} =>
          (fold # EmptyFold => HasBase)
    /\ pc \in {"mark", "sink", "state"} => (Held(fold) \subseteq delta \/ HasBase)
    /\ pc = "dropsnapshot" => HasBase
    /\ pc \in {"dropdelta", "commit"} =>
          (fold # EmptyFold => HasBase \/ batches \in DOMAIN snapshots)

StatelessHasNoState ==
    ~ Stateful => /\ DOMAIN snapshots = {} /\ DOMAIN deltas = {} /\ fold = EmptyFold
                  /\ pc \notin {"state", "dropsnapshot", "dropdelta", "prunestate"}

ChainInv ==
    /\ IInv
    /\ BaseUnderDeltas
    /\ FoldBacked
    /\ StatelessHasNoState

-----------------------------------------------------------------------------
(* The third invariant, about sizes.                                       *)

(* What the logs may hold besides the row of the id in flight.             *)
Spare == PruneEvery + crashes + faults

(* No log row is older than the last sweep of this process, except between *)
(* the two halves of a sweep; and a commit adds one row until its sweep.   *)
LogsInv ==
    /\ prunedThrough <= Last + 1
    /\ \A i \in DOMAIN offsets : i >= prunedThrough
    /\ pc # "prunecommits" => \A i \in commits : i >= prunedThrough
    /\ pc = "prunecommits" => prunedThrough = batches
    /\ pc \in Pruning => /\ DOMAIN offsets \subseteq 0..Last
                         /\ Cardinality(DOMAIN offsets) <= Spare + 1 /\ Cardinality(commits) <= Spare + 1
    /\ pc \notin Pruning => Cardinality(DOMAIN offsets \ {Last + 1}) <= Spare /\ Cardinality(commits) <= Spare

(* A fold that was pushed once: it is not the empty fold, and its bound    *)
(* says so where windows close.                                            *)
BoundOf(b) == (Kind = "windowed" => b > 0) /\ (Kind = "complete" => b = 0)

Pushed(f) == f # EmptyFold /\ BoundOf(f.evicted)

(* Every state file is of a fold that was pushed, and a data epoch has     *)
(* rows to push.                                                           *)
FilesPushed ==
    /\ fold = EmptyFold \/ Pushed(fold)
    /\ \A i \in DOMAIN snapshots : Pushed(snapshots[i])
    /\ \A i \in DOMAIN deltas : BoundOf(deltas[i].evicted)
    /\ pc = "record" => epoch \in {"data", "drain"}
    /\ pc = "fold" \/ (pc = "record" /\ epoch = "data") => staged # {} /\ position > 0

(* No epoch extends a base with an empty fold, and only a drain marker     *)
(* commits one.                                                            *)
EpochPushed ==
    /\ pc \in {"loop", "stage", "record"} \cup AfterLogging => (HasBase => fold # EmptyFold)
    /\ pc \in {"sink", "state", "dropsnapshot", "dropdelta", "commit"} \cup Pruning =>
          (Stateful /\ epoch # "drain" => fold # EmptyFold)
    /\ Last + 1 \in finals \/ pc = "mark" => HasBase
    /\ pc = "replay" => Last + 1 \in finals

Chain == ChainDeltas(snapshots, deltas, Last)

(* The engine's count of deltas is no smaller than the chain it extends.   *)
LengthInv ==
    /\ deltasWritten <= DeltaInterval
    /\ Cardinality(Chain) <= DeltaInterval
    /\ pc \notin {"down", "done", "dropdelta", "commit"} => Cardinality(Chain) <= deltasWritten
    /\ pc = "dropsnapshot" => Cardinality(Chain) < deltasWritten
    /\ pc = "dropdelta" => batches \in DOMAIN snapshots
    /\ pc = "commit" => \/ batches \in DOMAIN snapshots
                        \/ Cardinality(Chain) < deltasWritten
                        \/ DOMAIN deltas = {}

(* The state files there are, and the most a prune leaves.                 *)
FileCount == Cardinality(DOMAIN snapshots) + Cardinality(DOMAIN deltas)
FileRoom  == DeltaInterval + 1 + crashes + faults

(* A committed id has one state file, and a state write adds one file      *)
(* until the prune after its commit.                                       *)
FilesInv ==
    /\ \A i \in DOMAIN snapshots \cap DOMAIN deltas :
          i = Last + 1 /\ pc \notin Pruning \cup {"commit"}
    /\ pc \in Pruning => DOMAIN snapshots \cup DOMAIN deltas \subseteq 0..Last
    /\ FileCount <= FileRoom + 1
    /\ pc \notin {"dropsnapshot", "dropdelta", "commit", "prunestate"} => FileCount <= FileRoom

SizeInv == ChainInv /\ FilesPushed /\ EpochPushed /\ LengthInv /\ FilesInv

-----------------------------------------------------------------------------
(* Sets of ids.                                                            *)

(* A set of ids with an upper bound has a largest element.                 *)
LEMMA BoundedHasLargest ==
    ASSUME NEW b \in Int, NEW S, S \subseteq 0..b, S # {}
    PROVE  \E m \in S : \A j \in S : j <= m
<1> DEFINE T == {b - i : i \in S}
<1>1. T \subseteq Nat /\ T # {}
  <2>1. \A i \in S : b - i \in Nat
    OBVIOUS
  <2>2. PICK i \in S : TRUE
    OBVIOUS
  <2>3. b - i \in T
    OBVIOUS
  <2> QED  BY <2>1, <2>3
<1>2. PICK x \in T : \A y \in T : ~ (<<y, x>> \in OpToRel(<, Nat))
  <2> HIDE DEF T
  <2> QED  BY <1>1, NatLessThanWellFounded, WFMin
<1>3. \A y \in T : ~ (y < x)
  BY <1>1, <1>2 DEF OpToRel
<1>4. PICK m \in S : x = b - m
  OBVIOUS
<1>5. \A j \in S : b - j \in T
  OBVIOUS
<1> HIDE DEF T
<1> QED  BY <1>1, <1>3, <1>4, <1>5

(* Newest of a set that has a largest element is that element.             *)
LEMMA NewestIs ==
    ASSUME NEW S, S \subseteq Int, NEW m \in S, \A j \in S : j <= m
    PROVE  Newest(S) = m
<1> DEFINE P(i) == \A j \in S : j <= i
<1>1. m \in S /\ P(m)
  OBVIOUS
<1>2. \A i \in S : P(i) => i = m
  OBVIOUS
<1>3. (CHOOSE i \in S : P(i)) = m
  <2> HIDE DEF P
  <2> QED  BY <1>1, <1>2
<1> QED  BY <1>3 DEF Newest

(* Newest of a bounded set of ids: NoBatch, or its largest element.        *)
LEMMA NewestOfBounded ==
    ASSUME NEW b \in Int, NEW S, S \subseteq 0..b
    PROVE  /\ S = {} => Newest(S) = -1
           /\ S # {} => Newest(S) \in S /\ \A j \in S : j <= Newest(S)
           /\ Newest(S) \in Int /\ Newest(S) >= -1
<1>1. CASE S = {}
  BY <1>1 DEF Newest, NoBatch
<1>2. CASE S # {}
  <2>1. PICK m \in S : \A j \in S : j <= m
    BY <1>2, BoundedHasLargest
  <2>2. S \subseteq Int
    OBVIOUS
  <2>3. Newest(S) = m
    BY <2>1, <2>2, NewestIs
  <2> QED  BY <1>2, <2>1, <2>3
<1> QED  BY <1>1, <1>2

(* last_committed over a commit log that has a last row.                   *)
LEMMA LastCommittedIs ==
    ASSUME NEW C, C \subseteq Nat, C # {} => \E c \in C : \A j \in C : j <= c
    PROVE  /\ C = {} => LastCommitted(C) = -1
           /\ C # {} => LastCommitted(C) \in C /\ \A j \in C : j <= LastCommitted(C)
           /\ LastCommitted(C) \in Int /\ LastCommitted(C) >= -1
<1>1. CASE C = {}
  BY <1>1 DEF LastCommitted, Newest, NoBatch
<1>2. CASE C # {}
  <2>1. PICK m \in C : \A j \in C : j <= m
    BY <1>2
  <2>2. C \subseteq Int
    OBVIOUS
  <2>3. Newest(C) = m
    BY <2>1, <2>2, NewestIs
  <2> QED  BY <1>2, <2>1, <2>3 DEF LastCommitted
<1> QED  BY <1>1, <1>2

(* The base and the changelog of a chain: what BaseId and ChainDeltas find *)
(* in a state directory whose ids are bounded.                             *)
LEMMA ChainFacts ==
    ASSUME NEW s, NEW d, NEW n \in Int, NEW b \in Int,
           DOMAIN s \subseteq 0..n, DOMAIN d \subseteq 0..n
    PROVE  /\ BaseId(s, b) \in Int /\ BaseId(s, b) >= -1
           /\ BaseId(s, b) # -1 => BaseId(s, b) \in DOMAIN s /\ BaseId(s, b) <= b
           /\ \A i \in DOMAIN s : i <= b => i <= BaseId(s, b)
           /\ ChainDeltas(s, d, b) \subseteq DOMAIN d
           /\ ChainDeltas(s, d, b) # {} => Newest(ChainDeltas(s, d, b)) \in ChainDeltas(s, d, b)
<1> DEFINE S == {i \in DOMAIN s : i <= b}
<1>1. S \subseteq 0..n
  OBVIOUS
<1>2. /\ S = {} => Newest(S) = -1
      /\ S # {} => Newest(S) \in S /\ \A j \in S : j <= Newest(S)
      /\ Newest(S) \in Int /\ Newest(S) >= -1
  <2> HIDE DEF S
  <2> QED  BY <1>1, NewestOfBounded
<1>3. BaseId(s, b) = Newest(S)
  BY DEF BaseId
<1>4. ChainDeltas(s, d, b) \subseteq DOMAIN d
  BY DEF ChainDeltas
<1>5. ChainDeltas(s, d, b) # {} => Newest(ChainDeltas(s, d, b)) \in ChainDeltas(s, d, b)
  BY <1>4, NewestOfBounded
<1> QED  BY <1>2, <1>3, <1>4, <1>5

(* A subset of a bounded set of ids has a natural number of elements.      *)
LEMMA CountOfIds ==
    ASSUME NEW n \in Int, NEW S, S \subseteq 0..n
    PROVE  Cardinality(S) \in Nat
<1>1. IsFiniteSet(0..n)
  BY FS_Interval
<1>2. IsFiniteSet(S)
  BY <1>1, FS_Subset
<1> QED  BY <1>2, FS_CardinalityType

-----------------------------------------------------------------------------
(* The fold algebra.                                                       *)

Counts == [Rows -> Nat]

(* Adding partials and evicting windows yields counts again.               *)
LEMMA CountTypes ==
    /\ NoRows \in Counts
    /\ \A S : OneEach(S) \in Counts
    /\ \A f, g \in Counts : Plus(f, g) \in Counts
    /\ \A f \in Counts, b \in Nat : Open(f, b) \in Counts /\ Closed(f, b) \in Counts
BY ClosesAtAssumption DEF Counts, NoRows, OneEach, Plus, Open, Closed

(* A new query's fold is a fold.                                           *)
LEMMA EmptyFoldType == EmptyFold \in FoldStates
BY CountTypes DEF EmptyFold, FoldStates, Counts

(* One micro-batch turns a fold into a fold and an output.                 *)
LEMMA PushTypes ==
    ASSUME NEW f \in FoldStates, NEW rows, NEW end \in 0..N
    PROVE  Push(f, rows, end) \in FoldStates /\ Emitted(f, rows, end) \in Counts
<1>1. f.count \in Counts /\ f.evicted \in Nat
  BY DEF FoldStates, Counts
<1>2. end \in Nat
  BY NAssumption
<1>3. Plus(f.count, OneEach(rows)) \in Counts
  BY <1>1, CountTypes
<1>4. /\ Open(Plus(f.count, OneEach(rows)), end) \in Counts
      /\ Closed(Plus(f.count, OneEach(rows)), end) \in Counts
      /\ OneEach(rows) \in Counts
  BY <1>2, <1>3, CountTypes
<1>5. Emitted(f, rows, end) \in Counts
  BY <1>3, <1>4, KindAssumption DEF Emitted
<1>6. Push(f, rows, end) \in FoldStates
  BY <1>1, <1>2, <1>3, <1>4, KindAssumption DEF Push, FoldStates, Counts
<1> QED  BY <1>5, <1>6
-----------------------------------------------------------------------------
(* What recovery finds in any state of the invariant.                      *)

(* Last is the largest committed id, or NoBatch.                           *)
LEMMA LastFacts ==
    ASSUME IInv
    PROVE  /\ commits = {} => Last = -1
           /\ commits # {} => Last \in commits /\ \A j \in commits : j <= Last
           /\ Last \in Int /\ Last >= -1
BY LastCommittedIs DEF IInv, TypeOK, CommitsHaveLast, Last

(* A restored chain is a fold.                                             *)
LEMMA RestoredType ==
    ASSUME IInv, NEW b \in Int
    PROVE  RestoreChain(b) \in FoldStates
<1> DEFINE base  == BaseId(snapshots, b)
           chain == ChainDeltas(snapshots, deltas, b)
           from  == IF base = NoBatch THEN EmptyFold ELSE snapshots[base]
           bound == IF chain = {} THEN from.evicted ELSE deltas[Newest(chain)].evicted
           times == [r \in Rows |-> Cardinality({e \in chain : r \in deltas[e].rows})]
<1>1. Last + 1 \in Int /\ DOMAIN snapshots \subseteq 0..(Last + 1) /\ DOMAIN deltas \subseteq 0..(Last + 1)
  BY LastFacts DEF IInv, NoIdBeyondNext
<1>2. /\ base # -1 => base \in DOMAIN snapshots
      /\ chain \subseteq DOMAIN deltas
      /\ chain # {} => Newest(chain) \in chain
  BY <1>1, ChainFacts
<1>3. /\ snapshots \in [DOMAIN snapshots -> FoldStates]
      /\ deltas \in [DOMAIN deltas -> Entries]
  BY DEF IInv, TypeOK, PartialFunction
<1>4. from \in FoldStates
  BY <1>2, <1>3, EmptyFoldType DEF NoBatch
<1>5. bound \in Nat
  <2>1. from.evicted \in Nat
    <3> HIDE DEF from
    <3> QED  BY <1>4 DEF FoldStates
  <2>2. chain # {} => deltas[Newest(chain)] \in Entries
    <3> HIDE DEF chain
    <3> QED  BY <1>2, <1>3
  <2>3. chain # {} => deltas[Newest(chain)].evicted \in Nat
    BY <2>2 DEF Entries
  <2> QED  BY <2>1, <2>3
<1>6. times \in Counts
  <2>1. \A r \in Rows : {e \in chain : r \in deltas[e].rows} \subseteq 0..(Last + 1)
    <3> HIDE DEF chain
    <3> QED  BY <1>1, <1>2
  <2>2. \A r \in Rows : Cardinality({e \in chain : r \in deltas[e].rows}) \in Nat
    <3> HIDE DEF chain
    <3> QED  BY <1>1, <2>1, CountOfIds
  <2> HIDE DEF chain
  <2> QED  BY <2>2 DEF Counts
<1>7. from.count \in Counts
  <2> HIDE DEF from
  <2> QED  BY <1>4 DEF FoldStates, Counts
<1>8. DropEvicted(Plus(from.count, times), bound) \in Counts
  <2>1. Plus(from.count, times) \in Counts
    <3> HIDE DEF from, times
    <3> QED  BY <1>6, <1>7, CountTypes
  <2> HIDE DEF from, times, bound
  <2> QED  BY <1>5, <2>1, CountTypes DEF DropEvicted
<1>9. RestoreChain(b) = [count |-> DropEvicted(Plus(from.count, times), bound), evicted |-> bound]
  BY DEF RestoreChain
<1> HIDE DEF from, times, bound, chain, base
<1> QED  BY <1>5, <1>8, <1>9 DEF FoldStates, Counts

(* The plan resumes at the id after the last commit, seeks to a position   *)
(* of the source, and replays a flush only under an id that was logged.    *)
LEMMA PlanFacts ==
    ASSUME IInv
    PROVE  /\ Plan.start = Last + 1 /\ Plan.start \in Nat
           /\ Plan.seek \in 0..N
           /\ Plan.seek = IF commits = {} THEN 0 ELSE offsets[Last]
           /\ Plan.stateAt \in {NoBatch, Last}
           /\ commits = {} => Plan.stateAt = NoBatch
           /\ Plan.pending => Last + 1 \in DOMAIN offsets
<1>1. /\ commits = {} => Last = -1
      /\ commits # {} => Last \in commits /\ Last \in DOMAIN offsets /\ Last \in Nat
      /\ Last \in Int /\ Last >= -1
  BY LastFacts DEF IInv, TypeOK, LastIsLogged
<1>2. Fresh(offsets, commits) <=> commits = {}
  BY <1>1 DEF Fresh, Last, NoBatch
<1>3. ResumeBatch(offsets, commits) = Last + 1
  BY <1>1, <1>2 DEF ResumeBatch, Last
<1>4. SeekBatch(offsets, commits) = Last
  BY <1>1, <1>2 DEF SeekBatch, Last, NoBatch
<1>5. offsets \in [DOMAIN offsets -> 0..N] /\ DOMAIN offsets \subseteq Nat /\ 0 \in 0..N
  BY NAssumption DEF IInv, TypeOK, PartialFunction
<1>6. Last \in DOMAIN offsets <=> commits # {}
  BY <1>1, <1>5
<1>7. PendingFlush(offsets, finals, commits) => Last + 1 \in DOMAIN offsets
  BY DEF PendingFlush, Last, IInv, MarkersAreLogged
<1>8. /\ Plan.start = ResumeBatch(offsets, commits)
      /\ Plan.seek = IF SeekBatch(offsets, commits) \in DOMAIN offsets
                     THEN offsets[SeekBatch(offsets, commits)] ELSE 0
      /\ Plan.stateAt \in {NoBatch, Last}
      /\ Fresh(offsets, commits) => Plan.stateAt = NoBatch
      /\ Plan.pending = PendingFlush(offsets, finals, commits)
  BY DEF Plan, Recover, Last
<1> QED  BY <1>1, <1>2, <1>3, <1>4, <1>5, <1>6, <1>7, <1>8

(* What start() and a rollback hand the processor is a fold.               *)
LEMMA RecoveredTypes ==
    ASSUME IInv
    PROVE  /\ Recovered \in FoldStates
           /\ RolledBack \in FoldStates
           /\ ChainLength \in Nat
<1>1. Last \in Int /\ Plan.stateAt \in Int
  BY LastFacts, PlanFacts DEF NoBatch
<1>2. RestoreChain(Plan.stateAt) \in FoldStates
  BY <1>1, RestoredType
<1>3. fold \in FoldStates
  BY DEF IInv, TypeOK
<1>4. ChainDeltas(snapshots, deltas, Last) \subseteq 0..(Last + 1)
  BY <1>1, ChainFacts DEF IInv, NoIdBeyondNext
<1>5. ChainLength \in Nat
  BY <1>1, <1>4, CountOfIds DEF ChainLength, Last
<1> QED  BY <1>2, <1>3, <1>5, EmptyFoldType DEF Recovered, RolledBack
-----------------------------------------------------------------------------
(* The invariant holds initially.                                          *)

(* An empty checkpoint satisfies the invariant.                            *)
LEMMA InitEstablishes == Init => IInv
<1> SUFFICES ASSUME Init PROVE IInv
  OBVIOUS
<1>1. TypeOK
  <2>1. \A V : PartialFunction(<<>>, V)
    BY DEF PartialFunction
  <2>2. NoRows \in [Rows -> Nat] /\ EmptyFold \in FoldStates
    BY CountTypes, EmptyFoldType DEF Counts
  <2>3. stopping \in BOOLEAN
    BY Zenon DEF Init
  <2>4. 0 \in 0..N /\ InitiallyAvailable \in 0..N
    BY NAssumption, BoundAssumption
  <2> QED  BY <2>1, <2>2, <2>3, <2>4 DEF Init, TypeOK
<1>2. Last = -1
  BY DEF Init, Last, LastCommitted, Newest, NoBatch
<1> QED  BY <1>1, <1>2 DEF Init, IInv, CommitsHaveLast, NoIdBeyondNext, LastIsLogged,
            MarkersAreLogged, IdInFlight, WriteAhead, Pruning, AfterLogging

-----------------------------------------------------------------------------
(* Every step keeps the invariant.  A step that writes nothing durable can *)
(* disturb only the types and the id in flight.                            *)

(* A step that writes nothing durable needs only its types and its id.     *)
LEMMA NothingDurable ==
    ASSUME IInv, UNCHANGED durable, TypeOK', IdInFlight'
    PROVE  IInv'
<1>1. /\ offsets' = offsets /\ finals' = finals /\ commits' = commits
      /\ snapshots' = snapshots /\ deltas' = deltas /\ sink' = sink
  BY DEF durable, logs, files
<1>2. Last' = Last
  BY <1>1 DEF Last
<1> QED  BY <1>1, <1>2 DEF IInv, CommitsHaveLast, NoIdBeyondNext, LastIsLogged,
            MarkersAreLogged, WriteAhead

(* ... and moves no committed id.                                          *)
LEMMA NothingDurableLast ==
    ASSUME UNCHANGED durable
    PROVE  Last' = Last /\ offsets' = offsets /\ commits' = commits
BY DEF durable, logs, Last

(* The restart counter counts.                                             *)
LEMMA RestartsType == TypeOK => NextRestarts \in Nat
BY DEF TypeOK, NextRestarts

(* The producer touches nothing of the query.                              *)
LEMMA ProduceKeeps == IInv /\ Produce => IInv'
<1> SUFFICES ASSUME IInv, Produce PROVE IInv'
  OBVIOUS
<1>1. UNCHANGED durable
  BY DEF Produce
<1>2. TypeOK'
  BY NAssumption DEF IInv, TypeOK, Produce, engine, work, state, retry, durable, logs, files
<1>3. IdInFlight'
  BY <1>1, NothingDurableLast DEF IInv, IdInFlight, Produce, engine
<1> QED  BY <1>1, <1>2, <1>3, NothingDurable

(* A start takes the id after the last commit, and replays only a logged  *)
(* flush.                                                                  *)
LEMMA StartKeeps == IInv /\ Start => IInv'
<1> SUFFICES ASSUME IInv, Start PROVE IInv'
  OBVIOUS
<1>1. UNCHANGED durable
  BY DEF Start
<1>2. TypeOK'
  <2>1. NoRows \in [Rows -> Nat]
    BY CountTypes DEF Counts
  <2>2. Plan.start \in Nat /\ Plan.seek \in 0..N /\ Recovered \in FoldStates /\ ChainLength \in Nat
    BY PlanFacts, RecoveredTypes
  <2>3. stopping' \in BOOLEAN
    BY Zenon DEF Start
  <2> QED  BY <2>1, <2>2, <2>3 DEF IInv, TypeOK, Start, durable, logs, files
<1>3. IdInFlight'
  <2>1. /\ batches' = Last + 1
        /\ \/ pc' = "loop"
           \/ pc' = "replay" /\ Last + 1 \in DOMAIN offsets
    BY PlanFacts DEF Start
  <2> QED  BY <1>1, <2>1, NothingDurableLast DEF IdInFlight, Pruning, AfterLogging
<1> QED  BY <1>1, <1>2, <1>3, NothingDurable

(* The steps of the loop between two durable writes.                       *)
LEMMA VolatileStepKeeps ==
    IInv /\ (StopRequest \/ TestStop \/ Stage \/ Exhausted \/ Idle \/ Fold \/ FinalizeNothing
             \/ ReplayFinalize \/ Terminated) => IInv'
<1> SUFFICES ASSUME IInv,
                    StopRequest \/ TestStop \/ Stage \/ Exhausted \/ Idle \/ Fold
                      \/ FinalizeNothing \/ ReplayFinalize \/ Terminated
             PROVE  IInv'
  OBVIOUS
<1>1. UNCHANGED durable
  BY DEF StopRequest, TestStop, Stage, Exhausted, Idle, Fold, FinalizeNothing, ReplayFinalize,
         Terminated, vars
<1>2. TypeOK'
  <2>1. TypeOK
    BY DEF IInv
  <2>2. fold.count \in [Rows -> Nat]
    BY <2>1 DEF TypeOK, FoldStates
  <2>3. Flushable \in [Rows -> Nat] /\ Flushed \in FoldStates
    BY <2>1, <2>2, CountTypes DEF TypeOK, FoldStates, Flushable, Flushed, Counts
  <2>4. CASE StopRequest
    BY <2>1, <2>4 DEF StopRequest, TypeOK, work, state, retry, durable, logs, files, env
  <2>5. CASE TestStop
    BY <2>1, <2>5 DEF TestStop, TypeOK, work, state, retry, durable, logs, files, env
  <2>6. CASE Stage
    <3>1. PICK e \in Readable : position' = e /\ staged' = {r \in Rows : position < r /\ r <= e}
      BY <2>6 DEF Stage
    <3>2. e \in 0..N
      BY <2>1, <3>1, PollsAssumption, NAssumption DEF Readable, TypeOK, Rows
    <3>3. staged' \subseteq Rows
      BY <3>1
    <3> QED  BY <2>1, <2>6, <3>1, <3>2, <3>3
             DEF Stage, TypeOK, state, retry, durable, logs, files, env
  <2>7. CASE Exhausted
    BY <2>1, <2>7 DEF Exhausted, TypeOK, work, state, retry, durable, logs, files, env
  <2>8. CASE Idle \/ Terminated
    BY <2>1, <2>8 DEF Idle, Terminated, TypeOK, vars, engine, work, state, retry, durable,
                      logs, files, env
  <2>9. CASE Fold
    <3>1. Push(fold, staged, position) \in FoldStates /\ Emitted(fold, staged, position) \in [Rows -> Nat]
      BY <2>1, PushTypes DEF TypeOK, Counts
    <3> QED  BY <2>1, <2>9, <3>1 DEF Fold, TypeOK, retry, durable, logs, files, env
  <2>10. CASE FinalizeNothing
    BY <2>1, <2>10 DEF FinalizeNothing, TypeOK, work, state, retry, durable, logs, files, env
  <2>11. CASE ReplayFinalize
    BY <2>1, <2>3, <2>11 DEF ReplayFinalize, AfterPublish, TypeOK, retry, durable, logs, files, env
  <2> QED  BY <2>4, <2>5, <2>6, <2>7, <2>8, <2>9, <2>10, <2>11
<1>3. IdInFlight'
  <2>1. Last' = Last /\ offsets' = offsets /\ commits' = commits
    BY <1>1, NothingDurableLast
  <2>2. batches' = batches
    BY DEF StopRequest, TestStop, Stage, Exhausted, Idle, Fold, FinalizeNothing, ReplayFinalize,
           Terminated, vars, engine
  <2>3. \/ pc' = pc
        \/ pc = "loop" /\ pc' \in {"finalize", "stage"}
        \/ pc = "stage" /\ pc' = "record"
        \/ pc = "fold" /\ pc' = "sink"
        \/ pc = "finalize" /\ pc' = "done"
        \/ pc = "replay" /\ pc' \in {"sink", "state", "commit"}
    BY DEF StopRequest, TestStop, Stage, Exhausted, Idle, Fold, FinalizeNothing, ReplayFinalize,
           Terminated, vars, engine, AfterPublish
  <2> QED  BY <2>1, <2>2, <2>3 DEF IInv, IdInFlight, Pruning, AfterLogging
<1> QED  BY <1>1, <1>2, <1>3, NothingDurable

(* A death forgets, a rollback goes back to the id after the last commit.  *)
LEMMA FailureKeeps == IInv /\ (Crash \/ Fault) => IInv'
<1> SUFFICES ASSUME IInv, Crash \/ Fault PROVE IInv'
  OBVIOUS
<1>1. UNCHANGED durable
  BY DEF Crash, Fault
<1>2. Die \/ RollBack
  BY DEF Crash, Fault
<1>3. available' = available /\ starts' = starts /\ crashes' \in Nat /\ faults' \in Nat
  BY DEF Crash, Fault, IInv, TypeOK
<1>4. NoRows \in [Rows -> Nat] /\ EmptyFold \in FoldStates
  BY CountTypes, EmptyFoldType DEF Counts
<1>5. Last' = Last /\ offsets' = offsets /\ commits' = commits
  BY <1>1, NothingDurableLast
<1>6. CASE Die
  <2>0. stopping' \in BOOLEAN
    BY <1>6, Zenon DEF Die
  <2>1. TypeOK'
    BY <1>1, <1>3, <1>4, <1>6, <2>0, NAssumption DEF Die, IInv, TypeOK, durable, logs, files
  <2>2. IdInFlight'
    BY <1>6 DEF Die, IdInFlight, Pruning, AfterLogging
  <2> QED  BY <1>1, <2>1, <2>2, NothingDurable
<1>7. CASE RollBack
  <2>1. Plan.start = Last + 1 /\ Plan.start \in Nat /\ Plan.seek \in 0..N
    BY PlanFacts
  <2>2. RolledBack \in FoldStates /\ ChainLength \in Nat /\ NextRestarts \in Nat
    BY RecoveredTypes, RestartsType DEF IInv
  <2>3. TypeOK'
    BY <1>1, <1>3, <1>4, <1>7, <2>1, <2>2 DEF RollBack, IInv, TypeOK, durable, logs, files
  <2>4. IdInFlight'
    BY <1>5, <1>7, <2>1 DEF RollBack, IdInFlight, Pruning, AfterLogging
  <2> QED  BY <1>1, <2>3, <2>4, NothingDurable
<1> QED  BY <1>2, <1>6, <1>7

(* The write-ahead of an epoch or of a flush names the id in flight.       *)
LEMMA LoggingKeeps == IInv /\ (RecordOffsets \/ FinalizeRecord) => IInv'
<1> SUFFICES ASSUME IInv, RecordOffsets \/ FinalizeRecord PROVE IInv'
  OBVIOUS
<1>1. TypeOK /\ batches \in Nat /\ position \in 0..N /\ PartialFunction(offsets, 0..N)
  BY DEF IInv, TypeOK
<1>2. /\ offsets' = Put(offsets, batches, position)
      /\ finals' = finals /\ commits' = commits /\ snapshots' = snapshots /\ deltas' = deltas
      /\ sink' = sink /\ batches' = batches
      /\ pc' \in {"mark", "fold", "state", "commit"}
  BY DEF RecordOffsets, FinalizeRecord, Logged, AfterPublish, files
<1>3. PartialFunction(offsets', 0..N) /\ DOMAIN offsets' = DOMAIN offsets \cup {batches}
  BY <1>1, <1>2 DEF Put, PartialFunction
<1>4. Last' = Last
  BY <1>2 DEF Last
<1>5. batches = Last + 1
  BY DEF RecordOffsets, FinalizeRecord, IInv, IdInFlight, Pruning
<1>6. TypeOK'
  <2>1. CASE RecordOffsets
    BY <1>1, <1>2, <1>3, <2>1 DEF RecordOffsets, TypeOK, work, state, retry, files, env
  <2>2. CASE FinalizeRecord
    <3>1. fold.count \in [Rows -> Nat]
      BY <1>1 DEF TypeOK, FoldStates
    <3>2. Flushable \in [Rows -> Nat] /\ Flushed \in FoldStates
      BY <1>1, <3>1, CountTypes DEF TypeOK, FoldStates, Flushable, Flushed, Counts
    <3> QED  BY <1>1, <1>2, <1>3, <2>2, <3>2 DEF FinalizeRecord, TypeOK, retry, files, env
  <2> QED  BY <2>1, <2>2
<1>7. NoIdBeyondNext' /\ LastIsLogged' /\ MarkersAreLogged' /\ CommitsHaveLast'
  BY <1>1, <1>2, <1>3, <1>4, <1>5, LastFacts
     DEF IInv, NoIdBeyondNext, LastIsLogged, MarkersAreLogged, CommitsHaveLast
<1>8. IdInFlight'
  BY <1>2, <1>3, <1>4, <1>5 DEF IdInFlight, Pruning, AfterLogging
<1>9. WriteAhead'
  BY <1>2, <1>3 DEF IInv, WriteAhead
<1> QED  BY <1>6, <1>7, <1>8, <1>9 DEF IInv

(* The finalize marker is put on an id the offset log already names.       *)
LEMMA MarkKeeps == IInv /\ FinalizeMark => IInv'
<1> SUFFICES ASSUME IInv, FinalizeMark PROVE IInv'
  OBVIOUS
<1>1. Last' = Last
  BY DEF FinalizeMark, Last
<1>2. TypeOK'
  BY DEF FinalizeMark, IInv, TypeOK, work, state, retry, files, env
<1>3. batches \in DOMAIN offsets /\ batches = Last + 1
  BY DEF FinalizeMark, IInv, IdInFlight, Pruning, AfterLogging
<1> QED  BY <1>1, <1>2, <1>3
         DEF FinalizeMark, IInv, NoIdBeyondNext, LastIsLogged, MarkersAreLogged, CommitsHaveLast,
             IdInFlight, WriteAhead, Pruning, AfterLogging, files

(* A publish adds at most the id in flight, which is logged.               *)
LEMMA SinkKeeps == IInv /\ WriteSink => IInv'
<1> SUFFICES ASSUME IInv, WriteSink PROVE IInv'
  OBVIOUS
<1>1. TypeOK /\ batches \in Nat /\ output \in [Rows -> Nat] /\ PartialFunction(sink, [Rows -> Nat])
  BY DEF IInv, TypeOK
<1>2. /\ offsets' = offsets /\ finals' = finals /\ commits' = commits /\ snapshots' = snapshots
      /\ deltas' = deltas /\ batches' = batches /\ pc' \in {"state", "commit"}
      /\ sink' = sink \/ sink' = Put(sink, batches, output)
  BY DEF WriteSink, SinkWrite, AfterPublish, logs, files
<1>3. Last' = Last
  BY <1>2 DEF Last
<1>4. batches = Last + 1 /\ batches \in DOMAIN offsets
  BY DEF WriteSink, IInv, IdInFlight, Pruning, AfterLogging
<1>5. PartialFunction(sink', [Rows -> Nat]) /\ DOMAIN sink' \subseteq DOMAIN sink \cup {batches}
  BY <1>1, <1>2 DEF Put, PartialFunction
<1>6. TypeOK'
  <2>1. NoRows \in [Rows -> Nat]
    BY CountTypes DEF Counts
  <2> QED  BY <1>1, <1>2, <1>5, <2>1 DEF WriteSink, TypeOK, state, retry, env
<1>7. NoIdBeyondNext' /\ LastIsLogged' /\ MarkersAreLogged' /\ CommitsHaveLast'
  BY <1>1, <1>2, <1>3, <1>4, <1>5, LastFacts
     DEF IInv, NoIdBeyondNext, LastIsLogged, MarkersAreLogged, CommitsHaveLast
<1>8. IdInFlight'
  BY <1>2, <1>3, <1>4 DEF IdInFlight, Pruning, AfterLogging
<1>9. WriteAhead'
  BY <1>2, <1>3, <1>4, <1>5 DEF IInv, WriteAhead, Last
<1> QED  BY <1>6, <1>7, <1>8, <1>9 DEF IInv

(* State files are written and replaced under the id in flight only.       *)
LEMMA StateFileKeeps == IInv /\ (WriteDelta \/ WriteSnapshot \/ DropOther) => IInv'
<1> SUFFICES ASSUME IInv, WriteDelta \/ WriteSnapshot \/ DropOther PROVE IInv'
  OBVIOUS
<1>1. /\ TypeOK /\ batches \in Nat /\ fold \in FoldStates
      /\ PartialFunction(snapshots, FoldStates) /\ PartialFunction(deltas, Entries)
  BY DEF IInv, TypeOK
<1>2. /\ offsets' = offsets /\ finals' = finals /\ commits' = commits /\ sink' = sink
      /\ batches' = batches
      /\ pc' \in {"dropsnapshot", "dropdelta", "commit"}
  BY DEF WriteDelta, WriteSnapshot, DropOther, logs
<1>3. Last' = Last
  BY <1>2 DEF Last
<1>4. batches = Last + 1 /\ batches \in DOMAIN offsets
  BY DEF WriteDelta, WriteSnapshot, DropOther, IInv, IdInFlight, Pruning, AfterLogging
<1>5. [rows |-> delta, evicted |-> fold.evicted] \in Entries
  BY <1>1 DEF TypeOK, FoldStates, Entries
<1>6. /\ PartialFunction(snapshots', FoldStates) /\ DOMAIN snapshots' \subseteq DOMAIN snapshots \cup {batches}
      /\ PartialFunction(deltas', Entries) /\ DOMAIN deltas' \subseteq DOMAIN deltas \cup {batches}
  <2>1. CASE WriteDelta
    BY <1>1, <1>5, <2>1 DEF WriteDelta, Put, PartialFunction
  <2>2. CASE WriteSnapshot
    BY <1>1, <2>2 DEF WriteSnapshot, Put, PartialFunction
  <2>3. CASE DropOther
    BY <1>1, <2>3 DEF DropOther, Remove, Restrict, PartialFunction
  <2> QED  BY <2>1, <2>2, <2>3
<1>7. TypeOK'
  BY <1>1, <1>2, <1>6 DEF WriteDelta, WriteSnapshot, DropOther, TakenDelta, TypeOK, work, state,
                          retry, env
<1>8. NoIdBeyondNext' /\ LastIsLogged' /\ MarkersAreLogged' /\ CommitsHaveLast'
  BY <1>1, <1>2, <1>3, <1>4, <1>6, LastFacts
     DEF IInv, NoIdBeyondNext, LastIsLogged, MarkersAreLogged, CommitsHaveLast
<1>9. IdInFlight'
  BY <1>2, <1>3, <1>4 DEF IdInFlight, Pruning, AfterLogging
<1>10. WriteAhead'
  BY <1>2 DEF IInv, WriteAhead
<1> QED  BY <1>7, <1>8, <1>9, <1>10 DEF IInv

(* The commit moves the last committed id to the one in flight.            *)
LEMMA CommitMovesLast ==
    ASSUME IInv, Commit
    PROVE  Last' = batches /\ batches = Last + 1 /\ batches \in DOMAIN offsets
<1>1. batches = Last + 1 /\ batches \in DOMAIN offsets /\ batches \in Nat
  BY DEF Commit, IInv, TypeOK, IdInFlight, Pruning, AfterLogging
<1>2. commits' = commits \cup {batches}
  BY DEF Commit
<1>3. /\ commits \subseteq Nat
      /\ \A j \in commits : j <= Last
      /\ Last \in Int
  BY LastFacts DEF IInv, TypeOK
<1>4. /\ commits' \subseteq Int /\ batches \in commits'
      /\ \A j \in commits' : j <= batches
  <2> HIDE DEF Last
  <2> QED  BY <1>1, <1>2, <1>3
<1>5. Newest(commits') = batches
  BY <1>4, NewestIs
<1> QED  BY <1>1, <1>5 DEF Last, LastCommitted

(* So everything the sink holds is committed.                              *)
LEMMA CommitKeeps == IInv /\ Commit => IInv'
<1> SUFFICES ASSUME IInv, Commit PROVE IInv'
  OBVIOUS
<1>1. Last' = batches /\ batches = Last + 1 /\ batches \in DOMAIN offsets /\ batches \in Nat
  BY CommitMovesLast DEF IInv, TypeOK
<1>2. /\ offsets' = offsets /\ finals' = finals /\ snapshots' = snapshots /\ deltas' = deltas
      /\ sink' = sink /\ batches' = batches /\ commits' = commits \cup {batches}
      /\ pc' \in {"prunestate", "prunelogs"}
  BY DEF Commit, files
<1>3. TypeOK'
  BY <1>1, <1>2 DEF Commit, IInv, TypeOK, work, state, retry, env
<1>4. CommitsHaveLast'
  BY <1>1, <1>2, LastFacts DEF CommitsHaveLast, IInv, TypeOK
<1>5. NoIdBeyondNext' /\ LastIsLogged' /\ MarkersAreLogged'
  BY <1>1, <1>2, LastFacts DEF IInv, NoIdBeyondNext, LastIsLogged, MarkersAreLogged
<1>6. IdInFlight'
  BY <1>1, <1>2 DEF IdInFlight, Pruning, AfterLogging
<1>7. WriteAhead'
  <2>1. \A i \in DOMAIN sink : i \in 0..(Last + 1)
    BY DEF IInv, NoIdBeyondNext
  <2> QED  BY <1>1, <1>2, <2>1, LastFacts DEF WriteAhead, Last
<1> QED  BY <1>3, <1>4, <1>5, <1>6, <1>7 DEF IInv

(* A prune of the state directory only removes files.                      *)
LEMMA PruneStateKeeps == IInv /\ PruneState => IInv'
<1> SUFFICES ASSUME IInv, PruneState PROVE IInv'
  OBVIOUS
<1>1. /\ offsets' = offsets /\ finals' = finals /\ commits' = commits /\ sink' = sink
      /\ batches' = batches /\ pc' \in {"prunestate", "prunelogs"} /\ pc = "prunestate"
  BY DEF PruneState, logs
<1>2. Last' = Last
  BY <1>1 DEF Last
<1>3. PartialFunction(snapshots, FoldStates) /\ PartialFunction(deltas, Entries)
  BY DEF IInv, TypeOK
<1>4. /\ snapshots' = snapshots \/ \E i : snapshots' = Remove(snapshots, {i})
      /\ deltas' = deltas \/ \E i : deltas' = Remove(deltas, {i})
  BY DEF PruneState, files
<1>5. /\ PartialFunction(snapshots', FoldStates) /\ DOMAIN snapshots' \subseteq DOMAIN snapshots
      /\ PartialFunction(deltas', Entries) /\ DOMAIN deltas' \subseteq DOMAIN deltas
  BY <1>3, <1>4 DEF Remove, Restrict, PartialFunction
<1>6. TypeOK'
  BY <1>1, <1>5 DEF PruneState, IInv, TypeOK, work, state, retry, env
<1>7. NoIdBeyondNext' /\ LastIsLogged' /\ MarkersAreLogged' /\ CommitsHaveLast'
  BY <1>1, <1>2, <1>5 DEF IInv, NoIdBeyondNext, LastIsLogged, MarkersAreLogged, CommitsHaveLast
<1>8. IdInFlight'
  BY <1>1, <1>2 DEF IInv, IdInFlight, Pruning, AfterLogging
<1>9. WriteAhead'
  BY <1>1 DEF IInv, WriteAhead
<1> QED  BY <1>6, <1>7, <1>8, <1>9 DEF IInv

(* The id after a committed one.                                           *)
LEMMA NextEpochFacts ==
    ASSUME TypeOK, NextEpoch
    PROVE  /\ batches' = batches + 1 /\ batches' \in Nat /\ progressMark' \in Nat
           /\ pc' \in {"loop", "finalize", "done"}
BY DEF TypeOK, NextEpoch

(* A sweep of the offset log keeps the last committed row, and every id    *)
(* the sink may still need.                                                *)
LEMMA PruneLogsKeeps == IInv /\ PruneLogs => IInv'
<1> SUFFICES ASSUME IInv, PruneLogs PROVE IInv'
  OBVIOUS
<1>1. /\ commits' = commits /\ snapshots' = snapshots /\ deltas' = deltas /\ sink' = sink
      /\ pc = "prunelogs" /\ TypeOK
  BY DEF PruneLogs, files, IInv
<1>2. Last' = Last
  BY <1>1 DEF Last
<1>3. commits # {} /\ batches = Last /\ Last \in DOMAIN offsets /\ Last \in Int
  BY <1>1, LastFacts DEF IInv, IdInFlight, Pruning, LastIsLogged
<1>4. CASE batches - prunedThrough < PruneEvery
  <2>1. NextEpoch /\ prunedThrough' = prunedThrough /\ offsets' = offsets /\ finals' = finals
    BY <1>4 DEF PruneLogs
  <2>2. /\ batches' = batches + 1 /\ batches' \in Nat /\ progressMark' \in Nat
        /\ pc' \in {"loop", "finalize", "done"}
    BY <1>1, <2>1, NextEpochFacts
  <2>3. TypeOK'
    BY <1>1, <2>1, <2>2 DEF PruneLogs, TypeOK, work, state, env
  <2>4. IdInFlight'
    BY <1>2, <1>3, <2>2 DEF IdInFlight, Pruning, AfterLogging
  <2> QED  BY <1>1, <1>2, <2>1, <2>3, <2>4
           DEF IInv, NoIdBeyondNext, LastIsLogged, MarkersAreLogged, CommitsHaveLast, WriteAhead
<1>5. CASE ~ (batches - prunedThrough < PruneEvery)
  <2>1. /\ prunedThrough' = batches /\ batches' = batches /\ progressMark' = progressMark
        /\ offsets' = Remove(offsets, Superseded(DOMAIN offsets))
        /\ finals' = finals \ Superseded(finals)
        /\ pc' = "prunecommits"
    BY <1>5 DEF PruneLogs
  <2>2. PartialFunction(offsets, 0..N) /\ DOMAIN offsets \subseteq Nat
    BY <1>1 DEF TypeOK, PartialFunction
  <2>3. /\ PartialFunction(offsets', 0..N)
        /\ DOMAIN offsets' = {i \in DOMAIN offsets : ~ (i < batches)}
    BY <2>1, <2>2 DEF Remove, Restrict, PartialFunction, Superseded
  <2>4. finals' = {i \in finals : ~ (i < batches)}
    BY <2>1 DEF Superseded
  <2>5. TypeOK'
    BY <1>1, <2>1, <2>3, <2>4 DEF PruneLogs, TypeOK, work, state, env
  <2>6. IdInFlight'
    BY <1>1, <1>2, <1>3, <2>1 DEF IdInFlight, Pruning, AfterLogging
  <2>7. NoIdBeyondNext' /\ LastIsLogged' /\ MarkersAreLogged' /\ CommitsHaveLast'
    BY <1>1, <1>2, <1>3, <2>3, <2>4
       DEF IInv, NoIdBeyondNext, LastIsLogged, MarkersAreLogged, CommitsHaveLast
  <2>8. WriteAhead'
    BY <1>1, <1>2, <1>3, <2>3 DEF IInv, WriteAhead, Last
  <2> QED  BY <2>5, <2>6, <2>7, <2>8 DEF IInv
<1> QED  BY <1>4, <1>5

(* A sweep of the commit log keeps its last row.                           *)
LEMMA PruneCommitsKeepsLast ==
    ASSUME IInv, PruneCommits
    PROVE  /\ Last' = Last /\ Last \in commits' /\ commits' \subseteq commits
           /\ \A j \in commits' : j <= Last
<1>1. batches = Last /\ commits # {}
  BY DEF PruneCommits, IInv, IdInFlight, Pruning
<1>2. commits' = {i \in commits : ~ (i < batches)}
  BY DEF PruneCommits, Superseded
<1>3. /\ commits \subseteq Nat /\ Last \in commits /\ Last \in Int
      /\ \A j \in commits : j <= Last
  BY <1>1, LastFacts DEF IInv, TypeOK
<1>4. /\ commits' \subseteq Int /\ Last \in commits' /\ commits' \subseteq commits
      /\ \A j \in commits' : j <= Last
  <2>1. commits' \subseteq commits
    BY <1>2
  <2>2. commits' \subseteq Int /\ \A j \in commits' : j <= Last
    BY <1>3, <2>1
  <2>3. Last \in commits'
    BY <1>1, <1>2, <1>3
  <2> QED  BY <2>1, <2>2, <2>3
<1>5. Newest(commits') = Last
  <2> HIDE DEF Last
  <2> QED  BY <1>4, NewestIs
<1> QED  BY <1>4, <1>5 DEF Last, LastCommitted

(* The invariant survives the sweep of the commit log.                     *)
LEMMA PruneCommitsKeeps == IInv /\ PruneCommits => IInv'
<1> SUFFICES ASSUME IInv, PruneCommits PROVE IInv'
  OBVIOUS
<1>1. /\ offsets' = offsets /\ finals' = finals /\ snapshots' = snapshots /\ deltas' = deltas
      /\ sink' = sink /\ TypeOK /\ NextEpoch
  BY DEF PruneCommits, files, IInv
<1>2. /\ Last' = Last /\ Last \in commits' /\ commits' \subseteq commits
      /\ \A j \in commits' : j <= Last
  BY PruneCommitsKeepsLast
<1>3. batches = Last /\ commits # {}
  BY DEF PruneCommits, IInv, IdInFlight, Pruning
<1>4. /\ batches' = batches + 1 /\ batches' \in Nat /\ progressMark' \in Nat
      /\ pc' \in {"loop", "finalize", "done"}
  BY <1>1, NextEpochFacts
<1>5. TypeOK'
  BY <1>1, <1>2, <1>4 DEF PruneCommits, TypeOK, work, state, env
<1>6. CommitsHaveLast'
  BY <1>2 DEF CommitsHaveLast
<1>7. NoIdBeyondNext' /\ LastIsLogged' /\ MarkersAreLogged'
  BY <1>1, <1>2, <1>3 DEF IInv, NoIdBeyondNext, LastIsLogged, MarkersAreLogged
<1>8. IdInFlight'
  BY <1>2, <1>3, <1>4 DEF IdInFlight, Pruning, AfterLogging
<1>9. WriteAhead'
  BY <1>1, <1>2 DEF IInv, WriteAhead, Last
<1> QED  BY <1>5, <1>6, <1>7, <1>8, <1>9 DEF IInv

-----------------------------------------------------------------------------
(* A step of something else changes nothing.                               *)
LEMMA StutterKeeps == IInv /\ UNCHANGED vars => IInv'
<1> SUFFICES ASSUME IInv, UNCHANGED vars PROVE IInv'
  OBVIOUS
<1>1. UNCHANGED durable
  BY DEF vars
<1>2. TypeOK'
  BY DEF IInv, TypeOK, vars, engine, work, state, retry, durable, logs, files, env
<1>3. IdInFlight'
  BY <1>1, NothingDurableLast DEF IInv, IdInFlight, vars, engine
<1> QED  BY <1>1, <1>2, <1>3, NothingDurable

(* Every step of the specification keeps the invariant.                    *)
LEMMA StepKeeps == IInv /\ [Next]_vars => IInv'
BY ProduceKeeps, StartKeeps, VolatileStepKeeps, FailureKeeps, LoggingKeeps, MarkKeeps, SinkKeeps,
   StateFileKeeps, CommitKeeps, PruneStateKeeps, PruneLogsKeeps, PruneCommitsKeeps, StutterKeeps
   DEF Next, EngineStep

(* The inductive invariant holds in every reachable state.                 *)
THEOREM Invariance == Spec => []IInv
BY InitEstablishes, StepKeeps, PTL DEF Spec

(* In every reachable state of every instance the engine, the checkpoint   *)
(* and the sink have the shape their Python counterparts have; above all,  *)
(* the position recovery seeks to is a position of the source, and the     *)
(* fold it restores is a fold.                                             *)
THEOREM TypeCorrect == Spec => []TypeOK
<1>1. IInv => TypeOK
  BY DEF IInv
<1> QED  BY <1>1, Invariance, PTL

(* Write-ahead, for every source, window shape, delta interval and prune   *)
(* stride, through any number of crashes, faults, stops and restarts: what *)
(* the sink holds beyond the commit log is the one id recovery resumes     *)
(* under, and the offset log names it.                                     *)
THEOREM WriteAheadHolds == Spec => []WriteAhead
<1>1. IInv => WriteAhead
  BY DEF IInv
<1> QED  BY <1>1, Invariance, PTL
-----------------------------------------------------------------------------
(* The chain invariant.  It needs a restore point before the first fault:  *)
(* a rollback without one keeps the living fold, and the next write may    *)
(* then be a delta that no snapshot lies under.                            *)

(* HasBase says what restore_chain looks for.                              *)
LEMMA HasBaseIff ==
    ASSUME IInv
    PROVE  HasBase <=> BaseId(snapshots, Last) # NoBatch
<1>1. /\ Last \in Int /\ Last + 1 \in Int
      /\ DOMAIN snapshots \subseteq 0..(Last + 1) /\ DOMAIN deltas \subseteq 0..(Last + 1)
  BY LastFacts DEF IInv, NoIdBeyondNext
<1>2. /\ BaseId(snapshots, Last) # -1 =>
             BaseId(snapshots, Last) \in DOMAIN snapshots /\ BaseId(snapshots, Last) <= Last
      /\ \A i \in DOMAIN snapshots : i <= Last => i <= BaseId(snapshots, Last)
  BY <1>1, ChainFacts
<1> QED  BY <1>1, <1>2 DEF HasBase, NoBatch

(* A plan that restores state restores a snapshot.                         *)
LEMMA RestoreNeedsBase ==
    ASSUME IInv, BaseUnderDeltas, Plan.stateAt # NoBatch
    PROVE  HasBase
<1>1. \/ BaseId(snapshots, Last) # NoBatch
      \/ ChainDeltas(snapshots, deltas, Last) # {}
  BY DEF Plan, Recover, Last
<1>2. ChainDeltas(snapshots, deltas, Last) \subseteq DOMAIN deltas
  BY DEF ChainDeltas
<1> QED  BY <1>1, <1>2, HasBaseIff DEF BaseUnderDeltas

(* An entry worth writing is smaller than the fold.                        *)
LEMMA WorthyDeltaIsPartial ==
    ASSUME TypeOK, WorthADelta
    PROVE  ~ (Held(fold) \subseteq delta)
<1> SUFFICES ASSUME Held(fold) \subseteq delta PROVE FALSE
  OBVIOUS
<1>1. IsFiniteSet(delta)
  <2>1. IsFiniteSet(1..N)
    BY NAssumption, FS_Interval
  <2>2. delta \in SUBSET (1..N)
    BY DEF TypeOK, Rows
  <2> QED  BY <2>1, <2>2, FS_Subset
<1>2. Cardinality(Held(fold)) <= Cardinality(delta) /\ IsFiniteSet(Held(fold))
  BY <1>1, FS_Subset
<1>3. Cardinality(delta) \in Nat /\ Cardinality(Held(fold)) \in Nat /\ Cardinality(delta) # 0
  BY <1>1, <1>2, FS_CardinalityType, FS_EmptySet DEF WorthADelta
<1> QED  BY <1>2, <1>3 DEF WorthADelta

(* A new fold counts no row.                                               *)
LEMMA EmptyFoldHoldsNothing == Held(EmptyFold) = {}
BY DEF Held, EmptyFold, NoRows

(* Steps that touch no state file keep the chain's base.                   *)
LEMMA SameFiles ==
    ASSUME ChainInv, snapshots' = snapshots, deltas' = deltas, Last' = Last
    PROVE  (HasBase' <=> HasBase) /\ BaseUnderDeltas'
BY DEF ChainInv, HasBase, BaseUnderDeltas

(* A query that comes back holds an empty fold or one with a base.         *)
LEMMA StartBacked == ChainInv /\ Start => FoldBacked' /\ StatelessHasNoState'
<1> SUFFICES ASSUME ChainInv, Start PROVE FoldBacked' /\ StatelessHasNoState'
  OBVIOUS
<1>1. snapshots' = snapshots /\ deltas' = deltas /\ Last' = Last
  BY NothingDurableLast DEF Start, durable, files
<1>2. HasBase' <=> HasBase
  BY <1>1, SameFiles
<1>3. fold' = EmptyFold \/ Plan.stateAt # NoBatch
  BY DEF Start, Recovered
<1>4. Plan.stateAt # NoBatch => HasBase
  BY RestoreNeedsBase DEF ChainInv
<1>5. pc' \in {"loop", "replay"}
  BY DEF Start
<1>6. HasBase => Stateful
  BY DEF ChainInv, StatelessHasNoState, HasBase
<1>7. FoldBacked'
  BY <1>2, <1>3, <1>4, <1>5 DEF FoldBacked, Pruning
<1>8. StatelessHasNoState'
  BY <1>1, <1>3, <1>4, <1>5, <1>6 DEF ChainInv, StatelessHasNoState
<1> QED  BY <1>7, <1>8

(* So does a query that rolls back, as there is something to restore.      *)
LEMMA FailureBacked ==
    ASSUME ~ FaultsBeforeRestorePoint
    PROVE  ChainInv /\ (Crash \/ Fault) => FoldBacked' /\ StatelessHasNoState'
<1> SUFFICES ASSUME ChainInv, Crash \/ Fault PROVE FoldBacked' /\ StatelessHasNoState'
  OBVIOUS
<1>1. UNCHANGED durable
  BY DEF Crash, Fault
<1>2. snapshots' = snapshots /\ deltas' = deltas /\ Last' = Last
  BY <1>1, NothingDurableLast DEF durable, files
<1>3. HasBase' <=> HasBase
  BY <1>2, SameFiles
<1>4. CASE Die
  BY <1>2, <1>4 DEF Die, FoldBacked, Pruning, ChainInv, StatelessHasNoState
<1>5. CASE RollBack /\ HasRestorePoint
  <2>1. pc' = "loop" /\ fold' = RolledBack
    BY <1>5 DEF RollBack
  <2>2. CASE Stateful
    <3>1. HasBase
      BY <1>5, <2>2, RestoreNeedsBase DEF HasRestorePoint, ChainInv
    <3> QED  BY <1>3, <2>1, <2>2, <3>1 DEF FoldBacked, Pruning, StatelessHasNoState
  <2>3. CASE ~ Stateful
    <3>1. fold = EmptyFold /\ ~ HasBase
      BY <2>3 DEF ChainInv, StatelessHasNoState, HasBase
    <3>2. fold' = EmptyFold
      BY <2>1, <3>1, RestoreNeedsBase DEF RolledBack, ChainInv
    <3> QED  BY <1>2, <2>1, <2>3, <3>2 DEF FoldBacked, Pruning, ChainInv, StatelessHasNoState
  <2> QED  BY <2>2, <2>3
<1> QED  BY <1>4, <1>5 DEF Crash, Fault

(* The steps of the loop that leave the files and the fold alone.          *)
LEMMA PassingStepBacked ==
    ChainInv /\ (Produce \/ StopRequest \/ TestStop \/ Stage \/ Exhausted \/ Idle \/ RecordOffsets
                 \/ WriteSink \/ FinalizeNothing \/ FinalizeMark \/ Terminated \/ UNCHANGED vars
                 \/ PruneLogs \/ PruneCommits)
        => FoldBacked' /\ StatelessHasNoState' /\ BaseUnderDeltas'
<1> SUFFICES ASSUME ChainInv,
                    Produce \/ StopRequest \/ TestStop \/ Stage \/ Exhausted \/ Idle \/ RecordOffsets
                      \/ WriteSink \/ FinalizeNothing \/ FinalizeMark \/ Terminated
                      \/ UNCHANGED vars \/ PruneLogs \/ PruneCommits
             PROVE  FoldBacked' /\ StatelessHasNoState' /\ BaseUnderDeltas'
  OBVIOUS
<1>1. /\ snapshots' = snapshots /\ deltas' = deltas /\ fold' = fold /\ delta' = delta
      /\ PruneCommits \/ commits' = commits
  BY DEF Produce, StopRequest, TestStop, Stage, Exhausted, Idle, RecordOffsets, WriteSink,
         FinalizeNothing, FinalizeMark, Terminated, PruneLogs, PruneCommits, vars, engine, state,
         durable, logs, files
<1>2. Last' = Last
  BY <1>1, PruneCommitsKeepsLast DEF ChainInv, Last
<1>3. (HasBase' <=> HasBase) /\ BaseUnderDeltas'
  BY <1>1, <1>2, SameFiles
<1>4. \/ pc' = pc /\ batches' = batches
      \/ pc = "loop" /\ pc' \in {"finalize", "stage"}
      \/ pc = "stage" /\ pc' = "record"
      \/ pc = "record" /\ pc' = "fold"
      \/ pc = "record" /\ pc' = AfterPublish
      \/ pc = "sink" /\ pc' = AfterPublish
      \/ pc = "mark" /\ pc' = "sink"
      \/ pc = "finalize" /\ pc' = "done"
      \/ pc = "prunelogs" /\ pc' \in {"prunecommits", "loop", "finalize", "done"}
      \/ pc = "prunecommits" /\ pc' \in {"loop", "finalize", "done"}
  <2>1. NextEpoch => pc' \in {"loop", "finalize", "done"}
    BY NextEpochFacts DEF ChainInv, IInv
  <2> QED  BY <2>1 DEF Produce, StopRequest, TestStop, Stage, Exhausted, Idle, RecordOffsets,
              WriteSink, FinalizeNothing, FinalizeMark, Terminated, PruneLogs, PruneCommits, vars,
              engine
<1>5. AfterPublish = IF Stateful THEN "state" ELSE "commit"
  BY DEF AfterPublish
<1>6. fold = EmptyFold => Held(fold) \subseteq delta
  BY EmptyFoldHoldsNothing
<1>7. FoldBacked'
  BY <1>1, <1>3, <1>4, <1>5, <1>6 DEF FoldBacked, Pruning, ChainInv, StatelessHasNoState, Held
<1>8. StatelessHasNoState'
  BY <1>1, <1>4, <1>5 DEF ChainInv, StatelessHasNoState
<1> QED  BY <1>3, <1>7, <1>8

(* A push, and a flush: what the fold keeps beyond the new entry was there *)
(* before.                                                                 *)
LEMMA FoldStepBacked ==
    ChainInv /\ (Fold \/ ReplayFinalize \/ FinalizeRecord)
        => FoldBacked' /\ StatelessHasNoState' /\ BaseUnderDeltas'
<1> SUFFICES ASSUME ChainInv, Fold \/ ReplayFinalize \/ FinalizeRecord
             PROVE  FoldBacked' /\ StatelessHasNoState' /\ BaseUnderDeltas'
  OBVIOUS
<1>1. snapshots' = snapshots /\ deltas' = deltas /\ commits' = commits
  BY DEF Fold, ReplayFinalize, FinalizeRecord, durable, logs, files
<1>2. Last' = Last
  BY <1>1 DEF Last
<1>3. (HasBase' <=> HasBase) /\ BaseUnderDeltas'
  BY <1>1, <1>2, SameFiles
<1>4. fold # EmptyFold => HasBase
  BY DEF Fold, ReplayFinalize, FinalizeRecord, ChainInv, FoldBacked
<1>5. ~ Stateful => fold = EmptyFold
  BY DEF ChainInv, StatelessHasNoState
<1>6. ~ Stateful => fold' = fold
  BY DEF Fold, ReplayFinalize, FinalizeRecord, Push, Flushed, Stateful
<1>7. pc' \in {"sink", "mark"} \/ pc' = AfterPublish
  BY DEF Fold, ReplayFinalize, FinalizeRecord
<1>8. StatelessHasNoState'
  BY <1>1, <1>5, <1>6, <1>7 DEF ChainInv, StatelessHasNoState, AfterPublish
<1>9. Held(fold') \subseteq delta' \/ HasBase
  <2>1. SUFFICES ASSUME fold = EmptyFold PROVE Held(fold') \subseteq delta'
    BY <1>4
  <2>2. CASE Fold /\ Stateful
    <3>1. fold' = Push(EmptyFold, staged, position) /\ delta' = staged
      BY <2>1, <2>2 DEF Fold
    <3>2. \A r \in Rows : r \notin staged => Push(EmptyFold, staged, position).count[r] = 0
      BY <2>2, KindAssumption DEF Push, EmptyFold, Plus, OneEach, NoRows, Open, Stateful
    <3> QED  BY <3>1, <3>2 DEF Held
  <2>3. CASE ~ Stateful
    BY <1>6, <2>1, <2>3, EmptyFoldHoldsNothing
  <2>4. CASE ReplayFinalize \/ FinalizeRecord
    <3>1. fold' = EmptyFold
      BY <2>1, <2>4 DEF ReplayFinalize, FinalizeRecord, Flushed, EmptyFold
    <3> QED  BY <3>1, EmptyFoldHoldsNothing
  <2> QED  BY <2>2, <2>3, <2>4
<1>10. FoldBacked'
  BY <1>3, <1>5, <1>6, <1>7, <1>9 DEF FoldBacked, AfterPublish, Pruning, Held
<1> QED  BY <1>3, <1>8, <1>10

(* The state write of the id in flight: a delta only above a base.         *)
LEMMA StateFileBacked ==
    ChainInv /\ (WriteDelta \/ WriteSnapshot \/ DropOther)
        => FoldBacked' /\ StatelessHasNoState' /\ BaseUnderDeltas'
<1> SUFFICES ASSUME ChainInv, WriteDelta \/ WriteSnapshot \/ DropOther
             PROVE  FoldBacked' /\ StatelessHasNoState' /\ BaseUnderDeltas'
  OBVIOUS
<1>1. IInv /\ Stateful /\ TypeOK
  BY DEF ChainInv, IInv, StatelessHasNoState, WriteDelta, WriteSnapshot, DropOther
<1>2. Last' = Last /\ batches' = batches /\ fold' = fold
  BY DEF WriteDelta, WriteSnapshot, DropOther, Last, logs, state
<1>3. batches = Last + 1 /\ Last \in Int
  BY <1>1, LastFacts DEF IInv, IdInFlight, Pruning, WriteDelta, WriteSnapshot, DropOther
<1>4. CASE WriteDelta
  <2>1. HasBase
    BY <1>1, <1>4, WorthyDeltaIsPartial DEF WriteDelta, ChainInv, FoldBacked
  <2>2. snapshots' = snapshots /\ pc' = "dropsnapshot"
    BY <1>4 DEF WriteDelta
  <2>3. HasBase'
    BY <1>2, <2>1, <2>2 DEF HasBase
  <2> QED  BY <1>1, <2>2, <2>3 DEF FoldBacked, Pruning, StatelessHasNoState, BaseUnderDeltas
<1>5. CASE WriteSnapshot
  <2>1. /\ deltas' = deltas /\ DOMAIN snapshots \subseteq DOMAIN snapshots'
        /\ fold # EmptyFold => batches \in DOMAIN snapshots'
        /\ pc' \in {"commit", "dropdelta"}
    BY <1>5 DEF WriteSnapshot, Put
  <2>2. HasBase => HasBase'
    BY <1>2, <2>1 DEF HasBase
  <2> QED  BY <1>1, <1>2, <2>1, <2>2 DEF ChainInv, FoldBacked, Pruning, StatelessHasNoState, BaseUnderDeltas
<1>6. CASE DropOther
  <2>1. /\ DOMAIN deltas' \subseteq DOMAIN deltas
        /\ \A i \in DOMAIN snapshots : i # batches => i \in DOMAIN snapshots'
        /\ pc = "dropdelta" => snapshots' = snapshots
        /\ pc' = "commit" /\ pc \in {"dropsnapshot", "dropdelta"}
    BY <1>6 DEF DropOther, Remove, Restrict
  <2>2. HasBase => HasBase'
    BY <1>2, <1>3, <2>1 DEF HasBase
  <2> QED  BY <1>1, <1>2, <2>1, <2>2 DEF ChainInv, FoldBacked, Pruning, StatelessHasNoState, BaseUnderDeltas
<1> QED  BY <1>4, <1>5, <1>6

(* The commit makes the snapshot of its id a base.                         *)
LEMMA CommitBacked == ChainInv /\ Commit => FoldBacked' /\ StatelessHasNoState' /\ BaseUnderDeltas'
<1> SUFFICES ASSUME ChainInv, Commit PROVE FoldBacked' /\ StatelessHasNoState' /\ BaseUnderDeltas'
  OBVIOUS
<1>1. Last' = batches /\ batches = Last + 1 /\ Last \in Int
  BY CommitMovesLast, LastFacts DEF ChainInv
<1>2. /\ snapshots' = snapshots /\ deltas' = deltas /\ fold' = fold /\ pc = "commit"
      /\ pc' = IF Stateful THEN "prunestate" ELSE "prunelogs"
  BY DEF Commit, files, state
<1>3. DOMAIN snapshots \subseteq Int
  BY DEF ChainInv, IInv, TypeOK, PartialFunction
<1>4. HasBase \/ batches \in DOMAIN snapshots => HasBase'
  BY <1>1, <1>2, <1>3 DEF HasBase
<1> QED  BY <1>2, <1>4 DEF ChainInv, FoldBacked, Pruning, StatelessHasNoState, BaseUnderDeltas

-----------------------------------------------------------------------------
(* What a prune may remove.                                                *)

(* A file that a prune after the commit of b removes lies below the base   *)
(* of b, and is not part of b's chain.                                     *)
LEMMA DeadIsBelowBase ==
    ASSUME ChainInv, NEW i \in DeadIds(snapshots, deltas, Last)
    PROVE  HasBase /\ i < BaseId(snapshots, Last) /\ i \in Nat
<1>1. IInv /\ Last \in Int /\ BaseUnderDeltas
  BY LastFacts DEF ChainInv
<1>2. i \in DOMAIN snapshots \cup DOMAIN deltas /\ i < PruneFloor(snapshots, Last)
  BY DEF DeadIds
<1>3. i \in Nat
  BY <1>1, <1>2 DEF IInv, TypeOK, PartialFunction
<1>4. HasBase
  <2>1. SUFFICES ASSUME ~ HasBase PROVE FALSE
    OBVIOUS
  <2>2. PruneFloor(snapshots, Last) = Last
    BY <1>1, <2>1, HasBaseIff DEF PruneFloor
  <2> QED  BY <1>1, <1>2, <1>3, <2>1, <2>2 DEF HasBase, BaseUnderDeltas
<1> QED  BY <1>1, <1>2, <1>3, <1>4, HasBaseIff DEF PruneFloor

(* A prune keeps the base.                                                 *)
LEMMA PruneStateBacked ==
    ChainInv /\ PruneState => FoldBacked' /\ StatelessHasNoState' /\ BaseUnderDeltas'
<1> SUFFICES ASSUME ChainInv, PruneState
             PROVE  FoldBacked' /\ StatelessHasNoState' /\ BaseUnderDeltas'
  OBVIOUS
<1>1. /\ Last' = Last /\ batches' = batches /\ fold' = fold /\ pc = "prunestate"
      /\ pc' \in {"prunestate", "prunelogs"}
  BY DEF PruneState, Last, logs, state
<1>2. IInv /\ batches = Last /\ Stateful /\ Last \in Int
  BY <1>1, LastFacts DEF ChainInv, IInv, IdInFlight, Pruning, StatelessHasNoState
<1>3. DOMAIN deltas' \subseteq DOMAIN deltas
  BY DEF PruneState, files, Remove, Restrict
<1>4. HasBase => HasBase'
  <2> SUFFICES ASSUME HasBase PROVE HasBase'
    OBVIOUS
  <2>1. CASE snapshots' = snapshots
    BY <1>1, <2>1 DEF HasBase
  <2>2. CASE \E i \in DeadIds(snapshots, deltas, batches) : snapshots' = Remove(snapshots, {i})
    <3>1. PICK i \in DeadIds(snapshots, deltas, Last) : snapshots' = Remove(snapshots, {i})
      BY <1>2, <2>2
    <3>2. i < BaseId(snapshots, Last) /\ i \in Nat
      BY DeadIsBelowBase
    <3>3. BaseId(snapshots, Last) \in DOMAIN snapshots /\ BaseId(snapshots, Last) <= Last
      <4>1. /\ Last + 1 \in Int /\ DOMAIN snapshots \subseteq 0..(Last + 1)
            /\ DOMAIN deltas \subseteq 0..(Last + 1)
        BY <1>2 DEF IInv, NoIdBeyondNext
      <4> QED  BY <1>2, <4>1, ChainFacts, HasBaseIff DEF NoBatch
    <3>4. BaseId(snapshots, Last) \in DOMAIN snapshots'
      BY <3>1, <3>2, <3>3 DEF Remove, Restrict
    <3> QED  BY <1>1, <3>3, <3>4 DEF HasBase
  <2> QED  BY <2>1, <2>2 DEF PruneState, files
<1> QED  BY <1>1, <1>2, <1>3, <1>4 DEF ChainInv, FoldBacked, Pruning, StatelessHasNoState, BaseUnderDeltas

(* An empty checkpoint satisfies the chain invariant.                      *)
LEMMA InitBacked == Init => ChainInv
<1> SUFFICES ASSUME Init PROVE ChainInv
  OBVIOUS
<1>1. IInv
  BY InitEstablishes
<1> QED  BY <1>1 DEF Init, ChainInv, BaseUnderDeltas, FoldBacked, Pruning, StatelessHasNoState

(* Every step keeps the chain invariant.                                   *)
LEMMA ChainStep ==
    ASSUME ~ FaultsBeforeRestorePoint
    PROVE  ChainInv /\ [Next]_vars => ChainInv'
<1> SUFFICES ASSUME ChainInv, [Next]_vars PROVE ChainInv'
  OBVIOUS
<1>1. IInv'
  BY StepKeeps DEF ChainInv
<1>2. CASE Start
  <2>1. BaseUnderDeltas'
    BY <1>2, SameFiles, NothingDurableLast DEF Start, durable, files
  <2> QED  BY <1>1, <1>2, <2>1, StartBacked DEF ChainInv
<1>3. CASE Crash \/ Fault
  <2>1. BaseUnderDeltas'
    BY <1>3, SameFiles, NothingDurableLast DEF Crash, Fault, durable, files
  <2> QED  BY <1>1, <1>3, <2>1, FailureBacked DEF ChainInv
<1>4. CASE ~ (Start \/ Crash \/ Fault)
  <2>1. FoldBacked' /\ StatelessHasNoState' /\ BaseUnderDeltas'
    BY <1>4, PassingStepBacked, FoldStepBacked, StateFileBacked, CommitBacked, PruneStateBacked
       DEF Next, EngineStep
  <2> QED  BY <1>1, <2>1 DEF ChainInv
<1> QED  BY <1>2, <1>3, <1>4

-----------------------------------------------------------------------------
(* The restart point moves with the commit row and with nothing else.      *)

(* A step leaves alone every file the chain of the last commit is made of. *)
SameChain ==
    LET base  == BaseId(snapshots, Last)
        chain == ChainDeltas(snapshots, deltas, Last)
    IN  /\ BaseId(snapshots', Last) = base
        /\ ChainDeltas(snapshots', deltas', Last) = chain
        /\ base # NoBatch => snapshots'[base] = snapshots[base]
        /\ \A d \in chain : deltas'[d] = deltas[d]

(* It is enough to agree on the files from the base to the last commit and *)
(* to add none at or below it.                                             *)
LEMMA AgreementFromBase ==
    ASSUME IInv,
           \A i \in DOMAIN snapshots' : i <= Last => i \in DOMAIN snapshots,
           \A i \in DOMAIN snapshots : BaseId(snapshots, Last) <= i /\ i <= Last =>
               i \in DOMAIN snapshots' /\ snapshots'[i] = snapshots[i],
           \A d \in DOMAIN deltas' : d <= Last => d \in DOMAIN deltas,
           \A d \in DOMAIN deltas : BaseId(snapshots, Last) < d /\ d <= Last =>
               d \in DOMAIN deltas' /\ deltas'[d] = deltas[d]
    PROVE  SameChain
<1> DEFINE base == BaseId(snapshots, Last)
           S    == {i \in DOMAIN snapshots : i <= Last}
           T    == {i \in DOMAIN snapshots' : i <= Last}
<1>1. /\ Last \in Int /\ Last + 1 \in Int
      /\ DOMAIN snapshots \subseteq 0..(Last + 1) /\ DOMAIN deltas \subseteq 0..(Last + 1)
  BY LastFacts DEF IInv, NoIdBeyondNext
<1>2. /\ base \in Int /\ base >= -1
      /\ base # -1 => base \in DOMAIN snapshots /\ base <= Last
      /\ \A i \in DOMAIN snapshots : i <= Last => i <= base
  BY <1>1, ChainFacts
<1>3. T \subseteq S
  OBVIOUS
<1>4. S \subseteq Int /\ T \subseteq Int
  BY <1>1, <1>3
<1>5. Newest(T) = base
  <2>1. CASE base = -1
    <3>1. S = {}
      BY <1>1, <1>2, <2>1
    <3>2. T = {}
      BY <1>3, <3>1
    <3> QED  BY <2>1, <3>2 DEF Newest, NoBatch
  <2>2. CASE base # -1
    <3>1. base \in T
      BY <1>2, <2>2
    <3>2. \A j \in T : j <= base
      BY <1>2, <1>3
    <3> HIDE DEF base, T
    <3> QED  BY <1>3, <1>4, <3>1, <3>2, NewestIs
  <2> QED  BY <2>1, <2>2
<1>6. BaseId(snapshots', Last) = base
  BY <1>5 DEF BaseId
<1>7. ChainDeltas(snapshots', deltas', Last) = ChainDeltas(snapshots, deltas, Last)
  BY <1>6 DEF ChainDeltas
<1>8. base # NoBatch => snapshots'[base] = snapshots[base]
  BY <1>2 DEF NoBatch
<1>9. \A d \in ChainDeltas(snapshots, deltas, Last) : deltas'[d] = deltas[d]
  BY DEF ChainDeltas
<1> QED  BY <1>6, <1>7, <1>8, <1>9 DEF SameChain

(* A step that keeps the last commit, its chain and its position keeps     *)
(* everything a recovery would do.                                         *)
LEMMA SameRecovery ==
    ASSUME IInv, IInv', Last' = Last, SameChain,
           commits # {} => offsets'[Last] = offsets[Last]
    PROVE  Recovered' = Recovered /\ (Plan.start)' = Plan.start /\ (Plan.seek)' = Plan.seek
<1> DEFINE base   == BaseId(snapshots, Last)
           chain  == ChainDeltas(snapshots, deltas, Last)
           empty  == base = NoBatch /\ chain = {}
           from   == IF base = NoBatch THEN EmptyFold ELSE snapshots[base]
           fromP  == IF base = NoBatch THEN EmptyFold ELSE snapshots'[base]
           bound  == IF chain = {} THEN from.evicted ELSE deltas[Newest(chain)].evicted
           boundP == IF chain = {} THEN fromP.evicted ELSE deltas'[Newest(chain)].evicted
           times  == [r \in Rows |-> Cardinality({e \in chain : r \in deltas[e].rows})]
           timesP == [r \in Rows |-> Cardinality({e \in chain : r \in deltas'[e].rows})]
<1>1. /\ LastCommitted(commits) = Last /\ LastCommitted(commits') = Last /\ Last \in Int
      /\ Last # -1 <=> commits # {}
      /\ Last # -1 <=> commits' # {}
  <2>1. /\ commits \subseteq Nat /\ commits' \subseteq Nat
        /\ commits # {} => \E c \in commits : \A j \in commits : j <= c
        /\ commits' # {} => \E c \in commits' : \A j \in commits' : j <= c
    BY DEF IInv, TypeOK, CommitsHaveLast
  <2>2. /\ commits = {} => LastCommitted(commits) = -1
        /\ commits # {} => LastCommitted(commits) \in commits
        /\ LastCommitted(commits) \in Int
    BY <2>1, LastCommittedIs
  <2>3. /\ commits' = {} => LastCommitted(commits') = -1
        /\ commits' # {} => LastCommitted(commits') \in commits'
    BY <2>1, LastCommittedIs
  <2> QED  BY <2>1, <2>2, <2>3 DEF Last
<1>2. /\ Last # -1 => Last \in DOMAIN offsets /\ Last \in DOMAIN offsets'
      /\ DOMAIN offsets \subseteq Nat /\ DOMAIN offsets' \subseteq Nat
  BY <1>1 DEF IInv, LastIsLogged, TypeOK, PartialFunction
<1>3. /\ Fresh(offsets, commits) <=> Last = -1
      /\ Fresh(offsets', commits') <=> Last = -1
  <2> HIDE DEF Last
  <2> QED  BY <1>1, <1>2 DEF Fresh, NoBatch
<1>4. (Plan.start)' = Plan.start
  BY <1>1, <1>3 DEF Plan, Recover, ResumeBatch
<1>5. (Plan.seek)' = Plan.seek
  BY <1>1, <1>2, <1>3 DEF Plan, Recover, SeekBatch, NoBatch
<1>6. /\ BaseId(snapshots', Last) = base
      /\ ChainDeltas(snapshots', deltas', Last) = chain
      /\ base # NoBatch => snapshots'[base] = snapshots[base]
      /\ \A d \in chain : deltas'[d] = deltas[d]
  BY DEF SameChain
<1>7. /\ Plan.stateAt = IF Last = -1 \/ empty THEN NoBatch ELSE Last
      /\ (Plan.stateAt)' = IF Last = -1 \/ empty THEN NoBatch ELSE Last
  BY <1>1, <1>3, <1>6 DEF Plan, Recover
<1>8. fromP = from
  BY <1>6
<1>9. boundP = bound
  <2>1. chain # {} => Newest(chain) \in chain
    <3>1. /\ Last + 1 \in Int
          /\ DOMAIN snapshots \subseteq 0..(Last + 1) /\ DOMAIN deltas \subseteq 0..(Last + 1)
      BY <1>1 DEF IInv, NoIdBeyondNext
    <3> QED  BY <1>1, <3>1, ChainFacts
  <2> HIDE DEF chain, from, fromP
  <2> QED  BY <1>6, <1>8, <2>1
<1>10. timesP = times
  <2>1. \A r \in Rows : {e \in chain : r \in deltas'[e].rows} = {e \in chain : r \in deltas[e].rows}
    <3> HIDE DEF chain
    <3> QED  BY <1>6
  <2> HIDE DEF chain
  <2> QED  BY <2>1
<1>11. RestoreChain(Last) = [count |-> DropEvicted(Plus(from.count, times), bound), evicted |-> bound]
  BY DEF RestoreChain
<1>12. RestoreChain(Last)' = [count |-> DropEvicted(Plus(fromP.count, timesP), boundP), evicted |-> boundP]
  BY <1>6 DEF RestoreChain
<1>13. RestoreChain(Last)' = RestoreChain(Last)
  <2> HIDE DEF from, fromP, times, timesP, bound, boundP
  <2> QED  BY <1>8, <1>9, <1>10, <1>11, <1>12
<1>14. Recovered' = Recovered
  <2>1. CASE Last = -1 \/ empty
    BY <1>7, <2>1 DEF Recovered
  <2>2. CASE ~ (Last = -1 \/ empty)
    <3>1. Plan.stateAt = Last /\ (Plan.stateAt)' = Last /\ Last # NoBatch
      BY <1>7, <2>2 DEF NoBatch
    <3>2. Recovered = RestoreChain(Last)
      BY <3>1 DEF Recovered
    <3>3. Recovered' = RestoreChain(Last)'
      BY <3>1 DEF Recovered
    <3> QED  BY <1>13, <3>2, <3>3
  <2> QED  BY <2>1, <2>2
<1> QED  BY <1>4, <1>5, <1>14

(* Every step but the commit leaves the chain of the last commit alone.    *)
LEMMA OnlyCommitMovesChain ==
    ASSUME ChainInv, [Next]_vars, ~ Commit
    PROVE  SameChain
<1>1. IInv /\ Last \in Int
  BY LastFacts DEF ChainInv
<1>2. CASE snapshots' = snapshots /\ deltas' = deltas
  BY <1>1, <1>2, AgreementFromBase
<1>3. CASE WriteDelta \/ WriteSnapshot \/ DropOther
  <2>1. batches = Last + 1
    BY <1>1, <1>3 DEF IInv, IdInFlight, Pruning, WriteDelta, WriteSnapshot, DropOther
  <2>2. \A i : i # batches =>
           /\ i \in DOMAIN snapshots' <=> i \in DOMAIN snapshots
           /\ i \in DOMAIN snapshots => snapshots'[i] = snapshots[i]
    BY <1>3 DEF WriteDelta, WriteSnapshot, DropOther, Put, Remove, Restrict
  <2>3. \A i : i # batches =>
           /\ i \in DOMAIN deltas' <=> i \in DOMAIN deltas
           /\ i \in DOMAIN deltas => deltas'[i] = deltas[i]
    BY <1>3 DEF WriteDelta, WriteSnapshot, DropOther, Put, Remove, Restrict
  <2>4. \A i : i <= Last => i # batches
    BY <1>1, <2>1
  <2> QED  BY <1>1, <2>2, <2>3, <2>4, AgreementFromBase
<1>4. CASE PruneState
  <2>1. batches = Last
    BY <1>1, <1>4 DEF PruneState, IInv, IdInFlight, Pruning
  <2>2. CASE \E i \in DeadIds(snapshots, deltas, batches) :
                /\ snapshots' = Remove(snapshots, {i})
                /\ deltas' = IF i \in DOMAIN snapshots THEN deltas ELSE Remove(deltas, {i})
    <3>1. PICK i \in DeadIds(snapshots, deltas, Last) :
                /\ snapshots' = Remove(snapshots, {i})
                /\ deltas' = IF i \in DOMAIN snapshots THEN deltas ELSE Remove(deltas, {i})
      BY <2>1, <2>2
    <3>2. i < BaseId(snapshots, Last) /\ i \in Nat
      BY DeadIsBelowBase
    <3>3. /\ DOMAIN snapshots' \subseteq DOMAIN snapshots /\ DOMAIN deltas' \subseteq DOMAIN deltas
          /\ \A j \in DOMAIN snapshots : j # i => j \in DOMAIN snapshots' /\ snapshots'[j] = snapshots[j]
          /\ \A j \in DOMAIN deltas : j # i => j \in DOMAIN deltas' /\ deltas'[j] = deltas[j]
      BY <3>1 DEF Remove, Restrict
    <3>4. BaseId(snapshots, Last) \in Int
      <4>1. /\ Last + 1 \in Int
            /\ DOMAIN snapshots \subseteq 0..(Last + 1) /\ DOMAIN deltas \subseteq 0..(Last + 1)
        BY <1>1 DEF IInv, NoIdBeyondNext
      <4> QED  BY <1>1, <4>1, ChainFacts
    <3>5. \A j : BaseId(snapshots, Last) <= j \/ BaseId(snapshots, Last) < j => j # i
      BY <3>2, <3>4
    <3> QED  BY <1>1, <3>3, <3>5, AgreementFromBase
  <2> QED  BY <1>2, <1>4, <2>2 DEF PruneState, files
<1>5. CASE ~ (WriteDelta \/ WriteSnapshot \/ DropOther \/ PruneState)
  <2>1. snapshots' = snapshots /\ deltas' = deltas
    BY <1>5 DEF Next, EngineStep, Produce, Start, StopRequest, TestStop, Stage, Exhausted, Idle,
           RecordOffsets, Fold, WriteSink, PruneLogs, PruneCommits, FinalizeNothing,
           FinalizeRecord, FinalizeMark, ReplayFinalize, Crash, Fault, Terminated, vars, durable,
           files
  <2> QED  BY <1>2, <2>1
<1> QED  BY <1>3, <1>4, <1>5

(* Every step but the commit keeps the position of the last commit.        *)
LEMMA OnlyCommitMovesPosition ==
    ASSUME ChainInv, [Next]_vars, ~ Commit, commits # {}
    PROVE  offsets'[Last] = offsets[Last]
<1>1. IInv /\ Last \in Int /\ Last \in DOMAIN offsets
  BY LastFacts DEF ChainInv, IInv, LastIsLogged
<1>2. CASE RecordOffsets \/ FinalizeRecord
  <2>1. batches = Last + 1
    BY <1>1, <1>2 DEF IInv, IdInFlight, Pruning, RecordOffsets, FinalizeRecord
  <2> QED  BY <1>1, <1>2, <2>1 DEF RecordOffsets, FinalizeRecord, Logged, Put
<1>3. CASE PruneLogs
  <2>1. batches = Last
    BY <1>1, <1>3 DEF IInv, IdInFlight, Pruning, PruneLogs
  <2>2. Last \notin Superseded(DOMAIN offsets)
    BY <1>1, <2>1 DEF Superseded
  <2> QED  BY <1>1, <1>3, <2>2 DEF PruneLogs, Remove, Restrict
<1>4. CASE ~ (RecordOffsets \/ FinalizeRecord \/ PruneLogs)
  <2>1. offsets' = offsets
    BY <1>4 DEF Next, EngineStep, Produce, Start, StopRequest, TestStop, Stage, Exhausted, Idle,
           Fold, WriteSink, WriteDelta, WriteSnapshot, DropOther, PruneState, PruneCommits,
           FinalizeNothing, FinalizeMark, ReplayFinalize, Crash, Fault, Terminated, vars, durable,
           logs
  <2> QED  BY <2>1
<1> QED  BY <1>2, <1>3, <1>4

(* The commit row is the only thing that moves the restart point, for      *)
(* every instance in which no fault precedes the first commit recovery can *)
(* restore from: no state write, prune, sweep, crash or restart changes    *)
(* the id, the position or the fold a recovery would resume with.  The     *)
(* proviso is needed: a rollback that finds nothing to restore keeps the   *)
(* living fold, the next state write may be a delta no snapshot lies       *)
(* under, and the prune after the commit that follows removes it.          *)
THEOREM CommitDecidesHolds ==
    ASSUME ~ FaultsBeforeRestorePoint
    PROVE  Spec => CommitDecides
<1>1. ChainInv /\ [Next]_vars => ChainInv'
  BY ChainStep
<1>2. ChainInv /\ ChainInv' /\ [Next]_vars =>
        [LastCommitted(commits') = LastCommitted(commits) =>
           /\ Recovered' = Recovered
           /\ (Plan.start)' = Plan.start
           /\ (Plan.seek)' = Plan.seek]_vars
  <2> SUFFICES ASSUME ChainInv, ChainInv', [Next]_vars,
                      LastCommitted(commits') = LastCommitted(commits)
               PROVE  /\ Recovered' = Recovered
                      /\ (Plan.start)' = Plan.start
                      /\ (Plan.seek)' = Plan.seek
    OBVIOUS
  <2>1. Last' = Last
    BY DEF Last
  <2>2. ~ Commit
    BY <2>1, CommitMovesLast, LastFacts DEF ChainInv
  <2>3. SameChain
    BY <2>2, OnlyCommitMovesChain
  <2>4. commits # {} => offsets'[Last] = offsets[Last]
    BY <2>2, OnlyCommitMovesPosition
  <2> QED  BY <2>1, <2>3, <2>4, SameRecovery DEF ChainInv
<1> QED  BY <1>1, <1>2, InitBacked, PTL DEF Spec, CommitDecides

-----------------------------------------------------------------------------
(* The sizes of the logs.                                                  *)

(* A part of a bounded set of ids is no larger than it, and one more id    *)
(* adds at most one.                                                       *)
LEMMA CountsOfIds ==
    ASSUME NEW n \in Int, NEW T, T \subseteq 0..n
    PROVE  /\ IsFiniteSet(T) /\ Cardinality(T) \in Nat
           /\ \A S : S \subseteq T => Cardinality(S) \in Nat /\ Cardinality(S) <= Cardinality(T)
           /\ \A x : Cardinality(T \cup {x}) \in Nat /\ Cardinality(T \cup {x}) <= Cardinality(T) + 1
           /\ \A x : x \in T => Cardinality(T \ {x}) = Cardinality(T) - 1
<1>1. IsFiniteSet(T)
  <2>1. IsFiniteSet(0..n)
    BY FS_Interval
  <2> QED  BY <2>1, FS_Subset
<1>2. Cardinality(T) \in Nat
  BY <1>1, FS_CardinalityType
<1>3. ASSUME NEW S, S \subseteq T
      PROVE  Cardinality(S) \in Nat /\ Cardinality(S) <= Cardinality(T)
  <2>1. IsFiniteSet(S) /\ Cardinality(S) <= Cardinality(T)
    BY <1>1, <1>3, FS_Subset
  <2> QED  BY <2>1, FS_CardinalityType
<1>4. ASSUME NEW x
      PROVE  Cardinality(T \cup {x}) \in Nat /\ Cardinality(T \cup {x}) <= Cardinality(T) + 1
  <2>1. Cardinality(T \cup {x}) = IF x \in T THEN Cardinality(T) ELSE Cardinality(T) + 1
    BY <1>1, FS_AddElement
  <2> QED  BY <1>2, <2>1
<1>5. ASSUME NEW x, x \in T PROVE Cardinality(T \ {x}) = Cardinality(T) - 1
  BY <1>1, <1>5, FS_RemoveElement
<1> QED  BY <1>1, <1>2, <1>3, <1>4, <1>5

(* Ids from a to b are at most as many as the interval has.                *)
LEMMA CountOfRange ==
    ASSUME NEW a \in Nat, NEW b \in Nat, a <= b, NEW S, S \subseteq a..b
    PROVE  Cardinality(S) \in Nat /\ Cardinality(S) <= b - a + 1
<1>1. IsFiniteSet(a..b) /\ Cardinality(a..b) = b - a + 1
  BY FS_Interval
<1>2. IsFiniteSet(S) /\ Cardinality(S) <= Cardinality(a..b)
  BY <1>1, FS_Subset
<1> QED  BY <1>1, <1>2, FS_CardinalityType

(* A crash and a fault each add one to the allowance.                      *)
LEMMA SpareGrows ==
    ASSUME crashes \in Nat, faults \in Nat,
           (crashes' = crashes + 1 /\ faults' = faults) \/ (crashes' = crashes /\ faults' = faults + 1)
    PROVE  Spare' = Spare + 1 /\ Spare' >= Spare
BY BoundAssumption DEF Spare

(* Where the rows of the logs can be.                                      *)
LEMMA LogFacts ==
    ASSUME IInv
    PROVE  /\ Last \in Int /\ Last >= -1 /\ Last + 1 \in Int /\ batches \in Nat /\ prunedThrough \in Nat
           /\ DOMAIN offsets \subseteq 0..(Last + 1) /\ commits \subseteq 0..(Last + 1)
           /\ Spare \in Nat /\ Spare >= PruneEvery /\ PruneEvery \in Nat /\ PruneEvery >= 1
           /\ pc \in Pruning => batches = Last /\ Last \in DOMAIN offsets /\ Last \in commits
<1>1. /\ TypeOK /\ commits \subseteq Nat /\ crashes \in Nat /\ faults \in Nat
  BY DEF IInv, TypeOK
<1>2. Last \in Int /\ Last >= -1 /\ \A j \in commits : j <= Last
  BY LastFacts
<1>3. commits \subseteq 0..(Last + 1)
  <2> HIDE DEF Last
  <2> QED  BY <1>1, <1>2
<1>4. Spare \in Nat /\ Spare >= PruneEvery /\ PruneEvery \in Nat /\ PruneEvery >= 1
  BY <1>1, BoundAssumption DEF Spare
<1>5. pc \in Pruning => batches = Last /\ Last \in DOMAIN offsets /\ Last \in commits
  BY LastFacts DEF IInv, IdInFlight, LastIsLogged
<1> QED  BY <1>1, <1>2, <1>3, <1>4, <1>5 DEF TypeOK, IInv, NoIdBeyondNext

(* Steps that touch no log and are no part of a prune, a crash included:   *)
(* it gives up the sweep it was about to do, and is itself counted.        *)
LEMMA QuietLogs ==
    ASSUME IInv, LogsInv, UNCHANGED <<offsets, commits>>, Spare' \in Nat,
           \/ UNCHANGED <<pc, batches, prunedThrough>> /\ Spare' = Spare
           \/ /\ pc' \notin Pruning /\ Spare' >= Spare
              /\ prunedThrough' = 0 \/ UNCHANGED prunedThrough
              /\ pc \notin Pruning \/ (Spare' = Spare + 1 /\ prunedThrough' = 0)
           \/ pc = "prunestate" /\ pc' \in Pruning \ {"prunecommits"} /\ UNCHANGED prunedThrough /\ Spare' = Spare
    PROVE  LogsInv'
<1>0. /\ Last \in Int /\ Last >= -1 /\ Last + 1 \in Int /\ prunedThrough \in Nat
      /\ DOMAIN offsets \subseteq 0..(Last + 1) /\ commits \subseteq 0..(Last + 1)
      /\ Spare \in Nat /\ Last' = Last
  BY LogFacts DEF Last
<1>2. CASE UNCHANGED <<pc, batches, prunedThrough>> /\ Spare' = Spare
  BY <1>0, <1>2 DEF LogsInv
<1>3. CASE /\ pc' \notin Pruning /\ Spare' >= Spare
           /\ prunedThrough' = 0 \/ UNCHANGED prunedThrough
           /\ pc \notin Pruning \/ (Spare' = Spare + 1 /\ prunedThrough' = 0)
  <2>1. /\ prunedThrough' <= Last + 1
        /\ \A i \in DOMAIN offsets : i >= prunedThrough'
        /\ \A i \in commits : i >= prunedThrough'
    <3>1. CASE prunedThrough' = 0
      <4>1. 0 <= Last + 1 /\ (\A i \in DOMAIN offsets : i >= 0) /\ \A i \in commits : i >= 0
        BY <1>0
      <4> QED  BY <3>1, <4>1
    <3>2. CASE prunedThrough' = prunedThrough /\ pc \notin Pruning
      BY <3>2 DEF LogsInv, Pruning
    <3> QED  BY <1>3, <3>1, <3>2
  <2>2. Cardinality(DOMAIN offsets \ {Last + 1}) <= Spare' /\ Cardinality(commits) <= Spare'
    <3>1. /\ Cardinality(DOMAIN offsets \ {Last + 1}) \in Nat /\ Cardinality(commits) \in Nat
          /\ Cardinality(DOMAIN offsets) \in Nat
          /\ Cardinality(DOMAIN offsets \ {Last + 1}) <= Cardinality(DOMAIN offsets)
      BY <1>0, CountsOfIds
    <3>2. CASE pc \notin Pruning
      <4>1. Cardinality(DOMAIN offsets \ {Last + 1}) <= Spare /\ Cardinality(commits) <= Spare
        BY <3>2 DEF LogsInv
      <4> QED  BY <1>0, <1>3, <3>1, <4>1
    <3>3. CASE pc \in Pruning
      <4>1. Cardinality(DOMAIN offsets) <= Spare + 1 /\ Cardinality(commits) <= Spare + 1
        BY <3>3 DEF LogsInv
      <4> QED  BY <1>0, <1>3, <3>1, <3>3, <4>1
    <3> QED  BY <3>2, <3>3
  <2>3. pc' # "prunecommits"
    BY <1>3 DEF Pruning
  <2> QED  BY <1>0, <1>3, <2>1, <2>2, <2>3 DEF LogsInv
<1>4. CASE pc = "prunestate" /\ pc' \in Pruning \ {"prunecommits"} /\ UNCHANGED prunedThrough /\ Spare' = Spare
  BY <1>0, <1>4 DEF LogsInv, Pruning
<1> QED  BY <1>2, <1>3, <1>4

(* A write-ahead adds only the row of the id in flight.                    *)
LEMMA RecordLogs ==
    ASSUME IInv, LogsInv, RecordOffsets \/ FinalizeRecord
    PROVE  LogsInv'
<1>0. /\ Last \in Int /\ Last + 1 \in Int /\ prunedThrough \in Nat
      /\ pc \notin Pruning /\ pc' \notin Pruning /\ batches = Last + 1
      /\ UNCHANGED <<commits, prunedThrough, crashes, faults>> /\ DOMAIN offsets' = DOMAIN offsets \cup {batches}
  BY LogFacts DEF RecordOffsets, FinalizeRecord, IInv, IdInFlight, Pruning, AfterPublish, Logged, Put, env
<1>1. Last' = Last /\ Spare' = Spare
  BY <1>0 DEF Last, Spare
<1>2. DOMAIN offsets' \ {Last + 1} = DOMAIN offsets \ {Last + 1}
  BY <1>0
<1>3. \A i \in DOMAIN offsets' : i >= prunedThrough
  BY <1>0 DEF LogsInv
<1>4. pc' # "prunecommits" /\ pc # "prunecommits"
  BY <1>0 DEF Pruning
<1> QED  BY <1>0, <1>1, <1>2, <1>3, <1>4 DEF LogsInv

(* A commit adds its row to both counts.                                   *)
LEMMA CommitLogs ==
    ASSUME IInv, LogsInv, Commit
    PROVE  LogsInv'
<1>0. /\ Last \in Int /\ Last >= -1 /\ Last + 1 \in Int /\ prunedThrough \in Nat /\ Spare \in Nat
      /\ DOMAIN offsets \subseteq 0..(Last + 1) /\ commits \subseteq 0..(Last + 1)
  BY LogFacts
<1>1. /\ pc \notin Pruning /\ pc' \in Pruning \ {"prunecommits"} /\ pc # "prunecommits"
      /\ UNCHANGED <<offsets, batches, prunedThrough, crashes, faults>> /\ commits' = commits \cup {batches}
  BY DEF Commit, Pruning, env
<1>2. Last' = Last + 1 /\ batches = Last + 1
  BY CommitMovesLast
<1>3. Spare' = Spare
  BY <1>1 DEF Spare
<1>4. /\ prunedThrough <= Last + 1
      /\ \A i \in DOMAIN offsets : i >= prunedThrough
      /\ \A i \in commits : i >= prunedThrough
      /\ Cardinality(DOMAIN offsets \ {Last + 1}) <= Spare /\ Cardinality(commits) <= Spare
  BY <1>1 DEF LogsInv
<1>5. Cardinality(commits') <= Spare + 1
  <2>1. Cardinality(commits') \in Nat /\ Cardinality(commits') <= Cardinality(commits) + 1 /\ Cardinality(commits) \in Nat
    BY <1>0, <1>1, CountsOfIds
  <2> QED  BY <1>0, <1>4, <2>1
<1>6. Cardinality(DOMAIN offsets) <= Spare + 1
  <2>1. Cardinality(DOMAIN offsets) \in Nat
    BY <1>0, CountsOfIds
  <2>2. CASE Last + 1 \in DOMAIN offsets
    <3>1. Cardinality(DOMAIN offsets \ {Last + 1}) = Cardinality(DOMAIN offsets) - 1
      BY <1>0, <2>2, CountsOfIds
    <3> QED  BY <1>0, <1>4, <2>1, <3>1
  <2>3. CASE Last + 1 \notin DOMAIN offsets
    <3>1. DOMAIN offsets \ {Last + 1} = DOMAIN offsets
      BY <2>3
    <3> QED  BY <1>0, <1>4, <2>1, <3>1
  <2> QED  BY <2>2, <2>3
<1>7. prunedThrough <= (Last + 1) + 1 /\ \A i \in commits' : i >= prunedThrough
  BY <1>0, <1>1, <1>2, <1>4
<1> QED  BY <1>0, <1>1, <1>2, <1>3, <1>4, <1>5, <1>6, <1>7 DEF LogsInv

(* A sweep that is not due finds few rows; one that is leaves one row.     *)
LEMMA PruneLogsLogs ==
    ASSUME IInv, LogsInv, PruneLogs
    PROVE  LogsInv'
<1>0. /\ Last \in Int /\ Last >= -1 /\ Last + 1 \in Int /\ prunedThrough \in Nat
      /\ DOMAIN offsets \subseteq 0..(Last + 1) /\ commits \subseteq 0..(Last + 1)
      /\ Spare \in Nat /\ Spare >= PruneEvery /\ PruneEvery \in Nat /\ PruneEvery >= 1
      /\ batches = Last /\ Last \in DOMAIN offsets /\ Last \in commits /\ Last \in Nat
      /\ pc = "prunelogs" /\ UNCHANGED <<commits, crashes, faults>> /\ TypeOK
  BY LogFacts DEF PruneLogs, Pruning, env, IInv, TypeOK, PartialFunction
<1>1. Last' = Last /\ Spare' = Spare
  BY <1>0 DEF Last, Spare
<1>2. /\ \A i \in DOMAIN offsets : i >= prunedThrough
      /\ \A i \in commits : i >= prunedThrough
      /\ DOMAIN offsets \subseteq 0..Last
      /\ Cardinality(DOMAIN offsets) <= Spare + 1 /\ Cardinality(commits) <= Spare + 1
  BY <1>0 DEF LogsInv, Pruning
<1>3. \A j \in commits : j <= Last
  BY <1>0, LastFacts
<1>4. CASE batches - prunedThrough < PruneEvery
  <2>1. UNCHANGED <<prunedThrough, offsets>> /\ pc' \in {"loop", "finalize", "done"} /\ pc' \notin Pruning
    BY <1>0, <1>4, NextEpochFacts DEF PruneLogs, Pruning
  <2>2. prunedThrough <= Last /\ DOMAIN offsets \subseteq prunedThrough..Last /\ commits \subseteq prunedThrough..Last
    BY <1>0, <1>2, <1>3
  <2>3. /\ Cardinality(commits) \in Nat /\ Cardinality(commits) <= Last - prunedThrough + 1
        /\ Cardinality(DOMAIN offsets \ {Last + 1}) \in Nat
        /\ Cardinality(DOMAIN offsets \ {Last + 1}) <= Last - prunedThrough + 1
    BY <1>0, <2>2, CountOfRange
  <2>4. Cardinality(commits) <= Spare /\ Cardinality(DOMAIN offsets \ {Last + 1}) <= Spare
    BY <1>0, <1>4, <2>3
  <2>5. pc' # "prunecommits" /\ prunedThrough <= Last + 1
    BY <1>0, <2>1, <2>2
  <2> QED  BY <1>0, <1>1, <1>2, <2>1, <2>4, <2>5 DEF LogsInv
<1>5. CASE ~ (batches - prunedThrough < PruneEvery)
  <2>1. /\ prunedThrough' = Last /\ batches' = batches /\ pc' = "prunecommits"
        /\ offsets' = Remove(offsets, Superseded(DOMAIN offsets))
    BY <1>0, <1>5 DEF PruneLogs
  <2>2. DOMAIN offsets' = {i \in DOMAIN offsets : ~ (i < Last)}
    BY <1>0, <2>1 DEF Remove, Restrict, Superseded
  <2>3. DOMAIN offsets' \subseteq DOMAIN offsets /\ \A i \in DOMAIN offsets' : i >= Last
    BY <1>0, <2>2
  <2>4. Cardinality(DOMAIN offsets') <= Spare + 1
    <3>1. Cardinality(DOMAIN offsets') \in Nat /\ Cardinality(DOMAIN offsets') <= Cardinality(DOMAIN offsets)
          /\ Cardinality(DOMAIN offsets) \in Nat
      BY <1>0, <2>3, CountsOfIds
    <3> QED  BY <1>0, <1>2, <3>1
  <2>5. pc' \in Pruning /\ Last <= Last + 1 /\ DOMAIN offsets' \subseteq 0..Last
    BY <1>0, <1>2, <2>1, <2>3 DEF Pruning
  <2> QED  BY <1>0, <1>1, <1>2, <2>1, <2>3, <2>4, <2>5 DEF LogsInv
<1> QED  BY <1>4, <1>5

(* The second half of a sweep leaves one commit row.                       *)
LEMMA PruneCommitsLogs ==
    ASSUME IInv, LogsInv, PruneCommits
    PROVE  LogsInv'
<1>0. /\ Last \in Int /\ Last >= -1 /\ prunedThrough \in Nat
      /\ Spare \in Nat /\ Spare >= 1
      /\ batches = Last /\ Last \in DOMAIN offsets /\ Last \in Nat
      /\ pc = "prunecommits" /\ UNCHANGED <<offsets, prunedThrough, crashes, faults>> /\ TypeOK
  BY LogFacts DEF PruneCommits, Pruning, env, IInv, TypeOK, PartialFunction
<1>1. /\ Last' = Last /\ commits' \subseteq commits /\ \A j \in commits' : j <= Last
  BY PruneCommitsKeepsLast
<1>2. Spare' = Spare /\ pc' \in {"loop", "finalize", "done"} /\ pc' \notin Pruning
  BY <1>0, NextEpochFacts DEF Spare, PruneCommits, Pruning
<1>3. prunedThrough = Last /\ DOMAIN offsets \subseteq Last..Last
  BY <1>0 DEF LogsInv, Pruning
<1>4. commits' \subseteq Last..Last
  <2>1. commits' = {i \in commits : ~ (i < batches)} /\ commits \subseteq Nat
    BY <1>0 DEF PruneCommits, Superseded, TypeOK
  <2>2. ASSUME NEW i \in commits' PROVE i \in Last..Last
    <3>1. i \in Nat /\ ~ (i < Last) /\ i <= Last
      BY <1>0, <1>1, <2>1
    <3> QED  BY <1>0, <3>1
  <2> QED  BY <2>2
<1>5. /\ Cardinality(commits') \in Nat /\ Cardinality(commits') <= Last - Last + 1
      /\ Cardinality(DOMAIN offsets \ {Last + 1}) \in Nat
      /\ Cardinality(DOMAIN offsets \ {Last + 1}) <= Last - Last + 1
  <2>1. DOMAIN offsets \ {Last + 1} \subseteq Last..Last /\ Last \in Nat /\ Last <= Last
    BY <1>0, <1>3
  <2> QED  BY <1>4, <2>1, CountOfRange
<1>6. Cardinality(commits') <= Spare /\ Cardinality(DOMAIN offsets \ {Last + 1}) <= Spare
  BY <1>0, <1>5
<1>7. pc' # "prunecommits" /\ prunedThrough <= Last + 1 /\ \A i \in commits' : i >= prunedThrough
  BY <1>0, <1>2, <1>3, <1>4
<1> QED  BY <1>0, <1>1, <1>2, <1>3, <1>6, <1>7 DEF LogsInv

(* Every step keeps the counts of log rows.                                *)
LEMMA LogsStep == IInv /\ LogsInv /\ [Next]_vars => LogsInv'
<1> SUFFICES ASSUME IInv, LogsInv, [Next]_vars PROVE LogsInv'
  OBVIOUS
<1>0. crashes \in Nat /\ faults \in Nat /\ Spare \in Nat
  BY LogFacts DEF IInv, TypeOK
<1>1. CASE RecordOffsets \/ FinalizeRecord
  BY <1>1, RecordLogs
<1>2. CASE Commit
  BY <1>2, CommitLogs
<1>3. CASE PruneLogs
  BY <1>3, PruneLogsLogs
<1>4. CASE PruneCommits
  BY <1>4, PruneCommitsLogs
<1>5. CASE PruneState
  <2>1. /\ UNCHANGED <<offsets, commits, prunedThrough, crashes, faults>>
        /\ pc = "prunestate" /\ pc' \in Pruning \ {"prunecommits"}
    BY <1>5 DEF PruneState, logs, env, Pruning
  <2>2. Spare' = Spare
    BY <2>1 DEF Spare
  <2> QED  BY <1>0, <2>1, <2>2, QuietLogs
<1>6. CASE Crash \/ Fault
  <2>1. /\ UNCHANGED <<offsets, commits>> /\ pc' \notin Pruning
        /\ prunedThrough' = 0 \/ UNCHANGED prunedThrough
        /\ pc \notin Pruning \/ prunedThrough' = 0
    BY <1>6 DEF Crash, Fault, Die, RollBack, durable, logs, Pruning
  <2>2. (crashes' = crashes + 1 /\ faults' = faults) \/ (crashes' = crashes /\ faults' = faults + 1)
    BY <1>6 DEF Crash, Fault
  <2>3. Spare' = Spare + 1 /\ Spare' >= Spare
    BY <1>0, <2>2, SpareGrows
  <2> QED  BY <1>0, <2>1, <2>3, QuietLogs
<1>7. CASE Produce \/ StopRequest \/ Terminated \/ Idle \/ UNCHANGED vars
  <2>1. UNCHANGED <<offsets, commits, pc, batches, prunedThrough, crashes, faults>>
    BY <1>7 DEF Produce, StopRequest, Terminated, Idle, vars, engine, durable, logs, env
  <2>2. Spare' = Spare
    BY <2>1 DEF Spare
  <2> QED  BY <1>0, <2>1, <2>2, QuietLogs
<1>8. CASE Start \/ TestStop \/ Stage \/ Exhausted \/ Fold \/ WriteSink \/ WriteDelta \/ WriteSnapshot \/ DropOther
             \/ FinalizeNothing \/ FinalizeMark \/ ReplayFinalize
  <2>1. /\ UNCHANGED <<offsets, commits, crashes, faults>> /\ pc \notin Pruning /\ pc' \notin Pruning
        /\ prunedThrough' = 0 \/ UNCHANGED prunedThrough
    BY <1>8 DEF Start, TestStop, Stage, Exhausted, Fold, WriteSink, WriteDelta, WriteSnapshot, DropOther,
                FinalizeNothing, FinalizeMark, ReplayFinalize, durable, logs, env, Pruning, AfterPublish
  <2>2. Spare' = Spare /\ Spare' >= Spare
    BY <1>0, <2>1 DEF Spare
  <2> QED  BY <1>0, <2>1, <2>2, QuietLogs
<1> QED  BY <1>1, <1>2, <1>3, <1>4, <1>5, <1>6, <1>7, <1>8 DEF Next, EngineStep

(* However often a query dies and restarts, its offset and commit logs     *)
(* hold at most the sweep's stride, the row in flight and one row for each *)
(* death: a restart, whose store has forgotten when it swept, sweeps after *)
(* its first commit (prune_logs).                                          *)
THEOREM LogsBoundedHolds == Spec => []LogsBounded
<1>1. Init => IInv /\ LogsInv
  <2> SUFFICES ASSUME Init PROVE IInv /\ LogsInv
    OBVIOUS
  <2>1. IInv /\ Spare \in Nat
    BY InitEstablishes, LogFacts
  <2>2. /\ offsets = <<>> /\ commits = {} /\ pc = "down" /\ prunedThrough = 0 /\ DOMAIN offsets = {}
    BY DEF Init
  <2>3. Last = -1
    BY <2>2 DEF Last, LastCommitted, Newest, NoBatch
  <2>4. DOMAIN offsets \ {Last + 1} = {} /\ Cardinality({}) = 0
    BY <2>2, FS_EmptySet
  <2> QED  BY <2>1, <2>2, <2>3, <2>4 DEF LogsInv, Pruning
<1>2. IInv /\ LogsInv /\ [Next]_vars => (IInv /\ LogsInv)'
  BY StepKeeps, LogsStep
<1>3. IInv /\ LogsInv => LogsBounded
  <2> SUFFICES ASSUME IInv, LogsInv PROVE LogsBounded
    OBVIOUS
  <2>1. /\ Last \in Int /\ Last + 1 \in Int /\ DOMAIN offsets \subseteq 0..(Last + 1) /\ commits \subseteq 0..(Last + 1)
        /\ Spare \in Nat /\ PruneEvery \in Nat /\ crashes \in Nat /\ faults \in Nat
    BY LogFacts DEF IInv, TypeOK
  <2>2. Cardinality(commits) \in Nat /\ Cardinality(DOMAIN offsets) \in Nat
    BY <2>1, CountsOfIds
  <2>3. Cardinality(DOMAIN offsets) <= Spare + 1 /\ Cardinality(commits) <= Spare + 1
    <3>1. CASE pc \in Pruning
      BY <3>1 DEF LogsInv
    <3>2. CASE pc \notin Pruning
      <4>1. Cardinality(DOMAIN offsets \ {Last + 1}) <= Spare /\ Cardinality(commits) <= Spare
        BY <3>2 DEF LogsInv
      <4>2. \/ Cardinality(DOMAIN offsets \ {Last + 1}) = Cardinality(DOMAIN offsets) - 1
            \/ DOMAIN offsets \ {Last + 1} = DOMAIN offsets
        BY <2>1, CountsOfIds
      <4> QED  BY <2>1, <2>2, <4>1, <4>2
    <3> QED  BY <3>1, <3>2
  <2> QED  BY <2>1, <2>2, <2>3 DEF LogsBounded, Spare
<1> QED  BY <1>1, <1>2, <1>3, PTL DEF Spec

-----------------------------------------------------------------------------
(* The length of the chain and the size of the state directory.            *)

(* The ids of the state files are bounded, and so are their numbers.       *)
LEMMA FileFacts ==
    ASSUME IInv
    PROVE  /\ Last \in Int /\ Last >= -1 /\ Last + 1 \in Int /\ batches \in Nat
           /\ DOMAIN snapshots \subseteq 0..(Last + 1) /\ DOMAIN deltas \subseteq 0..(Last + 1)
           /\ Cardinality(DOMAIN snapshots) \in Nat /\ Cardinality(DOMAIN deltas) \in Nat
           /\ Chain \subseteq DOMAIN deltas /\ Cardinality(Chain) \in Nat
           /\ deltasWritten \in Nat /\ DeltaInterval \in Nat /\ crashes \in Nat /\ faults \in Nat
<1>1. /\ Last \in Int /\ Last >= -1 /\ Last + 1 \in Int
      /\ DOMAIN snapshots \subseteq 0..(Last + 1) /\ DOMAIN deltas \subseteq 0..(Last + 1)
  BY LastFacts DEF IInv, NoIdBeyondNext
<1>2. Chain \subseteq DOMAIN deltas
  BY DEF Chain, ChainDeltas
<1>3. Cardinality(DOMAIN snapshots) \in Nat /\ Cardinality(DOMAIN deltas) \in Nat /\ Cardinality(Chain) \in Nat
  BY <1>1, <1>2, CountsOfIds
<1> QED  BY <1>1, <1>2, <1>3, BoundAssumption DEF IInv, TypeOK

(* Every step but the commit keeps the base and the chain.                 *)
LEMMA NonCommitKeeps ==
    ASSUME ChainInv, ChainInv', [Next]_vars, ~ Commit
    PROVE  Last' = Last /\ (HasBase' <=> HasBase) /\ Chain' = Chain
<1>1. Last' = Last
  <2>1. PruneCommits \/ commits' = commits
    BY DEF Next, EngineStep, Produce, Start, StopRequest, TestStop, Stage, Exhausted, Idle,
           RecordOffsets, Fold, WriteSink, WriteDelta, WriteSnapshot, DropOther, PruneState, PruneLogs,
           FinalizeNothing, FinalizeRecord, FinalizeMark, ReplayFinalize, Crash, Fault, Terminated,
           vars, durable, logs
  <2> QED  BY <2>1, PruneCommitsKeepsLast DEF ChainInv, Last
<1>2. BaseId(snapshots', Last) = BaseId(snapshots, Last) /\ ChainDeltas(snapshots', deltas', Last) = Chain
  BY OnlyCommitMovesChain DEF SameChain, Chain
<1>3. /\ Last \in Int /\ Last + 1 \in Int /\ DOMAIN snapshots \subseteq 0..(Last + 1)
      /\ DOMAIN deltas \subseteq 0..(Last + 1) /\ DOMAIN deltas' \subseteq 0..(Last + 1)
      /\ DOMAIN snapshots' \subseteq 0..(Last + 1)
  BY <1>1, LastFacts DEF ChainInv, IInv, NoIdBeyondNext
<1>4. HasBase' <=> BaseId(snapshots', Last) # -1
  <2>1. /\ BaseId(snapshots', Last) # -1 =>
               BaseId(snapshots', Last) \in DOMAIN snapshots' /\ BaseId(snapshots', Last) <= Last
        /\ \A i \in DOMAIN snapshots' : i <= Last => i <= BaseId(snapshots', Last)
    BY <1>3, ChainFacts
  <2>2. HasBase' <=> \E i \in DOMAIN snapshots' : i <= Last
    BY <1>1 DEF HasBase
  <2> QED  BY <1>3, <2>1, <2>2
<1>5. HasBase <=> BaseId(snapshots, Last) # -1
  BY HasBaseIff DEF ChainInv, NoBatch
<1> QED  BY <1>1, <1>2, <1>4, <1>5 DEF Chain

(* A plan restores the chain exactly when there is one.                    *)
LEMMA PlanRestores ==
    ASSUME ChainInv
    PROVE  /\ HasBase => Plan.stateAt = Last /\ Plan.stateAt # NoBatch
           /\ Plan.stateAt # NoBatch => HasBase /\ Plan.stateAt = Last
           /\ Plan.stateAt = NoBatch => Chain = {}
           /\ ChainLength = Cardinality(Chain)
<1>1. IInv /\ BaseUnderDeltas
  BY DEF ChainInv
<1>2. Plan.stateAt = IF Fresh(offsets, commits) \/ (BaseId(snapshots, Last) = NoBatch /\ Chain = {})
                     THEN NoBatch ELSE Last
  BY DEF Plan, Recover, Last, Chain
<1>3. Fresh(offsets, commits) <=> commits = {}
  BY <1>1, LastFacts DEF Fresh, Last, NoBatch, IInv, LastIsLogged
<1>4. HasBase => commits # {} /\ Last # NoBatch
  <2>1. SUFFICES ASSUME NEW i \in DOMAIN snapshots, i <= Last PROVE commits # {} /\ Last # NoBatch
    BY DEF HasBase
  <2>2. i \in Nat /\ Last \in Int /\ (commits = {} => Last = -1)
    BY <1>1, LastFacts DEF IInv, TypeOK, PartialFunction
  <2> QED  BY <2>1, <2>2 DEF NoBatch
<1>5. HasBase <=> BaseId(snapshots, Last) # NoBatch
  BY <1>1, HasBaseIff
<1>6. ~ HasBase => Chain = {}
  BY <1>1, FileFacts DEF BaseUnderDeltas
<1>7. ChainLength = Cardinality(Chain)
  BY DEF ChainLength, Chain, Last
<1> QED  BY <1>2, <1>3, <1>4, <1>5, <1>6, <1>7

(* A chain of pushed folds restores a pushed fold.                         *)
LEMMA PushedRestores ==
    ASSUME ChainInv, FilesPushed, HasBase
    PROVE  Pushed(RestoreChain(Last))
<1> DEFINE base  == BaseId(snapshots, Last)
           chain == ChainDeltas(snapshots, deltas, Last)
           bound == IF chain = {} THEN snapshots[base].evicted ELSE deltas[Newest(chain)].evicted
           times == [r \in Rows |-> Cardinality({e \in chain : r \in deltas[e].rows})]
<1>1. IInv /\ Last \in Int /\ Last + 1 \in Int /\ DOMAIN snapshots \subseteq 0..(Last + 1)
      /\ DOMAIN deltas \subseteq 0..(Last + 1) /\ Stateful
  BY FileFacts DEF ChainInv, StatelessHasNoState, HasBase
<1>2. base # NoBatch /\ base \in DOMAIN snapshots /\ chain \subseteq DOMAIN deltas
      /\ (chain # {} => Newest(chain) \in chain)
  BY <1>1, ChainFacts, HasBaseIff DEF NoBatch
<1>3. Pushed(snapshots[base]) /\ BoundOf(bound)
  BY <1>2 DEF FilesPushed, Pushed
<1>4. RestoreChain(Last) = [count |-> DropEvicted(Plus(snapshots[base].count, times), bound), evicted |-> bound]
  BY <1>2 DEF RestoreChain
<1>5. CASE Kind = "windowed"
  <2>1. bound # 0
    BY <1>3, <1>5 DEF BoundOf
  <2>2. RestoreChain(Last).evicted = bound
    BY <1>4
  <2>3. RestoreChain(Last) # EmptyFold
    BY <2>1, <2>2 DEF EmptyFold
  <2> HIDE DEF bound
  <2> QED  BY <1>3, <2>2, <2>3 DEF Pushed
<1>6. CASE Kind = "complete"
  <2>1. bound = 0 /\ snapshots[base].evicted = 0 /\ snapshots[base] # EmptyFold
    BY <1>3, <1>6 DEF BoundOf, Pushed
  <2>2. snapshots[base] \in FoldStates
    BY <1>1, <1>2 DEF IInv, TypeOK, PartialFunction
  <2>3. PICK r \in Rows : snapshots[base].count[r] # 0
    <3>1. snapshots[base].count # NoRows
      BY <2>1, <2>2 DEF EmptyFold, FoldStates
    <3>2. snapshots[base].count \in [Rows -> Nat]
      BY <2>2 DEF FoldStates
    <3> QED  BY <3>1, <3>2 DEF NoRows
  <2>4. times[r] \in Nat /\ snapshots[base].count[r] \in Nat
    <3>1. {e \in chain : r \in deltas[e].rows} \subseteq 0..(Last + 1)
      BY <1>1, <1>2
    <3> HIDE DEF chain
    <3>2. Cardinality({e \in chain : r \in deltas[e].rows}) \in Nat
      BY <1>1, <3>1, CountOfIds
    <3> QED  BY <2>2, <3>2 DEF FoldStates
  <2>5. ClosesAt[r] > 0
    <3>1. ClosesAt[r] \in Nat /\ ClosesAt[r] >= r /\ r \in 1..N
      BY ClosesAtAssumption DEF Rows
    <3> QED  BY <3>1, NAssumption
  <2>6. RestoreChain(Last).count[r] = snapshots[base].count[r] + times[r] /\ RestoreChain(Last).evicted = 0
    <3> HIDE DEF times, bound, base
    <3> QED  BY <1>4, <2>1, <2>5 DEF DropEvicted, Open, Plus
  <2>7. RestoreChain(Last).count[r] # 0
    <3> HIDE DEF times, base
    <3> QED  BY <2>3, <2>4, <2>6
  <2>8. EmptyFold.count[r] = 0
    BY DEF EmptyFold, NoRows
  <2> QED  BY <1>6, <2>6, <2>7, <2>8 DEF Pushed, BoundOf
<1> QED  BY <1>1, <1>5, <1>6, KindAssumption DEF Stateful

(* Steps of the loop that leave the fold and the files alone.              *)
LEMMA PassingPushed ==
    ASSUME ChainInv, ChainInv', FilesPushed, EpochPushed, [Next]_vars,
           \/ Produce \/ StopRequest \/ TestStop \/ Stage \/ Exhausted \/ Idle \/ RecordOffsets
           \/ WriteSink \/ FinalizeNothing \/ FinalizeMark \/ Terminated \/ UNCHANGED vars
           \/ PruneLogs \/ PruneCommits
    PROVE  FilesPushed' /\ EpochPushed'
<1>0. ~ Commit /\ TypeOK
  BY DEF Produce, StopRequest, TestStop, Stage, Exhausted, Idle, RecordOffsets, WriteSink, Commit,
         FinalizeNothing, FinalizeMark, Terminated, PruneLogs, PruneCommits, vars, engine, state,
         durable, logs, files, ChainInv, IInv, env
<1>1. Last' = Last /\ (HasBase' <=> HasBase)
  BY <1>0, NonCommitKeeps
<1>2. snapshots' = snapshots /\ deltas' = deltas /\ fold' = fold
  BY DEF Produce, StopRequest, TestStop, Stage, Exhausted, Idle, RecordOffsets, WriteSink,
         FinalizeNothing, FinalizeMark, Terminated, PruneLogs, PruneCommits, vars, engine, state,
         durable, files
<1>3. HasBase => Stateful
  BY DEF ChainInv, StatelessHasNoState, HasBase
<1>4. NextEpoch => (pc' = "loop" => epoch # "drain") /\ pc' \in {"loop", "finalize", "done"}
  BY <1>0 DEF NextEpoch, TypeOK
<1>5. \/ pc' = pc /\ UNCHANGED <<epoch, staged, position>>
      \/ pc = "loop" /\ pc' \in {"finalize", "stage"}
      \/ pc = "stage" /\ pc' = "record" /\ epoch' \in {"data", "drain"}
      \/ pc = "record" /\ pc' = "fold" /\ epoch = "data" /\ UNCHANGED <<epoch, staged, position>>
      \/ pc = "record" /\ pc' = AfterPublish /\ epoch # "data" /\ UNCHANGED epoch
      \/ pc = "sink" /\ pc' = AfterPublish /\ UNCHANGED epoch
      \/ pc = "mark" /\ pc' = "sink"
      \/ pc = "finalize" /\ pc' = "done"
      \/ pc = "prunelogs" /\ pc' = "prunecommits" /\ UNCHANGED epoch
      \/ pc \in {"prunelogs", "prunecommits"} /\ pc' \in {"loop", "finalize", "done"} /\ (pc' = "loop" => epoch # "drain")
  BY <1>4 DEF Produce, StopRequest, TestStop, Stage, Exhausted, Idle, RecordOffsets,
              WriteSink, FinalizeNothing, FinalizeMark, Terminated, PruneLogs, PruneCommits, vars,
              engine, work
<1>6. AfterPublish = IF Stateful THEN "state" ELSE "commit"
  BY DEF AfterPublish
<1>7. pc = "stage" /\ pc' = "record" /\ epoch' = "data" => staged' # {} /\ position' > 0
  <2> SUFFICES ASSUME Stage PROVE staged' # {} /\ position' > 0
    BY DEF Produce, StopRequest, TestStop, Stage, Exhausted, Idle, RecordOffsets, WriteSink,
           FinalizeNothing, FinalizeMark, Terminated, PruneLogs, PruneCommits, vars, engine
  <2>1. PICK e \in Polls[position] : position' = e /\ staged' = {r \in Rows : position < r /\ r <= e}
    BY DEF Stage, Readable
  <2>2. position \in 0..N /\ e \in 1..N /\ e > position
    BY <1>0, PollsAssumption DEF TypeOK, Rows
  <2>3. e \in staged'
    BY <2>1, <2>2, NAssumption DEF Rows
  <2> QED  BY <2>1, <2>2, <2>3, NAssumption
<1>8. FilesPushed'
  BY <1>2, <1>5, <1>6, <1>7 DEF FilesPushed
<1>9. \A i \in finals' : i \in finals \/ (FinalizeMark /\ HasBase)
  BY DEF Produce, StopRequest, TestStop, Stage, Exhausted, Idle, RecordOffsets, WriteSink,
         FinalizeNothing, FinalizeMark, Terminated, PruneLogs, PruneCommits, vars, engine, durable, logs,
         EpochPushed
<1>10. pc' = "replay" => finals' = finals
  BY <1>5, <1>6 DEF Produce, StopRequest, TestStop, Stage, Exhausted, Idle, RecordOffsets, WriteSink,
         FinalizeNothing, FinalizeMark, Terminated, PruneLogs, PruneCommits, vars, engine, durable, logs
<1>11. pc \in {"record"} /\ epoch # "data" => epoch = "drain"
  BY DEF FilesPushed
<1>12. EpochPushed'
  <2>1. pc' \in {"loop", "stage", "record"} \cup AfterLogging => (HasBase => fold # EmptyFold)
    BY <1>3, <1>5, <1>6 DEF EpochPushed, AfterLogging, Pruning
  <2>2. pc' \in {"sink", "state", "dropsnapshot", "dropdelta", "commit"} \cup Pruning =>
           (Stateful /\ epoch' # "drain" => fold # EmptyFold)
    BY <1>5, <1>6, <1>11 DEF EpochPushed, AfterLogging, Pruning
  <2>3. Last + 1 \in finals' \/ pc' = "mark" => HasBase
    BY <1>5, <1>6, <1>9 DEF EpochPushed
  <2>4. pc' = "replay" => Last + 1 \in finals'
    BY <1>5, <1>6, <1>10 DEF EpochPushed
  <2> QED  BY <1>1, <1>2, <2>1, <2>2, <2>3, <2>4 DEF EpochPushed
<1> QED  BY <1>8, <1>12

(* A push of rows, and a flush of a pushed fold.                           *)
LEMMA FoldPushed ==
    ASSUME ChainInv, ChainInv', FilesPushed, EpochPushed, [Next]_vars, Fold \/ ReplayFinalize \/ FinalizeRecord
    PROVE  FilesPushed' /\ EpochPushed'
<1>0. /\ ~ Commit /\ fold \in FoldStates /\ staged \subseteq Rows /\ position \in 0..N
      /\ UNCHANGED <<snapshots, deltas, finals>> /\ pc' \in {"sink", "mark", "state", "commit"}
      /\ (~ Stateful => fold = EmptyFold)
  BY DEF Fold, ReplayFinalize, FinalizeRecord, Commit, durable, logs, files, ChainInv, IInv, TypeOK, AfterPublish,
         StatelessHasNoState
<1>1. Last' = Last /\ (HasBase' <=> HasBase)
  BY <1>0, NonCommitKeeps
<1>2. (fold' = EmptyFold /\ ~ Stateful) \/ Pushed(fold')
  <2>1. CASE Fold
    <3>1. fold' = Push(fold, staged, position) /\ staged # {} /\ position > 0
      BY <2>1 DEF Fold, FilesPushed
    <3>2. CASE Kind = "stateless"
      BY <1>0, <3>1, <3>2 DEF Push, Stateful
    <3>3. CASE Kind = "windowed"
      <4>1. fold'.evicted = position
        BY <3>1, <3>3 DEF Push
      <4>2. fold' # EmptyFold
        BY <3>1, <4>1 DEF EmptyFold
      <4> QED  BY <3>1, <3>3, <4>1, <4>2 DEF Pushed, BoundOf
    <3>4. CASE Kind = "complete"
      <4>1. fold.evicted = 0
        BY <3>4 DEF FilesPushed, Pushed, BoundOf, EmptyFold
      <4>2. PICK r \in Rows : r \in staged
        BY <1>0, <3>1
      <4>3. fold' = [fold EXCEPT !.count = Plus(fold.count, OneEach(staged))]
        BY <3>1, <3>4 DEF Push
      <4>4. fold'.evicted = 0 /\ fold'.count = Plus(fold.count, OneEach(staged))
        BY <1>0, <4>1, <4>3 DEF FoldStates
      <4>5. fold'.count[r] = fold.count[r] + 1 /\ fold.count[r] \in Nat
        BY <1>0, <4>2, <4>4 DEF FoldStates, Plus, OneEach
      <4>6. EmptyFold.count[r] = 0
        BY DEF EmptyFold, NoRows
      <4> QED  BY <3>4, <4>4, <4>5, <4>6 DEF Pushed, BoundOf
    <3> QED  BY <3>2, <3>3, <3>4, KindAssumption
  <2>2. CASE ReplayFinalize \/ FinalizeRecord
    <3>1. fold' = Flushed
      BY <2>2 DEF ReplayFinalize, FinalizeRecord
    <3>2. Pushed(fold)
      <4>1. CASE ReplayFinalize
        <5>1. HasBase /\ fold # EmptyFold
          BY <4>1 DEF ReplayFinalize, EpochPushed, AfterLogging
        <5> QED  BY <5>1 DEF FilesPushed
      <4>2. CASE FinalizeRecord
        <5>1. Flushable # NoRows
          BY <4>2 DEF FinalizeRecord
        <5>2. fold # EmptyFold
          BY <5>1 DEF Flushable, EmptyFold
        <5> QED  BY <5>2 DEF FilesPushed
      <4> QED  BY <2>2, <4>1, <4>2
    <3>3. CASE Kind = "windowed"
      <4>1. fold'.evicted = fold.evicted /\ fold.evicted # 0
        BY <1>0, <3>1, <3>2, <3>3 DEF Flushed, FoldStates, Pushed, BoundOf
      <4>2. fold' # EmptyFold
        BY <4>1 DEF EmptyFold
      <4> QED  BY <3>2, <4>1, <4>2 DEF Pushed
    <3>4. CASE Kind # "windowed"
      BY <3>1, <3>2, <3>4 DEF Flushed
    <3> QED  BY <3>3, <3>4
  <2> QED  BY <2>1, <2>2
<1>3. FilesPushed'
  BY <1>0, <1>2 DEF FilesPushed
<1>4. pc' = "mark" => HasBase
  <2> SUFFICES ASSUME pc' = "mark" PROVE HasBase
    OBVIOUS
  <2>1. FinalizeRecord
    BY DEF Fold, ReplayFinalize, AfterPublish
  <2>2. fold # EmptyFold
    <3>1. Flushable # NoRows
      BY <2>1 DEF FinalizeRecord
    <3> QED  BY <3>1 DEF Flushable, EmptyFold
  <2> QED  BY <2>1, <2>2 DEF FinalizeRecord, ChainInv, FoldBacked
<1>5. HasBase => Stateful
  BY DEF ChainInv, StatelessHasNoState, HasBase
<1>6. EpochPushed'
  <2>1. (HasBase => fold' # EmptyFold) /\ (Stateful => fold' # EmptyFold)
    BY <1>2, <1>5 DEF Pushed
  <2>2. Last + 1 \in finals => HasBase
    BY DEF EpochPushed
  <2> QED  BY <1>0, <1>1, <1>4, <2>1, <2>2 DEF EpochPushed
<1> QED  BY <1>3, <1>6

(* The state write, of a fold that was pushed.                             *)
LEMMA StateFilePushed ==
    ASSUME ChainInv, ChainInv', FilesPushed, EpochPushed, [Next]_vars, WriteDelta \/ WriteSnapshot \/ DropOther
    PROVE  FilesPushed' /\ EpochPushed'
<1>0. /\ ~ Commit /\ TypeOK /\ UNCHANGED <<fold, finals, epoch>>
      /\ pc \in {"state", "dropsnapshot", "dropdelta"} /\ pc' \in {"dropsnapshot", "dropdelta", "commit"}
  BY DEF WriteDelta, WriteSnapshot, DropOther, Commit, logs, state, ChainInv, IInv
<1>1. Last' = Last /\ (HasBase' <=> HasBase)
  BY <1>0, NonCommitKeeps
<1>2. /\ \A i \in DOMAIN snapshots' : Pushed(snapshots'[i])
      /\ \A i \in DOMAIN deltas' : BoundOf(deltas'[i].evicted)
  <2>1. CASE WriteDelta
    <3>1. Pushed(fold)
      <4>1. Held(fold) # {}
        BY <1>0, <2>1, WorthyDeltaIsPartial DEF WriteDelta
      <4> QED  BY <4>1, EmptyFoldHoldsNothing DEF FilesPushed
    <3>2. snapshots' = snapshots /\ deltas' = Put(deltas, batches, [rows |-> delta, evicted |-> fold.evicted])
      BY <2>1 DEF WriteDelta
    <3> QED  BY <3>1, <3>2 DEF FilesPushed, Pushed, Put
  <2>2. CASE WriteSnapshot
    BY <2>2 DEF WriteSnapshot, FilesPushed, Put
  <2>3. CASE DropOther
    BY <2>3 DEF DropOther, FilesPushed, Remove, Restrict
  <2> QED  BY <2>1, <2>2, <2>3
<1>3. FilesPushed'
  BY <1>0, <1>2 DEF FilesPushed
<1>4. EpochPushed'
  BY <1>0, <1>1 DEF EpochPushed, AfterLogging, Pruning
<1> QED  BY <1>3, <1>4

(* The commit, whose successor no marker names, and the prune after it.    *)
LEMMA CommitPushed ==
    ASSUME ChainInv, ChainInv', FilesPushed, EpochPushed, [Next]_vars, Commit \/ PruneState
    PROVE  FilesPushed' /\ EpochPushed'
<1>0. /\ UNCHANGED <<fold, finals, epoch>> /\ IInv /\ Last \in Int
      /\ pc \in {"commit", "prunestate"} /\ pc' \in Pruning
  BY LastFacts DEF Commit, PruneState, logs, state, ChainInv, Pruning
<1>1. FilesPushed'
  <2>1. /\ \A i \in DOMAIN snapshots' : i \in DOMAIN snapshots /\ snapshots'[i] = snapshots[i]
        /\ \A i \in DOMAIN deltas' : i \in DOMAIN deltas /\ deltas'[i] = deltas[i]
    BY DEF Commit, PruneState, files, Remove, Restrict
  <2> QED  BY <1>0, <2>1 DEF FilesPushed, Pruning
<1>2. Last' + 1 \in finals => HasBase'
  <2>1. CASE Commit
    <3>1. Last' = Last + 1
      BY <2>1, CommitMovesLast DEF ChainInv
    <3>2. finals \subseteq 0..(Last + 1)
      BY <1>0 DEF IInv, MarkersAreLogged, NoIdBeyondNext
    <3> QED  BY <1>0, <3>1, <3>2
  <2>2. CASE PruneState
    <3>1. Last' = Last /\ (HasBase' <=> HasBase)
      BY <2>2, NonCommitKeeps DEF PruneState, Commit
    <3> QED  BY <3>1 DEF EpochPushed
  <2> QED  BY <2>1, <2>2
<1>3. EpochPushed'
  BY <1>0, <1>2 DEF EpochPushed, AfterLogging, Pruning
<1> QED  BY <1>1, <1>3

(* A restart, a rollback and a death.                                      *)
LEMMA RestorePushed ==
    ASSUME ChainInv, ChainInv', FilesPushed, EpochPushed, [Next]_vars, Start \/ Crash \/ Fault
    PROVE  FilesPushed' /\ EpochPushed'
<1>0. ~ Commit /\ UNCHANGED <<snapshots, deltas, finals>> /\ pc' \in {"down", "loop", "replay"}
  BY DEF Start, Crash, Fault, Die, RollBack, Commit, durable, files, logs
<1>1. Last' = Last /\ (HasBase' <=> HasBase)
  BY <1>0, NonCommitKeeps
<1>2. /\ HasBase => Plan.stateAt = Last /\ Plan.stateAt # NoBatch
      /\ Plan.stateAt # NoBatch => HasBase /\ Plan.stateAt = Last
  BY PlanRestores
<1>3. HasBase => Pushed(RestoreChain(Last))
  BY PushedRestores
<1>4. /\ fold' = EmptyFold \/ Pushed(fold')
      /\ pc' # "down" => (HasBase => fold' # EmptyFold)
  <2>1. CASE Start
    <3>1. fold' = IF Plan.stateAt = NoBatch THEN EmptyFold ELSE RestoreChain(Plan.stateAt)
      BY <2>1 DEF Start, Recovered
    <3> QED  BY <1>2, <1>3, <3>1 DEF Pushed
  <2>2. CASE Die
    BY <2>2 DEF Die
  <2>3. CASE RollBack
    <3>1. fold' = IF Plan.stateAt = NoBatch THEN fold ELSE RestoreChain(Plan.stateAt)
      BY <2>3 DEF RollBack, RolledBack
    <3> QED  BY <1>2, <1>3, <3>1 DEF Pushed, FilesPushed
  <2> QED  BY <2>1, <2>2, <2>3 DEF Crash, Fault
<1>5. pc' = "replay" => Last + 1 \in finals
  <2> SUFFICES ASSUME Start, Plan.pending PROVE Last + 1 \in finals
    BY DEF Start, Crash, Fault, Die, RollBack
  <2>1. Plan.pending = PendingFlush(offsets, finals, commits)
    BY DEF Plan, Recover
  <2> QED  BY <2>1 DEF PendingFlush, Last
<1>6. FilesPushed'
  BY <1>0, <1>4 DEF FilesPushed
<1>7. EpochPushed'
  <2>1. Last + 1 \in finals => HasBase
    BY DEF EpochPushed
  <2> QED  BY <1>0, <1>1, <1>4, <1>5, <2>1 DEF EpochPushed, AfterLogging, Pruning
<1> QED  BY <1>6, <1>7

(* Every step keeps the facts about pushed folds.                          *)
LEMMA PushedStep ==
    ASSUME ChainInv, ChainInv', FilesPushed, EpochPushed, [Next]_vars
    PROVE  FilesPushed' /\ EpochPushed'
BY PassingPushed, FoldPushed, StateFilePushed, CommitPushed, RestorePushed DEF Next, EngineStep

(* Steps that write no state file and count no delta, failures and         *)
(* restarts included: a restart takes the count from the chain itself.     *)
LEMMA QuietLength ==
    ASSUME ChainInv, ChainInv', LengthInv, [Next]_vars,
           ~ (WriteDelta \/ WriteSnapshot \/ DropOther \/ Commit)
    PROVE  LengthInv'
<1>0. /\ TypeOK /\ deltasWritten \in Nat /\ DeltaInterval \in Nat /\ Cardinality(Chain) \in Nat
      /\ (~ Stateful => DOMAIN deltas = {})
  BY FileFacts DEF ChainInv, IInv, StatelessHasNoState
<1>1. Chain' = Chain
  BY NonCommitKeeps
<1>2. CASE Start \/ Crash \/ Fault
  <2>1. /\ pc' \in {"down", "loop", "replay"}
        /\ \/ pc' = "down" /\ deltasWritten' = 0
           \/ Plan.stateAt = NoBatch /\ deltasWritten' = 0
           \/ deltasWritten' = ChainLength
           \/ deltasWritten' = deltasWritten /\ pc \in {"stage", "fold", "sink", "state"}
    BY <1>2 DEF Start, Crash, Fault, Die, RollBack
  <2>2. ChainLength = Cardinality(Chain) /\ (Plan.stateAt = NoBatch => Cardinality(Chain) = 0)
    BY PlanRestores, FS_EmptySet
  <2>3. /\ deltasWritten <= DeltaInterval /\ Cardinality(Chain) <= DeltaInterval
        /\ pc \in {"stage", "fold", "sink", "state"} => Cardinality(Chain) <= deltasWritten
    BY DEF LengthInv
  <2>4. /\ deltasWritten' <= DeltaInterval
        /\ pc' # "down" => Cardinality(Chain) <= deltasWritten'
    <3>1. CASE deltasWritten' = 0 /\ (pc' = "down" \/ Plan.stateAt = NoBatch)
      BY <1>0, <2>2, <3>1
    <3>2. CASE deltasWritten' = ChainLength
      BY <1>0, <2>2, <2>3, <3>2
    <3>3. CASE deltasWritten' = deltasWritten /\ pc \in {"stage", "fold", "sink", "state"}
      BY <2>3, <3>3
    <3> QED  BY <2>1, <3>1, <3>2, <3>3
  <2> QED  BY <1>1, <2>1, <2>3, <2>4 DEF LengthInv
<1>3. CASE ~ (Start \/ Crash \/ Fault)
  <2>1. deltasWritten' = deltasWritten
    BY <1>3 DEF Next, EngineStep, Produce, StopRequest, TestStop, Stage, Exhausted, Idle, RecordOffsets, Fold, WriteSink,
                PruneState, PruneLogs, PruneCommits, FinalizeNothing, FinalizeRecord, FinalizeMark,
                ReplayFinalize, Terminated, vars, engine, state
  <2>2. \/ UNCHANGED <<pc, batches, snapshots, deltas>>
        \/ /\ pc \notin {"down", "done", "dropsnapshot", "dropdelta", "commit"}
           /\ pc' \notin {"dropsnapshot", "dropdelta"}
           /\ pc' = "commit" => ~ Stateful /\ deltas' = deltas
    <3>1. CASE Produce \/ StopRequest \/ Idle \/ Terminated \/ UNCHANGED vars
      BY <3>1 DEF Produce, StopRequest, Idle, Terminated, vars, engine, durable, files
    <3>2. CASE PruneState \/ PruneLogs \/ PruneCommits
      <4>1. NextEpoch => pc' \in {"loop", "finalize", "done"}
        BY <1>0 DEF NextEpoch, TypeOK
      <4> QED  BY <3>2, <4>1 DEF PruneState, PruneLogs, PruneCommits
    <3>3. CASE TestStop \/ Stage \/ Exhausted \/ RecordOffsets \/ Fold \/ WriteSink
                 \/ FinalizeNothing \/ FinalizeRecord \/ FinalizeMark \/ ReplayFinalize
      BY <3>3 DEF TestStop, Stage, Exhausted, RecordOffsets, Fold, WriteSink, FinalizeNothing, FinalizeRecord,
                  FinalizeMark, ReplayFinalize, durable, files, AfterPublish
    <3> QED  BY <1>3, <3>1, <3>2, <3>3 DEF Next, EngineStep
  <2>3. CASE UNCHANGED <<pc, batches, snapshots, deltas>>
    BY <1>1, <2>1, <2>3 DEF LengthInv
  <2>4. CASE /\ pc \notin {"down", "done", "dropsnapshot", "dropdelta", "commit"}
             /\ pc' \notin {"dropsnapshot", "dropdelta"}
             /\ pc' = "commit" => ~ Stateful /\ deltas' = deltas
    BY <1>0, <1>1, <2>1, <2>4 DEF LengthInv
  <2> QED  BY <2>2, <2>3, <2>4
<1> QED  BY <1>2, <1>3

(* A state write: a delta is counted, and a snapshot starts a new chain.   *)
LEMMA WriteLength ==
    ASSUME ChainInv, ChainInv', FilesPushed, EpochPushed, LengthInv, [Next]_vars,
           WriteDelta \/ WriteSnapshot \/ DropOther
    PROVE  LengthInv'
<1>0. /\ deltasWritten \in Nat /\ DeltaInterval \in Nat /\ Cardinality(Chain) \in Nat
      /\ Cardinality(Chain) <= DeltaInterval /\ deltasWritten <= DeltaInterval
  BY FileFacts DEF ChainInv, LengthInv
<1>1. Chain' = Chain
  BY NonCommitKeeps DEF WriteDelta, WriteSnapshot, DropOther, Commit
<1>2. CASE WriteDelta
  <2>1. /\ pc = "state" /\ pc' = "dropsnapshot" /\ deltasWritten' = deltasWritten + 1
        /\ deltasWritten < DeltaInterval
    BY <1>2 DEF WriteDelta, MayTakeDelta
  <2>2. Cardinality(Chain) <= deltasWritten
    BY <2>1 DEF LengthInv
  <2>3. deltasWritten' <= DeltaInterval /\ Cardinality(Chain) < deltasWritten'
    BY <1>0, <2>1, <2>2
  <2> QED  BY <1>0, <1>1, <2>1, <2>3 DEF LengthInv
<1>3. CASE WriteSnapshot /\ fold # EmptyFold
  <2>1. pc' = "dropdelta" /\ deltasWritten' = 0 /\ batches' = batches /\ batches \in DOMAIN snapshots'
    BY <1>3 DEF WriteSnapshot, Put
  <2> QED  BY <1>0, <1>1, <2>1 DEF LengthInv
<1>4. CASE WriteSnapshot /\ fold = EmptyFold
  <2>1. pc = "state" /\ pc' = "commit" /\ deltasWritten' = 0 /\ deltas' = deltas
    BY <1>4 DEF WriteSnapshot
  <2>2. DOMAIN deltas = {}
    BY <1>4, <2>1 DEF EpochPushed, AfterLogging, ChainInv, BaseUnderDeltas
  <2> QED  BY <1>0, <1>1, <2>1, <2>2 DEF LengthInv
<1>5. CASE DropOther
  <2>1. /\ pc \in {"dropsnapshot", "dropdelta"} /\ pc' = "commit" /\ UNCHANGED <<deltasWritten, batches>>
        /\ pc = "dropdelta" => snapshots' = snapshots
    BY <1>5 DEF DropOther, state
  <2> QED  BY <1>0, <1>1, <2>1 DEF LengthInv
<1> QED  BY <1>2, <1>3, <1>4, <1>5

(* A commit: its snapshot empties the chain, its delta extends it by one.  *)
LEMMA CommitLength ==
    ASSUME ChainInv, LengthInv, Commit
    PROVE  LengthInv'
<1>0. /\ deltasWritten \in Nat /\ DeltaInterval \in Nat /\ Cardinality(Chain) \in Nat
      /\ Cardinality(Chain) <= DeltaInterval /\ deltasWritten <= DeltaInterval
      /\ Last \in Int /\ Last + 1 \in Int /\ DOMAIN snapshots \subseteq 0..(Last + 1)
      /\ DOMAIN deltas \subseteq 0..(Last + 1) /\ Chain \subseteq DOMAIN deltas
  BY FileFacts DEF ChainInv, LengthInv
<1>1. Last' = Last + 1 /\ batches = Last + 1
  BY CommitMovesLast DEF ChainInv
<1>2. /\ pc = "commit" /\ pc' \in {"prunestate", "prunelogs"}
      /\ UNCHANGED <<snapshots, deltas, deltasWritten>>
  BY DEF Commit, files, state
<1>3. Chain' = ChainDeltas(snapshots, deltas, Last + 1)
  BY <1>1, <1>2 DEF Chain
<1>4. /\ BaseId(snapshots, Last + 1) \in Int
      /\ \A i \in DOMAIN snapshots : i <= Last + 1 => i <= BaseId(snapshots, Last + 1)
  BY <1>0, ChainFacts
<1>5. Cardinality(Chain') <= deltasWritten /\ Cardinality(Chain') \in Nat
  <2>1. CASE batches \in DOMAIN snapshots
    <3>1. BaseId(snapshots, Last + 1) >= Last + 1
      BY <1>0, <1>1, <1>4, <2>1
    <3>2. Chain' = {}
      BY <1>0, <1>3, <1>4, <3>1 DEF ChainDeltas
    <3> QED  BY <1>0, <3>2, FS_EmptySet
  <2>2. CASE batches \notin DOMAIN snapshots /\ Cardinality(Chain) < deltasWritten
    <3>1. \A i \in DOMAIN snapshots : i <= Last + 1 <=> i <= Last
      BY <1>0, <1>1, <2>2
    <3>2. {i \in DOMAIN snapshots : i <= Last + 1} = {i \in DOMAIN snapshots : i <= Last}
      BY <3>1
    <3>3. BaseId(snapshots, Last + 1) = BaseId(snapshots, Last)
      BY <3>2 DEF BaseId
    <3>4. Chain' \subseteq Chain \cup {Last + 1}
      BY <1>0, <1>3, <3>3 DEF Chain, ChainDeltas
    <3>5. Chain \subseteq 0..(Last + 1)
      BY <1>0
    <3>6. /\ Cardinality(Chain \cup {Last + 1}) \in Nat
          /\ Cardinality(Chain \cup {Last + 1}) <= Cardinality(Chain) + 1
      BY <1>0, <3>5, CountsOfIds
    <3>7. Last + 1 \in 0..(Last + 1)
      BY <1>0, LastFacts DEF ChainInv
    <3>8. Cardinality(Chain') \in Nat /\ Cardinality(Chain') <= Cardinality(Chain \cup {Last + 1})
      <4>1. Chain \cup {Last + 1} \subseteq 0..(Last + 1)
        BY <3>5, <3>7
      <4> QED  BY <1>0, <3>4, <4>1, CountsOfIds
    <3> QED  BY <1>0, <2>2, <3>6, <3>8
  <2>3. CASE DOMAIN deltas = {}
    <3>1. Chain' = {}
      BY <1>3, <2>3 DEF ChainDeltas
    <3> QED  BY <1>0, <3>1, FS_EmptySet
  <2> QED  BY <1>2, <2>1, <2>2, <2>3 DEF LengthInv
<1> QED  BY <1>0, <1>2, <1>5 DEF LengthInv

(* Every step keeps the engine's count of deltas ahead of the chain.       *)
LEMMA LengthStep ==
    ASSUME ChainInv, ChainInv', FilesPushed, EpochPushed, LengthInv, [Next]_vars
    PROVE  LengthInv'
BY QuietLength, WriteLength, CommitLength

(* Fewer ids of each kind are fewer files.                                 *)
LEMMA FewerFiles ==
    ASSUME IInv, DOMAIN snapshots' \subseteq DOMAIN snapshots, DOMAIN deltas' \subseteq DOMAIN deltas
    PROVE  FileCount' \in Nat /\ FileCount' <= FileCount /\ FileCount \in Nat
<1>1. /\ Last + 1 \in Int /\ DOMAIN snapshots \subseteq 0..(Last + 1) /\ DOMAIN deltas \subseteq 0..(Last + 1)
      /\ Cardinality(DOMAIN snapshots) \in Nat /\ Cardinality(DOMAIN deltas) \in Nat
  BY FileFacts
<1>2. /\ Cardinality(DOMAIN snapshots') \in Nat /\ Cardinality(DOMAIN snapshots') <= Cardinality(DOMAIN snapshots)
      /\ Cardinality(DOMAIN deltas') \in Nat /\ Cardinality(DOMAIN deltas') <= Cardinality(DOMAIN deltas)
  BY <1>1, CountsOfIds
<1> QED  BY <1>1, <1>2 DEF FileCount

(* The room is a number, and only a failure changes it, by one.            *)
LEMMA RoomFacts ==
    ASSUME IInv
    PROVE  /\ FileRoom \in Nat /\ FileRoom >= DeltaInterval + 1
           /\ UNCHANGED <<crashes, faults>> => FileRoom' = FileRoom
           /\ Crash \/ Fault => FileRoom' = FileRoom + 1
<1>1. crashes \in Nat /\ faults \in Nat /\ DeltaInterval \in Nat
  BY FileFacts
<1>2. UNCHANGED <<crashes, faults>> => FileRoom' = FileRoom
  BY DEF FileRoom
<1>3. Crash \/ Fault => FileRoom' = FileRoom + 1
  <2>1. Crash \/ Fault => \/ crashes' = crashes + 1 /\ faults' = faults
                          \/ crashes' = crashes /\ faults' = faults + 1
    BY DEF Crash, Fault
  <2> QED  BY <1>1, <2>1 DEF FileRoom
<1> QED  BY <1>1, <1>2, <1>3 DEF FileRoom

(* Steps that touch no state file.                                         *)
LEMMA QuietFiles ==
    ASSUME ChainInv, ChainInv', FilesInv, [Next]_vars,
           ~ (WriteDelta \/ WriteSnapshot \/ DropOther \/ Commit \/ PruneState)
    PROVE  FilesInv'
<1>0. Last' = Last /\ IInv /\ FileRoom \in Nat /\ (~ Stateful => DOMAIN deltas = {}) /\ TypeOK
  BY NonCommitKeeps, RoomFacts DEF ChainInv, StatelessHasNoState, IInv
<1>1. snapshots' = snapshots /\ deltas' = deltas
  BY DEF Next, EngineStep, Produce, Start, StopRequest, TestStop, Stage, Exhausted, Idle, RecordOffsets, Fold, WriteSink,
         PruneLogs, PruneCommits, FinalizeNothing, FinalizeRecord, FinalizeMark, ReplayFinalize, Crash, Fault,
         Terminated, vars, durable, files
<1>2. FileCount' = FileCount /\ FileCount \in Nat
  BY <1>0, <1>1, FewerFiles DEF FileCount
<1>3. CASE Crash \/ Fault
  <2>1. pc' \notin Pruning \cup {"dropsnapshot", "dropdelta", "commit"}
    BY <1>3 DEF Crash, Fault, Die, RollBack, Pruning
  <2>2. FileRoom' = FileRoom + 1
    BY <1>0, <1>3, RoomFacts
  <2>3. FileCount <= FileRoom + 1
    BY DEF FilesInv
  <2>4. FileCount' <= FileRoom' /\ FileCount' <= FileRoom' + 1
    BY <1>0, <1>2, <2>2, <2>3
  <2> QED  BY <1>0, <1>1, <2>1, <2>4 DEF FilesInv
<1>4. CASE ~ (Crash \/ Fault)
  <2>1. UNCHANGED <<crashes, faults>>
    BY <1>4 DEF Next, EngineStep, Produce, Start, StopRequest, TestStop, Stage, Exhausted, Idle, RecordOffsets,
                Fold, WriteSink, PruneLogs, PruneCommits, FinalizeNothing, FinalizeRecord, FinalizeMark,
                ReplayFinalize, Terminated, vars, env
  <2>2. FileRoom' = FileRoom
    BY <1>0, <2>1, RoomFacts
  <2>3. \/ pc' = pc
        \/ /\ pc \notin {"dropsnapshot", "dropdelta", "commit", "prunestate"}
           /\ pc' \in Pruning => pc \in Pruning
           /\ pc' = "commit" => ~ Stateful
    BY <1>0, <1>4 DEF Next, EngineStep, Produce, Start, StopRequest, TestStop, Stage, Exhausted, Idle, RecordOffsets,
                Fold, WriteSink, PruneLogs, PruneCommits, FinalizeNothing, FinalizeRecord, FinalizeMark,
                ReplayFinalize, Terminated, vars, engine, AfterPublish, NextEpoch, TypeOK, Pruning
  <2>4. CASE pc' = pc
    BY <1>0, <1>1, <1>2, <2>2, <2>4 DEF FilesInv
  <2>5. CASE /\ pc \notin {"dropsnapshot", "dropdelta", "commit", "prunestate"}
             /\ pc' \in Pruning => pc \in Pruning
             /\ pc' = "commit" => ~ Stateful
    BY <1>0, <1>1, <1>2, <2>2, <2>5 DEF FilesInv
  <2> QED  BY <2>3, <2>4, <2>5
<1> QED  BY <1>3, <1>4

(* A state write adds at most one file, and the drop after it leaves one   *)
(* file of the id.                                                         *)
LEMMA WriteFiles ==
    ASSUME ChainInv, ChainInv', EpochPushed, FilesInv, [Next]_vars,
           WriteDelta \/ WriteSnapshot \/ DropOther
    PROVE  FilesInv'
<1>0. /\ IInv /\ Last' = Last /\ pc \notin Pruning /\ pc' \notin Pruning /\ pc' # "prunestate"
      /\ UNCHANGED <<crashes, faults>>
  BY NonCommitKeeps DEF WriteDelta, WriteSnapshot, DropOther, Commit, Pruning, env, ChainInv
<1>1. /\ FileRoom' = FileRoom /\ FileRoom \in Nat /\ batches = Last + 1
      /\ Last + 1 \in Int /\ DOMAIN snapshots \subseteq 0..(Last + 1) /\ DOMAIN deltas \subseteq 0..(Last + 1)
      /\ Cardinality(DOMAIN snapshots) \in Nat /\ Cardinality(DOMAIN deltas) \in Nat
  BY <1>0, RoomFacts, FileFacts DEF IInv, IdInFlight, WriteDelta, WriteSnapshot, DropOther
<1>2. CASE WriteDelta \/ (WriteSnapshot /\ fold # EmptyFold)
  <2>1. /\ pc = "state" /\ pc' # "commit" /\ pc' \in {"dropsnapshot", "dropdelta"}
        /\ \/ DOMAIN snapshots' = DOMAIN snapshots /\ DOMAIN deltas' = DOMAIN deltas \cup {batches}
           \/ DOMAIN snapshots' = DOMAIN snapshots \cup {batches} /\ DOMAIN deltas' = DOMAIN deltas
    BY <1>2 DEF WriteDelta, WriteSnapshot, Put
  <2>2. FileCount <= FileRoom
    BY <2>1 DEF FilesInv
  <2>3. FileCount' <= FileCount + 1 /\ FileCount \in Nat /\ FileCount' \in Nat
    <3>1. /\ Cardinality(DOMAIN snapshots \cup {batches}) \in Nat
          /\ Cardinality(DOMAIN snapshots \cup {batches}) <= Cardinality(DOMAIN snapshots) + 1
          /\ Cardinality(DOMAIN deltas \cup {batches}) \in Nat
          /\ Cardinality(DOMAIN deltas \cup {batches}) <= Cardinality(DOMAIN deltas) + 1
      BY <1>1, CountsOfIds
    <3> QED  BY <1>1, <2>1, <3>1 DEF FileCount
  <2>4. FileCount' <= FileRoom' + 1
    BY <1>1, <2>2, <2>3
  <2>5. \A i \in DOMAIN snapshots' \cap DOMAIN deltas' : i = Last + 1
    BY <1>1, <2>1 DEF FilesInv
  <2> QED  BY <1>0, <2>1, <2>4, <2>5 DEF FilesInv
<1>3. CASE WriteSnapshot /\ fold = EmptyFold
  <2>1. pc = "state" /\ pc' = "commit" /\ snapshots' = snapshots /\ deltas' = deltas
    BY <1>3 DEF WriteSnapshot
  <2>2. DOMAIN deltas = {}
    BY <1>3, <2>1 DEF EpochPushed, AfterLogging, ChainInv, BaseUnderDeltas
  <2>3. FileCount' = FileCount
    BY <2>1 DEF FileCount
  <2> QED  BY <1>0, <1>1, <2>1, <2>2, <2>3 DEF FilesInv
<1>4. CASE DropOther
  <2>1. /\ pc' = "commit"
        /\ DOMAIN snapshots' \subseteq DOMAIN snapshots /\ DOMAIN deltas' \subseteq DOMAIN deltas
        /\ batches \notin DOMAIN snapshots' \/ batches \notin DOMAIN deltas'
    BY <1>4 DEF DropOther, Remove, Restrict
  <2>2. FileCount' \in Nat /\ FileCount' <= FileCount /\ FileCount \in Nat
    BY <1>0, <2>1, FewerFiles
  <2>3. FileCount <= FileRoom + 1
    BY DEF FilesInv
  <2>4. FileCount' <= FileRoom' + 1
    BY <1>1, <2>2, <2>3
  <2>5. \A i \in DOMAIN snapshots' \cap DOMAIN deltas' : FALSE
    BY <1>1, <2>1 DEF FilesInv
  <2> QED  BY <1>0, <2>1, <2>4, <2>5 DEF FilesInv
<1> QED  BY <1>2, <1>3, <1>4

(* A commit makes the file of its id a committed one.                      *)
LEMMA CommitFiles ==
    ASSUME ChainInv, FilesInv, Commit
    PROVE  FilesInv'
<1>0. /\ IInv /\ Last' = Last + 1 /\ Last + 1 \in Int
      /\ DOMAIN snapshots \subseteq 0..(Last + 1) /\ DOMAIN deltas \subseteq 0..(Last + 1)
  BY CommitMovesLast, FileFacts DEF ChainInv
<1>1. /\ pc = "commit" /\ pc' = IF Stateful THEN "prunestate" ELSE "prunelogs"
      /\ UNCHANGED <<snapshots, deltas, crashes, faults>>
  BY DEF Commit, files, env
<1>2. FileRoom' = FileRoom /\ FileRoom \in Nat /\ FileCount' = FileCount
  BY <1>0, <1>1, RoomFacts DEF FileCount
<1>3. ~ Stateful => FileCount = 0
  <2>1. ~ Stateful => DOMAIN snapshots = {} /\ DOMAIN deltas = {}
    BY DEF ChainInv, StatelessHasNoState
  <2>2. ~ Stateful => Cardinality(DOMAIN snapshots) = 0 /\ Cardinality(DOMAIN deltas) = 0
    BY <2>1, FS_EmptySet
  <2> QED  BY <2>2 DEF FileCount
<1>4. FileCount' <= FileRoom' + 1 /\ (~ Stateful => FileCount' <= FileRoom')
  <2>1. FileCount <= FileRoom + 1
    BY DEF FilesInv
  <2> QED  BY <1>2, <1>3, <2>1
<1>5. /\ \A i \in DOMAIN snapshots' \cap DOMAIN deltas' : FALSE
      /\ DOMAIN snapshots' \cup DOMAIN deltas' \subseteq 0..Last'
  BY <1>0, <1>1 DEF FilesInv
<1> QED  BY <1>1, <1>4, <1>5 DEF FilesInv

(* A prune that finds nothing dead leaves one snapshot and the deltas of   *)
(* its chain.                                                              *)
LEMMA PrunedFiles ==
    ASSUME ChainInv, LengthInv, FilesInv, pc = "prunestate", DeadIds(snapshots, deltas, Last) = {}
    PROVE  FileCount <= FileRoom
<1>0. /\ IInv /\ Last \in Int /\ Last + 1 \in Int
      /\ DOMAIN snapshots \subseteq 0..(Last + 1) /\ DOMAIN deltas \subseteq 0..(Last + 1)
      /\ Cardinality(DOMAIN deltas) \in Nat /\ Cardinality(Chain) \in Nat /\ DeltaInterval \in Nat
      /\ FileRoom \in Nat /\ FileRoom >= DeltaInterval + 1
  BY FileFacts, RoomFacts DEF ChainInv
<1>1. /\ DOMAIN snapshots \cup DOMAIN deltas \subseteq 0..Last
      /\ \A i \in DOMAIN snapshots : i \notin DOMAIN deltas
  BY DEF FilesInv, Pruning
<1>2. CASE HasBase
  <2> DEFINE base == BaseId(snapshots, Last)
  <2>1. /\ base \in Int /\ base # -1 /\ base \in DOMAIN snapshots
        /\ \A i \in DOMAIN snapshots : i <= Last => i <= base
    BY <1>0, <1>2, ChainFacts, HasBaseIff DEF NoBatch
  <2>2. PruneFloor(snapshots, Last) = base
    BY <2>1 DEF PruneFloor, NoBatch
  <2> HIDE DEF base
  <2>3. \A i \in DOMAIN snapshots \cup DOMAIN deltas : i >= base
    <3> SUFFICES ASSUME NEW i \in DOMAIN snapshots \cup DOMAIN deltas PROVE i >= base
      OBVIOUS
    <3>1. ~ (i < base)
      BY <2>2 DEF DeadIds
    <3> QED  BY <1>0, <2>1, <3>1
  <2>4. DOMAIN snapshots = {base}
    <3>1. \A i \in DOMAIN snapshots : i \in Int /\ i <= Last /\ i <= base /\ i >= base
      BY <1>0, <1>1, <2>1, <2>3
    <3>2. \A i \in DOMAIN snapshots : i = base
      BY <2>1, <3>1
    <3> QED  BY <2>1, <3>2
  <2>5. DOMAIN deltas \subseteq Chain
    <3>1. \A i \in DOMAIN deltas : i \in Int /\ i <= Last /\ i >= base /\ i # base
      BY <1>0, <1>1, <2>1, <2>3
    <3>2. \A i \in DOMAIN deltas : base < i /\ i <= Last
      BY <2>1, <3>1
    <3> QED  BY <3>2 DEF Chain, ChainDeltas, base
  <2>6. DOMAIN deltas = Chain
    BY <2>5, FileFacts, <1>0
  <2>7. Cardinality(DOMAIN snapshots) = 1
    BY <2>4, FS_Singleton
  <2>8. Cardinality(DOMAIN deltas) <= DeltaInterval
    BY <2>6 DEF LengthInv
  <2> QED  BY <1>0, <2>7, <2>8 DEF FileCount
<1>3. CASE ~ HasBase
  <2>1. DOMAIN snapshots = {} /\ DOMAIN deltas = {}
    <3>1. \A i \in DOMAIN snapshots : i <= Last
      BY <1>0, <1>1
    <3>2. DOMAIN snapshots = {}
      BY <1>3, <3>1 DEF HasBase
    <3> QED  BY <1>3, <3>2 DEF ChainInv, BaseUnderDeltas
  <2>2. Cardinality(DOMAIN snapshots) = 0 /\ Cardinality(DOMAIN deltas) = 0
    BY <2>1, FS_EmptySet
  <2> QED  BY <1>0, <2>2 DEF FileCount
<1> QED  BY <1>2, <1>3

(* A prune removes files, and ends when none is dead.                      *)
LEMMA PruneFiles ==
    ASSUME ChainInv, LengthInv, FilesInv, PruneState
    PROVE  FilesInv'
<1>0. /\ IInv /\ pc = "prunestate" /\ pc' \in {"prunestate", "prunelogs"} /\ batches = Last
      /\ UNCHANGED <<commits, crashes, faults>>
  BY DEF PruneState, ChainInv, IInv, IdInFlight, Pruning, logs, env
<1>1. Last' = Last /\ FileRoom' = FileRoom /\ FileRoom \in Nat
  BY <1>0, RoomFacts DEF Last
<1>2. DOMAIN snapshots' \subseteq DOMAIN snapshots /\ DOMAIN deltas' \subseteq DOMAIN deltas
  BY DEF PruneState, files, Remove, Restrict
<1>3. FileCount' \in Nat /\ FileCount' <= FileCount /\ FileCount \in Nat
  BY <1>0, <1>2, FewerFiles
<1>4. FileCount <= FileRoom + 1
  BY DEF FilesInv
<1>5. pc' = "prunelogs" => FileCount <= FileRoom
  BY <1>0, PrunedFiles DEF PruneState
<1>6. FileCount' <= FileRoom' + 1 /\ (pc' = "prunelogs" => FileCount' <= FileRoom')
  BY <1>1, <1>3, <1>4, <1>5
<1> QED  BY <1>0, <1>1, <1>2, <1>6 DEF FilesInv, Pruning

(* Every step keeps the state directory in its bounds.                     *)
LEMMA FilesStep ==
    ASSUME ChainInv, ChainInv', EpochPushed, LengthInv, FilesInv, [Next]_vars
    PROVE  FilesInv'
BY QuietFiles, WriteFiles, CommitFiles, PruneFiles

(* An empty checkpoint satisfies the size invariant.                       *)
LEMMA SizeInit == Init => SizeInv
<1> SUFFICES ASSUME Init PROVE SizeInv
  OBVIOUS
<1>1. ChainInv /\ IInv
  BY InitBacked DEF ChainInv
<1>2. /\ pc = "down" /\ fold = EmptyFold /\ deltasWritten = 0 /\ finals = {}
      /\ DOMAIN snapshots = {} /\ DOMAIN deltas = {}
  BY DEF Init
<1>3. Chain = {} /\ Cardinality({}) = 0
  BY <1>2, FS_EmptySet DEF Chain, ChainDeltas
<1>4. /\ FileCount = 0 /\ FileRoom \in Nat /\ DeltaInterval \in Nat
  BY <1>1, <1>2, <1>3, RoomFacts, FileFacts DEF FileCount
<1>5. FilesPushed /\ EpochPushed
  BY <1>2 DEF FilesPushed, EpochPushed, AfterLogging, Pruning
<1>6. LengthInv
  BY <1>2, <1>3, <1>4 DEF LengthInv
<1>7. FilesInv
  BY <1>2, <1>4 DEF FilesInv, Pruning
<1> QED  BY <1>1, <1>5, <1>6, <1>7 DEF SizeInv

(* Every step keeps the size invariant.                                    *)
LEMMA SizeStep ==
    ASSUME ~ FaultsBeforeRestorePoint
    PROVE  SizeInv /\ [Next]_vars => SizeInv'
<1> SUFFICES ASSUME SizeInv, [Next]_vars PROVE SizeInv'
  OBVIOUS
<1>1. ChainInv /\ FilesPushed /\ EpochPushed /\ LengthInv /\ FilesInv
  BY DEF SizeInv
<1>2. ChainInv'
  BY <1>1, ChainStep
<1> QED  BY <1>1, <1>2, PushedStep, LengthStep, FilesStep DEF SizeInv

(* However often a query restarts, the changelog its recovery replays has  *)
(* at most checkpoint_delta_interval entries: the count that write_state   *)
(* compares with the interval is never behind the chain, because a restart *)
(* takes it from the chain it restores (_recover).                         *)
THEOREM ChainBoundedHolds ==
    ASSUME ~ FaultsBeforeRestorePoint
    PROVE  Spec => []ChainBounded
<1>1. Init => SizeInv
  BY SizeInit
<1>2. SizeInv /\ [Next]_vars => SizeInv'
  BY SizeStep
<1>3. SizeInv => ChainBounded
  BY DEF SizeInv, LengthInv, ChainBounded, Chain, Last
<1> QED  BY <1>1, <1>2, <1>3, PTL DEF Spec

(* The state directory holds at most one chain, its replacement and the    *)
(* file being replaced, and one file more for each process that died       *)
(* between a state write and the prune after its commit: the next prune    *)
(* removes what it left (StateStore.prune).                                *)
THEOREM StateDirBoundedHolds ==
    ASSUME ~ FaultsBeforeRestorePoint
    PROVE  Spec => []StateDirBounded
<1>1. Init => SizeInv
  BY SizeInit
<1>2. SizeInv /\ [Next]_vars => SizeInv'
  BY SizeStep
<1>3. SizeInv => StateDirBounded
  <2> SUFFICES ASSUME SizeInv PROVE StateDirBounded
    OBVIOUS
  <2>1. /\ FileCount <= FileRoom + 1 /\ IInv
    BY DEF SizeInv, FilesInv, ChainInv
  <2>2. /\ crashes \in Nat /\ faults \in Nat /\ DeltaInterval \in Nat
        /\ Cardinality(DOMAIN snapshots) \in Nat /\ Cardinality(DOMAIN deltas) \in Nat
    BY <2>1, FileFacts
  <2> QED  BY <2>1, <2>2 DEF StateDirBounded, FileCount, FileRoom
<1> QED  BY <1>1, <1>2, <1>3, PTL DEF Spec
=============================================================================
