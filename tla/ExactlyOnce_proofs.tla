------------------------- MODULE ExactlyOnce_proofs -------------------------
(***************************************************************************)
(* That the streaming query counts every row once, for every source whose  *)
(* reads always end at the same places, every kind of query and every      *)
(* number of crashes, faults, stops and restarts.                          *)
(*                                                                         *)
(* StreamingQuery_proofs shows that nothing but a commit moves the restart *)
(* point: the position a recovery would seek to and the fold it would      *)
(* restore.  So everything here is stated relative to that point.  Between *)
(* two commits the process, whichever it is, holds the restored fold or    *)
(* one push of it; the one id past the last commit holds in the logs, in   *)
(* the sink and in the state directory what such a push left there; and    *)
(* the commit makes the fold of the process the fold that is restored.     *)
(* The refinement at the end then needs one thing more, that the windows   *)
(* left open are the last ones.  A loss of power is different: it takes     *)
(* back commits and positions, so the last section argues from the course  *)
(* of the reads instead.                                                   *)
(***************************************************************************)
EXTENDS StreamingQuery_proofs, StreamingQueryRefinement, PowerLoss

-----------------------------------------------------------------------------
(* The hypotheses.                                                         *)

(* A read from a position ends where every read from it ends.              *)
Deterministic == \A p \in 0..N : \A d, e \in Polls[p] : d = e

(* Every changelog entry is written in the epoch that folded it in: either *)
(* none is, or no epoch goes without a push.                               *)
EntriesFresh == DeltaInterval = 0 \/ (~ Drains /\ ~ Stops)

(* A window closes no later than the windows of later rows: the rows are   *)
(* in event-time order.                                                    *)
InOrder == \A r, q \in Rows : r <= q => ClosesAt[r] <= ClosesAt[q]

-----------------------------------------------------------------------------
(* The inductive invariant.                                                *)

(* The restart point, and the one id that may be in use without a commit.  *)
Seek  == Plan.seek
Ahead == Last + 1

Between(p, e) == {r \in Rows : p < r /\ r <= e}

DataLogged == Ahead \in DOMAIN offsets /\ offsets[Ahead] > Seek

(* What the offset log says of it: a data epoch's end, or the restart      *)
(* position again for a drain marker or a flush.                           *)
AheadLogged ==
    Ahead \in DOMAIN offsets =>
        \/ offsets[Ahead] = Seek
        \/ offsets[Ahead] \in Polls[Seek] /\ offsets[Ahead] <= available /\ Ahead \notin finals

(* What the sink holds under it is what a re-run would publish.            *)
AheadPublished ==
    Ahead \in DOMAIN sink =>
        \/ /\ DataLogged
           /\ sink[Ahead] = Emitted(Recovered, Between(Seek, offsets[Ahead]), offsets[Ahead])
        \/ Ahead \in finals /\ Kind = "windowed" /\ sink[Ahead] = Recovered.count

(* Before the first row is committed only its own epoch leaves state.      *)
NoStateBeforeRows ==
    Seek = 0 /\ ~ DataLogged => DOMAIN snapshots = {} /\ DOMAIN deltas = {}

(* The restored fold has closed the windows up to the restart position.    *)
ClosedUpToSeek == Recovered.evicted = IF Kind = "windowed" THEN Seek ELSE 0

(* The committed part of the sink, and its sum with the restored fold.     *)
Ledger ==
    /\ ResumeExact
    /\ AnswerExact
    /\ \A r \in Rows :
          /\ \A i \in DOMAIN sink : i <= Last => sink[i][r] <= 1
          /\ Kind # "complete" => \A i, j \in Deliveries(r) : i <= Last /\ j <= Last => i = j

Restart == AheadLogged /\ AheadPublished /\ NoStateBeforeRows /\ ClosedUpToSeek /\ Ledger

(* The process between epochs: at the restart point.                       *)
AtRest ==
    /\ pc \in Pruning \cup {"loop", "stage", "finalize", "replay"} =>
          position = Seek /\ fold = Recovered
    /\ pc \in Pruning \cup {"finalize"} => Ahead \notin DOMAIN offsets
    /\ pc \in {"loop", "stage"} => Ahead \notin finals /\ (stopping => Ahead \notin DOMAIN offsets)
    /\ pc = "replay" => Ahead \in finals
    /\ pc \in Pruning /\ epoch = "flush" => Recovered.count = NoRows
    /\ pc = "done" => position = Seek /\ (Kind # "complete" => Recovered.count = NoRows)

InEpoch == {"record", "fold", "mark", "sink", "state", "dropsnapshot", "dropdelta", "commit"}
Published == {"state", "dropsnapshot", "dropdelta", "commit"}

DataRows == Between(Seek, position)

(* A data epoch: the next read from the restart point.                     *)
InData ==
    pc \in InEpoch /\ epoch = "data" =>
        /\ pc # "mark" /\ Ahead \notin finals
        /\ position \in Polls[Seek] /\ position <= available
        /\ pc # "record" => offsets[Ahead] = position
        /\ pc \in {"record", "fold"} => staged = DataRows /\ fold = Recovered
        /\ pc = "sink" => output = Emitted(Recovered, DataRows, position)
        /\ pc \in Published \cup {"sink"} => fold = Push(Recovered, DataRows, position)
        /\ pc \in Published =>
              \/ Ahead \in DOMAIN sink
              \/ Kind # "complete" /\ Emitted(Recovered, DataRows, position) = NoRows
        /\ pc \in {"sink", "state"} /\ Stateful => delta = DataRows

(* A drain marker: nothing read, nothing published.                        *)
InDrain ==
    pc \in InEpoch /\ epoch = "drain" =>
        /\ pc \in Published \cup {"record"} /\ Ahead \notin finals
        /\ position = Seek /\ fold = Recovered /\ ~ DataLogged
        /\ pc # "record" => offsets[Ahead] = position

(* A flush, or its replay after a crash: the open windows go to the sink.  *)
InFlush ==
    pc \in InEpoch /\ epoch \in {"flush", "replay"} =>
        /\ Kind = "windowed" /\ pc \notin {"record", "fold"}
        /\ position = Seek /\ offsets[Ahead] = position
        /\ fold = [Recovered EXCEPT !.count = NoRows]
        /\ epoch = "flush" => Recovered.count # NoRows
        /\ epoch = "replay" => pc # "mark"
        /\ pc = "mark" => Ahead \notin DOMAIN sink
        /\ pc # "mark" => Ahead \in finals
        /\ pc \in {"mark", "sink"} => output = Recovered.count
        /\ pc \in Published /\ Recovered.count # NoRows => Ahead \in DOMAIN sink

(* What the epoch wrote to the state directory restores its fold.          *)
WroteSnapshot == Ahead \in DOMAIN snapshots /\ snapshots[Ahead] = fold
WroteDelta ==
    /\ epoch = "data" /\ Ahead \in DOMAIN deltas
    /\ deltas[Ahead] = [rows |-> DataRows, evicted |-> fold.evicted]
StateWritten ==
    /\ pc = "dropdelta" => WroteSnapshot
    /\ pc = "dropsnapshot" => WroteDelta
    /\ pc = "commit" /\ Stateful =>
          WroteSnapshot \/ fold = EmptyFold \/ (WroteDelta /\ Ahead \notin DOMAIN snapshots)

(* Only windows are flushed, and only a drain or a stop leads there.       *)
NoFlush ==
    /\ Kind # "windowed" => finals = {}
    /\ ~ Drains /\ ~ Stops =>
          /\ ~ stopping /\ epoch = "data" /\ finals = {}
          /\ pc \notin {"finalize", "mark", "replay", "done"}

ExactInv ==
    /\ ChainInv /\ Restart
    /\ AtRest /\ InData /\ InDrain /\ InFlush /\ StateWritten /\ NoFlush

-----------------------------------------------------------------------------
(* The restart point.                                                      *)

(* No step but a commit moves it: CommitDecidesHolds, one step of it.      *)
LEMMA PointKept ==
    ASSUME ChainInv, ChainInv', [Next]_vars, ~ Commit
    PROVE  Last' = Last /\ Recovered' = Recovered /\ Seek' = Seek
<1>1. Last' = Last
  <2>1. CASE PruneCommits
    BY <2>1, PruneCommitsKeepsLast DEF ChainInv
  <2>2. CASE ~ PruneCommits
    <3>1. commits' = commits
      BY <2>2 DEF Next, EngineStep, Produce, Start, StopRequest, TestStop, Stage, Exhausted, Idle,
             RecordOffsets, Fold, WriteSink, WriteDelta, WriteSnapshot, DropOther, PruneState,
             PruneLogs, FinalizeNothing, FinalizeRecord, FinalizeMark, ReplayFinalize, Crash, Fault,
             Terminated, vars, durable, logs
    <3> QED  BY <3>1 DEF Last
  <2> QED  BY <2>1, <2>2
<1>2. SameChain
  BY OnlyCommitMovesChain
<1>3. commits # {} => offsets'[Last] = offsets[Last]
  BY OnlyCommitMovesPosition
<1> QED  BY <1>1, <1>2, <1>3, SameRecovery DEF ChainInv, Seek

(* What the restart point is: a position of the source, and a fold that    *)
(* counts rows up to it, none twice.                                       *)
LEMMA PointFacts ==
    ASSUME ExactInv
    PROVE  /\ Seek \in 0..N /\ Last \in Int /\ Last >= -1 /\ Ahead \in Nat
           /\ Recovered \in FoldStates /\ Recovered.count \in Counts /\ Recovered.evicted \in Nat
           /\ \A r \in Rows : Recovered.count[r] \in {0, 1}
           /\ \A r \in Rows : r > Seek => Recovered.count[r] = 0
<1>1. /\ Seek \in 0..N /\ Last \in Int /\ Last >= -1 /\ Ahead \in Nat
      /\ Recovered \in FoldStates
  BY PlanFacts, RecoveredTypes, LastFacts DEF ExactInv, ChainInv, Seek, Ahead
<1>2. Recovered.count \in Counts /\ Recovered.evicted \in Nat
  BY <1>1 DEF FoldStates, Counts
<1>3. \A r \in Rows : Recovered.count[r] \in {0, 1}
  BY <1>1 DEF ExactInv, Restart, Ledger, ResumeExact, Seek
<1>4. \A r \in Rows : r > Seek => Recovered.count[r] = 0
  BY <1>1, NAssumption DEF ExactInv, Restart, Ledger, ResumeExact, Seek, Rows
<1> QED  BY <1>1, <1>2, <1>3, <1>4

(* What the next data epoch publishes counts no row twice, and no row that *)
(* is not in the restored fold or just read.                               *)
LEMMA EmittedOnce ==
    ASSUME ExactInv, NEW e \in 0..N
    PROVE  LET out == Emitted(Recovered, Between(Seek, e), e)
           IN  /\ out \in Counts
               /\ \A r \in Rows : out[r] \in {0, 1}
               /\ \A r \in Rows : out[r] > 0 => Recovered.count[r] = 1 \/ r \in Between(Seek, e)
<1> DEFINE X == Plus(Recovered.count, OneEach(Between(Seek, e)))
<1>1. /\ Recovered.count \in Counts /\ Seek \in 0..N
      /\ \A r \in Rows : Recovered.count[r] \in {0, 1}
      /\ \A r \in Rows : r > Seek => Recovered.count[r] = 0
      /\ Recovered \in FoldStates
  BY PointFacts
<1>2. \A r \in Rows : /\ X[r] \in {0, 1}
                      /\ X[r] > 0 => Recovered.count[r] = 1 \/ r \in Between(Seek, e)
  <2> SUFFICES ASSUME NEW r \in Rows
               PROVE  /\ X[r] \in {0, 1}
                      /\ X[r] > 0 => Recovered.count[r] = 1 \/ r \in Between(Seek, e)
    OBVIOUS
  <2>1. X[r] = Recovered.count[r] + (IF r \in Between(Seek, e) THEN 1 ELSE 0)
    BY DEF Plus, OneEach
  <2>2. r \in Between(Seek, e) => Recovered.count[r] = 0
    BY <1>1, NAssumption DEF Between, Rows
  <2> QED  BY <1>1, <2>1, <2>2
<1>3. \A r \in Rows : Closed(X, e)[r] = 0 \/ Closed(X, e)[r] = X[r]
  BY DEF Closed
<1>4. Emitted(Recovered, Between(Seek, e), e) \in Counts
  BY <1>1, PushTypes
<1>5. CASE Kind = "stateless"
  BY <1>4, <1>5 DEF Emitted, OneEach
<1>6. CASE Kind = "complete"
  BY <1>2, <1>4, <1>6 DEF Emitted
<1>7. CASE Kind = "windowed"
  <2>1. Emitted(Recovered, Between(Seek, e), e) = Closed(X, e)
    BY <1>7 DEF Emitted
  <2> HIDE DEF X
  <2> QED  BY <1>2, <1>3, <1>4, <2>1
<1> QED  BY <1>5, <1>6, <1>7, KindAssumption

-----------------------------------------------------------------------------
(* What the invariant says about rows.                                     *)

(* A row that the id ahead delivers was not delivered by a commit.         *)
LEMMA AheadIsNew ==
    ASSUME ExactInv, Kind # "complete", Ahead \in DOMAIN sink, NEW r \in Rows, sink[Ahead][r] > 0
    PROVE  ~ \E i \in Deliveries(r) : i <= Last
<1>1. Seek \in 0..N /\ \A q \in Rows : Recovered.count[q] \in {0, 1}
  BY PointFacts
<1>2. Recovered.count[r] = 1 \/ r > Seek
  <2>1. CASE DataLogged /\ sink[Ahead] = Emitted(Recovered, Between(Seek, offsets[Ahead]), offsets[Ahead])
    <3>1. offsets[Ahead] \in 0..N
      BY <2>1 DEF ExactInv, ChainInv, IInv, TypeOK, PartialFunction, DataLogged
    <3>2. Recovered.count[r] = 1 \/ r \in Between(Seek, offsets[Ahead])
      BY <2>1, <3>1, EmittedOnce
    <3> QED  BY <1>1, <3>2, NAssumption DEF Between, Rows
  <2>2. CASE sink[Ahead] = Recovered.count
    BY <1>1, <2>2
  <2> QED  BY <2>1, <2>2 DEF ExactInv, Restart, AheadPublished
<1>3. ResumeExact
  BY DEF ExactInv, Restart, Ledger
<1>4. r > Seek => ~ \E i \in Deliveries(r) : i <= Last
  BY <1>3 DEF ResumeExact, Seek, Last
<1>5. ~ (r > Seek) => Recovered.count[r] = IF \E i \in Deliveries(r) : i <= Last THEN 0 ELSE 1
  BY <1>3 DEF ResumeExact, Seek, Last
<1> QED  BY <1>2, <1>4, <1>5

(* The invariant contains the safety properties of the query.              *)
LEMMA ExactImplies ==
    ExactInv => /\ NoRowLost /\ NoRowDuplicated /\ ResumeExact
                /\ ReplayIdentical /\ AnswerExact /\ EndsDelivered
<1> SUFFICES ASSUME ExactInv
             PROVE  /\ NoRowLost /\ NoRowDuplicated /\ ResumeExact
                    /\ ReplayIdentical /\ AnswerExact /\ EndsDelivered
  OBVIOUS
<1>1. ResumeExact /\ AnswerExact
  BY DEF ExactInv, Restart, Ledger
<1>2. /\ Seek \in 0..N /\ Last \in Int /\ Recovered.count \in Counts
      /\ \A r \in Rows : Recovered.count[r] \in {0, 1}
  BY PointFacts
<1>3. NoRowLost
  <2> SUFFICES ASSUME NEW r \in Rows, r <= Seek
               PROVE  Recovered.count[r] > 0 \/ (Kind # "complete" /\ Deliveries(r) # {})
    BY DEF NoRowLost, Seek
  <2>1. ~ (r > Seek)
    BY <1>2, NAssumption DEF Rows
  <2>2. IF Kind = "complete" THEN Recovered.count[r] = 1
        ELSE Recovered.count[r] = IF \E i \in Deliveries(r) : i <= Last THEN 0 ELSE 1
    BY <1>1, <2>1 DEF ResumeExact, Seek, Last
  <2> QED  BY <2>2
<1>4. NoRowDuplicated
  <2>1. \A i \in DOMAIN sink : i <= Last \/ i = Ahead
    BY DEF ExactInv, ChainInv, IInv, WriteAhead, Last, Ahead
  <2>2. ASSUME NEW r \in Rows, Ahead \in DOMAIN sink PROVE sink[Ahead][r] <= 1
    <3>1. CASE DataLogged /\ sink[Ahead] = Emitted(Recovered, Between(Seek, offsets[Ahead]), offsets[Ahead])
      <4>1. offsets[Ahead] \in 0..N
        BY <3>1 DEF ExactInv, ChainInv, IInv, TypeOK, PartialFunction, DataLogged
      <4>2. sink[Ahead][r] \in {0, 1}
        BY <3>1, <4>1, EmittedOnce
      <4> QED  BY <4>2
    <3>2. CASE sink[Ahead] = Recovered.count
      BY <1>2, <3>2
    <3> QED  BY <2>2, <3>1, <3>2 DEF ExactInv, Restart, AheadPublished
  <2>3. ASSUME NEW r \in Rows, Kind # "complete", NEW i \in Deliveries(r), NEW j \in Deliveries(r)
        PROVE  i = j
    <3>1. (i <= Last \/ i = Ahead) /\ (j <= Last \/ j = Ahead)
      BY <2>1 DEF Deliveries
    <3>2. Ahead \in Deliveries(r) => ~ \E k \in Deliveries(r) : k <= Last
      BY <2>3, AheadIsNew DEF Deliveries
    <3>3. i <= Last /\ j <= Last => i = j
      BY <2>3 DEF ExactInv, Restart, Ledger
    <3> QED  BY <3>1, <3>2, <3>3
  <2> QED  BY <2>1, <2>2, <2>3 DEF NoRowDuplicated, ExactInv, Restart, Ledger
<1>5. ReplayIdentical
  <2> SUFFICES ASSUME pc = "sink", batches \in DOMAIN sink PROVE sink[batches] = output
    BY DEF ReplayIdentical
  <2>1. batches = Ahead /\ epoch \in {"data", "drain", "flush", "replay"}
    BY DEF ExactInv, ChainInv, IInv, TypeOK, IdInFlight, Pruning, Ahead
  <2>2. \/ DataLogged /\ sink[Ahead] = Emitted(Recovered, Between(Seek, offsets[Ahead]), offsets[Ahead])
        \/ Ahead \in finals /\ sink[Ahead] = Recovered.count
    BY <2>1 DEF ExactInv, Restart, AheadPublished
  <2>3. CASE epoch = "data"
    BY <2>1, <2>2, <2>3 DEF ExactInv, InData, InEpoch, DataRows
  <2>4. CASE epoch \in {"flush", "replay"}
    <3>1. offsets[Ahead] = Seek /\ output = Recovered.count
      BY <2>4 DEF ExactInv, InFlush, InEpoch
    <3> QED  BY <1>2, <2>1, <2>2, <3>1 DEF DataLogged
  <2>5. CASE epoch = "drain"
    BY <2>5 DEF ExactInv, InDrain, InEpoch, Published
  <2> QED  BY <2>1, <2>3, <2>4, <2>5
<1>6. EndsDelivered
  <2> SUFFICES ASSUME pc = "done", Kind # "complete", NEW r \in Rows, r <= position
               PROVE  Deliveries(r) # {} /\ Recovered.count[r] = 0
    BY DEF EndsDelivered
  <2>1. position = Seek /\ Recovered.count = NoRows
    BY DEF ExactInv, AtRest
  <2>2. ~ (r > Seek)
    BY <1>2, <2>1, NAssumption DEF Rows
  <2>3. Recovered.count[r] = IF \E i \in Deliveries(r) : i <= Last THEN 0 ELSE 1
    BY <1>1, <2>2 DEF ResumeExact, Seek, Last
  <2>4. Recovered.count[r] = 0
    BY <2>1 DEF NoRows
  <2> QED  BY <2>3, <2>4
<1> QED  BY <1>1, <1>3, <1>4, <1>5, <1>6

-----------------------------------------------------------------------------
(* The invariant holds initially.                                          *)

(* An empty checkpoint restarts at position 0 with an empty fold.          *)
LEMMA ExactInit == Init => ExactInv
<1> SUFFICES ASSUME Init PROVE ExactInv
  OBVIOUS
<1>1. ChainInv
  BY InitBacked
<1>2. Last = -1 /\ Ahead = 0 /\ Seek = 0 /\ Plan.stateAt = NoBatch
  BY <1>1, LastFacts, PlanFacts DEF ChainInv, Init, Seek, Ahead
<1>3. Recovered = EmptyFold
  BY <1>2 DEF Recovered
<1>4. Recovered.count = NoRows /\ Recovered.evicted = 0
  BY <1>3 DEF EmptyFold
<1>5. Restart
  <2>1. \A r \in Rows : r > 0 /\ Recovered.count[r] = 0 /\ Deliveries(r) = {}
    BY <1>4, NAssumption DEF Init, NoRows, Rows, Deliveries
  <2>2. ResumeExact
    <3>1. \A r \in Rows : ~ (r <= Plan.seek) /\ r > Plan.seek
      BY <1>2, <2>1, NAssumption DEF Seek, Rows
    <3> QED  BY <2>1, <3>1 DEF ResumeExact
  <2>3. Ledger
    BY <2>1, <2>2 DEF Init, Ledger, AnswerExact
  <2> QED  BY <1>2, <1>4, <2>3 DEF Init, Restart, AheadLogged, AheadPublished, NoStateBeforeRows, ClosedUpToSeek
<1>6. AtRest /\ InData /\ InDrain /\ InFlush /\ StateWritten /\ NoFlush
  BY DEF Init, AtRest, InData, InDrain, InFlush, StateWritten, NoFlush, Pruning, InEpoch
<1> QED  BY <1>1, <1>5, <1>6 DEF ExactInv

-----------------------------------------------------------------------------
(* Steps that keep the restart point.                                      *)

SamePoint == Last' = Last /\ Recovered' = Recovered /\ Seek' = Seek

(* What is logged and published ahead, and the ledger, do not notice rows  *)
(* the source receives or log rows that are swept.                         *)
LEMMA RestartFrame ==
    ASSUME ExactInv, SamePoint, sink' = sink, available' \in Nat, available' >= available,
           Ahead \in DOMAIN offsets => Ahead \in DOMAIN offsets',
           DOMAIN offsets' \subseteq DOMAIN offsets,
           \A i \in DOMAIN offsets' : offsets'[i] = offsets[i],
           Ahead \in finals' <=> Ahead \in finals, commits' \subseteq commits
    PROVE  /\ AheadLogged' /\ AheadPublished' /\ ClosedUpToSeek' /\ Ledger'
           /\ DataLogged' <=> DataLogged
<1>1. Ahead' = Ahead
  BY DEF SamePoint, Ahead
<1>2. DataLogged' <=> DataLogged
  BY <1>1 DEF SamePoint, DataLogged
<1>3. AheadLogged'
  <2>1. AheadLogged /\ available \in Nat
    BY NAssumption DEF ExactInv, Restart, ChainInv, IInv, TypeOK
  <2>2. Ahead \in DOMAIN offsets => offsets[Ahead] \in Nat
    BY NAssumption DEF ExactInv, ChainInv, IInv, TypeOK, PartialFunction
  <2> QED  BY <1>1, <2>1, <2>2 DEF SamePoint, AheadLogged
<1>4. AheadPublished'
  BY <1>1, <1>2 DEF SamePoint, ExactInv, Restart, AheadPublished, DataLogged
<1>5. ClosedUpToSeek'
  BY DEF SamePoint, ExactInv, Restart, ClosedUpToSeek
<1>6. ResumeExact'
  <2>1. \A r \in Rows : Deliveries(r)' = Deliveries(r)
    BY DEF Deliveries
  <2>2. ResumeExact
    BY DEF ExactInv, Restart, Ledger
  <2> QED  BY <2>1, <2>2 DEF SamePoint, ResumeExact, Seek, Last
<1>7. AnswerExact'
  BY DEF ExactInv, Restart, Ledger, AnswerExact
<1>8. Ledger'
  BY <1>6, <1>7 DEF SamePoint, ExactInv, Restart, Ledger, Deliveries
<1> QED  BY <1>2, <1>3, <1>4, <1>5, <1>8

(* A step that writes nothing durable keeps all that is said of it.        *)
LEMMA DurableFrame ==
    ASSUME ExactInv, SamePoint, UNCHANGED durable, available' \in Nat, available' >= available
    PROVE  Restart' /\ (DataLogged' <=> DataLogged) /\ Ahead' = Ahead
<1>1. UNCHANGED <<offsets, finals, commits, snapshots, deltas, sink>>
  BY DEF durable, logs, files
<1>2. /\ AheadLogged' /\ AheadPublished' /\ ClosedUpToSeek' /\ Ledger'
      /\ DataLogged' <=> DataLogged
  BY <1>1, RestartFrame
<1>3. NoStateBeforeRows'
  BY <1>1, <1>2 DEF SamePoint, ExactInv, Restart, NoStateBeforeRows
<1> QED  BY <1>2, <1>3 DEF Restart, SamePoint, Ahead

(* The source receives a row.                                              *)
LEMMA ProduceExact ==
    ASSUME ExactInv, ChainInv', SamePoint, Produce
    PROVE  ExactInv'
<1>1. /\ UNCHANGED <<pc, epoch, position, staged, output, fold, delta, stopping, durable>>
      /\ available' = available + 1 /\ available \in Nat
  BY NAssumption DEF Produce, engine, work, state, ExactInv, ChainInv, IInv, TypeOK
<1>2. UNCHANGED <<offsets, finals, commits, snapshots, deltas, sink>>
  BY <1>1 DEF durable, logs, files
<1>3. Restart' /\ (DataLogged' <=> DataLogged) /\ Ahead' = Ahead
  BY <1>1, DurableFrame
<1>4. position \in Nat
  BY NAssumption DEF ExactInv, ChainInv, IInv, TypeOK
<1>5. AtRest' /\ InDrain' /\ InFlush' /\ StateWritten' /\ NoFlush'
  BY <1>1, <1>2, <1>3 DEF SamePoint, ExactInv, AtRest, InDrain, InFlush, StateWritten, WroteSnapshot,
     WroteDelta, DataRows, NoFlush
<1>6. InData'
  BY <1>1, <1>2, <1>3, <1>4 DEF SamePoint, ExactInv, InData, DataRows
<1> QED  BY <1>3, <1>5, <1>6 DEF ExactInv

(* A new process stands at the restart point.                              *)
LEMMA StartExact ==
    ASSUME ExactInv, ChainInv', SamePoint, Start
    PROVE  ExactInv'
<1>1. /\ UNCHANGED <<durable, available>> /\ available \in Nat
      /\ position' = Seek /\ fold' = Recovered /\ stopping' = FALSE /\ epoch' = "data"
      /\ pc' = IF Plan.pending THEN "replay" ELSE "loop"
  BY NAssumption DEF Start, Seek, ExactInv, ChainInv, IInv, TypeOK
<1>2. UNCHANGED <<offsets, finals, commits, snapshots, deltas, sink>>
  BY <1>1 DEF durable, logs, files
<1>3. Restart' /\ (DataLogged' <=> DataLogged) /\ Ahead' = Ahead
  BY <1>1, DurableFrame
<1>4. Plan.pending <=> Ahead \in finals
  <2>1. Plan.pending <=> DOMAIN offsets # {} /\ Ahead \in finals
    BY DEF Plan, Recover, PendingFlush, Ahead, Last
  <2> QED  BY <2>1 DEF ExactInv, ChainInv, IInv, MarkersAreLogged
<1>5. AtRest' /\ InData' /\ InDrain' /\ InFlush' /\ StateWritten'
  BY <1>1, <1>2, <1>3, <1>4 DEF SamePoint, AtRest, InData, InDrain, InFlush, StateWritten, InEpoch, Pruning
<1>6. NoFlush'
  BY <1>1, <1>2, <1>4 DEF ExactInv, NoFlush
<1> QED  BY <1>3, <1>5, <1>6 DEF ExactInv

(* A process that ends leaves the durable part to the next one.            *)
LEMMA DieExact ==
    ASSUME ExactInv, ChainInv', SamePoint, Die, UNCHANGED <<durable, available>>
    PROVE  ExactInv'
<1>1. pc' = "down" /\ stopping' = FALSE /\ epoch' = "data" /\ available \in Nat
  BY NAssumption DEF Die, ExactInv, ChainInv, IInv, TypeOK
<1>2. UNCHANGED <<offsets, finals, commits, snapshots, deltas, sink>>
  BY DEF durable, logs, files
<1>3. Restart'
  BY <1>1, DurableFrame
<1>4. AtRest' /\ InData' /\ InDrain' /\ InFlush' /\ StateWritten'
  BY <1>1 DEF AtRest, InData, InDrain, InFlush, StateWritten, InEpoch, Pruning
<1>5. NoFlush'
  BY <1>1, <1>2 DEF ExactInv, NoFlush
<1> QED  BY <1>3, <1>4, <1>5 DEF ExactInv

(* A rollback in the living process, with a restore point to roll back to, *)
(* is a restart in all that matters.                                       *)
LEMMA FaultExact ==
    ASSUME ~ FaultsBeforeRestorePoint, ExactInv, ChainInv', SamePoint, Fault
    PROVE  ExactInv'
<1>1. UNCHANGED <<durable, available>> /\ available \in Nat /\ HasRestorePoint
  BY NAssumption DEF Fault, ExactInv, ChainInv, IInv, TypeOK
<1>2. CASE stopping \/ NextRestarts > MaxAttempts
  BY <1>1, <1>2, DieExact DEF Fault
<1>3. CASE ~ (stopping \/ NextRestarts > MaxAttempts)
  <2>1. RollBack
    BY <1>3 DEF Fault
  <2>2. /\ position' = Seek /\ fold' = RolledBack /\ pc' = "loop" /\ UNCHANGED <<epoch, stopping>>
        /\ ~ stopping
    BY <1>1, <1>3, <2>1 DEF RollBack, HasRestorePoint, Seek
  <2>3. RolledBack = Recovered
    <3>1. CASE Stateful
      BY <1>1, <3>1 DEF HasRestorePoint, RolledBack, Recovered
    <3>2. CASE ~ Stateful
      <4>1. fold = EmptyFold
        BY <3>2 DEF ExactInv, ChainInv, StatelessHasNoState
      <4>2. Plan.stateAt # NoBatch => HasBase
        BY RestoreNeedsBase DEF ExactInv, ChainInv
      <4>3. ~ HasBase
        BY <3>2 DEF ExactInv, ChainInv, StatelessHasNoState, HasBase
      <4> QED  BY <4>1, <4>2, <4>3 DEF RolledBack, Recovered
    <3> QED  BY <3>1, <3>2
  <2>4. UNCHANGED <<offsets, finals, commits, snapshots, deltas, sink>>
    BY <1>1 DEF durable, logs, files
  <2>5. Restart' /\ (DataLogged' <=> DataLogged) /\ Ahead' = Ahead
    BY <1>1, DurableFrame
  <2>6. Ahead \notin finals
    <3>1. /\ pc \in {"stage", "fold", "sink", "state"}
          /\ pc # "stage" => epoch \in {"data", "drain"}
      BY DEF Fault
    <3> QED  BY <3>1 DEF ExactInv, AtRest, InData, InDrain, InEpoch
  <2>7. AtRest' /\ InData' /\ InDrain' /\ InFlush' /\ StateWritten'
    BY <2>2, <2>3, <2>4, <2>5, <2>6 DEF SamePoint, AtRest, InData, InDrain, InFlush, StateWritten, InEpoch, Pruning
  <2>8. NoFlush'
    BY <2>2, <2>4 DEF ExactInv, NoFlush
  <2> QED  BY <2>5, <2>7, <2>8 DEF ExactInv
<1> QED  BY <1>2, <1>3

(* stop(), the loop's test of it, and steps that change nothing.           *)
LEMMA IdleExact ==
    ASSUME ~ StopsDuringReplay, ExactInv, ChainInv', SamePoint,
           StopRequest \/ TestStop \/ UNCHANGED vars
    PROVE  ExactInv'
<1> DEFINE Kept == UNCHANGED <<durable, available, epoch, position, staged, output, fold, delta>>
<1>0. Kept
  <2>1. StopRequest => Kept
    BY DEF StopRequest, env, work, state
  <2>2. TestStop => Kept
    BY DEF TestStop, env, work, state
  <2>3. UNCHANGED vars => Kept
    BY DEF vars, engine, env, work, state
  <2> QED  BY <2>1, <2>2, <2>3
<1>1. /\ UNCHANGED <<durable, available, epoch, position, staged, output, fold, delta>>
      /\ available \in Nat
  BY <1>0, NAssumption DEF ExactInv, ChainInv, IInv, TypeOK
<1>2. UNCHANGED <<offsets, finals, commits, snapshots, deltas, sink>>
  BY <1>1 DEF durable, logs, files
<1>3. Restart' /\ (DataLogged' <=> DataLogged) /\ Ahead' = Ahead
  BY <1>1, DurableFrame
<1>4. CASE pc' = pc
  <2>1. stopping' # stopping => pc \notin {"loop", "stage"} \/ StopsDuringReplay \/ Ahead \notin DOMAIN offsets
    BY DEF StopRequest, TestStop, vars, engine, ExactInv, ChainInv, IInv, IdInFlight, Pruning, Ahead
  <2>2. InData' /\ InDrain' /\ InFlush' /\ StateWritten'
    BY <1>1, <1>2, <1>3, <1>4 DEF SamePoint, ExactInv, InData, InDrain, InFlush, StateWritten,
       WroteSnapshot, WroteDelta, DataRows
  <2>3. ~ Stops => stopping' = stopping
    BY DEF StopRequest, TestStop, vars, engine
  <2>4. NoFlush'
    BY <1>1, <1>2, <1>4, <2>3 DEF ExactInv, NoFlush
  <2>5. stopping \in BOOLEAN /\ stopping' \in BOOLEAN
    BY DEF ExactInv, ChainInv, IInv, TypeOK
  <2>6. AtRest'
    BY <1>1, <1>2, <1>3, <1>4, <2>1, <2>5 DEF SamePoint, ExactInv, AtRest
  <2> QED  BY <1>3, <2>2, <2>4, <2>6 DEF ExactInv
<1>5. CASE pc' # pc
  <2>1. pc = "loop" /\ pc' = (IF stopping THEN "finalize" ELSE "stage") /\ stopping' = stopping
    BY <1>5 DEF StopRequest, TestStop, vars, engine
  <2>2. AtRest' /\ InData' /\ InDrain' /\ InFlush' /\ StateWritten' /\ NoFlush'
    BY <1>1, <1>2, <1>3, <2>1 DEF SamePoint, ExactInv, AtRest, InData, InDrain, InFlush, StateWritten,
       NoFlush, InEpoch, Pruning
  <2> QED  BY <1>3, <2>2 DEF ExactInv
<1> QED  BY <1>4, <1>5

(* A read from the restart point, and the end of the reading.              *)
LEMMA StageExact ==
    ASSUME ExactInv, ChainInv', SamePoint, Stage \/ Exhausted
    PROVE  ExactInv'
<1>1. /\ UNCHANGED <<durable, available, fold, delta, stopping>> /\ pc = "stage" /\ pc' = "record"
      /\ available \in Nat
  BY NAssumption DEF Stage, Exhausted, env, work, state, ExactInv, ChainInv, IInv, TypeOK
<1>2. UNCHANGED <<offsets, finals, commits, snapshots, deltas, sink>>
  BY <1>1 DEF durable, logs, files
<1>3. Restart' /\ (DataLogged' <=> DataLogged) /\ Ahead' = Ahead
  BY <1>1, DurableFrame
<1>4. /\ position = Seek /\ fold = Recovered /\ Ahead \notin finals
      /\ stopping => Ahead \notin DOMAIN offsets
  BY <1>1 DEF ExactInv, AtRest, Pruning
<1>5. AtRest' /\ InFlush' /\ StateWritten'
  <2>1. epoch' \in {"data", "drain"}
    BY DEF Stage, Exhausted
  <2> QED  BY <1>1, <2>1 DEF AtRest, InFlush, StateWritten, Pruning
<1>6. CASE Stage
  <2>1. /\ epoch' = "data" /\ position' \in Polls[Seek] /\ position' <= available
        /\ staged' = {r \in Rows : Seek < r /\ r <= position'}
    BY <1>4, <1>6 DEF Stage, Readable
  <2>2. InData' /\ InDrain' /\ NoFlush'
    BY <1>1, <1>2, <1>3, <1>4, <2>1 DEF SamePoint, ExactInv, InData, InDrain, NoFlush, InEpoch, Published,
       DataRows, Between
  <2> QED  BY <1>3, <1>5, <2>2 DEF ExactInv
<1>7. CASE Exhausted
  <2>1. epoch' = "drain" /\ position' = position /\ (stopping \/ (Drains /\ Readable = {}))
    BY <1>7 DEF Exhausted, StageEnds
  <2>2. ~ DataLogged
    <3>1. SUFFICES ASSUME DataLogged PROVE FALSE
      OBVIOUS
    <3>2. Ahead \in DOMAIN offsets /\ offsets[Ahead] \in Nat /\ Seek \in Nat /\ offsets[Ahead] # Seek
      BY <3>1, PointFacts, NAssumption DEF DataLogged, ExactInv, ChainInv, IInv, TypeOK, PartialFunction
    <3>3. offsets[Ahead] \in Readable
      BY <1>4, <3>2 DEF ExactInv, Restart, AheadLogged, Readable
    <3> QED  BY <1>4, <2>1, <3>2, <3>3
  <2>3. Drains \/ Stops
    BY <2>1 DEF ExactInv, NoFlush
  <2>4. InData' /\ InDrain' /\ NoFlush'
    BY <1>1, <1>2, <1>3, <1>4, <2>1, <2>2, <2>3 DEF SamePoint, ExactInv, InData, InDrain, NoFlush, InEpoch,
       Published
  <2> QED  BY <1>3, <1>5, <2>4 DEF ExactInv
<1> QED  BY <1>6, <1>7

(* The push of a data epoch.                                               *)
LEMMA FoldExact ==
    ASSUME ExactInv, ChainInv', SamePoint, Fold
    PROVE  ExactInv'
<1>1. /\ UNCHANGED <<durable, available, epoch, position, stopping>> /\ pc = "fold" /\ pc' = "sink"
      /\ available \in Nat
      /\ fold' = Push(fold, staged, position) /\ output' = Emitted(fold, staged, position)
      /\ Stateful => delta' = staged
  BY NAssumption DEF Fold, env, ExactInv, ChainInv, IInv, TypeOK
<1>2. UNCHANGED <<offsets, finals, commits, snapshots, deltas, sink>>
  BY <1>1 DEF durable, logs, files
<1>3. Restart' /\ (DataLogged' <=> DataLogged) /\ Ahead' = Ahead
  BY <1>1, DurableFrame
<1>4. epoch = "data"
  BY <1>1 DEF ExactInv, ChainInv, IInv, TypeOK, InDrain, InFlush, InEpoch, Published
<1>5. AtRest' /\ InDrain' /\ InFlush' /\ StateWritten' /\ NoFlush'
  BY <1>1, <1>2, <1>4 DEF ExactInv, AtRest, InDrain, InFlush, StateWritten, NoFlush, Pruning
<1>6. InData'
  BY <1>1, <1>2, <1>3, <1>4 DEF SamePoint, ExactInv, InData, InEpoch, Published, DataRows
<1> QED  BY <1>3, <1>5, <1>6 DEF ExactInv

(* The flush finds nothing, or is run again after a crash.                 *)
LEMMA FlushExact ==
    ASSUME ExactInv, ChainInv', SamePoint, FinalizeNothing \/ ReplayFinalize
    PROVE  ExactInv'
<1>1. UNCHANGED <<durable, available, position, stopping>> /\ available \in Nat
  BY NAssumption DEF FinalizeNothing, ReplayFinalize, env, ExactInv, ChainInv, IInv, TypeOK
<1>2. UNCHANGED <<offsets, finals, commits, snapshots, deltas, sink>>
  BY <1>1 DEF durable, logs, files
<1>3. Restart' /\ (DataLogged' <=> DataLogged) /\ Ahead' = Ahead
  BY <1>1, DurableFrame
<1>4. CASE FinalizeNothing
  <2>1. pc = "finalize" /\ pc' = "done" /\ UNCHANGED <<epoch, fold>> /\ Flushable = NoRows
    BY <1>4 DEF FinalizeNothing, state
  <2>2. position = Seek /\ fold = Recovered
    BY <2>1 DEF ExactInv, AtRest
  <2>3. Kind # "complete" => Recovered.count = NoRows
    <3>1. CASE Kind = "windowed"
      BY <2>1, <2>2, <3>1 DEF Flushable
    <3>2. CASE Kind = "stateless"
      BY <2>2, <3>2 DEF ExactInv, ChainInv, StatelessHasNoState, Stateful, EmptyFold
    <3> QED  BY <3>1, <3>2, KindAssumption
  <2>4. AtRest' /\ InData' /\ InDrain' /\ InFlush' /\ StateWritten' /\ NoFlush'
    BY <1>1, <1>2, <2>1, <2>2, <2>3 DEF SamePoint, ExactInv, AtRest, InData, InDrain, InFlush,
       StateWritten, NoFlush, InEpoch, Pruning
  <2> QED  BY <1>3, <2>4 DEF ExactInv
<1>5. CASE ReplayFinalize
  <2>1. /\ pc = "replay" /\ epoch' = "replay" /\ output' = Flushable /\ fold' = Flushed
        /\ pc' = IF Flushable # NoRows THEN "sink" ELSE AfterPublish
    BY <1>5 DEF ReplayFinalize
  <2>2. position = Seek /\ fold = Recovered /\ Ahead \in finals
    BY <2>1 DEF ExactInv, AtRest
  <2>3. Kind = "windowed" /\ (Drains \/ Stops)
    BY <2>2 DEF ExactInv, NoFlush
  <2>4. output' = Recovered.count /\ fold' = [Recovered EXCEPT !.count = NoRows]
    BY <2>1, <2>2, <2>3 DEF Flushable, Flushed
  <2>5. pc' \in {"sink", "state"} /\ (pc' = "state" => Recovered.count = NoRows)
    BY <2>1, <2>2, <2>3 DEF Flushable, AfterPublish, Stateful
  <2>6. offsets[Ahead] = Seek
    BY <2>2 DEF ExactInv, ChainInv, IInv, MarkersAreLogged, Restart, AheadLogged
  <2>7. InFlush'
    BY <1>1, <1>2, <1>3, <2>1, <2>2, <2>3, <2>4, <2>5, <2>6 DEF SamePoint, InFlush, InEpoch, Published
  <2>8. AtRest' /\ InData' /\ InDrain' /\ StateWritten' /\ NoFlush'
    BY <1>1, <1>2, <2>1, <2>3, <2>5 DEF ExactInv, AtRest, InData, InDrain, StateWritten, NoFlush, Pruning
  <2> QED  BY <1>3, <2>7, <2>8 DEF ExactInv
<1> QED  BY <1>4, <1>5

-----------------------------------------------------------------------------
(* The write-ahead.                                                        *)

(* The ledger speaks of ids up to the last commit only.                    *)
LEMMA LedgerFrame ==
    ASSUME ExactInv, SamePoint, commits' \subseteq commits,
           \A i \in DOMAIN sink : i <= Last => i \in DOMAIN sink',
           \A i \in DOMAIN sink' : i <= Last => i \in DOMAIN sink /\ sink'[i] = sink[i],
           \A i \in DOMAIN offsets' : i <= Last => i \in DOMAIN offsets /\ offsets'[i] = offsets[i]
    PROVE  Ledger' /\ ClosedUpToSeek'
<1>1. \A r \in Rows : \A i : i <= Last => (i \in Deliveries(r)' <=> i \in Deliveries(r))
  BY DEF Deliveries
<1>2. ResumeExact'
  <2>1. \A r \in Rows : (\E i \in Deliveries(r)' : i <= Last) <=> (\E i \in Deliveries(r) : i <= Last)
    BY <1>1
  <2>2. ResumeExact
    BY DEF ExactInv, Restart, Ledger
  <2> QED  BY <2>1, <2>2 DEF SamePoint, ResumeExact, Seek, Last
<1>3. \A i \in commits' : i \in commits /\ i <= Last
  BY LastFacts DEF ExactInv, ChainInv
<1>4. AnswerExact'
  BY <1>3 DEF ExactInv, Restart, Ledger, AnswerExact
<1>5. \A r \in Rows :
          /\ \A i \in DOMAIN sink' : i <= Last => sink'[i][r] <= 1
          /\ Kind # "complete" => \A i, j \in Deliveries(r)' : i <= Last /\ j <= Last => i = j
  BY <1>1 DEF ExactInv, Restart, Ledger
<1>6. Ledger'
  BY <1>2, <1>4, <1>5 DEF SamePoint, Ledger
<1> QED  BY <1>6 DEF SamePoint, ExactInv, Restart, ClosedUpToSeek

(* A write under the id ahead leaves the rest of a log alone.              *)
LEMMA PutAhead ==
    ASSUME ExactInv, NEW f, NEW v
    PROVE  /\ DOMAIN Put(f, Ahead, v) = DOMAIN f \cup {Ahead}
           /\ Put(f, Ahead, v)[Ahead] = v
           /\ \A i \in DOMAIN Put(f, Ahead, v) : i <= Last => i \in DOMAIN f /\ Put(f, Ahead, v)[i] = f[i]
<1>1. Last \in Int
  BY PointFacts
<1>2. ~ (Ahead <= Last)
  BY <1>1 DEF Ahead
<1> QED  BY <1>2 DEF Put

(* The write-ahead of a data epoch or a drain marker.                      *)
LEMMA RecordExact ==
    ASSUME Deterministic, ExactInv, ChainInv', SamePoint, RecordOffsets
    PROVE  ExactInv'
<1>1. /\ UNCHANGED <<available, epoch, position, staged, output, fold, delta, stopping, finals, commits,
                     snapshots, deltas, sink>>
      /\ pc = "record" /\ pc' = IF epoch = "data" THEN "fold" ELSE AfterPublish
      /\ offsets' = Put(offsets, batches, position)
  BY DEF RecordOffsets, Logged, env, work, state, files
<1>2. batches = Ahead /\ Ahead' = Ahead
  BY <1>1 DEF SamePoint, ExactInv, ChainInv, IInv, IdInFlight, Pruning, Ahead
<1>3. /\ DOMAIN offsets' = DOMAIN offsets \cup {Ahead} /\ offsets'[Ahead] = position
      /\ \A i \in DOMAIN offsets' : i <= Last => i \in DOMAIN offsets /\ offsets'[i] = offsets[i]
  <2>1. offsets' = Put(offsets, Ahead, position)
    BY <1>1, <1>2
  <2> QED  BY <2>1, PutAhead
<1>4. Ledger' /\ ClosedUpToSeek'
  BY <1>1, <1>3, LedgerFrame
<1>5. epoch \in {"data", "drain"} /\ Seek \in 0..N
  BY <1>1, PointFacts DEF ExactInv, ChainInv, IInv, TypeOK, InFlush, InEpoch
<1>6. AtRest' /\ InFlush' /\ StateWritten' /\ NoFlush'
  <2>1. /\ pc' \in {"fold", "state", "commit"} /\ (pc' = "commit" => ~ Stateful)
    BY <1>1 DEF AfterPublish
  <2> QED  BY <1>1, <1>5, <2>1 DEF ExactInv, AtRest, InFlush, StateWritten, NoFlush, Pruning
<1>7. CASE epoch = "data"
  <2>1. /\ position \in Polls[Seek] /\ position <= available /\ Ahead \notin finals
        /\ staged = DataRows /\ fold = Recovered
    BY <1>1, <1>7 DEF ExactInv, InData, InEpoch
  <2>2. position \in Nat /\ position > Seek
    BY <1>5, <2>1, PollsAssumption, NAssumption DEF Rows
  <2>3. DataLogged'
    BY <1>2, <1>3, <2>2 DEF SamePoint, DataLogged
  <2>4. AheadLogged'
    BY <1>1, <1>2, <1>3, <2>1 DEF SamePoint, AheadLogged
  <2>5. Ahead \in DOMAIN sink => DataLogged /\ offsets[Ahead] = position
    <3> SUFFICES ASSUME Ahead \in DOMAIN sink PROVE DataLogged /\ offsets[Ahead] = position
      OBVIOUS
    <3>1. DataLogged
      BY <2>1 DEF ExactInv, Restart, AheadPublished
    <3>2. offsets[Ahead] # Seek
      BY <1>5, <3>1 DEF DataLogged
    <3>3. offsets[Ahead] \in Polls[Seek]
      BY <3>1, <3>2 DEF ExactInv, Restart, AheadLogged, DataLogged
    <3> QED  BY <1>5, <2>1, <3>1, <3>3 DEF Deterministic
  <2>6. AheadPublished'
    BY <1>1, <1>2, <1>3, <2>1, <2>3, <2>5 DEF SamePoint, ExactInv, Restart, AheadPublished
  <2>7. NoStateBeforeRows'
    BY <2>3 DEF NoStateBeforeRows
  <2>8. InData' /\ InDrain'
    BY <1>1, <1>2, <1>3, <1>7, <2>1 DEF SamePoint, InData, InDrain, Published, DataRows
  <2> QED  BY <1>4, <1>6, <2>4, <2>6, <2>7, <2>8 DEF ExactInv, Restart
<1>8. CASE epoch = "drain"
  <2>1. position = Seek /\ fold = Recovered /\ ~ DataLogged /\ Ahead \notin finals
    BY <1>1, <1>8 DEF ExactInv, InDrain, InEpoch
  <2>2. ~ DataLogged' /\ AheadLogged'
    BY <1>2, <1>3, <1>5, <2>1 DEF SamePoint, DataLogged, AheadLogged
  <2>3. Ahead \notin DOMAIN sink
    BY <2>1 DEF ExactInv, Restart, AheadPublished
  <2>4. AheadPublished' /\ NoStateBeforeRows'
    BY <1>1, <1>2, <2>1, <2>2, <2>3 DEF SamePoint, ExactInv, Restart, AheadPublished, NoStateBeforeRows
  <2>5. pc' \in {"state", "commit"}
    BY <1>1, <1>8 DEF AfterPublish
  <2>6. InData' /\ InDrain'
    BY <1>1, <1>2, <1>3, <1>8, <2>1, <2>2, <2>5 DEF SamePoint, InData, InDrain, Published
  <2> QED  BY <1>4, <1>6, <2>2, <2>4, <2>6 DEF ExactInv, Restart
<1> QED  BY <1>5, <1>7, <1>8

(* The write-ahead of a flush: its position, then its marker.              *)
LEMMA FlushLoggedExact ==
    ASSUME ExactInv, ChainInv', SamePoint, FinalizeRecord
    PROVE  ExactInv'
<1>1. /\ UNCHANGED <<available, position, stopping, finals, commits, snapshots, deltas, sink>>
      /\ pc = "finalize" /\ pc' = "mark" /\ epoch' = "flush"
      /\ output' = Flushable /\ fold' = Flushed /\ Flushable # NoRows
      /\ offsets' = Put(offsets, batches, position)
  BY DEF FinalizeRecord, Logged, env, files
<1>2. batches = Ahead /\ Ahead' = Ahead
  BY <1>1 DEF SamePoint, ExactInv, ChainInv, IInv, IdInFlight, Pruning, Ahead
<1>3. /\ DOMAIN offsets' = DOMAIN offsets \cup {Ahead} /\ offsets'[Ahead] = position
      /\ \A i \in DOMAIN offsets' : i <= Last => i \in DOMAIN offsets /\ offsets'[i] = offsets[i]
  <2>1. offsets' = Put(offsets, Ahead, position)
    BY <1>1, <1>2
  <2> QED  BY <2>1, PutAhead
<1>4. Ledger' /\ ClosedUpToSeek' /\ Seek \in 0..N /\ Last \in Int
  BY <1>1, <1>3, LedgerFrame, PointFacts
<1>5. position = Seek /\ fold = Recovered /\ Ahead \notin DOMAIN offsets
  BY <1>1 DEF ExactInv, AtRest
<1>6. Kind = "windowed" /\ output' = Recovered.count /\ fold' = [Recovered EXCEPT !.count = NoRows]
      /\ Recovered.count # NoRows
  BY <1>1, <1>5 DEF Flushable, Flushed
<1>7. Ahead \notin DOMAIN sink /\ Ahead \notin finals
  <2>1. ~ (Ahead <= Last)
    BY <1>4 DEF Ahead
  <2> QED  BY <1>5, <2>1 DEF ExactInv, ChainInv, IInv, WriteAhead, MarkersAreLogged, Last
<1>8. ~ DataLogged /\ ~ DataLogged' /\ AheadLogged'
  BY <1>2, <1>3, <1>4, <1>5 DEF SamePoint, DataLogged, AheadLogged
<1>9. AheadPublished' /\ NoStateBeforeRows'
  BY <1>1, <1>2, <1>7, <1>8 DEF SamePoint, ExactInv, Restart, AheadPublished, NoStateBeforeRows
<1>10. InFlush'
  BY <1>1, <1>2, <1>3, <1>5, <1>6, <1>7 DEF SamePoint, InFlush, Published
<1>11. AtRest' /\ InData' /\ InDrain' /\ StateWritten'
  BY <1>1 DEF AtRest, InData, InDrain, StateWritten, Pruning
<1>12. NoFlush'
  BY <1>1, <1>6 DEF ExactInv, NoFlush
<1> QED  BY <1>4, <1>8, <1>9, <1>10, <1>11, <1>12 DEF ExactInv, Restart

(* The marker tells a replay of a flush from one of a data epoch.          *)
LEMMA MarkExact ==
    ASSUME ExactInv, ChainInv', SamePoint, FinalizeMark
    PROVE  ExactInv'
<1>1. /\ UNCHANGED <<available, epoch, position, output, fold, stopping, offsets, commits, snapshots,
                     deltas, sink>>
      /\ pc = "mark" /\ pc' = "sink" /\ finals' = finals \cup {batches}
  BY DEF FinalizeMark, env, files, work, state
<1>2. batches = Ahead /\ Ahead' = Ahead
  BY <1>1 DEF SamePoint, ExactInv, ChainInv, IInv, IdInFlight, Pruning, Ahead
<1>3. Ledger' /\ ClosedUpToSeek' /\ Seek \in 0..N
  BY <1>1, LedgerFrame, PointFacts
<1>4. epoch = "flush"
  BY <1>1 DEF ExactInv, ChainInv, IInv, TypeOK, InData, InDrain, InFlush, InEpoch, Published
<1>5. /\ position = Seek /\ offsets[Ahead] = Seek /\ Ahead \notin DOMAIN sink /\ Kind = "windowed"
      /\ output = Recovered.count /\ fold = [Recovered EXCEPT !.count = NoRows]
      /\ Recovered.count # NoRows
  BY <1>1, <1>4 DEF ExactInv, InFlush, InEpoch
<1>6. ~ DataLogged /\ ~ DataLogged' /\ AheadLogged'
  BY <1>1, <1>2, <1>3, <1>5 DEF SamePoint, DataLogged, AheadLogged
<1>7. AheadPublished' /\ NoStateBeforeRows'
  BY <1>1, <1>2, <1>5, <1>6 DEF SamePoint, ExactInv, Restart, AheadPublished, NoStateBeforeRows
<1>8. InFlush'
  BY <1>1, <1>2, <1>4, <1>5 DEF SamePoint, InFlush, Published
<1>9. AtRest' /\ InData' /\ InDrain' /\ StateWritten'
  BY <1>1, <1>4 DEF AtRest, InData, InDrain, StateWritten, Pruning
<1>10. NoFlush'
  BY <1>1, <1>4, <1>5 DEF ExactInv, NoFlush
<1> QED  BY <1>3, <1>6, <1>7, <1>8, <1>9, <1>10 DEF ExactInv, Restart

-----------------------------------------------------------------------------
(* The publish and the state files.                                        *)

(* What is published is what any attempt at the epoch publishes.           *)
LEMMA PublishExact ==
    ASSUME ExactInv, ChainInv', SamePoint, WriteSink
    PROVE  ExactInv'
<1>1. /\ UNCHANGED <<available, epoch, position, fold, delta, stopping, offsets, finals, commits, snapshots,
                     deltas>>
      /\ pc = "sink" /\ pc' = AfterPublish /\ sink' = SinkWrite(batches, output)
  BY DEF WriteSink, env, files, logs, state
<1>2. batches = Ahead /\ Ahead' = Ahead
  BY <1>1 DEF SamePoint, ExactInv, ChainInv, IInv, IdInFlight, Pruning, Ahead
<1>3. epoch \in {"data", "flush", "replay"} /\ Seek \in 0..N
  BY <1>1, PointFacts DEF ExactInv, ChainInv, IInv, TypeOK, InDrain, InEpoch, Published
<1>4. \/ /\ sink' = sink /\ Kind # "complete" /\ (Ahead \in DOMAIN sink \/ output = NoRows)
      \/ sink' = Put(sink, Ahead, output)
  BY <1>1, <1>2 DEF SinkWrite
<1>5. /\ \A i \in DOMAIN sink : i \in DOMAIN sink'
      /\ \A i \in DOMAIN sink' : i <= Last => i \in DOMAIN sink /\ sink'[i] = sink[i]
      /\ \/ /\ sink' = sink /\ Kind # "complete" /\ (Ahead \in DOMAIN sink \/ output = NoRows)
         \/ Ahead \in DOMAIN sink' /\ sink'[Ahead] = output
  <2>1. CASE sink' = sink /\ Kind # "complete" /\ (Ahead \in DOMAIN sink \/ output = NoRows)
    BY <2>1
  <2>2. CASE sink' = Put(sink, Ahead, output)
    <3>1. /\ DOMAIN sink' = DOMAIN sink \cup {Ahead}
          /\ \A i \in DOMAIN sink' : sink'[i] = IF i = Ahead THEN output ELSE sink[i]
      BY <2>2 DEF Put
    <3>2. Last \in Int /\ ~ (Ahead <= Last)
      BY PointFacts DEF Ahead
    <3> QED  BY <3>1, <3>2
  <2> QED  BY <1>4, <2>1, <2>2
<1>6. Ledger' /\ ClosedUpToSeek'
  BY <1>1, <1>5, LedgerFrame
<1>7. (DataLogged' <=> DataLogged) /\ AheadLogged'
  BY <1>1, <1>2 DEF SamePoint, ExactInv, Restart, DataLogged, AheadLogged
<1>8. NoStateBeforeRows'
  BY <1>1, <1>7 DEF SamePoint, ExactInv, Restart, NoStateBeforeRows
<1>9. pc' \in {"state", "commit"} /\ (pc' = "commit" => ~ Stateful) /\ (pc' = "state" => Stateful)
  BY <1>1 DEF AfterPublish
<1>10. AtRest' /\ StateWritten' /\ NoFlush'
  BY <1>1, <1>9 DEF ExactInv, AtRest, StateWritten, NoFlush, Pruning
<1>11. CASE epoch = "data"
  <2>1. /\ position \in Polls[Seek] /\ position <= available /\ Ahead \notin finals
        /\ offsets[Ahead] = position /\ output = Emitted(Recovered, DataRows, position)
        /\ fold = Push(Recovered, DataRows, position) /\ (Stateful => delta = DataRows)
    BY <1>1, <1>11 DEF ExactInv, InData, InEpoch
  <2>2. DataLogged
    <3>1. position > Seek
      BY <1>3, <2>1, PollsAssumption, NAssumption DEF Rows
    <3>2. Ahead \in DOMAIN offsets
      BY <1>1, <1>2 DEF ExactInv, ChainInv, IInv, IdInFlight, AfterLogging
    <3> QED  BY <2>1, <3>1, <3>2 DEF DataLogged
  <2>3. AheadPublished'
    <3>1. CASE sink' = sink
      BY <1>1, <1>2, <1>7, <3>1 DEF SamePoint, ExactInv, Restart, AheadPublished
    <3>2. CASE sink'[Ahead] = output
      BY <1>1, <1>2, <1>7, <2>1, <2>2, <3>2 DEF SamePoint, AheadPublished, DataRows
    <3> QED  BY <1>5, <3>1, <3>2
  <2>4. Ahead \in DOMAIN sink' \/ (Kind # "complete" /\ output = NoRows)
    BY <1>5
  <2>5. InData' /\ InDrain' /\ InFlush'
    BY <1>1, <1>2, <1>9, <1>11, <2>1, <2>4 DEF SamePoint, InData, InDrain, InFlush, DataRows
  <2> QED  BY <1>6, <1>7, <1>8, <1>10, <2>3, <2>5 DEF ExactInv, Restart
<1>12. CASE epoch \in {"flush", "replay"}
  <2>1. /\ Kind = "windowed" /\ position = Seek /\ offsets[Ahead] = position
        /\ fold = [Recovered EXCEPT !.count = NoRows]
        /\ epoch = "flush" => Recovered.count # NoRows
        /\ Ahead \in finals /\ output = Recovered.count
    BY <1>1, <1>12 DEF ExactInv, InFlush, InEpoch
  <2>2. AheadPublished'
    <3>1. CASE sink' = sink
      BY <1>1, <1>2, <1>7, <3>1 DEF SamePoint, ExactInv, Restart, AheadPublished
    <3>2. CASE sink'[Ahead] = output
      BY <1>1, <1>2, <2>1, <3>2 DEF SamePoint, AheadPublished
    <3> QED  BY <1>5, <3>1, <3>2
  <2>3. Recovered.count # NoRows => Ahead \in DOMAIN sink'
    BY <1>5, <2>1
  <2>4. InData' /\ InDrain' /\ InFlush'
    BY <1>1, <1>2, <1>9, <1>12, <2>1, <2>3 DEF SamePoint, InData, InDrain, InFlush
  <2> QED  BY <1>6, <1>7, <1>8, <1>10, <2>2, <2>4 DEF ExactInv, Restart
<1> QED  BY <1>3, <1>11, <1>12

(* A state file does not touch the logs or the sink.                       *)
LEMMA FilesFrame ==
    ASSUME ExactInv, SamePoint, UNCHANGED <<available, offsets, finals, commits, sink>>
    PROVE  /\ AheadLogged' /\ AheadPublished' /\ ClosedUpToSeek' /\ Ledger'
           /\ DataLogged' <=> DataLogged
           /\ Ahead' = Ahead
<1>1. available \in Nat
  BY NAssumption DEF ExactInv, ChainInv, IInv, TypeOK
<1>2. Ahead' = Ahead
  BY DEF SamePoint, Ahead
<1> QED  BY <1>1, <1>2, RestartFrame

(* A data epoch that got past its write-ahead is logged as one.            *)
LEMMA DataIsLogged ==
    ASSUME ExactInv, epoch = "data", pc \in {"fold", "sink"} \cup Published
    PROVE  DataLogged
<1>1. position \in Polls[Seek] /\ offsets[Ahead] = position /\ Seek \in 0..N
  BY PointFacts DEF ExactInv, InData, InEpoch, Published
<1>2. position > Seek
  BY <1>1, PollsAssumption, NAssumption DEF Rows
<1>3. Ahead \in DOMAIN offsets
  BY DEF ExactInv, ChainInv, IInv, IdInFlight, AfterLogging, Pruning, Published, Ahead
<1> QED  BY <1>1, <1>2, <1>3 DEF DataLogged

(* Without a state file the restored fold is empty.                        *)
LEMMA NoFilesNoFold ==
    ASSUME ExactInv, DOMAIN snapshots = {}
    PROVE  Recovered = EmptyFold
<1>1. Plan.stateAt # NoBatch => HasBase
  BY RestoreNeedsBase DEF ExactInv, ChainInv
<1> QED  BY <1>1 DEF HasBase, Recovered

(* A changelog entry holds the rows of the data epoch that writes it.      *)
LEMMA WriteDeltaExact ==
    ASSUME EntriesFresh, ExactInv, ChainInv', SamePoint, WriteDelta
    PROVE  ExactInv'
<1>1. /\ UNCHANGED <<available, epoch, position, fold, stopping, offsets, finals, commits, sink, snapshots>>
      /\ pc = "state" /\ pc' = "dropsnapshot" /\ DeltaInterval > 0
      /\ deltas' = Put(deltas, batches, [rows |-> delta, evicted |-> fold.evicted])
  BY DEF WriteDelta, MayTakeDelta, env, logs
<1>2. batches = Ahead
  BY <1>1 DEF ExactInv, ChainInv, IInv, IdInFlight, Pruning, Ahead
<1>3. /\ AheadLogged' /\ AheadPublished' /\ ClosedUpToSeek' /\ Ledger'
      /\ DataLogged' <=> DataLogged
      /\ Ahead' = Ahead
  BY <1>1, FilesFrame
<1>4. epoch = "data" /\ Stateful
  <2>1. DeltaInterval # 0
    BY <1>1, BoundAssumption
  <2> QED  BY <1>1, <2>1 DEF EntriesFresh, ExactInv, NoFlush, ChainInv, StatelessHasNoState
<1>5. delta = DataRows /\ DataLogged
  BY <1>1, <1>4, DataIsLogged DEF ExactInv, InData, InEpoch, Published
<1>6. NoStateBeforeRows'
  BY <1>3, <1>5 DEF NoStateBeforeRows
<1>7. InData' /\ InDrain' /\ InFlush'
  BY <1>1, <1>3, <1>4 DEF SamePoint, ExactInv, InData, InDrain, InFlush, DataRows, InEpoch, Published
<1>8. StateWritten'
  <2>1. Ahead \in DOMAIN deltas' /\ deltas'[Ahead] = [rows |-> DataRows, evicted |-> fold.evicted]
    BY <1>1, <1>2, <1>5 DEF Put
  <2> QED  BY <1>1, <1>3, <1>4, <2>1 DEF SamePoint, StateWritten, WroteDelta, DataRows
<1>9. AtRest' /\ NoFlush'
  BY <1>1 DEF ExactInv, AtRest, NoFlush, Pruning
<1> QED  BY <1>3, <1>6, <1>7, <1>8, <1>9 DEF ExactInv, Restart

(* A snapshot holds the fold; an epoch without rows before the first       *)
(* committed row has nothing to write.                                     *)
LEMMA WriteSnapshotExact ==
    ASSUME ExactInv, ChainInv', SamePoint, WriteSnapshot
    PROVE  ExactInv'
<1>1. /\ UNCHANGED <<available, epoch, position, fold, stopping, offsets, finals, commits, sink, deltas>>
      /\ pc = "state" /\ pc' = IF fold = EmptyFold THEN "commit" ELSE "dropdelta"
      /\ snapshots' = IF fold = EmptyFold THEN snapshots ELSE Put(snapshots, batches, fold)
  BY DEF WriteSnapshot, env, logs
<1>2. batches = Ahead
  BY <1>1 DEF ExactInv, ChainInv, IInv, IdInFlight, Pruning, Ahead
<1>3. /\ AheadLogged' /\ AheadPublished' /\ ClosedUpToSeek' /\ Ledger'
      /\ DataLogged' <=> DataLogged
      /\ Ahead' = Ahead
  BY <1>1, FilesFrame
<1>4. InData' /\ InDrain' /\ InFlush'
  BY <1>1, <1>3 DEF SamePoint, ExactInv, InData, InDrain, InFlush, DataRows, InEpoch, Published
<1>5. AtRest' /\ NoFlush'
  BY <1>1 DEF ExactInv, AtRest, NoFlush, Pruning
<1>6. CASE fold = EmptyFold
  <2>1. NoStateBeforeRows' /\ StateWritten'
    BY <1>1, <1>3, <1>6 DEF SamePoint, ExactInv, Restart, NoStateBeforeRows, StateWritten
  <2> QED  BY <1>3, <1>4, <1>5, <2>1 DEF ExactInv, Restart
<1>7. CASE fold # EmptyFold
  <2>1. StateWritten'
    <3>1. Ahead \in DOMAIN snapshots' /\ snapshots'[Ahead] = fold
      BY <1>1, <1>2, <1>7 DEF Put
    <3> QED  BY <1>1, <1>3, <1>7, <3>1 DEF StateWritten, WroteSnapshot
  <2>2. ~ (Seek = 0 /\ ~ DataLogged)
    <3> SUFFICES ASSUME Seek = 0, ~ DataLogged PROVE fold = EmptyFold
      BY <1>7
    <3>1. Recovered = EmptyFold
      BY NoFilesNoFold DEF ExactInv, Restart, NoStateBeforeRows
    <3>2. epoch # "data"
      BY <1>1, DataIsLogged DEF Published
    <3>3. fold = Recovered \/ fold = [Recovered EXCEPT !.count = NoRows]
      BY <1>1, <3>2 DEF ExactInv, ChainInv, IInv, TypeOK, InDrain, InFlush, InEpoch
    <3> QED  BY <3>1, <3>3 DEF EmptyFold
  <2>3. NoStateBeforeRows'
    BY <1>3, <2>2 DEF SamePoint, NoStateBeforeRows
  <2> QED  BY <1>3, <1>4, <1>5, <2>1, <2>3 DEF ExactInv, Restart
<1> QED  BY <1>6, <1>7

(* One state file per id.                                                  *)
LEMMA DropOtherExact ==
    ASSUME ExactInv, ChainInv', SamePoint, DropOther
    PROVE  ExactInv'
<1>1. /\ UNCHANGED <<available, epoch, position, fold, stopping, offsets, finals, commits, sink>>
      /\ pc \in {"dropsnapshot", "dropdelta"} /\ pc' = "commit"
      /\ snapshots' = IF pc = "dropsnapshot" THEN Remove(snapshots, {batches}) ELSE snapshots
      /\ deltas' = IF pc = "dropdelta" THEN Remove(deltas, {batches}) ELSE deltas
  BY DEF DropOther, env, logs, state
<1>2. batches = Ahead
  BY <1>1 DEF ExactInv, ChainInv, IInv, IdInFlight, Pruning, Ahead
<1>3. /\ AheadLogged' /\ AheadPublished' /\ ClosedUpToSeek' /\ Ledger'
      /\ DataLogged' <=> DataLogged
      /\ Ahead' = Ahead
  BY <1>1, FilesFrame
<1>4. InData' /\ InDrain' /\ InFlush'
  BY <1>1, <1>3 DEF SamePoint, ExactInv, InData, InDrain, InFlush, DataRows, InEpoch, Published
<1>5. AtRest' /\ NoFlush'
  BY <1>1 DEF ExactInv, AtRest, NoFlush, Pruning
<1>6. DOMAIN snapshots' \subseteq DOMAIN snapshots /\ DOMAIN deltas' \subseteq DOMAIN deltas
  BY <1>1 DEF Remove, Restrict
<1>7. NoStateBeforeRows'
  BY <1>3, <1>6 DEF SamePoint, ExactInv, Restart, NoStateBeforeRows
<1>8. StateWritten'
  <2>1. CASE pc = "dropsnapshot"
    <3>1. WroteDelta /\ deltas' = deltas /\ Ahead \notin DOMAIN snapshots'
      BY <1>1, <1>2, <2>1 DEF ExactInv, StateWritten, Remove, Restrict
    <3> QED  BY <1>1, <1>3, <3>1 DEF SamePoint, StateWritten, WroteDelta, DataRows
  <2>2. CASE pc = "dropdelta"
    <3>1. WroteSnapshot /\ snapshots' = snapshots
      BY <1>1, <2>2 DEF ExactInv, StateWritten
    <3> QED  BY <1>1, <1>3, <3>1 DEF StateWritten, WroteSnapshot
  <2> QED  BY <1>1, <2>1, <2>2
<1> QED  BY <1>3, <1>4, <1>5, <1>7, <1>8 DEF ExactInv, Restart

-----------------------------------------------------------------------------
(* The prunes after a commit.                                              *)

(* Pruning state files only removes them.                                  *)
LEMMA PruneStateExact ==
    ASSUME ExactInv, ChainInv', SamePoint, PruneState
    PROVE  ExactInv'
<1>1. /\ UNCHANGED <<available, epoch, position, fold, stopping, offsets, finals, commits, sink>>
      /\ pc = "prunestate" /\ pc' \in {"prunestate", "prunelogs"}
  BY DEF PruneState, env, logs, state
<1>2. /\ AheadLogged' /\ AheadPublished' /\ ClosedUpToSeek' /\ Ledger'
      /\ DataLogged' <=> DataLogged
      /\ Ahead' = Ahead
  BY <1>1, FilesFrame
<1>3. DOMAIN snapshots' \subseteq DOMAIN snapshots /\ DOMAIN deltas' \subseteq DOMAIN deltas
  BY DEF PruneState, files, Remove, Restrict
<1>4. NoStateBeforeRows'
  BY <1>2, <1>3 DEF SamePoint, ExactInv, Restart, NoStateBeforeRows
<1>5. AtRest'
  BY <1>1, <1>2 DEF SamePoint, ExactInv, AtRest, Pruning
<1>6. InData' /\ InDrain' /\ InFlush' /\ StateWritten' /\ NoFlush'
  BY <1>1 DEF ExactInv, InData, InDrain, InFlush, StateWritten, NoFlush, InEpoch
<1> QED  BY <1>2, <1>4, <1>5, <1>6 DEF ExactInv, Restart

(* A sweep of the logs, and the step to the next epoch.                    *)
LEMMA PruneLogsExact ==
    ASSUME ExactInv, ChainInv', SamePoint, PruneLogs \/ PruneCommits
    PROVE  ExactInv'
<1>1. /\ UNCHANGED <<available, epoch, position, fold, stopping, snapshots, deltas, sink>>
      /\ pc \in Pruning
      /\ pc' = "prunecommits" \/ NextEpoch
  BY DEF PruneLogs, PruneCommits, env, state, files, Pruning
<1>2. /\ commits' \subseteq commits /\ finals' \subseteq finals
      /\ DOMAIN offsets' \subseteq DOMAIN offsets
      /\ \A i \in DOMAIN offsets' : offsets'[i] = offsets[i]
  BY DEF PruneLogs, PruneCommits, Remove, Restrict
<1>3. position = Seek /\ fold = Recovered /\ Ahead \notin DOMAIN offsets
  BY <1>1 DEF ExactInv, AtRest
<1>4. Ahead \notin finals /\ available \in Nat
  <2>1. Ahead \notin finals
    BY <1>3 DEF ExactInv, ChainInv, IInv, MarkersAreLogged
  <2> QED  BY <2>1, NAssumption DEF ExactInv, ChainInv, IInv, TypeOK
<1>5. Ahead \notin finals' /\ Ahead \notin DOMAIN offsets' /\ Ahead' = Ahead
  BY <1>2, <1>3, <1>4 DEF SamePoint, Ahead
<1>6. /\ AheadLogged' /\ AheadPublished' /\ ClosedUpToSeek' /\ Ledger'
      /\ DataLogged' <=> DataLogged
  BY <1>1, <1>2, <1>3, <1>4, <1>5, RestartFrame
<1>7. NoStateBeforeRows'
  BY <1>1, <1>6 DEF SamePoint, ExactInv, Restart, NoStateBeforeRows
<1>8. /\ pc' \in {"prunecommits", "loop", "finalize", "done"}
      /\ pc' = "loop" => epoch \in {"data", "replay"}
      /\ pc' = "finalize" => epoch = "drain"
      /\ pc' = "done" => epoch = "flush"
  BY <1>1 DEF NextEpoch, ExactInv, ChainInv, IInv, TypeOK
<1>9. epoch = "flush" => Recovered.count = NoRows
  BY <1>1 DEF ExactInv, AtRest
<1>10. AtRest'
  BY <1>1, <1>3, <1>5, <1>8, <1>9 DEF SamePoint, AtRest, Pruning
<1>11. InData' /\ InDrain' /\ InFlush' /\ StateWritten'
  BY <1>8 DEF InData, InDrain, InFlush, StateWritten, InEpoch
<1>12. NoFlush'
  BY <1>1, <1>2, <1>8 DEF ExactInv, NoFlush
<1> QED  BY <1>6, <1>7, <1>10, <1>11, <1>12 DEF ExactInv, Restart

-----------------------------------------------------------------------------
(* The commit.                                                             *)

(* What the restored fold has closed it does not hold.                     *)
LEMMA RecoveredIsOpen ==
    ASSUME ExactInv, NEW r \in Rows, ~ (ClosesAt[r] > Recovered.evicted)
    PROVE  Recovered.count[r] = 0
<1>1. CASE Plan.stateAt = NoBatch
  BY <1>1 DEF Recovered, EmptyFold, NoRows
<1>2. CASE Plan.stateAt # NoBatch
  <2> DEFINE b     == Plan.stateAt
             base  == BaseId(snapshots, b)
             chain == ChainDeltas(snapshots, deltas, b)
             from  == IF base = NoBatch THEN EmptyFold ELSE snapshots[base]
             bound == IF chain = {} THEN from.evicted ELSE deltas[Newest(chain)].evicted
             times == [q \in Rows |-> Cardinality({d \in chain : q \in deltas[d].rows})]
  <2>1. Recovered = [count |-> DropEvicted(Plus(from.count, times), bound), evicted |-> bound]
    BY <1>2 DEF Recovered, RestoreChain
  <2> HIDE DEF bound, times, from
  <2>2. Recovered.evicted = bound /\ Recovered.count = Open(Plus(from.count, times), bound)
    BY <2>1 DEF DropEvicted
  <2> QED  BY <2>2 DEF Open
<1> QED  BY <1>1, <1>2

(* What an epoch about to commit is.                                       *)
LEMMA CommitCases ==
    ASSUME ExactInv, pc = "commit"
    PROVE  /\ Ahead \in DOMAIN offsets /\ offsets[Ahead] = position
           /\ position \in 0..N /\ Seek \in 0..N /\ Seek <= position
           /\ \/ /\ epoch = "data" /\ position > Seek /\ DataLogged /\ Ahead \notin finals
                 /\ fold = Push(Recovered, DataRows, position)
                 /\ \/ Ahead \in DOMAIN sink
                    \/ Kind # "complete" /\ Emitted(Recovered, DataRows, position) = NoRows
              \/ /\ epoch = "drain" /\ position = Seek /\ ~ DataLogged /\ Ahead \notin finals
                 /\ fold = Recovered
              \/ /\ epoch \in {"flush", "replay"} /\ position = Seek /\ ~ DataLogged
                 /\ Kind = "windowed" /\ fold = [Recovered EXCEPT !.count = NoRows]
                 /\ Recovered.count # NoRows => Ahead \in DOMAIN sink
<1>1. Ahead \in DOMAIN offsets /\ position \in 0..N /\ Seek \in 0..N
  BY PointFacts DEF ExactInv, ChainInv, IInv, TypeOK, IdInFlight, AfterLogging, Pruning, Ahead
<1>2. epoch \in {"data", "drain", "flush", "replay"}
  BY DEF ExactInv, ChainInv, IInv, TypeOK
<1>3. CASE epoch = "data"
  <2>1. DataLogged
    BY <1>3, DataIsLogged DEF Published
  <2>2. /\ offsets[Ahead] = position /\ Ahead \notin finals
        /\ fold = Push(Recovered, DataRows, position)
        /\ \/ Ahead \in DOMAIN sink
           \/ Kind # "complete" /\ Emitted(Recovered, DataRows, position) = NoRows
    BY <1>3 DEF ExactInv, InData, InEpoch, Published
  <2>3. position > Seek
    BY <2>1, <2>2 DEF DataLogged
  <2> QED  BY <1>1, <1>3, <2>1, <2>2, <2>3
<1>4. CASE epoch = "drain"
  <2>1. /\ position = Seek /\ fold = Recovered /\ ~ DataLogged /\ Ahead \notin finals
        /\ offsets[Ahead] = position
    BY <1>4 DEF ExactInv, InDrain, InEpoch, Published
  <2> QED  BY <1>1, <1>4, <2>1
<1>5. CASE epoch \in {"flush", "replay"}
  <2>1. /\ position = Seek /\ offsets[Ahead] = position /\ Kind = "windowed"
        /\ fold = [Recovered EXCEPT !.count = NoRows]
        /\ Recovered.count # NoRows => Ahead \in DOMAIN sink
    BY <1>5 DEF ExactInv, InFlush, InEpoch, Published
  <2>2. ~ DataLogged
    BY <1>1, <2>1 DEF DataLogged
  <2> QED  BY <1>1, <1>5, <2>1, <2>2
<1> QED  BY <1>2, <1>3, <1>4, <1>5

(* The fold of such an epoch, row by row.                                  *)
LEMMA FoldRows ==
    ASSUME ExactInv, pc = "commit"
    PROVE  /\ fold \in FoldStates /\ fold.count \in Counts /\ fold.evicted \in Nat
           /\ fold.evicted = IF Kind = "windowed" THEN position ELSE 0
           /\ \A r \in Rows : ~ (ClosesAt[r] > fold.evicted) => fold.count[r] = 0
<1>1. fold \in FoldStates
  BY DEF ExactInv, ChainInv, IInv, TypeOK
<1>2. fold.count \in Counts /\ fold.evicted \in Nat
  BY <1>1 DEF FoldStates, Counts
<1>3. Recovered.evicted = IF Kind = "windowed" THEN Seek ELSE 0
  BY DEF ExactInv, Restart, ClosedUpToSeek
<1>4. Recovered \in FoldStates
  BY PointFacts
<1>5. \A r \in Rows : ClosesAt[r] > 0
  BY ClosesAtAssumption, NAssumption DEF Rows
<1>6. CASE epoch = "data" /\ fold = Push(Recovered, DataRows, position)
  <2>1. CASE Kind = "windowed"
    <3>1. /\ fold.evicted = position
          /\ fold.count = Open(Plus(Recovered.count, OneEach(DataRows)), position)
      BY <1>6, <2>1 DEF Push
    <3> QED  BY <1>1, <1>2, <2>1, <3>1 DEF Open
  <2>2. CASE Kind # "windowed"
    <3>1. fold.evicted = Recovered.evicted
      BY <1>4, <1>6, <2>2, KindAssumption DEF Push, FoldStates
    <3> QED  BY <1>1, <1>2, <1>3, <1>5, <2>2, <3>1
  <2> QED  BY <2>1, <2>2
<1>7. CASE position = Seek /\ fold = Recovered
  BY <1>1, <1>2, <1>3, <1>7, RecoveredIsOpen
<1>8. CASE position = Seek /\ Kind = "windowed" /\ fold = [Recovered EXCEPT !.count = NoRows]
  <2>1. fold.evicted = Recovered.evicted /\ fold.count = NoRows
    BY <1>4, <1>8 DEF FoldStates
  <2> QED  BY <1>1, <1>2, <1>3, <1>8, <2>1 DEF NoRows
<1> QED  BY <1>6, <1>7, <1>8, CommitCases

(* The files a recovery to the id ahead would read.                        *)
BaseAhead  == BaseId(snapshots, Ahead)
ChainAhead == ChainDeltas(snapshots, deltas, Ahead)
RestoredAhead ==
    IF BaseAhead = NoBatch /\ ChainAhead = {} THEN EmptyFold ELSE RestoreChain(Ahead)

(* A snapshot under the id ahead is the whole chain, and restores itself.  *)
LEMMA SnapshotRestores ==
    ASSUME ExactInv, pc = "commit", WroteSnapshot
    PROVE  RestoredAhead = fold
<1>1. /\ Ahead \in Nat /\ Ahead \in DOMAIN snapshots /\ snapshots[Ahead] = fold
      /\ DOMAIN snapshots \subseteq 0..Ahead /\ DOMAIN deltas \subseteq 0..Ahead
  BY PointFacts DEF WroteSnapshot, ExactInv, ChainInv, IInv, NoIdBeyondNext, Ahead
<1>2. BaseAhead = Ahead
  <2> DEFINE S == {i \in DOMAIN snapshots : i <= Ahead}
  <2>1. S \subseteq Int /\ Ahead \in S /\ \A j \in S : j <= Ahead
    BY <1>1
  <2>2. Newest(S) = Ahead
    <3> HIDE DEF S
    <3> QED  BY <2>1, NewestIs
  <2> QED  BY <2>2 DEF BaseAhead, BaseId
<1>3. ChainAhead = {}
  <2>1. BaseId(snapshots, Ahead) = Ahead
    BY <1>2 DEF BaseAhead
  <2> QED  BY <1>1, <2>1 DEF ChainAhead, ChainDeltas
<1>4. Ahead # NoBatch
  BY <1>1 DEF NoBatch
<1> DEFINE times == [r \in Rows |-> Cardinality({d \in ChainAhead : r \in deltas[d].rows})]
<1>5. RestoreChain(Ahead) = [count |-> Open(Plus(fold.count, times), fold.evicted), evicted |-> fold.evicted]
  BY <1>1, <1>2, <1>3, <1>4 DEF RestoreChain, BaseAhead, ChainAhead, DropEvicted
<1>6. \A r \in Rows : times[r] = 0
  <2>1. Cardinality({}) = 0
    BY FS_EmptySet
  <2>2. \A r \in Rows : {d \in ChainAhead : r \in deltas[d].rows} = {}
    BY <1>3
  <2> QED  BY <2>1, <2>2
<1>7. fold \in FoldStates /\ fold.count \in Counts /\ \A r \in Rows : ~ (ClosesAt[r] > fold.evicted) => fold.count[r] = 0
  BY FoldRows
<1>8. Open(Plus(fold.count, times), fold.evicted) = fold.count
  <2> HIDE DEF times
  <2>1. \A r \in Rows : fold.count[r] \in Nat /\ fold.count[r] + times[r] = fold.count[r]
    BY <1>6, <1>7 DEF Counts
  <2>2. \A r \in Rows : Open(Plus(fold.count, times), fold.evicted)[r] = fold.count[r]
    BY <1>7, <2>1 DEF Open, Plus
  <2> QED  BY <1>7, <2>2 DEF Open, Counts
<1>9. RestoreChain(Ahead) = fold
  <2> HIDE DEF times
  <2>1. RestoreChain(Ahead) = [count |-> fold.count, evicted |-> fold.evicted]
    BY <1>5, <1>8
  <2> QED  BY <1>7, <2>1 DEF FoldStates
<1> QED  BY <1>2, <1>4, <1>9 DEF RestoredAhead

(* An empty fold at a commit means no row was ever committed.              *)
LEMMA EmptyRestores ==
    ASSUME ExactInv, pc = "commit", fold = EmptyFold, Stateful
    PROVE  RestoredAhead = fold
<1>1. fold.count = NoRows /\ fold.evicted = 0
  BY DEF EmptyFold
<1>2. /\ Recovered \in FoldStates /\ Recovered.count \in Counts /\ Seek \in 0..N /\ position \in 0..N
      /\ fold.evicted = IF Kind = "windowed" THEN position ELSE 0
  BY PointFacts, FoldRows, CommitCases
<1>3. position = 0
  <2>1. CASE Kind = "windowed"
    BY <1>1, <1>2, <2>1
  <2>2. CASE Kind = "complete"
    <3> SUFFICES ASSUME position # 0 PROVE FALSE
      OBVIOUS
    <3>1. position \in Rows /\ 1 \in Rows
      BY <1>2, NAssumption DEF Rows
    <3>2. \A r \in Rows : Recovered.count[r] = IF r <= Seek THEN 1 ELSE 0
      BY <2>2 DEF ExactInv, Restart, Ledger, ResumeExact, Seek
    <3>3. CASE epoch = "data" /\ fold = Push(Recovered, DataRows, position) /\ position > Seek
      <4>1. fold.count = Plus(Recovered.count, OneEach(DataRows))
        BY <1>2, <2>2, <3>3 DEF Push, FoldStates
      <4>2. position \in DataRows
        BY <1>2, <3>1, <3>3 DEF DataRows, Between
      <4>3. fold.count[position] = Recovered.count[position] + 1
        BY <3>1, <4>1, <4>2 DEF Plus, OneEach
      <4> QED  BY <1>1, <1>2, <3>1, <4>3 DEF NoRows, Counts
    <3>4. CASE position = Seek /\ fold = Recovered
      <4>1. Recovered.count[position] = 1
        BY <1>2, <3>1, <3>2, <3>4
      <4> QED  BY <1>1, <3>1, <3>4, <4>1 DEF NoRows
    <3> QED  BY <2>2, <3>3, <3>4, CommitCases
  <2> QED  BY <2>1, <2>2, KindAssumption DEF Stateful
<1>4. Seek = 0 /\ ~ DataLogged
  BY <1>2, <1>3, CommitCases
<1>5. DOMAIN snapshots = {} /\ DOMAIN deltas = {}
  BY <1>4 DEF ExactInv, Restart, NoStateBeforeRows
<1>6. BaseAhead = NoBatch /\ ChainAhead = {}
  <2>1. {i \in DOMAIN snapshots : i <= Ahead} = {}
    BY <1>5
  <2> QED  BY <1>5, <2>1 DEF BaseAhead, BaseId, Newest, ChainAhead, ChainDeltas
<1> QED  BY <1>6 DEF RestoredAhead

(* An entry under the id ahead extends the chain by one push.              *)
LEMMA DeltaRestores ==
    ASSUME ExactInv, pc = "commit", WroteDelta, Ahead \notin DOMAIN snapshots, Stateful
    PROVE  RestoredAhead = fold
<1> DEFINE base  == BaseId(snapshots, Last)
           chain == ChainDeltas(snapshots, deltas, Last)
           from  == IF base = NoBatch THEN EmptyFold ELSE snapshots[base]
           bound == IF chain = {} THEN from.evicted ELSE deltas[Newest(chain)].evicted
           times == [r \in Rows |-> Cardinality({d \in chain : r \in deltas[d].rows})]
           timesAhead == [r \in Rows |-> Cardinality({d \in ChainAhead : r \in deltas[d].rows})]
<1>1. /\ Last \in Int /\ Last >= -1 /\ Ahead = Last + 1 /\ Ahead \in Nat
      /\ Ahead \in DOMAIN deltas /\ deltas[Ahead] = [rows |-> DataRows, evicted |-> fold.evicted]
      /\ DOMAIN snapshots \subseteq 0..(Last + 1) /\ DOMAIN deltas \subseteq 0..(Last + 1)
  BY PointFacts DEF WroteDelta, ExactInv, ChainInv, IInv, NoIdBeyondNext, Ahead
<1>2. HasBase
  BY <1>1 DEF ExactInv, ChainInv, BaseUnderDeltas
<1>3. base # NoBatch /\ base \in DOMAIN snapshots /\ base <= Last /\ base \in Nat
  <2>1. base # -1
    BY <1>2, HasBaseIff DEF ExactInv, ChainInv, NoBatch
  <2>2. base # -1 => base \in DOMAIN snapshots /\ base <= Last
    <3>1. Last + 1 \in Int
      BY <1>1
    <3> QED  BY <1>1, <3>1, ChainFacts
  <2> QED  BY <1>1, <2>1, <2>2 DEF NoBatch
<1>4. BaseAhead = base
  <2>1. {i \in DOMAIN snapshots : i <= Ahead} = {i \in DOMAIN snapshots : i <= Last}
    BY <1>1
  <2> QED  BY <2>1 DEF BaseAhead, BaseId
<1>5. ChainAhead = chain \cup {Ahead} /\ Ahead \notin chain /\ chain \subseteq 0..(Last + 1)
  <2>1. /\ ChainAhead = {d \in DOMAIN deltas : base < d /\ d <= Ahead}
        /\ chain = {d \in DOMAIN deltas : base < d /\ d <= Last}
    BY <1>4 DEF BaseAhead, ChainAhead, ChainDeltas
  <2>2. \A d \in DOMAIN deltas : d <= Ahead <=> d <= Last \/ d = Ahead
    BY <1>1
  <2>3. base < Ahead /\ ~ (Ahead <= Last)
    BY <1>1, <1>3
  <2> HIDE DEF base, chain
  <2> QED  BY <1>1, <2>1, <2>2, <2>3
<1>6. Newest(ChainAhead) = Ahead
  <2>1. ChainAhead \subseteq Int /\ Ahead \in ChainAhead /\ \A j \in ChainAhead : j <= Ahead
    <3> HIDE DEF chain
    <3> QED  BY <1>1, <1>5
  <2> QED  BY <2>1, NewestIs
<1>7. RestoreChain(Ahead) = [count |-> Open(Plus(from.count, timesAhead), fold.evicted), evicted |-> fold.evicted]
  <2>1. BaseId(snapshots, Ahead) = base /\ ChainDeltas(snapshots, deltas, Ahead) = ChainAhead
    BY <1>4 DEF BaseAhead, ChainAhead
  <2>2. ChainAhead # {} /\ deltas[Newest(ChainAhead)].evicted = fold.evicted
    BY <1>1, <1>5, <1>6
  <2> HIDE DEF base
  <2> QED  BY <2>1, <2>2 DEF RestoreChain, DropEvicted
<1>8. Recovered = [count |-> Open(Plus(from.count, times), bound), evicted |-> bound]
  <2>1. commits # {}
    BY <1>1, <1>3, LastFacts DEF ExactInv, ChainInv
  <2>2. Plan.stateAt = Last
    <3>1. Last # NoBatch /\ LastCommitted(commits) = Last
      BY <1>1, <1>3 DEF NoBatch, Last
    <3>2. ~ Fresh(offsets, commits)
      BY <2>1, <3>1 DEF Fresh, ExactInv, ChainInv, IInv, LastIsLogged
    <3> QED  BY <1>3, <3>1, <3>2 DEF Plan, Recover
  <2>3. Recovered = RestoreChain(Last)
    BY <1>1, <1>3, <2>2 DEF Recovered, NoBatch
  <2> QED  BY <2>3 DEF RestoreChain, DropEvicted
<1>9. \A r \in Rows : times[r] \in Nat /\ timesAhead[r] = times[r] + OneEach(DataRows)[r]
  <2> SUFFICES ASSUME NEW r \in Rows
               PROVE  times[r] \in Nat /\ timesAhead[r] = times[r] + OneEach(DataRows)[r]
    OBVIOUS
  <2> DEFINE S == {d \in chain : r \in deltas[d].rows}
  <2>1. S \subseteq 0..(Last + 1) /\ Ahead \notin S
    BY <1>5
  <2>2. {d \in ChainAhead : r \in deltas[d].rows} = IF r \in DataRows THEN S \cup {Ahead} ELSE S
    <3>1. deltas[Ahead].rows = DataRows
      BY <1>1
    <3> HIDE DEF chain
    <3> QED  BY <1>5, <3>1
  <2> HIDE DEF S
  <2>3. IsFiniteSet(S) /\ Cardinality(S) \in Nat
    <3>1. IsFiniteSet(0..(Last + 1))
      BY <1>1, FS_Interval
    <3>2. IsFiniteSet(S)
      BY <2>1, <3>1, FS_Subset
    <3> QED  BY <3>2, FS_CardinalityType
  <2>4. Cardinality(S \cup {Ahead}) = Cardinality(S) + 1
    BY <2>1, <2>3, FS_AddElement
  <2>5. times[r] = Cardinality(S)
    BY DEF S
  <2>6. timesAhead[r] = Cardinality(IF r \in DataRows THEN S \cup {Ahead} ELSE S)
    BY <2>2
  <2>7. OneEach(DataRows)[r] = IF r \in DataRows THEN 1 ELSE 0
    BY DEF OneEach
  <2> HIDE DEF times, timesAhead
  <2> QED  BY <2>3, <2>4, <2>5, <2>6, <2>7
<1>10. from.count \in Counts
  <2>1. snapshots[base] \in FoldStates
    <3> HIDE DEF base
    <3> QED  BY <1>3 DEF ExactInv, ChainInv, IInv, TypeOK, PartialFunction
  <2> HIDE DEF base
  <2> QED  BY <1>3, <2>1 DEF FoldStates, Counts
<1>11. /\ Recovered.count = Open(Plus(from.count, times), bound) /\ Recovered.evicted = bound
       /\ Recovered.evicted = (IF Kind = "windowed" THEN Seek ELSE 0)
       /\ Recovered \in FoldStates
  <2> HIDE DEF from, times, bound
  <2> QED  BY <1>8, PointFacts DEF ExactInv, Restart, ClosedUpToSeek
<1>12. /\ fold = Push(Recovered, DataRows, position) /\ position > Seek
       /\ position \in 0..N /\ Seek \in 0..N
  BY CommitCases DEF WroteDelta
<1>13. fold \in FoldStates /\ fold.count \in Counts /\ fold.evicted = IF Kind = "windowed" THEN position ELSE 0
  BY FoldRows
<1> HIDE DEF base, chain, from, bound, times, timesAhead
<1>14. \A r \in Rows : Open(Plus(from.count, timesAhead), fold.evicted)[r] = fold.count[r]
  <2> SUFFICES ASSUME NEW r \in Rows
               PROVE  Open(Plus(from.count, timesAhead), fold.evicted)[r] = fold.count[r]
    OBVIOUS
  <2>1. from.count[r] \in Nat /\ OneEach(DataRows)[r] \in Nat /\ ClosesAt[r] \in Nat /\ ClosesAt[r] > 0
    BY <1>10, ClosesAtAssumption, NAssumption DEF Counts, OneEach, Rows
  <2>2. Open(Plus(from.count, timesAhead), fold.evicted)[r] =
          IF ClosesAt[r] > fold.evicted THEN from.count[r] + timesAhead[r] ELSE 0
    BY DEF Open, Plus
  <2>3. Recovered.count[r] = IF ClosesAt[r] > Recovered.evicted THEN from.count[r] + times[r] ELSE 0
    BY <1>11 DEF Open, Plus
  <2>4. CASE Kind = "windowed"
    <3>1. fold.count[r] = IF ClosesAt[r] > position THEN Recovered.count[r] + OneEach(DataRows)[r] ELSE 0
      BY <1>12, <2>4 DEF Push, Open, Plus
    <3>2. ClosesAt[r] > position => ClosesAt[r] > Seek
      BY <1>12, <2>1
    <3> QED  BY <1>9, <1>11, <1>13, <2>1, <2>2, <2>3, <2>4, <3>1, <3>2
  <2>5. CASE Kind = "complete"
    <3>1. fold.count = Plus(Recovered.count, OneEach(DataRows))
      BY <1>11, <1>12, <2>5 DEF Push, FoldStates
    <3>2. fold.count[r] = Recovered.count[r] + OneEach(DataRows)[r]
      BY <3>1 DEF Plus
    <3> QED  BY <1>9, <1>11, <1>13, <2>1, <2>2, <2>3, <2>5, <3>2
  <2> QED  BY <2>4, <2>5, KindAssumption DEF Stateful
<1>15. RestoreChain(Ahead) = fold
  <2>1. Open(Plus(from.count, timesAhead), fold.evicted) = fold.count
    BY <1>13, <1>14 DEF Open, Counts
  <2>2. RestoreChain(Ahead) = [count |-> fold.count, evicted |-> fold.evicted]
    BY <1>7, <2>1
  <2> QED  BY <1>13, <2>2 DEF FoldStates
<1> QED  BY <1>3, <1>4, <1>15 DEF RestoredAhead

(* Whatever the epoch wrote, a recovery to its id restores its fold.       *)
LEMMA CommitRestoresFold ==
    ASSUME ExactInv, pc = "commit"
    PROVE  RestoredAhead = fold
<1>1. CASE Stateful
  <2>1. WroteSnapshot \/ fold = EmptyFold \/ (WroteDelta /\ Ahead \notin DOMAIN snapshots)
    BY <1>1 DEF ExactInv, StateWritten
  <2> QED  BY <1>1, <2>1, SnapshotRestores, EmptyRestores, DeltaRestores
<1>2. CASE ~ Stateful
  <2>1. DOMAIN snapshots = {} /\ DOMAIN deltas = {} /\ fold = EmptyFold
    BY <1>2 DEF ExactInv, ChainInv, StatelessHasNoState
  <2>2. {i \in DOMAIN snapshots : i <= Ahead} = {}
    BY <2>1
  <2>3. BaseAhead = NoBatch /\ ChainAhead = {}
    BY <2>1, <2>2 DEF BaseAhead, BaseId, Newest, ChainAhead, ChainDeltas
  <2> QED  BY <2>1, <2>3 DEF RestoredAhead
<1> QED  BY <1>1, <1>2

(* What an epoch about to commit has put in the sink.                      *)
LEMMA SinkAtCommit ==
    ASSUME ExactInv, pc = "commit", NEW r \in Rows
    PROVE  /\ epoch = "data" =>
                 (Ahead \in Deliveries(r) <=> Emitted(Recovered, DataRows, position)[r] > 0)
           /\ epoch = "drain" => Ahead \notin DOMAIN sink
           /\ epoch \in {"flush", "replay"} => (Ahead \in Deliveries(r) <=> Recovered.count[r] > 0)
<1>1. /\ offsets[Ahead] = position /\ Recovered.count \in Counts
      /\ epoch = "drain" => ~ DataLogged /\ Ahead \notin finals
      /\ epoch = "data" => Ahead \notin finals
      /\ epoch \in {"flush", "replay"} => ~ DataLogged
  BY CommitCases, PointFacts
<1>2. Ahead \in DOMAIN sink =>
        \/ DataLogged /\ sink[Ahead] = Emitted(Recovered, DataRows, position)
        \/ Ahead \in finals /\ sink[Ahead] = Recovered.count
  BY <1>1 DEF ExactInv, Restart, AheadPublished, DataRows
<1>3. CASE epoch = "data"
  <2>1. Ahead \in DOMAIN sink \/ Emitted(Recovered, DataRows, position) = NoRows
    BY <1>3, CommitCases
  <2>2. NoRows[r] = 0
    BY DEF NoRows
  <2> QED  BY <1>1, <1>2, <1>3, <2>1, <2>2 DEF Deliveries
<1>4. CASE epoch \in {"flush", "replay"}
  <2>1. Ahead \in DOMAIN sink \/ Recovered.count = NoRows
    BY <1>4, CommitCases
  <2>2. NoRows[r] = 0
    BY DEF NoRows
  <2> QED  BY <1>1, <1>2, <1>4, <2>1, <2>2 DEF Deliveries
<1> QED  BY <1>1, <1>2, <1>3, <1>4

(* Each row, once the epoch is committed: in the output or in the fold.    *)
LEMMA LedgerAtCommit ==
    ASSUME ExactInv, pc = "commit", NEW r \in Rows
    PROVE  LET inSink == (\E i \in Deliveries(r) : i <= Last) \/ Ahead \in Deliveries(r)
           IN  IF Kind = "complete"
               THEN fold.count[r] = (IF r <= position THEN 1 ELSE 0)
               ELSE IF r > position THEN fold.count[r] = 0 /\ ~ inSink
                                    ELSE fold.count[r] = (IF inSink THEN 0 ELSE 1)
<1> DEFINE before == \E i \in Deliveries(r) : i <= Last
           now    == Ahead \in Deliveries(r)
           one    == IF r \in DataRows THEN 1 ELSE 0
<1>1. /\ Seek \in 0..N /\ position \in 0..N /\ Seek <= position /\ r \in Nat
      /\ Recovered \in FoldStates /\ Recovered.count[r] \in {0, 1}
  BY PointFacts, CommitCases, NAssumption DEF Rows
<1>2. /\ Kind = "complete" => Recovered.count[r] = IF r <= Seek THEN 1 ELSE 0
      /\ Kind # "complete" /\ r > Seek => Recovered.count[r] = 0 /\ ~ before
      /\ Kind # "complete" /\ ~ (r > Seek) => Recovered.count[r] = IF before THEN 0 ELSE 1
  BY DEF ExactInv, Restart, Ledger, ResumeExact, Seek, Last
<1>3. r \in DataRows <=> Seek < r /\ r <= position
  BY DEF DataRows, Between
<1>4. /\ epoch = "data" => (now <=> Emitted(Recovered, DataRows, position)[r] > 0)
      /\ epoch = "drain" => ~ now
      /\ epoch \in {"flush", "replay"} => (now <=> Recovered.count[r] > 0)
  BY SinkAtCommit DEF Deliveries
<1> HIDE DEF before, now
<1>5. CASE epoch = "data" /\ fold = Push(Recovered, DataRows, position)
  <2>1. CASE Kind = "stateless"
    <3>1. fold.count[r] = Recovered.count[r] /\ Emitted(Recovered, DataRows, position)[r] = one
      BY <1>5, <2>1 DEF Push, Emitted, OneEach
    <3>2. Recovered.count[r] = 0
      <4>1. fold = Recovered
        BY <1>5, <2>1 DEF Push
      <4> QED  BY <2>1, <4>1 DEF ExactInv, ChainInv, StatelessHasNoState, Stateful, EmptyFold, NoRows
    <3> QED  BY <1>1, <1>2, <1>3, <1>4, <1>5, <2>1, <3>1, <3>2 DEF before, now
  <2>2. CASE Kind = "complete"
    <3>1. fold.count = Plus(Recovered.count, OneEach(DataRows))
      BY <1>1, <1>5, <2>2 DEF Push, FoldStates
    <3>2. fold.count[r] = Recovered.count[r] + one
      BY <3>1 DEF Plus, OneEach
    <3> QED  BY <1>1, <1>2, <1>3, <2>2, <3>2
  <2>3. CASE Kind = "windowed"
    <3>1. /\ fold.count[r] = IF ClosesAt[r] > position THEN Recovered.count[r] + one ELSE 0
          /\ Emitted(Recovered, DataRows, position)[r] =
               IF ClosesAt[r] > position THEN 0 ELSE Recovered.count[r] + one
      BY <1>5, <2>3 DEF Push, Emitted, Open, Closed, Plus, OneEach
    <3> HIDE DEF one
    <3>2. one = IF Seek < r /\ r <= position THEN 1 ELSE 0
      BY <1>3 DEF one
    <3> QED  BY <1>1, <1>2, <1>4, <1>5, <2>3, <3>1, <3>2 DEF before, now
  <2> QED  BY <2>1, <2>2, <2>3, KindAssumption
<1>6. CASE epoch = "drain" /\ position = Seek /\ fold = Recovered
  BY <1>1, <1>2, <1>4, <1>6 DEF before, now
<1>7. CASE epoch \in {"flush", "replay"} /\ position = Seek /\ Kind = "windowed" /\ fold = [Recovered EXCEPT !.count = NoRows]
  <2>1. fold.count[r] = 0
    BY <1>1, <1>7 DEF FoldStates, NoRows
  <2> QED  BY <1>1, <1>2, <1>4, <1>7, <2>1 DEF before, now
<1> QED  BY <1>5, <1>6, <1>7, CommitCases

(* The commit moves the restart point to where the process stands.         *)
LEMMA CommitMovesPoint ==
    ASSUME ExactInv, ChainInv', Commit
    PROVE  Last' = Ahead /\ Seek' = position /\ Recovered' = fold
<1>1. /\ UNCHANGED <<offsets, finals, snapshots, deltas>> /\ pc = "commit"
      /\ commits' = commits \cup {batches}
  BY DEF Commit, files
<1>2. Last' = Ahead /\ Ahead \in DOMAIN offsets /\ Ahead \in Nat
  BY CommitMovesLast, PointFacts DEF ExactInv, ChainInv, Ahead
<1>3. LastCommitted(commits') = Ahead
  BY <1>2 DEF Last
<1>4. ~ Fresh(offsets', commits') /\ Ahead # NoBatch
  BY <1>1, <1>2, <1>3 DEF Fresh, NoBatch
<1>5. Seek' = position
  <2>1. Seek' = offsets[Ahead]
    BY <1>1, <1>2, <1>3, <1>4 DEF Seek, Plan, Recover, SeekBatch
  <2> QED  BY <1>1, <2>1, CommitCases
<1>6. (Plan.stateAt)' = IF BaseAhead = NoBatch /\ ChainAhead = {} THEN NoBatch ELSE Ahead
  BY <1>1, <1>3, <1>4 DEF Plan, Recover, BaseAhead, ChainAhead
<1>7. Recovered' = RestoredAhead
  <2>1. CASE BaseAhead = NoBatch /\ ChainAhead = {}
    BY <1>6, <2>1 DEF Recovered, RestoredAhead
  <2>2. CASE ~ (BaseAhead = NoBatch /\ ChainAhead = {})
    <3>1. (Plan.stateAt)' = Ahead
      BY <1>6, <2>2
    <3>2. Recovered' = [count   |-> RestoreChain(Ahead).count,
                        evicted |-> RestoreChain(Ahead).evicted]
      BY <1>1, <1>4, <3>1 DEF Recovered, RestoreChain
    <3>3. RestoreChain(Ahead) = [count   |-> RestoreChain(Ahead).count,
                                 evicted |-> RestoreChain(Ahead).evicted]
      BY DEF RestoreChain
    <3> QED  BY <2>2, <3>2, <3>3 DEF RestoredAhead
  <2> QED  BY <2>1, <2>2
<1> QED  BY <1>1, <1>2, <1>5, <1>7, CommitRestoresFold

(* The commit.                                                             *)
LEMMA CommitExact ==
    ASSUME ExactInv, ChainInv', Commit
    PROVE  ExactInv'
<1>1. /\ UNCHANGED <<available, epoch, position, fold, stopping, offsets, finals, snapshots, deltas, sink>>
      /\ pc = "commit" /\ pc' \in {"prunestate", "prunelogs"}
      /\ commits' = commits \cup {batches} /\ batches = Ahead
  <2>1. batches = Ahead
    BY CommitMovesLast DEF ExactInv, ChainInv, Ahead
  <2> QED  BY <2>1 DEF Commit, env, state, files
<1>2. Last' = Ahead /\ Seek' = position /\ Recovered' = fold /\ Ahead' = Ahead + 1
  BY CommitMovesPoint DEF Ahead
<1>3. Ahead \in Nat /\ Last \in Int /\ Ahead = Last + 1
  BY PointFacts DEF Ahead
<1>4. /\ Ahead' \notin DOMAIN offsets' /\ Ahead' \notin DOMAIN sink' /\ Ahead' \notin finals'
  <2>1. DOMAIN offsets \subseteq 0..Ahead /\ DOMAIN sink \subseteq 0..Ahead /\ finals \subseteq DOMAIN offsets
    BY DEF ExactInv, ChainInv, IInv, NoIdBeyondNext, MarkersAreLogged, Ahead
  <2>2. Ahead + 1 \notin 0..Ahead
    BY <1>3
  <2> QED  BY <1>1, <1>2, <2>1, <2>2
<1>5. ~ DataLogged' /\ AheadLogged' /\ AheadPublished'
  BY <1>4 DEF DataLogged, AheadLogged, AheadPublished
<1>6. position = 0 => Seek = 0 /\ ~ DataLogged
  BY <1>1, CommitCases
<1>7. NoStateBeforeRows'
  BY <1>1, <1>2, <1>6 DEF ExactInv, Restart, NoStateBeforeRows
<1>8. ClosedUpToSeek'
  BY <1>1, <1>2, FoldRows DEF ClosedUpToSeek
<1>9. \A r \in Rows : Deliveries(r)' = Deliveries(r)
  BY <1>1 DEF Deliveries
<1>10. \A r \in Rows : (\E i \in Deliveries(r) : i <= Ahead) <=>
                       (\E i \in Deliveries(r) : i <= Last) \/ Ahead \in Deliveries(r)
  <2>1. \A i \in DOMAIN sink : i \in Nat
    BY DEF ExactInv, ChainInv, IInv, TypeOK, PartialFunction
  <2>2. \A i \in DOMAIN sink : i <= Ahead <=> i <= Last \/ i = Ahead
    BY <1>3, <2>1
  <2> QED  BY <1>3, <2>2 DEF Deliveries
<1>11. ResumeExact'
  <2> SUFFICES ASSUME NEW r \in Rows
               PROVE  LET inSink == \E i \in Deliveries(r) : i <= Ahead
                      IN  IF Kind = "complete"
                          THEN fold.count[r] = (IF r <= position THEN 1 ELSE 0)
                          ELSE IF r > position THEN fold.count[r] = 0 /\ ~ inSink
                                               ELSE fold.count[r] = (IF inSink THEN 0 ELSE 1)
    BY <1>2, <1>9 DEF ResumeExact, Seek, Last
  <2> QED  BY <1>1, <1>10, LedgerAtCommit
<1>12. AnswerExact'
  <2> SUFFICES ASSUME Kind = "complete", NEW i \in DOMAIN sink, i \in commits', i \in DOMAIN offsets
               PROVE  sink[i] = OneEach(1..offsets[i])
    BY <1>1 DEF AnswerExact
  <2>1. CASE i # Ahead
    BY <1>1, <2>1 DEF ExactInv, Restart, Ledger, AnswerExact
  <2>2. CASE i = Ahead
    <3>1. position \in 0..N /\ offsets[Ahead] = position
      BY <1>1, CommitCases
    <3>2. /\ fold = Push(Recovered, DataRows, position)
          /\ sink[Ahead] = Emitted(Recovered, DataRows, position)
      <4>1. epoch = "data"
        <5>1. 1 \in Rows
          BY NAssumption DEF Rows
        <5> QED  BY <1>1, <2>2, <5>1, SinkAtCommit, CommitCases
      <4>2. fold = Push(Recovered, DataRows, position) /\ Ahead \notin finals
        BY <1>1, <4>1, CommitCases
      <4> QED  BY <2>2, <3>1, <4>2 DEF ExactInv, Restart, AheadPublished, DataRows
    <3>3. sink[Ahead] = fold.count
      <4>1. Recovered \in FoldStates
        BY PointFacts
      <4> QED  BY <3>2, <4>1 DEF Push, Emitted, FoldStates
    <3>4. fold.count \in Counts /\ \A r \in Rows : fold.count[r] = IF r <= position THEN 1 ELSE 0
      BY <1>1, FoldRows, LedgerAtCommit
    <3>5. \A r \in Rows : r <= position <=> r \in 1..position
      BY <3>1, NAssumption DEF Rows
    <3>6. fold.count = OneEach(1..position)
      BY <3>4, <3>5 DEF OneEach, Counts
    <3> QED  BY <2>2, <3>1, <3>3, <3>6
  <2> QED  BY <2>1, <2>2
<1>13. NoRowDuplicated
  BY ExactImplies
<1>14. Ledger'
  BY <1>1, <1>9, <1>11, <1>12, <1>13 DEF Ledger, NoRowDuplicated
<1>15. AtRest'
  <2>1. epoch = "flush" => fold.count = NoRows
    <3>1. Recovered \in FoldStates
      BY PointFacts
    <3> QED  BY <1>1, <3>1, CommitCases DEF FoldStates
  <2> QED  BY <1>1, <1>2, <1>4, <2>1 DEF AtRest, Pruning
<1>16. InData' /\ InDrain' /\ InFlush' /\ StateWritten'
  BY <1>1 DEF InData, InDrain, InFlush, StateWritten, InEpoch
<1>17. NoFlush'
  BY <1>1 DEF ExactInv, NoFlush
<1> QED  BY <1>5, <1>7, <1>8, <1>14, <1>15, <1>16, <1>17 DEF ExactInv, Restart

-----------------------------------------------------------------------------
(* The theorems.                                                           *)

(* A read from the restart point always ends at the same place, entries    *)
(* are fresh, no stop while a logged epoch awaits its replay, no fault     *)
(* before the first restore point: then every step keeps the invariant.    *)
LEMMA ExactStep ==
    ASSUME ~ FaultsBeforeRestorePoint, ~ StopsDuringReplay, Deterministic, EntriesFresh
    PROVE  ExactInv /\ [Next]_vars => ExactInv'
<1> SUFFICES ASSUME ExactInv, [Next]_vars PROVE ExactInv'
  OBVIOUS
<1>1. ChainInv'
  BY ChainStep DEF ExactInv
<1>2. CASE Commit
  BY <1>1, <1>2, CommitExact
<1>3. CASE ~ Commit
  <2>1. SamePoint
    BY <1>1, <1>3, PointKept DEF ExactInv, SamePoint
  <2>2. ASSUME Crash PROVE ExactInv'
    BY <1>1, <2>1, <2>2, DieExact DEF Crash
  <2>3. ASSUME Idle \/ Terminated PROVE UNCHANGED vars
    BY <2>3 DEF Idle, Terminated
  <2> QED  BY <1>1, <1>3, <2>1, <2>2, <2>3, ProduceExact, StartExact, FaultExact, IdleExact, StageExact,
              FoldExact, FlushExact, RecordExact, FlushLoggedExact, MarkExact, PublishExact,
              WriteDeltaExact, WriteSnapshotExact, DropOtherExact, PruneStateExact, PruneLogsExact
           DEF Next, EngineStep
<1> QED  BY <1>2, <1>3

(* The inductive invariant holds in every reachable state.                 *)
LEMMA ExactAlways ==
    ASSUME ~ FaultsBeforeRestorePoint, ~ StopsDuringReplay, Deterministic, EntriesFresh
    PROVE  Spec => []ExactInv
<1>1. ExactInv /\ [Next]_vars => ExactInv'
  BY ExactStep
<1> QED  BY <1>1, ExactInit, PTL DEF Spec

(* Whenever the process may die, the committed output and the fold that    *)
(* would be restored together count each row before the committed position *)
(* once and no row after it, for every kind of query.                      *)
THEOREM ResumeExactHolds ==
    ASSUME ~ FaultsBeforeRestorePoint, ~ StopsDuringReplay, Deterministic, EntriesFresh
    PROVE  Spec => []ResumeExact
<1>1. ExactInv => ResumeExact
  BY ExactImplies
<1> QED  BY <1>1, ExactAlways, PTL

(* Every row at or before the committed position is in the sink or in the  *)
(* fold that would be restored.                                            *)
THEOREM NoRowLostHolds ==
    ASSUME ~ FaultsBeforeRestorePoint, ~ StopsDuringReplay, Deterministic, EntriesFresh
    PROVE  Spec => []NoRowLost
<1>1. ExactInv => NoRowLost
  BY ExactImplies
<1> QED  BY <1>1, ExactAlways, PTL

(* No write counts a row twice, and no two writes of an append sink count  *)
(* the same row, the write of an epoch that never committed included.      *)
THEOREM NoRowDuplicatedHolds ==
    ASSUME ~ FaultsBeforeRestorePoint, ~ StopsDuringReplay, Deterministic, EntriesFresh
    PROVE  Spec => []NoRowDuplicated
<1>1. ExactInv => NoRowDuplicated
  BY ExactImplies
<1> QED  BY <1>1, ExactAlways, PTL

(* An epoch re-run after a crash or a fault publishes what its first       *)
(* attempt published.                                                      *)
THEOREM ReplayIdenticalHolds ==
    ASSUME ~ FaultsBeforeRestorePoint, ~ StopsDuringReplay, Deterministic, EntriesFresh
    PROVE  Spec => []ReplayIdentical
<1>1. ExactInv => ReplayIdentical
  BY ExactImplies
<1> QED  BY <1>1, ExactAlways, PTL

(* Each committed write of a complete-mode aggregate counts exactly the    *)
(* rows before its position.                                               *)
THEOREM AnswerExactHolds ==
    ASSUME ~ FaultsBeforeRestorePoint, ~ StopsDuringReplay, Deterministic, EntriesFresh
    PROVE  Spec => []AnswerExact
<1>1. ExactInv => AnswerExact
  BY ExactImplies
<1> QED  BY <1>1, ExactAlways, PTL

(* A query that ended by itself has delivered every row it read, and no    *)
(* window is left behind.                                                  *)
THEOREM EndsDeliveredHolds ==
    ASSUME ~ FaultsBeforeRestorePoint, ~ StopsDuringReplay, Deterministic, EntriesFresh
    PROVE  Spec => []EndsDelivered
<1>1. ExactInv => EndsDelivered
  BY ExactImplies
<1> QED  BY <1>1, ExactAlways, PTL

-----------------------------------------------------------------------------
(* The refinement.                                                         *)

(* The windows a recovery would reopen are the last ones.                  *)
OpenLast ==
    \A r, q \in Rows : r < q /\ q <= Seek /\ Recovered.count[r] = 1 => Recovered.count[q] = 1

(* The commit of an epoch leaves the last windows open.                    *)
LEMMA OpenLastAtCommit ==
    ASSUME ExactInv, OpenLast, Kind # "complete", InOrder, pc = "commit",
           NEW r \in Rows, NEW q \in Rows, r < q, q <= position, fold.count[r] = 1
    PROVE  fold.count[q] = 1
<1>1. /\ Seek \in 0..N /\ position \in 0..N /\ Seek <= position /\ r \in Nat /\ q \in Nat
      /\ Recovered \in FoldStates /\ \A x \in Rows : Recovered.count[x] \in {0, 1}
      /\ \A x \in Rows : x > Seek => Recovered.count[x] = 0
  BY PointFacts, CommitCases, NAssumption DEF Rows
<1>2. q <= Seek /\ Recovered.count[r] = 1 => Recovered.count[q] = 1
  BY DEF OpenLast
<1>3. CASE fold = Recovered /\ position = Seek
  BY <1>2, <1>3
<1>4. CASE epoch = "data" /\ fold = Push(Recovered, DataRows, position)
  <2>1. CASE Kind = "stateless"
    <3>1. fold.count[r] = 0
      BY <2>1 DEF ExactInv, ChainInv, StatelessHasNoState, Stateful, EmptyFold, NoRows
    <3> QED  BY <3>1
  <2>2. CASE Kind = "windowed"
    <3> DEFINE one(x) == IF x \in DataRows THEN 1 ELSE 0
    <3>1. \A x \in Rows : fold.count[x] = IF ClosesAt[x] > position THEN Recovered.count[x] + one(x) ELSE 0
      BY <1>4, <2>2 DEF Push, Open, Plus, OneEach
    <3>2. \A x \in Rows : x \in DataRows <=> Seek < x /\ x <= position
      BY DEF DataRows, Between
    <3>3. ClosesAt[r] > position /\ Recovered.count[r] + one(r) = 1
      <4> HIDE DEF one
      <4> QED  BY <3>1
    <3>4. ClosesAt[q] > position
      <4>1. ClosesAt[r] <= ClosesAt[q]
        BY <1>1 DEF InOrder
      <4>2. ClosesAt[r] \in Nat /\ ClosesAt[q] \in Nat
        BY ClosesAtAssumption
      <4> QED  BY <1>1, <3>3, <4>1, <4>2
    <3>5. fold.count[q] = Recovered.count[q] + one(q)
      <4> HIDE DEF one
      <4> QED  BY <3>1, <3>4
    <3>6. CASE q > Seek
      <4>1. one(q) = 1 /\ Recovered.count[q] = 0
        BY <1>1, <3>2, <3>6
      <4> HIDE DEF one
      <4> QED  BY <3>5, <4>1
    <3>7. CASE ~ (q > Seek)
      <4>1. one(q) = 0 /\ one(r) = 0 /\ q <= Seek
        BY <1>1, <3>2, <3>7
      <4>2. Recovered.count[r] \in {0, 1}
        BY <1>1
      <4> HIDE DEF one
      <4>3. Recovered.count[r] = 1
        BY <3>3, <4>1, <4>2
      <4>4. Recovered.count[q] = 1
        BY <1>2, <4>1, <4>3
      <4> QED  BY <3>5, <4>1, <4>4
    <3> QED  BY <3>6, <3>7
  <2> QED  BY <2>1, <2>2, KindAssumption
<1>5. CASE epoch \in {"flush", "replay"} /\ fold = [Recovered EXCEPT !.count = NoRows]
  <2>1. fold.count[r] = 0
    BY <1>1, <1>5 DEF FoldStates, NoRows
  <2> QED  BY <2>1
<1> QED  BY <1>3, <1>4, <1>5, CommitCases

(* Only a commit moves the restart point, so only a commit can disturb it. *)
LEMMA OpenLastStep ==
    ASSUME Kind # "complete", InOrder, ExactInv, ChainInv', OpenLast, [Next]_vars
    PROVE  OpenLast'
<1>1. CASE Commit
  <2>1. pc = "commit" /\ Seek' = position /\ Recovered' = fold
    BY <1>1, CommitMovesPoint DEF Commit
  <2> QED  BY <2>1, OpenLastAtCommit DEF OpenLast
<1>2. CASE ~ Commit
  <2>1. Recovered' = Recovered /\ Seek' = Seek
    BY <1>2, PointKept DEF ExactInv
  <2> QED  BY <2>1 DEF OpenLast
<1> QED  BY <1>1, <1>2

(* It holds in every reachable state.                                      *)
LEMMA OpenLastAlways ==
    ASSUME ~ FaultsBeforeRestorePoint, ~ StopsDuringReplay, Deterministic, EntriesFresh,
           Kind # "complete", InOrder
    PROVE  Spec => []OpenLast
<1>1. Init => OpenLast
  <2> SUFFICES ASSUME Init PROVE OpenLast
    OBVIOUS
  <2>1. Seek = 0
    BY DEF Init, Seek, Plan, Recover, SeekBatch, Fresh, NoBatch
  <2> QED  BY <2>1, NAssumption DEF OpenLast, Rows
<1>2. ExactInv /\ OpenLast /\ [Next]_vars => OpenLast'
  <2> SUFFICES ASSUME ExactInv, OpenLast, [Next]_vars PROVE OpenLast'
    OBVIOUS
  <2>1. ChainInv'
    BY ChainStep DEF ExactInv
  <2> QED  BY <2>1, OpenLastStep
<1> QED  BY <1>1, <1>2, ExactAlways, PTL DEF Spec

(* The rows the sink holds.                                                *)
Delivered == {r \in Rows : Deliveries(r) # {}}

(* A row delivered brings every row before it.                             *)
LEMMA DeliveredDown ==
    ASSUME ExactInv, OpenLast, Kind # "complete", InOrder,
           NEW r \in Rows, NEW q \in Delivered, r < q
    PROVE  r \in Delivered
<1>1. /\ Seek \in 0..N /\ r \in Nat /\ q \in Rows /\ q \in Nat /\ Deliveries(q) # {}
      /\ Recovered \in FoldStates /\ \A x \in Rows : Recovered.count[x] \in {0, 1}
      /\ \A x \in Rows : x > Seek => Recovered.count[x] = 0
  BY PointFacts, NAssumption DEF Rows, Delivered
<1>2. /\ \A x \in Rows : x > Seek => ~ \E i \in Deliveries(x) : i <= Last
      /\ \A x \in Rows : ~ (x > Seek) => Recovered.count[x] = IF \E i \in Deliveries(x) : i <= Last THEN 0 ELSE 1
  BY DEF ExactInv, Restart, Ledger, ResumeExact, Seek, Last
<1>3. r <= Seek => r \in Delivered \/ Recovered.count[r] = 1
  BY <1>1, <1>2 DEF Delivered
<1>4. \A i \in DOMAIN sink : i <= Last \/ i = Ahead
  BY DEF ExactInv, ChainInv, IInv, WriteAhead, Last, Ahead
<1>5. CASE \E i \in Deliveries(q) : i <= Last
  <2>1. q <= Seek /\ Recovered.count[q] = 0
    BY <1>1, <1>2, <1>5
  <2>2. r <= Seek /\ Recovered.count[r] # 1
    BY <1>1, <2>1 DEF OpenLast
  <2> QED  BY <1>3, <2>2
<1>6. CASE Ahead \in Deliveries(q)
  <2>1. Ahead \in DOMAIN sink /\ sink[Ahead][q] > 0
    BY <1>6 DEF Deliveries
  <2>2. SUFFICES sink[Ahead][r] > 0 \/ r \in Delivered
    BY <2>1 DEF Delivered, Deliveries
  <2>3. CASE DataLogged /\ sink[Ahead] = Emitted(Recovered, Between(Seek, offsets[Ahead]), offsets[Ahead])
    <3> DEFINE e == offsets[Ahead]
               B == Between(Seek, e)
               one(x) == IF x \in B THEN 1 ELSE 0
    <3>1. e \in 0..N /\ e > Seek
      BY <2>3 DEF ExactInv, ChainInv, IInv, TypeOK, PartialFunction, DataLogged
    <3>2. \A x \in Rows : x \in B <=> Seek < x /\ x <= e
      BY DEF Between
    <3>3. sink[Ahead] = Emitted(Recovered, B, e)
      BY <2>3
    <3>4. Recovered.count[q] = 1 \/ q \in B
      BY <1>1, <2>1, <2>3, <3>1, EmittedOnce
    <3> HIDE DEF e, B
    <3>5. r \in B \/ r <= Seek
      BY <1>1, <3>1, <3>2, <3>4
    <3>6. CASE Kind = "stateless"
      <4>1. \A x \in Rows : Recovered.count[x] = 0
        <5>1. DOMAIN snapshots = {} /\ DOMAIN deltas = {}
          BY <3>6 DEF ExactInv, ChainInv, StatelessHasNoState, Stateful
        <5>2. \A b : {i \in DOMAIN snapshots : i <= b} = {}
          BY <5>1
        <5>3. \A b : BaseId(snapshots, b) = NoBatch /\ ChainDeltas(snapshots, deltas, b) = {}
          BY <5>1, <5>2 DEF BaseId, ChainDeltas, Newest
        <5>4. Plan.stateAt = NoBatch
          BY <5>3 DEF Plan, Recover
        <5> QED  BY <5>4 DEF Recovered, EmptyFold, NoRows
      <4>2. sink[Ahead][r] = one(r)
        BY <3>3, <3>6 DEF Emitted, OneEach
      <4> QED  BY <1>3, <3>5, <4>1, <4>2
    <3>7. CASE Kind = "windowed"
      <4>1. \A x \in Rows : sink[Ahead][x] = IF ClosesAt[x] > e THEN 0 ELSE Recovered.count[x] + one(x)
        BY <3>3, <3>7 DEF Emitted, Closed, Plus, OneEach
      <4>2. ~ (ClosesAt[q] > e)
        <5> HIDE DEF one
        <5> QED  BY <1>1, <2>1, <4>1
      <4>3. ~ (ClosesAt[r] > e)
        <5>1. ClosesAt[r] <= ClosesAt[q]
          BY <1>1 DEF InOrder
        <5>2. ClosesAt[r] \in Nat /\ ClosesAt[q] \in Nat
          BY <1>1, ClosesAtAssumption
        <5> QED  BY <3>1, <4>2, <5>1, <5>2
      <4>4. sink[Ahead][r] = Recovered.count[r] + one(r)
        <5> HIDE DEF one
        <5> QED  BY <4>1, <4>3
      <4>5. Recovered.count[r] \in {0, 1}
        BY <1>1
      <4> QED  BY <1>3, <3>5, <4>4, <4>5
    <3> QED  BY <3>6, <3>7, KindAssumption
  <2>4. CASE sink[Ahead] = Recovered.count
    <3>1. Recovered.count[q] = 1 /\ q <= Seek
      BY <1>1, <2>1, <2>4
    <3>2. r <= Seek
      BY <1>1, <3>1
    <3> QED  BY <1>3, <2>4, <3>2
  <2> QED  BY <2>1, <2>3, <2>4 DEF ExactInv, Restart, AheadPublished
<1> QED  BY <1>1, <1>4, <1>5, <1>6 DEF Deliveries

(* A row is visible once or not at all.                                    *)
LEMMA VisibleRow ==
    ASSUME ExactInv, Kind # "complete", NEW r \in Rows
    PROVE  Visible[r] = IF r \in Delivered THEN 1 ELSE 0
<1>1. /\ \A i \in DOMAIN sink : sink[i][r] <= 1
      /\ \A i, j \in Deliveries(r) : i = j
  BY ExactImplies DEF NoRowDuplicated
<1>2. \A i \in DOMAIN sink : sink[i][r] \in Nat
  BY DEF ExactInv, ChainInv, IInv, TypeOK, PartialFunction
<1>3. Visible[r] = Cardinality(Occurrences(r))
  BY DEF Visible
<1>4. \A x : x \in Occurrences(r) <=> \E i \in DOMAIN sink : \E n \in 1..sink[i][r] : x = <<i, n>>
  BY DEF Occurrences
<1>5. CASE r \in Delivered
  <2>1. PICK i \in Deliveries(r) : TRUE
    BY <1>5 DEF Delivered
  <2>2. i \in DOMAIN sink /\ sink[i][r] = 1
    BY <1>1, <1>2, <2>1 DEF Deliveries
  <2>3. \A j \in DOMAIN sink : \A n \in 1..sink[j][r] : j = i /\ n = 1
    <3> SUFFICES ASSUME NEW j \in DOMAIN sink, NEW n \in 1..sink[j][r] PROVE j = i /\ n = 1
      OBVIOUS
    <3>1. sink[j][r] \in Nat /\ sink[j][r] <= 1 /\ sink[j][r] > 0 /\ n = 1
      BY <1>1, <1>2
    <3> QED  BY <1>1, <2>1, <3>1 DEF Deliveries
  <2>4. 1 \in 1..sink[i][r]
    BY <2>2
  <2>5. Occurrences(r) = {<<i, 1>>}
    BY <1>4, <2>2, <2>3, <2>4
  <2>6. Cardinality({<<i, 1>>}) = 1
    BY FS_Singleton
  <2> QED  BY <1>3, <1>5, <2>5, <2>6
<1>6. CASE r \notin Delivered
  <2>1. \A i \in DOMAIN sink : 1..sink[i][r] = {}
    <3> SUFFICES ASSUME NEW i \in DOMAIN sink PROVE 1..sink[i][r] = {}
      OBVIOUS
    <3>1. ~ (sink[i][r] > 0)
      BY <1>6 DEF Delivered, Deliveries
    <3> QED  BY <1>2, <3>1
  <2>2. Occurrences(r) = {}
    BY <1>4, <2>1
  <2> QED  BY <1>3, <1>6, <2>2, FS_EmptySet
<1> QED  BY <1>5, <1>6

(* The output is a prefix of the stream.                                   *)
Shown == \E k \in 0..N : Visible = Output!Prefix(k) /\ \A r \in Rows : r \in Delivered <=> r <= k

(* The delivered rows are those before the first one missing.              *)
LEMMA VisibleIsPrefix ==
    ASSUME ExactInv, OpenLast, Kind # "complete", InOrder
    PROVE  Shown
<1> DEFINE S == {n \in 0..N : n + 1 \notin Delivered}
<1>1. S \subseteq Nat /\ N \in S
  BY NAssumption DEF Delivered, Rows
<1>2. PICK k \in S : \A n \in S : ~ (<<n, k>> \in OpToRel(<, Nat))
  <2> HIDE DEF S
  <2> QED  BY <1>1, NatLessThanWellFounded, WFMin
<1>3. k \in 0..N /\ k \in Nat /\ k + 1 \notin Delivered /\ \A n \in S : ~ (n < k)
  BY <1>1, <1>2 DEF OpToRel
<1>4. ASSUME NEW r \in Rows, r <= k PROVE r \in Delivered
  <2>1. r - 1 \in 0..N /\ r - 1 < k /\ (r - 1) + 1 = r
    BY <1>3, <1>4, NAssumption DEF Rows
  <2>2. r - 1 \notin S
    BY <1>3, <2>1
  <2> QED  BY <2>1, <2>2
<1>5. ASSUME NEW r \in Rows, ~ (r <= k) PROVE r \notin Delivered
  <2> SUFFICES ASSUME r \in Delivered PROVE FALSE
    OBVIOUS
  <2>1. k + 1 \in Rows /\ (k + 1 = r \/ k + 1 < r)
    BY <1>3, <1>5, NAssumption DEF Rows
  <2>2. k + 1 \in Delivered
    BY <2>1, DeliveredDown
  <2> QED  BY <1>3, <2>2
<1>6. \A r \in Rows : r \in Delivered <=> r <= k
  BY <1>4, <1>5
<1>7. \A r \in Rows : Visible[r] = IF r <= k THEN 1 ELSE 0
  BY <1>6, VisibleRow
<1>8. Visible = [r \in Rows |-> Visible[r]]
  BY DEF Visible
<1>9. Visible = Output!Prefix(k)
  BY <1>7, <1>8 DEF Output!Prefix, Rows
<1> QED  BY <1>3, <1>6, <1>9 DEF Shown

(* A row once delivered stays delivered.                                   *)
LEMMA SinkGrows ==
    ASSUME ExactInv, Kind # "complete", [Next]_vars
    PROVE  Delivered \subseteq Delivered'
<1>1. CASE sink' = sink
  BY <1>1 DEF Delivered, Deliveries
<1>2. CASE WriteSink
  <2>1. sink' = SinkWrite(batches, output)
    BY <1>2 DEF WriteSink
  <2>2. \A i \in DOMAIN sink : i \in DOMAIN sink' /\ sink'[i] = sink[i]
    BY <2>1 DEF SinkWrite, Put
  <2> QED  BY <2>2 DEF Delivered, Deliveries
<1>3. sink' = sink \/ WriteSink
  BY DEF Next, EngineStep, Produce, Start, StopRequest, TestStop, Stage, Exhausted, Idle,
         RecordOffsets, Fold, WriteDelta, WriteSnapshot, DropOther, Commit, PruneState,
         PruneLogs, PruneCommits, FinalizeNothing, FinalizeRecord, FinalizeMark, ReplayFinalize,
         Crash, Fault, Terminated, vars, durable, logs
<1> QED  BY <1>1, <1>2, <1>3

(* Every step of the engine shows the next rows or none.                   *)
LEMMA DeliverStep ==
    ASSUME Kind # "complete", ExactInv, Shown, Shown', [Next]_vars
    PROVE  [Output!Deliver]_Visible
<1>1. PICK i \in 0..N : Visible = Output!Prefix(i) /\ \A r \in Rows : r \in Delivered <=> r <= i
  BY DEF Shown
<1>2. PICK j \in 0..N : Visible' = Output!Prefix(j) /\ \A r \in Rows : r \in Delivered' <=> r <= j
  BY DEF Shown
<1>3. i <= j
  <2> SUFFICES ASSUME ~ (i <= j) PROVE FALSE
    OBVIOUS
  <2>1. i \in Rows /\ i <= i
    BY NAssumption DEF Rows
  <2>2. i \in Delivered'
    BY <1>1, <2>1, SinkGrows
  <2> QED  BY <1>2, <2>1, <2>2
<1>4. CASE i = j
  BY <1>1, <1>2, <1>4
<1>5. CASE i < j
  BY <1>1, <1>2, <1>5 DEF Output!Deliver
<1> QED  BY <1>3, <1>4, <1>5

(* An append query implements ExactlyOnceOutput: through crashes, faults,  *)
(* stops, flushes and restarts its sink starts empty and every step of the *)
(* engine leaves it alone or adds the next rows of the stream, each once.  *)
THEOREM ExactlyOnceHolds ==
    ASSUME ~ FaultsBeforeRestorePoint, ~ StopsDuringReplay, Deterministic, EntriesFresh,
           Kind # "complete", InOrder
    PROVE  Spec => ExactlyOnce
<1>1. Init => Output!Init
  <2> SUFFICES ASSUME Init PROVE Output!Init
    OBVIOUS
  <2>1. DOMAIN sink = {}
    BY DEF Init
  <2>2. \A r \in Rows : Occurrences(r) = {}
    BY <2>1 DEF Occurrences
  <2>3. Visible = [r \in Rows |-> 0]
    BY <2>2, FS_EmptySet DEF Visible
  <2> QED  BY <2>3, NAssumption DEF Output!Init, Output!Prefix, Rows
<1>2. ExactInv /\ OpenLast => Shown
  BY VisibleIsPrefix
<1>3. ExactInv /\ Shown /\ Shown' /\ [Next]_vars => [Output!Deliver]_Visible
  BY DeliverStep
<1> QED  BY <1>1, <1>2, <1>3, ExactAlways, OpenLastAlways, PTL DEF Spec, ExactlyOnce, Output!Spec

-----------------------------------------------------------------------------
(* A loss of power.                                                        *)

(* The rows up to e are in the sink.                                       *)
Covered(e) == \A r \in Rows : r <= e => Deliveries(r) # {}

(* The ends of the first m reads from the beginning of the source.         *)
Course(h, m) == h[0] = 0 /\ \A k \in 0..(m - 1) : h[k + 1] \in Polls[h[k]]

OnTheWay == {"record", "fold", "sink", "commit", "prunelogs", "prunecommits"}

(* A stateless query that nobody stops.                                    *)
Unstopped ==
    /\ pc \in {"down", "loop", "stage"} \cup OnTheWay
    /\ epoch = "data" /\ stopping = FALSE /\ finals = {}
    /\ batches \in Nat /\ prunedThrough \in Nat /\ crashes \in Nat
    /\ PartialFunction(offsets, 0..N) /\ commits \subseteq Nat /\ CommitsHaveLast
    /\ PartialFunction(sink, Counts)

(* Under id i the query takes the read s places behind the i-th: none      *)
(* before the power loss, and after it as many as the ids it resumed under *)
(* when it found no position.  What is in use under an id is then never    *)
(* beyond what the sink holds under it.                                    *)
Shifted(h, m, s) ==
    /\ Course(h, m)
    /\ \A i \in DOMAIN sink \cup commits : i >= s => i - s < m /\ Covered(h[i - s + 1])
    /\ \A i \in DOMAIN offsets : i >= s => i - s < m /\ offsets[i] = h[i - s + 1]
    /\ s > 0 => s - 1 \notin DOMAIN offsets /\ \E c \in commits : c >= s - 1
    /\ pc = "down" /\ ~ Plan.hasSeek => Plan.start = s
    /\ pc \in {"loop", "stage"} =>
          batches >= s /\ batches - s <= m /\ position = h[batches - s] /\ Covered(position)
    /\ pc \in OnTheWay =>
          /\ batches >= s /\ batches - s < m /\ position = h[batches - s + 1]
          /\ Covered(h[batches - s])
          /\ pc \in {"record", "fold"} => staged = Between(h[batches - s], position)
          /\ pc = "sink" => output = OneEach(Between(h[batches - s], position))
          /\ pc \in Pruning \cup {"commit"} => Covered(position)
          /\ pc \in Pruning => batches \in commits

(* Before the power loss: what is known of every run, and that the offset  *)
(* log names every committed id until the first sweep.                     *)
BeforeLoss(s) ==
    crashes = 0 => IInv /\ s = 0 /\ (0 \in DOMAIN offsets => commits \subseteq DOMAIN offsets)

(* A continuous stateless query on a machine that fails once.              *)
OnePowerLoss ==
    /\ Kind = "stateless" /\ ~ Drains /\ ~ Stops /\ MaxCrashes <= 1
    /\ Deterministic /\ ~ FaultsBeforeRestorePoint

PowerInv ==
    /\ Unstopped
    /\ \E h \in [Nat -> 0..N], m \in Nat, s \in Nat : Shifted(h, m, s) /\ BeforeLoss(s)

(* The ends of the reads grow along the course.                            *)
LEMMA CourseGrows ==
    ASSUME NEW h \in [Nat -> 0..N], NEW m \in Nat, Course(h, m),
           NEW i \in 0..m, NEW j \in 0..m, i <= j
    PROVE  h[i] <= h[j]
<1> DEFINE Bad == {k \in 0..m : i <= k /\ h[k] < h[i]}
<1> SUFFICES ASSUME Bad # {} PROVE FALSE
  BY NAssumption
<1>1. Bad \subseteq Nat
  OBVIOUS
<1>2. PICK x \in Bad : \A y \in Bad : ~ (<<y, x>> \in OpToRel(<, Nat))
  <2> HIDE DEF Bad
  <2> QED  BY <1>1, NatLessThanWellFounded, WFMin
<1>3. \A y \in Bad : ~ (y < x)
  BY <1>1, <1>2 DEF OpToRel
<1>4. x \in 0..m /\ i <= x /\ h[x] < h[i] /\ h \in [Nat -> 0..N]
  OBVIOUS
<1>5. x # i
  BY <1>4, NAssumption
<1>6. x - 1 \in 0..(m - 1) /\ i <= x - 1 /\ x - 1 \in 0..m
  BY <1>4, <1>5
<1>7. h[(x - 1) + 1] \in Polls[h[x - 1]]
  BY <1>6 DEF Course
<1>8. h[x - 1] < h[x] /\ h[x - 1] \in 0..N /\ h[i] \in 0..N /\ h[x] \in 0..N
  <2>1. (x - 1) + 1 = x /\ x - 1 \in Nat /\ x \in Nat /\ i \in Nat
    BY <1>4, <1>6
  <2>2. h[x - 1] \in 0..N /\ h[i] \in 0..N /\ h[x] \in 0..N
    BY <1>4, <2>1
  <2>3. h[x] > h[x - 1]
    BY <1>7, <2>1, <2>2, PollsAssumption
  <2> QED  BY <2>2, <2>3, NAssumption
<1>9. h[x - 1] < h[i]
  BY <1>4, <1>8, NAssumption
<1>10. x - 1 \in Bad
  BY <1>6, <1>9
<1> HIDE DEF Bad
<1> QED  BY <1>3, <1>4, <1>10

(* While the sink stands, so does what it covers.                          *)
LEMMA SameCover ==
    ASSUME sink' = sink
    PROVE  \A e : Covered(e)' <=> Covered(e)
BY DEF Covered, Deliveries

(* Coverage goes down with the position.                                   *)
LEMMA CoverLess ==
    ASSUME NEW d \in 0..N, NEW e \in 0..N, d <= e, Covered(e)
    PROVE  Covered(d)
BY NAssumption DEF Covered, Rows

(* Last is the largest committed id, or NoBatch.                           *)
LEMMA LastOf ==
    ASSUME Unstopped
    PROVE  /\ commits = {} => Last = -1
           /\ commits # {} => Last \in commits /\ \A j \in commits : j <= Last
           /\ Last \in Int /\ Last >= -1
BY LastCommittedIs DEF Unstopped, CommitsHaveLast, Last

(* What recovery reads off logs that may have lost rows.                   *)
Reads(o, C, last, plan) ==
    /\ plan.pending = FALSE /\ plan.start \in Nat
    /\ plan.hasSeek <=> (C # {} /\ last \in DOMAIN o)
    /\ plan.hasSeek => plan.start = last + 1 /\ plan.seek = o[last]
    /\ ~ plan.hasSeek => plan.seek = 0
    /\ plan.start = IF DOMAIN o = {} \/ C = {} THEN 0 ELSE last + 1

(* Recovery reads that, from any logs whose ids have a largest.            *)
LEMMA RecoverOf ==
    ASSUME NEW o, DOMAIN o \subseteq Nat, NEW sn, NEW d,
           NEW C, C \subseteq Nat, C # {} => \E c \in C : \A j \in C : j <= c,
           NEW last, last = LastCommitted(C),
           NEW f, f = {}, NEW plan, plan = Recover(o, f, C, sn, d)
    PROVE  Reads(o, C, last, plan)
<1> DEFINE at == SeekBatch(o, C)
<1>1. /\ C = {} => last = -1
      /\ C # {} => last \in C /\ \A j \in C : j <= last
      /\ last \in Int /\ last >= -1
  BY LastCommittedIs
<1>2. Fresh(o, C) <=> (DOMAIN o = {} \/ C = {})
  BY <1>1 DEF Fresh, NoBatch
<1>3. plan.start = IF DOMAIN o = {} \/ C = {} THEN 0 ELSE last + 1
  BY <1>2 DEF Recover, ResumeBatch
<1>4. at = IF DOMAIN o = {} \/ C = {} THEN -1 ELSE last
  BY <1>2 DEF SeekBatch, NoBatch
<1>5. /\ plan.hasSeek = (at \in DOMAIN o)
      /\ plan.seek = IF at \in DOMAIN o THEN o[at] ELSE 0
      /\ plan.pending = PendingFlush(o, f, C)
  BY DEF Recover
<1>6. plan.pending = FALSE
  BY <1>5 DEF PendingFlush
<1>7. plan.start \in Nat
  BY <1>1, <1>3
<1> HIDE DEF at
<1>8. plan.hasSeek <=> (C # {} /\ last \in DOMAIN o)
  <2>1. CASE DOMAIN o = {} \/ C = {}
    <3>1. at = -1 /\ -1 \notin Nat
      BY <1>4, <2>1
    <3> QED  BY <1>5, <2>1, <3>1
  <2>2. CASE ~ (DOMAIN o = {} \/ C = {})
    BY <1>4, <1>5, <2>2
  <2> QED  BY <2>1, <2>2
<1>9. plan.hasSeek => plan.start = last + 1 /\ plan.seek = o[last]
  <2> SUFFICES ASSUME plan.hasSeek PROVE plan.start = last + 1 /\ plan.seek = o[last]
    OBVIOUS
  <2>1. at = last /\ DOMAIN o # {} /\ C # {} /\ last \in DOMAIN o
    BY <1>4, <1>8
  <2> QED  BY <1>3, <1>5, <2>1
<1>10. ~ plan.hasSeek => plan.seek = 0
  BY <1>5
<1> QED  BY <1>3, <1>6, <1>7, <1>8, <1>9, <1>10 DEF Reads

(* So it does in every state of the query.                                 *)
LEMMA PlanOf ==
    ASSUME Unstopped
    PROVE  Reads(offsets, commits, Last, Plan)
<1>1. /\ DOMAIN offsets \subseteq Nat /\ commits \subseteq Nat /\ finals = {}
      /\ commits # {} => \E c \in commits : \A j \in commits : j <= c
  BY DEF Unstopped, PartialFunction, CommitsHaveLast
<1>2. Plan = Recover(offsets, finals, commits, snapshots, deltas) /\ Last = LastCommitted(commits)
  BY <1>1 DEF Plan, Last
<1> QED  BY <1>1, <1>2, RecoverOf

(* Where a restart puts the query: on the course, as far behind its ids as *)
(* before, with everything up to there in the sink.                        *)
LEMMA RestartOnCourse ==
    ASSUME Unstopped, NEW h \in [Nat -> 0..N], NEW m \in Nat, NEW s \in Nat, Shifted(h, m, s),
           pc = "down" \/ Plan.hasSeek
    PROVE  /\ Plan.start \in Nat /\ Plan.start >= s /\ Plan.start - s <= m
           /\ Plan.seek = h[Plan.start - s] /\ Covered(Plan.seek)
<1>1. CASE Plan.hasSeek
  <2>1. commits # {} /\ Last \in DOMAIN offsets /\ Plan.start = Last + 1 /\ Plan.seek = offsets[Last]
    BY <1>1, PlanOf DEF Reads
  <2>2. Last \in commits /\ Last \in Nat /\ \A j \in commits : j <= Last
    BY <2>1, LastOf DEF Unstopped
  <2>3. Last >= s
    <3>1. CASE s = 0
      BY <2>2, <3>1
    <3>2. CASE s > 0
      <4>1. s - 1 \notin DOMAIN offsets /\ \E c \in commits : c >= s - 1
        BY <3>2 DEF Shifted
      <4>2. PICK c \in commits : c >= s - 1
        BY <4>1
      <4>3. c \in Nat /\ c <= Last /\ Last # s - 1
        BY <2>1, <2>2, <4>1 DEF Unstopped
      <4> QED  BY <2>2, <4>2, <4>3
    <3> QED  BY <3>1, <3>2
  <2>4. Last - s < m /\ Covered(h[Last - s + 1]) /\ offsets[Last] = h[Last - s + 1]
    BY <2>1, <2>2, <2>3 DEF Shifted
  <2>5. (Last + 1) - s = Last - s + 1 /\ (Last + 1) - s <= m /\ Last + 1 >= s
    BY <2>2, <2>3, <2>4
  <2> QED  BY <2>1, <2>2, <2>4, <2>5
<1>2. CASE ~ Plan.hasSeek
  <2>1. Plan.start = s /\ Plan.seek = 0 /\ Plan.start \in Nat
    BY <1>2, PlanOf DEF Shifted, Reads
  <2>2. h[0] = 0 /\ s - s = 0
    BY DEF Shifted, Course
  <2> QED  BY <2>1, <2>2 DEF Covered, Rows
<1> QED  BY <1>1, <1>2

(* The steps such a query takes.                                           *)
LEMMA UnstoppedSteps ==
    ASSUME OnePowerLoss, Unstopped, [Next]_vars
    PROVE  \/ Produce \/ Start \/ TestStop \/ Stage \/ RecordOffsets \/ Fold \/ WriteSink
           \/ Commit \/ PruneLogs \/ PruneCommits \/ Crash \/ Fault \/ UNCHANGED vars
<1>1. ~ StopRequest /\ ~ Exhausted
  BY DEF OnePowerLoss, Unstopped, StopRequest, Exhausted, StageEnds
<1>2. /\ ~ WriteDelta /\ ~ WriteSnapshot /\ ~ DropOther /\ ~ PruneState /\ ~ FinalizeNothing
      /\ ~ FinalizeRecord /\ ~ FinalizeMark /\ ~ ReplayFinalize
  BY DEF Unstopped, OnTheWay, WriteDelta, WriteSnapshot, DropOther, PruneState,
         FinalizeNothing, FinalizeRecord, FinalizeMark, ReplayFinalize
<1>3. Idle \/ Terminated => UNCHANGED vars
  BY DEF Idle, Terminated
<1> QED  BY <1>1, <1>2, <1>3 DEF Next, EngineStep

(* A new row, the test of the stop event and steps of something else.      *)
LEMMA PassingPower ==
    ASSUME Unstopped, NEW h \in [Nat -> 0..N], NEW m \in Nat, NEW s \in Nat, Shifted(h, m, s),
           Produce \/ TestStop \/ UNCHANGED vars
    PROVE  Unstopped' /\ Shifted(h, m, s)'
<1>1. /\ UNCHANGED <<epoch, stopping, finals, batches, prunedThrough, crashes, offsets, commits,
                     sink, position, staged, output, snapshots, deltas>>
      /\ pc' = pc \/ (pc = "loop" /\ pc' = "stage")
  BY DEF Unstopped, Produce, TestStop, vars, engine, durable, logs, files, work, env
<1>2. Plan' = Plan
  BY <1>1 DEF Plan
<1>3. \A e : Covered(e)' <=> Covered(e)
  BY <1>1, SameCover
<1>4. Unstopped'
  BY <1>1 DEF Unstopped, OnTheWay, PartialFunction, CommitsHaveLast
<1>5. Shifted(h, m, s)'
  BY <1>1, <1>2, <1>3 DEF Shifted, Course, OnTheWay, Pruning
<1> QED  BY <1>4, <1>5

(* A start recovers onto the course.                                       *)
LEMMA StartPower ==
    ASSUME Unstopped, NEW h \in [Nat -> 0..N], NEW m \in Nat, NEW s \in Nat, Shifted(h, m, s),
           Start
    PROVE  Unstopped' /\ Shifted(h, m, s)'
<1>1. /\ pc = "down" /\ pc' = "loop" /\ batches' = Plan.start /\ position' = Plan.seek
      /\ UNCHANGED <<offsets, finals, commits, sink, crashes>>
      /\ epoch' = "data" /\ stopping' = FALSE /\ prunedThrough' = 0
  BY PlanOf DEF Reads, Unstopped, OnTheWay, Start, durable, logs
<1>2. /\ Plan.start \in Nat /\ Plan.start >= s /\ Plan.start - s <= m
      /\ Plan.seek = h[Plan.start - s] /\ Covered(Plan.seek)
  BY <1>1, RestartOnCourse
<1>3. \A e : Covered(e)' <=> Covered(e)
  BY <1>1, SameCover
<1>4. Unstopped'
  BY <1>1, <1>2 DEF Unstopped, OnTheWay, PartialFunction, CommitsHaveLast
<1>5. Shifted(h, m, s)'
  BY <1>1, <1>2, <1>3 DEF Shifted, Course, OnTheWay, Pruning
<1> QED  BY <1>4, <1>5

(* A death of the process, and a rollback, leave a restart on the course.  *)
LEMMA FailurePower ==
    ASSUME OnePowerLoss, Unstopped, NEW h \in [Nat -> 0..N], NEW m \in Nat, NEW s \in Nat,
           Shifted(h, m, s), BeforeLoss(s), Crash \/ Fault
    PROVE  Unstopped' /\ Shifted(h, m, s)'
<1>1. UNCHANGED <<offsets, finals, commits, sink, snapshots, deltas>>
  BY DEF Crash, Fault, durable, logs, files
<1>2. Plan' = Plan /\ Plan.start \in Nat
  BY <1>1, PlanOf DEF Reads, Plan
<1>3. \A e : Covered(e)' <=> Covered(e)
  BY <1>1, SameCover
<1>4. CASE Die
  <2>1. /\ pc' = "down" /\ epoch' = "data" /\ batches' = 0 /\ prunedThrough' = 0
        /\ stopping' = FALSE
    BY <1>4 DEF Die
  <2>2. crashes' \in Nat
    <3>1. crashes \in Nat
      BY DEF Unstopped
    <3>2. crashes' = crashes + 1 \/ crashes' = crashes
      BY DEF Crash, Fault
    <3> QED  BY <3>1, <3>2
  <2>3. Unstopped'
    BY <1>1, <2>1, <2>2 DEF Unstopped, OnTheWay, PartialFunction, CommitsHaveLast
  <2>4. ~ Plan.hasSeek => Plan.start = s
    <3>1. CASE Crash
      <4>1. crashes = 0
        <5>1. crashes < MaxCrashes
          BY <3>1 DEF Crash
        <5>2. crashes \in Nat /\ MaxCrashes \in Nat /\ MaxCrashes <= 1
          BY BoundAssumption DEF OnePowerLoss, Unstopped
        <5> QED  BY <5>1, <5>2
      <4>2. IInv /\ s = 0
        BY <4>1 DEF BeforeLoss
      <4> QED  BY <4>2, PlanOf, LastFacts DEF Reads, IInv, LastIsLogged
    <3>2. CASE Fault
      BY <3>2 DEF Fault, OnePowerLoss, HasRestorePoint
    <3> QED  BY <3>1, <3>2
  <2>5. Shifted(h, m, s)'
    BY <1>1, <1>2, <1>3, <2>1, <2>4 DEF Shifted, Course, OnTheWay, Pruning
  <2> QED  BY <2>3, <2>5
<1>5. CASE Fault /\ RollBack
  <2>1. Plan.hasSeek
    BY <1>5 DEF Fault, OnePowerLoss, HasRestorePoint
  <2>2. /\ pc' = "loop" /\ batches' = Plan.start /\ position' = Plan.seek
        /\ UNCHANGED <<epoch, stopping, prunedThrough, crashes>>
    BY <1>5, <2>1 DEF Fault, RollBack
  <2>3. /\ Plan.start >= s /\ Plan.start - s <= m
        /\ Plan.seek = h[Plan.start - s] /\ Covered(Plan.seek)
    BY <2>1, RestartOnCourse
  <2>4. Unstopped'
    BY <1>1, <1>2, <2>2 DEF Unstopped, OnTheWay, PartialFunction, CommitsHaveLast
  <2>5. Shifted(h, m, s)'
    BY <1>1, <1>2, <1>3, <2>2, <2>3 DEF Shifted, Course, OnTheWay, Pruning
  <2> QED  BY <2>4, <2>5
<1> QED  BY <1>4, <1>5 DEF Crash, Fault

(* A read is the next of the course, or extends it.                        *)
LEMMA StagePower ==
    ASSUME OnePowerLoss, Unstopped, NEW h \in [Nat -> 0..N], NEW m \in Nat, NEW s \in Nat,
           Shifted(h, m, s), Stage
    PROVE  /\ Unstopped'
           /\ \E g \in [Nat -> 0..N], n \in Nat : Shifted(g, n, s)'
<1> DEFINE b == batches - s
<1>1. PICK e \in Polls[position] : position' = e /\ staged' = Between(position, e)
  BY DEF Stage, Readable, Between
<1>2. /\ pc = "stage" /\ pc' = "record" /\ epoch' = "data"
      /\ UNCHANGED <<offsets, finals, commits, sink, batches, stopping, prunedThrough, crashes>>
  BY DEF Stage, durable, logs, env
<1>3. Unstopped'
  BY <1>2 DEF Unstopped, OnTheWay, PartialFunction, CommitsHaveLast
<1>4. b \in Nat /\ b <= m /\ position = h[b] /\ Covered(h[b]) /\ batches >= s /\ batches \in Nat
  BY <1>2 DEF Shifted, Unstopped
<1>5. position \in 0..N /\ e \in 0..N
  BY <1>1, <1>4, PollsAssumption, NAssumption DEF Rows
<1>6. \A x : Covered(x)' <=> Covered(x)
  BY <1>2, SameCover
<1>7. CASE b < m
  <2>1. h[b + 1] \in Polls[h[b]]
    BY <1>4, <1>7 DEF Shifted, Course
  <2>2. e = h[b + 1]
    BY <1>1, <1>4, <1>5, <2>1 DEF OnePowerLoss, Deterministic
  <2>3. Shifted(h, m, s)'
    BY <1>1, <1>2, <1>4, <1>6, <1>7, <2>2 DEF Shifted, Course, OnTheWay, Pruning
  <2> QED  BY <1>3, <2>3
<1>8. CASE b = m
  <2> DEFINE g == [h EXCEPT ![m + 1] = e]
  <2>1. g \in [Nat -> 0..N] /\ m + 1 \in Nat
    BY <1>5
  <2>2. g[m + 1] = e /\ \A k \in 0..m : g[k] = h[k]
    OBVIOUS
  <2>3. Course(g, m + 1)
    <3>1. g[0] = 0
      BY <2>2 DEF Shifted, Course
    <3>2. ASSUME NEW k \in 0..((m + 1) - 1) PROVE g[k + 1] \in Polls[g[k]]
      <4>1. CASE k = m
        BY <1>1, <1>4, <1>8, <2>2, <4>1
      <4>2. CASE k # m
        <5>1. k \in 0..(m - 1) /\ k + 1 \in 0..m /\ k \in 0..m
          BY <4>2
        <5>2. h[k + 1] \in Polls[h[k]]
          BY <5>1 DEF Shifted, Course
        <5> QED  BY <2>2, <5>1, <5>2
      <4> QED  BY <4>1, <4>2
    <3> QED  BY <3>1, <3>2 DEF Course
  <2>4. ASSUME NEW i \in Nat, i >= s, i - s < m PROVE i - s < m + 1 /\ g[i - s + 1] = h[i - s + 1]
    <3>1. i - s + 1 \in 0..m
      BY <2>4
    <3> QED  BY <2>2, <2>4, <3>1
  <2>5. g[b] = h[b] /\ g[b + 1] = e
    BY <1>4, <1>8, <2>2
  <2> HIDE DEF g
  <2>6. \A i \in (DOMAIN sink \cup commits) : i >= s => i - s < m + 1 /\ Covered(g[i - s + 1])
    BY <2>4 DEF Shifted, Unstopped, PartialFunction
  <2>7. \A i \in DOMAIN offsets : i >= s => i - s < m + 1 /\ offsets[i] = g[i - s + 1]
    BY <2>4 DEF Shifted, Unstopped, PartialFunction
  <2>8. s > 0 => s - 1 \notin DOMAIN offsets /\ \E c \in commits : c >= s - 1
    BY DEF Shifted
  <2>9. Shifted(g, m + 1, s)'
    BY <1>1, <1>2, <1>4, <1>6, <1>8, <2>3, <2>5, <2>6, <2>7, <2>8
       DEF Shifted, Course, OnTheWay, Pruning
  <2> QED  BY <1>3, <2>1, <2>9
<1> QED  BY <1>4, <1>7, <1>8

(* The write-ahead logs the position of the course for its id.             *)
LEMMA RecordPower ==
    ASSUME Unstopped, NEW h \in [Nat -> 0..N], NEW m \in Nat, NEW s \in Nat, Shifted(h, m, s),
           RecordOffsets
    PROVE  Unstopped' /\ Shifted(h, m, s)'
<1>1. /\ pc = "record" /\ pc' = "fold" /\ offsets' = Put(offsets, batches, position)
      /\ UNCHANGED <<epoch, stopping, finals, batches, prunedThrough, crashes, commits, sink,
                     position, staged>>
  BY DEF Unstopped, RecordOffsets, Logged, work, env
<1>2. /\ batches \in Nat /\ batches >= s /\ batches - s < m /\ position = h[batches - s + 1]
      /\ Covered(h[batches - s]) /\ staged = Between(h[batches - s], position)
  BY <1>1 DEF Shifted, OnTheWay, Unstopped
<1>3. position \in 0..N
  BY <1>2
<1>4. /\ PartialFunction(offsets', 0..N) /\ DOMAIN offsets' = DOMAIN offsets \cup {batches}
      /\ offsets'[batches] = position
      /\ \A i \in DOMAIN offsets : i # batches => offsets'[i] = offsets[i]
  BY <1>1, <1>2, <1>3 DEF Put, PartialFunction, Unstopped
<1>5. \A e : Covered(e)' <=> Covered(e)
  BY <1>1, SameCover
<1>6. Unstopped'
  BY <1>1, <1>4 DEF Unstopped, OnTheWay, PartialFunction, CommitsHaveLast
<1>7. \A i \in DOMAIN offsets' : i >= s => i - s < m /\ offsets'[i] = h[i - s + 1]
  BY <1>2, <1>4 DEF Shifted
<1>8. s > 0 => s - 1 \notin DOMAIN offsets' /\ \E c \in commits' : c >= s - 1
  BY <1>1, <1>2, <1>4 DEF Shifted
<1>9. Shifted(h, m, s)'
  BY <1>1, <1>2, <1>5, <1>7, <1>8 DEF Shifted, Course, OnTheWay, Pruning
<1> QED  BY <1>6, <1>9

(* A stateless processor passes the rows on.                               *)
LEMMA FoldPower ==
    ASSUME OnePowerLoss, Unstopped, NEW h \in [Nat -> 0..N], NEW m \in Nat, NEW s \in Nat,
           Shifted(h, m, s), Fold
    PROVE  Unstopped' /\ Shifted(h, m, s)'
<1>1. /\ pc = "fold" /\ pc' = "sink" /\ output' = OneEach(staged)
      /\ UNCHANGED <<epoch, stopping, finals, batches, prunedThrough, crashes, commits, sink,
                     offsets, position>>
  BY DEF OnePowerLoss, Fold, Emitted, durable, logs, env
<1>2. \A e : Covered(e)' <=> Covered(e)
  BY <1>1, SameCover
<1>3. Unstopped'
  BY <1>1 DEF Unstopped, OnTheWay, PartialFunction, CommitsHaveLast
<1>4. Shifted(h, m, s)'
  BY <1>1, <1>2 DEF Shifted, Course, OnTheWay, Pruning
<1> QED  BY <1>3, <1>4

(* A publish covers its rows, or the sink holds the id and covers them.    *)
LEMMA SinkPower ==
    ASSUME OnePowerLoss, Unstopped, NEW h \in [Nat -> 0..N], NEW m \in Nat, NEW s \in Nat,
           Shifted(h, m, s), WriteSink
    PROVE  Unstopped' /\ Shifted(h, m, s)'
<1> DEFINE b == batches - s
<1>1. /\ pc = "sink" /\ pc' = "commit" /\ sink' = SinkWrite(batches, output)
      /\ UNCHANGED <<epoch, stopping, finals, batches, prunedThrough, crashes, commits, offsets,
                     position>>
  BY DEF OnePowerLoss, WriteSink, AfterPublish, Stateful, logs, env
<1>2. /\ batches \in Nat /\ batches >= s /\ b \in Nat /\ b < m /\ position = h[b + 1]
      /\ Covered(h[b]) /\ output = OneEach(Between(h[b], position))
  BY <1>1 DEF Shifted, OnTheWay, Unstopped
<1>3. h[b] \in 0..N /\ position \in 0..N /\ output \in Counts
  BY <1>2, CountTypes
<1>4. \A r \in Rows : h[b] < r /\ r <= position => output[r] = 1
  BY <1>2 DEF OneEach, Between
<1>5. position \in Rows /\ h[b] < position
  <2>1. h[b + 1] \in Polls[h[b]]
    BY <1>2 DEF Shifted, Course
  <2> QED  BY <1>2, <1>3, <2>1, PollsAssumption
<1>6. output # NoRows
  <2>1. output[position] = 1
    BY <1>3, <1>4, <1>5
  <2>2. NoRows[position] = 0
    BY <1>5 DEF NoRows
  <2> QED  BY <2>1, <2>2
<1>7. IF batches \in DOMAIN sink THEN sink' = sink ELSE sink' = Put(sink, batches, output)
  BY <1>1, <1>6 DEF SinkWrite, OnePowerLoss
<1>8. /\ PartialFunction(sink', Counts) /\ DOMAIN sink' = DOMAIN sink \cup {batches}
      /\ \A i \in DOMAIN sink : sink'[i] = sink[i]
      /\ batches \notin DOMAIN sink => sink'[batches] = output
  BY <1>2, <1>3, <1>7 DEF Put, PartialFunction, Unstopped
<1>9. \A r \in Rows : Deliveries(r) \subseteq Deliveries(r)'
  BY <1>8 DEF Deliveries
<1>10. \A e : Covered(e) => Covered(e)'
  BY <1>9 DEF Covered
<1>11. Covered(position)'
  <2> SUFFICES ASSUME NEW r \in Rows, r <= position PROVE Deliveries(r)' # {}
    BY <1>1 DEF Covered
  <2>1. CASE batches \in DOMAIN sink
    <3>1. Covered(h[b + 1])
      BY <1>2, <2>1 DEF Shifted
    <3> QED  BY <1>2, <1>9, <3>1 DEF Covered
  <2>2. CASE batches \notin DOMAIN sink
    <3>1. CASE r <= h[b]
      BY <1>2, <1>9, <3>1 DEF Covered
    <3>2. CASE ~ (r <= h[b])
      <4>1. sink'[batches][r] = 1 /\ batches \in DOMAIN sink'
        BY <1>3, <1>4, <1>8, <2>2, <3>2, NAssumption DEF Rows
      <4> QED  BY <4>1 DEF Deliveries
    <3> QED  BY <3>1, <3>2
  <2> QED  BY <2>1, <2>2
<1>12. Unstopped'
  BY <1>1, <1>8 DEF Unstopped, OnTheWay, PartialFunction, CommitsHaveLast
<1>13. \A i \in (DOMAIN sink' \cup commits') : i >= s => i - s < m /\ Covered(h[i - s + 1])'
  <2> SUFFICES ASSUME NEW i \in DOMAIN sink' \cup commits', i >= s
               PROVE  i - s < m /\ Covered(h[i - s + 1])'
    OBVIOUS
  <2>1. CASE i = batches
    BY <1>1, <1>2, <1>11, <2>1
  <2>2. CASE i # batches
    <3>1. i \in DOMAIN sink \cup commits
      BY <1>1, <1>8, <2>2
    <3> QED  BY <1>10, <3>1 DEF Shifted
  <2> QED  BY <2>1, <2>2
<1>14. Shifted(h, m, s)'
  BY <1>1, <1>2, <1>10, <1>11, <1>13 DEF Shifted, Course, OnTheWay, Pruning
<1> QED  BY <1>12, <1>14

(* A commit is of an id whose rows are in the sink.                        *)
LEMMA CommitPower ==
    ASSUME OnePowerLoss, Unstopped, NEW h \in [Nat -> 0..N], NEW m \in Nat, NEW s \in Nat,
           Shifted(h, m, s), Commit
    PROVE  Unstopped' /\ Shifted(h, m, s)'
<1>1. /\ pc = "commit" /\ pc' = "prunelogs" /\ commits' = commits \cup {batches}
      /\ UNCHANGED <<epoch, stopping, finals, batches, prunedThrough, crashes, sink, offsets,
                     position>>
  BY DEF OnePowerLoss, Commit, Stateful, env
<1>2. /\ batches \in Nat /\ batches >= s /\ batches - s < m /\ position = h[batches - s + 1]
      /\ Covered(h[batches - s]) /\ Covered(position)
  BY <1>1 DEF Shifted, OnTheWay, Unstopped
<1>3. \A e : Covered(e)' <=> Covered(e)
  BY <1>1, SameCover
<1>4. \E c \in commits' : \A j \in commits' : j <= c
  <2>1. CASE commits = {}
    BY <1>1, <1>2, <2>1
  <2>2. CASE commits # {}
    <3>1. PICK c \in commits : \A j \in commits : j <= c
      BY <2>2 DEF Unstopped, CommitsHaveLast
    <3>2. CASE c <= batches
      <4>1. batches \in commits' /\ \A j \in commits : j \in Nat
        BY <1>1 DEF Unstopped
      <4>2. \A j \in commits' : j <= batches
        BY <1>1, <1>2, <3>1, <3>2, <4>1
      <4> QED  BY <4>1, <4>2
    <3>3. CASE ~ (c <= batches)
      BY <1>1, <1>2, <3>1, <3>3 DEF Unstopped
    <3> QED  BY <3>2, <3>3
  <2> QED  BY <2>1, <2>2
<1>5. Unstopped'
  BY <1>1, <1>2, <1>4 DEF Unstopped, OnTheWay, PartialFunction, CommitsHaveLast
<1>6. Shifted(h, m, s)'
  BY <1>1, <1>2, <1>3 DEF Shifted, Course, OnTheWay, Pruning
<1> QED  BY <1>5, <1>6

(* The sweeps keep the row of the last commit.                             *)
LEMMA SweepPower ==
    ASSUME OnePowerLoss, Unstopped, NEW h \in [Nat -> 0..N], NEW m \in Nat, NEW s \in Nat,
           Shifted(h, m, s), PruneLogs \/ PruneCommits
    PROVE  Unstopped' /\ Shifted(h, m, s)'
<1>1. /\ UNCHANGED <<epoch, stopping, crashes, sink, position>> /\ finals' = {}
      /\ pc \in Pruning /\ pc \in OnTheWay
      /\ \/ pc' = "loop" /\ batches' = batches + 1
         \/ pc' = "prunecommits" /\ batches' = batches
  BY DEF Unstopped, PruneLogs, PruneCommits, NextEpoch, Pruning, OnTheWay, env
<1>2. /\ batches \in Nat /\ batches >= s /\ batches - s < m /\ position = h[batches - s + 1]
      /\ Covered(h[batches - s]) /\ Covered(position) /\ batches \in commits
  BY <1>1 DEF Shifted, Unstopped
<1>3. /\ offsets' = offsets \/ offsets' = Remove(offsets, Superseded(DOMAIN offsets))
      /\ commits' = commits \/ commits' = commits \ Superseded(commits)
      /\ prunedThrough' \in Nat
  BY <1>2 DEF Unstopped, PruneLogs, PruneCommits
<1>4. /\ PartialFunction(offsets', 0..N) /\ DOMAIN offsets' \subseteq DOMAIN offsets
      /\ \A i \in DOMAIN offsets' : offsets'[i] = offsets[i]
  BY <1>3 DEF Unstopped, PartialFunction, Remove, Restrict
<1>5. commits' \subseteq commits /\ \A c \in commits : c >= batches => c \in commits'
  <2>1. Superseded(commits) = {c \in commits : c < batches} /\ commits \subseteq Nat
    BY DEF Superseded, Unstopped
  <2> QED  BY <1>2, <1>3, <2>1
<1>6. CommitsHaveLast'
  <2>1. PICK c \in commits : \A j \in commits : j <= c
    BY <1>2 DEF Unstopped, CommitsHaveLast
  <2> QED  BY <1>2, <1>5, <2>1 DEF CommitsHaveLast
<1>7. \A e : Covered(e)' <=> Covered(e)
  BY <1>1, SameCover
<1>8. Unstopped'
  <2>1. commits \subseteq Nat /\ PartialFunction(sink, Counts) /\ crashes \in Nat /\ epoch = "data" /\ stopping = FALSE
    BY DEF Unstopped
  <2>2. commits' \subseteq Nat /\ batches' \in Nat /\ pc' \in {"loop", "prunecommits"}
    BY <1>1, <1>2, <1>5, <2>1
  <2>3. PartialFunction(sink, Counts)'
    BY <1>1, <2>1 DEF PartialFunction
  <2>4. PartialFunction(offsets, 0..N)'
    BY <1>4 DEF PartialFunction
  <2> QED  BY <1>1, <1>3, <1>6, <2>1, <2>2, <2>3, <2>4 DEF Unstopped, OnTheWay
<1>9. s > 0 => s - 1 \notin DOMAIN offsets' /\ \E c \in commits' : c >= s - 1
  BY <1>2, <1>4, <1>5 DEF Shifted
<1>10. \A i \in (DOMAIN sink' \cup commits') : i >= s => i - s < m /\ Covered(h[i - s + 1])'
  BY <1>1, <1>5, <1>7 DEF Shifted
<1>11. \A i \in DOMAIN offsets' : i >= s => i - s < m /\ offsets'[i] = h[i - s + 1]
  BY <1>4 DEF Shifted
<1>12. (batches + 1) - s = batches - s + 1 /\ (batches + 1) - s <= m /\ batches + 1 >= s
  BY <1>2
<1>13. Shifted(h, m, s)'
  BY <1>1, <1>2, <1>5, <1>7, <1>9, <1>10, <1>11, <1>12 DEF Shifted, Course, OnTheWay, Pruning
<1> QED  BY <1>8, <1>13

(* An OS-level crash leaves a course of which the ids are where they were, *)
(* or, when the position of the last commit is lost with it, one that the  *)
(* query begins again under its next id.                                   *)
LEMMA LossPower ==
    ASSUME OnePowerLoss, Unstopped, NEW h \in [Nat -> 0..N], NEW m \in Nat, NEW s \in Nat,
           Shifted(h, m, s), BeforeLoss(s), OSCrash
    PROVE  Unstopped' /\ \E t \in Nat : Shifted(h, m, t)'
<1>1. crashes = 0 /\ crashes' = 1
  <2>1. crashes < MaxCrashes /\ crashes' = crashes + 1
    BY DEF OSCrash
  <2>2. crashes \in Nat /\ MaxCrashes \in Nat /\ MaxCrashes <= 1
    BY BoundAssumption DEF OnePowerLoss, Unstopped
  <2> QED  BY <2>1, <2>2
<1>2. IInv /\ s = 0 /\ (0 \in DOMAIN offsets => commits \subseteq DOMAIN offsets)
  BY <1>1 DEF BeforeLoss
<1>3. PICK kept \in Survivors(DOMAIN offsets) :
         offsets' = Restrict(offsets, kept) /\ finals' = finals \cap kept
  BY DEF OSCrash
<1>4. /\ commits' \in Survivors(commits) /\ sink' = sink
      /\ pc' = "down" /\ epoch' = "data" /\ batches' = 0 /\ prunedThrough' = 0 /\ stopping' = FALSE
  BY DEF OSCrash, Die
<1>5. /\ PartialFunction(offsets', 0..N) /\ DOMAIN offsets' = kept /\ kept \subseteq DOMAIN offsets
      /\ \A i \in kept : offsets'[i] = offsets[i]
  <2>1. kept \subseteq DOMAIN offsets
    BY DEF Survivors
  <2> QED  BY <1>3, <2>1 DEF Restrict, PartialFunction, Unstopped
<1>6. commits' \subseteq commits /\ commits \subseteq DOMAIN offsets /\ commits \subseteq Nat
  <2>1. commits' \subseteq commits /\ commits \subseteq Nat
    BY <1>4 DEF Survivors, Unstopped
  <2>2. CASE DOMAIN offsets = {}
    BY <1>2, <2>1, <2>2 DEF IInv, LastIsLogged
  <2>3. CASE DOMAIN offsets # {}
    BY <1>2, <2>1, <2>3 DEF OSCrash
  <2> QED  BY <2>1, <2>2, <2>3
<1>7. Unstopped'
  <2>1. CommitsHaveLast'
    <3>1. CASE commits = {}
      BY <1>6, <3>1 DEF CommitsHaveLast
    <3>2. CASE commits # {}
      <4>1. Last \in Nat /\ \A j \in commits : j <= Last
        BY <1>6, <3>2, LastOf
      <4>2. commits' \subseteq 0..Last
        BY <1>6, <4>1
      <4>3. commits' # {} => \E c \in commits' : \A j \in commits' : j <= c
        <5>1. PICK b \in Int : b = Last
          BY <4>1
        <5>2. commits' \subseteq 0..b
          BY <4>2, <5>1
        <5> QED  BY <5>2, BoundedHasLargest
      <4> QED  BY <4>3 DEF CommitsHaveLast
    <3> QED  BY <3>1, <3>2
  <2>2. PartialFunction(sink, Counts)' /\ commits' \subseteq Nat /\ finals' = {}
    BY <1>3, <1>4, <1>6 DEF Unstopped, PartialFunction
  <2> QED  BY <1>1, <1>4, <1>5, <2>1, <2>2 DEF Unstopped, OnTheWay
<1>8. \A e : Covered(e)' <=> Covered(e)
  BY <1>4, SameCover
<1>9. /\ \A i \in DOMAIN sink \cup commits : i < m /\ Covered(h[i + 1])
      /\ \A i \in DOMAIN offsets : i < m /\ offsets[i] = h[i + 1]
      /\ Course(h, m)
  <2>1. \A i \in Nat : i >= s /\ i - s = i
    BY <1>2
  <2> QED  BY <1>2, <2>1 DEF Shifted, Unstopped, PartialFunction
<1>10. /\ (Plan.hasSeek)' <=> (commits' # {} /\ Last' \in kept)
       /\ (Plan.start)' = IF kept = {} \/ commits' = {} THEN 0 ELSE Last' + 1
       /\ commits' = {} => Last' = -1
       /\ commits' # {} => Last' \in commits' /\ \A j \in commits' : j <= Last'
  <2>1. /\ DOMAIN offsets' \subseteq Nat /\ commits' \subseteq Nat /\ finals' = {}
        /\ commits' # {} => \E c \in commits' : \A j \in commits' : j <= c
    BY <1>7 DEF Unstopped, PartialFunction, CommitsHaveLast
  <2>2. /\ (Plan.hasSeek)' <=> (commits' # {} /\ Last' \in DOMAIN offsets')
        /\ (Plan.start)' = IF DOMAIN offsets' = {} \/ commits' = {} THEN 0 ELSE Last' + 1
    <3>1. Plan' = Recover(offsets', finals', commits', snapshots', deltas') /\ Last' = LastCommitted(commits')
      BY <2>1 DEF Plan, Last
    <3>2. Reads(offsets', commits', Last', Plan')
      BY <2>1, <3>1, RecoverOf
    <3> QED  BY <3>2 DEF Reads
  <2>3. /\ commits' = {} => Last' = -1
        /\ commits' # {} => Last' \in commits' /\ \A j \in commits' : j <= Last'
    BY <2>1, LastCommittedIs DEF Last
  <2> QED  BY <1>5, <2>2, <2>3
<1>11. CASE (Plan.hasSeek)' \/ kept = {} \/ commits' = {}
  <2>1. ~ (Plan.hasSeek)' => (Plan.start)' = 0
    BY <1>10, <1>11
  <2>2. \A i \in Nat : i - 0 = i /\ i - 0 + 1 = i + 1
    OBVIOUS
  <2>3. \A i \in DOMAIN sink' \cup commits' : i >= 0 => i - 0 < m /\ Covered(h[i - 0 + 1])'
    BY <1>4, <1>6, <1>8, <1>9, <2>2 DEF Unstopped, PartialFunction
  <2>4. \A i \in DOMAIN offsets' : i >= 0 => i - 0 < m /\ offsets'[i] = h[i - 0 + 1]
    BY <1>5, <1>9, <2>2 DEF Unstopped, PartialFunction
  <2>5. Shifted(h, m, 0)'
    BY <1>4, <1>9, <2>1, <2>3, <2>4 DEF Shifted, Course, OnTheWay
  <2> QED  BY <1>7, <2>5
<1>12. CASE ~ ((Plan.hasSeek)' \/ kept = {} \/ commits' = {})
  <2>1. PICK t \in Nat : t = Last' + 1
    BY <1>6, <1>10, <1>12
  <2>2. /\ t > 0 /\ t - 1 = Last' /\ Last' \in commits' /\ Last' \notin kept /\ Last' \in Nat
        /\ Last' \in DOMAIN offsets /\ (Plan.start)' = t
    BY <1>6, <1>10, <1>12, <2>1
  <2>3. \A i \in kept : i < t - 1
    <3>1. PICK k \in DOMAIN offsets : kept = {i \in DOMAIN offsets : i < k}
      BY <2>2 DEF Survivors
    <3>2. ~ (Last' < k) /\ k \in Nat
      BY <2>2, <3>1 DEF Unstopped, PartialFunction
    <3>3. \A i \in kept : i \in Nat /\ i < k
      BY <3>1 DEF Unstopped, PartialFunction
    <3> QED  BY <2>2, <3>2, <3>3
  <2>4. ASSUME NEW i \in DOMAIN sink' \cup commits', i >= t
        PROVE  i - t < m /\ Covered(h[i - t + 1])'
    <3>1. i \in Nat /\ i < m /\ Covered(h[i + 1])
      BY <1>4, <1>6, <1>9, <2>4 DEF Unstopped, PartialFunction
    <3>2. i - t + 1 \in 0..m /\ i + 1 \in 0..m /\ i - t + 1 <= i + 1 /\ i - t < m
      BY <2>4, <3>1
    <3>3. h[i - t + 1] <= h[i + 1]
      BY <1>9, <3>2, CourseGrows
    <3>4. h[i - t + 1] \in 0..N /\ h[i + 1] \in 0..N
      BY <3>2
    <3>5. Covered(h[i - t + 1])
      BY <3>1, <3>3, <3>4, CoverLess
    <3> QED  BY <1>8, <3>2, <3>5
  <2>5. \A i \in DOMAIN offsets' : ~ (i >= t)
    <3>1. \A i \in kept : i \in Nat
      BY <1>5 DEF Unstopped, PartialFunction
    <3> QED  BY <1>5, <2>3, <3>1
  <2>6. t - 1 \notin DOMAIN offsets' /\ \E c \in commits' : c >= t - 1
    BY <1>5, <2>2
  <2>7. Shifted(h, m, t)'
    BY <1>4, <1>9, <2>2, <2>4, <2>5, <2>6 DEF Shifted, Course, OnTheWay
  <2> QED  BY <1>7, <2>7
<1> QED  BY <1>11, <1>12

(* Before the loss every step is a step of the query, and the offset log   *)
(* loses a committed id only to a sweep, which takes id 0 as well.         *)
LEMMA BeforePower ==
    ASSUME OnePowerLoss, Unstopped, NEW s \in Nat, BeforeLoss(s), [PowerNext]_vars
    PROVE  BeforeLoss(s)'
<1> SUFFICES ASSUME crashes' = 0
             PROVE  IInv' /\ s = 0 /\ (0 \in DOMAIN offsets' => commits' \subseteq DOMAIN offsets')
  BY DEF BeforeLoss
<1>1. crashes = 0 /\ [Next]_vars /\ ~ Crash
  <2>1. crashes \in Nat /\ ~ OSCrash /\ ~ Crash
    BY DEF Unstopped, OSCrash, Crash
  <2>2. [Next]_vars
    BY <2>1 DEF PowerNext
  <2>3. crashes' = crashes
    BY <2>1, <2>2, UnstoppedSteps
       DEF Produce, Start, TestStop, Stage, RecordOffsets, Fold, WriteSink, Commit, PruneLogs,
           PruneCommits, Fault, vars, env
  <2> QED  BY <2>1, <2>2, <2>3
<1>2. IInv /\ s = 0 /\ (0 \in DOMAIN offsets => commits \subseteq DOMAIN offsets)
  BY <1>1 DEF BeforeLoss
<1>3. IInv'
  BY <1>1, <1>2, StepKeeps
<1>4. 0 \in DOMAIN offsets' => commits' \subseteq DOMAIN offsets'
  <2>1. CASE RecordOffsets
    <3>1. /\ DOMAIN offsets' = DOMAIN offsets \cup {batches} /\ commits' = commits
          /\ batches = Last + 1
      BY <1>2, <2>1 DEF RecordOffsets, Logged, Put, IInv, IdInFlight, Pruning
    <3>2. commits # {} => Last \in Nat
      BY <1>2, LastOf DEF Unstopped
    <3> QED  BY <1>2, <3>1, <3>2
  <2>2. CASE Commit
    <3>1. batches \in DOMAIN offsets
      BY <1>2, <2>2 DEF Commit, IInv, IdInFlight, AfterLogging
    <3> QED  BY <1>2, <2>2, <3>1 DEF Commit
  <2>3. CASE PruneLogs
    <3>1. commits' = commits /\ batches \in Nat /\ prunedThrough \in Nat
      BY <2>3 DEF PruneLogs, Unstopped
    <3>2. CASE offsets' = offsets
      BY <1>2, <3>1, <3>2
    <3>3. CASE offsets' # offsets
      <4>1. /\ ~ (batches - prunedThrough < PruneEvery)
            /\ offsets' = Remove(offsets, Superseded(DOMAIN offsets))
        BY <2>3, <3>3 DEF PruneLogs
      <4>2. batches > 0
        BY <3>1, <4>1, BoundAssumption
      <4>3. 0 \notin DOMAIN offsets'
        BY <4>1, <4>2 DEF Remove, Restrict, Superseded
      <4> QED  BY <4>3
    <3> QED  BY <3>2, <3>3
  <2>4. CASE PruneCommits
    BY <1>2, <2>4 DEF PruneCommits
  <2>5. CASE Produce \/ Start \/ TestStop \/ Stage \/ Fold \/ WriteSink \/ Fault \/ UNCHANGED vars
    <3>1. offsets' = offsets /\ commits' = commits
      BY <2>5 DEF Produce, Start, TestStop, Stage, Fold, WriteSink, Fault, vars, durable, logs
    <3> QED  BY <1>2, <3>1
  <2> QED  BY <1>1, <2>1, <2>2, <2>3, <2>4, <2>5, UnstoppedSteps
<1> QED  BY <1>2, <1>3, <1>4

(* Every step keeps the query on its course.                               *)
LEMMA PowerStep ==
    ASSUME OnePowerLoss, PowerInv, [PowerNext]_vars
    PROVE  PowerInv'
<1>1. Unstopped
  BY DEF PowerInv
<1>2. PICK h \in [Nat -> 0..N], m \in Nat, s \in Nat : Shifted(h, m, s) /\ BeforeLoss(s)
  BY DEF PowerInv
<1>3. CASE OSCrash
  <2>1. PICK t \in Nat : Unstopped' /\ Shifted(h, m, t)'
    BY <1>1, <1>2, <1>3, LossPower
  <2>2. crashes' # 0
    BY <1>1, <1>3 DEF OSCrash, Unstopped
  <2>3. BeforeLoss(t)'
    BY <2>2 DEF BeforeLoss
  <2> QED  BY <2>1, <2>3 DEF PowerInv
<1>4. CASE [Next]_vars
  <2>1. BeforeLoss(s)'
    BY <1>1, <1>2, BeforePower
  <2>2. CASE Stage
    <3>1. PICK g \in [Nat -> 0..N], n \in Nat : Unstopped' /\ Shifted(g, n, s)'
      BY <1>1, <1>2, <2>2, StagePower
    <3> QED  BY <2>1, <3>1 DEF PowerInv
  <2>3. CASE ~ Stage
    <3>1. Unstopped' /\ Shifted(h, m, s)'
      BY <1>1, <1>2, <1>4, <2>3, UnstoppedSteps, PassingPower, StartPower, FailurePower,
         RecordPower, FoldPower, SinkPower, CommitPower, SweepPower
    <3> QED  BY <1>2, <2>1, <3>1 DEF PowerInv
  <2> QED  BY <2>2, <2>3
<1> QED  BY <1>3, <1>4 DEF PowerNext

(* A continuous stateless query of any length, under any number of faults, *)
(* loses no row to one loss of power, whatever each of the two logs then   *)
(* loses of its last transactions (logs._tune, recover).                   *)
THEOREM NoRowLostToPower ==
    ASSUME OnePowerLoss
    PROVE  PowerSpec => []NoRowLost
<1>1. Init => PowerInv
  <2> SUFFICES ASSUME Init PROVE PowerInv
    OBVIOUS
  <2>1. IInv
    BY InitEstablishes
  <2>2. /\ DOMAIN offsets = {} /\ commits = {} /\ DOMAIN sink = {} /\ finals = {} /\ pc = "down"
        /\ epoch = "data" /\ stopping = FALSE /\ batches = 0 /\ prunedThrough = 0 /\ crashes = 0
    BY DEF Init
  <2>3. Unstopped
    BY <2>1, <2>2 DEF Unstopped, OnTheWay, IInv, TypeOK, PartialFunction, CommitsHaveLast
  <2> DEFINE h == [k \in Nat |-> 0]
  <2>4. h \in [Nat -> 0..N] /\ h[0] = 0
    BY NAssumption
  <2> HIDE DEF h
  <2>5. Plan.start = 0
    BY <2>2, <2>3, PlanOf DEF Reads
  <2>6. Course(h, 0)
    BY <2>4 DEF Course
  <2>7. Shifted(h, 0, 0) /\ BeforeLoss(0)
    BY <2>1, <2>2, <2>5, <2>6 DEF Shifted, OnTheWay, BeforeLoss
  <2> QED  BY <2>3, <2>4, <2>7 DEF PowerInv
<1>2. PowerInv => NoRowLost
  <2> SUFFICES ASSUME PowerInv PROVE NoRowLost
    OBVIOUS
  <2>1. Unstopped
    BY DEF PowerInv
  <2>2. PICK h \in [Nat -> 0..N], m \in Nat, s \in Nat : Shifted(h, m, s)
    BY DEF PowerInv
  <2>3. Covered(Plan.seek)
    <3>1. CASE Plan.hasSeek
      BY <2>1, <2>2, <3>1, RestartOnCourse
    <3>2. CASE ~ Plan.hasSeek
      BY <2>1, <3>2, PlanOf DEF Reads, Covered, Rows
    <3> QED  BY <3>1, <3>2
  <2> QED  BY <2>3 DEF NoRowLost, Covered, OnePowerLoss
<1>3. PowerInv /\ [PowerNext]_vars => PowerInv'
  BY PowerStep
<1> QED  BY <1>1, <1>2, <1>3, PTL DEF PowerSpec
=============================================================================
