------------------------ MODULE FileIngest_proofs ------------------------
(***************************************************************************)
(* Proofs about FileIngest: what the store of seen files remembers was     *)
(* delivered, and how often a row is written, for every number of files,   *)
(* batches, workers and failures.                                          *)
(***************************************************************************)
EXTENDS FileIngest, FiniteSetTheorems, NaturalsInduction, WellFoundedInduction, TLAPS

-----------------------------------------------------------------------------
(* The inductive invariant.                                                *)

Failures  == crashes + faults
Allowance == MaxFiles * Failures
Live      == pc \notin {"down", "done"}
Held      == \E k \in DOMAIN sink : k[1] = id
Deliv(r)  == \E k \in DOMAIN sink : r \in sink[k]
Closed(S) == \A f \in S, g \in Files : g < f => g \in S

(* An epoch of the local runner: one batch.                                *)
One(r) == [s \in {0} |-> {r}]

(* The files the next pass would take.                                     *)
Window   == First(arrived \ seen, MaxFiles)
Width(S) == Min({workers, Cardinality(S)})

(* Ids: the engine's is always the one recovery resumes under.             *)
Ids ==
    /\ commits \subseteq 0..id - 1
    /\ IF commits = {} THEN id = 0 ELSE id - 1 \in commits
    /\ DOMAIN offsets \subseteq 0..id
    /\ \A k \in DOMAIN sink : k[1] <= id
    /\ IsFiniteSet(DOMAIN sink)
    /\ crashes \in Nat /\ faults \in Nat

(* A committed position adds nothing to the store of seen files.           *)
Positions ==
    /\ pc \in {"publish", "confirm", "commit"} => id \in DOMAIN offsets
    /\ \A c \in commits : offsets[c] \subseteq seen
    /\ pc \in {"publish", "confirm"} => offsets[id] = completed
    /\ pc = "commit" => offsets[id] \subseteq seen

(* Which steps go with which runner and sink.                              *)
Modes ==
    /\ runner = "local" => writer = "transactional" /\ pc # "shards"
    /\ pc # "shards" => unwritten = {}
    /\ draining => pc \in {"record", "commit"}
    /\ writer = "transactional" => unwritten = {}

(* The local source: what its generator has read, is reading and has left, *)
(* in name order.                                                          *)
LocalSource ==
    /\ ~ open => pending = {} /\ completed = {} /\ reading = {} /\ pass = {}
    /\ draining => ~ open
    /\ \A f \in Files : f \in pending <=> f \in completed \cup reading \/ \E r \in pass : r[1] = f
    /\ \A f \in completed : \A r \in pass : f < r[1]
    /\ \A f \in reading : \A r \in pass : f <= r[1]
    /\ \A f \in completed, g \in reading : f < g
    /\ reading \subseteq pending
    /\ pc \in {"record", "publish"} /\ ~ draining =>
          \E r \in Rows : /\ staged = One(r)
                          /\ r[1] \in reading /\ r \notin pass
                          /\ \A p \in pass : Before(r, p)

(* The distributed source: one pass in hand from its discovery to its      *)
(* confirmation, none otherwise.                                           *)
InHand == pc \in {"shards", "record", "publish", "confirm"} /\ ~ draining
DistSource ==
    /\ ~ open /\ pass = {}
    /\ ~ InHand => pending = {} /\ completed = {} /\ reading = {}
    /\ pc = "shards" => completed = {} /\ reading = pending
    /\ InHand /\ pc # "shards" => completed = pending /\ reading = {}
    /\ Cardinality(pending) <= MaxFiles
    /\ InHand /\ pc # "confirm" =>
          /\ DOMAIN staged = 0..Width(pending) - 1
          /\ \A r \in Rows : r[1] \in pending => \E s \in DOMAIN staged : r \in staged[s]
          /\ \A s \in DOMAIN staged : \A r \in staged[s] : r[1] \in pending
          /\ \A s, u \in DOMAIN staged : \A r \in staged[s] : r \in staged[u] => s = u
          /\ writer = "files" => \A s \in DOMAIN staged \ unwritten :
                                    /\ <<id, s>> \in DOMAIN sink
                                    /\ sink[<<id, s>>] = staged[s]

SourceInv ==
    Live => /\ pending \cap seen = {}
            /\ IF runner = "local" THEN LocalSource ELSE DistSource

BaseInv == TypeOK /\ Ids /\ Positions /\ Modes /\ SourceInv

-----------------------------------------------------------------------------
(* What was lost.                                                          *)

(* The local runner: a pulled row is in the sink before the next pull, and *)
(* a sink that already holds the id holds everything up to its row.        *)
Ordered ==
    /\ Closed(arrived)
    /\ runner = "local" => Closed(seen)
    /\ runner = "local" /\ Live => Closed(seen \cup pending)

Pulled ==
    \A r \in Rows : r[1] \in pending /\ r \notin pass =>
        Deliv(r) \/ (pc \in {"record", "publish"} /\ ~ draining /\ staged = One(r))

HeldRow(r) ==
    /\ r[1] \in arrived /\ r[1] \notin seen
    /\ \A s \in Rows : s = r \/ Before(s, r) => Deliv(s)
    /\ Live => r[1] \notin completed
    /\ pc = "stage" => completed = {} /\ reading = {} /\ (open => \E p \in pass : p = r \/ Before(p, r))
    /\ pc \in {"record", "publish"} => ~ draining /\ \A s \in DOMAIN staged : \A p \in staged[s] : Deliv(p)

LocalLoss ==
    /\ \A f \in seen : Delivered(f)
    /\ Live => Pulled
    /\ Held => \E r \in Rows : HeldRow(r)

(* The distributed runner: each failure pays for the one pass that may be  *)
(* confirmed without being written, or overwritten after it was confirmed. *)
Lost == {f \in seen : ~ Delivered(f)}
DeliveredBefore(f) == \A r \in RowsOf(f) : \E k \in DOMAIN sink : k[1] < id /\ r \in sink[k]
LostBefore == {f \in seen : ~ DeliveredBefore(f)}

TableLoss ==
    /\ Cardinality(Lost) <= Allowance
    /\ Held /\ pc \notin {"confirm", "commit"} => Cardinality(Lost) + MaxFiles <= Allowance
    /\ pc = "confirm" => \/ \A f \in completed : Delivered(f)
                         \/ Cardinality(Lost) + MaxFiles <= Allowance

FilesLoss ==
    /\ pc # "commit" => Cardinality(LostBefore) <= Allowance
    /\ pc = "commit" => /\ Cardinality(LostBefore \ offsets[id]) <= Allowance
                        /\ Cardinality(offsets[id]) <= MaxFiles
                        /\ \A f \in offsets[id] : Delivered(f)
    /\ pc = "confirm" => \A f \in completed : Delivered(f)

LossInv ==
    /\ BaseInv
    /\ IF runner = "local" THEN InOrder => Ordered /\ LocalLoss
       ELSE IF writer = "files" THEN FilesLoss ELSE TableLoss

-----------------------------------------------------------------------------
(* What was written twice.                                                 *)

AllCopies(r) == {k \in DOMAIN sink : r \in sink[k]}

(* The local runner will still write r in this life of the process.        *)
Unread(r) ==
    \/ ~ Live \/ r \in pass \/ r[1] \notin pending
    \/ pc \in {"record", "publish"} /\ ~ draining /\ staged = One(r)

LocalCopies ==
    \A r \in Rows :
        /\ Cardinality(AllCopies(r)) <= 1 + Failures
        /\ r[1] \notin seen /\ Unread(r) => Cardinality(AllCopies(r)) <= Failures

Once(r) == \A k, l \in DOMAIN sink : r \in sink[k] /\ r \in sink[l] => k = l

(* The pass in hand, or the one that would be taken now.                   *)
Target == IF InHand THEN pending ELSE Window

(* Rows in the sink whose file is not seen are the current epoch's, and    *)
(* the shards they are in are about to be written over.                    *)
Unseen == \E k \in DOMAIN sink : \E r \in sink[k] : r[1] \notin seen

DistCopies ==
    /\ InHand => pending \subseteq Window
    /\ \A r \in Rows : r[1] \in seen \/ writer = "transactional" => Once(r)
    /\ pc = "confirm" => \A r \in Rows : r[1] \in completed => Once(r)
    /\ Unseen => pc # "commit" /\ ~ draining
    /\ \A k \in DOMAIN sink : \A r \in sink[k] :
          r[1] \notin seen => k[1] = id /\ r[1] \in Target /\ k[2] < Width(Target)

CopyInv ==
    /\ BaseInv
    /\ IF runner = "local" THEN LocalCopies ELSE InOrder => Closed(arrived) /\ DistCopies

-----------------------------------------------------------------------------
(* Rows, their order, and sets of files.                                   *)

(* A row is a file and a batch of it.                                      *)
LEMMA RowFacts ==
    /\ \A r \in Rows : r[1] \in Files /\ r[2] \in 1..Batches /\ r = <<r[1], r[2]>>
    /\ \A f \in Files : \A i \in 1..Batches : <<f, i>> \in Rows
    /\ \A f \in Files : \A r : r \in RowsOf(f) <=> r \in Rows /\ r[1] = f
    /\ \A f \in Files : <<f, 1>> \in Rows
    /\ Files \subseteq Nat
BY IngestAssumption DEF Rows, RowsOf, Files

(* The rows of a set of files.                                             *)
LEMMA UnionOfRows ==
    ASSUME NEW S \in SUBSET Files
    PROVE  UNION {RowsOf(f) : f \in S} = {r \in Rows : r[1] \in S}
BY RowFacts

(* The order of a pass is a strict total order.                            *)
LEMMA BeforeFacts ==
    \A r, s, u \in Rows :
        /\ ~ Before(r, r)
        /\ Before(r, s) => ~ Before(s, r) /\ r[1] <= s[1]
        /\ Before(r, s) /\ Before(s, u) => Before(r, u)
        /\ r = s \/ Before(r, s) \/ Before(s, r)
        /\ r[1] < s[1] => Before(r, s)
<1> SUFFICES ASSUME NEW r \in Rows, NEW s \in Rows, NEW u \in Rows
             PROVE  /\ ~ Before(r, r)
                    /\ Before(r, s) => ~ Before(s, r) /\ r[1] <= s[1]
                    /\ Before(r, s) /\ Before(s, u) => Before(r, u)
                    /\ r = s \/ Before(r, s) \/ Before(s, r)
                    /\ r[1] < s[1] => Before(r, s)
  OBVIOUS
<1>1. \A x \in {r, s, u} : x[1] \in Nat /\ x[2] \in Nat /\ x = <<x[1], x[2]>>
  BY RowFacts
<1> QED  BY <1>1 DEF Before

(* Sets of files are finite.                                               *)
LEMMA FilesFinite ==
    \A S \in SUBSET Files : IsFiniteSet(S) /\ Cardinality(S) \in Nat
<1>1. IsFiniteSet(Files)
  BY IngestAssumption, FS_Interval DEF Files
<1> QED  BY <1>1, FS_Subset, FS_CardinalityType

(* A part of a set of files is no larger.                                  *)
LEMMA FilesSubset ==
    ASSUME NEW S \in SUBSET Files, NEW T \in SUBSET S
    PROVE  Cardinality(T) <= Cardinality(S)
BY FilesFinite, FS_Subset

(* A set of files has a first one.                                         *)
LEMMA LeastFile ==
    ASSUME NEW S \in SUBSET Files, S # {}
    PROVE  \E f \in S : \A g \in S : f <= g
<1>1. S \subseteq Nat
  BY RowFacts
<1>2. PICK f \in S : \A y \in S : ~ (<<y, f>> \in OpToRel(<, Nat))
  BY <1>1, NatLessThanWellFounded, WFMin
<1>3. \A y \in S : ~ (y < f)
  BY <1>1, <1>2 DEF OpToRel
<1> QED  BY <1>1, <1>3

(* And a last one.                                                         *)
LEMMA GreatestFile ==
    ASSUME NEW S \in SUBSET Files, S # {}
    PROVE  \E f \in S : \A g \in S : g <= f
<1> DEFINE T == {n \in Nat : \A g \in S : g <= n}
<1>1. S \subseteq Nat /\ NumFiles \in T
  BY RowFacts, IngestAssumption DEF Files
<1>2. PICK f \in T : \A y \in T : ~ (<<y, f>> \in OpToRel(<, Nat))
  BY <1>1, NatLessThanWellFounded, WFMin
<1>3. f \in Nat /\ (\A g \in S : g <= f) /\ \A n \in Nat : (\A g \in S : g <= n) => ~ (n < f)
  BY <1>2 DEF OpToRel
<1>4. ASSUME f \notin S
      PROVE  FALSE
  <2>1. \A g \in S : g <= f - 1 /\ f - 1 \in Nat
    BY <1>1, <1>3, <1>4
  <2> QED  BY <2>1, <1>3
<1> QED  BY <1>3, <1>4

(* The first n files of a set: at most n, closed below, and the first of   *)
(* all among them.                                                         *)
LEMMA FirstFacts ==
    ASSUME NEW S \in SUBSET Files, NEW n \in Nat \ {0}
    PROVE  /\ First(S, n) \subseteq S
           /\ \A f \in First(S, n), g \in S : g < f => g \in First(S, n)
           /\ \A f \in S : (\A g \in S : f <= g) => f \in First(S, n)
           /\ Cardinality(First(S, n)) <= n
           /\ S # {} => First(S, n) # {}
<1> DEFINE below(f) == {g \in S : g < f}
<1>1. \A f \in S : below(f) \subseteq Files /\ Cardinality(below(f)) \in Nat
  BY FilesFinite
<1>2. First(S, n) \subseteq S
  BY DEF First
<1>3. ASSUME NEW f \in First(S, n), NEW g \in S, g < f
      PROVE  g \in First(S, n)
  <2>1. below(g) \in SUBSET below(f)
    BY <1>2, <1>3, RowFacts
  <2>2. Cardinality(below(g)) <= Cardinality(below(f))
    BY <2>1, <1>1, <1>2, FilesSubset
  <2>3. Cardinality(below(f)) < n
    BY DEF First
  <2> QED  BY <2>2, <2>3, <1>1, <1>2 DEF First
<1>4. ASSUME NEW f \in S, \A g \in S : f <= g
      PROVE  f \in First(S, n)
  <2>1. below(f) = {}
    BY <1>4, RowFacts
  <2> QED  BY <2>1, FS_EmptySet DEF First
<1>5. Cardinality(First(S, n)) <= n
  <2>1. CASE First(S, n) = {}
    BY <2>1, FS_EmptySet
  <2>2. CASE First(S, n) # {}
    <3>1. PICK f \in First(S, n) : \A g \in First(S, n) : g <= f
      BY <1>2, <2>2, GreatestFile
    <3>2. Cardinality(below(f)) < n
      BY <3>1 DEF First
    <3>3. Cardinality(below(f) \cup {f}) = Cardinality(below(f)) + 1
      <4>1. f \notin below(f) /\ IsFiniteSet(below(f))
        BY <1>1, <1>2, FilesFinite, RowFacts
      <4> QED  BY <4>1, FS_AddElement
    <3>4. First(S, n) \in SUBSET (below(f) \cup {f}) /\ below(f) \cup {f} \in SUBSET Files
      BY <1>2, <3>1, RowFacts
    <3>5. Cardinality(First(S, n)) <= Cardinality(below(f) \cup {f})
      BY <3>4, FilesSubset
    <3>6. Cardinality(First(S, n)) \in Nat /\ Cardinality(below(f)) \in Nat
      BY <1>1, <1>2, <3>4, FilesFinite
    <3> QED  BY <3>2, <3>3, <3>5, <3>6
  <2> QED  BY <2>1, <2>2
<1>6. S # {} => First(S, n) # {}
  BY <1>4, LeastFile
<1> QED  BY <1>2, <1>3, <1>4, <1>5, <1>6

(* The smaller of two numbers.                                             *)
LEMMA MinOfTwo ==
    ASSUME NEW a \in Nat, NEW b \in Nat
    PROVE  Min({a, b}) \in {a, b} /\ Min({a, b}) <= a /\ Min({a, b}) <= b
<1>1. \E x \in {a, b} : \A y \in {a, b} : x =< y
  OBVIOUS
<1> QED  BY <1>1 DEF Min

(* recover() names the id the engine is at, and a position that the store  *)
(* of seen files already holds: seeking to it changes nothing there.       *)
LEMMA RecoveryFacts ==
    ASSUME TypeOK, Ids, Positions
    PROVE  Resume = id /\ seen \cup Committed = seen
<1>1. CASE commits = {}
  BY <1>1 DEF Resume, Committed, Ids
<1>2. CASE commits # {}
  <2>1. id - 1 \in commits /\ \A c \in commits : c \in Int /\ c <= id - 1 /\ id \in Nat
    BY <1>2 DEF Ids, TypeOK
  <2>2. \A x \in commits : (\A y \in commits : x >= y) => x = id - 1
    BY <2>1
  <2>3. Max(commits) = id - 1
    BY <2>1, <2>2 DEF Max
  <2> QED  BY <1>2, <2>1, <2>3 DEF Resume, Committed, Positions
<1> QED  BY <1>1, <1>2

-----------------------------------------------------------------------------
(* Every step keeps the first part of the invariant.                       *)

(* The empty function.                                                     *)
LEMMA Nothing == DOMAIN <<>> = {}
OBVIOUS

(* The epoch of one batch, of the local runner.                            *)
LEMMA OneShard == \A r : DOMAIN One(r) = {0} /\ One(r)[0] = {r} /\ \A q : One(q) = One(r) => q = r
BY DEF One

(* A process that has not been started.                                    *)
LEMMA BaseInit == Init => BaseInv
<1> SUFFICES ASSUME Init PROVE BaseInv
  OBVIOUS
<1>1. TypeOK
  BY IngestAssumption, Nothing DEF Init, TypeOK, Files
<1>2. Ids
  BY FS_EmptySet, Nothing DEF Init, Ids
<1> QED  BY <1>1, <1>2 DEF Init, BaseInv, Positions, Modes, SourceInv, Live

(* A file arrives.                                                         *)
LEMMA BaseArrive == BaseInv /\ Arrive => BaseInv'
<1> SUFFICES ASSUME BaseInv, Arrive PROVE BaseInv'
  OBVIOUS
<1>1. TypeOK'
  BY DEF BaseInv, Arrive, TypeOK, source, durable, epoch, config, bounds
<1>2. Ids' /\ Positions' /\ Modes' /\ SourceInv'
  BY DEF BaseInv, Arrive, Ids, Positions, Modes, SourceInv, LocalSource, DistSource, InHand, Live,
         Width, source, durable, epoch, config, bounds
<1> QED  BY <1>1, <1>2 DEF BaseInv

(* Seeking to the committed position leaves an idle source.                *)
LEMMA SeekFacts ==
    ASSUME BaseInv, Seeks(Committed)
    PROVE  /\ seen' = seen /\ pending' = {} /\ completed' = {} /\ pass' = {} /\ reading' = {}
           /\ open' = FALSE
BY RecoveryFacts DEF BaseInv, Seeks

(* A process starts and recovers.                                          *)
LEMMA BaseStart == BaseInv /\ Start => BaseInv'
<1> SUFFICES ASSUME BaseInv, Start PROVE BaseInv'
  OBVIOUS
<1>0. /\ seen' = seen /\ pending' = {} /\ completed' = {} /\ pass' = {} /\ reading' = {}
      /\ open' = FALSE /\ id' = id /\ pc' = "stage"
  BY SeekFacts, RecoveryFacts DEF Start, BaseInv
<1>1. TypeOK'
  BY <1>0 DEF BaseInv, Start, TypeOK, durable, epoch
<1>2. Ids' /\ Positions' /\ Modes'
  BY <1>0 DEF BaseInv, Start, Ids, Positions, Modes, durable, epoch
<1>3. SourceInv'
  BY <1>0, FS_EmptySet, IngestAssumption DEF BaseInv, Start, SourceInv, LocalSource, DistSource, InHand, Modes, Live
<1> QED  BY <1>1, <1>2, <1>3 DEF BaseInv

(* It dies.                                                                *)
LEMMA BaseCrash == BaseInv /\ Crash => BaseInv'
<1> SUFFICES ASSUME BaseInv, Crash PROVE BaseInv'
  OBVIOUS
<1>1. TypeOK'
  BY Nothing DEF BaseInv, Crash, TypeOK, source, durable, config
<1>2. Ids' /\ Positions' /\ Modes' /\ SourceInv'
  BY DEF BaseInv, Crash, Ids, Positions, Modes, SourceInv, Live, source, durable, config
<1> QED  BY <1>1, <1>2 DEF BaseInv

(* It recovers in place.                                                   *)
LEMMA BaseFault == ~ FaultsBeforeRestorePoint /\ BaseInv /\ Fault => BaseInv'
<1> SUFFICES ASSUME ~ FaultsBeforeRestorePoint, BaseInv, Fault PROVE BaseInv'
  OBVIOUS
<1>0. /\ seen' = seen /\ pending' = {} /\ completed' = {} /\ pass' = {} /\ reading' = {}
      /\ open' = FALSE /\ id' = id /\ pc' = "stage"
  BY SeekFacts, RecoveryFacts DEF Fault, BaseInv
<1>1. TypeOK'
  BY <1>0, Nothing DEF BaseInv, Fault, TypeOK, durable, config
<1>2. Ids' /\ Positions' /\ Modes'
  BY <1>0 DEF BaseInv, Fault, Ids, Positions, Modes, durable, config
<1>3. SourceInv'
  BY <1>0, <1>2, FS_EmptySet, IngestAssumption DEF BaseInv, Fault, SourceInv, LocalSource, DistSource, InHand, Modes, Live
<1> QED  BY <1>1, <1>2, <1>3 DEF BaseInv

(* A pass takes unseen files from the directory, at most MaxFiles of them. *)
LEMMA FreshFacts ==
    ASSUME TypeOK
    PROVE  /\ Fresh \subseteq arrived /\ Fresh \cap seen = {} /\ Fresh \cap pending = {}
           /\ Fresh \subseteq Files /\ Cardinality(Fresh) <= MaxFiles
           /\ pending = {} => Fresh = Window
<1> DEFINE S == arrived \ (seen \cup pending)
<1>1. S \in SUBSET Files /\ MaxFiles \in Nat \ {0}
  BY IngestAssumption DEF TypeOK
<1>2. First(S, MaxFiles) \subseteq S /\ Cardinality(First(S, MaxFiles)) <= MaxFiles
  BY <1>1, FirstFacts
<1>3. Fresh = First(S, MaxFiles)
  BY DEF Fresh
<1>4. pending = {} => S = arrived \ seen
  OBVIOUS
<1> QED  BY <1>1, <1>2, <1>3, <1>4 DEF Window

(* The local source lists the directory.                                   *)
LEMMA BaseOpen == BaseInv /\ Open => BaseInv'
<1> SUFFICES ASSUME BaseInv, Open PROVE BaseInv'
  OBVIOUS
<1>0. /\ runner = "local" /\ pc = "stage" /\ pc' = pc /\ LocalSource
      /\ pending = {} /\ completed = {} /\ reading = {} /\ pass = {}
  BY DEF Open, BaseInv, SourceInv, LocalSource, Live
<1>1. pending' = Fresh /\ pass' = {r \in Rows : r[1] \in Fresh} /\ open' = TRUE
  BY <1>0, FreshFacts, UnionOfRows DEF Open, BaseInv
<1>2. TypeOK'
  BY <1>0, <1>1, FreshFacts DEF BaseInv, Open, TypeOK, durable, epoch, config, bounds
<1>3. Ids' /\ Positions' /\ Modes'
  BY <1>0 DEF BaseInv, Open, Ids, Positions, Modes, durable, epoch, config, bounds
<1>4. SourceInv'
  <2>1. \A f \in Files : f \in pending' <=> \E r \in pass' : r[1] = f
    BY <1>1, RowFacts
  <2>2. seen' = seen /\ pending' \cap seen = {} /\ pc' = "stage" /\ runner' = runner /\ draining' = draining
    BY <1>0, <1>1, FreshFacts DEF BaseInv, Open, config
  <2>3. completed' = {} /\ reading' = {} /\ ~ draining
    BY <1>0 DEF Open, BaseInv, Modes
  <2> QED  BY <1>0, <1>1, <2>1, <2>2, <2>3 DEF SourceInv, LocalSource
<1> QED  BY <1>2, <1>3, <1>4 DEF BaseInv

(* It yields the next row.                                                 *)
LEMMA BasePull == BaseInv /\ Pull => BaseInv'
<1> SUFFICES ASSUME BaseInv, Pull PROVE BaseInv'
  OBVIOUS
<1>0. /\ runner = "local" /\ pc = "stage" /\ LocalSource /\ ~ draining /\ unwritten = {}
      /\ pc' = "record" /\ draining' = draining /\ pending' = pending /\ seen' = seen
  BY DEF Pull, BaseInv, SourceInv, Modes, Live
<1>1. PICK r \in Rows : /\ IsNext(r)
                        /\ completed' = completed \cup ReadDone(r[1])
                        /\ reading' = {r[1]}
                        /\ staged' = One(r)
                        /\ pass' = pass \ {r}
  BY DEF Pull, One
<1>2. r \in pass /\ (\A s \in pass' : Before(r, s)) /\ r[1] \in pending /\ r[1] \in Files
  BY <1>0, <1>1, RowFacts DEF IsNext, LocalSource
<1>3. \A s \in pass : s \in Rows /\ r[1] <= s[1]
  BY <1>1, <1>2, BeforeFacts, RowFacts DEF BaseInv, TypeOK, IsNext
<1>4. \A f \in ReadDone(r[1]) : f \in reading /\ f < r[1]
  BY <1>0, <1>2, RowFacts DEF ReadDone, LocalSource, BaseInv, TypeOK
<1>5. TypeOK'
  <2>1. completed' \subseteq pending'
    BY <1>0, <1>1, <1>4 DEF BaseInv, TypeOK, LocalSource
  <2>2. \A s \in DOMAIN staged' : staged'[s] \subseteq Rows
    BY <1>1, OneShard
  <2> QED  BY <1>0, <1>1, <1>2, <2>1, <2>2 DEF BaseInv, Pull, TypeOK, durable, config, bounds
<1>6. Ids' /\ Positions' /\ Modes'
  BY <1>0 DEF BaseInv, Pull, Ids, Positions, Modes, durable, config, bounds
<1>7. LocalSource'
  <2>1. open
    BY <1>0, <1>2 DEF LocalSource
  <2>2. \A f \in Files : f \in pending' <=> f \in completed' \cup reading' \/ \E s \in pass' : s[1] = f
    BY <1>0, <1>1, <1>2, <1>4 DEF LocalSource, ReadDone
  <2>3. \A f \in completed' : f < r[1] /\ f \in Files
    BY <1>0, <1>1, <1>2, <1>4 DEF LocalSource, BaseInv, TypeOK
  <2>4. \A f \in completed' : \A s \in pass' : f < s[1]
    BY <1>1, <1>3, <2>3, RowFacts
  <2>5. \E q \in Rows : /\ staged' = One(q)
                        /\ q[1] \in reading' /\ q \notin pass'
                        /\ \A p \in pass' : Before(q, p)
    BY <1>1, <1>2
  <2>6. \A f \in reading' : \A s \in pass' : f <= s[1]
    BY <1>1, <1>3
  <2>7. \A f \in completed', g \in reading' : f < g
    BY <1>1, <2>3
  <2>8. open' = open /\ reading' \subseteq pending'
    BY <1>0, <1>1, <1>2 DEF Pull
  <2> QED  BY <1>0, <2>1, <2>2, <2>4, <2>5, <2>6, <2>7, <2>8 DEF LocalSource
<1> QED  BY <1>0, <1>5, <1>6, <1>7 DEF BaseInv, SourceInv, Live, Pull, config

(* It reaches the end of the pass.                                         *)
LEMMA BaseEndPass == BaseInv /\ EndPass => BaseInv'
<1> SUFFICES ASSUME BaseInv, EndPass PROVE BaseInv'
  OBVIOUS
<1>0. /\ runner = "local" /\ pc = "stage" /\ LocalSource /\ ~ draining /\ unwritten = {} /\ pass = {}
      /\ pass' = {} /\ completed' = {} /\ reading' = {} /\ open' = FALSE
      /\ pc' \in {"record", "stage"} /\ (pc' = "stage" => ~ draining')
      /\ seen' = seen \cup completed \cup reading /\ pending' = pending \ (completed \cup reading)
  BY DEF EndPass, BaseInv, SourceInv, Modes, Live, Confirms
<1>1. completed \cup reading = pending /\ pending' = {} /\ seen' = seen \cup pending
  BY <1>0 DEF LocalSource, BaseInv, TypeOK
<1>2. TypeOK'
  <2>1. draining' \in BOOLEAN
    BY DEF EndPass
  <2> QED  BY <1>0, <1>1, <2>1 DEF BaseInv, EndPass, TypeOK, durable, epoch, config, bounds
<1>3. Ids' /\ Positions' /\ Modes'
  BY <1>0, <1>1 DEF BaseInv, EndPass, Ids, Positions, Modes, durable, epoch, config, bounds
<1>4. pc' = "record" => draining'
  BY DEF EndPass
<1>5. SourceInv'
  BY <1>0, <1>1, <1>4 DEF SourceInv, LocalSource, EndPass, config
<1> QED  BY <1>2, <1>3, <1>5 DEF BaseInv

(* The width of a fan-out.                                                 *)
LEMMA WidthFacts ==
    ASSUME TypeOK, NEW S \in SUBSET Files
    PROVE  /\ Width(S) \in Nat /\ Width(S) <= Cardinality(S)
           /\ S # {} => Width(S) > 0
           /\ \A T \in SUBSET S : Width(T) <= Width(S)
<1>1. workers \in Nat \ {0}
  BY IngestAssumption DEF TypeOK
<1>2. \A T \in SUBSET S : Cardinality(T) \in Nat /\ Cardinality(T) <= Cardinality(S)
  BY FilesFinite, FilesSubset
<1>3. \A T \in SUBSET S : /\ Width(T) \in {workers, Cardinality(T)}
                          /\ Width(T) <= workers /\ Width(T) <= Cardinality(T)
  BY <1>1, <1>2, MinOfTwo DEF Width
<1>4. S # {} => Cardinality(S) > 0
  BY <1>2, FilesFinite, FS_EmptySet
<1>5. ASSUME NEW T \in SUBSET S
      PROVE  Width(T) <= Width(S)
  BY <1>1, <1>2, <1>3
<1> QED  BY <1>1, <1>2, <1>3, <1>4, <1>5

(* Remainders.                                                             *)
LEMMA Remainder == \A a \in Nat, w \in Nat \ {0} : a % w \in 0..w - 1
OBVIOUS

(* _balance deals every file to one shard.                                 *)
LEMMA DealtFacts ==
    ASSUME NEW S \in SUBSET Files, NEW w \in Nat \ {0}
    PROVE  /\ \A f \in S : \E s \in 0..w - 1 : f \in Dealt(S, w, s)
           /\ \A s \in 0..w - 1 : Dealt(S, w, s) \subseteq S
           /\ \A s, u \in 0..w - 1 : \A f \in Dealt(S, w, s) : f \in Dealt(S, w, u) => s = u
<1>1. ASSUME NEW f \in S
      PROVE  Cardinality({g \in S : g < f}) % w \in 0..w - 1
  <2>1. Cardinality({g \in S : g < f}) \in Nat
    BY FilesFinite
  <2> QED  BY <2>1, Remainder
<1>2. \A f \in S : \E s \in 0..w - 1 : f \in Dealt(S, w, s)
  BY <1>1 DEF Dealt
<1> QED  BY <1>2 DEF Dealt

(* A pass is listed and dealt to the workers.                              *)
LEMMA BaseDiscover == BaseInv /\ Discover => BaseInv'
<1> SUFFICES ASSUME BaseInv, Discover PROVE BaseInv'
  OBVIOUS
<1>0. /\ runner = "distributed" /\ pc = "stage" /\ DistSource /\ ~ draining /\ pc' = "shards"
      /\ pending = {} /\ completed = {} /\ reading = {} /\ pass = {} /\ ~ open
      /\ UNCHANGED <<seen, id, draining, completed, pass, open, workers, runner, writer, durable>>
  BY DEF Discover, BaseInv, SourceInv, DistSource, InHand, Live, Modes, config
<1>1. pending' = Fresh /\ reading' = Fresh /\ Fresh # {} /\ Fresh \in SUBSET Files
  BY <1>0, FreshFacts DEF Discover, BaseInv
<1> DEFINE w == Width(Fresh)
<1>2. /\ staged' = [s \in 0..w - 1 |-> UNION {RowsOf(f) : f \in Dealt(Fresh, w, s)}]
      /\ unwritten' = IF writer = "files" THEN 0..w - 1 ELSE {}
  BY DEF Discover, Width
<1>3. w \in Nat \ {0}
  BY <1>1, WidthFacts DEF BaseInv
<1>4. \A s \in 0..w - 1 : staged'[s] = {r \in Rows : r[1] \in Dealt(Fresh, w, s)}
  <2> SUFFICES ASSUME NEW s \in 0..w - 1
               PROVE  staged'[s] = {r \in Rows : r[1] \in Dealt(Fresh, w, s)}
    OBVIOUS
  <2>1. Dealt(Fresh, w, s) \in SUBSET Files
    BY <1>1, <1>3, DealtFacts
  <2>2. staged'[s] = UNION {RowsOf(f) : f \in Dealt(Fresh, w, s)}
    BY <1>2
  <2> QED  BY <2>1, <2>2, UnionOfRows
<1>5. DOMAIN staged' = 0..w - 1 /\ Width(pending)' = w
  BY <1>0, <1>1, <1>2 DEF Width
<1> HIDE DEF w
<1>6. TypeOK'
  <2>1. unwritten' \subseteq DOMAIN staged' /\ \A s \in DOMAIN staged' : staged'[s] \subseteq Rows
    BY <1>2, <1>4, <1>5
  <2>2. pending' \subseteq arrived /\ reading' \subseteq Files
    BY <1>1, FreshFacts DEF BaseInv
  <2> QED  BY <1>0, <2>1, <2>2 DEF BaseInv, Discover, TypeOK, durable, config, bounds
<1>7. Ids' /\ Positions' /\ Modes'
  BY <1>0, <1>2 DEF BaseInv, Discover, Ids, Positions, Modes, durable, config, bounds
<1>8. SourceInv'
  <2>1. Fresh \cap seen = {} /\ Cardinality(Fresh) <= MaxFiles
    BY FreshFacts DEF BaseInv
  <2>2. \A r \in Rows : r[1] \in Fresh => \E s \in DOMAIN staged' : r \in staged'[s]
    BY <1>1, <1>3, <1>4, <1>5, DealtFacts
  <2>3. \A s \in DOMAIN staged' : \A r \in staged'[s] : r[1] \in Fresh
    BY <1>1, <1>3, <1>4, <1>5, DealtFacts
  <2>4. \A s, u \in DOMAIN staged' : \A r \in staged'[s] : r \in staged'[u] => s = u
    BY <1>1, <1>3, <1>4, <1>5, DealtFacts
  <2>5. writer = "files" => DOMAIN staged' \ unwritten' = {}
    BY <1>2, <1>5
  <2> QED  BY <1>0, <1>1, <1>5, <2>1, <2>2, <2>3, <2>4, <2>5 DEF SourceInv, DistSource, InHand
<1> QED  BY <1>6, <1>7, <1>8 DEF BaseInv

(* A worker writes its shard file.                                         *)
LEMMA BaseWriteShard == BaseInv /\ WriteShard => BaseInv'
<1> SUFFICES ASSUME BaseInv, WriteShard PROVE BaseInv'
  OBVIOUS
<1>0. /\ pc = "shards" /\ pc' = pc /\ DistSource /\ runner # "local" /\ writer # "transactional" /\ ~ draining
      /\ UNCHANGED <<arrived, seen, offsets, commits, id, draining, source, staged, config, bounds>>
  BY DEF WriteShard, BaseInv, SourceInv, Live, Modes
<1>1. PICK s \in unwritten : sink' = Put(sink, <<id, s>>, staged[s]) /\ unwritten' = unwritten \ {s}
  BY DEF WriteShard
<1>2. s \in DOMAIN staged /\ DOMAIN staged = 0..Width(pending) - 1 /\ s \in Nat /\ id \in Nat
  BY <1>0, WidthFacts DEF BaseInv, TypeOK, DistSource, InHand
<1>3. /\ DOMAIN sink' = DOMAIN sink \cup {<<id, s>>} /\ sink'[<<id, s>>] = staged[s]
      /\ \A k \in DOMAIN sink : k # <<id, s>> => sink'[k] = sink[k]
  BY <1>1 DEF Put
<1>4. TypeOK'
  <2>1. /\ \A k \in DOMAIN sink : k \in Nat \X Nat /\ sink[k] \subseteq Rows
        /\ staged[s] \subseteq Rows /\ <<id, s>> \in Nat \X Nat
    BY <1>2 DEF BaseInv, TypeOK
  <2>2. \A k \in DOMAIN sink' : k \in Nat \X Nat /\ sink'[k] \subseteq Rows
    BY <1>3, <2>1
  <2> QED  BY <1>0, <1>1, <2>2 DEF BaseInv, TypeOK, source, config, bounds
<1>5. Ids'
  <2>1. IsFiniteSet(DOMAIN sink')
    BY <1>3, FS_AddElement DEF BaseInv, Ids
  <2> QED  BY <1>0, <1>2, <1>3, <2>1 DEF BaseInv, Ids, bounds
<1>6. Positions' /\ Modes'
  BY <1>0, <1>1 DEF BaseInv, Positions, Modes, source, config
<1>7. \A u \in DOMAIN staged \ unwritten' : <<id, u>> \in DOMAIN sink' /\ sink'[<<id, u>>] = staged[u]
  <2> SUFFICES ASSUME NEW u \in DOMAIN staged \ unwritten'
               PROVE  <<id, u>> \in DOMAIN sink' /\ sink'[<<id, u>>] = staged[u]
    OBVIOUS
  <2>1. CASE u = s
    BY <1>3, <2>1
  <2>2. CASE u # s
    <3>1. u \notin unwritten /\ writer = "files"
      BY <1>0, <1>1, <2>2, IngestAssumption DEF BaseInv, TypeOK
    <3>2. <<id, u>> \in DOMAIN sink /\ sink[<<id, u>>] = staged[u] /\ <<id, u>> # <<id, s>>
      BY <1>0, <2>2, <3>1 DEF DistSource, InHand
    <3> QED  BY <1>3, <3>2
  <2> QED  BY <2>1, <2>2
<1>8. SourceInv'
  BY <1>0, <1>1, <1>7 DEF BaseInv, SourceInv, DistSource, InHand, Width, Live, source, config
<1> QED  BY <1>4, <1>5, <1>6, <1>8 DEF BaseInv

(* Every shard is back.                                                    *)
LEMMA BaseMerge == BaseInv /\ Merge => BaseInv'
<1> SUFFICES ASSUME BaseInv, Merge PROVE BaseInv'
  OBVIOUS
<1>0. /\ pc = "shards" /\ pc' = "record" /\ DistSource /\ runner # "local" /\ ~ draining /\ unwritten = {}
      /\ UNCHANGED <<arrived, seen, durable, id, draining, pending, pass, open, productive,
                     epoch, config, bounds>>
      /\ completed' = completed \cup reading /\ reading' = {}
  BY DEF Merge, BaseInv, SourceInv, Live, Modes
<1>1. completed' = pending
  BY <1>0 DEF DistSource
<1>2. TypeOK'
  BY <1>0, <1>1 DEF BaseInv, TypeOK, durable, epoch, config, bounds
<1>3. Ids' /\ Positions' /\ Modes'
  BY <1>0 DEF BaseInv, Ids, Positions, Modes, durable, epoch, config, bounds
<1>4. SourceInv'
  BY <1>0, <1>1 DEF BaseInv, SourceInv, DistSource, InHand, Width, Live, durable, epoch, config
<1> QED  BY <1>2, <1>3, <1>4 DEF BaseInv

(* There is nothing new.                                                   *)
LEMMA BaseExhausted == BaseInv /\ Exhausted => BaseInv'
<1> SUFFICES ASSUME BaseInv, Exhausted PROVE BaseInv'
  OBVIOUS
<1>0. /\ runner = "distributed" /\ pc = "stage" /\ DistSource /\ ~ draining /\ unwritten = {}
      /\ UNCHANGED <<arrived, seen, durable, id, source, epoch, config, bounds>>
      /\ pc' \in {"record", "stage"} /\ (pc' = "record" <=> draining') /\ drains \in BOOLEAN
      /\ draining' \in BOOLEAN
  BY IngestAssumption DEF Exhausted, BaseInv, TypeOK, SourceInv, Live, Modes
<1>1. TypeOK'
  BY <1>0 DEF BaseInv, TypeOK, durable, source, epoch, config, bounds
<1>2. Ids' /\ Positions' /\ Modes'
  BY <1>0 DEF BaseInv, Ids, Positions, Modes, durable, source, epoch, config, bounds
<1>3. SourceInv'
  BY <1>0 DEF BaseInv, SourceInv, DistSource, InHand, Live, durable, source, epoch, config
<1> QED  BY <1>1, <1>2, <1>3 DEF BaseInv

(* The write-ahead of an epoch or of a drain marker.                       *)
LEMMA BaseRecord == BaseInv /\ Record => BaseInv'
<1> SUFFICES ASSUME BaseInv, Record PROVE BaseInv'
  OBVIOUS
<1>0. /\ pc = "record" /\ pc' = (IF draining THEN "commit" ELSE "publish") /\ unwritten = {}
      /\ UNCHANGED <<arrived, seen, commits, sink, id, draining, source, epoch, config, bounds>>
      /\ draining \in BOOLEAN /\ id \in Nat
  BY DEF Record, BaseInv, TypeOK, Modes
<1>1. /\ DOMAIN offsets' = DOMAIN offsets \cup {id} /\ offsets'[id] = completed
      /\ \A i \in DOMAIN offsets : i # id => offsets'[i] = offsets[i]
  BY DEF Record, Put
<1>2. TypeOK'
  <2>1. \A i \in DOMAIN offsets' : offsets'[i] \subseteq Files
    BY <1>1 DEF BaseInv, TypeOK
  <2> QED  BY <1>0, <1>1, <2>1 DEF BaseInv, TypeOK, source, epoch, config, bounds
<1>3. Ids'
  BY <1>0, <1>1 DEF BaseInv, Ids, bounds
<1>4. draining => completed = {}
  BY <1>0 DEF BaseInv, SourceInv, Live, LocalSource, DistSource, InHand
<1>5. Positions' /\ Modes'
  <2>1. \A c \in commits : c \in DOMAIN offsets /\ c # id
    BY <1>0 DEF BaseInv, Ids, TypeOK
  <2> QED  BY <1>0, <1>1, <1>4, <2>1 DEF BaseInv, Positions, Modes, source, epoch, config
<1>6. SourceInv'
  BY <1>0 DEF BaseInv, SourceInv, LocalSource, DistSource, InHand, Width, Live, source, epoch, config
<1> QED  BY <1>2, <1>3, <1>5, <1>6 DEF BaseInv

(* The epoch reaches the sink, unless the sink holds its id.               *)
LEMMA PublishFacts ==
    ASSUME BaseInv, Publish
    PROVE  /\ pc = "publish" /\ pc' = "confirm" /\ unwritten = {} /\ ~ draining
           /\ UNCHANGED <<arrived, seen, offsets, commits, id, draining, source, unwritten, config, bounds>>
           /\ DOMAIN staged' = {}
           /\ writer = "files" \/ Held => sink' = sink
           /\ ~ (writer = "files" \/ Held) =>
                 /\ DOMAIN sink' = DOMAIN sink \cup ({id} \X DOMAIN staged)
                 /\ \A s \in DOMAIN staged : sink'[<<id, s>>] = staged[s]
                 /\ \A k \in DOMAIN sink : sink'[k] = sink[k]
           /\ DOMAIN staged \subseteq Nat /\ IsFiniteSet(DOMAIN staged)
<1>1. /\ pc = "publish" /\ pc' = "confirm" /\ unwritten = {} /\ ~ draining
      /\ UNCHANGED <<arrived, seen, offsets, commits, id, draining, source, unwritten, config, bounds>>
  BY DEF Publish, BaseInv, Modes
<1>2. writer = "files" \/ Held => sink' = sink
  BY DEF Publish, Held
<1>3. ASSUME ~ (writer = "files" \/ Held)
      PROVE  /\ DOMAIN sink' = DOMAIN sink \cup ({id} \X DOMAIN staged)
             /\ \A s \in DOMAIN staged : sink'[<<id, s>>] = staged[s]
             /\ \A k \in DOMAIN sink : sink'[k] = sink[k]
  <2>1. sink' = [k \in DOMAIN sink \cup ({id} \X DOMAIN staged) |->
                    IF k[1] = id THEN staged[k[2]] ELSE sink[k]]
    BY <1>3 DEF Publish, Held
  <2>2. \A k \in DOMAIN sink : k[1] # id
    BY <1>3 DEF Held
  <2> QED  BY <2>1, <2>2
<1>4. DOMAIN staged' = {}
  BY Nothing DEF Publish
<1>5. DOMAIN staged \subseteq Nat /\ IsFiniteSet(DOMAIN staged)
  <2>1. CASE runner = "local"
    <3>1. LocalSource
      BY <1>1, <2>1 DEF BaseInv, SourceInv, Live
    <3>2. DOMAIN staged = {0}
      BY <1>1, <3>1, OneShard DEF LocalSource
    <3> QED  BY <3>2, FS_Singleton
  <2>2. CASE runner # "local"
    <3>1. DistSource
      BY <1>1, <2>2 DEF BaseInv, SourceInv, Live
    <3>2. DOMAIN staged = 0..Width(pending) - 1 /\ Width(pending) \in Nat
      BY <1>1, <3>1, WidthFacts DEF BaseInv, TypeOK, DistSource, InHand
    <3> QED  BY <3>2, FS_Interval
  <2> QED  BY <2>1, <2>2
<1> QED  BY <1>1, <1>2, <1>3, <1>4, <1>5

(* The epoch in the sink, its position still in hand.                      *)
LEMMA BasePublish == BaseInv /\ Publish => BaseInv'
<1> SUFFICES ASSUME BaseInv, Publish PROVE BaseInv'
  OBVIOUS
<1>0. /\ pc = "publish" /\ pc' = "confirm" /\ unwritten = {} /\ ~ draining
      /\ UNCHANGED <<arrived, seen, offsets, commits, id, draining, source, unwritten, config, bounds>>
      /\ DOMAIN staged' = {} /\ id \in Nat
  BY PublishFacts DEF BaseInv, TypeOK
<1>1. /\ \A k \in DOMAIN sink' : k \in Nat \X Nat /\ k[1] <= id /\ sink'[k] \subseteq Rows
      /\ IsFiniteSet(DOMAIN sink')
  <2>1. \A k \in DOMAIN sink : k \in Nat \X Nat /\ k[1] <= id /\ sink[k] \subseteq Rows
    BY DEF BaseInv, TypeOK, Ids
  <2>2. CASE writer = "files" \/ Held
    BY <2>1, <2>2, PublishFacts DEF BaseInv, Ids
  <2>3. CASE ~ (writer = "files" \/ Held)
    <3>1. /\ DOMAIN sink' = DOMAIN sink \cup ({id} \X DOMAIN staged)
          /\ \A s \in DOMAIN staged : sink'[<<id, s>>] = staged[s]
          /\ \A k \in DOMAIN sink : sink'[k] = sink[k]
          /\ DOMAIN staged \subseteq Nat /\ IsFiniteSet(DOMAIN staged)
      BY <2>3, PublishFacts
    <3>2. \A s \in DOMAIN staged : staged[s] \subseteq Rows
      BY DEF BaseInv, TypeOK
    <3>3. IsFiniteSet({id} \X DOMAIN staged)
      BY <3>1, FS_Singleton, FS_Product
    <3>4. IsFiniteSet(DOMAIN sink')
      <4>1. IsFiniteSet(DOMAIN sink)
        BY DEF BaseInv, Ids
      <4>2. IsFiniteSet(DOMAIN sink \cup ({id} \X DOMAIN staged))
        BY <3>3, <4>1, FS_Union
      <4> QED  BY <3>1, <4>2
    <3>5. \A k \in {id} \X DOMAIN staged : k = <<id, k[2]>> /\ k[2] \in DOMAIN staged
      OBVIOUS
    <3> QED  BY <1>0, <2>1, <3>1, <3>2, <3>4, <3>5
  <2> QED  BY <2>2, <2>3
<1>2. TypeOK'
  BY <1>0, <1>1 DEF BaseInv, TypeOK, source, config, bounds
<1>3. Ids'
  BY <1>0, <1>1 DEF BaseInv, Ids, bounds
<1>4. Positions' /\ Modes'
  BY <1>0 DEF BaseInv, Positions, Modes, source, config
<1>5. SourceInv'
  BY <1>0 DEF BaseInv, SourceInv, LocalSource, DistSource, InHand, Live, source, config
<1> QED  BY <1>2, <1>3, <1>4, <1>5 DEF BaseInv

(* What was read becomes durable.                                          *)
LEMMA BaseConfirm == BaseInv /\ Confirm => BaseInv'
<1> SUFFICES ASSUME BaseInv, Confirm PROVE BaseInv'
  OBVIOUS
<1>0. /\ pc = "confirm" /\ pc' = "commit" /\ unwritten = {} /\ ~ draining
      /\ seen' = seen \cup completed /\ pending' = pending \ completed /\ completed' = {}
      /\ UNCHANGED <<arrived, durable, id, draining, pass, reading, open, productive, epoch, config, bounds>>
  BY DEF Confirm, Confirms, BaseInv, Modes
<1>1. TypeOK'
  BY <1>0 DEF BaseInv, TypeOK, durable, epoch, config, bounds
<1>2. Ids'
  BY <1>0 DEF BaseInv, Ids, durable, bounds
<1>3. Positions' /\ Modes'
  BY <1>0 DEF BaseInv, Positions, Modes, durable, epoch, config
<1>4. CASE runner = "local"
  <2>1. LocalSource /\ pending \cap seen = {}
    BY <1>0, <1>4 DEF BaseInv, SourceInv, LocalSource, Live
  <2>2. \A f \in reading : f \notin completed
    BY <2>1, RowFacts DEF LocalSource, BaseInv, TypeOK
  <2>3. \A r \in pass : r[1] \notin completed
    BY <2>1, RowFacts DEF LocalSource, BaseInv, TypeOK
  <2> QED  BY <1>0, <1>1, <1>2, <1>3, <1>4, <2>1, <2>2, <2>3 DEF BaseInv, SourceInv, LocalSource, config
<1>5. CASE runner # "local"
  <2>1. DistSource /\ completed = pending /\ reading = {} /\ pending' = {}
    BY <1>0, <1>5 DEF BaseInv, SourceInv, DistSource, InHand, Live
  <2> QED  BY <1>0, <1>1, <1>2, <1>3, <1>5, <2>1, FS_EmptySet, IngestAssumption
              DEF BaseInv, SourceInv, DistSource, InHand, config
<1> QED  BY <1>4, <1>5

(* The commit row.                                                         *)
LEMMA BaseCommit == BaseInv /\ Commit => BaseInv'
<1> SUFFICES ASSUME BaseInv, Commit PROVE BaseInv'
  OBVIOUS
<1>0. /\ pc = "commit" /\ pc' = (IF draining THEN "done" ELSE "stage") /\ unwritten = {}
      /\ draining' = FALSE /\ draining \in BOOLEAN /\ id \in Nat /\ id' = id + 1
      /\ commits' = commits \cup {id} /\ id \in DOMAIN offsets
      /\ UNCHANGED <<arrived, seen, offsets, sink, source, epoch, config, bounds>>
  BY DEF Commit, BaseInv, Modes, TypeOK, Positions
<1>1. TypeOK'
  <2>0. draining' \in BOOLEAN
    BY <1>0
  <2>1. commits' \subseteq DOMAIN offsets /\ id' \in Nat
    <3>1. commits \subseteq DOMAIN offsets
      BY DEF BaseInv, TypeOK
    <3> QED  BY <1>0, <3>1
  <2>2. pc' \in {"down", "done", "stage", "shards", "record", "publish", "confirm", "commit"}
    BY <1>0
  <2> QED  BY <1>0, <2>0, <2>1, <2>2 DEF BaseInv, TypeOK, source, epoch, config, bounds
<1>2. Ids'
  <2>1. \A c \in commits' : c \in 0..id' - 1
    BY <1>0 DEF BaseInv, Ids
  <2>2. \A i \in DOMAIN offsets' : i \in 0..id'
    BY <1>0 DEF BaseInv, Ids
  <2>3. \A k \in DOMAIN sink' : k[1] <= id'
    BY <1>0 DEF BaseInv, Ids, TypeOK
  <2>4. id' - 1 \in commits'
    BY <1>0
  <2>5. IsFiniteSet(DOMAIN sink') /\ crashes' \in Nat /\ faults' \in Nat
    BY <1>0 DEF BaseInv, Ids, bounds
  <2> QED  BY <2>1, <2>2, <2>3, <2>4, <2>5 DEF Ids
<1>3. Positions' /\ Modes'
  BY <1>0 DEF BaseInv, Positions, Modes, source, epoch, config
<1>4. SourceInv'
  BY <1>0 DEF BaseInv, SourceInv, LocalSource, DistSource, InHand, Live, source, config
<1> QED  BY <1>1, <1>2, <1>3, <1>4 DEF BaseInv

(* Nothing happens.                                                        *)
LEMMA BaseStutter == BaseInv /\ UNCHANGED vars => BaseInv'
BY DEF BaseInv, TypeOK, Ids, Positions, Modes, SourceInv, LocalSource, DistSource, InHand, Width, Live,
       vars, durable, source, epoch, config, bounds

(* Every step keeps it, when no fault precedes the first commit.           *)
LEMMA BaseStep == ~ FaultsBeforeRestorePoint /\ BaseInv /\ [Next]_vars => BaseInv'
BY BaseArrive, BaseStart, BaseOpen, BasePull, BaseEndPass, BaseDiscover, BaseWriteShard, BaseMerge,
   BaseExhausted, BaseRecord, BasePublish, BaseConfirm, BaseCommit, BaseCrash, BaseFault, BaseStutter
   DEF Next, EngineStep, Terminated

-----------------------------------------------------------------------------
(* What the local runner has seen, it delivered.                           *)

LocalInv == BaseInv /\ runner = "local" /\ Ordered /\ LocalLoss

(* A sink that only gains writes keeps what it holds.                      *)
LEMMA SinkGrows ==
    ASSUME \A k \in DOMAIN sink : k \in DOMAIN sink' /\ sink'[k] = sink[k]
    PROVE  (\A r : Deliv(r) => Deliv(r)') /\ \A f : Delivered(f) => Delivered(f)'
BY DEF Deliv, Delivered

(* A file is delivered when each of its rows is.                           *)
LEMMA DeliveredIs ==
    \A f \in Files : (\A r \in Rows : r[1] = f => Deliv(r)) <=> Delivered(f)
BY RowFacts DEF Deliv, Delivered

(* Files arrive in the order of their names.                               *)
LEMMA ArriveOrder ==
    ASSUME InOrder, TypeOK, Closed(arrived), Arrive
    PROVE  Closed(arrived)'
<1>1. PICK f \in Files \ arrived :
           (\A g \in Files : order[g] < order[f] => g \in arrived) /\ arrived' = arrived \cup {f}
  BY DEF Arrive
<1>2. \A g \in Files : g < f => g \in arrived
  BY <1>1 DEF InOrder
<1> QED  BY <1>1, <1>2 DEF Closed, TypeOK

(* A file arrives behind all the others.                                   *)
LEMMA LocalArrive == InOrder /\ LocalInv /\ Arrive /\ BaseInv' => LocalInv'
<1> SUFFICES ASSUME InOrder, LocalInv, Arrive, BaseInv' PROVE LocalInv'
  OBVIOUS
<1>1. UNCHANGED <<seen, durable, pc, id, draining, source, epoch, config>> /\ arrived \subseteq arrived'
  BY DEF Arrive
<1>2. Ordered'
  BY <1>1, ArriveOrder DEF LocalInv, BaseInv, Ordered, Closed, Live, source, config
<1>3. LocalLoss'
  BY <1>1 DEF LocalInv, LocalLoss, Delivered, Deliv, Pulled, Held, HeldRow, Live, durable, source, epoch
<1> QED  BY <1>1, <1>2, <1>3 DEF LocalInv, config

(* A source back at the committed position, and nothing in hand.           *)
LEMMA LocalResumes ==
    ASSUME LocalInv, BaseInv', pc' = "stage", pending' = {}, completed' = {}, reading' = {}, pass' = {},
           open' = FALSE, UNCHANGED <<arrived, seen, id, runner, sink, draining>>
    PROVE  LocalInv'
<1>1. Ordered'
  BY DEF LocalInv, Ordered, Closed
<1>2. LocalLoss'
  BY DEF LocalInv, LocalLoss, Delivered, Deliv, Pulled, Held, HeldRow
<1> QED  BY <1>1, <1>2 DEF LocalInv

(* A start puts the source at the committed position.                      *)
LEMMA LocalStart == LocalInv /\ Start /\ BaseInv' => LocalInv'
<1> SUFFICES ASSUME LocalInv, Start, BaseInv' PROVE LocalInv'
  OBVIOUS
<1>1. /\ seen' = seen /\ pending' = {} /\ completed' = {} /\ pass' = {} /\ reading' = {}
      /\ open' = FALSE /\ id' = id /\ pc' = "stage" /\ UNCHANGED <<arrived, runner, sink, draining>>
  BY SeekFacts, RecoveryFacts DEF Start, BaseInv, LocalInv, durable
<1> QED  BY <1>1, LocalResumes

(* So does the recovery in place.                                          *)
LEMMA LocalFault == ~ FaultsBeforeRestorePoint /\ LocalInv /\ Fault /\ BaseInv' => LocalInv'
<1> SUFFICES ASSUME ~ FaultsBeforeRestorePoint, LocalInv, Fault, BaseInv' PROVE LocalInv'
  OBVIOUS
<1>1. /\ seen' = seen /\ pending' = {} /\ completed' = {} /\ pass' = {} /\ reading' = {}
      /\ open' = FALSE /\ id' = id /\ pc' = "stage" /\ UNCHANGED <<arrived, runner, sink, draining>>
  BY SeekFacts, RecoveryFacts DEF Fault, BaseInv, LocalInv, durable, config
<1> QED  BY <1>1, LocalResumes

(* A process that dies leaves only what is durable.                        *)
LEMMA LocalCrash == LocalInv /\ Crash /\ BaseInv' => LocalInv'
<1> SUFFICES ASSUME LocalInv, Crash, BaseInv' PROVE LocalInv'
  OBVIOUS
<1>1. UNCHANGED <<arrived, seen, durable, id, source, config>> /\ pc' = "down"
  BY DEF Crash
<1> QED  BY <1>1 DEF LocalInv, Ordered, Closed, Live, LocalLoss, Delivered, Deliv, Held, HeldRow, durable, config

(* A pass starts with the first file that was not seen.                    *)
LEMMA LocalOpen == LocalInv /\ Open /\ BaseInv' => LocalInv'
<1> SUFFICES ASSUME LocalInv, Open, BaseInv' PROVE LocalInv'
  OBVIOUS
<1>0. /\ pc = "stage" /\ pc' = pc /\ runner' = runner /\ open' = TRUE
      /\ pending = {} /\ completed = {} /\ reading = {} /\ pass = {}
      /\ UNCHANGED <<arrived, seen, sink, id, completed, reading, draining>>
  BY DEF Open, LocalInv, BaseInv, SourceInv, LocalSource, Live, durable, config
<1>1. pending' = Window /\ pass' = {r \in Rows : r[1] \in Window}
  BY <1>0, FreshFacts, UnionOfRows DEF Open, LocalInv, BaseInv
<1>2. arrived \ seen \in SUBSET Files /\ MaxFiles \in Nat \ {0}
  BY IngestAssumption DEF LocalInv, BaseInv, TypeOK
<1>3. /\ Window \subseteq arrived \ seen
      /\ \A f \in Window, g \in arrived \ seen : g < f => g \in Window
      /\ \A f \in arrived \ seen : (\A g \in arrived \ seen : f <= g) => f \in Window
  BY <1>2, FirstFacts DEF Window
<1>4. Ordered'
  <2>1. \A f \in seen \cup Window, g \in Files : g < f => g \in seen \cup Window
    BY <1>0, <1>3 DEF LocalInv, Ordered, Closed
  <2> QED  BY <1>0, <1>1, <2>1 DEF LocalInv, Ordered, Closed
<1>5. ASSUME Held, NEW r \in Rows, HeldRow(r)
      PROVE  HeldRow(r)'
  <2>1. r[1] \in arrived \ seen
    BY <1>5 DEF HeldRow
  <2>2. PICK f \in arrived \ seen : \A g \in arrived \ seen : f <= g
    BY <1>2, <2>1, LeastFile
  <2>3. f \in Window /\ f <= r[1] /\ f \in Files
    BY <1>2, <1>3, <2>1, <2>2
  <2>4. <<f, 1>> \in pass' /\ (<<f, 1>> = r \/ Before(<<f, 1>>, r))
    BY <1>1, <2>3, RowFacts DEF Before
  <2> QED  BY <1>0, <1>5, <2>4 DEF HeldRow, Deliv
<1>6. LocalLoss'
  BY <1>0, <1>1, <1>5 DEF LocalInv, LocalLoss, Delivered, Deliv, Pulled, Held
<1> QED  BY <1>0, <1>4, <1>6 DEF LocalInv

(* When the sink holds the id, the row that is read again was delivered.   *)
LEMMA LocalPull == LocalInv /\ Pull /\ BaseInv' => LocalInv'
<1> SUFFICES ASSUME LocalInv, Pull, BaseInv' PROVE LocalInv'
  OBVIOUS
<1>0. /\ pc = "stage" /\ pc' = "record" /\ runner' = runner /\ ~ draining /\ LocalSource
      /\ UNCHANGED <<arrived, seen, sink, id, draining, pending, open>>
  BY DEF Pull, LocalInv, BaseInv, Modes, SourceInv, Live, durable, config
<1>1. PICK r \in Rows : /\ IsNext(r)
                        /\ completed' = completed \cup ReadDone(r[1])
                        /\ reading' = {r[1]}
                        /\ staged' = One(r)
                        /\ pass' = pass \ {r}
  BY DEF Pull, One
<1>2. Ordered'
  BY <1>0 DEF LocalInv, Ordered, Closed, Live
<1>3. Pulled'
  <2>1. Pulled
    BY <1>0 DEF LocalInv, LocalLoss, Live
  <2> QED  BY <1>0, <1>1, <2>1 DEF Pulled, Deliv
<1>4. ASSUME NEW q \in Rows, HeldRow(q)
      PROVE  HeldRow(q)'
  <2>1. r \in pass /\ open
    BY <1>0, <1>1 DEF IsNext, LocalSource
  <2>2. PICK p \in pass : p = q \/ Before(p, q)
    BY <1>0, <1>4, <2>1 DEF HeldRow
  <2>3. r = q \/ Before(r, q)
    <3>1. p \in Rows /\ (r = p \/ Before(r, p))
      BY <1>1 DEF IsNext, LocalInv, BaseInv, TypeOK
    <3> QED  BY <2>2, <3>1, BeforeFacts
  <2>4. Deliv(r)
    BY <1>4, <2>3 DEF HeldRow
  <2>5. \A s \in DOMAIN staged' : \A p1 \in staged'[s] : p1 = r
    BY <1>1, OneShard
  <2>6. completed' = {}
    BY <1>0, <1>1, <1>4 DEF HeldRow, ReadDone
  <2> QED  BY <1>0, <1>4, <2>4, <2>5, <2>6 DEF HeldRow, Deliv
<1>5. LocalLoss'
  BY <1>0, <1>3, <1>4 DEF LocalInv, LocalLoss, Delivered, Held
<1> QED  BY <1>0, <1>2, <1>5 DEF LocalInv

(* A pass is read to its end only when its id is new.                      *)
LEMMA LocalEndPass == LocalInv /\ EndPass /\ BaseInv' => LocalInv'
<1> SUFFICES ASSUME LocalInv, EndPass, BaseInv' PROVE LocalInv'
  OBVIOUS
<1>0. /\ pc = "stage" /\ runner' = runner /\ LocalSource /\ open /\ pass = {} /\ TypeOK
      /\ UNCHANGED <<arrived, sink, id>>
      /\ seen' = seen \cup completed \cup reading /\ pending' = pending \ (completed \cup reading)
  BY DEF EndPass, LocalInv, BaseInv, SourceInv, Live, Confirms, durable, config
<1>1. completed \cup reading = pending /\ pending' = {} /\ seen' = seen \cup pending
  BY <1>0 DEF LocalSource, TypeOK
<1>2. ~ Held
  BY <1>0 DEF LocalInv, LocalLoss, HeldRow
<1>3. \A r \in Rows : r[1] \in pending => Deliv(r)
  BY <1>0 DEF LocalInv, LocalLoss, Pulled, Live
<1>4. \A f \in pending : Delivered(f)
  BY <1>0, <1>3, DeliveredIs DEF TypeOK
<1>5. Ordered'
  BY <1>0, <1>1 DEF LocalInv, Ordered, Closed, Live
<1>6. LocalLoss'
  BY <1>0, <1>1, <1>2, <1>4 DEF LocalInv, LocalLoss, Delivered, Pulled, Held
<1> QED  BY <1>0, <1>5, <1>6 DEF LocalInv

(* The write-ahead.                                                        *)
LEMMA LocalRecord == LocalInv /\ Record /\ BaseInv' => LocalInv'
<1> SUFFICES ASSUME LocalInv, Record, BaseInv' PROVE LocalInv'
  OBVIOUS
<1>0. /\ pc = "record" /\ pc' = (IF draining THEN "commit" ELSE "publish") /\ LocalSource
      /\ UNCHANGED <<arrived, seen, sink, id, draining, source, staged, runner>>
      /\ draining \in BOOLEAN
  BY DEF Record, LocalInv, BaseInv, TypeOK, SourceInv, Live, epoch, config
<1>1. draining => pending = {}
  BY <1>0 DEF LocalSource
<1>2. Ordered'
  BY <1>0 DEF LocalInv, Ordered, Closed, Live, source
<1>3. Pulled'
  BY <1>0, <1>1 DEF LocalInv, LocalLoss, Pulled, Deliv, Live, source
<1>4. \A q \in Rows : HeldRow(q) => HeldRow(q)'
  BY <1>0 DEF HeldRow, Deliv, Live, source
<1>5. LocalLoss'
  BY <1>0, <1>3, <1>4 DEF LocalInv, LocalLoss, Delivered, Held
<1> QED  BY <1>0, <1>2, <1>5 DEF LocalInv

(* A row is published when every row before it has been.                   *)
LEMMA LocalPublish == LocalInv /\ Publish /\ BaseInv' => LocalInv'
<1> SUFFICES ASSUME LocalInv, Publish, BaseInv' PROVE LocalInv'
  OBVIOUS
<1>0. /\ pc = "publish" /\ pc' = "confirm" /\ ~ draining /\ LocalSource /\ TypeOK /\ pending \cap seen = {}
      /\ UNCHANGED <<arrived, seen, id, draining, source, runner>> /\ writer = "transactional"
  BY PublishFacts DEF LocalInv, BaseInv, SourceInv, Live, Modes, config
<1>1. PICK r \in Rows : /\ staged = One(r) /\ r[1] \in reading /\ r \notin pass
                        /\ \A p \in pass : Before(r, p)
  BY <1>0 DEF LocalSource
<1>2. /\ \A k \in DOMAIN sink : k \in DOMAIN sink' /\ sink'[k] = sink[k]
      /\ ~ Held => DOMAIN sink' = DOMAIN sink \cup {<<id, 0>>} /\ sink'[<<id, 0>>] = {r}
  <2>1. CASE Held
    BY <2>1, PublishFacts DEF LocalInv
  <2>2. CASE ~ Held
    <3>1. /\ DOMAIN sink' = DOMAIN sink \cup ({id} \X DOMAIN staged)
          /\ \A s \in DOMAIN staged : sink'[<<id, s>>] = staged[s]
          /\ \A k \in DOMAIN sink : sink'[k] = sink[k]
      BY <1>0, <2>2, PublishFacts DEF LocalInv
    <3>2. DOMAIN staged = {0} /\ staged[0] = {r}
      BY <1>1, OneShard
    <3> QED  BY <3>1, <3>2
  <2> QED  BY <2>1, <2>2
<1>3. \A q : Deliv(q) => Deliv(q)'
  BY <1>2, SinkGrows
<1>4. Deliv(r)'
  <2>1. CASE Held
    <3>1. Deliv(r)
      BY <1>0, <1>1, <2>1, OneShard DEF LocalInv, LocalLoss, HeldRow
    <3> QED  BY <1>3, <3>1
  <2>2. CASE ~ Held
    BY <1>2, <2>2 DEF Deliv
  <2> QED  BY <2>1, <2>2
<1>5. Pulled'
  <2>1. ASSUME NEW q \in Rows, q[1] \in pending, q \notin pass
        PROVE  Deliv(q)'
    <3>1. Deliv(q) \/ staged = One(q)
      BY <1>0, <2>1 DEF LocalInv, LocalLoss, Pulled, Live
    <3>2. staged = One(q) => q = r
      BY <1>1, OneShard
    <3> QED  BY <1>3, <1>4, <3>1, <3>2
  <2> QED  BY <1>0, <2>1 DEF Pulled, source
<1>6. Ordered'
  BY <1>0 DEF LocalInv, Ordered, Closed, Live, source
<1>7. Held => \E q \in Rows : HeldRow(q)'
  BY <1>0, <1>3 DEF LocalInv, LocalLoss, HeldRow, Live, source
<1>8. ~ Held => HeldRow(r)'
  <2>1. r[1] \in pending /\ r[1] \in arrived /\ r[1] \notin seen /\ r[1] \notin completed
    BY <1>0, <1>1, RowFacts DEF LocalSource, TypeOK
  <2>2. ASSUME NEW s \in Rows, Before(s, r)
        PROVE  Deliv(s)'
    <3>1. s[1] \in seen \cup pending
      BY <1>0, <2>1, <2>2, BeforeFacts, RowFacts DEF LocalInv, Ordered, Closed, Live
    <3>2. CASE s[1] \in seen
      BY <1>3, <3>2, DeliveredIs, RowFacts DEF LocalInv, LocalLoss
    <3>3. CASE s[1] \in pending
      <4>1. s \notin pass
        BY <1>1, <2>2, BeforeFacts
      <4> QED  BY <1>0, <1>5, <3>3, <4>1 DEF Pulled, source
    <3> QED  BY <3>1, <3>2, <3>3
  <2> QED  BY <1>0, <1>4, <2>1, <2>2 DEF HeldRow, source
<1>9. LocalLoss'
  BY <1>0, <1>2, <1>5, <1>7, <1>8, SinkGrows DEF LocalInv, LocalLoss
<1> QED  BY <1>0, <1>6, <1>9 DEF LocalInv

(* Only files that were read to the end and delivered become seen.         *)
LEMMA LocalConfirm == LocalInv /\ Confirm /\ BaseInv' => LocalInv'
<1> SUFFICES ASSUME LocalInv, Confirm, BaseInv' PROVE LocalInv'
  OBVIOUS
<1>0. /\ pc = "confirm" /\ pc' = "commit" /\ ~ draining /\ LocalSource /\ TypeOK /\ runner' = runner
      /\ seen' = seen \cup completed /\ pending' = pending \ completed /\ completed' = {}
      /\ UNCHANGED <<arrived, sink, id, draining, pass, reading, open>>
  BY DEF Confirm, Confirms, LocalInv, BaseInv, Modes, SourceInv, Live, durable, config
<1>1. completed \subseteq Files /\ completed \subseteq pending /\ \A r \in pass : r[1] \in Files
  BY <1>0, RowFacts DEF TypeOK
<1>2. \A f \in completed : Delivered(f)
  <2>1. ASSUME NEW f \in completed, NEW r \in Rows, r[1] = f
        PROVE  Deliv(r)
    <3>1. r \notin pass /\ r[1] \in pending
      BY <1>0, <1>1, <2>1, RowFacts DEF LocalSource
    <3> QED  BY <1>0, <3>1 DEF LocalInv, LocalLoss, Pulled, Live
  <2> QED  BY <1>1, <2>1, DeliveredIs
<1>3. Ordered'
  <2>1. ASSUME NEW f \in completed, NEW g \in Files, g < f
        PROVE  g \in seen \cup completed
    <3>1. f \in Files /\ g \in seen \cup pending
      BY <1>0, <1>1, <2>1 DEF LocalInv, Ordered, Closed, Live
    <3>2. g \notin reading /\ \A r \in pass : r[1] # g
      BY <1>0, <1>1, <2>1, <3>1, RowFacts DEF LocalSource, TypeOK
    <3> QED  BY <1>0, <2>1, <3>1, <3>2 DEF LocalSource
  <2>2. Closed(seen')
    BY <1>0, <2>1 DEF LocalInv, Ordered, Closed
  <2>3. seen' \cup pending' = seen \cup pending
    BY <1>0, <1>1
  <2> QED  BY <1>0, <2>2, <2>3 DEF LocalInv, Ordered, Closed, Live
<1>4. LocalLoss'
  BY <1>0, <1>1, <1>2 DEF LocalInv, LocalLoss, Delivered, Deliv, Pulled, Held, HeldRow, Live
<1> QED  BY <1>0, <1>3, <1>4 DEF LocalInv

(* After its commit an id is not used again.                               *)
LEMMA LocalCommit == LocalInv /\ Commit /\ BaseInv' => LocalInv'
<1> SUFFICES ASSUME LocalInv, Commit, BaseInv' PROVE LocalInv'
  OBVIOUS
<1>0. /\ pc = "commit" /\ pc' \in {"done", "stage"} /\ LocalSource /\ id \in Nat /\ id' = id + 1
      /\ UNCHANGED <<arrived, seen, sink, source, runner>>
  BY DEF Commit, LocalInv, BaseInv, TypeOK, SourceInv, Live, config
<1>1. ~ Held'
  BY <1>0 DEF LocalInv, BaseInv, TypeOK, Ids, Held
<1>2. Ordered'
  BY <1>0 DEF LocalInv, Ordered, Closed, Live, source
<1>3. Pulled'
  BY <1>0 DEF LocalInv, LocalLoss, Pulled, Deliv, Live, source
<1>4. LocalLoss'
  BY <1>0, <1>1, <1>3 DEF LocalInv, LocalLoss, Delivered
<1> QED  BY <1>0, <1>2, <1>4 DEF LocalInv

(* Every step of the local runner keeps it.                                *)
LEMMA LocalStep ==
    ASSUME InOrder, ~ FaultsBeforeRestorePoint, LocalInv, Next
    PROVE  LocalInv'
<1>1. BaseInv'
  BY BaseStep DEF LocalInv
<1>2. pc # "shards" /\ runner # "distributed"
  BY DEF LocalInv, BaseInv, Modes
<1>3. CASE Terminated
  BY <1>1, <1>3 DEF Terminated, LocalInv, Ordered, Closed, Live, LocalLoss, Delivered, Deliv, Pulled, Held, HeldRow,
                    vars, durable, source, epoch, config
<1> QED
  BY <1>1, <1>2, <1>3, LocalArrive, LocalStart, LocalOpen, LocalPull, LocalEndPass, LocalRecord, LocalPublish,
     LocalConfirm, LocalCommit, LocalCrash, LocalFault
     DEF Next, EngineStep, Discover, WriteShard, Merge, Exhausted

-----------------------------------------------------------------------------
(* What the distributed runner loses.                                      *)

TableInv == BaseInv /\ runner = "distributed" /\ writer = "transactional" /\ TableLoss
FilesInv == BaseInv /\ runner = "distributed" /\ writer = "files" /\ FilesLoss

(* A failure allows one pass more.                                         *)
LEMMA AllowanceFacts ==
    ASSUME Ids
    PROVE  /\ Failures \in Nat /\ Allowance \in Nat
           /\ Failures' = Failures => Allowance' = Allowance
           /\ Failures' = Failures + 1 => Allowance' = Allowance + MaxFiles
<1>1. Failures \in Nat /\ MaxFiles \in Nat
  BY IngestAssumption DEF Ids, Failures
<1>2. MaxFiles * Failures \in Nat /\ MaxFiles * (Failures + 1) = MaxFiles * Failures + MaxFiles
  BY <1>1
<1> QED  BY <1>1, <1>2 DEF Allowance

(* Sets of seen files.                                                     *)
LEMMA LostFacts ==
    ASSUME TypeOK
    PROVE  /\ Lost \in SUBSET Files /\ Cardinality(Lost) \in Nat
           /\ LostBefore \in SUBSET Files /\ Cardinality(LostBefore) \in Nat
<1>1. Lost \in SUBSET Files /\ LostBefore \in SUBSET Files
  BY DEF TypeOK, Lost, LostBefore
<1> QED  BY <1>1, FilesFinite

(* A set and a pass together.                                              *)
LEMMA OnePassMore ==
    ASSUME NEW S \in SUBSET Files, NEW T \in SUBSET Files, NEW U \in SUBSET (S \cup T)
    PROVE  Cardinality(U) <= Cardinality(S) + Cardinality(T)
<1>1. /\ IsFiniteSet(S) /\ IsFiniteSet(T) /\ S \cup T \in SUBSET Files /\ S \cap T \in SUBSET Files
      /\ U \in SUBSET Files
  BY FilesFinite
<1>2. Cardinality(S \cup T) = Cardinality(S) + Cardinality(T) - Cardinality(S \cap T)
  BY <1>1, FS_Union
<1>3. Cardinality(U) <= Cardinality(S \cup T)
  BY <1>1, FilesSubset
<1>4. \A X \in {S, T, U, S \cap T, S \cup T} : Cardinality(X) \in Nat
  BY <1>1, FilesFinite
<1> QED  BY <1>2, <1>3, <1>4

(* Steps that write nothing, confirm nothing and fail nothing.             *)
LEMMA TableFrame ==
    ASSUME TableInv, BaseInv', UNCHANGED <<sink, seen, id, crashes, faults, runner, writer>>,
           pc' \notin {"confirm", "commit"} => pc \notin {"confirm", "commit"},
           pc' = "confirm" => pc = "confirm" /\ completed' = completed
    PROVE  TableInv'
<1>1. Lost' = Lost /\ Held' = Held /\ Failures' = Failures
  BY DEF Lost, Delivered, Held, Failures
<1>2. Allowance' = Allowance
  BY <1>1, AllowanceFacts DEF TableInv, BaseInv
<1> QED  BY <1>1, <1>2 DEF TableInv, TableLoss, Delivered

(* A failure pays for what may be skipped under the id it leaves behind.   *)
LEMMA TableFails ==
    ASSUME TableInv, BaseInv', UNCHANGED <<sink, seen, id, runner, writer>>, Failures' = Failures + 1,
           pc' \in {"down", "stage"}
    PROVE  TableInv'
<1>1. Lost' = Lost /\ Allowance' = Allowance + MaxFiles /\ Allowance \in Nat /\ MaxFiles \in Nat
  BY AllowanceFacts, IngestAssumption DEF TableInv, BaseInv, Lost, Delivered
<1>2. Cardinality(Lost) <= Allowance /\ Cardinality(Lost) \in Nat
  BY LostFacts DEF TableInv, TableLoss, BaseInv
<1> QED  BY <1>1, <1>2 DEF TableInv, TableLoss

(* A pass that is not skipped is delivered whole.                          *)
LEMMA TablePublish == TableInv /\ Publish /\ BaseInv' => TableInv'
<1> SUFFICES ASSUME TableInv, Publish, BaseInv' PROVE TableInv'
  OBVIOUS
<1>0. /\ pc = "publish" /\ pc' = "confirm" /\ ~ draining /\ DistSource /\ TypeOK
      /\ UNCHANGED <<seen, id, completed, crashes, faults, runner, writer>>
  BY PublishFacts DEF TableInv, BaseInv, SourceInv, Live, source, config, bounds
<1>1. Failures' = Failures /\ Allowance' = Allowance /\ Allowance \in Nat
  BY <1>0, AllowanceFacts DEF TableInv, BaseInv, Failures
<1>2. CASE Held
  <2>1. sink' = sink
    BY <1>0, <1>2, PublishFacts DEF TableInv
  <2>2. Lost' = Lost
    BY <1>0, <2>1 DEF Lost, Delivered
  <2> QED  BY <1>0, <1>1, <1>2, <2>2 DEF TableInv, TableLoss
<1>3. CASE ~ Held
  <2>1. /\ DOMAIN sink' = DOMAIN sink \cup ({id} \X DOMAIN staged)
        /\ \A s \in DOMAIN staged : sink'[<<id, s>>] = staged[s]
        /\ \A k \in DOMAIN sink : sink'[k] = sink[k]
    BY <1>3, PublishFacts DEF TableInv
  <2>2. ASSUME NEW r \in Rows, r[1] \in completed
        PROVE  Deliv(r)'
    <3>1. PICK s \in DOMAIN staged : r \in staged[s]
      BY <1>0, <2>2 DEF DistSource, InHand
    <3>2. <<id, s>> \in DOMAIN sink' /\ sink'[<<id, s>>] = staged[s]
      BY <2>1
    <3> QED  BY <3>1, <3>2 DEF Deliv
  <2>3. \A f \in completed : Delivered(f)'
    BY <1>0, <2>2, RowFacts DEF TypeOK, Deliv, Delivered
  <2>4. Lost' \in SUBSET Lost
    BY <1>0, <2>1, SinkGrows DEF Lost
  <2>5. Cardinality(Lost') <= Cardinality(Lost) /\ Cardinality(Lost) \in Nat /\ Cardinality(Lost') \in Nat
    <3>1. Lost \in SUBSET Files /\ Lost' \in SUBSET Files
      BY <1>0, <2>4, LostFacts
    <3> QED  BY <2>4, <3>1, FilesSubset, FilesFinite
  <2> QED  BY <1>0, <1>1, <2>3, <2>5 DEF TableInv, TableLoss
<1> QED  BY <1>2, <1>3

(* What is confirmed undelivered is one pass, paid for by a failure.       *)
LEMMA TableConfirm == TableInv /\ Confirm /\ BaseInv' => TableInv'
<1> SUFFICES ASSUME TableInv, Confirm, BaseInv' PROVE TableInv'
  OBVIOUS
<1>0. /\ pc = "confirm" /\ pc' = "commit" /\ ~ draining /\ DistSource /\ TypeOK
      /\ seen' = seen \cup completed /\ UNCHANGED <<sink, id, crashes, faults, runner, writer>>
  BY DEF Confirm, Confirms, TableInv, BaseInv, SourceInv, Live, Modes, durable, config, bounds
<1>1. Failures' = Failures /\ Allowance' = Allowance /\ Allowance \in Nat /\ MaxFiles \in Nat
  BY <1>0, AllowanceFacts, IngestAssumption DEF TableInv, BaseInv, Failures
<1>2. /\ Lost' \in SUBSET (Lost \cup completed)
      /\ (\A f \in completed : Delivered(f)) => Lost' \in SUBSET Lost
  BY <1>0 DEF Lost, Delivered
<1>3. completed \in SUBSET Files /\ Cardinality(completed) <= MaxFiles
  BY <1>0 DEF DistSource, InHand, TypeOK
<1>4. Lost \in SUBSET Files /\ Lost' \in SUBSET Files
  BY <1>0, <1>2, <1>3, LostFacts
<1>5. \A S \in {Lost, Lost', completed} : Cardinality(S) \in Nat
  BY <1>3, <1>4, FilesFinite
<1>6. CASE \A f \in completed : Delivered(f)
  <2>1. Cardinality(Lost') <= Cardinality(Lost)
    BY <1>2, <1>4, <1>6, FilesSubset
  <2> QED  BY <1>0, <1>1, <1>5, <2>1 DEF TableInv, TableLoss
<1>7. CASE Cardinality(Lost) + MaxFiles <= Allowance
  <2>1. Cardinality(Lost') <= Cardinality(Lost) + Cardinality(completed)
    BY <1>2, <1>3, <1>4, OnePassMore
  <2> QED  BY <1>0, <1>1, <1>3, <1>5, <1>7, <2>1 DEF TableInv, TableLoss
<1> QED  BY <1>0, <1>6, <1>7 DEF TableInv, TableLoss

(* After the commit the id is new.                                         *)
LEMMA TableCommit == TableInv /\ Commit /\ BaseInv' => TableInv'
<1> SUFFICES ASSUME TableInv, Commit, BaseInv' PROVE TableInv'
  OBVIOUS
<1>0. /\ pc' \in {"done", "stage"} /\ id \in Nat /\ id' = id + 1
      /\ UNCHANGED <<seen, sink, crashes, faults, runner, writer>>
  BY DEF Commit, TableInv, BaseInv, TypeOK, config, bounds
<1>1. ~ Held'
  BY <1>0 DEF TableInv, BaseInv, TypeOK, Ids, Held
<1>2. Lost' = Lost /\ Failures' = Failures /\ Allowance' = Allowance
  BY <1>0, AllowanceFacts DEF TableInv, BaseInv, Lost, Delivered, Failures
<1> QED  BY <1>0, <1>1, <1>2 DEF TableInv, TableLoss

(* Every step keeps the bound on what a table misses.                      *)
LEMMA TableStep ==
    ASSUME ~ FaultsBeforeRestorePoint, TableInv, Next
    PROVE  TableInv'
<1>1. BaseInv'
  BY BaseStep DEF TableInv
<1>2. CASE Arrive \/ Discover \/ Merge \/ Exhausted \/ Record \/ Terminated
  BY <1>1, <1>2, TableFrame DEF Arrive, Discover, Merge, Exhausted, Record, Terminated, vars, durable, source,
                                epoch, config, bounds
<1>3. CASE Start
  <2>1. seen' = seen /\ id' = id /\ pc' = "stage" /\ pc \in {"down", "done"}
        /\ UNCHANGED <<sink, crashes, faults, runner, writer>>
    BY <1>3, SeekFacts, RecoveryFacts DEF Start, TableInv, BaseInv, durable
  <2> QED  BY <1>1, <2>1, TableFrame
<1>4. CASE Crash
  <2>1. UNCHANGED <<sink, seen, id, runner, writer>> /\ pc' = "down" /\ Failures' = Failures + 1
    BY <1>4 DEF Crash, durable, config, Failures, TableInv, BaseInv, Ids
  <2> QED  BY <1>1, <2>1, TableFails
<1>5. CASE Fault
  <2>1. UNCHANGED <<sink, seen, id, runner, writer>> /\ pc' = "stage"
    BY <1>5, SeekFacts, RecoveryFacts DEF Fault, durable, config, TableInv, BaseInv
  <2>2. Failures' = Failures + 1
    BY <1>5 DEF Fault, Failures, TableInv, BaseInv, Ids
  <2> QED  BY <1>1, <2>1, <2>2, TableFails
<1>6. ~ Open /\ ~ Pull /\ ~ EndPass /\ ~ WriteShard
  BY DEF Open, Pull, EndPass, WriteShard, TableInv, BaseInv, Modes
<1> QED  BY <1>1, <1>2, <1>3, <1>4, <1>5, <1>6, TablePublish, TableConfirm, TableCommit DEF Next, EngineStep

(* Steps that change neither the committed writes nor what is seen.        *)
LEMMA FilesFrame ==
    ASSUME FilesInv, BaseInv', UNCHANGED <<sink, seen, id, crashes, faults, runner, writer>>,
           pc # "commit", pc' # "commit",
           pc' = "confirm" => \A f \in completed' : Delivered(f)'
    PROVE  FilesInv'
<1>1. LostBefore' = LostBefore /\ Failures' = Failures
  BY DEF LostBefore, DeliveredBefore, Failures
<1>2. Allowance' = Allowance
  BY <1>1, AllowanceFacts DEF FilesInv, BaseInv
<1> QED  BY <1>1, <1>2 DEF FilesInv, FilesLoss

(* A shard file is written under the current id.                           *)
LEMMA FilesWriteShard == FilesInv /\ WriteShard /\ BaseInv' => FilesInv'
<1> SUFFICES ASSUME FilesInv, WriteShard, BaseInv' PROVE FilesInv'
  OBVIOUS
<1>0. /\ pc = "shards" /\ pc' = pc /\ id \in Nat
      /\ UNCHANGED <<seen, id, crashes, faults, runner, writer>>
  BY DEF WriteShard, FilesInv, BaseInv, TypeOK, config, bounds
<1>1. PICK s \in unwritten : sink' = Put(sink, <<id, s>>, staged[s])
  BY DEF WriteShard
<1>2. \A k : k[1] < id => (k \in DOMAIN sink' <=> k \in DOMAIN sink) /\ (k \in DOMAIN sink => sink'[k] = sink[k])
  BY <1>0, <1>1 DEF Put
<1>3. LostBefore' = LostBefore
  <2>1. \A f : DeliveredBefore(f)' <=> DeliveredBefore(f)
    BY <1>0, <1>2 DEF DeliveredBefore
  <2> QED  BY <1>0, <2>1 DEF LostBefore
<1>4. Failures' = Failures /\ Allowance' = Allowance
  BY <1>0, AllowanceFacts DEF FilesInv, BaseInv, Failures
<1> QED  BY <1>0, <1>3, <1>4 DEF FilesInv, FilesLoss

(* Every shard of the pass is in its file.                                 *)
LEMMA FilesPublish == FilesInv /\ Publish /\ BaseInv' => FilesInv'
<1> SUFFICES ASSUME FilesInv, Publish, BaseInv' PROVE FilesInv'
  OBVIOUS
<1>0. /\ pc = "publish" /\ pc' = "confirm" /\ ~ draining /\ DistSource /\ TypeOK /\ unwritten = {}
      /\ UNCHANGED <<sink, seen, id, completed, crashes, faults, runner, writer>>
  BY PublishFacts DEF FilesInv, BaseInv, SourceInv, Live, source, config, bounds
<1>1. \A r \in Rows : r[1] \in completed => Deliv(r)
  BY <1>0 DEF FilesInv, DistSource, InHand, Deliv
<1>2. \A f \in completed : Delivered(f)'
  BY <1>0, <1>1, RowFacts DEF TypeOK, Deliv, Delivered
<1> QED  BY <1>0, <1>2, FilesFrame

(* The write-ahead; a drain marker's position is empty.                    *)
LEMMA FilesRecord == FilesInv /\ Record /\ BaseInv' => FilesInv'
<1> SUFFICES ASSUME FilesInv, Record, BaseInv' PROVE FilesInv'
  OBVIOUS
<1>0. /\ pc = "record" /\ pc' = (IF draining THEN "commit" ELSE "publish") /\ DistSource /\ draining \in BOOLEAN
      /\ UNCHANGED <<sink, seen, id, crashes, faults, runner, writer>> /\ offsets'[id] = completed
  BY DEF Record, Put, FilesInv, BaseInv, TypeOK, SourceInv, Live, config, bounds
<1>1. CASE ~ draining
  BY <1>0, <1>1, FilesFrame
<1>2. CASE draining
  <2>1. offsets'[id'] = {} /\ Cardinality({}) = 0 /\ MaxFiles \in Nat
    BY <1>0, <1>2, FS_EmptySet, IngestAssumption DEF DistSource, InHand
  <2>2. LostBefore' = LostBefore /\ Failures' = Failures /\ LostBefore' \ offsets'[id'] = LostBefore
    BY <1>0, <2>1 DEF LostBefore, DeliveredBefore, Failures
  <2>3. Allowance' = Allowance
    BY <2>2, AllowanceFacts DEF FilesInv, BaseInv
  <2> QED  BY <1>0, <1>2, <2>1, <2>2, <2>3 DEF FilesInv, FilesLoss
<1> QED  BY <1>1, <1>2

(* The pass is confirmed, its files not yet committed.                     *)
LEMMA FilesConfirm == FilesInv /\ Confirm /\ BaseInv' => FilesInv'
<1> SUFFICES ASSUME FilesInv, Confirm, BaseInv' PROVE FilesInv'
  OBVIOUS
<1>0. /\ pc = "confirm" /\ pc' = "commit" /\ ~ draining /\ DistSource /\ TypeOK /\ offsets[id] = completed
      /\ seen' = seen \cup completed /\ UNCHANGED <<sink, id, offsets, crashes, faults, runner, writer>>
  BY DEF Confirm, Confirms, FilesInv, BaseInv, SourceInv, Live, Modes, Positions, durable, config, bounds
<1>1. Failures' = Failures /\ Allowance' = Allowance /\ Allowance \in Nat
  BY <1>0, AllowanceFacts DEF FilesInv, BaseInv, Failures
<1>2. (LostBefore \ offsets[id])' \in SUBSET LostBefore
  BY <1>0 DEF LostBefore, DeliveredBefore
<1>3. Cardinality((LostBefore \ offsets[id])') <= Cardinality(LostBefore)
  BY <1>0, <1>2, LostFacts, FilesSubset
<1>4. (LostBefore \ offsets[id])' \in SUBSET Files
  BY <1>0, <1>2, LostFacts
<1>5. Cardinality((LostBefore \ offsets[id])') <= Allowance'
  BY <1>0, <1>1, <1>3, <1>4, LostFacts, FilesFinite DEF FilesInv, FilesLoss
<1>6. Cardinality(offsets[id]) <= MaxFiles
  BY <1>0 DEF DistSource, InHand
<1>7. \A f \in offsets'[id'] : Delivered(f)'
  BY <1>0 DEF FilesInv, FilesLoss, Delivered
<1> QED  BY <1>0, <1>5, <1>6, <1>7 DEF FilesInv, FilesLoss

(* The commit makes its files safe from being written over.                *)
LEMMA FilesCommit == FilesInv /\ Commit /\ BaseInv' => FilesInv'
<1> SUFFICES ASSUME FilesInv, Commit, BaseInv' PROVE FilesInv'
  OBVIOUS
<1>0. /\ pc = "commit" /\ pc' \in {"done", "stage"} /\ id \in Nat /\ id' = id + 1 /\ TypeOK
      /\ UNCHANGED <<seen, sink, crashes, faults, runner, writer>>
  BY DEF Commit, FilesInv, BaseInv, TypeOK, config, bounds
<1>1. Failures' = Failures /\ Allowance' = Allowance /\ Allowance \in Nat
  BY <1>0, AllowanceFacts DEF FilesInv, BaseInv, Failures
<1>2. \A k \in DOMAIN sink : k[1] \in Nat /\ k[1] < id'
  BY <1>0 DEF FilesInv, BaseInv, Ids, TypeOK
<1>3. \A f : Delivered(f) \/ DeliveredBefore(f) => DeliveredBefore(f)'
  BY <1>0, <1>2 DEF Delivered, DeliveredBefore
<1>4. LostBefore' \in SUBSET (LostBefore \ offsets[id])
  BY <1>0, <1>3 DEF LostBefore, FilesInv, FilesLoss
<1>5. LostBefore \ offsets[id] \in SUBSET Files /\ LostBefore' \in SUBSET Files
  BY <1>0, <1>4, LostFacts
<1>6. Cardinality(LostBefore') <= Cardinality(LostBefore \ offsets[id])
  BY <1>4, <1>5, FilesSubset
<1>7. Cardinality(LostBefore') <= Allowance'
  BY <1>0, <1>1, <1>5, <1>6, FilesFinite DEF FilesInv, FilesLoss
<1> QED  BY <1>0, <1>7 DEF FilesInv, FilesLoss

(* A failure pays for the confirmed pass that may be written over.         *)
LEMMA FilesFails ==
    ASSUME FilesInv, BaseInv', UNCHANGED <<sink, seen, id, runner, writer>>, Failures' = Failures + 1,
           pc' \in {"down", "stage"}
    PROVE  FilesInv'
<1>1. /\ LostBefore' = LostBefore /\ Allowance' = Allowance + MaxFiles /\ Allowance \in Nat /\ MaxFiles \in Nat
      /\ TypeOK
  BY AllowanceFacts, IngestAssumption DEF FilesInv, BaseInv, LostBefore, DeliveredBefore
<1>2. LostBefore \in SUBSET Files /\ Cardinality(LostBefore) \in Nat
  BY <1>1, LostFacts
<1>3. Cardinality(LostBefore) <= Allowance + MaxFiles
  <2>1. CASE pc # "commit"
    BY <1>1, <1>2, <2>1 DEF FilesInv, FilesLoss
  <2>2. CASE pc = "commit"
    <3> DEFINE S == LostBefore \ offsets[id]
    <3>1. offsets[id] \in SUBSET Files /\ S \in SUBSET Files
      BY <1>2, <2>2 DEF FilesInv, BaseInv, Positions, TypeOK
    <3>2. Cardinality(LostBefore) <= Cardinality(S) + Cardinality(offsets[id])
      BY <3>1, OnePassMore
    <3>3. Cardinality(S) \in Nat /\ Cardinality(offsets[id]) \in Nat
      BY <3>1, FilesFinite
    <3> QED  BY <1>1, <1>2, <2>2, <3>2, <3>3 DEF FilesInv, FilesLoss
  <2> QED  BY <2>1, <2>2
<1> QED  BY <1>1, <1>3 DEF FilesInv, FilesLoss

(* Every step keeps the bound on what a directory of files misses.         *)
LEMMA FilesStep ==
    ASSUME ~ FaultsBeforeRestorePoint, FilesInv, Next
    PROVE  FilesInv'
<1>1. BaseInv'
  BY BaseStep DEF FilesInv
<1>2. CASE Discover \/ Merge \/ Exhausted
  BY <1>1, <1>2, FilesFrame DEF Discover, Merge, Exhausted, durable, source, epoch, config, bounds
<1>3. CASE Start
  <2>1. seen' = seen /\ id' = id /\ pc' = "stage" /\ pc \in {"down", "done"}
        /\ UNCHANGED <<sink, crashes, faults, runner, writer>>
    BY <1>3, SeekFacts, RecoveryFacts DEF Start, FilesInv, BaseInv, durable
  <2> QED  BY <1>1, <2>1, FilesFrame
<1>4. CASE Crash
  <2>1. UNCHANGED <<sink, seen, id, runner, writer>> /\ pc' = "down" /\ Failures' = Failures + 1
    BY <1>4 DEF Crash, durable, config, Failures, FilesInv, BaseInv, Ids
  <2> QED  BY <1>1, <2>1, FilesFails
<1>5. CASE Fault
  <2>1. UNCHANGED <<sink, seen, id, runner, writer>> /\ pc' = "stage"
    BY <1>5, SeekFacts, RecoveryFacts DEF Fault, durable, config, FilesInv, BaseInv
  <2>2. Failures' = Failures + 1
    BY <1>5 DEF Fault, Failures, FilesInv, BaseInv, Ids
  <2> QED  BY <1>1, <2>1, <2>2, FilesFails
<1>6. ~ Open /\ ~ Pull /\ ~ EndPass
  BY DEF Open, Pull, EndPass, FilesInv
<1>7. CASE Arrive \/ Terminated
  <2>1. UNCHANGED <<sink, seen, id, crashes, faults, runner, writer, pc, offsets, completed>>
    BY <1>7 DEF Arrive, Terminated, vars, durable, source, config, bounds
  <2>2. LostBefore' = LostBefore /\ Failures' = Failures
    BY <2>1 DEF LostBefore, DeliveredBefore, Failures
  <2>3. Allowance' = Allowance
    BY <2>2, AllowanceFacts DEF FilesInv, BaseInv
  <2> QED  BY <1>1, <2>1, <2>2, <2>3 DEF FilesInv, FilesLoss, Delivered
<1> QED
  BY <1>1, <1>2, <1>3, <1>4, <1>5, <1>6, <1>7, FilesWriteShard, FilesRecord, FilesPublish, FilesConfirm, FilesCommit
     DEF Next, EngineStep

-----------------------------------------------------------------------------
(* The bound on losses.                                                    *)

(* Nothing is seen, so nothing is lost.                                    *)
LEMMA LossInit == Init => LossInv
<1> SUFFICES ASSUME Init PROVE LossInv
  OBVIOUS
<1>1. BaseInv
  BY BaseInit
<1>2. Ordered
  BY DEF Init, Ordered, Closed, Live
<1>3. ~ Held /\ Lost = {} /\ LostBefore = {} /\ Cardinality({}) = 0
  BY Nothing, FS_EmptySet DEF Init, Held, Lost, LostBefore
<1>4. Allowance \in Nat
  BY <1>1, AllowanceFacts DEF BaseInv
<1> QED  BY <1>1, <1>2, <1>3, <1>4 DEF Init, LossInv, LocalLoss, FilesLoss, TableLoss, Live

(* The runner and the order in which files arrive are fixed.               *)
LEMMA OrderKept ==
    ASSUME [Next]_vars
    PROVE  runner' = runner /\ (InOrder' <=> InOrder)
<1>1. runner' = runner /\ order' = order
  BY DEF Next, EngineStep, Arrive, Start, Open, Pull, EndPass, Discover, WriteShard, Merge, Exhausted, Record, Publish,
         Confirm, Commit, Crash, Fault, Terminated, vars, config
<1> QED  BY <1>1 DEF InOrder

(* It concerns both runners.                                               *)
LEMMA ArrivedStaysClosed ==
    ASSUME InOrder, BaseInv, Closed(arrived), Next
    PROVE  Closed(arrived)'
<1>1. CASE Arrive
  BY <1>1, ArriveOrder DEF BaseInv
<1>2. ASSUME ~ Arrive PROVE arrived' = arrived
  BY <1>2 DEF Next, EngineStep, Start, Open, Pull, EndPass, Discover, WriteShard, Merge, Exhausted, Record, Publish,
              Confirm, Commit, Crash, Fault, Terminated, vars
<1> QED  BY <1>1, <1>2 DEF Closed

(* Every step of either runner keeps the bound.                            *)
LEMMA LossStep ==
    ASSUME ~ FaultsBeforeRestorePoint
    PROVE  LossInv /\ [Next]_vars => LossInv'
<1> SUFFICES ASSUME LossInv, [Next]_vars PROVE LossInv'
  OBVIOUS
<1>0. runner' = runner /\ (InOrder' <=> InOrder)
  BY OrderKept
<1>1. CASE UNCHANGED vars
  <2>1. BaseInv'
    BY <1>1, BaseStutter DEF LossInv
  <2>2. UNCHANGED <<arrived, seen, offsets, sink, pc, id, draining, pending, completed, pass, reading, open, staged,
                    runner, writer, crashes, faults>>
    BY <1>1 DEF vars, durable, source, epoch, config, bounds
  <2>3. /\ (\A f : (Delivered(f)' <=> Delivered(f)) /\ (DeliveredBefore(f)' <=> DeliveredBefore(f)))
        /\ Held' = Held /\ Allowance' = Allowance
    BY <2>2 DEF Delivered, DeliveredBefore, Held, Allowance, Failures
  <2>4. Lost' = Lost /\ LostBefore' = LostBefore
    BY <2>2, <2>3 DEF Lost, LostBefore
  <2>5. Ordered => Ordered'
    BY <2>2 DEF Ordered, Closed, Live
  <2>6. LocalLoss => LocalLoss'
    BY <2>2 DEF LocalLoss, Delivered, Deliv, Pulled, Held, HeldRow, Live
  <2>7. (FilesLoss => FilesLoss') /\ (TableLoss => TableLoss')
    BY <2>2, <2>3, <2>4 DEF FilesLoss, TableLoss
  <2> QED  BY <1>0, <2>1, <2>2, <2>5, <2>6, <2>7 DEF LossInv
<1>2. CASE Next
  <2>1. CASE runner = "local"
    <3>1. ASSUME InOrder PROVE LocalInv'
      BY <1>2, <2>1, <3>1, LocalStep DEF LossInv, LocalInv
    <3>2. BaseInv' /\ runner' = "local"
      <4>1. BaseInv'
        BY <1>2, BaseStep DEF LossInv
      <4> QED  BY <1>0, <2>1, <4>1
    <3> QED  BY <1>0, <3>1, <3>2 DEF LocalInv, LossInv
  <2>2. CASE runner # "local" /\ writer = "files"
    <3>1. FilesInv'
      BY <1>2, <2>2, FilesStep, IngestAssumption DEF LossInv, BaseInv, TypeOK, FilesInv
    <3> QED  BY <3>1 DEF FilesInv, LossInv
  <2>3. CASE runner # "local" /\ writer # "files"
    <3>1. TableInv'
      BY <1>2, <2>3, TableStep, IngestAssumption DEF LossInv, BaseInv, TypeOK, TableInv
    <3> QED  BY <3>1 DEF TableInv, LossInv
  <2> QED  BY <2>1, <2>2, <2>3
<1> QED  BY <1>1, <1>2

(* The invariant bounds the files that were seen and not delivered.        *)
LEMMA LossImplies == LossInv => LossBounded
<1> SUFFICES ASSUME LossInv PROVE LossBounded
  OBVIOUS
<1>1. TypeOK /\ Lost \in SUBSET Files /\ Cardinality(Lost) \in Nat
  BY LostFacts DEF LossInv, BaseInv
<1>2. CASE runner = "local"
  <2>1. InOrder => Lost = {}
    BY <1>2 DEF LossInv, LocalLoss, Lost
  <2> QED  BY <1>1, <1>2, <2>1, FS_EmptySet DEF LossBounded, Lost
<1>3. CASE runner # "local"
  <2>1. Cardinality(Lost) <= Allowance
    <3>1. Allowance \in Nat
      BY AllowanceFacts DEF LossInv, BaseInv
    <3>2. CASE writer # "files"
      BY <1>3, <3>2 DEF LossInv, TableLoss
    <3>3. CASE writer = "files" /\ pc # "commit"
      <4>1. Lost \in SUBSET LostBefore
        BY DEF Lost, LostBefore, Delivered, DeliveredBefore
      <4>2. Cardinality(Lost) <= Cardinality(LostBefore) /\ Cardinality(LostBefore) \in Nat
        BY <1>1, <4>1, LostFacts, FilesSubset
      <4> QED  BY <1>1, <1>3, <3>1, <3>3, <4>2 DEF LossInv, FilesLoss
    <3>4. CASE writer = "files" /\ pc = "commit"
      <4>1. Lost \in SUBSET (LostBefore \ offsets[id]) /\ LostBefore \ offsets[id] \in SUBSET Files
        <5>1. \A f \in offsets[id] : Delivered(f)
          BY <1>3, <3>4 DEF LossInv, FilesLoss
        <5> QED  BY <1>1, <5>1, LostFacts DEF Lost, LostBefore, Delivered, DeliveredBefore
      <4>2. Cardinality(Lost) <= Cardinality(LostBefore \ offsets[id])
            /\ Cardinality(LostBefore \ offsets[id]) \in Nat
        BY <4>1, FilesFinite, FilesSubset
      <4> QED  BY <1>1, <1>3, <3>1, <3>4, <4>2 DEF LossInv, FilesLoss
    <3> QED  BY <3>2, <3>3, <3>4
  <2> QED  BY <1>1, <1>3, <2>1 DEF LossBounded, Lost, Allowance, Failures
<1> QED  BY <1>2, <1>3

(* complete(), confirm() and seek(): for any number of files, batches,     *)
(* workers and failures, the local runner's store of seen files holds only *)
(* files whose every row is in the sink, and the distributed one's misses  *)
(* at most a pass for each failure, the latter in whatever order the files *)
(* arrive.  The proviso is needed: a fault before the first commit leaves  *)
(* the source where it was.  So is the property's own, for the local       *)
(* runner: a name that sorts before those of the epoch in flight takes     *)
(* their id on replay.                                                     *)
THEOREM LossBoundedHolds ==
    ASSUME ~ FaultsBeforeRestorePoint
    PROVE  Spec => []LossBounded
<1>1. LossInv /\ [Next]_vars => LossInv'
  BY LossStep
<1> QED  BY <1>1, LossInit, LossImplies, PTL DEF Spec

-----------------------------------------------------------------------------
(* How often the local runner writes a row.                                *)

LocalOnce == BaseInv /\ runner = "local" /\ LocalCopies

(* The writes that hold a row can be counted.                              *)
LEMMA CopiesFinite ==
    ASSUME Ids
    PROVE  \A r : IsFiniteSet(AllCopies(r)) /\ Cardinality(AllCopies(r)) \in Nat
<1> SUFFICES ASSUME NEW r PROVE IsFiniteSet(AllCopies(r)) /\ Cardinality(AllCopies(r)) \in Nat
  OBVIOUS
<1>1. AllCopies(r) \in SUBSET DOMAIN sink /\ IsFiniteSet(DOMAIN sink)
  BY DEF AllCopies, Ids
<1> QED  BY <1>1, FS_Subset, FS_CardinalityType

(* Steps that write nothing and leave nothing more to be read.             *)
LEMMA OnceFrame ==
    ASSUME LocalOnce, BaseInv', UNCHANGED <<sink, crashes, faults, runner>>,
           \A r \in Rows : (r[1] \notin seen /\ Unread(r))' => r[1] \notin seen /\ Unread(r)
    PROVE  LocalOnce'
<1>1. Failures' = Failures /\ \A r : AllCopies(r)' = AllCopies(r)
  BY DEF Failures, AllCopies
<1> QED  BY <1>1 DEF LocalOnce, LocalCopies

(* A failure pays for one more copy of every row.                          *)
LEMMA OnceFails ==
    ASSUME LocalOnce, BaseInv', UNCHANGED <<sink, runner>>, Failures' = Failures + 1
    PROVE  LocalOnce'
<1>1. \A r : AllCopies(r)' = AllCopies(r) /\ Cardinality(AllCopies(r)) \in Nat /\ Failures \in Nat
  BY CopiesFinite, AllowanceFacts DEF LocalOnce, BaseInv, AllCopies
<1>2. \A r : Cardinality(AllCopies(r)') = Cardinality(AllCopies(r))
  BY <1>1
<1> QED  BY <1>1, <1>2 DEF LocalOnce, LocalCopies

(* The row of the epoch in hand is written, and is not offered again.      *)
LEMMA OncePublish == LocalOnce /\ Publish /\ BaseInv' => LocalOnce'
<1> SUFFICES ASSUME LocalOnce, Publish, BaseInv' PROVE LocalOnce'
  OBVIOUS
<1>0. /\ pc = "publish" /\ pc' = "confirm" /\ ~ draining /\ LocalSource /\ writer = "transactional" /\ TypeOK /\ Ids
      /\ UNCHANGED <<seen, id, pending, pass, crashes, faults, runner>> /\ pending \cap seen = {}
  BY PublishFacts DEF LocalOnce, BaseInv, Modes, SourceInv, Live, source, config, bounds
<1>1. PICK r \in Rows : staged = One(r) /\ r[1] \in reading /\ r \notin pass /\ r[1] \in pending
  BY <1>0 DEF LocalSource
<1>2. \A q \in Rows : Unread(q)' => q # r /\ Unread(q)
  BY <1>0, <1>1 DEF Unread, Live
<1>3. CASE Held
  BY <1>0, <1>2, <1>3, PublishFacts, OnceFrame DEF LocalOnce
<1>4. CASE ~ Held
  <2>1. /\ DOMAIN sink' = DOMAIN sink \cup {<<id, 0>>} /\ sink'[<<id, 0>>] = {r}
        /\ \A k \in DOMAIN sink : sink'[k] = sink[k]
    <3>1. DOMAIN staged = {0} /\ staged[0] = {r}
      BY <1>1, OneShard
    <3>2. {id} \X {0} = {<<id, 0>>}
      OBVIOUS
    <3> QED  BY <1>0, <1>4, <3>1, <3>2, PublishFacts DEF LocalOnce
  <2>2. <<id, 0>> \notin DOMAIN sink
    BY <1>4 DEF Held
  <2>3. \A q : q # r => AllCopies(q)' = AllCopies(q)
    BY <2>1, <2>2 DEF AllCopies
  <2>4. AllCopies(r)' = AllCopies(r) \cup {<<id, 0>>} /\ <<id, 0>> \notin AllCopies(r)
    BY <2>1, <2>2 DEF AllCopies
  <2>5. Cardinality(AllCopies(r)') = Cardinality(AllCopies(r)) + 1
    BY <1>0, <2>4, CopiesFinite, FS_AddElement
  <2>6. r[1] \notin seen /\ Unread(r)
    BY <1>0, <1>1 DEF Unread
  <2>7. /\ Failures' = Failures /\ Failures \in Nat
        /\ \A q : Cardinality(AllCopies(q)) \in Nat
    BY <1>0, CopiesFinite, AllowanceFacts DEF Failures
  <2>8. Cardinality(AllCopies(r)') <= 1 + Failures
    BY <2>5, <2>6, <2>7 DEF LocalOnce, LocalCopies
  <2>9. \A q \in Rows : q # r => Cardinality(AllCopies(q)') = Cardinality(AllCopies(q))
    BY <2>3
  <2> QED  BY <1>0, <1>2, <2>7, <2>8, <2>9 DEF LocalOnce, LocalCopies
<1> QED  BY <1>3, <1>4

(* Every step keeps the bound on the local runner's copies.                *)
LEMMA OnceStep ==
    ASSUME ~ FaultsBeforeRestorePoint, LocalOnce, Next
    PROVE  LocalOnce'
<1>0. BaseInv' /\ TypeOK
  BY BaseStep DEF LocalOnce, BaseInv
<1>s. ASSUME Live PROVE LocalSource /\ pending \cap seen = {}
  BY <1>s DEF LocalOnce, BaseInv, SourceInv
<1>1. CASE Arrive \/ Terminated
  BY <1>0, <1>1, OnceFrame
     DEF Arrive, Terminated, vars, Unread, Live, durable, source, epoch, config, bounds
<1>2. CASE Start
  <2>1. seen' = seen /\ ~ Live /\ UNCHANGED <<sink, crashes, faults, runner>>
    BY <1>2, SeekFacts DEF Start, LocalOnce, Live, durable
  <2> QED  BY <1>0, <2>1, OnceFrame DEF Unread
<1>3. CASE Open
  <2>1. seen' = seen /\ pending = {} /\ UNCHANGED <<sink, crashes, faults, runner>>
    BY <1>3, <1>s DEF Open, LocalSource, Live, durable, config, bounds
  <2> QED  BY <1>0, <2>1, OnceFrame DEF Unread
<1>4. CASE Pull
  <2>1. /\ UNCHANGED <<seen, pending, draining, sink, crashes, faults, runner>>
        /\ pc = "stage" /\ pc' = "record"
    BY <1>4 DEF Pull, durable, config, bounds
  <2>2. PICK r \in Rows : r \in pass /\ staged' = One(r) /\ pass' = pass \ {r}
    BY <1>4 DEF Pull, One, IsNext
  <2>3. \A q \in Rows : Unread(q)' => Unread(q)
    BY <2>1, <2>2, OneShard DEF Unread, Live
  <2> QED  BY <1>0, <2>1, <2>3, OnceFrame
<1>5. CASE EndPass
  <2>1. seen' = seen \cup completed \cup reading /\ pass = {} /\ UNCHANGED <<sink, crashes, faults, runner>> /\ Live
    BY <1>5 DEF EndPass, Confirms, Live, durable, config, bounds
  <2>2. pending \subseteq seen'
    BY <1>0, <1>s, <2>1 DEF LocalSource, TypeOK
  <2> QED  BY <1>0, <2>1, <2>2, OnceFrame DEF Unread
<1>6. CASE Record
  BY <1>0, <1>6, OnceFrame DEF Record, Unread, Live, source, epoch, config, bounds
<1>7. CASE Confirm
  <2>1. /\ seen' = seen \cup completed /\ pending' = pending \ completed /\ pass' = pass
        /\ UNCHANGED <<sink, crashes, faults, runner>> /\ pc = "confirm" /\ pc' = "commit"
    BY <1>7 DEF Confirm, Confirms, durable, config, bounds
  <2> QED  BY <1>0, <2>1, OnceFrame DEF Unread, Live
<1>8. CASE Commit
  <2>1. /\ UNCHANGED <<seen, sink, crashes, faults, runner, pass, pending>> /\ pc = "commit"
        /\ pc' = (IF draining THEN "done" ELSE "stage") /\ draining \in BOOLEAN
    BY <1>0, <1>8 DEF Commit, source, config, bounds, TypeOK
  <2>2. draining => pending = {}
    BY <1>s, <2>1 DEF LocalSource, Live
  <2> QED  BY <1>0, <2>1, <2>2, OnceFrame DEF Unread, Live
<1>9. CASE Crash \/ Fault
  <2>1. UNCHANGED <<sink, runner>> /\ Failures' = Failures + 1
    BY <1>9 DEF Crash, Fault, durable, config, Failures, LocalOnce, BaseInv, Ids
  <2> QED  BY <1>0, <2>1, OnceFails
<1>10. ~ Discover /\ ~ WriteShard /\ ~ Merge /\ ~ Exhausted
  BY DEF Discover, WriteShard, Merge, Exhausted, LocalOnce, BaseInv, Modes
<1> QED
  BY <1>0, <1>1, <1>2, <1>3, <1>4, <1>5, <1>6, <1>7, <1>8, <1>9, <1>10, OncePublish DEF Next, EngineStep

-----------------------------------------------------------------------------
(* The distributed runner writes a row once.                               *)

DistOnce == BaseInv /\ runner # "local" /\ Closed(arrived) /\ DistCopies

(* A file that arrives last displaces none from the next pass.             *)
LEMMA WindowGrows ==
    ASSUME InOrder, TypeOK, Closed(arrived), Arrive
    PROVE  Window \subseteq Window'
<1>1. PICK f \in Files \ arrived :
           (\A g \in Files : order[g] < order[f] => g \in arrived) /\ arrived' = arrived \cup {f}
  BY DEF Arrive
<1>2. \A a \in arrived : a \in Files /\ ~ (f < a)
  BY <1>1 DEF Closed, TypeOK
<1>3. seen' = seen
  BY DEF Arrive
<1>4. \A a \in arrived : {g \in arrived' \ seen' : g < a} = {g \in arrived \ seen : g < a}
  BY <1>1, <1>2, <1>3
<1>5. \A a \in Window : a \in arrived \ seen /\ Cardinality({g \in arrived \ seen : g < a}) < MaxFiles
  BY DEF Window, First
<1>6. \A a \in Window : a \in arrived' \ seen' /\ Cardinality({g \in arrived' \ seen' : g < a}) < MaxFiles
  BY <1>1, <1>3, <1>4, <1>5
<1> QED  BY <1>6 DEF Window, First

(* Steps that write and confirm nothing, when the pass only grows.         *)
LEMMA DistFrame ==
    ASSUME DistOnce, BaseInv', Closed(arrived)', UNCHANGED <<sink, seen, id, runner, writer, workers>>,
           Target \subseteq Target', InHand' => pending' \subseteq Window',
           pc' = "confirm" => pc = "confirm" /\ completed' = completed,
           Unseen => pc' # "commit" /\ ~ draining'
    PROVE  DistOnce'
<1>1. \A r : Once(r)' <=> Once(r)
  BY DEF Once
<1>2. Unseen' = Unseen
  BY DEF Unseen
<1>3. Width(Target) \in Nat /\ Width(Target)' \in Nat /\ Width(Target) <= Width(Target)'
  <2>1. Target \in SUBSET Target' /\ Target' \in SUBSET Files /\ TypeOK
    <3>1. TypeOK /\ TypeOK'
      BY DEF DistOnce, BaseInv
    <3>2. arrived' \in SUBSET Files /\ pending' \in SUBSET Files
      BY <3>1 DEF TypeOK
    <3>3. Window' \subseteq arrived'
      BY DEF Window, First
    <3>4. Target' = pending' \/ Target' = Window'
      BY DEF Target
    <3> QED  BY <3>1, <3>2, <3>3, <3>4
  <2>2. Width(Target) \in Nat /\ Width(Target') \in Nat /\ Width(Target) <= Width(Target')
    BY <2>1, WidthFacts
  <2> QED  BY <2>2 DEF Width
<1>4. ASSUME NEW k \in DOMAIN sink, NEW r \in sink[k], r[1] \notin seen
      PROVE  k[1] = id /\ r[1] \in Target' /\ k[2] < Width(Target)'
  <2>1. k[1] = id /\ r[1] \in Target /\ k[2] < Width(Target) /\ k[2] \in Nat
    BY <1>4 DEF DistOnce, DistCopies, BaseInv, TypeOK
  <2> QED  BY <1>3, <2>1
<1> QED  BY <1>1, <1>2, <1>4 DEF DistOnce, DistCopies

(* A shard file of this epoch replaces one of the epoch's earlier run.     *)
LEMMA DistWriteShard == DistOnce /\ WriteShard /\ BaseInv' => DistOnce'
<1> SUFFICES ASSUME DistOnce, WriteShard, BaseInv' PROVE DistOnce'
  OBVIOUS
<1>0. /\ pc = "shards" /\ pc' = pc /\ DistSource /\ writer # "transactional" /\ ~ draining
      /\ UNCHANGED <<arrived, seen, id, draining, pending, completed, runner, writer, workers>>
      /\ pending \cap seen = {} /\ InHand /\ TypeOK
  BY DEF WriteShard, DistOnce, BaseInv, SourceInv, Live, Modes, InHand, source, config
<1>1. PICK s \in unwritten : sink' = Put(sink, <<id, s>>, staged[s])
  BY DEF WriteShard
<1>2. s \in DOMAIN staged /\ s < Width(pending) /\ \A r \in staged[s] : r[1] \in pending
  BY <1>0, WidthFacts DEF TypeOK, DistSource
<1>3. /\ DOMAIN sink' = DOMAIN sink \cup {<<id, s>>} /\ sink'[<<id, s>>] = staged[s]
      /\ \A k \in DOMAIN sink : k # <<id, s>> => sink'[k] = sink[k]
  BY <1>1 DEF Put
<1>4. Target = pending /\ Target' = Target /\ Window' = Window /\ InHand' /\ Width(Target)' = Width(Target)
  BY <1>0 DEF Target, InHand, Window, Width
<1>5. ASSUME NEW r \in Rows, r[1] \in seen' \/ writer' = "transactional"
      PROVE  Once(r)'
  <2>1. Once(r) /\ r \notin staged[s]
    BY <1>0, <1>2, <1>5 DEF DistOnce, DistCopies
  <2> QED  BY <1>3, <2>1 DEF Once
<1>6. ASSUME NEW k \in DOMAIN sink', NEW r \in sink'[k], r[1] \notin seen
      PROVE  k[1] = id /\ r[1] \in Target /\ k[2] < Width(Target)
  <2>1. CASE k = <<id, s>>
    BY <1>2, <1>3, <1>4, <1>6, <2>1
  <2>2. CASE k # <<id, s>>
    BY <1>3, <1>6, <2>2 DEF DistOnce, DistCopies
  <2> QED  BY <2>1, <2>2
<1>7. InHand' => pending' \subseteq Window'
  BY <1>0, <1>4 DEF DistOnce, DistCopies
<1> QED  BY <1>0, <1>4, <1>5, <1>6, <1>7 DEF DistOnce, DistCopies, Closed

(* The shards of a pass share no row, and cover what an earlier run of the *)
(* epoch left.                                                             *)
LEMMA DistPublish == DistOnce /\ Publish /\ BaseInv' => DistOnce'
<1> SUFFICES ASSUME DistOnce, Publish, BaseInv' PROVE DistOnce'
  OBVIOUS
<1>0. /\ pc = "publish" /\ pc' = "confirm" /\ DistSource /\ ~ draining /\ unwritten = {}
      /\ UNCHANGED <<arrived, seen, id, draining, pending, completed, runner, writer, workers>>
      /\ pending \cap seen = {} /\ InHand /\ TypeOK /\ completed = pending
  BY PublishFacts DEF DistOnce, BaseInv, SourceInv, DistSource, Live, InHand, source, config
<1>1. /\ DOMAIN staged = 0..Width(pending) - 1 /\ Width(pending) \in Nat
      /\ \A s \in DOMAIN staged : \A r \in staged[s] : r[1] \in pending
      /\ \A s, u \in DOMAIN staged : \A r \in staged[s] : r \in staged[u] => s = u
      /\ writer = "files" => \A s \in DOMAIN staged : <<id, s>> \in DOMAIN sink /\ sink[<<id, s>>] = staged[s]
  BY <1>0, WidthFacts DEF DistSource, TypeOK
<1>2. Target = pending /\ Target' = Target /\ Window' = Window /\ InHand' /\ Width(Target)' = Width(Target)
  BY <1>0 DEF Target, InHand, Window, Width
<1>3. InHand' => pending' \subseteq Window'
  BY <1>0, <1>2 DEF DistOnce, DistCopies
<1>4. writer \in {"files", "transactional"}
  BY <1>0, IngestAssumption DEF TypeOK
<1>5. CASE writer = "files"
  <2>1. sink' = sink
    BY <1>5, PublishFacts DEF DistOnce
  <2>2. ASSUME NEW r \in Rows, r[1] \in pending, NEW k \in DOMAIN sink, r \in sink[k]
        PROVE  k = <<id, k[2]>> /\ k[2] \in DOMAIN staged /\ r \in staged[k[2]]
    <3>1. k[1] = id /\ k[2] < Width(pending) /\ k \in Nat \X Nat
      BY <1>0, <1>2, <2>2 DEF DistOnce, DistCopies, TypeOK
    <3>2. k = <<id, k[2]>> /\ k[2] \in DOMAIN staged
      BY <1>1, <3>1
    <3>3. sink[<<id, k[2]>>] = staged[k[2]]
      BY <1>1, <1>5, <3>2
    <3>4. sink[k] = staged[k[2]]
      BY <3>2, <3>3
    <3> QED  BY <2>2, <3>2, <3>4
  <2>3. ASSUME NEW r \in Rows, r[1] \in pending
        PROVE  Once(r)
    <3> SUFFICES ASSUME NEW k \in DOMAIN sink, NEW l \in DOMAIN sink, r \in sink[k], r \in sink[l]
                 PROVE  k = l
      BY DEF Once
    <3>1. k = <<id, k[2]>> /\ l = <<id, l[2]>> /\ k[2] = l[2]
      BY <1>1, <2>2, <2>3
    <3> QED  BY <3>1
  <2>4. \A r : Once(r)' <=> Once(r)
    BY <2>1 DEF Once
  <2>5. \A k \in DOMAIN sink' : \A r \in sink'[k] :
           r[1] \notin seen' => k[1] = id' /\ r[1] \in Target' /\ k[2] < Width(Target)'
    BY <1>0, <1>2, <2>1 DEF DistOnce, DistCopies
  <2> QED  BY <1>0, <1>3, <2>3, <2>4, <2>5 DEF DistOnce, DistCopies, Closed
<1>6. CASE writer = "transactional" /\ Held
  <2>1. sink' = sink
    BY <1>6, PublishFacts DEF DistOnce
  <2>2. \A r \in Rows : Once(r) /\ Once(r)'
    BY <1>6, <2>1 DEF DistOnce, DistCopies, Once
  <2>3. \A k \in DOMAIN sink' : \A r \in sink'[k] :
           r[1] \notin seen' => k[1] = id' /\ r[1] \in Target' /\ k[2] < Width(Target)'
    BY <1>0, <1>2, <2>1 DEF DistOnce, DistCopies
  <2> QED  BY <1>0, <1>3, <2>2, <2>3 DEF DistOnce, DistCopies, Closed
<1>7. CASE writer = "transactional" /\ ~ Held
  <2>1. /\ DOMAIN sink' = DOMAIN sink \cup ({id} \X DOMAIN staged)
        /\ \A s \in DOMAIN staged : sink'[<<id, s>>] = staged[s]
        /\ \A k \in DOMAIN sink : sink'[k] = sink[k]
    BY <1>7, PublishFacts DEF DistOnce
  <2>2. \A k \in DOMAIN sink : \A r \in sink[k] : r[1] \in seen
    BY <1>7 DEF DistOnce, DistCopies, Held
  <2>3. ASSUME NEW k \in DOMAIN sink' \ DOMAIN sink
        PROVE  /\ k = <<id, k[2]>> /\ k[1] = id /\ k[2] \in DOMAIN staged
               /\ sink'[k] = staged[k[2]] /\ \A r \in sink'[k] : r[1] \in pending
    <3>1. k \in {id} \X DOMAIN staged
      BY <2>1
    <3>2. k = <<id, k[2]>> /\ k[1] = id /\ k[2] \in DOMAIN staged
      BY <3>1
    <3>3. sink'[<<id, k[2]>>] = staged[k[2]]
      BY <2>1, <3>2
    <3>4. sink'[k] = staged[k[2]]
      BY <3>2, <3>3
    <3> QED  BY <1>1, <3>2, <3>4
  <2>4. ASSUME NEW r \in Rows
        PROVE  Once(r)'
    <3> SUFFICES ASSUME NEW k \in DOMAIN sink', NEW l \in DOMAIN sink', r \in sink'[k], r \in sink'[l]
                 PROVE  k = l
      BY DEF Once
    <3>1. CASE k \in DOMAIN sink /\ l \in DOMAIN sink
      BY <1>7, <2>1, <3>1 DEF DistOnce, DistCopies, Once
    <3>2. CASE k \notin DOMAIN sink /\ l \notin DOMAIN sink
      <4>1. k = <<id, k[2]>> /\ l = <<id, l[2]>> /\ k[2] = l[2]
        BY <1>1, <2>3, <3>2
      <4> QED  BY <4>1
    <3>3. CASE (k \in DOMAIN sink) # (l \in DOMAIN sink)
      BY <1>0, <2>1, <2>2, <2>3, <3>3
    <3> QED  BY <3>1, <3>2, <3>3
  <2>5. ASSUME NEW k \in DOMAIN sink', NEW r \in sink'[k], r[1] \notin seen
        PROVE  k[1] = id /\ r[1] \in Target /\ k[2] < Width(Target)
    <3>1. k \notin DOMAIN sink
      BY <2>1, <2>2, <2>5
    <3>2. k[1] = id /\ k[2] \in DOMAIN staged /\ r[1] \in pending
      BY <2>3, <2>5, <3>1
    <3> QED  BY <1>1, <1>2, <3>2
  <2> QED  BY <1>0, <1>2, <1>3, <2>4, <2>5 DEF DistOnce, DistCopies, Closed
<1> QED  BY <1>4, <1>5, <1>6, <1>7

(* The pass is remembered: no unseen row is left in the sink.              *)
LEMMA DistConfirm == DistOnce /\ Confirm /\ BaseInv' => DistOnce'
<1> SUFFICES ASSUME DistOnce, Confirm, BaseInv' PROVE DistOnce'
  OBVIOUS
<1>0. /\ pc = "confirm" /\ pc' = "commit" /\ DistSource /\ ~ draining /\ completed = pending /\ InHand
      /\ seen' = seen \cup completed /\ UNCHANGED <<arrived, sink, id, draining, runner, writer>>
  BY DEF Confirm, Confirms, DistOnce, BaseInv, SourceInv, DistSource, InHand, Live, Modes, durable, config
<1>1. \A k \in DOMAIN sink : \A r \in sink[k] : r[1] \in seen'
  BY <1>0 DEF DistOnce, DistCopies, Target
<1>2. \A r \in Rows : r[1] \in seen' \/ writer = "transactional" => Once(r)
  BY <1>0 DEF DistOnce, DistCopies
<1>3. \A r : Once(r)' <=> Once(r)
  BY <1>0 DEF Once
<1>4. ~ InHand' /\ ~ Unseen'
  BY <1>0, <1>1 DEF InHand, Unseen
<1> QED  BY <1>0, <1>1, <1>2, <1>3, <1>4 DEF DistOnce, DistCopies, Closed

(* The next id starts with a sink that holds only seen rows.               *)
LEMMA DistCommit == DistOnce /\ Commit /\ BaseInv' => DistOnce'
<1> SUFFICES ASSUME DistOnce, Commit, BaseInv' PROVE DistOnce'
  OBVIOUS
<1>0. /\ pc = "commit" /\ pc' \in {"done", "stage"} /\ UNCHANGED <<arrived, seen, sink, runner, writer>>
  BY DEF Commit, config
<1>1. ~ Unseen /\ ~ Unseen' /\ ~ InHand'
  BY <1>0 DEF DistOnce, DistCopies, Unseen, InHand
<1>2. \A r : Once(r)' <=> Once(r)
  BY <1>0 DEF Once
<1>3. \A k \in DOMAIN sink' : \A r \in sink'[k] : r[1] \in seen'
  BY <1>1 DEF Unseen
<1> QED  BY <1>0, <1>1, <1>2, <1>3 DEF DistOnce, DistCopies, Closed

(* Every step keeps it, under one worker count and names in order.         *)
LEMMA DistStep ==
    ASSUME InOrder, ~ FaultsBeforeRestorePoint, \A v, w \in Workers : v = w, DistOnce, Next
    PROVE  DistOnce'
<1>0. BaseInv' /\ TypeOK /\ TypeOK' /\ Closed(arrived)'
  BY BaseStep, ArrivedStaysClosed DEF DistOnce, BaseInv
<1>w. workers' = workers
  BY <1>0 DEF TypeOK
<1>s. ASSUME Live PROVE DistSource
  BY <1>s DEF DistOnce, BaseInv, SourceInv
<1>m. draining => pc \in {"record", "commit"}
  BY DEF DistOnce, BaseInv, Modes
<1>i. /\ InHand => pending \subseteq Window
      /\ Unseen => pc # "commit" /\ ~ draining
  BY DEF DistOnce, DistCopies
<1>1. CASE Arrive
  <2>1. UNCHANGED <<sink, seen, id, runner, writer, pc, draining, pending, completed>>
    BY <1>1 DEF Arrive, durable, source, config
  <2>2. Window \subseteq Window' /\ (InHand' <=> InHand)
    BY <1>0, <1>1, <2>1, WindowGrows DEF DistOnce, InHand
  <2>3. Target \subseteq Target'
    BY <2>1, <2>2 DEF Target
  <2> QED  BY <1>0, <1>w, <1>i, <2>1, <2>2, <2>3, DistFrame
<1>2. CASE Terminated
  BY <1>0, <1>w, <1>i, <1>2, DistFrame
     DEF Terminated, vars, durable, source, config, Target, InHand, Window
<1>3. CASE Start \/ Crash \/ Fault
  <2>1. /\ UNCHANGED <<arrived, sink, seen, id, runner, writer>> /\ pc' \in {"stage", "down"} /\ ~ draining'
    <3>1. Resume = id
      BY RecoveryFacts DEF DistOnce, BaseInv
    <3>2. CASE Start
      BY <1>m, <3>1, <3>2, SeekFacts DEF Start, DistOnce, durable
    <3>3. CASE Crash
      BY <3>3 DEF Crash, durable, config
    <3>4. CASE Fault
      <4>1. seen' = seen
        BY <3>4, SeekFacts DEF Fault, DistOnce
      <4> QED  BY <1>m, <3>1, <3>4, <4>1 DEF Fault, durable, config
    <3> QED  BY <1>3, <3>2, <3>3, <3>4
  <2>2. Window' = Window /\ ~ InHand' /\ Target' = Window /\ Target \subseteq Target'
    BY <1>i, <2>1 DEF Window, InHand, Target
  <2> QED  BY <1>0, <1>w, <2>1, <2>2, DistFrame
<1>4. CASE Discover
  <2>1. /\ UNCHANGED <<arrived, sink, seen, id, runner, writer, draining>> /\ pc = "stage" /\ pc' = "shards"
        /\ pending = {} /\ pending' = Window /\ ~ draining /\ ~ InHand
    BY <1>0, <1>4, <1>s, <1>m, FreshFacts DEF Discover, DistSource, InHand, Live, durable, config
  <2>2. Window' = Window /\ InHand' /\ Target' = Window /\ Target = Window
    BY <2>1 DEF Window, InHand, Target
  <2> QED  BY <1>0, <1>w, <2>1, <2>2, DistFrame
<1>5. CASE Merge
  <2>1. /\ UNCHANGED <<arrived, sink, seen, id, runner, writer, draining, pending>> /\ pc = "shards"
        /\ pc' = "record" /\ ~ draining
    BY <1>5, <1>m DEF Merge, durable, config
  <2>2. Window' = Window /\ InHand /\ InHand' /\ Target' = Target
    BY <2>1 DEF Window, InHand, Target
  <2> QED  BY <1>0, <1>w, <1>i, <2>1, <2>2, DistFrame
<1>6. CASE Exhausted
  <2>1. /\ UNCHANGED <<arrived, sink, seen, id, runner, writer, pending>> /\ pc = "stage"
        /\ pc' \in {"record", "stage"} /\ (pc' = "record" => draining') /\ ~ draining /\ Window = {}
    BY <1>0, <1>6, <1>s, <1>m, FreshFacts DEF Exhausted, DistSource, InHand, Live, durable, source, config
  <2>2. Window' = Window /\ ~ InHand /\ ~ InHand' /\ Target = {}
    BY <2>1 DEF Window, InHand, Target
  <2>3. ~ Unseen
    BY <2>2 DEF DistOnce, DistCopies, Unseen
  <2> QED  BY <1>0, <1>w, <2>1, <2>2, <2>3, DistFrame
<1>7. CASE Record
  <2>1. /\ UNCHANGED <<arrived, sink, seen, id, runner, writer, pending, draining>> /\ pc = "record"
        /\ pc' = (IF draining THEN "commit" ELSE "publish") /\ draining \in BOOLEAN
    BY <1>0, <1>7 DEF Record, source, config, TypeOK
  <2>2. Window' = Window /\ (InHand' <=> InHand) /\ Target' = Target
    BY <2>1 DEF Window, InHand, Target
  <2> QED  BY <1>0, <1>w, <1>i, <2>1, <2>2, DistFrame
<1>8. ~ Open /\ ~ Pull /\ ~ EndPass
  BY DEF Open, Pull, EndPass, DistOnce
<1> QED
  BY <1>0, <1>1, <1>2, <1>3, <1>4, <1>5, <1>6, <1>7, <1>8, DistWriteShard, DistPublish, DistConfirm, DistCommit
     DEF Next, EngineStep

-----------------------------------------------------------------------------
(* The bound on copies.                                                    *)

(* Nothing is written yet.                                                 *)
LEMMA CopyInit == Init => CopyInv
<1> SUFFICES ASSUME Init PROVE CopyInv
  OBVIOUS
<1>1. BaseInv /\ Closed(arrived)
  BY BaseInit DEF Init, Closed
<1>2. DOMAIN sink = {} /\ ~ InHand /\ pc = "down" /\ ~ draining
  BY Nothing DEF Init, InHand
<1>3. \A r : AllCopies(r) = {}
  BY <1>2 DEF AllCopies
<1>4. Failures \in Nat /\ Cardinality({}) = 0
  BY <1>1, AllowanceFacts, FS_EmptySet DEF BaseInv
<1>5. LocalCopies
  BY <1>3, <1>4 DEF LocalCopies
<1>6. DistCopies
  BY <1>2 DEF DistCopies, Once, Unseen
<1> QED  BY <1>1, <1>5, <1>6 DEF CopyInv

(* Every step of either runner keeps the bound.                            *)
LEMMA CopyStep ==
    ASSUME ~ FaultsBeforeRestorePoint, \A v, w \in Workers : v = w
    PROVE  CopyInv /\ [Next]_vars => CopyInv'
<1> SUFFICES ASSUME CopyInv, [Next]_vars PROVE CopyInv'
  OBVIOUS
<1>0. runner' = runner /\ (InOrder' <=> InOrder)
  BY OrderKept
<1>1. CASE UNCHANGED vars
  <2>1. BaseInv'
    BY <1>1, BaseStutter DEF CopyInv
  <2>2. UNCHANGED <<arrived, seen, sink, pc, id, draining, pending, completed, pass, staged, runner, writer, workers,
                    crashes, faults>>
    BY <1>1 DEF vars, durable, source, epoch, config, bounds
  <2>3. LocalCopies => LocalCopies'
    BY <2>2 DEF LocalCopies, AllCopies, Failures, Unread, Live
  <2>4. Target' = Target /\ Width(Target)' = Width(Target) /\ Window' = Window /\ (InHand' <=> InHand)
    BY <2>2 DEF Target, InHand, Window, Width
  <2>5. DistCopies => DistCopies'
    BY <2>2, <2>4 DEF DistCopies, Once, Unseen
  <2> QED  BY <1>0, <2>1, <2>2, <2>3, <2>5 DEF CopyInv, Closed
<1>2. CASE Next
  <2>1. CASE runner = "local"
    <3>1. LocalOnce'
      BY <1>2, <2>1, OnceStep DEF CopyInv, LocalOnce
    <3> QED  BY <3>1 DEF LocalOnce, CopyInv
  <2>2. CASE runner # "local"
    <3>1. ASSUME InOrder PROVE DistOnce'
      BY <1>2, <2>2, <3>1, DistStep DEF CopyInv, DistOnce
    <3>2. BaseInv' /\ runner' # "local"
      <4>1. BaseInv'
        BY <1>2, BaseStep DEF CopyInv
      <4> QED  BY <1>0, <2>2, <4>1
    <3> QED  BY <1>0, <3>1, <3>2 DEF DistOnce, CopyInv
  <2> QED  BY <2>1, <2>2
<1> QED  BY <1>1, <1>2

(* The committed writes that hold a row are among all that do.             *)
LEMMA CopyImplies == CopyInv => CopiesBounded
<1> SUFFICES ASSUME CopyInv, InOrder \/ runner = "local", NEW r \in Rows
             PROVE  Cardinality(Copies(r)) <= 1 + IF runner = "local" THEN crashes + faults ELSE 0
  BY DEF CopiesBounded
<1>0. TypeOK /\ Ids /\ crashes + faults \in Nat
  BY DEF CopyInv, BaseInv, Ids
<1>1. Copies(r) \in SUBSET AllCopies(r) /\ IsFiniteSet(AllCopies(r)) /\ Cardinality(AllCopies(r)) \in Nat
  BY <1>0, CopiesFinite DEF Copies, AllCopies
<1>2. Cardinality(Copies(r)) <= Cardinality(AllCopies(r)) /\ Cardinality(Copies(r)) \in Nat
  BY <1>1, FS_Subset, FS_CardinalityType
<1>3. CASE runner = "local"
  BY <1>0, <1>1, <1>2, <1>3 DEF CopyInv, LocalCopies, Failures
<1>4. CASE runner # "local"
  <2>1. CASE r[1] \in seen
    <3>1. Once(r)
      BY <1>4, <2>1 DEF CopyInv, DistCopies
    <3>2. CASE Copies(r) = {}
      BY <1>4, <3>2, FS_EmptySet
    <3>3. CASE Copies(r) # {}
      <4>1. PICK k \in Copies(r) : TRUE
        BY <3>3
      <4>2. Copies(r) = {k}
        BY <3>1, <4>1 DEF Copies, Once
      <4> QED  BY <1>4, <4>2, FS_Singleton
    <3> QED  BY <3>2, <3>3
  <2>2. CASE r[1] \notin seen
    <3>1. \A k \in DOMAIN sink : r \in sink[k] => k[1] = id
      BY <1>4, <2>2 DEF CopyInv, DistCopies
    <3>2. \A c \in commits : c \in Int /\ ~ (id <= c) /\ id \in Nat
      BY <1>0 DEF Ids, TypeOK
    <3>3. Copies(r) = {}
      BY <3>1, <3>2 DEF Copies
    <3> QED  BY <1>4, <3>3, FS_EmptySet
  <2> QED  BY <2>1, <2>2
<1> QED  BY <1>3, <1>4

(* discover(), confirm() and the sinks' handling of an id they have: for   *)
(* any number of files, batches and failures, the distributed runner's     *)
(* committed output holds a row once when names sort as files arrive, and  *)
(* the local runner's at most once more for each failure, in whatever      *)
(* order they do.  A pass listed again is at least the one that was lost,  *)
(* dealt to as many shards, because names arrive in order and the worker   *)
(* count is the same; otherwise shard files of the lost pass would remain  *)
(* beside those of the new one.                                            *)
THEOREM CopiesBoundedHolds ==
    ASSUME ~ FaultsBeforeRestorePoint, \A v, w \in Workers : v = w
    PROVE  Spec => []CopiesBounded
<1>1. CopyInv /\ [Next]_vars => CopyInv'
  BY CopyStep
<1> QED  BY <1>1, CopyInit, CopyImplies, PTL DEF Spec
=============================================================================
