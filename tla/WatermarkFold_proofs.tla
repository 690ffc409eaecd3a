------------------------ MODULE WatermarkFold_proofs ------------------------
(***************************************************************************)
(* What the watermark promises, for every set of partitions and reads,     *)
(* every window shape, lateness and changelog interval, and every number   *)
(* of epochs, expiries and crashes: it is not taken back behind a snapshot,*)
(* it rules no row late that its own partition had not passed, the fold    *)
(* holds no window it has closed, and every row it counted is in the       *)
(* checkpoint or was written once.                                         *)
(***************************************************************************)
EXTENDS WatermarkFold, TLAPS, FiniteSetTheorems, NaturalsInduction, WellFoundedInduction

-----------------------------------------------------------------------------
(* The inductive invariants.                                               *)

Rows   == [p : Partitions, t : Times]
Highs  == UNION {[D -> Times] : D \in SUBSET Partitions}
Fronts == {w \in Nat : w = 0 \/ w > Width}
Pairs  == Nat \X [e : Nat, row : Rows]
Parts  == [rows : SUBSET Pairs, maxima : Highs, wm : Fronts, bound : Nat]

InEpoch == {"filter", "fold", "sink", "commit"}
Folded  == {"sink", "commit"}

(* The variables' shapes, and how far the log is ahead of the commits.     *)
Shapes ==
    /\ interval \in Intervals /\ committed \in 0..MaxEpochs
    /\ log \in Seq(Batches) /\ Len(log) \in {committed, epoch} /\ Len(log) <= MaxEpochs
    /\ pc \in {"next", "down"} \cup InEpoch
    /\ pc \in InEpoch => Len(log) = epoch
    /\ chain \in Seq(Parts) /\ Len(chain) <= interval + 1
    /\ DOMAIN sink \subseteq 1..epoch
    /\ maxima \in Highs /\ wm \in Fronts /\ seen \in Fronts
    /\ idle \subseteq Partitions /\ idle \subseteq released
    /\ open \subseteq Pairs /\ through \in Nat /\ bound \in Nat
    /\ kept \subseteq Rows /\ delta \subseteq Pairs
    /\ dropped \in [1..MaxEpochs -> SUBSET Rows]
    /\ \A e \in 1..MaxEpochs : e > Len(log) => dropped[e] = {}
    /\ crashes \in Nat /\ (pc = "down" => crashes > 0)

(* The epochs the tracker has observed.                                    *)
Observations == IF pc \in Folded THEN epoch ELSE committed

(* A maximum is the time of a row some observed epoch was logged with ...  *)
Witnessed(l, highs, n) ==
    \A p \in DOMAIN highs : \E d \in 1..n : \E x \in l[d] : x.p = p /\ x.t = highs[p]

(* ... and every declared partition that never went idle is past the       *)
(* frontier by the lateness.                                               *)
Justified(l, gone, frontier, n) ==
    frontier > 0 => \A p \in Declared \ gone :
        \E d \in 1..n : \E x \in l[d] : x.p = p /\ x.t - Lateness >= frontier

Backed(highs, frontier, n) ==
    Witnessed(log, highs, n) /\ Justified(log, released, frontier, n)

TrackerInv ==
    /\ Backed(maxima, wm, Observations)
    /\ \A i \in DOMAIN chain : Backed(chain[i].maxima, chain[i].wm, committed)

FrontierInv == Shapes /\ TrackerInv /\ NoOverclaim /\ FrontierKept

(* Window starts past the bound, and the boundary index of the bound.      *)
Starts(pairs, b) == \A x \in pairs : x[1] > b /\ x[1] > 0 /\ x[1] % Hop = 0

Behind(b, frontier) == b = 0 \/ b <= frontier - Width

(* A frontier that fresh partitions do not move.                           *)
Ripe(highs, frontier) == Refreshed(highs, {}, frontier) = frontier

PartSwept(part) ==
    /\ Starts(part.rows, part.bound) /\ Behind(part.bound, part.wm) /\ Ripe(part.maxima, part.wm)
    /\ \A x \in part.rows : x[1] > part.wm - Width

SweptInv ==
    /\ through = Bucket(bound)
    /\ Settled =>
          /\ Starts(open, bound) /\ Behind(bound, wm)
          /\ pc = "down" => open = {}
          /\ pc = "fold" => \A r \in kept : r.t >= wm
          /\ pc \in {"next"} \cup Folded => \A x \in open : x[1] > seen - Width
          /\ pc \in Folded => seen = wm /\ Ripe(maxima, wm)
          /\ interval = 0 => \A i \in DOMAIN chain : PartSwept(chain[i])

FoldInv == FrontierInv /\ SweptInv

(* What the rows of epoch n contribute.                                    *)
Contrib(n, rows) == UNION {WindowsOf(r) \X {[e |-> n, row |-> r]} : r \in rows}

(* What has been emitted by committed epochs.                              *)
Emitted == UNION {sink[e] : e \in DOMAIN sink \cap 1..committed}

(* An epoch that is run from the snapshot with no partition idle: the      *)
(* frontier its filter reads, the rows that pass, and what it emits.       *)
Ckpt == IF chain = <<>> THEN [rows |-> {}, maxima |-> Empty, wm |-> None, bound |-> None] ELSE chain[1]
RunFront == Refreshed(Ckpt.maxima, {}, Ckpt.wm)
RunKept  == {r \in log[epoch] : OnTime(r, RunFront)}
RunPairs == RestoredOpen \cup Contrib(epoch, RunKept)
RunEnd   == Refreshed(Observed(Ckpt.maxima, log[epoch]), {}, RunFront)
RunOut ==
    IF RunPairs # {} /\ RunEnd # None /\ Bucket(RunEnd - Width) # Bucket(RestoredBound)
    THEN Closed(RunPairs, RunEnd - Width) ELSE {}

(* Every contribution is in the checkpoint or was emitted.                 *)
Ledger ==
    /\ RestoredOpen \cup Emitted = Contributions(committed)
    /\ RestoredOpen \cap Emitted = {}

(* Up to the fold of an epoch, the process holds what would be restored.   *)
AsRestored ==
    /\ pc \in {"next", "filter", "fold"} => open = RestoredOpen /\ bound = RestoredBound
    /\ pc = "down" => maxima = Empty /\ wm = None /\ idle = {} /\ bound = None /\ open = {}
    /\ interval = 0 /\ pc \in {"next", "filter"} => maxima = Ckpt.maxima /\ wm = Ckpt.wm
    /\ interval = 0 /\ pc = "fold" =>
          maxima = Ckpt.maxima /\ (~ timed => wm = RunFront /\ kept = RunKept)
    /\ pc = "fold" => kept = admitted[epoch]

(* From then on it holds that and the epoch's rows, split by the bound.    *)
Split ==
    pc \in Folded =>
        /\ delta = Contrib(epoch, admitted[epoch])
        /\ out = {x \in RestoredOpen \cup delta : x[1] <= bound}
        /\ open = {x \in RestoredOpen \cup delta : x[1] > bound}
        /\ \A x \in RestoredOpen \cup delta : x[1] > RestoredBound
        /\ bound >= RestoredBound
        /\ interval = 0 /\ ~ timed => out = RunOut

(* A committed write is of windows the checkpoint has closed, and no       *)
(* window is in two writes.                                                *)
Final ==
    /\ \A e \in DOMAIN sink : /\ (\A x \in sink[e] : x[1] \in Nat)
                              /\ e <= committed => \A x \in sink[e] : x[1] <= RestoredBound
    /\ \A d, e \in DOMAIN sink : \A x \in sink[d], y \in sink[e] : x[1] = y[1] => d = e

(* What a replay finds in the sink is its own output.                      *)
Own ==
    /\ epoch \in DOMAIN sink =>
          /\ Len(log) = epoch
          /\ pc \in Folded => sink[epoch] = out
          /\ pc \notin Folded => interval = 0 /\ idle = {} /\ sink[epoch] = RunOut
          /\ pc \in {"filter", "fold"} => ~ timed
    /\ pc = "commit" /\ epoch \notin DOMAIN sink => out = {}

Written == Final /\ Own

AccountInv ==
    /\ FoldInv /\ admitted \in [1..MaxEpochs -> SUBSET Rows]
    /\ Settled => Ledger /\ AsRestored /\ Split /\ Written

-----------------------------------------------------------------------------
(* Largest and smallest elements.                                          *)

(* A set of naturals with an element has a smallest one, and Min is it.    *)
LEMMA MinOfNat ==
    ASSUME NEW S, S \subseteq Nat, S # {}
    PROVE  Min(S) \in S /\ \A y \in S : Min(S) <= y
<1>1. PICK x \in S : \A y \in S : ~ (<<y, x>> \in OpToRel(<, Nat))
  BY NatLessThanWellFounded, WFMin
<1>2. \A y \in S : ~ (y < x)
  BY <1>1 DEF OpToRel
<1>3. \A y \in S : x <= y
  BY <1>2
<1> QED  BY <1>3 DEF Min

(* A finite set of naturals with an element has a largest one: otherwise   *)
(* take a subset without one of the least size, and remove an element.     *)
LEMMA MaxOfFinite ==
    ASSUME NEW S, S \subseteq Nat, S # {}, IsFiniteSet(S)
    PROVE  Max(S) \in S /\ \A y \in S : Max(S) >= y
<1> DEFINE Topped(T) == \E x \in T : \A y \in T : x >= y
           Bad == {n \in Nat : \E T \in SUBSET S : T # {} /\ Cardinality(T) = n /\ ~ Topped(T)}
<1>1. Bad = {}
  <2> SUFFICES ASSUME Bad # {} PROVE FALSE
    OBVIOUS
  <2>1. Bad \subseteq Nat
    OBVIOUS
  <2>2. Min(Bad) \in Bad /\ \A y \in Bad : Min(Bad) <= y
    <3> HIDE DEF Bad
    <3> QED  BY <2>1, MinOfNat
  <2>3. PICK T \in SUBSET S : T # {} /\ Cardinality(T) = Min(Bad) /\ ~ Topped(T)
    BY <2>2
  <2>4. PICK x \in T : TRUE
    BY <2>3
  <2>5. IsFiniteSet(T) /\ Cardinality(T) \in Nat
    BY FS_Subset, FS_CardinalityType
  <2>6. IsFiniteSet(T \ {x}) /\ Cardinality(T \ {x}) = Cardinality(T) - 1
    BY <2>4, <2>5, FS_RemoveElement
  <2>7. Cardinality(T \ {x}) \in Nat
    BY <2>6, FS_CardinalityType
  <2>8. T \ {x} = {} \/ Topped(T \ {x})
    <3>1. Cardinality(T \ {x}) \notin Bad
      <4> HIDE DEF Bad
      <4> QED  BY <2>2, <2>3, <2>5, <2>6
    <3> QED  BY <2>7, <3>1
  <2>9. Topped(T)
    <3>1. CASE T \ {x} = {}
      <4>1. \A y \in T : y = x
        BY <3>1
      <4> QED  BY <2>4, <4>1
    <3>2. CASE Topped(T \ {x})
      <4>1. PICK m \in T \ {x} : \A y \in T \ {x} : m >= y
        BY <3>2
      <4>2. m \in Nat /\ x \in Nat /\ \A y \in T : y \in Nat
        BY <2>4
      <4>3. CASE m >= x
        BY <4>1, <4>2, <4>3
      <4>4. CASE ~ (m >= x)
        BY <2>4, <4>1, <4>2, <4>4
      <4> QED  BY <4>3, <4>4
    <3> QED  BY <2>8, <3>1, <3>2
  <2> QED  BY <2>3, <2>9
<1>2. Topped(S)
  <2>1. Cardinality(S) \in Nat
    BY FS_CardinalityType
  <2> QED  BY <1>1, <2>1
<1> HIDE DEF Bad
<1> QED  BY <1>2 DEF Max

(* The larger of two numbers.                                              *)
LEMMA MaxOfTwo ==
    ASSUME NEW a \in Int, NEW b \in Int
    PROVE  Max({a, b}) = IF a >= b THEN a ELSE b
<1> DEFINE m == IF a >= b THEN a ELSE b
<1>1. m \in {a, b} /\ m \in Int /\ \A y \in {a, b} : m >= y
  OBVIOUS
<1>2. \A x \in {a, b} : (\A y \in {a, b} : x >= y) => x = m
  OBVIOUS
<1> HIDE DEF m
<1>3. Max({a, b}) \in {a, b} /\ \A y \in {a, b} : Max({a, b}) >= y
  BY <1>1 DEF Max
<1>4. Max({a, b}) = m
  BY <1>2, <1>3
<1> QED  BY <1>4 DEF m

-----------------------------------------------------------------------------
(* The tracker's operators.                                                *)

(* Times are naturals past the lateness and the width.                     *)
LEMMA TimesFacts ==
    /\ Times \subseteq Nat /\ \A t \in Times : t > Lateness + Width
    /\ \A b \in Batches : \A r \in b : r \in Rows /\ r.t \in Times /\ r.p \in Partitions
<1>1. \A b \in Batches : \A r \in b : r \in Rows /\ r.t \in Times /\ r.p \in Partitions
  BY FoldAssumption DEF Rows, Times
<1>2. Times \subseteq Nat
  BY FoldAssumption DEF Times
<1> QED  BY <1>1, <1>2, FoldAssumption

(* What a map of maxima is.                                                *)
LEMMA HighsFacts ==
    ASSUME NEW h
    PROVE  h \in Highs <=> DOMAIN h \subseteq Partitions /\ h \in [DOMAIN h -> Times]
BY DEF Highs

(* A refresh never lowers the frontier; when it raises it, every declared  *)
(* partition has spoken or is idle, and every active one is past it.       *)
LEMMA RefreshedFacts ==
    ASSUME NEW h \in Highs, NEW away, NEW w \in Fronts
    PROVE  LET now == Refreshed(h, away, w)
           IN  /\ now \in Fronts /\ now >= w
               /\ now # w => /\ ~ Silent(h, away)
                             /\ \A p \in DOMAIN h \ away : h[p] - Lateness >= now
<1> DEFINE active == DOMAIN h \ away
           S      == {h[p] : p \in active}
<1>1. w \in Nat /\ (w = 0 \/ w > Width) /\ Width \in Nat /\ Lateness \in Nat
  BY FoldAssumption DEF Fronts
<1>2. \A p \in DOMAIN h : h[p] \in Times /\ h[p] \in Nat /\ h[p] > Lateness + Width
  BY HighsFacts, TimesFacts
<1>3. CASE Silent(h, away) \/ active = {}
  <2>1. Refreshed(h, away, w) = w
    BY <1>3 DEF Refreshed
  <2> QED  BY <1>1, <2>1
<1>4. CASE ~ (Silent(h, away) \/ active = {})
  <2>1. Refreshed(h, away, w) = Max({w, Slowest(active, h) - Lateness})
    BY <1>4 DEF Refreshed
  <2>2. Slowest(active, h) = Min(S)
    BY DEF Slowest
  <2>3. Min(S) \in S /\ \A y \in S : Min(S) <= y
    <3>1. S \subseteq Nat /\ S # {}
      BY <1>2, <1>4
    <3> HIDE DEF S
    <3> QED  BY <3>1, MinOfNat
  <2>4. Slowest(active, h) \in Nat /\ Slowest(active, h) > Lateness + Width
    BY <1>2, <2>2, <2>3
  <2>5. \A p \in active : Slowest(active, h) <= h[p]
    BY <2>2, <2>3
  <2> DEFINE m == Slowest(active, h) - Lateness
  <2>6. m \in Nat /\ m > Width /\ \A p \in active : h[p] - Lateness >= m
    <3>1. \A p \in active : h[p] \in Nat
      BY <1>2
    <3> DEFINE s == Slowest(active, h)
    <3>2. s \in Nat /\ s > Lateness + Width /\ m = s - Lateness /\ \A p \in active : s <= h[p]
      BY <2>4, <2>5
    <3> HIDE DEF s, m, active
    <3>3. m \in Nat /\ m > Width
      BY <1>1, <3>2
    <3>4. \A v \in Nat : s <= v => v - Lateness >= m
      BY <1>1, <3>2
    <3> QED  BY <3>1, <3>2, <3>3, <3>4
  <2>7. Refreshed(h, away, w) = IF w >= m THEN w ELSE m
    <3>1. Max({w, m}) = IF w >= m THEN w ELSE m
      <4>1. w \in Int /\ m \in Int
        BY <1>1, <2>6
      <4> HIDE DEF m
      <4> QED  BY <4>1, MaxOfTwo
    <3> QED  BY <2>1, <3>1
  <2> HIDE DEF m
  <2> QED  BY <1>1, <1>4, <2>6, <2>7 DEF Fronts
<1> QED  BY <1>3, <1>4

(* observe() raises the maxima of the partitions that spoke.               *)
LEMMA ObservedFacts ==
    ASSUME NEW h \in Highs, NEW b \in Batches
    PROVE  LET highs == Observed(h, b)
           IN  /\ highs \in Highs
               /\ DOMAIN highs = DOMAIN h \cup {r.p : r \in b}
               /\ \A p \in DOMAIN highs :
                     \/ p \in DOMAIN h /\ highs[p] = h[p]
                     \/ \E x \in b : x.p = p /\ x.t = highs[p]
<1> DEFINE spoke == {r.p : r \in b}
           high(p) == Max({r.t : r \in {x \in b : x.p = p}})
           O == Observed(h, b)
<1>1. O = [p \in DOMAIN h \cup spoke |->
             IF p \notin spoke THEN h[p]
             ELSE IF p \in DOMAIN h THEN Max({h[p], high(p)}) ELSE high(p)]
  BY DEF Observed
<1>2. \A p \in DOMAIN h : p \in Partitions /\ h[p] \in Times /\ h[p] \in Nat
  BY HighsFacts, TimesFacts
<1>3. \A p \in spoke : p \in Partitions /\ \E x \in b : x.p = p /\ x.t = high(p) /\ x.t \in Times /\ x.t \in Nat
  <2> SUFFICES ASSUME NEW p \in spoke
               PROVE  p \in Partitions /\ \E x \in b : x.p = p /\ x.t = high(p) /\ x.t \in Times /\ x.t \in Nat
    OBVIOUS
  <2> DEFINE T == {r.t : r \in {x \in b : x.p = p}}
  <2>1. T \subseteq Nat /\ T # {}
    BY TimesFacts
  <2>2. IsFiniteSet(T)
    <3>1. IsFiniteSet({x \in b : x.p = p})
      BY FoldAssumption, FS_Subset
    <3>2. T = {r.t : r \in {x \in b : x.p = p}}
      OBVIOUS
    <3> DEFINE B == {x \in b : x.p = p}
               f == [r \in B |-> r.t]
    <3>3. f \in Surjection(B, T)
      BY DEF Surjection
    <3> QED
      <4> HIDE DEF B, f, T
      <4>1. IsFiniteSet(B)
        BY <3>1 DEF B
      <4> QED  BY <3>3, <4>1, FS_Surjection
  <2>3. Max(T) \in T
    <3> HIDE DEF T
    <3> QED  BY <2>1, <2>2, MaxOfFinite
  <2>4. high(p) \in T
    BY <2>3
  <2> QED  BY <2>4, TimesFacts
<1> HIDE DEF high
<1>4. \A p \in DOMAIN h \cap spoke : Max({h[p], high(p)}) = IF h[p] >= high(p) THEN h[p] ELSE high(p)
  BY <1>2, <1>3, MaxOfTwo
<1>5. DOMAIN O = DOMAIN h \cup spoke
  BY <1>1
<1>6. \A p \in DOMAIN O : /\ O[p] \in Times /\ p \in Partitions
                          /\ \/ p \in DOMAIN h /\ O[p] = h[p]
                             \/ \E x \in b : x.p = p /\ x.t = O[p]
  <2> SUFFICES ASSUME NEW p \in DOMAIN h \cup spoke
               PROVE  /\ O[p] \in Times /\ p \in Partitions
                      /\ \/ p \in DOMAIN h /\ O[p] = h[p]
                         \/ \E x \in b : x.p = p /\ x.t = O[p]
    BY <1>5
  <2>1. O[p] = IF p \notin spoke THEN h[p]
               ELSE IF p \in DOMAIN h THEN Max({h[p], high(p)}) ELSE high(p)
    BY <1>1
  <2> HIDE DEF O, spoke
  <2>2. CASE p \notin spoke
    BY <1>2, <2>1, <2>2
  <2>3. CASE p \in spoke
    <3>1. (O[p] = h[p] /\ p \in DOMAIN h) \/ O[p] = high(p)
      BY <1>4, <2>1, <2>3
    <3> QED  BY <1>2, <1>3, <2>3, <3>1
  <2> QED  BY <2>2, <2>3
<1>7. O \in [DOMAIN O -> Times]
  BY <1>1, <1>5, <1>6
<1> HIDE DEF O
<1>8. O \in Highs
  BY <1>6, <1>7, HighsFacts
<1> QED  BY <1>5, <1>6, <1>8 DEF O

(* A log that agrees so far witnesses the same ...                         *)
LEMMA BackingKept ==
    ASSUME NEW k, NEW l, NEW n, NEW h, NEW w, NEW gone, \A d \in 1..n : l[d] = k[d]
    PROVE  /\ Witnessed(k, h, n) => Witnessed(l, h, n)
           /\ Justified(k, gone, w, n) => Justified(l, gone, w, n)
BY DEF Witnessed, Justified

(* ... and more epochs, and fewer partitions, never ask for more.          *)
LEMMA BackingGrows ==
    ASSUME NEW k, NEW l, NEW h, NEW w, NEW gone, NEW away, NEW n \in Nat, NEW m \in Nat,
           n <= m, \A d \in 1..n : l[d] = k[d], gone \subseteq away
    PROVE  /\ Witnessed(k, h, n) => Witnessed(l, h, m)
           /\ Justified(k, gone, w, n) => Justified(l, away, w, m)
<1>1. \A d \in 1..n : d \in 1..m
  OBVIOUS
<1>2. Witnessed(k, h, n) => Witnessed(l, h, m)
  BY <1>1 DEF Witnessed
<1>3. Justified(k, gone, w, n) => Justified(l, away, w, m)
  BY <1>1 DEF Justified
<1> QED  BY <1>2, <1>3

(* A refresh claims no more than the maxima it takes the minimum of.       *)
LEMMA RefreshJustified ==
    ASSUME NEW l, NEW h \in Highs, NEW gone, NEW away, away \subseteq gone, NEW w \in Fronts, NEW n,
           Witnessed(l, h, n), Justified(l, gone, w, n)
    PROVE  Justified(l, gone, Refreshed(h, away, w), n)
<1> DEFINE now == Refreshed(h, away, w)
<1>1. /\ now \in Fronts /\ now >= w
      /\ now # w => /\ ~ Silent(h, away)
                    /\ \A p \in DOMAIN h \ away : h[p] - Lateness >= now
  BY RefreshedFacts
<1> HIDE DEF now
<1>2. CASE now = w
  BY <1>2 DEF now
<1>3. CASE now # w
  <2> SUFFICES ASSUME NEW p \in Declared \ gone
               PROVE  \E d \in 1..n : \E x \in l[d] : x.p = p /\ x.t - Lateness >= now
    BY DEF Justified, now
  <2>1. p \in DOMAIN h \ away
    BY <1>1, <1>3 DEF Silent
  <2>2. h[p] - Lateness >= now
    BY <1>1, <1>3, <2>1
  <2>3. PICK d \in 1..n : \E x \in l[d] : x.p = p /\ x.t = h[p]
    BY <2>1 DEF Witnessed
  <2> QED  BY <2>2, <2>3
<1> QED  BY <1>2, <1>3

(* The maxima after an epoch's rows are witnessed by its log.              *)
LEMMA ObserveWitnessed ==
    ASSUME NEW l, NEW h \in Highs, NEW n \in Nat, l[n + 1] \in Batches, Witnessed(l, h, n)
    PROVE  Witnessed(l, Observed(h, l[n + 1]), n + 1)
<1> DEFINE O == Observed(h, l[n + 1])
<1>1. \A p \in DOMAIN O : \/ p \in DOMAIN h /\ O[p] = h[p]
                          \/ \E x \in l[n + 1] : x.p = p /\ x.t = O[p]
  BY ObservedFacts
<1> HIDE DEF O
<1>2. \A d \in 1..n : d \in 1..(n + 1)
  OBVIOUS
<1>3. n + 1 \in 1..(n + 1)
  OBVIOUS
<1>4. Witnessed(l, O, n + 1)
  BY <1>1, <1>2, <1>3 DEF Witnessed
<1> QED  BY <1>4 DEF O

(* The index of a boundary, and what lies between two of the same index.   *)
LEMMA BucketFacts ==
    /\ \A a \in Nat : Bucket(a) \in Nat
    /\ \A a, b, s \in Nat : s % Hop = 0 /\ s > a /\ Bucket(a) = Bucket(b) => s > b
<1>1. Hop \in Nat /\ Hop > 0
  BY FoldAssumption
<1>2. \A a \in Nat : Bucket(a) \in Nat /\ Hop * Bucket(a) <= a /\ a < Hop * (Bucket(a) + 1)
  BY <1>1, Z3 DEF Bucket
<1>3. ASSUME NEW a \in Nat, NEW b \in Nat, NEW s \in Nat, s % Hop = 0, s > a, Bucket(a) = Bucket(b), s <= b
      PROVE  FALSE
  <2> DEFINE k == s \div Hop
  <2>1. k \in Nat /\ s = Hop * k
    BY <1>1, <1>3, Z3
  <2> HIDE DEF k
  <2>2. Bucket(a) \in Nat /\ Hop * Bucket(a) <= a /\ b < Hop * (Bucket(a) + 1)
    BY <1>2, <1>3
  <2>3. CASE k <= Bucket(a)
    <3>1. Hop * k <= Hop * Bucket(a)
      BY <1>1, <2>1, <2>2, <2>3, Z3
    <3> QED  BY <1>1, <1>3, <2>1, <2>2, <3>1
  <2>4. CASE k >= Bucket(a) + 1
    <3>1. Hop * k >= Hop * (Bucket(a) + 1)
      BY <1>1, <2>1, <2>2, <2>4, Z3
    <3> QED  BY <1>1, <1>3, <2>1, <2>2, <3>1
  <2> QED  BY <2>1, <2>2, <2>3, <2>4
<1> QED  BY <1>2, <1>3

-----------------------------------------------------------------------------
(* The frontier.                                                           *)

(* A new tracker's map.                                                    *)
LEMMA EmptyIsHigh == Empty \in Highs /\ DOMAIN Empty = {}
BY HighsFacts DEF Empty

(* Nothing has been read, claimed or written.                              *)
LEMMA FrontierInit == Init => FrontierInv
<1> SUFFICES ASSUME Init PROVE FrontierInv
  OBVIOUS
<1>1. 0 \in Fronts /\ MaxEpochs \in Nat
  BY FoldAssumption DEF Fronts
<1>2. log \in Seq(Batches) /\ Len(log) = 0 /\ chain \in Seq(Parts) /\ Len(chain) = 0 /\ DOMAIN chain = {}
  BY DEF Init
<1>3. interval \in Nat
  BY FoldAssumption DEF Init
<1>4. Shapes
  BY <1>1, <1>2, <1>3, EmptyIsHigh DEF Init, Shapes, epoch, None, InEpoch
<1>5. TrackerInv
  BY <1>2, EmptyIsHigh DEF Init, TrackerInv, Backed, Witnessed, Justified, None
<1>6. NoOverclaim
  BY DEF Init, NoOverclaim
<1> QED  BY <1>4, <1>5, <1>6 DEF FrontierInv, FrontierKept, Init

(* Facts the steps share.                                                  *)
LEMMA ShapeFacts ==
    ASSUME Shapes
    PROVE  /\ committed \in Nat /\ epoch \in Nat /\ Len(log) \in Nat /\ interval \in Nat /\ MaxEpochs \in Nat
           /\ DOMAIN log = 1..Len(log) /\ DOMAIN chain = 1..Len(chain) /\ Len(chain) \in Nat
           /\ \A d \in 1..Len(log) : log[d] \in Batches
           /\ \A i \in DOMAIN chain : chain[i] \in Parts
           /\ chain # <<>> => Head(chain) = chain[1] /\ 1 \in DOMAIN chain
           /\ Observations \in Nat /\ Observations <= Len(log)
           /\ pc \in InEpoch => log[epoch] \in Batches /\ epoch \in 1..MaxEpochs
<1>1. /\ committed \in Nat /\ epoch \in Nat /\ interval \in Nat /\ epoch = committed + 1 /\ MaxEpochs \in Nat
  BY FoldAssumption DEF Shapes, epoch
<1>2. /\ Len(log) \in Nat /\ DOMAIN log = 1..Len(log) /\ \A d \in 1..Len(log) : log[d] \in Batches
      /\ Len(chain) \in Nat /\ DOMAIN chain = 1..Len(chain) /\ \A i \in DOMAIN chain : chain[i] \in Parts
      /\ chain # <<>> => Head(chain) = chain[1] /\ 1 \in DOMAIN chain
  BY DEF Shapes
<1>3. /\ Observations \in Nat /\ Observations <= Len(log)
  <2>1. Len(log) \in {committed, epoch} /\ (pc \in InEpoch => Len(log) = epoch)
    BY DEF Shapes
  <2>2. CASE pc \in Folded
    BY <1>1, <2>1, <2>2 DEF Observations, Folded, InEpoch
  <2>3. CASE pc \notin Folded
    <3>1. Observations = committed
      BY <2>3 DEF Observations
    <3> QED  BY <1>1, <2>1, <3>1
  <2> QED  BY <2>2, <2>3
<1>4. pc \in InEpoch => log[epoch] \in Batches /\ epoch \in 1..MaxEpochs
  BY <1>1, <1>2 DEF Shapes
<1> QED  BY <1>1, <1>2, <1>3, <1>4

(* A step that keeps the log, the history and the tracker.                 *)
LEMMA FrontierFrame ==
    ASSUME FrontierInv, Shapes', UNCHANGED <<log, dropped, released, maxima, wm, chain, committed>>,
           Observations' = Observations, pc # "down"
    PROVE  FrontierInv'
<1>1. TrackerInv'
  BY DEF FrontierInv, TrackerInv, Backed
<1>2. NoOverclaim'
  BY DEF FrontierInv, NoOverclaim
<1>3. FrontierKept'
  BY DEF FrontierInv, FrontierKept
<1> QED  BY <1>1, <1>2, <1>3 DEF FrontierInv

(* Replay, Publish and steps that change nothing.                          *)
LEMMA QuietFrontier ==
    ASSUME FrontierInv, Replay \/ Publish
    PROVE  FrontierInv'
<1>0. Shapes
  BY DEF FrontierInv
<1>1. /\ UNCHANGED <<interval, log, committed, chain, maxima, wm, idle, seen, open, through, bound, kept,
                     delta, dropped, released, crashes>>
      /\ \/ pc = "next" /\ Len(log) > committed /\ pc' = "filter" /\ sink' = sink
         \/ pc = "sink" /\ pc' = "commit" /\ DOMAIN sink' \subseteq DOMAIN sink \cup {epoch}
  <2>1. CASE Replay
    BY <2>1 DEF Replay, durable, tracker, fold, history
  <2>2. CASE Publish
    BY <2>2 DEF Publish, tracker, fold, history
  <2> QED  BY <2>1, <2>2
<1>2. epoch' = epoch /\ Observations' = Observations
  BY <1>1 DEF epoch, Observations, Folded
<1>3. Shapes'
  <2>1. pc' \in InEpoch /\ Len(log) = epoch /\ pc' # "down"
    BY <1>0, <1>1, ShapeFacts DEF Shapes, InEpoch, epoch
  <2>2. DOMAIN sink' \subseteq 1..epoch
    BY <1>0, <1>1, ShapeFacts DEF Shapes
  <2> QED  BY <1>0, <1>1, <1>2, <2>1, <2>2 DEF Shapes
<1> QED  BY <1>1, <1>2, <1>3, FrontierFrame

(* A new epoch's rows are logged.                                          *)
LEMMA PlanFrontier ==
    ASSUME FrontierInv, Plan
    PROVE  FrontierInv'
<1>0. Shapes
  BY DEF FrontierInv
<1>1. /\ UNCHANGED <<interval, committed, chain, sink, maxima, wm, idle, seen, open, through, bound, kept,
                     delta, dropped, released, crashes>>
      /\ pc = "next" /\ pc' = "filter" /\ Len(log) = committed /\ committed < MaxEpochs
  BY DEF Plan, tracker, fold, history
<1>2. PICK b \in Batches : log' = Append(log, b)
  BY DEF Plan
<1>3. /\ log' \in Seq(Batches) /\ Len(log') = Len(log) + 1 /\ \A d \in 1..Len(log) : log'[d] = log[d]
      /\ Len(log) \in Nat
  BY <1>0, <1>2 DEF Shapes
<1>4. epoch' = epoch /\ Observations' = Observations /\ Observations \in Nat /\ Observations <= Len(log)
      /\ committed \in Nat /\ committed <= Len(log) /\ DOMAIN chain = 1..Len(chain)
  BY <1>0, <1>1, ShapeFacts DEF epoch, Observations, Folded
<1>5. Shapes'
  <2>1. \A e \in 1..MaxEpochs : e > Len(log') => dropped'[e] = {}
    <3>1. \A e \in 1..MaxEpochs : e > Len(log) + 1 => e > Len(log)
      BY <1>0, <1>3, ShapeFacts
    <3> QED  BY <1>0, <1>1, <1>3, <3>1 DEF Shapes
  <2>2. Len(log') = epoch /\ Len(log') <= MaxEpochs
    BY <1>0, <1>1, <1>3, ShapeFacts DEF epoch
  <2> QED  BY <1>0, <1>1, <1>3, <1>4, <2>1, <2>2 DEF Shapes, InEpoch
<1>6. TrackerInv'
  <2>1. Backed(maxima, wm, Observations)'
    <3>1. Witnessed(log, maxima, Observations) /\ Justified(log, released, wm, Observations)
      BY DEF FrontierInv, TrackerInv, Backed
    <3>2. \A d \in 1..Observations : log'[d] = log[d]
      BY <1>3, <1>4
    <3>3. Witnessed(log', maxima, Observations) /\ Justified(log', released, wm, Observations)
      BY <3>1, <3>2, BackingKept
    <3> QED  BY <1>1, <1>4, <3>3 DEF Backed
  <2>2. ASSUME NEW i \in DOMAIN chain PROVE Backed(chain[i].maxima, chain[i].wm, committed)'
    <3>1. Witnessed(log, chain[i].maxima, committed) /\ Justified(log, released, chain[i].wm, committed)
      BY <2>2 DEF FrontierInv, TrackerInv, Backed
    <3>2. \A d \in 1..committed : log'[d] = log[d]
      BY <1>1, <1>3
    <3>3. Witnessed(log', chain[i].maxima, committed) /\ Justified(log', released, chain[i].wm, committed)
      BY <3>1, <3>2, BackingKept
    <3> QED  BY <1>1, <3>3 DEF Backed
  <2> QED  BY <1>1, <2>1, <2>2 DEF TrackerInv
<1>7. NoOverclaim'
  <2> SUFFICES ASSUME NEW e \in 1..MaxEpochs, NEW r \in dropped[e], r.p \in Declared \ released
               PROVE  \E d \in 1..e-1 : \E x \in log'[d] : x.p = r.p /\ x.t - Lateness > r.t
    BY <1>1 DEF NoOverclaim
  <2>1. e <= Len(log)
    BY <1>0, <1>3 DEF Shapes
  <2>2. \A d \in 1..e-1 : d \in 1..Len(log)
    BY <1>3, <2>1
  <2> QED  BY <1>3, <2>2 DEF FrontierInv, NoOverclaim
<1>8. FrontierKept'
  BY <1>1 DEF FrontierInv, FrontierKept
<1> QED  BY <1>5, <1>6, <1>7, <1>8 DEF FrontierInv

(* The rows below the refreshed frontier are ruled late: each is behind    *)
(* its own partition.                                                      *)
LEMMA FilterFrontier ==
    ASSUME FrontierInv, Filter
    PROVE  FrontierInv'
<1>0. Shapes /\ pc = "filter" /\ pc' = "fold"
  BY DEF FrontierInv, Filter
<1> DEFINE now == Refreshed(maxima, idle, wm)
           ok  == {r \in log[epoch] : OnTime(r, now)}
<1>1. /\ UNCHANGED <<interval, log, committed, chain, sink, maxima, idle, open, through, bound, delta,
                     released, crashes>>
      /\ wm' = now /\ seen' = now /\ kept' = ok
      /\ dropped' = [dropped EXCEPT ![epoch] = log[epoch] \ ok]
  BY DEF Filter, durable
<1>2. now \in Fronts /\ now >= wm /\ now \in Nat /\ wm \in Nat
  BY <1>0, RefreshedFacts DEF Shapes, Fronts
<1>3. epoch' = epoch /\ Observations = committed /\ Observations' = committed
  BY <1>0, <1>1 DEF epoch, Observations, Folded
<1>4. /\ log[epoch] \in Batches /\ epoch \in 1..MaxEpochs /\ log[epoch] \subseteq Rows
      /\ committed \in Nat /\ epoch = committed + 1 /\ Len(log) = epoch
  BY <1>0, ShapeFacts, TimesFacts DEF InEpoch, epoch, Shapes
<1>5. Backed(maxima, now, committed)
  <2>1. Witnessed(log, maxima, committed) /\ Justified(log, released, wm, committed)
    BY <1>3 DEF FrontierInv, TrackerInv, Backed
  <2>2. Justified(log, released, now, committed)
    BY <1>0, <2>1, RefreshJustified DEF Shapes
  <2> QED  BY <2>1, <2>2 DEF Backed
<1> HIDE DEF now
<1>6. Shapes'
  <2>1. /\ dropped' \in [1..MaxEpochs -> SUBSET Rows]
        /\ \A e \in 1..MaxEpochs : e > Len(log) => dropped'[e] = {}
    BY <1>0, <1>1, <1>4 DEF Shapes
  <2>2. kept' \subseteq Rows
    BY <1>1, <1>4
  <2> QED  BY <1>0, <1>1, <1>2, <1>3, <2>1, <2>2 DEF Shapes, InEpoch
<1>7. TrackerInv'
  <2>1. Backed(maxima, wm, Observations)'
    BY <1>1, <1>3, <1>5 DEF Backed
  <2> QED  BY <1>1, <2>1 DEF FrontierInv, TrackerInv, Backed
<1>8. NoOverclaim'
  <2> SUFFICES ASSUME NEW e \in 1..MaxEpochs, NEW r \in dropped'[e], r.p \in Declared \ released
               PROVE  \E d \in 1..e-1 : \E x \in log[d] : x.p = r.p /\ x.t - Lateness > r.t
    BY <1>1 DEF NoOverclaim
  <2>1. CASE e # epoch
    BY <1>0, <1>1, <2>1 DEF FrontierInv, NoOverclaim, Shapes
  <2>2. CASE e = epoch
    <3>1. r \in log[epoch] /\ ~ OnTime(r, now)
      BY <1>0, <1>1, <1>4, <2>2 DEF Shapes
    <3>a. r.t \in Nat
      BY <1>4, <3>1, TimesFacts
    <3>2. r.t \in Nat /\ r.t < now
      BY <1>2, <3>1, <3>a DEF OnTime
    <3>3. PICK d \in 1..committed : \E x \in log[d] : x.p = r.p /\ x.t - Lateness >= now
      BY <1>2, <1>5, <3>2 DEF Backed, Justified
    <3>4. PICK x \in log[d] : x.p = r.p /\ x.t - Lateness >= now
      BY <3>3
    <3>5. x.t \in Nat /\ Lateness \in Nat
      BY <1>0, <1>4, ShapeFacts, TimesFacts, FoldAssumption
    <3>6. d \in 1..e-1 /\ x.t - Lateness > r.t
      BY <1>2, <1>4, <2>2, <3>2, <3>4, <3>5
    <3> QED  BY <3>4, <3>6
  <2> QED  BY <2>1, <2>2
<1>9. FrontierKept'
  <2>1. chain # <<>> => Head(chain).wm \in Nat
    BY <1>0, ShapeFacts DEF Parts, Fronts
  <2> QED  BY <1>0, <1>1, <1>2, <2>1 DEF FrontierInv, FrontierKept
<1> QED  BY <1>6, <1>7, <1>8, <1>9 DEF FrontierInv

(* The windows that cover a row start on a boundary, past the row's time   *)
(* less the width, and after time 0.                                       *)
LEMMA WindowsFacts ==
    ASSUME NEW r \in Rows
    PROVE  \A s \in WindowsOf(r) : s \in Nat /\ s > 0 /\ s % Hop = 0 /\ s > r.t - Width
<1>1. r.t \in Nat /\ r.t > Lateness + Width /\ Lateness \in Nat /\ Width \in Nat
  BY TimesFacts, FoldAssumption DEF Rows
<1>2. \A s \in (r.t - Width + 1)..r.t : s \in Nat /\ s > 0 /\ s > r.t - Width
  BY <1>1
<1> QED  BY <1>2 DEF WindowsOf

(* The contributions of a set of rows in epoch e.                          *)
LEMMA FreshFacts ==
    ASSUME NEW rows \in SUBSET Rows, NEW e \in Nat
    PROVE  LET fresh == UNION {WindowsOf(r) \X {[e |-> e, row |-> r]} : r \in rows}
           IN  /\ fresh \subseteq Pairs
               /\ \A x \in fresh : \E r \in rows : x[1] \in WindowsOf(r)
<1> DEFINE fresh == UNION {WindowsOf(r) \X {[e |-> e, row |-> r]} : r \in rows}
<1>1. ASSUME NEW x \in fresh PROVE x \in Pairs /\ \E r \in rows : x[1] \in WindowsOf(r)
  <2>1. PICK r \in rows : x \in WindowsOf(r) \X {[e |-> e, row |-> r]}
    BY <1>1
  <2>2. x[1] \in WindowsOf(r) /\ x = <<x[1], x[2]>> /\ x[2] = [e |-> e, row |-> r]
    BY <2>1
  <2>3. x[1] \in Nat
    BY <2>2, WindowsFacts
  <2>4. x[2] \in [e : Nat, row : Rows]
    BY <2>2
  <2> QED  BY <2>2, <2>3, <2>4 DEF Pairs
<1> QED  BY <1>1

(* An epoch's rows are observed, and the frontier refreshed over them.     *)
LEMMA FoldFrontier ==
    ASSUME FrontierInv, Fold
    PROVE  FrontierInv'
<1>0. Shapes /\ pc = "fold" /\ pc' = "sink"
  BY DEF FrontierInv, Fold
<1> DEFINE away  == idle \ {r.p : r \in log[epoch]}
           highs == Observed(maxima, log[epoch])
           now   == Refreshed(highs, away, wm)
           fresh == UNION {WindowsOf(r) \X {[e |-> epoch, row |-> r]} : r \in kept}
           pairs == open \cup fresh
           sweep == SweepDue(pairs, now)
<1>1. /\ UNCHANGED <<interval, log, committed, chain, sink, kept, dropped, released, crashes>>
      /\ maxima' = highs /\ idle' = away /\ wm' = now /\ seen' = now
      /\ delta' = fresh /\ open' \subseteq pairs
      /\ through' = IF sweep THEN Bucket(now - Width) ELSE through
      /\ bound' = IF sweep THEN now - Width ELSE bound
  BY DEF Fold, durable, history
<1>2. /\ log[epoch] \in Batches /\ epoch \in 1..MaxEpochs /\ epoch \in Nat
      /\ committed \in Nat /\ epoch = committed + 1 /\ Len(log) = epoch
  BY <1>0, ShapeFacts DEF InEpoch, epoch, Shapes
<1>3. highs \in Highs
  BY <1>0, <1>2, ObservedFacts DEF Shapes
<1>4. now \in Fronts /\ now >= wm
  <2> HIDE DEF highs, away
  <2> QED  BY <1>0, <1>3, RefreshedFacts DEF Shapes
<1>5. epoch' = epoch /\ Observations = committed /\ Observations' = epoch
  BY <1>0, <1>1 DEF epoch, Observations, Folded
<1>6. fresh \subseteq Pairs
  <2>1. kept \in SUBSET Rows
    BY <1>0 DEF Shapes
  <2> QED  BY <1>2, <2>1, FreshFacts
<1>7. Backed(highs, now, epoch)
  <2>1. Witnessed(log, maxima, committed) /\ Justified(log, released, wm, committed)
    BY <1>5 DEF FrontierInv, TrackerInv, Backed
  <2>2. Witnessed(log, highs, epoch)
    BY <1>0, <1>2, <2>1, ObserveWitnessed DEF Shapes
  <2>3. Justified(log, released, wm, epoch)
    <3>1. \A d \in 1..committed : d \in 1..epoch
      BY <1>2
    <3> QED  BY <2>1, <3>1 DEF Justified
  <2>4. away \subseteq released /\ wm \in Fronts
    BY <1>0 DEF Shapes
  <2> HIDE DEF highs, away
  <2>5. Justified(log, released, now, epoch)
    BY <1>3, <2>2, <2>3, <2>4, RefreshJustified
  <2> QED  BY <2>2, <2>5 DEF Backed
<1> HIDE DEF highs, now, fresh
<1>8. Shapes'
  <2>1. through' \in Nat /\ bound' \in Nat
    <3>1. CASE sweep
      <4>1. now > Width /\ now \in Nat /\ Width \in Nat
        BY <1>4, <3>1, FoldAssumption DEF SweepDue, Fronts, None
      <4>2. now - Width \in Nat
        BY <4>1
      <4> QED  BY <1>1, <3>1, <4>2, BucketFacts
    <3>2. CASE ~ sweep
      BY <1>0, <1>1, <3>2 DEF Shapes
    <3> QED  BY <3>1, <3>2
  <2>2. idle' \subseteq Partitions /\ idle' \subseteq released
    BY <1>0, <1>1 DEF Shapes
  <2>3. open' \subseteq Pairs /\ delta' \subseteq Pairs
    BY <1>0, <1>1, <1>6 DEF Shapes
  <2> HIDE DEF away, pairs, sweep
  <2> QED  BY <1>0, <1>1, <1>3, <1>4, <1>5, <2>1, <2>2, <2>3 DEF Shapes, InEpoch
<1>9. TrackerInv'
  <2>1. Backed(maxima, wm, Observations)'
    BY <1>1, <1>5, <1>7 DEF Backed
  <2> QED  BY <1>1, <2>1 DEF FrontierInv, TrackerInv, Backed
<1>10. NoOverclaim'
  BY <1>1 DEF FrontierInv, NoOverclaim
<1>11. FrontierKept'
  <2>1. chain # <<>> => Head(chain).wm \in Nat
    BY <1>0, ShapeFacts DEF Parts, Fronts
  <2>2. now \in Nat /\ wm \in Nat
    BY <1>0, <1>4 DEF Shapes, Fronts
  <2> QED  BY <1>0, <1>1, <1>4, <2>1, <2>2 DEF FrontierInv, FrontierKept
<1> QED  BY <1>8, <1>9, <1>10, <1>11 DEF FrontierInv

(* A commit's part records the tracker as it is.                           *)
LEMMA CommitFrontier ==
    ASSUME FrontierInv, Commit
    PROVE  FrontierInv'
<1>0. Shapes /\ pc = "commit" /\ pc' = "next"
  BY DEF FrontierInv, Commit
<1>1. /\ UNCHANGED <<interval, log, sink, maxima, wm, idle, seen, open, through, bound, dropped,
                     released, crashes>>
      /\ committed' = epoch /\ delta' = {} /\ kept' = {}
      /\ \/ Len(chain) <= interval /\ chain' = Append(chain, Part(delta))
         \/ chain' = <<Part(open)>>
  BY DEF Commit, tracker, fold, history, ExtendsChain
<1>2. /\ epoch \in 1..MaxEpochs /\ committed \in Nat /\ epoch = committed + 1 /\ Len(log) = epoch
      /\ interval \in Nat /\ Len(chain) \in Nat /\ chain \in Seq(Parts)
  BY <1>0, ShapeFacts DEF InEpoch, epoch, Shapes
<1>3. epoch' = epoch + 1 /\ Observations = epoch /\ Observations' = epoch
  BY <1>0, <1>1 DEF epoch, Observations, Folded
<1>4. Part(delta) \in Parts /\ Part(open) \in Parts
  BY <1>0 DEF Shapes, Part, Parts
<1>5. /\ chain' \in Seq(Parts) /\ Len(chain') <= interval + 1
      /\ \A i \in DOMAIN chain' : \/ i \in DOMAIN chain /\ chain'[i] = chain[i]
                                  \/ chain'[i].maxima = maxima /\ chain'[i].wm = wm
      /\ Head(chain') = IF chain = <<>> \/ chain' = <<Part(open)>> THEN chain'[1] ELSE Head(chain)
      /\ chain # <<>> => 1 \in DOMAIN chain
      /\ chain = <<>> \/ chain' = <<Part(open)>> => chain'[1].wm = wm
  <2>1. CASE Len(chain) <= interval /\ chain' = Append(chain, Part(delta))
    <3>1. /\ Len(chain') = Len(chain) + 1 /\ chain' \in Seq(Parts)
          /\ DOMAIN chain' = 1..(Len(chain) + 1) /\ DOMAIN chain = 1..Len(chain)
          /\ \A i \in DOMAIN chain : chain'[i] = chain[i]
          /\ chain'[Len(chain) + 1] = Part(delta)
      BY <1>2, <1>4, <2>1
    <3>2. Part(delta).maxima = maxima /\ Part(delta).wm = wm
      BY DEF Part
    <3>3. \A i \in DOMAIN chain' : i \in DOMAIN chain \/ i = Len(chain) + 1
      BY <1>2, <3>1
    <3>4. Head(chain') = chain'[1] /\ (chain # <<>> => Head(chain) = chain[1] /\ 1 \in DOMAIN chain)
      BY <1>2, <3>1
    <3>5. chain = <<>> => chain'[1] = Part(delta)
      BY <2>1
    <3>6. chain' = <<Part(open)>> => chain'[1].wm = wm
      BY DEF Part
    <3> QED  BY <1>2, <2>1, <3>1, <3>2, <3>3, <3>4, <3>5, <3>6
  <2>2. CASE chain' = <<Part(open)>>
    <3>1. /\ Len(chain') = 1 /\ chain' \in Seq(Parts) /\ DOMAIN chain' = {1}
          /\ chain'[1] = Part(open) /\ Head(chain') = chain'[1]
      BY <1>4, <2>2
    <3>2. Part(open).maxima = maxima /\ Part(open).wm = wm
      BY DEF Part
    <3>3. chain # <<>> => 1 \in DOMAIN chain
      BY <1>0, ShapeFacts
    <3> QED  BY <1>2, <2>2, <3>1, <3>2, <3>3
  <2> QED  BY <1>1, <2>1, <2>2
<1>6. Shapes'
  <2>1. DOMAIN sink \subseteq 1..epoch'
    <3>1. DOMAIN sink \subseteq 1..epoch
      BY <1>0 DEF Shapes
    <3> QED  BY <1>2, <1>3, <3>1
  <2>2. committed' \in 0..MaxEpochs
    BY <1>1, <1>2
  <2> QED  BY <1>0, <1>1, <1>2, <1>5, <2>1, <2>2 DEF Shapes, InEpoch
<1>7. TrackerInv'
  <2>1. Backed(maxima, wm, epoch)
    BY <1>3 DEF FrontierInv, TrackerInv
  <2>2. ASSUME NEW i \in DOMAIN chain PROVE Backed(chain[i].maxima, chain[i].wm, epoch)
    <3>1. Witnessed(log, chain[i].maxima, committed) /\ Justified(log, released, chain[i].wm, committed)
      BY <2>2 DEF FrontierInv, TrackerInv, Backed
    <3>2. \A d \in 1..committed : d \in 1..epoch
      BY <1>2
    <3> QED  BY <3>1, <3>2 DEF Backed, Witnessed, Justified
  <2>3. \A i \in DOMAIN chain' : Backed(chain'[i].maxima, chain'[i].wm, epoch)
    BY <1>5, <2>1, <2>2
  <2>4. Backed(maxima, wm, Observations)'
    BY <1>1, <1>3, <2>1 DEF Backed
  <2>5. \A i \in DOMAIN chain' : Backed(chain[i].maxima, chain[i].wm, committed)'
    BY <1>1, <2>3 DEF Backed
  <2> QED  BY <2>4, <2>5 DEF TrackerInv
<1>8. NoOverclaim'
  BY <1>1 DEF FrontierInv, NoOverclaim
<1>9. FrontierKept'
  <2>1. wm \in Nat
    BY <1>0 DEF Shapes, Fronts
  <2> QED  BY <1>0, <1>1, <1>5, <2>1 DEF FrontierInv, FrontierKept
<1> QED  BY <1>6, <1>7, <1>8, <1>9 DEF FrontierInv
(* A crash loses the tracker, and what it had claimed.                     *)
LEMMA CrashFrontier ==
    ASSUME FrontierInv, Crash
    PROVE  FrontierInv'
<1>0. Shapes /\ pc # "down" /\ pc' = "down"
  BY DEF FrontierInv, Crash
<1>1. /\ UNCHANGED <<interval, log, committed, chain, sink, dropped, released>>
      /\ maxima' = Empty /\ wm' = 0 /\ idle' = {} /\ seen' = 0 /\ open' = {} /\ through' = 0
      /\ bound' = 0 /\ kept' = {} /\ delta' = {} /\ crashes' = crashes + 1
  BY DEF Crash, durable, history, None
<1>2. 0 \in Fronts
  BY DEF Fronts
<1>3. epoch' = epoch
  BY <1>1 DEF epoch
<1>4. Shapes'
  <2>1. crashes' \in Nat /\ crashes' > 0
    BY <1>0, <1>1 DEF Shapes
  <2> QED  BY <1>0, <1>1, <1>2, <1>3, <2>1, EmptyIsHigh DEF Shapes, InEpoch
<1>5. TrackerInv'
  <2>1. Backed(maxima, wm, Observations)'
    BY <1>1, EmptyIsHigh DEF Backed, Witnessed, Justified
  <2> QED  BY <1>1, <2>1 DEF FrontierInv, TrackerInv, Backed
<1>6. NoOverclaim'
  BY <1>1 DEF FrontierInv, NoOverclaim
<1> QED  BY <1>0, <1>4, <1>5, <1>6 DEF FrontierInv, FrontierKept

(* The bound a restart finds is one some part recorded, or none.           *)
LEMMA RestoredBoundFacts ==
    ASSUME Shapes
    PROVE  RestoredBound = 0 \/ \E i \in DOMAIN chain : RestoredBound = chain[i].bound
<1> DEFINE swept == {i \in DOMAIN chain : chain[i].bound # None}
<1>1. CASE swept = {}
  BY <1>1 DEF RestoredBound, None
<1>2. CASE swept # {}
  <2>1. DOMAIN chain = 1..Len(chain) /\ Len(chain) \in Nat
    BY ShapeFacts
  <2>2. swept \subseteq Nat /\ IsFiniteSet(swept)
    <3>1. IsFiniteSet(1..Len(chain)) /\ 1..Len(chain) \subseteq Nat
      BY <2>1, FS_Interval
    <3>2. swept \subseteq 1..Len(chain)
      BY <2>1
    <3> HIDE DEF swept
    <3> QED  BY <3>1, <3>2, FS_Subset
  <2>3. Max(swept) \in swept
    <3> HIDE DEF swept
    <3> QED  BY <1>2, <2>2, MaxOfFinite
  <2> QED  BY <1>2, <2>3 DEF RestoredBound
<1> QED  BY <1>1, <1>2

(* A restart takes the snapshot's maxima, and refreshes over them.         *)
LEMMA RestartFrontier ==
    ASSUME FrontierInv, Restart
    PROVE  FrontierInv'
<1>0. Shapes /\ pc = "down" /\ pc' = "next"
  BY DEF FrontierInv, Restart
<1>1. UNCHANGED <<interval, log, committed, chain, sink, kept, delta, dropped, released, crashes, idle>>
  BY DEF Restart, durable, history, tracker
<1>2. epoch' = epoch /\ Observations = committed /\ Observations' = committed
  BY <1>0, <1>1 DEF epoch, Observations, Folded
<1>3. CASE chain = <<>>
  <2>1. UNCHANGED <<maxima, wm, seen, open, through, bound>>
    BY <1>3 DEF Restart, tracker, fold
  <2>2. Shapes'
    BY <1>0, <1>1, <1>2, <2>1 DEF Shapes, InEpoch
  <2>3. TrackerInv'
    BY <1>1, <1>2, <2>1 DEF FrontierInv, TrackerInv, Backed
  <2>4. NoOverclaim'
    BY <1>1 DEF FrontierInv, NoOverclaim
  <2> QED  BY <1>1, <1>3, <2>2, <2>3, <2>4 DEF FrontierInv, FrontierKept
<1>4. CASE chain # <<>>
  <2> DEFINE t == Head(chain)
             now == Refreshed(t.maxima, {}, t.wm)
  <2>1. /\ maxima' = t.maxima /\ wm' = now /\ seen' = now /\ open' = RestoredOpen
        /\ bound' = RestoredBound
        /\ through' = IF RestoredBound = None THEN None ELSE Bucket(RestoredBound)
    BY <1>4 DEF Restart, RestoredTracker
  <2>2. 1 \in DOMAIN chain /\ t = chain[1] /\ t \in Parts /\ \A i \in DOMAIN chain : chain[i] \in Parts
    BY <1>0, <1>4, ShapeFacts
  <2>3. t.maxima \in Highs /\ t.wm \in Fronts /\ t.wm \in Nat
    BY <2>2 DEF Parts, Fronts
  <2> HIDE DEF t
  <2>4. now \in Fronts /\ now >= t.wm
    BY <2>3, RefreshedFacts
  <2>5. Backed(t.maxima, now, committed)
    <3>1. Witnessed(log, t.maxima, committed) /\ Justified(log, released, t.wm, committed)
      BY <2>2 DEF FrontierInv, TrackerInv, Backed
    <3>2. Justified(log, released, now, committed)
      BY <2>3, <3>1, RefreshJustified
    <3> QED  BY <3>1, <3>2 DEF Backed
  <2> HIDE DEF now
  <2>6. RestoredBound \in Nat
    BY <1>0, <2>2, RestoredBoundFacts DEF Parts
  <2>7. open' \subseteq Pairs
    BY <2>1, <2>2 DEF RestoredOpen, Parts
  <2>8. through' \in Nat
    BY <2>1, <2>6, BucketFacts DEF None
  <2>9. Shapes'
    BY <1>0, <1>1, <1>2, <2>1, <2>3, <2>4, <2>6, <2>7, <2>8 DEF Shapes, InEpoch
  <2>10. TrackerInv'
    <3>1. Backed(maxima, wm, Observations)'
      BY <1>1, <1>2, <2>1, <2>5 DEF Backed
    <3> QED  BY <1>1, <3>1 DEF FrontierInv, TrackerInv, Backed
  <2>11. NoOverclaim'
    BY <1>1 DEF FrontierInv, NoOverclaim
  <2>12. FrontierKept'
    BY <1>1, <2>1, <2>4 DEF FrontierKept, t
  <2> QED  BY <2>9, <2>10, <2>11, <2>12 DEF FrontierInv
<1> QED  BY <1>3, <1>4

(* A partition ruled idle is one fewer the claims are about.               *)
LEMMA ExpireFrontier ==
    ASSUME FrontierInv, NEW p \in Partitions, Expire(p)
    PROVE  FrontierInv'
<1>0. Shapes /\ pc # "down"
  BY DEF FrontierInv, Expire
<1>1. /\ UNCHANGED <<interval, log, committed, chain, sink, pc, maxima, wm, seen, open, through, bound, kept,
                     delta, dropped, crashes>>
      /\ idle' = idle \cup {p} /\ released' = released \cup {p}
  BY DEF Expire, durable, fold
<1>2. epoch' = epoch /\ Observations' = Observations
  BY <1>1 DEF epoch, Observations
<1>3. Shapes'
  BY <1>0, <1>1, <1>2 DEF Shapes
<1>4. TrackerInv'
  <2>1. Backed(maxima, wm, Observations)'
    BY <1>1, <1>2 DEF FrontierInv, TrackerInv, Backed, Justified, Witnessed
  <2>2. \A i \in DOMAIN chain : Backed(chain[i].maxima, chain[i].wm, committed)'
    BY <1>1 DEF FrontierInv, TrackerInv, Backed, Justified, Witnessed
  <2> QED  BY <1>1, <2>1, <2>2 DEF TrackerInv
<1>5. NoOverclaim'
  BY <1>1 DEF FrontierInv, NoOverclaim
<1>6. FrontierKept'
  BY <1>1 DEF FrontierInv, FrontierKept
<1> QED  BY <1>3, <1>4, <1>5, <1>6 DEF FrontierInv

(* A step that changes nothing keeps any invariant of the state.           *)
LEMMA FrontierStutter ==
    ASSUME FrontierInv, UNCHANGED vars
    PROVE  FrontierInv'
<1>1. UNCHANGED <<interval, log, committed, chain, sink, pc, maxima, wm, idle, seen, open, through, bound,
                  kept, delta, dropped, released, crashes>>
  BY DEF vars, durable, tracker, fold, history
<1>2. epoch' = epoch /\ Observations' = Observations
  BY <1>1 DEF epoch, Observations
<1>3. Shapes'
  BY <1>1, <1>2 DEF FrontierInv, Shapes
<1>4. TrackerInv'
  BY <1>1, <1>2 DEF FrontierInv, TrackerInv, Backed
<1>5. NoOverclaim' /\ FrontierKept'
  BY <1>1 DEF FrontierInv, NoOverclaim, FrontierKept
<1> QED  BY <1>3, <1>4, <1>5 DEF FrontierInv

(* Every step keeps the invariant.                                         *)
LEMMA FrontierStep == FrontierInv /\ [Next]_vars => FrontierInv'
<1> SUFFICES ASSUME FrontierInv, [Next]_vars PROVE FrontierInv'
  OBVIOUS
<1>1. CASE Replay \/ Publish
  BY <1>1, QuietFrontier
<1>2. CASE Plan
  BY <1>2, PlanFrontier
<1>3. CASE Filter
  BY <1>3, FilterFrontier
<1>4. CASE Fold
  BY <1>4, FoldFrontier
<1>5. CASE Commit
  BY <1>5, CommitFrontier
<1>6. CASE Crash
  BY <1>6, CrashFrontier
<1>7. CASE Restart
  BY <1>7, RestartFrontier
<1>8. CASE \E p \in Partitions : Expire(p)
  BY <1>8, ExpireFrontier
<1>9. CASE Finished \/ UNCHANGED vars
  BY <1>9, FrontierStutter DEF Finished
<1> QED  BY <1>1, <1>2, <1>3, <1>4, <1>5, <1>6, <1>7, <1>8, <1>9 DEF Next

(* The invariant holds of every behaviour.                                 *)
LEMMA FrontierAlways == Spec => []FrontierInv
<1>1. Init => FrontierInv
  BY FrontierInit
<1>2. FrontierInv /\ [Next]_vars => FrontierInv'
  BY FrontierStep
<1> QED  BY <1>1, <1>2, PTL DEF Spec

(* to_json() and restore(): whatever the changelog interval, and however   *)
(* often the query crashes, a running query's frontier is never behind the *)
(* one the last snapshot recorded.                                         *)
THEOREM FrontierKeptHolds == Spec => []FrontierKept
<1>1. FrontierInv => FrontierKept
  BY DEF FrontierInv
<1> QED  BY <1>1, FrontierAlways, PTL

(* push() against observe() and _refresh(): a row of a declared partition  *)
(* that never went idle is dropped only when an earlier epoch was logged   *)
(* with a row of the same partition more than the lateness past it, over   *)
(* any crashes, replays and restores.                                      *)
THEOREM NoOverclaimHolds == Spec => []NoOverclaim
<1>1. FrontierInv => NoOverclaim
  BY DEF FrontierInv
<1> QED  BY <1>1, FrontierAlways, PTL

-----------------------------------------------------------------------------
(* The windows.                                                            *)

(* A refresh with an active partition reaches some maximum less lateness.  *)
LEMMA RefreshReaches ==
    ASSUME NEW h \in Highs, NEW away, NEW w \in Fronts, ~ Silent(h, away), DOMAIN h \ away # {}
    PROVE  \E p \in DOMAIN h : Refreshed(h, away, w) >= h[p] - Lateness
<1> DEFINE active == DOMAIN h \ away
           S      == {h[p] : p \in active}
           m      == Slowest(active, h) - Lateness
<1>1. w \in Int /\ Lateness \in Nat
  BY FoldAssumption DEF Fronts
<1>2. \A p \in DOMAIN h : h[p] \in Nat
  BY HighsFacts, TimesFacts
<1>3. Refreshed(h, away, w) = Max({w, m})
  BY DEF Refreshed
<1>4. Min(S) \in S
  <2>1. S \subseteq Nat /\ S # {}
    BY <1>2
  <2> HIDE DEF S
  <2> QED  BY <2>1, MinOfNat
<1>5. PICK p \in active : Slowest(active, h) = h[p]
  BY <1>4 DEF Slowest
<1>6. m = h[p] - Lateness /\ m \in Int
  BY <1>1, <1>2, <1>5
<1> HIDE DEF m
<1>7. Max({w, m}) = IF w >= m THEN w ELSE m
  BY <1>1, <1>6, MaxOfTwo
<1>8. Max({w, m}) >= m
  BY <1>1, <1>6, <1>7
<1> QED  BY <1>3, <1>5, <1>6, <1>8

(* A frontier refreshed while some partition was active stands when every  *)
(* partition is taken to be active again, as a restart does.               *)
LEMMA RefreshRipens ==
    ASSUME NEW h \in Highs, NEW away, NEW w \in Fronts, DOMAIN h \ away # {}
    PROVE  Ripe(h, Refreshed(h, away, w))
<1> DEFINE now   == Refreshed(h, away, w)
           again == Refreshed(h, {}, now)
<1>1. now \in Fronts
  BY RefreshedFacts
<1>2. /\ again \in Fronts /\ again >= now
      /\ again # now => ~ Silent(h, {}) /\ \A p \in DOMAIN h : h[p] - Lateness >= again
  <2> HIDE DEF now
  <2> QED  BY <1>1, RefreshedFacts
<1>3. ASSUME again # now PROVE FALSE
  <2>1. ~ Silent(h, away)
    BY <1>2, <1>3 DEF Silent
  <2>2. PICK p \in DOMAIN h : now >= h[p] - Lateness
    BY <2>1, RefreshReaches
  <2>3. h[p] \in Nat /\ Lateness \in Nat /\ now \in Nat /\ again \in Nat
    BY <1>1, <1>2, HighsFacts, TimesFacts, FoldAssumption DEF Fronts
  <2>4. h[p] - Lateness >= again
    BY <1>2, <1>3
  <2> HIDE DEF now, again
  <2> QED  BY <1>2, <1>3, <2>2, <2>3, <2>4
<1> QED  BY <1>3 DEF Ripe

(* Nothing is open yet.                                                    *)
LEMMA SweptInit == Init => SweptInv
<1> SUFFICES ASSUME Init PROVE SweptInv
  OBVIOUS
<1>1. Bucket(0) = 0
  BY FoldAssumption, Z3 DEF Bucket
<1> QED  BY <1>1 DEF Init, SweptInv, Starts, Behind, None, Folded

(* A step that leaves the fold, the tracker and the checkpoint alone.      *)
LEMMA SweptFrame ==
    ASSUME SweptInv, UNCHANGED <<interval, crashes, chain, open, bound, through, wm, maxima, seen, kept>>,
           \/ pc' = pc
           \/ pc' = "filter"
           \/ pc \in Folded /\ pc' \in Folded
    PROVE  SweptInv'
<1>1. Settled' = Settled
  BY DEF Settled
<1> QED  BY <1>1 DEF SweptInv, Folded, Starts, Behind, Ripe, PartSwept

(* Plan, Replay, Publish, an expiry, and a step that changes nothing.      *)
LEMMA QuietSwept ==
    ASSUME SweptInv, \/ Plan \/ Replay \/ Publish \/ UNCHANGED vars \/ \E p \in Partitions : Expire(p)
    PROVE  SweptInv'
<1>1. /\ UNCHANGED <<interval, crashes, chain, open, bound, through, wm, maxima, seen, kept>>
      /\ \/ pc' = pc
         \/ pc' = "filter"
         \/ pc \in Folded /\ pc' \in Folded
  <2>1. CASE Plan
    BY <2>1 DEF Plan, tracker, fold
  <2>2. CASE Replay
    BY <2>2 DEF Replay, durable, tracker, fold
  <2>3. CASE Publish
    BY <2>3 DEF Publish, tracker, fold, Folded
  <2>4. CASE UNCHANGED vars
    BY <2>4 DEF vars, durable, tracker, fold
  <2>5. CASE \E p \in Partitions : Expire(p)
    BY <2>5 DEF Expire, durable, fold
  <2> QED  BY <2>1, <2>2, <2>3, <2>4, <2>5
<1> QED  BY <1>1, SweptFrame

(* The rows that pass the filter are at the frontier or past it.           *)
LEMMA FilterSwept ==
    ASSUME FoldInv, Filter
    PROVE  SweptInv'
<1>0. Shapes /\ SweptInv /\ pc = "filter" /\ pc' = "fold"
  BY DEF FoldInv, FrontierInv, Filter
<1> DEFINE now == Refreshed(maxima, idle, wm)
<1>1. /\ UNCHANGED <<interval, crashes, chain, open, bound, through, maxima>>
      /\ wm' = now /\ kept' = {r \in log[epoch] : OnTime(r, now)}
  BY DEF Filter, durable
<1>2. now \in Nat /\ wm \in Nat /\ now >= wm /\ bound \in Nat /\ Width \in Nat
  BY <1>0, RefreshedFacts, FoldAssumption DEF Shapes, Fronts
<1>3. Settled' = Settled
  BY <1>1 DEF Settled
<1> HIDE DEF now
<1>4. Behind(bound, wm) => Behind(bound, now)
  BY <1>2 DEF Behind
<1>5. \A r \in kept' : r.t >= now
  BY <1>1 DEF OnTime
<1> QED  BY <1>0, <1>1, <1>3, <1>4, <1>5 DEF SweptInv, Folded, Starts, PartSwept, Behind, Ripe

(* _evict(): what a sweep leaves starts past the bound it leaves; where no *)
(* sweep is due, no boundary lies between the old bound and the frontier.  *)
LEMMA FoldSwept ==
    ASSUME FoldInv, Fold
    PROVE  SweptInv'
<1>0. Shapes /\ SweptInv /\ pc = "fold" /\ pc' = "sink"
  BY DEF FoldInv, FrontierInv, Fold
<1> DEFINE away  == idle \ {r.p : r \in log[epoch]}
           highs == Observed(maxima, log[epoch])
           now   == Refreshed(highs, away, wm)
           fresh == UNION {WindowsOf(r) \X {[e |-> epoch, row |-> r]} : r \in kept}
           pairs == open \cup fresh
           sweep == SweepDue(pairs, now)
<1>1. /\ UNCHANGED <<interval, chain, crashes>>
      /\ maxima' = highs /\ wm' = now /\ seen' = now
      /\ open' = pairs \ (IF sweep THEN Closed(pairs, now - Width) ELSE {})
      /\ through' = IF sweep THEN Bucket(now - Width) ELSE through
      /\ bound' = IF sweep THEN now - Width ELSE bound
  BY DEF Fold, durable, history
<1>2. log[epoch] \in Batches /\ log[epoch] # {} /\ epoch \in Nat
  BY <1>0, ShapeFacts, FoldAssumption DEF InEpoch
<1>3. /\ highs \in Highs /\ DOMAIN highs = DOMAIN maxima \cup {r.p : r \in log[epoch]}
  BY <1>0, <1>2, ObservedFacts DEF Shapes
<1>4. /\ now \in Fronts /\ now >= wm /\ now \in Nat /\ wm \in Nat /\ Ripe(highs, now)
  <2>1. DOMAIN highs \ away # {} /\ wm \in Fronts
    <3>1. PICK r \in log[epoch] : TRUE
      BY <1>2
    <3>2. r.p \in {x.p : x \in log[epoch]}
      OBVIOUS
    <3>3. wm \in Fronts
      BY <1>0 DEF Shapes
    <3> HIDE DEF highs
    <3> QED  BY <1>3, <3>2, <3>3
  <2> HIDE DEF highs, away
  <2> QED  BY <1>3, <2>1, RefreshedFacts, RefreshRipens DEF Fronts
<1>5. kept \in SUBSET Rows /\ open \subseteq Pairs /\ bound \in Nat /\ Width \in Nat /\ \A r \in Rows : r.t \in Nat
  BY <1>0, FoldAssumption, TimesFacts DEF Shapes, Rows
<1>6. fresh \subseteq Pairs /\ \A x \in fresh : \E r \in kept : x[1] \in WindowsOf(r)
  BY <1>2, <1>5, FreshFacts
<1>7. Settled' = Settled
  BY <1>1 DEF Settled
<1> HIDE DEF highs, now, fresh, away
<1>8. \A x \in pairs : x[1] \in Nat
  BY <1>5, <1>6 DEF Pairs
<1>9. Settled => Starts(pairs, bound)
  <2> SUFFICES ASSUME Settled, NEW x \in fresh PROVE x[1] > bound /\ x[1] > 0 /\ x[1] % Hop = 0
    BY <1>0 DEF SweptInv, Starts
  <2>1. PICK r \in kept : x[1] \in WindowsOf(r)
    BY <1>6
  <2>2. x[1] \in Nat /\ x[1] > 0 /\ x[1] % Hop = 0 /\ x[1] > r.t - Width
    BY <1>5, <2>1, WindowsFacts
  <2>3. r.t >= wm /\ r.t \in Nat /\ (bound = 0 \/ bound <= wm - Width)
    BY <1>0, <1>5 DEF SweptInv, Behind
  <2> QED  BY <1>4, <1>5, <2>2, <2>3
<1>10. CASE sweep
  <2>1. now > Width /\ now - Width \in Nat
    BY <1>4, <1>5, <1>10 DEF SweepDue, Fronts, None
  <2>2. \A x \in open' : x \in pairs /\ x[1] > now - Width
    BY <1>1, <1>8, <1>10, <2>1 DEF Closed
  <2>3. bound' = now - Width /\ through' = Bucket(now - Width)
    BY <1>1, <1>10
  <2>4. Settled => Starts(open', now - Width)
    BY <1>9, <2>2 DEF Starts
  <2>5. Behind(now - Width, now)
    BY <1>4, <1>5, <2>1 DEF Behind
  <2> HIDE DEF sweep, pairs
  <2> QED  BY <1>0, <1>1, <1>4, <1>7, <2>2, <2>3, <2>4, <2>5 DEF SweptInv, Folded, Starts, Behind, PartSwept, Ripe
<1>11. CASE ~ sweep
  <2>1. open' = pairs /\ bound' = bound /\ through' = through
    BY <1>1, <1>11
  <2>2. Settled => Behind(bound, now)
    BY <1>0, <1>4, <1>5 DEF SweptInv, Behind
  <2>3. Settled => \A x \in pairs : x[1] > now - Width
    <3> SUFFICES ASSUME Settled, NEW x \in pairs PROVE x[1] > now - Width
      OBVIOUS
    <3>1. x[1] > bound /\ x[1] > 0 /\ x[1] % Hop = 0 /\ x[1] \in Nat
      BY <1>8, <1>9 DEF Starts
    <3>2. CASE now = 0
      BY <1>5, <3>1, <3>2
    <3>3. CASE now # 0
      <4>1. Bucket(now - Width) = Bucket(bound) /\ now - Width \in Nat
        BY <1>0, <1>4, <1>5, <1>11, <3>3 DEF SweepDue, None, SweptInv, Fronts
      <4> QED  BY <1>5, <3>1, <4>1, BucketFacts
    <3> QED  BY <3>2, <3>3
  <2> HIDE DEF sweep, pairs
  <2> QED  BY <1>0, <1>1, <1>4, <1>7, <1>9, <2>1, <2>2, <2>3 DEF SweptInv, Folded, Starts, Behind, PartSwept, Ripe
<1> QED  BY <1>10, <1>11

(* Without a changelog the commit writes the open windows as they are.     *)
LEMMA CommitSwept ==
    ASSUME FoldInv, Commit
    PROVE  SweptInv'
<1>0. Shapes /\ SweptInv /\ pc = "commit" /\ pc' = "next"
  BY DEF FoldInv, FrontierInv, Commit
<1>1. /\ UNCHANGED <<interval, crashes, maxima, wm, seen, open, through, bound>>
      /\ interval = 0 => chain' = <<Part(open)>>
  BY DEF Commit, tracker, fold, ExtendsChain
<1>2. Settled' = Settled
  BY <1>1 DEF Settled
<1>3. ASSUME Settled, interval = 0, NEW i \in DOMAIN chain' PROVE PartSwept(chain'[i])
  <2>1. chain'[i] = Part(open)
    BY <1>1, <1>3
  <2>2. PartSwept(Part(open))
    BY <1>0, <1>3 DEF PartSwept, Part, SweptInv, Folded
  <2> QED  BY <2>1, <2>2
<1> QED  BY <1>0, <1>1, <1>2, <1>3 DEF SweptInv, Folded, Starts, Behind, PartSwept, Ripe

(* A crash leaves nothing open.                                            *)
LEMMA CrashSwept ==
    ASSUME FoldInv, Crash
    PROVE  SweptInv'
<1>0. Shapes /\ SweptInv /\ pc' = "down"
  BY DEF FoldInv, FrontierInv, Crash
<1>1. /\ UNCHANGED <<interval, chain>> /\ crashes' = crashes + 1 /\ open' = {} /\ through' = 0 /\ bound' = 0
  BY DEF Crash, durable, None
<1>2. Bucket(0) = 0
  BY FoldAssumption, Z3 DEF Bucket
<1>3. Settled' => interval = 0
  <2>1. crashes \in Nat
    BY <1>0 DEF Shapes
  <2> QED  BY <1>1, <2>1 DEF Settled
<1>4. interval = 0 => Settled
  BY DEF Settled
<1> QED  BY <1>0, <1>1, <1>2, <1>3, <1>4 DEF SweptInv, Folded, Starts, Behind, PartSwept, Ripe

(* A restart without a changelog finds the snapshot's windows, bound and   *)
(* frontier.                                                               *)
LEMMA RestartSwept ==
    ASSUME FoldInv, Restart
    PROVE  SweptInv'
<1>0. Shapes /\ SweptInv /\ pc = "down" /\ pc' = "next"
  BY DEF FoldInv, FrontierInv, Restart
<1>1. UNCHANGED <<interval, chain, crashes>>
  BY DEF Restart, durable
<1>2. Settled' = Settled /\ (Settled => interval = 0)
  <2>1. crashes # 0
    BY <1>0 DEF Shapes
  <2> QED  BY <1>1, <2>1 DEF Settled
<1>3. CASE chain = <<>>
  <2>1. UNCHANGED <<wm, seen, open, through, bound>>
    BY <1>3 DEF Restart, tracker, fold
  <2> QED  BY <1>0, <1>1, <1>2, <2>1 DEF SweptInv, Folded, Starts, Behind, PartSwept, Ripe
<1>4. CASE chain # <<>>
  <2> DEFINE t == Head(chain)
             now == Refreshed(t.maxima, {}, t.wm)
  <2>1. /\ wm' = now /\ seen' = now /\ open' = RestoredOpen
        /\ bound' = RestoredBound
        /\ through' = IF RestoredBound = None THEN None ELSE Bucket(RestoredBound)
    BY <1>4 DEF Restart, RestoredTracker
  <2>2. through' = Bucket(bound')
    <3>1. Bucket(0) = 0
      BY FoldAssumption, Z3 DEF Bucket
    <3> QED  BY <2>1, <3>1 DEF None
  <2>3. ASSUME Settled
        PROVE  /\ Starts(open', bound') /\ Behind(bound', wm')
               /\ \A x \in open' : x[1] > seen' - Width
               /\ \A i \in DOMAIN chain : PartSwept(chain[i])
    <3>1. DOMAIN chain = {1} /\ t = chain[1] /\ t \in Parts
      <4>1. Len(chain) <= 1 /\ Len(chain) \in Nat /\ 1 \in DOMAIN chain /\ DOMAIN chain = 1..Len(chain)
        BY <1>0, <1>2, <1>4, <2>3, ShapeFacts DEF Shapes
      <4>2. DOMAIN chain = {1}
        BY <4>1
      <4> QED  BY <1>0, <1>4, <4>2, ShapeFacts
    <3>2. PartSwept(t) /\ \A i \in DOMAIN chain : PartSwept(chain[i])
      BY <1>0, <1>2, <2>3, <3>1 DEF SweptInv
    <3>3. now = t.wm
      BY <3>2 DEF PartSwept, Ripe
    <3>4. RestoredBound = t.bound
      <4>1. CASE t.bound = 0
        BY <1>0, <3>1, <4>1, RestoredBoundFacts
      <4>2. CASE t.bound # 0
        <5>1. {i \in DOMAIN chain : chain[i].bound # None} = {1}
          BY <3>1, <4>2 DEF None
        <5>2. Max({1}) = 1
          <6>1. Max({1}) \in {1}
            BY MaxOfTwo
          <6> QED  BY <6>1
        <5> QED  BY <3>1, <5>1, <5>2 DEF RestoredBound
      <4> QED  BY <4>1, <4>2
    <3>5. RestoredOpen \subseteq t.rows
      BY <3>1 DEF RestoredOpen
    <3> HIDE DEF t, now
    <3> QED  BY <2>1, <3>2, <3>3, <3>4, <3>5 DEF PartSwept, Starts
  <2> QED  BY <1>0, <1>1, <1>2, <2>2, <2>3 DEF SweptInv, Folded, Starts, Behind, PartSwept, Ripe
<1> QED  BY <1>3, <1>4

(* Every step keeps the invariant.                                         *)
LEMMA FoldStep == FoldInv /\ [Next]_vars => FoldInv'
<1> SUFFICES ASSUME FoldInv, [Next]_vars PROVE FoldInv'
  OBVIOUS
<1>0. FrontierInv' /\ SweptInv
  BY FrontierStep DEF FoldInv
<1>1. CASE \/ Plan \/ Replay \/ Publish \/ UNCHANGED vars \/ \E p \in Partitions : Expire(p)
  BY <1>0, <1>1, QuietSwept DEF FoldInv
<1>2. CASE Filter
  BY <1>0, <1>2, FilterSwept DEF FoldInv
<1>3. CASE Fold
  BY <1>0, <1>3, FoldSwept DEF FoldInv
<1>4. CASE Commit
  BY <1>0, <1>4, CommitSwept DEF FoldInv
<1>5. CASE Crash
  BY <1>0, <1>5, CrashSwept DEF FoldInv
<1>6. CASE Restart
  BY <1>0, <1>6, RestartSwept DEF FoldInv
<1> QED  BY <1>1, <1>2, <1>3, <1>4, <1>5, <1>6 DEF Next, Finished

(* _evict(): for every width and hop, and every changelog interval, sweeps *)
(* keyed on hop boundaries leave no window between epochs that the         *)
(* frontier has closed, and no restart without a changelog brings one      *)
(* back.                                                                   *)
THEOREM OnlyOpenHeldHolds == Spec => []OnlyOpenHeld
<1>1. Init => FoldInv
  BY FrontierInit, SweptInit DEF FoldInv
<1>2. FoldInv /\ [Next]_vars => FoldInv'
  BY FoldStep
<1>3. FoldInv => OnlyOpenHeld
  <2> SUFFICES ASSUME FoldInv PROVE OnlyOpenHeld
    OBVIOUS
  <2>1. Shapes /\ SweptInv
    BY DEF FoldInv, FrontierInv
  <2>2. \A e \in DOMAIN log : log[e] \in Batches
    BY <2>1, ShapeFacts
  <2>3. DOMAIN maxima \subseteq Partitions /\ \A p \in DOMAIN maxima : maxima[p] \in Times
    BY <2>1, HighsFacts DEF Shapes
  <2>4. TypeOK
    BY <2>1, <2>2, <2>3 DEF TypeOK, Shapes, InEpoch, Fronts
  <2> QED  BY <2>1, <2>4 DEF OnlyOpenHeld, SweptInv
<1> QED  BY <1>1, <1>2, <1>3, PTL DEF Spec

-----------------------------------------------------------------------------
(* Every contribution, once.                                               *)

(* A contribution carries the epoch of its row.                            *)
LEMMA ContribFacts ==
    ASSUME NEW n \in Nat, NEW rows \in SUBSET Rows
    PROVE  /\ Contrib(n, rows) \subseteq Pairs
           /\ \A x \in Contrib(n, rows) : x[2].e = n /\ \E r \in rows : x[1] \in WindowsOf(r)
<1>1. Contrib(n, rows) \subseteq Pairs
  BY FreshFacts DEF Contrib
<1>2. ASSUME NEW x \in Contrib(n, rows)
      PROVE  x[2].e = n /\ \E r \in rows : x[1] \in WindowsOf(r)
  <2>1. PICK r \in rows : x \in WindowsOf(r) \X {[e |-> n, row |-> r]}
    BY <1>2 DEF Contrib
  <2>2. x[1] \in WindowsOf(r) /\ x[2] = [e |-> n, row |-> r]
    BY <2>1
  <2> QED  BY <2>2
<1> QED  BY <1>1, <1>2

(* What the first n epochs contribute is theirs, and the next adds its own *)
(* to it.                                                                  *)
LEMMA ContributionsFacts ==
    ASSUME admitted \in [1..MaxEpochs -> SUBSET Rows], MaxEpochs \in Nat, NEW n \in Nat, n <= MaxEpochs
    PROVE  /\ \A x \in Contributions(n) : x \in Pairs /\ x[2].e <= n
           /\ n < MaxEpochs => Contributions(n + 1) = Contributions(n) \cup Contrib(n + 1, admitted[n + 1])
<1>1. \A m \in Nat : Contributions(m) = UNION {Contrib(i, admitted[i]) : i \in 1..m}
  BY DEF Contributions, Contrib
<1>2. ASSUME NEW x \in Contributions(n)
      PROVE  x \in Pairs /\ x[2].e <= n
  <2>1. PICK i \in 1..n : x \in Contrib(i, admitted[i])
    BY <1>1, <1>2
  <2>2. i \in Nat /\ admitted[i] \in SUBSET Rows
    OBVIOUS
  <2> QED  BY <2>1, <2>2, ContribFacts
<1>3. 1..(n + 1) = 1..n \cup {n + 1}
  OBVIOUS
<1>4. Contributions(n + 1) = Contributions(n) \cup Contrib(n + 1, admitted[n + 1])
  <2>1. Contributions(n + 1) = UNION {Contrib(i, admitted[i]) : i \in 1..n \cup {n + 1}}
    BY <1>1, <1>3
  <2>2. Contributions(n) = UNION {Contrib(i, admitted[i]) : i \in 1..n}
    BY <1>1
  <2> QED  BY <2>1, <2>2
<1> QED  BY <1>2, <1>4

(* The bound of a restart is a number, and its windows are past it.        *)
LEMMA RestoredFacts ==
    ASSUME Shapes
    PROVE  RestoredBound \in Nat /\ RestoredOpen \subseteq Pairs /\ \A x \in RestoredOpen : x[1] > RestoredBound
<1>1. \A i \in DOMAIN chain : chain[i].bound \in Nat /\ chain[i].rows \subseteq Pairs
  BY ShapeFacts DEF Parts
<1> QED  BY <1>1, RestoredBoundFacts DEF RestoredOpen

(* A snapshot restores as itself, less what its bound has closed.          *)
LEMMA SnapshotRestores ==
    ASSUME NEW part \in Parts, chain' = <<part>>
    PROVE  /\ RestoredBound' = part.bound
           /\ RestoredOpen' = {x \in part.rows : x[1] > part.bound}
           /\ Ckpt' = part
<1>1. DOMAIN chain' = {1} /\ chain'[1] = part /\ chain' # <<>>
  OBVIOUS
<1>2. RestoredBound' = part.bound
  <2>1. CASE part.bound = None
    <3>1. {i \in DOMAIN chain' : chain'[i].bound # None} = {}
      BY <1>1, <2>1
    <3> QED  BY <2>1, <3>1 DEF RestoredBound
  <2>2. CASE part.bound # None
    <3>1. {i \in DOMAIN chain' : chain'[i].bound # None} = {1}
      BY <1>1, <2>2
    <3>2. Max({1}) = 1
      <4>1. Max({1}) \in {1}
        BY MaxOfTwo
      <4> QED  BY <4>1
    <3> QED  BY <1>1, <3>1, <3>2 DEF RestoredBound
  <2> QED  BY <2>1, <2>2
<1>3. UNION {chain'[i].rows : i \in DOMAIN chain'} = part.rows
  BY <1>1
<1> QED  BY <1>1, <1>2, <1>3 DEF RestoredOpen, Ckpt

(* A delta adds its rows, and its bound closes windows of every part: the  *)
(* bound of the last part is the one that is restored.                     *)
LEMMA DeltaRestores ==
    ASSUME Shapes, NEW part \in Parts, chain' = Append(chain, part), part.bound >= RestoredBound
    PROVE  /\ RestoredBound' = part.bound
           /\ RestoredOpen' = {x \in RestoredOpen \cup part.rows : x[1] > part.bound}
<1> DEFINE n     == Len(chain)
           swept == {i \in DOMAIN chain : chain[i].bound # None}
           then  == {i \in DOMAIN chain' : chain'[i].bound # None}
<1>1. /\ n \in Nat /\ DOMAIN chain = 1..n /\ DOMAIN chain' = 1..(n + 1) /\ chain'[n + 1] = part
      /\ \A i \in 1..n : chain'[i] = chain[i] /\ chain[i] \in Parts
  BY ShapeFacts DEF Shapes
<1>2. RestoredBound \in Nat /\ part.bound \in Nat
  BY RestoredFacts DEF Parts
<1>3. RestoredBound' = part.bound
  <2>1. CASE part.bound = None
    <3>1. then = swept /\ RestoredBound = 0
      BY <1>1, <1>2, <2>1 DEF None
    <3>2. CASE swept = {}
      BY <2>1, <3>1, <3>2 DEF RestoredBound
    <3>3. CASE swept # {}
      <4>1. swept \subseteq Nat /\ IsFiniteSet(swept)
        <5>1. swept \subseteq 1..n /\ n \in Int /\ 1..n \subseteq Nat
          BY <1>1
        <5> HIDE DEF swept, n
        <5>2. IsFiniteSet(1..n)
          BY <5>1, FS_Interval
        <5> QED  BY <5>1, <5>2, FS_Subset
      <4>2. Max(swept) \in swept
        <5> HIDE DEF swept
        <5> QED  BY <3>3, <4>1, MaxOfFinite
      <4>3. RestoredBound = chain[Max(swept)].bound
        BY <3>3 DEF RestoredBound
      <4> QED  BY <2>1, <3>1, <4>2, <4>3 DEF None
    <3> QED  BY <3>2, <3>3
  <2>2. CASE part.bound # None
    <3>1. n + 1 \in then /\ \A i \in then : i <= n + 1
      BY <1>1, <2>2
    <3>2. then \subseteq Nat /\ IsFiniteSet(then)
      <4>1. then \subseteq 1..(n + 1)
        BY <1>1
      <4>2. n + 1 \in Int /\ 1..(n + 1) \subseteq Nat
        BY <1>1
      <4> HIDE DEF then, n
      <4>3. IsFiniteSet(1..(n + 1))
        BY <4>2, FS_Interval
      <4> QED  BY <4>1, <4>2, <4>3, FS_Subset
    <3>3. Max(then) \in then /\ \A y \in then : Max(then) >= y
      <4> HIDE DEF then
      <4> QED  BY <3>1, <3>2, MaxOfFinite
    <3>4. Max(then) = n + 1
      <4>1. Max(then) \in Nat /\ Max(then) <= n + 1 /\ Max(then) >= n + 1
        BY <3>1, <3>2, <3>3
      <4>2. n \in Nat
        BY <1>1
      <4> HIDE DEF then, n
      <4> QED  BY <4>1, <4>2
    <3>5. RestoredBound' = chain'[Max(then)].bound
      BY <3>1 DEF RestoredBound
    <3> QED  BY <1>1, <3>4, <3>5
  <2> QED  BY <2>1, <2>2
<1>4. UNION {chain'[i].rows : i \in DOMAIN chain'} = (UNION {chain[i].rows : i \in DOMAIN chain}) \cup part.rows
  <2>1. 1..(n + 1) = 1..n \cup {n + 1}
    BY <1>1
  <2>2. UNION {chain'[i].rows : i \in DOMAIN chain'} = (UNION {chain'[i].rows : i \in 1..n}) \cup part.rows
    BY <1>1, <2>1
  <2>3. {chain'[i].rows : i \in 1..n} = {chain[i].rows : i \in 1..n}
    BY <1>1
  <2> QED  BY <1>1, <2>2, <2>3
<1>5. \A x \in UNION {chain[i].rows : i \in DOMAIN chain} : x[1] \in Nat
  BY <1>1 DEF Parts, Pairs
<1>6. RestoredOpen' = {x \in (UNION {chain[i].rows : i \in DOMAIN chain}) \cup part.rows : x[1] > part.bound}
  BY <1>3, <1>4 DEF RestoredOpen
<1>7. RestoredOpen = {x \in UNION {chain[i].rows : i \in DOMAIN chain} : x[1] > RestoredBound}
  BY DEF RestoredOpen
<1> HIDE DEF n, swept, then
<1> QED  BY <1>2, <1>3, <1>5, <1>6, <1>7

(* _evict() splits the open and the new pairs by the bound it leaves.      *)
LEMMA FoldSplits ==
    ASSUME FoldInv, Settled, Fold
    PROVE  LET fresh == Contrib(epoch, kept)
               pairs == open \cup fresh
           IN  /\ delta' = fresh
               /\ out' = {x \in pairs : x[1] <= bound'}
               /\ open' = {x \in pairs : x[1] > bound'}
               /\ \A x \in pairs : x \in Pairs /\ x[1] > bound
               /\ bound' >= bound
               /\ out' = IF pairs # {} /\ wm' # None /\ Bucket(wm' - Width) # Bucket(bound)
                         THEN Closed(pairs, wm' - Width) ELSE {}
<1>0. Shapes /\ SweptInv /\ pc = "fold" /\ epoch \in Nat
  BY ShapeFacts DEF FoldInv, FrontierInv, Fold
<1> DEFINE away  == idle \ {r.p : r \in log[epoch]}
           highs == Observed(maxima, log[epoch])
           now   == Refreshed(highs, away, wm)
           fresh == Contrib(epoch, kept)
           pairs == open \cup fresh
           sweep == SweepDue(pairs, now)
<1>1. /\ wm' = now /\ delta' = fresh
      /\ open' = pairs \ (IF sweep THEN Closed(pairs, now - Width) ELSE {})
      /\ out' = (IF sweep THEN Closed(pairs, now - Width) ELSE {})
      /\ bound' = (IF sweep THEN now - Width ELSE bound)
  BY DEF Fold, Contrib
<1>2. now \in Fronts /\ now \in Nat /\ now >= wm /\ wm \in Nat
  <2>1. log[epoch] \in Batches /\ wm \in Fronts /\ maxima \in Highs
    BY <1>0, ShapeFacts DEF InEpoch, Shapes
  <2>2. highs \in Highs
    BY <2>1, ObservedFacts
  <2> HIDE DEF highs, away
  <2> QED  BY <2>1, <2>2, RefreshedFacts DEF Fronts
<1>3. kept \in SUBSET Rows /\ open \subseteq Pairs /\ bound \in Nat /\ Width \in Nat /\ \A r \in Rows : r.t \in Nat
  BY <1>0, FoldAssumption, TimesFacts DEF Shapes, Rows
<1>4. fresh \subseteq Pairs /\ \A x \in fresh : \E r \in kept : x[1] \in WindowsOf(r)
  BY <1>0, <1>3, ContribFacts
<1> HIDE DEF now, fresh
<1>5. \A x \in pairs : x \in Pairs /\ x[1] \in Nat
  BY <1>3, <1>4 DEF Pairs
<1>6. \A x \in pairs : x[1] > bound
  <2> SUFFICES ASSUME NEW x \in fresh PROVE x[1] > bound
    BY <1>0 DEF SweptInv, Starts
  <2>1. PICK r \in kept : x[1] \in WindowsOf(r)
    BY <1>4
  <2>2. x[1] \in Nat /\ x[1] > 0 /\ x[1] > r.t - Width
    BY <1>3, <2>1, WindowsFacts
  <2>3. r.t >= wm /\ r.t \in Nat /\ (bound = 0 \/ bound <= wm - Width)
    BY <1>0, <1>3 DEF SweptInv, Behind
  <2> QED  BY <1>2, <1>3, <2>2, <2>3
<1>7. sweep <=> pairs # {} /\ now # None /\ Bucket(now - Width) # Bucket(bound)
  BY <1>0 DEF SweepDue, SweptInv
<1>8. bound = 0 \/ bound <= wm - Width
  BY <1>0 DEF SweptInv, Behind
<1>9. sweep => now - Width \in Nat
  BY <1>2, <1>3 DEF SweepDue, Fronts, None
<1> HIDE DEF pairs
<1>10. bound' >= bound
  BY <1>1, <1>2, <1>3, <1>8, <1>9
<1>11. /\ out' = {x \in pairs : x[1] <= bound'}
       /\ open' = {x \in pairs : x[1] > bound'}
  <2>1. CASE sweep
    <3>1. out' = {x \in pairs : x[1] <= bound'} /\ open' = pairs \ out'
      BY <1>1, <2>1 DEF Closed
    <3>2. bound' \in Nat
      BY <1>1, <1>9, <2>1
    <3> QED  BY <1>5, <3>1, <3>2
  <2>2. CASE ~ sweep
    <3>1. out' = {} /\ open' = pairs /\ bound' = bound
      BY <1>1, <2>2
    <3> QED  BY <1>3, <1>5, <1>6, <3>1
  <2> QED  BY <2>1, <2>2
<1>12. out' = IF pairs # {} /\ wm' # None /\ Bucket(wm' - Width) # Bucket(bound)
              THEN Closed(pairs, wm' - Width) ELSE {}
  BY <1>1, <1>7
<1> QED  BY <1>1, <1>5, <1>6, <1>10, <1>11, <1>12 DEF pairs, fresh

(* A step that leaves the checkpoint's parts alone leaves what they        *)
(* restore, and an epoch over the same rows would run from them the same.  *)
LEMMA RunsKept ==
    ASSUME chain' = chain
    PROVE  /\ RestoredOpen' = RestoredOpen /\ RestoredBound' = RestoredBound /\ Ckpt' = Ckpt
           /\ RunFront' = RunFront
           /\ committed' = committed /\ log'[epoch] = log[epoch] => RunKept' = RunKept /\ RunOut' = RunOut
<1>1. RestoredOpen' = RestoredOpen /\ RestoredBound' = RestoredBound /\ Ckpt' = Ckpt
  BY DEF RestoredOpen, RestoredBound, Ckpt
<1>2. RunFront' = RunFront
  BY <1>1 DEF RunFront
<1>3. ASSUME committed' = committed, log'[epoch] = log[epoch]
      PROVE  RunKept' = RunKept /\ RunOut' = RunOut
  <2>1. epoch' = epoch
    BY <1>3 DEF epoch
  <2>2. RunKept' = RunKept
    BY <1>2, <1>3, <2>1 DEF RunKept
  <2>3. RunPairs' = RunPairs /\ RunEnd' = RunEnd
    BY <1>1, <1>2, <1>3, <2>1, <2>2 DEF RunPairs, RunEnd
  <2> QED  BY <1>1, <2>2, <2>3 DEF RunOut
<1> QED  BY <1>1, <1>2, <1>3

(* The ledger is of the committed epochs.                                  *)
LEMMA LedgerKept ==
    ASSUME Ledger, UNCHANGED <<chain, committed>>, \A i \in 1..committed : admitted'[i] = admitted[i],
           \A e \in 1..committed : (e \in DOMAIN sink' <=> e \in DOMAIN sink)
                                    /\ (e \in DOMAIN sink => sink'[e] = sink[e])
    PROVE  Ledger'
<1>1. RestoredOpen' = RestoredOpen
  BY RunsKept
<1>2. Emitted' = Emitted
  BY DEF Emitted
<1>3. Contributions(committed)' = Contributions(committed)
  BY DEF Contributions
<1> QED  BY <1>1, <1>2, <1>3 DEF Ledger

(* Nothing has been admitted.                                              *)
LEMMA AccountInit == Init => AccountInv
<1> SUFFICES ASSUME Init PROVE AccountInv
  OBVIOUS
<1>1. FoldInv /\ admitted \in [1..MaxEpochs -> SUBSET Rows]
  BY FrontierInit, SweptInit DEF FoldInv, Init
<1>2. DOMAIN chain = {} /\ chain = <<>> /\ DOMAIN sink = {} /\ committed = 0 /\ pc = "next"
  BY DEF Init
<1>3. RestoredOpen = {} /\ RestoredBound = 0
  BY <1>2 DEF RestoredOpen, RestoredBound, None
<1>4. Emitted = {} /\ Contributions(committed) = {}
  BY <1>2 DEF Emitted, Contributions
<1>5. Ledger /\ AsRestored
  BY <1>2, <1>3, <1>4 DEF Init, Ledger, AsRestored, Ckpt, None
<1>6. Split /\ Written
  BY <1>2 DEF Split, Written, Final, Own, Folded
<1> QED  BY <1>1, <1>5, <1>6 DEF AccountInv

(* Steps that fold, write and commit nothing.                              *)
LEMMA QuietAccount ==
    ASSUME ~ TimedReplay, AccountInv, FoldInv',
           \/ Plan \/ Replay \/ UNCHANGED vars \/ \E p \in Partitions : Expire(p)
    PROVE  AccountInv'
<1>0. Shapes /\ admitted' = admitted
  BY DEF AccountInv, FoldInv, FrontierInv, Plan, Replay, vars, Expire, history
<1>1. UNCHANGED <<interval, chain, sink, committed, crashes, maxima, wm, open, bound, kept, delta, out, admitted>>
  BY DEF Plan, Replay, vars, Expire, durable, tracker, fold, history
<1>2. Settled' = Settled /\ epoch' = epoch
  BY <1>1 DEF Settled, epoch
<1>3. /\ RestoredOpen' = RestoredOpen /\ RestoredBound' = RestoredBound /\ Ckpt' = Ckpt /\ RunFront' = RunFront
      /\ log'[epoch] = log[epoch] => RunKept' = RunKept /\ RunOut' = RunOut
  BY <1>1, RunsKept
<1>4. ASSUME Settled PROVE Ledger'
  BY <1>1, <1>4, LedgerKept DEF AccountInv
<1>5. ASSUME Settled PROVE AsRestored' /\ Split' /\ Written'
  <2>0. AsRestored /\ Split /\ Written
    BY <1>5 DEF AccountInv
  <2>1. CASE Plan
    <3>1. pc = "next" /\ pc' = "filter" /\ UNCHANGED idle /\ Len(log) = committed /\ committed \in Nat
      BY <1>0, <2>1, ShapeFacts DEF Plan, tracker
    <3>2. epoch \notin DOMAIN sink
      BY <2>0, <3>1 DEF Written, Own, epoch
    <3>3. AsRestored'
      BY <1>1, <1>3, <2>0, <3>1 DEF AsRestored
    <3>4. Split' /\ Written'
      BY <1>1, <1>2, <1>3, <2>0, <3>1, <3>2 DEF Split, Written, Final, Own, Folded
    <3> QED  BY <3>3, <3>4
  <2>2. CASE Replay
    <3>1. pc = "next" /\ pc' = "filter" /\ UNCHANGED <<idle, log>> /\ ~ timed'
      BY <2>2 DEF Replay, tracker, durable
    <3>2. AsRestored'
      BY <1>1, <1>3, <2>0, <3>1 DEF AsRestored
    <3>3. Split' /\ Written'
      BY <1>1, <1>2, <1>3, <2>0, <3>1 DEF Split, Written, Final, Own, Folded
    <3> QED  BY <3>2, <3>3
  <2>3. CASE UNCHANGED vars
    <3>1. UNCHANGED <<pc, idle, log, timed>>
      BY <2>3 DEF vars, tracker, durable
    <3> QED  BY <1>1, <1>2, <1>3, <2>0, <3>1 DEF AsRestored, Split, Written, Final, Own
  <2>4. CASE \E p \in Partitions : Expire(p)
    <3>1. UNCHANGED <<pc, log, timed>> /\ pc # "down" /\ epoch \notin DOMAIN sink
      BY <2>4 DEF Expire, durable
    <3>2. AsRestored'
      BY <1>1, <1>2, <1>3, <2>0, <3>1 DEF AsRestored
    <3>3. Split' /\ Written'
      BY <1>1, <1>2, <1>3, <2>0, <3>1 DEF Split, Written, Final, Own
    <3> QED  BY <3>2, <3>3
  <2> QED  BY <2>1, <2>2, <2>3, <2>4
<1> QED  BY <1>0, <1>2, <1>4, <1>5 DEF AccountInv

(* The filter admits what a run from the snapshot would, unless somebody   *)
(* is idle.                                                                *)
LEMMA FilterAccount ==
    ASSUME AccountInv, Filter, FoldInv'
    PROVE  AccountInv'
<1>0. Shapes /\ pc = "filter" /\ pc' = "fold" /\ epoch \in 1..MaxEpochs /\ epoch \in Nat /\ committed \in Nat
      /\ log[epoch] \in Batches /\ admitted \in [1..MaxEpochs -> SUBSET Rows]
  BY ShapeFacts DEF AccountInv, FoldInv, FrontierInv, Filter, InEpoch
<1> DEFINE now == Refreshed(maxima, idle, wm)
           ok  == {r \in log[epoch] : OnTime(r, now)}
<1>1. /\ UNCHANGED <<interval, log, chain, sink, committed, crashes, maxima, idle, open, bound>>
      /\ wm' = now /\ kept' = ok /\ admitted' = [admitted EXCEPT ![epoch] = ok] /\ timed' = (timed \/ idle # {})
  BY DEF Filter, durable
<1>2. Settled' = Settled /\ epoch' = epoch /\ epoch = committed + 1
  BY <1>1 DEF Settled, epoch
<1>3. /\ RestoredOpen' = RestoredOpen /\ RestoredBound' = RestoredBound /\ Ckpt' = Ckpt /\ RunFront' = RunFront
      /\ RunKept' = RunKept /\ RunOut' = RunOut
  BY <1>1, RunsKept
<1>4. ok \subseteq Rows
  BY <1>0, TimesFacts
<1>5. admitted' \in [1..MaxEpochs -> SUBSET Rows] /\ admitted'[epoch] = ok
      /\ \A i \in 1..committed : admitted'[i] = admitted[i]
  <2> HIDE DEF ok
  <2> QED  BY <1>0, <1>1, <1>2, <1>4
<1>6. ASSUME Settled PROVE Ledger' /\ AsRestored' /\ Split' /\ Written'
  <2>0. Ledger /\ AsRestored /\ Split /\ Written
    BY <1>6 DEF AccountInv
  <2>1. Ledger'
    BY <1>1, <1>5, <2>0, LedgerKept
  <2>2. ASSUME interval = 0, ~ timed' PROVE now = RunFront /\ ok = RunKept
    <3>1. maxima = Ckpt.maxima /\ wm = Ckpt.wm /\ idle = {}
      BY <1>0, <1>1, <2>0, <2>2 DEF AsRestored
    <3> QED  BY <3>1 DEF RunFront, RunKept
  <2> HIDE DEF now, ok
  <2>3. AsRestored'
    BY <1>0, <1>1, <1>2, <1>3, <1>5, <2>0, <2>2 DEF AsRestored
  <2>4. Split' /\ Final'
    BY <1>0, <1>1, <1>2, <1>3, <2>0 DEF Split, Written, Final, Folded
  <2>5. Own'
    <3>1. CASE epoch \in DOMAIN sink
      <4>1. Len(log) = epoch /\ interval = 0 /\ idle = {} /\ sink[epoch] = RunOut /\ ~ timed
        BY <1>0, <2>0, <3>1 DEF Written, Own, Folded
      <4>2. ~ timed'
        BY <1>1, <4>1
      <4> QED  BY <1>0, <1>1, <1>2, <1>3, <4>1, <4>2 DEF Own, Folded
    <3>2. CASE epoch \notin DOMAIN sink
      BY <1>0, <1>1, <1>2, <3>2 DEF Own
    <3> QED  BY <3>1, <3>2
  <2> QED  BY <2>1, <2>3, <2>4, <2>5 DEF Written
<1> QED  BY <1>2, <1>5, <1>6 DEF AccountInv

(* The fold emits what a run from the snapshot would, unless somebody is   *)
(* idle.                                                                   *)
LEMMA FoldAccount ==
    ASSUME AccountInv, Fold, FoldInv'
    PROVE  AccountInv'
<1>0. FoldInv /\ pc = "fold" /\ pc' = "sink" /\ admitted \in [1..MaxEpochs -> SUBSET Rows]
  BY DEF AccountInv, Fold
<1> DEFINE away  == idle \ {r.p : r \in log[epoch]}
           highs == Observed(maxima, log[epoch])
<1>1. /\ UNCHANGED <<interval, log, chain, sink, committed, crashes, kept, admitted>>
      /\ wm' = Refreshed(highs, away, wm) /\ timed' = (timed \/ away # {})
  BY DEF Fold, durable, history
<1>2. Settled' = Settled /\ epoch' = epoch
  BY <1>1 DEF Settled, epoch
<1>3. /\ RestoredOpen' = RestoredOpen /\ RestoredBound' = RestoredBound /\ Ckpt' = Ckpt /\ RunFront' = RunFront
      /\ RunKept' = RunKept /\ RunOut' = RunOut
  BY <1>1, RunsKept
<1>4. ASSUME Settled PROVE Ledger' /\ AsRestored' /\ Split' /\ Written'
  <2>0. Ledger /\ AsRestored /\ Written
    BY <1>4 DEF AccountInv
  <2>1. Ledger' /\ AsRestored'
    BY <1>0, <1>1, <2>0, LedgerKept DEF AsRestored
  <2>2. open = RestoredOpen /\ bound = RestoredBound /\ kept = admitted[epoch]
    BY <1>0, <2>0 DEF AsRestored
  <2> DEFINE pairs == RestoredOpen \cup Contrib(epoch, kept)
  <2>3. /\ delta' = Contrib(epoch, kept)
        /\ out' = {x \in pairs : x[1] <= bound'}
        /\ open' = {x \in pairs : x[1] > bound'}
        /\ \A x \in pairs : x[1] > RestoredBound
        /\ bound' >= RestoredBound
        /\ out' = IF pairs # {} /\ wm' # None /\ Bucket(wm' - Width) # Bucket(RestoredBound)
                  THEN Closed(pairs, wm' - Width) ELSE {}
    BY <1>0, <1>4, <2>2, FoldSplits
  <2>4. ASSUME interval = 0, ~ timed' PROVE out' = RunOut
    <3>1. ~ timed /\ away = {}
      BY <1>1, <2>4
    <3>2. maxima = Ckpt.maxima /\ wm = RunFront /\ kept = RunKept
      BY <1>0, <2>0, <2>4, <3>1 DEF AsRestored
    <3>3. pairs = RunPairs /\ wm' = RunEnd
      BY <1>1, <3>1, <3>2 DEF RunPairs, RunEnd
    <3> HIDE DEF pairs
    <3> QED  BY <2>3, <3>3 DEF RunOut
  <2>5. Split'
    <3>1. admitted'[epoch'] = kept
      BY <1>1, <1>2, <2>2
    <3> HIDE DEF away, highs
    <3> QED  BY <1>0, <1>1, <1>2, <1>3, <2>3, <2>4, <3>1 DEF Split, Contrib
  <2>6. Final'
    BY <1>1, <1>3, <2>0 DEF Written, Final
  <2>7. Own'
    <3>1. CASE epoch \in DOMAIN sink
      <4>1. Len(log) = epoch /\ interval = 0 /\ idle = {} /\ sink[epoch] = RunOut /\ ~ timed
        BY <1>0, <2>0, <3>1 DEF Written, Own, Folded
      <4>2. ~ timed'
        BY <1>1, <4>1
      <4>3. out' = RunOut
        BY <2>4, <4>1, <4>2
      <4> QED  BY <1>0, <1>1, <1>2, <4>1, <4>2, <4>3 DEF Own, Folded
    <3>2. CASE epoch \notin DOMAIN sink
      BY <1>0, <1>1, <1>2, <3>2 DEF Own
    <3> QED  BY <3>1, <3>2
  <2> QED  BY <2>1, <2>5, <2>6, <2>7 DEF Written
<1> QED  BY <1>0, <1>1, <1>2, <1>4 DEF AccountInv

(* A new write is of windows past the restored bound, which no committed   *)
(* write has.                                                              *)
LEMMA PublishAccount ==
    ASSUME AccountInv, Publish, FoldInv'
    PROVE  AccountInv'
<1>0. /\ FoldInv /\ Shapes /\ pc = "sink" /\ pc' = "commit" /\ admitted \in [1..MaxEpochs -> SUBSET Rows]
      /\ committed \in Nat /\ epoch \in Nat /\ epoch = committed + 1 /\ Len(log) = epoch /\ DOMAIN sink \subseteq 1..epoch
      /\ epoch \in 1..MaxEpochs
  BY ShapeFacts DEF AccountInv, FoldInv, FrontierInv, Publish, Shapes, InEpoch, epoch
<1>1. UNCHANGED <<interval, log, chain, committed, crashes, admitted, open, bound, delta, out, timed>>
  BY DEF Publish, fold, history
<1>2. Settled' = Settled /\ epoch' = epoch
  BY <1>1 DEF Settled, epoch
<1>3. RestoredOpen' = RestoredOpen /\ RestoredBound' = RestoredBound /\ RunOut' = RunOut
  BY <1>1, RunsKept
<1>4. \/ sink' = sink /\ (out = {} \/ epoch \in DOMAIN sink)
      \/ /\ epoch \notin DOMAIN sink
         /\ sink' = [e \in DOMAIN sink \cup {epoch} |-> IF e = epoch THEN out ELSE sink[e]]
  BY DEF Publish
<1>5. ASSUME Settled PROVE Ledger' /\ AsRestored' /\ Split' /\ Written'
  <2>0. Ledger /\ Split /\ Final /\ Own
    BY <1>5 DEF AccountInv, Written
  <2>1. \A e \in 1..committed : (e \in DOMAIN sink' <=> e \in DOMAIN sink)
                                 /\ (e \in DOMAIN sink => sink'[e] = sink[e])
    BY <1>0, <1>4
  <2>2. Ledger' /\ AsRestored'
    BY <1>0, <1>1, <2>0, <2>1, LedgerKept DEF AsRestored
  <2>3. Split'
    BY <1>0, <1>1, <1>2, <1>3, <2>0 DEF Split, Folded
  <2>4. CASE sink' = sink /\ (out = {} \/ epoch \in DOMAIN sink)
    BY <1>0, <1>1, <1>2, <1>3, <2>0, <2>2, <2>3, <2>4 DEF Final, Own, Written, Folded
  <2>5. CASE /\ epoch \notin DOMAIN sink
             /\ sink' = [e \in DOMAIN sink \cup {epoch} |-> IF e = epoch THEN out ELSE sink[e]]
    <3>1. /\ DOMAIN sink' = DOMAIN sink \cup {epoch} /\ sink'[epoch] = out
          /\ \A e \in DOMAIN sink : e \in 1..committed /\ sink'[e] = sink[e]
      BY <1>0, <2>5
    <3>2. \A x \in out : x[1] \in Nat /\ x[1] > RestoredBound
      <4>1. admitted[epoch] \in SUBSET Rows
        BY <1>0
      <4>2. RestoredOpen \cup delta \subseteq Pairs
        BY <1>0, RestoredFacts DEF Shapes
      <4>3. \A x \in out : x \in RestoredOpen \cup delta /\ x[1] > RestoredBound
        BY <1>0, <2>0 DEF Split, Folded
      <4> QED  BY <4>2, <4>3 DEF Pairs
    <3>3. \A e \in DOMAIN sink : \A x \in sink[e] : x[1] \in Nat /\ x[1] <= RestoredBound
      BY <3>1, <2>0 DEF Final
    <3>4. \A d, e \in DOMAIN sink : \A x \in sink[d], y \in sink[e] : x[1] = y[1] => d = e
      BY <2>0 DEF Final
    <3>5. RestoredBound \in Nat
      BY <1>0, RestoredFacts
    <3>6. Final'
      <4>1. ASSUME NEW e \in DOMAIN sink'
            PROVE  /\ (\A x \in sink'[e] : x[1] \in Nat)
                   /\ e <= committed => \A x \in sink'[e] : x[1] <= RestoredBound
        BY <1>0, <3>1, <3>2, <3>3
      <4>2. ASSUME NEW d \in DOMAIN sink', NEW e \in DOMAIN sink', NEW x \in sink'[d], NEW y \in sink'[e],
                   x[1] = y[1]
            PROVE  d = e
        <5>1. CASE d = epoch /\ e # epoch
          BY <3>1, <3>2, <3>3, <3>5, <4>2, <5>1
        <5>2. CASE d # epoch /\ e = epoch
          BY <3>1, <3>2, <3>3, <3>5, <4>2, <5>2
        <5>3. CASE d # epoch /\ e # epoch
          BY <3>1, <3>4, <4>2, <5>3
        <5> QED  BY <5>1, <5>2, <5>3
      <4> QED  BY <1>1, <1>3, <4>1, <4>2 DEF Final
    <3>7. Own'
      BY <1>0, <1>1, <1>2, <3>1 DEF Own, Folded
    <3> QED  BY <2>2, <2>3, <3>6, <3>7 DEF Written
  <2> QED  BY <1>4, <2>4, <2>5
<1> QED  BY <1>0, <1>1, <1>2, <1>5 DEF AccountInv

(* A commit makes what the fold holds what would be restored, by a         *)
(* snapshot or by a delta, and what it wrote an emitted contribution.      *)
LEMMA CommitAccount ==
    ASSUME AccountInv, Commit, FoldInv'
    PROVE  AccountInv'
<1>0. /\ FoldInv /\ Shapes /\ pc = "commit" /\ pc' = "next" /\ admitted \in [1..MaxEpochs -> SUBSET Rows]
      /\ committed \in Nat /\ epoch \in Nat /\ epoch = committed + 1 /\ Len(log) = epoch /\ DOMAIN sink \subseteq 1..epoch
      /\ epoch \in 1..MaxEpochs /\ MaxEpochs \in Nat
  BY ShapeFacts DEF AccountInv, FoldInv, FrontierInv, Commit, Shapes, InEpoch, epoch
<1>1. /\ UNCHANGED <<interval, log, sink, maxima, wm, idle, open, bound, crashes, admitted>>
      /\ committed' = epoch
      /\ chain' = IF ExtendsChain THEN Append(chain, Part(delta)) ELSE <<Part(open)>>
  BY DEF Commit, tracker, fold, history
<1>2. Settled' = Settled /\ epoch' = epoch + 1
  BY <1>1 DEF Settled, epoch
<1>3. ASSUME Settled PROVE Ledger' /\ AsRestored' /\ Split' /\ Written'
  <2>0. Ledger /\ Final /\ Own
    BY <1>3 DEF AccountInv, Written
  <2>1. /\ delta = Contrib(epoch, admitted[epoch])
        /\ out = {x \in RestoredOpen \cup delta : x[1] <= bound}
        /\ open = {x \in RestoredOpen \cup delta : x[1] > bound}
        /\ bound >= RestoredBound
    BY <1>0, <1>3 DEF AccountInv, Split, Folded
  <2>2. /\ RestoredBound \in Nat /\ bound \in Nat /\ RestoredOpen \cup delta \subseteq Pairs
        /\ Part(delta) \in Parts /\ Part(open) \in Parts
    BY <1>0, RestoredFacts DEF Shapes, Part, Parts
  <2>3. RestoredBound' = bound /\ RestoredOpen' = open
    <3>1. CASE ExtendsChain
      <4>1. chain' = Append(chain, Part(delta)) /\ Part(delta).bound = bound /\ Part(delta).rows = delta
        BY <1>1, <3>1 DEF Part
      <4> QED  BY <1>0, <2>1, <2>2, <4>1, DeltaRestores
    <3>2. CASE ~ ExtendsChain
      <4>1. chain' = <<Part(open)>> /\ Part(open).bound = bound /\ Part(open).rows = open
        BY <1>1, <3>2 DEF Part
      <4>2. {x \in open : x[1] > bound} = open
        BY <2>1
      <4> QED  BY <2>2, <4>1, <4>2, SnapshotRestores
    <3> QED  BY <3>1, <3>2
  <2>4. interval = 0 => Ckpt'.maxima = maxima /\ Ckpt'.wm = wm
    <3> SUFFICES ASSUME interval = 0 PROVE Ckpt' = Part(open)
      BY DEF Part
    <3>1. chain' = <<Part(open)>>
      BY <1>1 DEF ExtendsChain
    <3> QED  BY <2>2, <3>1, SnapshotRestores
  <2>5. epoch \in DOMAIN sink => sink[epoch] = out
    BY <1>0, <2>0 DEF Own, Folded
  <2>6. epoch \notin DOMAIN sink => out = {}
    BY <1>0, <2>0 DEF Own
  <2>7. Emitted' = Emitted \cup out
    <3>1. 1..epoch = 1..committed \cup {epoch}
      BY <1>0
    <3>2. Emitted' = UNION {sink[e] : e \in DOMAIN sink \cap (1..committed \cup {epoch})}
      BY <1>1, <3>1 DEF Emitted
    <3> QED  BY <2>5, <2>6, <3>2 DEF Emitted
  <2>8. Contributions(committed)' = Contributions(committed) \cup delta
    <3>1. Contributions(committed)' = Contributions(committed + 1)
      BY <1>0, <1>1 DEF Contributions
    <3>2. committed <= MaxEpochs /\ committed < MaxEpochs
      BY <1>0
    <3> QED  BY <1>0, <2>1, <3>1, <3>2, ContributionsFacts
  <2>9. RestoredOpen \cup delta = open \cup out /\ open \cap out = {}
    <3>1. \A x \in RestoredOpen \cup delta : x[1] \in Nat
      BY <2>2 DEF Pairs
    <3> QED  BY <2>1, <2>2, <3>1
  <2>10. delta \cap Emitted = {}
    <3>1. \A x \in Emitted : x[2].e <= committed /\ x \in Pairs
      <4>1. committed <= MaxEpochs
        BY <1>0
      <4> QED  BY <1>0, <2>0, <4>1, ContributionsFacts DEF Ledger
    <3>2. \A x \in delta : x[2].e = epoch
      BY <1>0, <2>1, ContribFacts
    <3> QED  BY <1>0, <3>1, <3>2
  <2>11. Ledger'
    BY <2>0, <2>3, <2>7, <2>8, <2>9, <2>10 DEF Ledger
  <2>12. AsRestored' /\ Split'
    BY <1>0, <1>1, <2>3, <2>4 DEF AsRestored, Split, Folded
  <2>13. \A e \in DOMAIN sink : \A x \in sink[e] : x[1] \in Nat /\ x[1] <= bound
    <3> SUFFICES ASSUME NEW e \in DOMAIN sink, NEW x \in sink[e] PROVE x[1] \in Nat /\ x[1] <= bound
      OBVIOUS
    <3>1. x[1] \in Nat
      BY <2>0 DEF Final
    <3>2. CASE e = epoch
      BY <2>1, <2>5, <3>1, <3>2
    <3>3. CASE e # epoch
      <4>1. e <= committed
        BY <1>0, <3>3
      <4>2. x[1] <= RestoredBound
        BY <2>0, <4>1 DEF Final
      <4> QED  BY <2>1, <2>2, <3>1, <4>2
    <3> QED  BY <3>2, <3>3
  <2>14. Final'
    BY <1>1, <2>0, <2>3, <2>13 DEF Final
  <2>15. Own'
    <3>1. epoch + 1 \notin 1..epoch
      BY <1>0
    <3> QED  BY <1>0, <1>1, <1>2, <3>1 DEF Own
  <2> QED  BY <2>11, <2>12, <2>14, <2>15 DEF Written
<1> QED  BY <1>0, <1>1, <1>2, <1>3 DEF AccountInv

(* A crash leaves an uncommitted write only where a replay will make it    *)
(* again.                                                                  *)
LEMMA CrashAccount ==
    ASSUME ~ TimedReplay, AccountInv, Crash, FoldInv'
    PROVE  AccountInv'
<1>0. admitted \in [1..MaxEpochs -> SUBSET Rows] /\ pc' = "down" /\ Shapes
  BY DEF AccountInv, Crash, FoldInv, FrontierInv
<1>1. /\ UNCHANGED <<interval, log, chain, sink, committed, admitted>>
      /\ maxima' = Empty /\ wm' = None /\ idle' = {} /\ bound' = None /\ open' = {} /\ crashes' = crashes + 1
      /\ epoch \notin DOMAIN sink \/ ~ timed
  BY DEF Crash, durable, history
<1>2. epoch' = epoch
  BY <1>1 DEF epoch
<1>3. RestoredOpen' = RestoredOpen /\ RestoredBound' = RestoredBound /\ RunOut' = RunOut
  BY <1>1, RunsKept
<1>4. ASSUME Settled' PROVE Ledger' /\ AsRestored' /\ Split' /\ Written'
  <2>1. interval = 0
    <3>1. crashes \in Nat
      BY <1>0 DEF Shapes
    <3> QED  BY <1>1, <1>4, <3>1 DEF Settled
  <2>2. Ledger /\ Split /\ Final /\ Own
    BY <2>1 DEF AccountInv, Written, Settled
  <2>3. Ledger' /\ AsRestored' /\ Split'
    BY <1>0, <1>1, <2>2, LedgerKept DEF AsRestored, Split, Folded
  <2>4. Final'
    BY <1>1, <1>3, <2>2 DEF Final
  <2>5. ASSUME epoch \in DOMAIN sink PROVE Len(log) = epoch /\ sink[epoch] = RunOut
    <3>1. CASE pc \in Folded
      <4>1. ~ timed
        BY <1>1, <2>5
      <4> QED  BY <2>1, <2>2, <2>5, <3>1, <4>1 DEF Own, Split
    <3>2. CASE pc \notin Folded
      BY <2>2, <2>5, <3>2 DEF Own
    <3> QED  BY <3>1, <3>2
  <2>6. Own'
    BY <1>0, <1>1, <1>2, <1>3, <2>1, <2>5 DEF Own, Folded
  <2> QED  BY <2>3, <2>4, <2>6 DEF Written
<1> QED  BY <1>0, <1>1, <1>4 DEF AccountInv

(* A restart from a snapshot has the state of the commit that wrote it.    *)
LEMMA RestartAccount ==
    ASSUME AccountInv, Restart, FoldInv'
    PROVE  AccountInv'
<1>0. /\ admitted \in [1..MaxEpochs -> SUBSET Rows] /\ pc = "down" /\ pc' = "next" /\ Shapes /\ SweptInv
      /\ crashes \in Nat /\ crashes > 0
  BY DEF AccountInv, Restart, FoldInv, FrontierInv, Shapes
<1>1. UNCHANGED <<interval, log, chain, sink, committed, admitted, crashes>>
  BY DEF Restart, durable, history
<1>2. epoch' = epoch /\ Settled' = Settled
  BY <1>1 DEF epoch, Settled
<1>3. RestoredOpen' = RestoredOpen /\ RestoredBound' = RestoredBound /\ RunOut' = RunOut /\ Ckpt' = Ckpt
  BY <1>1, RunsKept
<1>4. ASSUME Settled PROVE Ledger' /\ AsRestored' /\ Split' /\ Written'
  <2>1. interval = 0
    BY <1>0, <1>4 DEF Settled
  <2>2. Ledger /\ AsRestored /\ Final /\ Own
    BY <1>4 DEF AccountInv, Written
  <2>3. maxima = Empty /\ wm = None /\ idle = {} /\ bound = None /\ open = {}
    BY <1>0, <2>2 DEF AsRestored
  <2>4. open' = RestoredOpen /\ bound' = RestoredBound /\ maxima' = Ckpt.maxima /\ wm' = Ckpt.wm /\ idle' = {}
    <3>1. CASE chain = <<>>
      <4>1. UNCHANGED <<open, bound, maxima, wm, idle>>
        BY <3>1 DEF Restart, tracker, fold
      <4>2. DOMAIN chain = {}
        BY <3>1
      <4>3. RestoredOpen = {} /\ RestoredBound = None
        BY <4>2 DEF RestoredOpen, RestoredBound
      <4> QED  BY <2>3, <3>1, <4>1, <4>3 DEF Ckpt
    <3>2. CASE chain # <<>>
      <4>1. Ckpt = chain[1] /\ RestoredTracker = chain[1] /\ 1 \in DOMAIN chain
        BY <1>0, <3>2, ShapeFacts DEF Ckpt, RestoredTracker
      <4>2. Refreshed(Ckpt.maxima, {}, Ckpt.wm) = Ckpt.wm
        BY <1>0, <1>4, <2>1, <4>1 DEF SweptInv, PartSwept, Ripe
      <4>3. /\ maxima' = Ckpt.maxima /\ wm' = Refreshed(Ckpt.maxima, {}, Ckpt.wm)
            /\ open' = RestoredOpen /\ bound' = RestoredBound /\ idle' = idle
        BY <3>2, <4>1 DEF Restart
      <4> QED  BY <2>3, <4>2, <4>3
    <3> QED  BY <3>1, <3>2
  <2>5. Ledger' /\ AsRestored' /\ Split'
    BY <1>0, <1>1, <1>3, <2>2, <2>4, LedgerKept DEF AsRestored, Split, Folded
  <2>6. Final'
    BY <1>1, <1>3, <2>2 DEF Final
  <2>7. Own'
    BY <1>0, <1>1, <1>2, <1>3, <2>2, <2>4 DEF Own, Folded
  <2> QED  BY <2>5, <2>6, <2>7 DEF Written
<1> QED  BY <1>0, <1>1, <1>2, <1>4 DEF AccountInv

(* The ledger's invariant is inductive.                                    *)
LEMMA AccountStep ==
    ASSUME ~ TimedReplay
    PROVE  AccountInv /\ [Next]_vars => AccountInv'
<1> SUFFICES ASSUME AccountInv, [Next]_vars PROVE AccountInv'
  OBVIOUS
<1>1. FoldInv'
  BY FoldStep DEF AccountInv
<1>2. CASE Filter
  BY <1>1, <1>2, FilterAccount
<1>3. CASE Fold
  BY <1>1, <1>3, FoldAccount
<1>4. CASE Publish
  BY <1>1, <1>4, PublishAccount
<1>5. CASE Commit
  BY <1>1, <1>5, CommitAccount
<1>6. CASE Crash
  BY <1>1, <1>6, CrashAccount
<1>7. CASE Restart
  BY <1>1, <1>7, RestartAccount
<1>8. CASE Plan \/ Replay \/ UNCHANGED vars \/ \E p \in Partitions : Expire(p)
  BY <1>1, <1>8, QuietAccount
<1>9. CASE Finished
  BY <1>1, <1>9, QuietAccount DEF Finished
<1> QED  BY <1>2, <1>3, <1>4, <1>5, <1>6, <1>7, <1>8, <1>9 DEF Next

(* Every contribution of an admitted row is in the checkpoint, if its      *)
(* window is open, or in the one committed write that emitted it, and no   *)
(* second batch id writes a window again: for every read, window shape,    *)
(* lateness and number of failures, in a deployment where idleness does    *)
(* not change an epoch the sink already holds (take_delta and              *)
(* restore_parts against _evict).                                          *)
THEOREM AccountedHolds ==
    ASSUME ~ TimedReplay
    PROVE  Spec => []Accounted
<1>1. Init => AccountInv
  BY AccountInit
<1>2. AccountInv /\ [Next]_vars => AccountInv'
  BY AccountStep
<1>3. AccountInv => Accounted
  <2> SUFFICES ASSUME AccountInv, Settled
               PROVE  LET emitted  == Emitted
                          restored == IF chain = <<>> THEN {} ELSE RestoredOpen
                      IN  /\ restored \cup emitted = Contributions(committed)
                          /\ restored \cap emitted = {}
                          /\ \A x \in emitted : Cardinality(Writers(x[1])) = 1
    BY DEF Accounted, Emitted
  <2>1. Ledger /\ Final
    BY DEF AccountInv, Written
  <2>2. (IF chain = <<>> THEN {} ELSE RestoredOpen) = RestoredOpen
    <3>1. chain = <<>> => DOMAIN chain = {}
      OBVIOUS
    <3> QED  BY <3>1 DEF RestoredOpen
  <2>3. ASSUME NEW x \in Emitted PROVE Cardinality(Writers(x[1])) = 1
    <3>1. PICK e \in DOMAIN sink : x \in sink[e]
      BY <2>3 DEF Emitted
    <3>2. Writers(x[1]) = {e}
      BY <2>1, <3>1 DEF Writers, Final
    <3> QED  BY <3>2, FS_Singleton
  <2> QED  BY <2>1, <2>2, <2>3 DEF Ledger
<1> QED  BY <1>1, <1>2, <1>3, PTL DEF Spec
=============================================================================
