------------------------- MODULE ResultCache_proofs -------------------------
(***************************************************************************)
(* What the result cache's lock windows keep true for any number of        *)
(* threads, keys, results and budgets: a key is in one tier, the eviction  *)
(* clock is a floor under every resident entry, a key that no two threads  *)
(* wrote at once never serves an old result, and each tier's bytes are     *)
(* accounted for and within its budget.                                    *)
(***************************************************************************)
EXTENDS ResultCache, TLAPS, FiniteSetTheorems, NaturalsInduction, WellFoundedInduction

-----------------------------------------------------------------------------
(* The inductive invariant.                                                *)

Entry   == [ver : Nat, size : Nat, cost : Nat \ {0}, level : Levels, hits : Nat, base : Nat]
Copies  == [key : Keys, ver : Nat, size : Nat]
Victims == [key : Keys, item : Items]

(* Where a thread goes once its victims are demoted, and the steps of an   *)
(* operation with what the thread carries from one to the next.            *)
Nexts == {Idle} \cup [at : {"release"}, key : Keys] \cup [at : {"resize"}, disk : DiskBudgets]
Reads == [at : {"read"}, key : Keys] \cup [at : {"recheck"}, key : Keys, table : SUBSET Copies]
Puts  == [at : {"insert", "write", "record"}, key : Keys, item : Items]
Walks == [at : {"victim", "spill", "file"}, next : Nexts, queue : Seq(Victims) \ {<<>>}]
Jobs  == Nexts \cup Reads \cup Puts \cup Walks \cup {[at |-> "wipe"]}

Shapes ==
    /\ DOMAIN entries \subseteq Keys /\ entries \in [DOMAIN entries -> Entry]
    /\ DOMAIN demoted \subseteq Keys /\ demoted \in [DOMAIN demoted -> Records]
    /\ clock \in Nat /\ ops \in Nat
    /\ disk \in Seq(Copies)
    /\ \A i, j \in DOMAIN disk : disk[i].key = disk[j].key => i = j
    /\ job \in [Threads -> Jobs]

(* The versions of k on disk, among a thread's victims, and in the table a *)
(* thread read.                                                            *)
CopiesOf(d, k) == {d[i].ver : i \in {n \in DOMAIN d : d[n].key = k}}

Vers(j, k) ==
    IF j.at \in {"victim", "spill", "file"}
    THEN {j.queue[i].item.ver : i \in {n \in DOMAIN j.queue : j.queue[n].key = k}} ELSE {}

Tables(j, k) == IF j.at = "recheck" /\ j.key = k THEN {x.ver : x \in j.table} ELSE {}

(* A thread about to record its copy of k: a write-through, a demotion.    *)
Recording(j, k) == j.at = "record" /\ j.key = k
Filing(j, k) == j.at = "file" /\ Head(j.queue).key = k

(* What k may stand for: the version last stored, and one already written  *)
(* through whose record is to follow.                                      *)
Pending(k) == {job[u].item.ver : u \in {t \in Threads : Recording(job[t], k)}}
Current(k) == {last[k]} \cup Pending(k)

(* The disk copy of k is, or is about to be, reachable.                    *)
Awaited(k) == k \in DOMAIN demoted \/ \E u \in Threads : Filing(job[u], k)

KeyInv(k) ==
    /\ k \in DOMAIN entries => entries[k].ver \in Current(k)
    /\ \A u \in Threads : Vers(job[u], k) \subseteq Current(k)
    /\ Awaited(k) => /\ CopiesOf(disk, k) \subseteq Current(k)
                     /\ \A u \in Threads : Tables(job[u], k) \subseteq Current(k)
    /\ \A u \in Threads : Recording(job[u], k) => CopiesOf(disk, k) \subseteq {job[u].item.ver}

TierInv == Shapes /\ OneTier /\ ClockIsFloor

CacheInv == TierInv /\ \A k \in Keys \ raced : KeyInv(k)

-----------------------------------------------------------------------------
(* The model's operators.                                                  *)

(* A set of naturals with an element has a smallest one, and Min is it.    *)
LEMMA MinOfNat ==
    ASSUME NEW S, S \subseteq Nat, S # {}
    PROVE  Min(S) \in S
<1>1. PICK x \in S : \A y \in S : ~ (<<y, x>> \in OpToRel(<, Nat))
  BY NatLessThanWellFounded, WFMin
<1>2. \A y \in S : ~ (y < x)
  BY <1>1 DEF OpToRel
<1>3. \A y \in S : x <= y
  BY <1>2
<1> QED  BY <1>3 DEF Min

(* A function without a key.                                               *)
LEMMA WithoutFacts ==
    ASSUME NEW f, NEW k, NEW V, f \in [DOMAIN f -> V]
    PROVE  LET g == Without(f, k)
           IN  DOMAIN g = DOMAIN f \ {k} /\ g \in [DOMAIN g -> V] /\ \A x \in DOMAIN g : g[x] = f[x]
BY DEF Without, Restrict

(* An entry's value is at least the clock of its last access.              *)
LEMMA ValueFacts ==
    ASSUME NEW e \in Entry
    PROVE  Value(e) \in Nat /\ Value(e) >= e.base
<1>1. /\ e.size \in Nat /\ e.cost \in Nat /\ e.hits \in Nat /\ e.base \in Nat /\ Scale \in Nat
  BY CacheAssumption DEF Entry
<1> DEFINE m == IF e.size >= 1 THEN e.size ELSE 1
<1>2. m \in {1, e.size} /\ m \in Nat /\ m >= 1 /\ \A y \in {1, e.size} : m >= y
  BY <1>1
<1>3. \A x \in {1, e.size} : (\A y \in {1, e.size} : x >= y) => x >= 1 /\ x \in Nat
  BY <1>1
<1> HIDE DEF m
<1>4. Max({1, e.size}) \in Nat /\ Max({1, e.size}) >= 1
  <2>1. Max({1, e.size}) \in {1, e.size} /\ \A y \in {1, e.size} : Max({1, e.size}) >= y
    BY <1>2 DEF Max
  <2> QED  BY <1>3, <2>1
<1> DEFINE n == e.cost * (e.hits + 1) * Scale
           d == Max({1, e.size})
<1>5. n \in Nat
  <2>1. \A a, b, c \in Nat : a * (b + 1) * c \in Nat
    OBVIOUS
  <2> QED  BY <1>1, <2>1
<1>6. n \div d \in Nat
  <2> HIDE DEF n, d
  <2>1. d \in Nat /\ d >= 1
    BY <1>4 DEF d
  <2> QED  BY <1>5, <2>1, Z3
<1>7. Value(e) = e.base + n \div d
  BY DEF Value
<1> HIDE DEF n, d
<1> QED  BY <1>1, <1>6, <1>7

(* What a thread carries, by where it is.                                  *)
LEMMA JobFacts ==
    ASSUME NEW j \in Jobs
    PROVE  /\ j.at = "read" => j = [at |-> "read", key |-> j.key] /\ j.key \in Keys
           /\ j.at = "recheck" => j.key \in Keys /\ j.table \subseteq Copies
           /\ j.at = "release" => j.key \in Keys
           /\ j.at = "resize" => j.disk \in DiskBudgets
           /\ j.at \in {"insert", "write", "record"} => j \in Puts
           /\ j.at \in {"victim", "spill", "file"} => j \in Walks
BY DEF Jobs, Nexts, Reads, Puts, Walks, Idle

(* A walk of the victims has one at its head, and goes on with the rest.   *)
LEMMA WalkFacts ==
    ASSUME NEW j \in Walks
    PROVE  /\ Head(j.queue) = j.queue[1] /\ 1 \in DOMAIN j.queue
           /\ \A i \in DOMAIN j.queue : j.queue[i].key \in Keys /\ j.queue[i].item \in Items
           /\ Rest(j) \in Jobs
           /\ Rest(j).at \in {"victim", "idle", "release", "resize"}
           /\ \A k : Vers(Rest(j), k) \subseteq Vers(j, k)
<1>1. /\ j.queue \in Seq(Victims) /\ j.queue # <<>> /\ j.next \in Nexts /\ j.at \in {"victim", "spill", "file"}
      /\ DOMAIN j.queue = 1..Len(j.queue) /\ Len(j.queue) \in Nat /\ Len(j.queue) > 0
      /\ j = [at |-> j.at, next |-> j.next, queue |-> j.queue]
  BY DEF Walks
<1>2. /\ Head(j.queue) = j.queue[1] /\ 1 \in DOMAIN j.queue
      /\ \A i \in DOMAIN j.queue : j.queue[i].key \in Keys /\ j.queue[i].item \in Items
  <2>1. Head(j.queue) = j.queue[1] /\ 1 \in DOMAIN j.queue
    BY <1>1
  <2>2. \A i \in DOMAIN j.queue : j.queue[i] \in Victims
    BY <1>1
  <2> QED  BY <2>1, <2>2 DEF Victims
<1>3. CASE Len(j.queue) = 1
  <2>1. Rest(j) = j.next /\ j.next.at \in {"idle", "release", "resize"}
    BY <1>1, <1>3 DEF Rest, Nexts, Idle
  <2>2. \A k : Vers(j.next, k) = {}
    BY <2>1 DEF Vers
  <2> QED  BY <1>1, <1>2, <2>1, <2>2 DEF Jobs
<1>4. CASE Len(j.queue) # 1
  <2> DEFINE q == Tail(j.queue)
  <2>1. q \in Seq(Victims) /\ q # <<>> /\ \A i \in DOMAIN q : i + 1 \in DOMAIN j.queue /\ q[i] = j.queue[i + 1]
    <3> DEFINE s == j.queue
    <3>1. s \in Seq(Victims) /\ Len(s) \in Nat /\ Len(s) > 1
      <4>1. Len(s) \in Nat /\ Len(s) > 0 /\ Len(s) # 1
        BY <1>1, <1>4
      <4>2. s \in Seq(Victims)
        BY <1>1
      <4>3. \A n \in Nat : n > 0 /\ n # 1 => n > 1
        OBVIOUS
      <4> HIDE DEF s
      <4> QED  BY <4>1, <4>2, <4>3
    <3> HIDE DEF s
    <3>2. Tail(s) \in Seq(Victims) /\ Len(Tail(s)) = Len(s) - 1 /\ DOMAIN Tail(s) = 1..(Len(s) - 1)
      BY <3>1
    <3>3. \A i \in 1..(Len(s) - 1) : i + 1 \in DOMAIN s /\ Tail(s)[i] = s[i + 1]
      BY <3>1
    <3>4. Tail(s) # <<>>
      <4>1. \A n \in Nat : n > 1 => n - 1 # 0
        OBVIOUS
      <4>2. Len(Tail(s)) # 0
        BY <3>1, <3>2, <4>1
      <4>3. Len(<<>>) = 0
        OBVIOUS
      <4> QED  BY <4>2, <4>3
    <3> QED  BY <3>2, <3>3, <3>4 DEF s
  <2>2. Rest(j) = [at |-> "victim", next |-> j.next, queue |-> q]
    BY <1>1, <1>4 DEF Rest
  <2>3. Rest(j) \in Walks /\ Rest(j).at = "victim" /\ Rest(j).queue = q
    BY <1>1, <2>1, <2>2 DEF Walks
  <2>4. ASSUME NEW k PROVE Vers(Rest(j), k) \subseteq Vers(j, k)
    BY <1>1, <2>1, <2>3 DEF Vers
  <2> QED  BY <1>2, <2>3, <2>4 DEF Jobs
<1> QED  BY <1>3, <1>4

(* A part of the disk tier holds copies the whole did.                     *)
Tier(d) == d \in Seq(Copies) /\ \A i, j \in DOMAIN d : d[i].key = d[j].key => i = j

(* The disk without k.                                                     *)
LEMMA ReleasedFacts ==
    ASSUME Tier(disk), NEW k
    PROVE  /\ Tier(Released(k)) /\ CopiesOf(Released(k), k) = {}
           /\ \A m : CopiesOf(Released(k), m) \subseteq CopiesOf(disk, m)
           /\ \A i \in DOMAIN Released(k) : Released(k)[i].key # k
           /\ \A i \in DOMAIN Released(k) : \E n \in DOMAIN disk : Released(k)[i] = disk[n]
<1>1. CASE ~ OnDisk(k)
  BY <1>1 DEF Released, OnDisk, Keyed, CopiesOf, Tier
<1>2. CASE OnDisk(k)
  <2> DEFINE s == Slot(k)
             r == SubSeq(disk, 1, s - 1) \o SubSeq(disk, s + 1, Len(disk))
  <2>1. Released(k) = r
    BY <1>2 DEF Released, RemoveAt
  <2>2. s \in DOMAIN disk /\ disk[s].key = k /\ disk \in Seq(Copies)
    BY <1>2 DEF Slot, OnDisk, Keyed, Tier
  <2>3. s \in 1..Len(disk) /\ Len(disk) \in Nat /\ DOMAIN disk = 1..Len(disk)
    BY <2>2
  <2> HIDE DEF s
  <2>4. /\ r \in Seq(Copies) /\ Len(r) = Len(disk) - 1 /\ DOMAIN r = 1..(Len(disk) - 1)
        /\ \A i \in DOMAIN r : r[i] = IF i < s THEN disk[i] ELSE disk[i + 1]
    <3> DEFINE a == SubSeq(disk, 1, s - 1)
               b == SubSeq(disk, s + 1, Len(disk))
    <3>1. a \in Seq(Copies) /\ Len(a) = s - 1 /\ \A i \in 1..(s - 1) : a[i] = disk[i]
      BY <2>2, <2>3
    <3>2. b \in Seq(Copies) /\ Len(b) = Len(disk) - s /\ \A i \in 1..(Len(disk) - s) : b[i] = disk[i + s]
      BY <2>2, <2>3
    <3> HIDE DEF a, b
    <3>3. /\ a \o b \in Seq(Copies) /\ Len(a \o b) = Len(disk) - 1 /\ DOMAIN (a \o b) = 1..(Len(disk) - 1)
      <4>1. a \o b \in Seq(Copies) /\ Len(a \o b) = Len(a) + Len(b)
        BY <3>1, <3>2
      <4>2. Len(a \o b) = Len(disk) - 1
        BY <2>3, <3>1, <3>2, <4>1
      <4> QED  BY <4>1, <4>2
    <3>4. ASSUME NEW i \in 1..(Len(disk) - 1)
          PROVE  (a \o b)[i] = IF i < s THEN disk[i] ELSE disk[i + 1]
      <4>1. CASE i < s
        BY <2>3, <3>1, <3>2, <4>1
      <4>2. CASE ~ (i < s)
        <5>1. (a \o b)[i] = b[i - (s - 1)] /\ i - (s - 1) \in 1..(Len(disk) - s)
          BY <2>3, <3>1, <3>2, <4>2
        <5>2. b[i - (s - 1)] = disk[i - (s - 1) + s] /\ i - (s - 1) + s = i + 1
          BY <2>3, <3>2, <5>1
        <5> QED  BY <4>2, <5>1, <5>2
      <4> QED  BY <4>1, <4>2
    <3> QED  BY <3>3, <3>4 DEF a, b
  <2> HIDE DEF r
  <2> DEFINE from(i) == IF i < s THEN i ELSE i + 1
  <2>5. \A i \in DOMAIN r : from(i) \in DOMAIN disk /\ from(i) # s /\ r[i] = disk[from(i)]
    BY <2>3, <2>4
  <2>6. \A i, j \in DOMAIN r : from(i) = from(j) => i = j
    BY <2>3, <2>4
  <2> HIDE DEF from
  <2>7. \A i \in DOMAIN r : r[i].key # k
    BY <2>2, <2>5 DEF Tier
  <2>8. \A i, j \in DOMAIN r : r[i].key = r[j].key => i = j
    BY <2>5, <2>6 DEF Tier
  <2>9. CopiesOf(r, k) = {} /\ \A m : CopiesOf(r, m) \subseteq CopiesOf(disk, m)
    BY <2>5, <2>7 DEF CopiesOf
  <2>10. \A i \in DOMAIN r : \E n \in DOMAIN disk : r[i] = disk[n]
    BY <2>5
  <2> QED  BY <2>1, <2>4, <2>7, <2>8, <2>9, <2>10 DEF Tier
<1> QED  BY <1>1, <1>2

(* The disk shrunk to a budget.                                            *)
LEMMA ShrunkFacts ==
    ASSUME NEW d, Tier(d), NEW target
    PROVE  Tier(Shrunk(d, target)) /\ \A m : CopiesOf(Shrunk(d, target), m) \subseteq CopiesOf(d, m)
<1> DEFINE after(n) == SubSeq(d, n + 1, Len(d))
           S == {n \in 0..Len(d) : n = Len(d) \/ DiskHeld(after(n)) <= target}
           n == Min(S)
<1>1. d \in Seq(Copies) /\ Len(d) \in Nat /\ DOMAIN d = 1..Len(d)
  BY DEF Tier
<1>2. S \subseteq Nat /\ Len(d) \in S
  BY <1>1
<1>3. n \in 0..Len(d)
  <2>1. n \in S
    <3> HIDE DEF S
    <3> QED  BY <1>2, MinOfNat
  <2> QED  BY <2>1
<1>4. Shrunk(d, target) = SubSeq(d, n + 1, Len(d))
  BY DEF Shrunk
<1> HIDE DEF n, S
<1> DEFINE s == SubSeq(d, n + 1, Len(d))
<1>5. s \in Seq(Copies) /\ \A i \in DOMAIN s : i \in Nat /\ i + n \in DOMAIN d /\ s[i] = d[i + n]
  BY <1>1, <1>3
<1>6. n \in Nat
  BY <1>1, <1>3
<1> HIDE DEF s
<1>7. \A i, j \in DOMAIN s : s[i].key = s[j].key => i = j
  <2> SUFFICES ASSUME NEW i \in DOMAIN s, NEW j \in DOMAIN s, s[i].key = s[j].key PROVE i = j
    OBVIOUS
  <2>1. i + n = j + n
    BY <1>5 DEF Tier
  <2> QED  BY <1>5, <1>6, <2>1
<1>8. \A m : CopiesOf(s, m) \subseteq CopiesOf(d, m)
  BY <1>5 DEF CopiesOf
<1> QED  BY <1>4, <1>5, <1>7, <1>8 DEF Tier, s

(* A copy appended to a disk that has none of its key.                     *)
LEMMA AppendFacts ==
    ASSUME NEW d, Tier(d), NEW c \in Copies, \A i \in DOMAIN d : d[i].key # c.key
    PROVE  /\ Tier(Append(d, c)) /\ CopiesOf(Append(d, c), c.key) = {c.ver}
           /\ \A m : m # c.key => CopiesOf(Append(d, c), m) = CopiesOf(d, m)
<1> DEFINE a == Append(d, c)
           n == Len(d) + 1
<1>1. /\ d \in Seq(Copies) /\ a \in Seq(Copies) /\ DOMAIN d = 1..Len(d) /\ DOMAIN a = DOMAIN d \cup {n}
      /\ n \notin DOMAIN d /\ a[n] = c /\ \A i \in DOMAIN d : a[i] = d[i]
  BY DEF Tier
<1> HIDE DEF a, n
<1>2. \A i, j \in DOMAIN a : a[i].key = a[j].key => i = j
  BY <1>1 DEF Tier
<1>3. CopiesOf(a, c.key) = {c.ver} /\ \A m : m # c.key => CopiesOf(a, m) = CopiesOf(d, m)
  BY <1>1 DEF CopiesOf
<1> QED  BY <1>1, <1>2, <1>3 DEF Tier, a

(* put() on disk: the key's only copy is the new one, if it stayed.        *)
LEMMA WrittenFacts ==
    ASSUME Tier(disk), NEW k \in Keys, NEW item \in Items
    PROVE  /\ Tier(Written(k, item)) /\ CopiesOf(Written(k, item), k) \subseteq {item.ver}
           /\ \A m : m # k => CopiesOf(Written(k, item), m) \subseteq CopiesOf(disk, m)
<1> DEFINE c == [key |-> k, ver |-> item.ver, size |-> item.size]
           r == Released(k)
           a == Append(r, c)
<1>1. c \in Copies /\ c.key = k /\ c.ver = item.ver
  BY DEF Copies, Items
<1>2. Tier(r) /\ (\A i \in DOMAIN r : r[i].key # k) /\ \A m : CopiesOf(r, m) \subseteq CopiesOf(disk, m)
  BY ReleasedFacts
<1> HIDE DEF c, r
<1>3. Tier(a) /\ CopiesOf(a, k) = {item.ver} /\ \A m : m # k => CopiesOf(a, m) = CopiesOf(r, m)
  <2>1. \A i \in DOMAIN r : r[i].key # c.key
    BY <1>1, <1>2
  <2>2. /\ Tier(a) /\ CopiesOf(a, c.key) = {c.ver}
        /\ \A m : m # c.key => CopiesOf(a, m) = CopiesOf(r, m)
    BY <1>1, <1>2, <2>1, AppendFacts
  <2> HIDE DEF a
  <2> QED  BY <1>1, <2>2
<1> HIDE DEF a
<1>4. Tier(Shrunk(a, diskBudget)) /\ \A m : CopiesOf(Shrunk(a, diskBudget), m) \subseteq CopiesOf(a, m)
  BY <1>3, ShrunkFacts
<1>5. Written(k, item) = Shrunk(a, diskBudget)
  BY DEF Written, a, r, c
<1> QED  BY <1>2, <1>3, <1>4, <1>5

(* _evict_to() keeps the entries it does not evict, moves the clock to the *)
(* last victim's value, which none of them is below, and leaves the thread *)
(* with copies of entries it evicted, or at its next step.                 *)
LEMMA TrimFacts ==
    ASSUME NEW t, NEW e, NEW u, NEW target, NEW next \in Nexts, Trim(t, e, u, target, next),
           e \in [DOMAIN e -> Entry], DOMAIN e \subseteq Keys,
           clock \in Nat, \A k \in DOMAIN e : Value(e[k]) >= clock
    PROVE  /\ DOMAIN entries' \subseteq DOMAIN e /\ entries' \in [DOMAIN entries' -> Entry]
           /\ \A k \in DOMAIN entries' : entries'[k] = e[k]
           /\ clock' \in Nat /\ \A k \in DOMAIN entries' : Value(entries'[k]) >= clock'
           /\ \E j \in Jobs : /\ job' = [job EXCEPT ![t] = j]
                              /\ j.at \in {"victim", "idle", "release", "resize"}
                              /\ \A k : \A v \in Vers(j, k) : k \in DOMAIN e /\ v = e[k].ver
<1> DEFINE after(q) == IF next.at = "release" /\ next.key \in Range(q) THEN Idle ELSE next
           queue(q) == [i \in DOMAIN q |-> [key |-> q[i], item |-> Copy(e[q[i]])]]
           jobs(q)  == IF q = <<>> THEN after(q) ELSE [at |-> "victim", next |-> after(q), queue |-> queue(q)]
<1>1. PICK q \in Evictions(e, u, target) :
           /\ entries' = Restrict(e, DOMAIN e \ Range(q))
           /\ clock' = IF q = <<>> THEN clock ELSE Value(e[Last(q)])
           /\ job' = [job EXCEPT ![t] = jobs(q)]
  BY DEF Trim, Continue
<1>2. /\ q \in Seq(DOMAIN e) /\ DOMAIN q = 1..Len(q) /\ Len(q) \in Nat
      /\ \A i \in DOMAIN q : \A k \in DOMAIN e \ Range(q) : Value(e[q[i]]) <= Value(e[k])
  <2>1. Cardinality(DOMAIN e) \in Nat
    BY CacheAssumption, FS_Subset, FS_CardinalityType
  <2>2. PICK m \in 0..Cardinality(DOMAIN e) : q \in [1..m -> DOMAIN e]
    BY DEF Evictions, SeqOf
  <2>3. m \in Nat
    BY <2>1
  <2>4. q \in Seq(DOMAIN e) /\ DOMAIN q = 1..Len(q) /\ Len(q) \in Nat
    BY <2>2, <2>3
  <2>5. \A i \in DOMAIN q : \A k \in DOMAIN e \ Range(q) : Value(e[q[i]]) <= Value(e[k])
    BY DEF Evictions
  <2> QED  BY <2>4, <2>5
<1>3. \A k \in DOMAIN e : e[k] \in Entry /\ Value(e[k]) \in Nat
  BY ValueFacts
<1>4. /\ DOMAIN entries' = DOMAIN e \ Range(q) /\ \A k \in DOMAIN entries' : entries'[k] = e[k]
      /\ entries' \in [DOMAIN entries' -> Entry]
  BY <1>1, <1>3 DEF Restrict
<1>5. clock' \in Nat /\ \A k \in DOMAIN entries' : Value(entries'[k]) >= clock'
  <2>1. CASE q = <<>>
    BY <1>1, <1>4, <2>1
  <2>2. CASE q # <<>>
    <3>1. Len(q) \in DOMAIN q /\ q[Len(q)] \in DOMAIN e /\ Last(q) = q[Len(q)]
      <4>1. Len(q) > 0
        BY <1>2, <2>2
      <4> QED  BY <1>2, <4>1 DEF Last
    <3>2. clock' = Value(e[q[Len(q)]]) /\ clock' \in Nat
      BY <1>1, <1>3, <2>2, <3>1
    <3>3. \A k \in DOMAIN e \ Range(q) : Value(e[q[Len(q)]]) <= Value(e[k])
      BY <1>2, <3>1
    <3> QED  BY <1>3, <1>4, <3>2, <3>3
  <2> QED  BY <2>1, <2>2
<1>6. after(q) \in Nexts
  BY DEF Nexts
<1>7. CASE q = <<>>
  <2>1. jobs(q) = after(q) /\ after(q).at \in {"idle", "release", "resize"}
    BY <1>6, <1>7 DEF Nexts, Idle
  <2>2. \A k : Vers(jobs(q), k) = {}
    BY <2>1 DEF Vers
  <2>3. jobs(q) \in Jobs
    BY <1>6, <2>1 DEF Jobs
  <2> QED  BY <1>1, <1>4, <1>5, <2>1, <2>2, <2>3
<1>8. CASE q # <<>>
  <2>1. \A i \in DOMAIN q : q[i] \in DOMAIN e /\ queue(q)[i] = [key |-> q[i], item |-> Copy(e[q[i]])]
    BY <1>2
  <2>2. \A k \in DOMAIN e : Copy(e[k]) \in Items /\ Copy(e[k]).ver = e[k].ver
    BY <1>3 DEF Copy, Items, Entry
  <2>3. queue(q) \in Seq(Victims) /\ DOMAIN queue(q) = DOMAIN q /\ queue(q) # <<>>
    <3>1. \A i \in DOMAIN q : [key |-> q[i], item |-> Copy(e[q[i]])] \in Victims
      BY <2>1, <2>2 DEF Victims
    <3>2. queue(q) \in [1..Len(q) -> Victims]
      BY <1>2, <3>1
    <3>3. 1 \in DOMAIN q
      <4>1. Len(q) > 0
        BY <1>2, <1>8
      <4> QED  BY <1>2, <4>1
    <3> QED  BY <1>2, <3>2, <3>3
  <2> HIDE DEF queue, after
  <2>4. jobs(q) = [at |-> "victim", next |-> after(q), queue |-> queue(q)]
    BY <1>8
  <2>5. jobs(q) \in Walks /\ jobs(q).at = "victim" /\ jobs(q).queue = queue(q)
    BY <1>6, <2>3, <2>4 DEF Walks
  <2> HIDE DEF jobs
  <2>6. ASSUME NEW k, NEW v \in Vers(jobs(q), k) PROVE k \in DOMAIN e /\ v = e[k].ver
    <3>1. PICK i \in DOMAIN queue(q) : queue(q)[i].key = k /\ v = queue(q)[i].item.ver
      BY <2>5, <2>6 DEF Vers
    <3>2. q[i] = k /\ v = Copy(e[k]).ver /\ k \in DOMAIN e
      BY <2>1, <2>3, <3>1
    <3> QED  BY <2>2, <3>2
  <2> QED  BY <1>1, <1>4, <1>5, <2>5, <2>6 DEF Jobs
<1> QED  BY <1>7, <1>8

-----------------------------------------------------------------------------
(* How a step of one thread keeps what is said of a key.                   *)

(* A thread that does not hold k carries and awaits no copy of it.         *)
LEMMA HoldsFacts ==
    ASSUME Shapes, NEW u \in Threads, NEW k, ~ Holds(u, k)
    PROVE  /\ Vers(job[u], k) = {} /\ Tables(job[u], k) = {}
           /\ ~ Filing(job[u], k) /\ ~ Recording(job[u], k)
<1>1. job[u] \in Jobs
  BY DEF Shapes
<1>2. Vers(job[u], k) = {} /\ Tables(job[u], k) = {} /\ ~ Recording(job[u], k)
  BY DEF Holds, Vers, Tables, Recording
<1>3. ~ Filing(job[u], k)
  <2> SUFFICES ASSUME job[u].at = "file" PROVE Head(job[u].queue).key # k
    BY DEF Filing
  <2>1. Head(job[u].queue) = job[u].queue[1] /\ 1 \in DOMAIN job[u].queue
    BY <1>1, JobFacts, WalkFacts
  <2> QED  BY <2>1 DEF Holds
<1> QED  BY <1>2, <1>3

(* A step that writes no version of k: what the thread now carries of k it *)
(* carried before, found in memory or read from the disk.                  *)
LEMMA QuietKey ==
    ASSUME Shapes, NEW k, KeyInv(k), NEW t \in Threads, NEW j, job' = [job EXCEPT ![t] = j],
           last'[k] = last[k], ~ Recording(job[t], k), ~ Recording(j, k),
           k \in DOMAIN entries' => entries'[k].ver \in Current(k),
           Vers(j, k) \subseteq Current(k),
           Tables(j, k) \subseteq CopiesOf(disk, k) \cup Tables(job[t], k),
           CopiesOf(disk', k) \subseteq CopiesOf(disk, k),
           k \in DOMAIN demoted' => Awaited(k), Filing(j, k) => Awaited(k)
    PROVE  KeyInv(k)'
<1>1. \A u \in Threads : job'[u] = IF u = t THEN j ELSE job[u]
  BY DEF Shapes
<1>2. Pending(k)' = Pending(k)
  BY <1>1 DEF Pending
<1>3. Current(k)' = Current(k)
  BY <1>2 DEF Current
<1>4. Awaited(k)' => Awaited(k)
  BY <1>1 DEF Awaited
<1>5. \A u \in Threads : Vers(job'[u], k) \subseteq Current(k)
  BY <1>1 DEF KeyInv
<1>6. Awaited(k) => /\ CopiesOf(disk', k) \subseteq Current(k)
                    /\ \A u \in Threads : Tables(job'[u], k) \subseteq Current(k)
  BY <1>1 DEF KeyInv
<1>7. \A u \in Threads : Recording(job'[u], k) => CopiesOf(disk', k) \subseteq {job'[u].item.ver}
  BY <1>1 DEF KeyInv
<1> QED  BY <1>3, <1>4, <1>5, <1>6, <1>7 DEF KeyInv

(* A write of k while no other thread holds it, so that k stays unraced.   *)
LEMMA SoloKeyAt ==
    ASSUME Shapes, NEW k, NEW t \in Threads, NEW j, job'[t] = j,
           \A u \in Threads \ {t} : job'[u] = job[u],
           \A u \in Threads \ {t} : ~ Holds(u, k),
           NEW cur, cur = {last'[k]} \cup (IF Recording(j, k) THEN {j.item.ver} ELSE {}),
           k \in DOMAIN entries' => entries'[k].ver \in cur,
           Vers(j, k) \subseteq cur,
           k \in DOMAIN demoted' \/ Filing(j, k) => CopiesOf(disk', k) \subseteq cur /\ Tables(j, k) \subseteq cur,
           Recording(j, k) => CopiesOf(disk', k) \subseteq {j.item.ver}
    PROVE  KeyInv(k)'
<1>1. job'[t] = j /\ \A u \in Threads \ {t} : job'[u] = job[u]
  OBVIOUS
<1>2. \A u \in Threads \ {t} : /\ Vers(job'[u], k) = {} /\ Tables(job'[u], k) = {}
                               /\ ~ Filing(job'[u], k) /\ ~ Recording(job'[u], k)
  BY <1>1, HoldsFacts
<1>3. Pending(k)' = IF Recording(j, k) THEN {j.item.ver} ELSE {}
  BY <1>1, <1>2 DEF Pending
<1>4. Current(k)' = cur
  BY <1>3 DEF Current
<1>5. Awaited(k)' => k \in DOMAIN demoted' \/ Filing(j, k)
  BY <1>1, <1>2 DEF Awaited
<1>6. \A u \in Threads : Vers(job'[u], k) \subseteq cur
  BY <1>1, <1>2
<1>7. Awaited(k)' => /\ CopiesOf(disk', k) \subseteq cur
                     /\ \A u \in Threads : Tables(job'[u], k) \subseteq cur
  BY <1>1, <1>2, <1>5
<1>8. \A u \in Threads : Recording(job'[u], k) => CopiesOf(disk', k) \subseteq {job'[u].item.ver}
  BY <1>1, <1>2
<1> QED  BY <1>4, <1>6, <1>7, <1>8 DEF KeyInv

(* The same for a step of thread t.                                        *)
LEMMA SoloKey ==
    ASSUME Shapes, NEW k, NEW t \in Threads, NEW j, job' = [job EXCEPT ![t] = j],
           \A u \in Threads \ {t} : ~ Holds(u, k),
           NEW cur, cur = {last'[k]} \cup (IF Recording(j, k) THEN {j.item.ver} ELSE {}),
           k \in DOMAIN entries' => entries'[k].ver \in cur,
           Vers(j, k) \subseteq cur,
           k \in DOMAIN demoted' \/ Filing(j, k) => CopiesOf(disk', k) \subseteq cur /\ Tables(j, k) \subseteq cur,
           Recording(j, k) => CopiesOf(disk', k) \subseteq {j.item.ver}
    PROVE  KeyInv(k)'
<1>1. job'[t] = j /\ \A u \in Threads \ {t} : job'[u] = job[u]
  BY DEF Shapes
<1> QED  BY <1>1, SoloKeyAt

(* A key stays unraced only when nobody else held it as it was written.    *)
LEMMA TouchFacts ==
    ASSUME NEW t, NEW ks, Touch(t, ks), NEW k, k \notin raced'
    PROVE  k \notin raced /\ (k \in ks => \A u \in Threads \ {t} : ~ Holds(u, k))
BY DEF Touch

-----------------------------------------------------------------------------
(* The steps.                                                              *)

(* Nothing is cached.                                                      *)
LEMMA CacheInit == Init => CacheInv
<1> SUFFICES ASSUME Init PROVE CacheInv
  OBVIOUS
<1>1. /\ DOMAIN entries = {} /\ entries \in [DOMAIN entries -> Entry]
      /\ DOMAIN demoted = {} /\ demoted \in [DOMAIN demoted -> Records]
      /\ disk \in Seq(Copies) /\ DOMAIN disk = {}
  BY DEF Init
<1>2. job \in [Threads -> Jobs] /\ \A t \in Threads : job[t] = Idle
  BY DEF Init, Jobs, Nexts
<1>3. Shapes
  BY <1>1, <1>2 DEF Init, Shapes
<1>4. OneTier /\ ClockIsFloor
  BY <1>1 DEF OneTier, ClockIsFloor
<1>5. ASSUME NEW k \in Keys PROVE KeyInv(k)
  <2>1. \A u \in Threads : /\ Vers(job[u], k) = {} /\ Tables(job[u], k) = {} /\ ~ Filing(job[u], k)
                           /\ ~ Recording(job[u], k)
    BY <1>2 DEF Idle, Vers, Tables, Filing, Recording
  <2>2. ~ Awaited(k)
    BY <1>1, <2>1 DEF Awaited
  <2> QED  BY <1>1, <2>1, <2>2 DEF KeyInv
<1> QED  BY <1>3, <1>4, <1>5 DEF CacheInv, TierInv

(* Where a thread may be next.                                             *)
LEMMA StepShapes ==
    ASSUME Shapes, NEW t \in Threads, NEW j \in Jobs, job' = [job EXCEPT ![t] = j]
    PROVE  job' \in [Threads -> Jobs] /\ job'[t] = j
BY DEF Shapes

(* A trim of entries that share no key with the records.                   *)
LEMMA TierTrim ==
    ASSUME TierInv, NEW t \in Threads, NEW e, NEW u, NEW target, NEW next \in Nexts,
           Trim(t, e, u, target, next),
           e \in [DOMAIN e -> Entry], DOMAIN e \subseteq Keys, \A k \in DOMAIN e : Value(e[k]) >= clock,
           DOMAIN demoted' \subseteq Keys, demoted' \in [DOMAIN demoted' -> Records],
           DOMAIN demoted' \cap DOMAIN e = {},
           disk' = disk, ops' \in Nat
    PROVE  TierInv'
<1>0. Shapes /\ clock \in Nat
  BY DEF TierInv, Shapes
<1>1. /\ DOMAIN entries' \subseteq DOMAIN e /\ entries' \in [DOMAIN entries' -> Entry]
      /\ clock' \in Nat /\ \A k \in DOMAIN entries' : Value(entries'[k]) >= clock'
      /\ \E j \in Jobs : job' = [job EXCEPT ![t] = j]
  BY <1>0, TrimFacts
<1>2. job' \in [Threads -> Jobs]
  BY <1>0, <1>1, StepShapes
<1>3. Shapes'
  BY <1>0, <1>1, <1>2 DEF Shapes
<1>4. OneTier' /\ ClockIsFloor'
  BY <1>1 DEF OneTier, ClockIsFloor
<1> QED  BY <1>3, <1>4 DEF TierInv

(* What every step starts from.                                            *)
LEMMA CacheFacts ==
    ASSUME CacheInv, NEW t \in Threads
    PROVE  /\ TierInv /\ Shapes /\ Tier(disk) /\ ops \in Nat /\ ops + 1 \in Nat
           /\ entries \in [DOMAIN entries -> Entry] /\ demoted \in [DOMAIN demoted -> Records]
           /\ DOMAIN entries \subseteq Keys /\ DOMAIN demoted \subseteq Keys
           /\ DOMAIN entries \cap DOMAIN demoted = {} /\ clock \in Nat
           /\ \A k \in DOMAIN entries : Value(entries[k]) >= clock
           /\ \A k \in Keys \ raced : KeyInv(k)
           /\ job \in [Threads -> Jobs] /\ job[t] \in Jobs /\ Idle \in Jobs
<1>1. TierInv /\ Shapes
  BY DEF CacheInv, TierInv
<1>2. Tier(disk)
  BY <1>1 DEF Shapes, Tier
<1>3. Idle \in Jobs
  BY DEF Jobs, Nexts
<1> QED  BY <1>1, <1>2, <1>3 DEF CacheInv, TierInv, Shapes, OneTier, ClockIsFloor

(* A step after which the thread carries no more victims than before, no   *)
(* table, and nothing to record, and no copy was added to a tier.          *)
LEMMA QuietStep ==
    ASSUME CacheInv, NEW t \in Threads, NEW j \in Jobs, job' = [job EXCEPT ![t] = j],
           job[t].at # "record", j.at \notin {"recheck", "record", "file"},
           \A m : Vers(j, m) \subseteq Vers(job[t], m),
           UNCHANGED <<entries, clock, last>>, raced \subseteq raced', ops' \in Nat,
           DOMAIN demoted' \subseteq DOMAIN demoted, demoted' \in [DOMAIN demoted' -> Records],
           Tier(disk'), \A m : CopiesOf(disk', m) \subseteq CopiesOf(disk, m)
    PROVE  CacheInv'
<1>1. job' \in [Threads -> Jobs]
  BY CacheFacts, StepShapes
<1>2. TierInv'
  <2>1. Shapes'
    BY <1>1, CacheFacts DEF Shapes, Tier
  <2> QED  BY <2>1, CacheFacts DEF TierInv, OneTier, ClockIsFloor
<1>3. ASSUME NEW m \in Keys \ raced' PROVE KeyInv(m)'
  <2>1. KeyInv(m) /\ Shapes
    BY CacheFacts
  <2>2. Tables(j, m) = {} /\ ~ Filing(j, m) /\ ~ Recording(j, m) /\ ~ Recording(job[t], m)
    BY DEF Tables, Filing, Recording
  <2>3. (m \in DOMAIN entries' => entries'[m].ver \in Current(m)) /\ Vers(j, m) \subseteq Current(m)
    BY <2>1 DEF KeyInv
  <2>4. m \in DOMAIN demoted' => Awaited(m)
    BY DEF Awaited
  <2> QED  BY <2>1, <2>2, <2>3, <2>4, QuietKey
<1> QED  BY <1>2, <1>3 DEF CacheInv

(* No victims outside a walk.                                              *)
LEMMA NoVictims ==
    ASSUME NEW j, j.at \notin {"victim", "spill", "file"}
    PROVE  \A m : Vers(j, m) = {}
BY DEF Vers

(* An access counts a hit and takes the clock.                             *)
LEMMA AccessedFacts ==
    ASSUME NEW e \in Entry, NEW c \in Nat
    PROVE  LET f == [e EXCEPT !.hits = @ + 1, !.base = c]
           IN  f \in Entry /\ f.base = c /\ f.ver = e.ver
<1>1. e.hits \in Nat
  BY DEF Entry
<1>2. e.hits + 1 \in Nat
  BY <1>1
<1> DEFINE h == e.hits + 1
<1> HIDE DEF h
<1>3. [e EXCEPT !.hits = h, !.base = c] \in Entry
  BY <1>2 DEF Entry, h
<1>4. [e EXCEPT !.hits = h, !.base = c].base = c /\ [e EXCEPT !.hits = h, !.base = c].ver = e.ver
  BY DEF Entry
<1> QED  BY <1>3, <1>4 DEF h

(* An access in memory, or the start of a read.                            *)
LEMMA GetStep ==
    ASSUME CacheInv, NEW t \in Threads, NEW k \in Keys, Get(t, k)
    PROVE  CacheInv'
<1>1. /\ job[t] = Idle /\ ops' = ops + 1
      /\ UNCHANGED <<demoted, clock, disk, last, raced>>
  BY DEF Get, Start
<1>2. CASE k \in DOMAIN entries
  <2> DEFINE f == [entries[k] EXCEPT !.hits = @ + 1, !.base = clock]
  <2>1. entries' = [entries EXCEPT ![k] = f] /\ job' = job
    BY <1>2, CacheFacts DEF Get, Entry
  <2>2. f \in Entry /\ f.base = clock /\ f.ver = entries[k].ver
    <3>1. entries[k] \in Entry /\ clock \in Nat
      BY <1>2, CacheFacts
    <3> QED  BY <3>1, AccessedFacts
  <2> HIDE DEF f
  <2>3. /\ DOMAIN entries' = DOMAIN entries /\ entries' \in [DOMAIN entries' -> Entry]
        /\ \A m \in DOMAIN entries : entries'[m] = IF m = k THEN f ELSE entries[m]
    BY <2>1, <2>2, CacheFacts
  <2>4. TierInv'
    <3>1. Shapes'
      BY <1>1, <2>1, <2>3, CacheFacts DEF Shapes
    <3>2. Value(f) >= clock
      BY <2>2, ValueFacts
    <3> QED  BY <1>1, <2>3, <3>1, <3>2, CacheFacts DEF TierInv, OneTier, ClockIsFloor
  <2>5. ASSUME NEW m \in Keys \ raced' PROVE KeyInv(m)'
    <3>1. KeyInv(m) /\ Current(m)' = Current(m) /\ Awaited(m)' = Awaited(m)
      BY <1>1, <2>1, CacheFacts DEF Current, Pending, Awaited
    <3>2. m \in DOMAIN entries => entries'[m].ver = entries[m].ver
      BY <2>2, <2>3
    <3> QED  BY <1>1, <2>1, <2>3, <3>1, <3>2 DEF KeyInv
  <2> QED  BY <2>4, <2>5 DEF CacheInv
<1>3. CASE k \notin DOMAIN entries
  <2> DEFINE j == [at |-> "read", key |-> k]
  <2>1. entries' = entries /\ job' = [job EXCEPT ![t] = j]
    BY <1>3 DEF Get, Continue
  <2>2. j \in Jobs
    BY DEF Jobs, Reads
  <2>3. job[t].at # "record" /\ j.at = "read" /\ \A m : Vers(j, m) = {}
    BY <1>1, NoVictims DEF Idle
  <2> HIDE DEF j
  <2> QED  BY <1>1, <2>1, <2>2, <2>3, CacheFacts, QuietStep
<1> QED  BY <1>2, <1>3

(* The first comparison of a put with the budget.                          *)
LEMMA PutStep ==
    ASSUME CacheInv, NEW t \in Threads, NEW k \in Keys, NEW r \in Results, Put(t, k, r)
    PROVE  CacheInv'
<1> DEFINE item == [ver |-> ops + 1, size |-> r.size, cost |-> r.cost, level |-> r.level]
<1>1. /\ job[t] = Idle /\ ops' = ops + 1 /\ UNCHANGED <<entries, demoted, clock, disk, last, raced>>
  BY DEF Put, Start, store
<1>2. PICK label \in {"insert", "write"} : job' = [job EXCEPT ![t] = [at |-> label, key |-> k, item |-> item]]
  BY DEF Put, Continue
<1> DEFINE j == [at |-> label, key |-> k, item |-> item]
<1>3. item \in Items
  BY CacheFacts, CacheAssumption DEF Items
<1> HIDE DEF item
<1>4. j \in Puts /\ j.at = label
  BY <1>3 DEF Puts
<1>5. j \in Jobs /\ job[t].at # "record" /\ j.at \notin {"recheck", "record", "file"} /\ \A m : Vers(j, m) = {}
  BY <1>1, <1>4, NoVictims DEF Jobs, Idle
<1>6. job' = [job EXCEPT ![t] = j]
  BY <1>2
<1> HIDE DEF j
<1> QED  BY <1>1, <1>5, <1>6, CacheFacts, QuietStep

(* The disk copies that are dropped: of one key, all of them, or those a   *)
(* smaller tier has no room for.                                           *)
LEMMA DropStep ==
    ASSUME CacheInv, NEW t \in Threads, Release(t) \/ Wipe(t) \/ Resize(t)
    PROVE  CacheInv'
<1>1. /\ UNCHANGED <<entries, demoted, clock, ops, last, raced>> /\ job' = [job EXCEPT ![t] = Idle]
      /\ job[t].at \in {"release", "wipe", "resize"}
  BY DEF Release, Wipe, Resize, store, Continue
<1>2. Tier(disk') /\ \A m : CopiesOf(disk', m) \subseteq CopiesOf(disk, m)
  <2>1. CASE Release(t)
    BY <2>1, CacheFacts, ReleasedFacts DEF Release
  <2>2. CASE Wipe(t)
    <3>1. disk' = <<>>
      BY <2>2 DEF Wipe
    <3> QED  BY <3>1 DEF Tier, CopiesOf
  <2>3. CASE Resize(t)
    BY <2>3, CacheFacts, ShrunkFacts DEF Resize
  <2> QED  BY <2>1, <2>2, <2>3
<1>3. Idle.at = "idle" /\ \A m : Vers(Idle, m) = {}
  BY NoVictims DEF Idle
<1> QED  BY <1>1, <1>2, <1>3, CacheFacts, QuietStep

(* A victim is looked at.                                                  *)
LEMMA VictimStep ==
    ASSUME CacheInv, NEW t \in Threads, Victim(t)
    PROVE  CacheInv'
<1>1. /\ UNCHANGED <<entries, demoted, clock, disk, ops, last, raced>> /\ job[t].at = "victim"
      /\ \/ job' = [job EXCEPT ![t] = [job[t] EXCEPT !.at = "spill"]]
         \/ job' = [job EXCEPT ![t] = Rest(job[t])]
  BY DEF Victim, store, Continue
<1>2. job[t] \in Walks
  BY <1>1, CacheFacts, JobFacts
<1>3. CASE job' = [job EXCEPT ![t] = Rest(job[t])]
  <2>1. /\ Rest(job[t]) \in Jobs /\ Rest(job[t]).at \in {"victim", "idle", "release", "resize"}
        /\ \A k : Vers(Rest(job[t]), k) \subseteq Vers(job[t], k)
    BY <1>2, WalkFacts
  <2> QED  BY <1>1, <1>3, <2>1, CacheFacts, QuietStep
<1>4. CASE job' = [job EXCEPT ![t] = [job[t] EXCEPT !.at = "spill"]]
  <2> DEFINE j == [job[t] EXCEPT !.at = "spill"]
  <2>1. j \in Walks /\ j.at = "spill" /\ j.queue = job[t].queue
    BY <1>2 DEF Walks
  <2>2. \A k : Vers(j, k) \subseteq Vers(job[t], k)
    BY <1>1, <2>1 DEF Vers
  <2>3. j \in Jobs
    BY <2>1 DEF Jobs
  <2> HIDE DEF j
  <2>4. job' = [job EXCEPT ![t] = j]
    BY <1>4 DEF j
  <2> QED  BY <1>1, <2>1, <2>2, <2>3, <2>4, CacheFacts, QuietStep
<1> QED  BY <1>1, <1>3, <1>4

(* The disk read: what a thread reads is a copy the disk holds.            *)
LEMMA ReadStep ==
    ASSUME CacheInv, NEW t \in Threads, Read(t)
    PROVE  CacheInv'
<1> DEFINE k == job[t].key
<1>1. /\ UNCHANGED <<entries, demoted, clock, ops, last, raced>> /\ job[t].at = "read"
  BY DEF Read, store
<1>2. k \in Keys
  BY <1>1, CacheFacts, JobFacts
<1> HIDE DEF k
<1>3. PICK table \in SUBSET Copies :
           /\ job' = [job EXCEPT ![t] = [at |-> "recheck", key |-> k, table |-> table]]
           /\ \A x \in table : x.ver \in CopiesOf(disk, k)
           /\ Tier(disk') /\ \A m : CopiesOf(disk', m) \subseteq CopiesOf(disk, m)
  <2>1. CASE /\ job' = [job EXCEPT ![t] = [at |-> "recheck", key |-> k, table |-> {}]]
             /\ disk' = Released(k)
    <3>1. Tier(disk') /\ \A m : CopiesOf(disk', m) \subseteq CopiesOf(disk, m)
      BY <2>1, CacheFacts, ReleasedFacts
    <3>2. {} \in SUBSET Copies /\ \A x \in {} : x.ver \in CopiesOf(disk, k)
      OBVIOUS
    <3> QED  BY <2>1, <3>1, <3>2
  <2>2. CASE /\ OnDisk(k) /\ disk' = Append(Released(k), Stored(k))
             /\ job' = [job EXCEPT ![t] = [at |-> "recheck", key |-> k, table |-> {Stored(k)}]]
    <3> DEFINE r == Released(k)
               c == Stored(k)
    <3>1. Slot(k) \in DOMAIN disk /\ disk[Slot(k)].key = k
      BY <2>2 DEF OnDisk, Slot, Keyed
    <3>2. c \in Copies /\ c.key = k /\ c.ver \in CopiesOf(disk, k)
      BY <3>1, CacheFacts DEF Stored, CopiesOf, Tier
    <3>3. Tier(r) /\ (\A i \in DOMAIN r : r[i].key # c.key) /\ \A m : CopiesOf(r, m) \subseteq CopiesOf(disk, m)
      BY <3>2, CacheFacts, ReleasedFacts
    <3> HIDE DEF r, c
    <3>4. /\ Tier(Append(r, c)) /\ CopiesOf(Append(r, c), c.key) = {c.ver}
          /\ \A m : m # c.key => CopiesOf(Append(r, c), m) = CopiesOf(r, m)
      BY <3>2, <3>3, AppendFacts
    <3>5. disk' = Append(r, c)
      BY <2>2 DEF r, c
    <3>6. Tier(disk') /\ \A m : CopiesOf(disk', m) \subseteq CopiesOf(disk, m)
      BY <3>2, <3>3, <3>4, <3>5
    <3>7. job' = [job EXCEPT ![t] = [at |-> "recheck", key |-> k, table |-> {c}]]
      BY <2>2 DEF c
    <3>8. {c} \in SUBSET Copies /\ \A x \in {c} : x.ver \in CopiesOf(disk, k)
      BY <3>2
    <3> QED  BY <3>6, <3>7, <3>8
  <2> QED  BY <2>1, <2>2 DEF Read, Continue, k
<1> DEFINE j == [at |-> "recheck", key |-> k, table |-> table]
<1>4. j \in Jobs /\ j.at = "recheck" /\ j.key = k /\ j.table = table /\ job' = [job EXCEPT ![t] = j]
  BY <1>2, <1>3 DEF Jobs, Reads
<1> HIDE DEF j
<1>5. TierInv'
  <2>1. Shapes'
    BY <1>1, <1>3, <1>4, CacheFacts, StepShapes DEF Shapes, Tier
  <2> QED  BY <1>1, <2>1, CacheFacts DEF TierInv, OneTier, ClockIsFloor
<1>6. ASSUME NEW m \in Keys \ raced' PROVE KeyInv(m)'
  <2>1. KeyInv(m) /\ Shapes
    BY <1>1, CacheFacts
  <2>2. Vers(j, m) = {} /\ ~ Filing(j, m) /\ ~ Recording(j, m) /\ ~ Recording(job[t], m)
    BY <1>1, <1>4 DEF Vers, Filing, Recording
  <2>3. Tables(j, m) \subseteq CopiesOf(disk, m)
    BY <1>3, <1>4 DEF Tables
  <2>4. m \in DOMAIN entries' => entries'[m].ver \in Current(m)
    BY <1>1, <2>1 DEF KeyInv
  <2>5. m \in DOMAIN demoted' => Awaited(m)
    BY <1>1 DEF Awaited
  <2> QED  BY <1>1, <1>3, <1>4, <2>1, <2>2, <2>3, <2>4, <2>5, QuietKey
<1> QED  BY <1>5, <1>6 DEF CacheInv

(* A trim evicts what the memory tier holds, or is about to hold.          *)
LEMMA TrimKey ==
    ASSUME CacheInv, NEW t \in Threads, NEW e, NEW u, NEW target, NEW next \in Nexts,
           Trim(t, e, u, target, next),
           e \in [DOMAIN e -> Entry], DOMAIN e \subseteq Keys, \A k \in DOMAIN e : Value(e[k]) >= clock,
           NEW m \in Keys \ raced, last'[m] = last[m], job[t].at # "record",
           m \in DOMAIN e => e[m].ver \in Current(m),
           m \in DOMAIN demoted' => m \in DOMAIN demoted, disk' = disk
    PROVE  KeyInv(m)'
<1>1. /\ DOMAIN entries' \subseteq DOMAIN e /\ \A k \in DOMAIN entries' : entries'[k] = e[k]
      /\ \E j \in Jobs : /\ job' = [job EXCEPT ![t] = j]
                         /\ j.at \in {"victim", "idle", "release", "resize"}
                         /\ \A k : \A v \in Vers(j, k) : k \in DOMAIN e /\ v = e[k].ver
  <2>1. clock \in Nat
    BY CacheFacts
  <2> QED  BY <2>1, TrimFacts
<1>2. PICK j \in Jobs : /\ job' = [job EXCEPT ![t] = j]
                        /\ j.at \in {"victim", "idle", "release", "resize"}
                        /\ \A k : \A v \in Vers(j, k) : k \in DOMAIN e /\ v = e[k].ver
  BY <1>1
<1>3. KeyInv(m) /\ Shapes
  BY CacheFacts
<1>4. Tables(j, m) = {} /\ ~ Filing(j, m) /\ ~ Recording(j, m) /\ ~ Recording(job[t], m)
  BY <1>2 DEF Tables, Filing, Recording
<1>5. (m \in DOMAIN entries' => entries'[m].ver \in Current(m)) /\ Vers(j, m) \subseteq Current(m)
  BY <1>1, <1>2
<1>6. m \in DOMAIN demoted' => Awaited(m)
  BY DEF Awaited
<1> QED  BY <1>2, <1>3, <1>4, <1>5, <1>6, QuietKey

(* Pressure, a request for memory, and a new budget trim the entries as    *)
(* they are.                                                               *)
LEMMA PressureStep ==
    ASSUME CacheInv, NEW t \in Threads, NEW target, NEW next \in Nexts,
           Trim(t, entries, used, target, next),
           job[t] = Idle, ops' = ops + 1, UNCHANGED <<demoted, disk, last, raced>>
    PROVE  CacheInv'
<1>1. TierInv'
  BY CacheFacts, TierTrim
<1>2. ASSUME NEW m \in Keys \ raced' PROVE KeyInv(m)'
  <2>1. m \in DOMAIN entries => entries[m].ver \in Current(m)
    BY CacheFacts DEF KeyInv
  <2>2. job[t].at # "record"
    BY DEF Idle
  <2> QED  BY <2>1, <2>2, CacheFacts, TrimKey
<1> QED  BY <1>1, <1>2 DEF CacheInv

(* A promotion moves the copy the thread read, if its record still stands. *)
LEMMA RecheckStep ==
    ASSUME CacheInv, NEW t \in Threads, Recheck(t)
    PROVE  CacheInv'
<1> DEFINE k == job[t].key
<1>1. UNCHANGED <<disk, ops, last, raced>> /\ job[t].at = "recheck"
  BY DEF Recheck
<1>2. k \in Keys /\ job[t].table \subseteq Copies
  BY <1>1, CacheFacts, JobFacts
<1>3. Idle.at = "idle" /\ \A m : Vers(Idle, m) = {}
  BY NoVictims DEF Idle
<1> HIDE DEF k
<1>4. DOMAIN Without(demoted, k) = DOMAIN demoted \ {k} /\ Without(demoted, k) \in [DOMAIN demoted \ {k} -> Records]
  <2>1. demoted \in [DOMAIN demoted -> Records]
    BY CacheFacts
  <2> QED  BY <2>1, WithoutFacts
<1>5. CASE job[t].table = {} \/ k \notin DOMAIN demoted
  <2>1. demoted' = Without(demoted, k) /\ job' = [job EXCEPT ![t] = Idle] /\ UNCHANGED <<entries, clock>>
    BY <1>5 DEF Recheck, Continue, k
  <2> QED  BY <1>1, <1>3, <1>4, <2>1, CacheFacts, QuietStep
<1>6. CASE ~ (job[t].table = {} \/ k \notin DOMAIN demoted)
  <2>1. PICK table \in job[t].table : Promote(t, k, table)
    BY <1>6 DEF Recheck, k
  <2>2. table \in Copies
    BY <1>2
  <2> DEFINE n == [ver |-> table.ver, size |-> table.size, cost |-> demoted[k].cost,
                   level |-> demoted[k].level, hits |-> 1, base |-> clock]
             e == With(entries, k, n)
             next == [at |-> "release", key |-> k]
  <2>3. CASE UsesMemory(demoted[k].level) /\ Fits(table.size)
    <3>1. demoted' = Without(demoted, k) /\ Trim(t, e, used + table.size, budget, next)
      BY <2>1, <2>3 DEF Promote
    <3>2. n \in Entry /\ n.ver = table.ver /\ n.base = clock
      <4>1. demoted[k] \in Records /\ clock \in Nat
        BY <1>6, CacheFacts
      <4> QED  BY <2>2, <4>1 DEF Entry, Records, Copies
    <3>3. Value(n) >= clock
      BY <3>2, ValueFacts
    <3> HIDE DEF n
    <3>4. /\ DOMAIN e = DOMAIN entries \cup {k} /\ e \in [DOMAIN e -> Entry] /\ e[k] = n
          /\ \A x \in DOMAIN entries : x # k => e[x] = entries[x]
      <4>1. entries \in [DOMAIN entries -> Entry]
        BY CacheFacts
      <4> QED  BY <3>2, <4>1 DEF With
    <3> HIDE DEF e
    <3>5. /\ e \in [DOMAIN e -> Entry] /\ DOMAIN e \subseteq Keys /\ \A x \in DOMAIN e : Value(e[x]) >= clock
      BY <1>2, <3>3, <3>4, CacheFacts
    <3>6. next \in Nexts
      BY <1>2 DEF Nexts
    <3> HIDE DEF next
    <3>7. TierInv'
      <4>1. DOMAIN demoted' \subseteq Keys /\ demoted' \in [DOMAIN demoted' -> Records]
        BY <1>4, <3>1, CacheFacts
      <4>2. DOMAIN demoted' \cap DOMAIN e = {}
        BY <1>4, <3>1, <3>4, CacheFacts
      <4> QED  BY <1>1, <3>1, <3>5, <3>6, <4>1, <4>2, CacheFacts, TierTrim
    <3>8. ASSUME NEW m \in Keys \ raced' PROVE KeyInv(m)'
      <4>1. m \in DOMAIN e => e[m].ver \in Current(m)
        <5>1. KeyInv(m)
          BY <1>1, CacheFacts
        <5>2. CASE m = k
          <6>1. Awaited(k) /\ table.ver \in Tables(job[t], k)
            BY <1>1, <1>6, <2>1 DEF Awaited, Tables, k
          <6> QED  BY <3>2, <3>4, <5>1, <5>2, <6>1 DEF KeyInv
        <5>3. CASE m # k
          BY <3>4, <5>1, <5>3 DEF KeyInv
        <5> QED  BY <5>2, <5>3
      <4>2. m \in DOMAIN demoted' => m \in DOMAIN demoted
        BY <1>4, <3>1
      <4> QED  BY <1>1, <3>1, <3>5, <3>6, <4>1, <4>2, TrimKey
    <3> QED  BY <3>7, <3>8 DEF CacheInv
  <2>4. CASE ~ (UsesMemory(demoted[k].level) /\ Fits(table.size))
    <3>1. job' = [job EXCEPT ![t] = Idle] /\ UNCHANGED <<entries, demoted, clock>>
      BY <2>1, <2>4 DEF Promote, Continue, store
    <3> QED  BY <1>1, <1>3, <3>1, CacheFacts, QuietStep
  <2> QED  BY <2>3, <2>4
<1> QED  BY <1>5, <1>6

(* A put in memory replaces both tiers' records of the key.                *)
LEMMA InsertStep ==
    ASSUME CacheInv, NEW t \in Threads, Insert(t)
    PROVE  CacheInv'
<1> DEFINE k == job[t].key
           item == job[t].item
           n == [ver |-> item.ver, size |-> item.size, cost |-> item.cost,
                 level |-> item.level, hits |-> 0, base |-> clock]
           f == Without(entries, k)
           e == With(f, k, n)
           u == Forget(k).used + item.size
<1>1. /\ UNCHANGED <<disk, ops>> /\ job[t].at = "insert" /\ demoted' = Without(demoted, k)
      /\ Trim(t, e, u, budget, Idle) /\ Touch(t, {k})
      /\ last' = [x \in Keys |-> IF x \in {k} THEN item.ver ELSE last[x]]
  BY DEF Insert, Forget, Update
<1>2. k \in Keys /\ item \in Items
  <2>1. job[t] \in Puts
    BY <1>1, CacheFacts, JobFacts
  <2> QED  BY <2>1 DEF Puts
<1>3. n \in Entry /\ n.ver = item.ver /\ n.base = clock
  BY <1>2, CacheFacts DEF Entry, Items
<1>4. Value(n) >= clock
  BY <1>3, ValueFacts
<1> HIDE DEF k, item, n, u
<1>5. DOMAIN demoted' = DOMAIN demoted \ {k} /\ demoted' \in [DOMAIN demoted' -> Records]
  <2>1. demoted \in [DOMAIN demoted -> Records]
    BY CacheFacts
  <2> QED  BY <1>1, <2>1, WithoutFacts
<1>6. /\ DOMAIN f = DOMAIN entries \ {k} /\ f \in [DOMAIN f -> Entry] /\ \A x \in DOMAIN f : f[x] = entries[x]
  <2>1. entries \in [DOMAIN entries -> Entry]
    BY CacheFacts
  <2> QED  BY <2>1, WithoutFacts
<1> HIDE DEF f
<1>7. /\ DOMAIN e = DOMAIN entries \cup {k} /\ e \in [DOMAIN e -> Entry] /\ e[k] = n
      /\ \A x \in DOMAIN entries : x # k => e[x] = entries[x]
  <2>1. /\ DOMAIN e = DOMAIN f \cup {k} /\ e \in [DOMAIN e -> Entry] /\ e[k] = n
        /\ \A x \in DOMAIN f : x # k => e[x] = f[x]
    BY <1>3, <1>6 DEF With
  <2> QED  BY <1>6, <2>1
<1> HIDE DEF e
<1>8. /\ e \in [DOMAIN e -> Entry] /\ DOMAIN e \subseteq Keys /\ \A x \in DOMAIN e : Value(e[x]) >= clock
  BY <1>2, <1>4, <1>7, CacheFacts
<1>9. Idle \in Nexts
  BY DEF Nexts
<1>10. TierInv'
  <2>1. DOMAIN demoted' \cap DOMAIN e = {} /\ DOMAIN demoted' \subseteq Keys
    BY <1>5, <1>7, CacheFacts
  <2> QED  BY <1>1, <1>5, <1>8, <1>9, <2>1, CacheFacts, TierTrim
<1>11. ASSUME NEW m \in Keys \ raced' PROVE KeyInv(m)'
  <2>1. m \notin raced /\ (m \in {k} => \A v \in Threads \ {t} : ~ Holds(v, m))
    BY <1>1, <1>11, TouchFacts
  <2>2. KeyInv(m) /\ Shapes
    BY <2>1, CacheFacts
  <2>3. CASE m # k
    <3>1. last'[m] = last[m]
      BY <1>1, <2>3
    <3>2. m \in DOMAIN e => e[m].ver \in Current(m)
      BY <1>7, <2>2, <2>3 DEF KeyInv
    <3>3. m \in DOMAIN demoted' => m \in DOMAIN demoted
      BY <1>5
    <3> QED  BY <1>1, <1>8, <1>9, <2>1, <3>1, <3>2, <3>3, TrimKey
  <2>4. CASE m = k
    <3>1. /\ DOMAIN entries' \subseteq DOMAIN e /\ \A x \in DOMAIN entries' : entries'[x] = e[x]
          /\ \E j \in Jobs : /\ job' = [job EXCEPT ![t] = j]
                             /\ j.at \in {"victim", "idle", "release", "resize"}
                             /\ \A x : \A v \in Vers(j, x) : x \in DOMAIN e /\ v = e[x].ver
      <4>1. clock \in Nat
        BY CacheFacts
      <4> QED  BY <1>1, <1>8, <1>9, <4>1, TrimFacts
    <3>2. PICK j \in Jobs : /\ job' = [job EXCEPT ![t] = j]
                            /\ j.at \in {"victim", "idle", "release", "resize"}
                            /\ \A x : \A v \in Vers(j, x) : x \in DOMAIN e /\ v = e[x].ver
      BY <3>1
    <3>3. ~ Filing(j, k) /\ ~ Recording(j, k)
      BY <3>2 DEF Filing, Recording
    <3>4. last'[k] = item.ver /\ k \notin DOMAIN demoted'
      BY <1>1, <1>2, <1>5
    <3>5. (k \in DOMAIN entries' => entries'[k].ver = item.ver) /\ Vers(j, k) \subseteq {item.ver}
      BY <1>3, <1>7, <3>1, <3>2
    <3> DEFINE cur == {last'[k]} \cup (IF Recording(j, k) THEN {j.item.ver} ELSE {})
    <3>6. cur = {item.ver}
      BY <3>3, <3>4
    <3> QED  BY <2>1, <2>2, <2>4, <3>2, <3>3, <3>4, <3>5, <3>6, SoloKey
  <2> QED  BY <2>3, <2>4
<1> QED  BY <1>10, <1>11 DEF CacheInv

(* A write to disk that succeeded, or one that did not, which only drops.  *)
LEMMA WroteStep ==
    ASSUME CacheInv, NEW t \in Threads, NEW k \in Keys, NEW item \in Items, NEW j \in Jobs,
           job' = [job EXCEPT ![t] = j], job[t].at # "record", j.at \notin {"recheck"},
           \A m : Recording(j, m) \/ Filing(j, m) => m = k,
           Recording(j, k) => j.item.ver = item.ver, Recording(j, k) \/ item.ver \in Current(k) \/ k \in raced,
           \A m : Vers(j, m) \subseteq Vers(job[t], m),
           UNCHANGED <<entries, demoted, clock, ops, last>>, Touch(t, {k}), disk' = Written(k, item)
    PROVE  CacheInv'
<1>1. /\ Tier(disk') /\ CopiesOf(disk', k) \subseteq {item.ver}
      /\ \A m : m # k => CopiesOf(disk', m) \subseteq CopiesOf(disk, m)
  BY CacheFacts, WrittenFacts
<1>2. TierInv'
  <2>1. Shapes'
    BY <1>1, CacheFacts, StepShapes DEF Shapes, Tier
  <2> QED  BY <2>1, CacheFacts DEF TierInv, OneTier, ClockIsFloor
<1>3. ASSUME NEW m \in Keys \ raced' PROVE KeyInv(m)'
  <2>1. m \notin raced /\ (m \in {k} => \A v \in Threads \ {t} : ~ Holds(v, m))
    BY <1>3, TouchFacts
  <2>2. KeyInv(m) /\ Shapes /\ Tables(j, m) = {} /\ ~ Recording(job[t], m)
    BY <2>1, CacheFacts DEF Tables, Recording
  <2>3. (m \in DOMAIN entries' => entries'[m].ver \in Current(m)) /\ Vers(j, m) \subseteq Current(m)
    BY <2>2 DEF KeyInv
  <2>4. CASE m # k
    <3>1. ~ Recording(j, m) /\ ~ Filing(j, m) /\ (m \in DOMAIN demoted' => Awaited(m))
      BY <2>4 DEF Awaited
    <3> QED  BY <1>1, <2>2, <2>3, <2>4, <3>1, QuietKey
  <2>5. CASE m = k
    <3>1. \A u \in Threads : ~ Recording(job[u], k)
      BY <2>1, <2>2, <2>5, HoldsFacts
    <3>2. Current(k) = {last[k]}
      BY <3>1 DEF Current, Pending
    <3> DEFINE cur == {last'[k]} \cup (IF Recording(j, k) THEN {j.item.ver} ELSE {})
    <3>3. item.ver \in cur /\ Current(k) \subseteq cur
      BY <2>1, <2>5, <3>2
    <3>4. (Recording(j, k) => CopiesOf(disk', k) \subseteq {j.item.ver}) /\ CopiesOf(disk', k) \subseteq cur
      BY <1>1, <3>3
    <3> HIDE DEF cur
    <3>5. cur = {last'[k]} \cup (IF Recording(j, k) THEN {j.item.ver} ELSE {})
      BY DEF cur
    <3>6. \A u \in Threads \ {t} : ~ Holds(u, k)
      BY <2>1, <2>5
    <3>7. (k \in DOMAIN entries' => entries'[k].ver \in cur) /\ Vers(j, k) \subseteq cur
      BY <2>2, <2>3, <2>5, <3>3
    <3>8. CopiesOf(disk', k) \subseteq cur /\ Tables(j, k) \subseteq cur
      BY <2>2, <2>5, <3>4
    <3>9. Recording(j, k) => CopiesOf(disk', k) \subseteq {j.item.ver}
      BY <3>4
    <3>10. Shapes /\ job'[t] = j /\ \A u \in Threads \ {t} : job'[u] = job[u]
      BY CacheFacts DEF Shapes
    <3>11. KeyInv(k)'
      BY <3>5, <3>6, <3>7, <3>8, <3>9, <3>10, SoloKeyAt
    <3> QED  BY <2>5, <3>11
  <2> QED  BY <2>4, <2>5
<1> QED  BY <1>2, <1>3 DEF CacheInv

(* The steps of a disk write that fail.                                    *)
LEMMA FailedPut ==
    ASSUME CacheInv, NEW k, disk' = disk \/ disk' = Released(k)
    PROVE  Tier(disk') /\ \A m : CopiesOf(disk', m) \subseteq CopiesOf(disk, m)
<1>1. Tier(disk)
  BY DEF CacheInv, TierInv, Shapes, Tier
<1> QED  BY <1>1, ReleasedFacts

(* _write_through(): the disk write.                                       *)
LEMMA WriteStep ==
    ASSUME CacheInv, NEW t \in Threads, Write(t)
    PROVE  CacheInv'
<1> DEFINE k == job[t].key
           item == job[t].item
<1>1. UNCHANGED <<entries, demoted, clock, ops, last>> /\ job[t].at = "write" /\ Touch(t, {k})
  BY DEF Write, store
<1>2. job[t] \in Puts /\ k \in Keys /\ item \in Items
  <2>1. job[t] \in Puts
    BY <1>1, CacheFacts, JobFacts
  <2> QED  BY <2>1 DEF Puts
<1>3. \/ job' = [job EXCEPT ![t] = Idle] /\ (disk' = disk \/ disk' = Released(k))
      \/ job' = [job EXCEPT ![t] = [job[t] EXCEPT !.at = "record"]] /\ disk' = Written(k, item)
  BY DEF Write, DiskPut, Continue
<1>4. CASE job' = [job EXCEPT ![t] = Idle] /\ (disk' = disk \/ disk' = Released(k))
  <2>1. Idle.at = "idle" /\ \A m : Vers(Idle, m) = {}
    BY NoVictims DEF Idle
  <2>2. Tier(disk') /\ \A m : CopiesOf(disk', m) \subseteq CopiesOf(disk, m)
    BY <1>4, FailedPut
  <2>3. raced \subseteq raced'
    BY <1>1 DEF Touch
  <2> QED  BY <1>1, <1>4, <2>1, <2>2, <2>3, CacheFacts, QuietStep
<1>5. CASE job' = [job EXCEPT ![t] = [job[t] EXCEPT !.at = "record"]] /\ disk' = Written(k, item)
  <2> DEFINE j == [job[t] EXCEPT !.at = "record"]
  <2>1. j \in Puts /\ j.at = "record" /\ j.key = k /\ j.item = item
    BY <1>2 DEF Puts
  <2>2. j \in Jobs /\ \A m : Vers(j, m) = {}
    BY <2>1, NoVictims DEF Jobs
  <2>3. Recording(j, k) /\ \A m : Recording(j, m) \/ Filing(j, m) => m = k
    BY <2>1 DEF Recording, Filing
  <2>4. job' = [job EXCEPT ![t] = j] /\ disk' = Written(k, item)
    BY <1>5
  <2> HIDE DEF j, k, item
  <2> QED  BY <1>1, <1>2, <2>1, <2>2, <2>3, <2>4, WroteStep
<1> QED  BY <1>3, <1>4, <1>5

(* _demote(): the disk write.                                              *)
LEMMA SpillStep ==
    ASSUME CacheInv, NEW t \in Threads, Spill(t)
    PROVE  CacheInv'
<1> DEFINE v == Head(job[t].queue)
           k == v.key
           item == v.item
<1>1. UNCHANGED <<entries, demoted, clock, ops, last>> /\ job[t].at = "spill" /\ Touch(t, {k})
  BY DEF Spill, store
<1>2. job[t] \in Walks
  BY <1>1, CacheFacts, JobFacts
<1>3. /\ v = job[t].queue[1] /\ 1 \in DOMAIN job[t].queue /\ k \in Keys /\ item \in Items
      /\ Rest(job[t]) \in Jobs /\ Rest(job[t]).at \in {"victim", "idle", "release", "resize"}
      /\ \A m : Vers(Rest(job[t]), m) \subseteq Vers(job[t], m)
  BY <1>2, WalkFacts
<1>4. \/ job' = [job EXCEPT ![t] = Rest(job[t])] /\ (disk' = disk \/ disk' = Released(k))
      \/ job' = [job EXCEPT ![t] = [job[t] EXCEPT !.at = "file"]] /\ disk' = Written(k, item)
  BY DEF Spill, DiskPut, Continue
<1>5. CASE job' = [job EXCEPT ![t] = Rest(job[t])] /\ (disk' = disk \/ disk' = Released(k))
  <2>1. Tier(disk') /\ \A m : CopiesOf(disk', m) \subseteq CopiesOf(disk, m)
    BY <1>5, FailedPut
  <2>2. raced \subseteq raced'
    BY <1>1 DEF Touch
  <2> QED  BY <1>1, <1>3, <1>5, <2>1, <2>2, CacheFacts, QuietStep
<1>6. CASE job' = [job EXCEPT ![t] = [job[t] EXCEPT !.at = "file"]] /\ disk' = Written(k, item)
  <2> DEFINE j == [job[t] EXCEPT !.at = "file"]
  <2>1. j \in Walks /\ j.at = "file" /\ j.queue = job[t].queue
    BY <1>2 DEF Walks
  <2>2. j \in Jobs /\ \A m : Vers(j, m) = Vers(job[t], m)
    BY <1>1, <2>1 DEF Jobs, Vers
  <2>3. ~ Recording(j, k) /\ \A m : Recording(j, m) \/ Filing(j, m) => m = k
    BY <2>1 DEF Recording, Filing
  <2>4. item.ver \in Vers(job[t], k)
    BY <1>1, <1>3 DEF Vers
  <2>5. item.ver \in Current(k) \/ k \in raced
    BY <1>3, <2>4, CacheFacts DEF KeyInv
  <2>6. job' = [job EXCEPT ![t] = j] /\ disk' = Written(k, item)
    BY <1>6
  <2> HIDE DEF j, k, item
  <2> QED  BY <1>1, <1>3, <2>1, <2>2, <2>3, <2>5, <2>6, WroteStep
<1> QED  BY <1>4, <1>5, <1>6

(* The memory tier without a key.                                          *)
LEMMA ForgetFacts ==
    ASSUME CacheInv, NEW k
    PROVE  /\ DOMAIN Without(entries, k) = DOMAIN entries \ {k}
           /\ Without(entries, k) \in [DOMAIN entries \ {k} -> Entry]
           /\ \A x \in DOMAIN entries \ {k} : Without(entries, k)[x] = entries[x]
           /\ DOMAIN Without(demoted, k) = DOMAIN demoted \ {k}
           /\ Without(demoted, k) \in [DOMAIN demoted \ {k} -> Records]
<1>1. entries \in [DOMAIN entries -> Entry] /\ demoted \in [DOMAIN demoted -> Records]
  BY DEF CacheInv, TierInv, Shapes
<1> QED  BY <1>1, WithoutFacts

(* _write_through(): the record of the copy.                               *)
LEMMA RecordStep ==
    ASSUME CacheInv, NEW t \in Threads, Record(t)
    PROVE  CacheInv'
<1> DEFINE k == job[t].key
           item == job[t].item
           r == [cost |-> item.cost, level |-> item.level]
<1>1. /\ UNCHANGED <<clock, disk, ops>> /\ job[t].at = "record" /\ Touch(t, {k})
      /\ entries' = Without(entries, k) /\ demoted' = With(demoted, k, r)
      /\ last' = [x \in Keys |-> IF x \in {k} THEN item.ver ELSE last[x]]
      /\ job' = [job EXCEPT ![t] = Idle]
  BY DEF Record, Forget, Update, Continue
<1>2. k \in Keys /\ item \in Items
  <2>1. job[t] \in Puts
    BY <1>1, CacheFacts, JobFacts
  <2> QED  BY <2>1 DEF Puts
<1>3. r \in Records
  BY <1>2 DEF Items, Records
<1> HIDE DEF r
<1>4. /\ DOMAIN entries' = DOMAIN entries \ {k} /\ entries' \in [DOMAIN entries' -> Entry]
      /\ \A x \in DOMAIN entries' : entries'[x] = entries[x]
  BY <1>1, ForgetFacts
<1>5. DOMAIN demoted' = DOMAIN demoted \cup {k} /\ demoted' \in [DOMAIN demoted' -> Records]
  <2>1. demoted \in [DOMAIN demoted -> Records]
    BY CacheFacts
  <2> QED  BY <1>1, <1>3, <2>1 DEF With
<1>6. Recording(job[t], k) /\ \A m : m # k => ~ Recording(job[t], m)
  BY <1>1 DEF Recording
<1> HIDE DEF k, item
<1>7. \A m : Vers(Idle, m) = {} /\ Tables(Idle, m) = {} /\ ~ Filing(Idle, m) /\ ~ Recording(Idle, m)
  BY DEF Idle, Vers, Tables, Filing, Recording
<1>8. TierInv'
  <2>1. Shapes'
    BY <1>1, <1>2, <1>4, <1>5, CacheFacts, StepShapes DEF Shapes
  <2>2. OneTier' /\ ClockIsFloor'
    BY <1>1, <1>4, <1>5, CacheFacts DEF OneTier, ClockIsFloor
  <2> QED  BY <2>1, <2>2 DEF TierInv
<1>9. ASSUME NEW m \in Keys \ raced' PROVE KeyInv(m)'
  <2>1. m \notin raced /\ (m \in {k} => \A v \in Threads \ {t} : ~ Holds(v, m))
    BY <1>1, <1>9, TouchFacts
  <2>2. KeyInv(m) /\ Shapes
    BY <2>1, CacheFacts
  <2>3. CASE m # k
    <3>1. last'[m] = last[m]
      BY <1>1, <2>3
    <3>2. m \in DOMAIN entries' => entries'[m].ver \in Current(m)
      BY <1>4, <2>2 DEF KeyInv
    <3>3. m \in DOMAIN demoted' => Awaited(m)
      BY <1>5, <2>3 DEF Awaited
    <3> QED  BY <1>1, <1>6, <1>7, <2>2, <2>3, <3>1, <3>2, <3>3, QuietKey
  <2>4. CASE m = k
    <3>1. last'[k] = item.ver /\ k \notin DOMAIN entries'
      BY <1>1, <1>2, <1>4
    <3>2. CopiesOf(disk', k) \subseteq {item.ver}
      BY <1>1, <1>6, <2>2, <2>4 DEF KeyInv, item
    <3> DEFINE cur == {last'[k]} \cup (IF Recording(Idle, k) THEN {Idle.item.ver} ELSE {})
    <3>3. cur = {item.ver}
      BY <1>7, <3>1
    <3> HIDE DEF cur
    <3>4. cur = {last'[k]} \cup (IF Recording(Idle, k) THEN {Idle.item.ver} ELSE {})
      BY DEF cur
    <3> QED  BY <1>1, <1>7, <2>1, <2>2, <2>4, <3>1, <3>2, <3>3, <3>4, SoloKey
  <2> QED  BY <2>3, <2>4
<1> QED  BY <1>8, <1>9 DEF CacheInv

(* _demote(): the record of the copy, unless the key is in memory again.   *)
LEMMA FileStep ==
    ASSUME CacheInv, NEW t \in Threads, File(t)
    PROVE  CacheInv'
<1> DEFINE v == Head(job[t].queue)
           k == v.key
           r == [cost |-> v.item.cost, level |-> v.item.level]
           j == Rest(job[t])
<1>1. /\ UNCHANGED <<entries, clock, ops, last, raced>> /\ job[t].at = "file" /\ job' = [job EXCEPT ![t] = j]
      /\ \/ k \in DOMAIN entries /\ disk' = Released(k) /\ demoted' = demoted
         \/ k \notin DOMAIN entries /\ disk' = disk /\ demoted' = With(demoted, k, r)
  BY DEF File, Superseded, Continue
<1>2. job[t] \in Walks
  BY <1>1, CacheFacts, JobFacts
<1>3. /\ k \in Keys /\ v.item \in Items /\ j \in Jobs /\ j.at \in {"victim", "idle", "release", "resize"}
      /\ \A m : Vers(j, m) \subseteq Vers(job[t], m)
  BY <1>2, WalkFacts
<1>4. Filing(job[t], k)
  BY <1>1 DEF Filing
<1>5. r \in Records
  BY <1>3 DEF Items, Records
<1> HIDE DEF j, k, r
<1>6. CASE k \in DOMAIN entries /\ disk' = Released(k) /\ demoted' = demoted
  <2>1. Tier(disk') /\ \A m : CopiesOf(disk', m) \subseteq CopiesOf(disk, m)
    BY <1>6, FailedPut
  <2> QED  BY <1>1, <1>3, <1>6, <2>1, CacheFacts, QuietStep
<1>7. CASE k \notin DOMAIN entries /\ disk' = disk /\ demoted' = With(demoted, k, r)
  <2>1. DOMAIN demoted' = DOMAIN demoted \cup {k} /\ demoted' \in [DOMAIN demoted' -> Records]
    <3>1. demoted \in [DOMAIN demoted -> Records]
      BY CacheFacts
    <3> QED  BY <1>5, <1>7, <3>1 DEF With
  <2>2. TierInv'
    <3>1. Shapes'
      BY <1>1, <1>3, <1>7, <2>1, CacheFacts, StepShapes DEF Shapes
    <3>2. OneTier' /\ ClockIsFloor'
      BY <1>1, <1>7, <2>1, CacheFacts DEF OneTier, ClockIsFloor
    <3> QED  BY <3>1, <3>2 DEF TierInv
  <2>3. ASSUME NEW m \in Keys \ raced' PROVE KeyInv(m)'
    <3>1. KeyInv(m) /\ Shapes
      BY <1>1, CacheFacts
    <3>2. /\ Tables(j, m) = {} /\ ~ Filing(j, m) /\ ~ Recording(j, m) /\ ~ Recording(job[t], m)
      BY <1>1, <1>3 DEF Tables, Filing, Recording
    <3>3. (m \in DOMAIN entries' => entries'[m].ver \in Current(m)) /\ Vers(j, m) \subseteq Current(m)
      BY <1>1, <1>3, <3>1 DEF KeyInv
    <3>4. m \in DOMAIN demoted' => Awaited(m)
      BY <1>4, <2>1 DEF Awaited
    <3> QED  BY <1>1, <1>7, <3>1, <3>2, <3>3, <3>4, QuietKey
  <2> QED  BY <2>2, <2>3 DEF CacheInv
<1> QED  BY <1>1, <1>6, <1>7

(* invalidate(), first half: nothing is recorded under the key.            *)
LEMMA InvalidateStep ==
    ASSUME CacheInv, NEW t \in Threads, NEW k \in Keys, Invalidate(t, k)
    PROVE  CacheInv'
<1> DEFINE j == [at |-> "release", key |-> k]
<1>1. /\ UNCHANGED <<clock, disk>> /\ ops' = ops + 1 /\ job[t] = Idle /\ Touch(t, {k})
      /\ entries' = Without(entries, k) /\ demoted' = Without(demoted, k)
      /\ last' = [x \in Keys |-> IF x \in {k} THEN 0 ELSE last[x]]
      /\ job' = [job EXCEPT ![t] = j]
  BY DEF Invalidate, Forget, Update, Continue, Start
<1>2. /\ DOMAIN entries' = DOMAIN entries \ {k} /\ entries' \in [DOMAIN entries' -> Entry]
      /\ \A x \in DOMAIN entries' : entries'[x] = entries[x]
      /\ DOMAIN demoted' = DOMAIN demoted \ {k} /\ demoted' \in [DOMAIN demoted' -> Records]
  BY <1>1, ForgetFacts
<1>3. j \in Jobs /\ j.at = "release"
  BY DEF Jobs, Nexts
<1> HIDE DEF j
<1>4. \A m : /\ Vers(j, m) = {} /\ Tables(j, m) = {} /\ ~ Filing(j, m) /\ ~ Recording(j, m)
             /\ ~ Recording(job[t], m)
  BY <1>1, <1>3 DEF Idle, Vers, Tables, Filing, Recording
<1>5. TierInv'
  <2>1. Shapes'
    BY <1>1, <1>2, <1>3, CacheFacts, StepShapes DEF Shapes
  <2>2. OneTier' /\ ClockIsFloor'
    BY <1>1, <1>2, CacheFacts DEF OneTier, ClockIsFloor
  <2> QED  BY <2>1, <2>2 DEF TierInv
<1>6. ASSUME NEW m \in Keys \ raced' PROVE KeyInv(m)'
  <2>1. m \notin raced /\ (m \in {k} => \A v \in Threads \ {t} : ~ Holds(v, m))
    BY <1>1, <1>6, TouchFacts
  <2>2. KeyInv(m) /\ Shapes
    BY <2>1, CacheFacts
  <2>3. CASE m # k
    <3>1. last'[m] = last[m]
      BY <1>1, <2>3
    <3>2. m \in DOMAIN entries' => entries'[m].ver \in Current(m)
      BY <1>2, <2>2 DEF KeyInv
    <3>3. m \in DOMAIN demoted' => Awaited(m)
      BY <1>2 DEF Awaited
    <3> QED  BY <1>1, <1>4, <2>2, <3>1, <3>2, <3>3, QuietKey
  <2>4. CASE m = k
    <3>1. k \notin DOMAIN entries' /\ k \notin DOMAIN demoted'
      BY <1>2
    <3> DEFINE cur == {last'[k]} \cup (IF Recording(j, k) THEN {j.item.ver} ELSE {})
    <3> HIDE DEF cur
    <3>2. cur = {last'[k]} \cup (IF Recording(j, k) THEN {j.item.ver} ELSE {})
      BY DEF cur
    <3> QED  BY <1>1, <1>4, <2>1, <2>2, <2>4, <3>1, <3>2, SoloKey
  <2> QED  BY <2>3, <2>4
<1> QED  BY <1>5, <1>6 DEF CacheInv

(* clear(), first half: nothing is recorded at all.                        *)
LEMMA ClearStep ==
    ASSUME CacheInv, NEW t \in Threads, Clear(t)
    PROVE  CacheInv'
<1> DEFINE j == [at |-> "wipe"]
<1>1. /\ disk' = disk /\ ops' = ops + 1 /\ job[t] = Idle /\ Touch(t, Keys)
      /\ entries' = <<>> /\ demoted' = <<>> /\ clock' = 0 /\ job' = [job EXCEPT ![t] = j]
  BY DEF Clear, Update, Continue, Start
<1>2. /\ DOMAIN entries' = {} /\ entries' \in [DOMAIN entries' -> Entry]
      /\ DOMAIN demoted' = {} /\ demoted' \in [DOMAIN demoted' -> Records]
  BY <1>1
<1>3. j \in Jobs /\ j.at = "wipe"
  BY DEF Jobs
<1> HIDE DEF j
<1>4. \A m : Vers(j, m) = {} /\ Tables(j, m) = {} /\ ~ Filing(j, m) /\ ~ Recording(j, m)
  BY <1>3 DEF Vers, Tables, Filing, Recording
<1>5. TierInv'
  <2>1. Shapes'
    BY <1>1, <1>2, <1>3, CacheFacts, StepShapes DEF Shapes
  <2> QED  BY <1>2, <2>1 DEF TierInv, OneTier, ClockIsFloor
<1>6. ASSUME NEW m \in Keys \ raced' PROVE KeyInv(m)'
  <2>1. \A v \in Threads \ {t} : ~ Holds(v, m)
    BY <1>1, <1>6, TouchFacts
  <2> DEFINE cur == {last'[m]} \cup (IF Recording(j, m) THEN {j.item.ver} ELSE {})
  <2> HIDE DEF cur
  <2>2. cur = {last'[m]} \cup (IF Recording(j, m) THEN {j.item.ver} ELSE {})
    BY DEF cur
  <2>3. Shapes
    BY CacheFacts
  <2> QED  BY <1>1, <1>2, <1>4, <2>1, <2>2, <2>3, SoloKey
<1> QED  BY <1>5, <1>6 DEF CacheInv

(* Every step keeps the invariant.                                         *)
LEMMA CacheStep == CacheInv /\ [Next]_vars => CacheInv'
<1> SUFFICES ASSUME CacheInv, [Next]_vars PROVE CacheInv'
  OBVIOUS
<1>1. ASSUME NEW t \in Threads, Begin(t) PROVE CacheInv'
  <2>1. CASE \E k \in Keys : Get(t, k)
    BY <2>1, GetStep
  <2>2. CASE \E k \in Keys, r \in Results : Put(t, k, r)
    BY <2>2, PutStep
  <2>3. CASE \E k \in Keys : Invalidate(t, k)
    BY <2>3, InvalidateStep
  <2>4. CASE Clear(t)
    BY <2>4, ClearStep
  <2>5. Idle \in Nexts /\ \A d \in DiskBudgets : [at |-> "resize", disk |-> d] \in Nexts
    BY DEF Nexts
  <2>6. CASE \E quarters \in {2, 3} : OnPressure(t, quarters)
    <3>1. PICK quarters \in {2, 3} : OnPressure(t, quarters)
      BY <2>6
    <3>2. /\ Trim(t, entries, used, (budget * quarters) \div 4, Idle)
          /\ job[t] = Idle /\ ops' = ops + 1 /\ UNCHANGED <<demoted, disk, last, raced>>
      BY <3>1 DEF OnPressure, Start
    <3> QED  BY <2>5, <3>2, PressureStep
  <2>7. CASE \E n \in 1..used : EvictToFree(t, n)
    <3>1. PICK n \in 1..used : EvictToFree(t, n)
      BY <2>7
    <3>2. /\ Trim(t, entries, used, Max({0, used - n}), Idle)
          /\ job[t] = Idle /\ ops' = ops + 1 /\ UNCHANGED <<demoted, disk, last, raced>>
      BY <3>1 DEF EvictToFree, Start
    <3> QED  BY <2>5, <3>2, PressureStep
  <2>8. CASE \E b \in Budgets, d \in DiskBudgets : SetBudget(t, b, d)
    <3>1. PICK b \in Budgets, d \in DiskBudgets : SetBudget(t, b, d)
      BY <2>8
    <3>2. /\ Trim(t, entries, used, b, [at |-> "resize", disk |-> d])
          /\ job[t] = Idle /\ ops' = ops + 1 /\ UNCHANGED <<demoted, disk, last, raced>>
      BY <3>1 DEF SetBudget, Start
    <3> QED  BY <2>5, <3>2, PressureStep
  <2> QED  BY <1>1, <2>1, <2>2, <2>3, <2>4, <2>6, <2>7, <2>8 DEF Begin
<1>2. ASSUME NEW t \in Threads, Proceed(t) PROVE CacheInv'
  <2>1. CASE Read(t)
    BY <2>1, ReadStep
  <2>2. CASE Recheck(t)
    BY <2>2, RecheckStep
  <2>3. CASE Insert(t)
    BY <2>3, InsertStep
  <2>4. CASE Write(t)
    BY <2>4, WriteStep
  <2>5. CASE Record(t)
    BY <2>5, RecordStep
  <2>6. CASE Victim(t)
    BY <2>6, VictimStep
  <2>7. CASE Spill(t)
    BY <2>7, SpillStep
  <2>8. CASE File(t)
    BY <2>8, FileStep
  <2>9. CASE Release(t) \/ Wipe(t) \/ Resize(t)
    BY <2>9, DropStep
  <2> QED  BY <1>2, <2>1, <2>2, <2>3, <2>4, <2>5, <2>6, <2>7, <2>8, <2>9 DEF Proceed
<1>3. CASE UNCHANGED vars
  <2>1. UNCHANGED <<entries, demoted, clock, disk, job, ops, last, raced>>
    BY <1>3 DEF vars, store
  <2>2. TierInv'
    BY <2>1 DEF CacheInv, TierInv, Shapes, OneTier, ClockIsFloor
  <2>3. \A m \in Keys \ raced : KeyInv(m) => KeyInv(m)'
    BY <2>1 DEF KeyInv, Current, Pending, Awaited
  <2> QED  BY <2>1, <2>2, <2>3 DEF CacheInv
<1> QED  BY <1>1, <1>2, <1>3 DEF Next, Quiet

(* The invariant holds of every behaviour.                                 *)
LEMMA CacheAlways == Spec => []CacheInv
<1>1. Init => CacheInv
  BY CacheInit
<1>2. CacheInv /\ [Next]_vars => CacheInv'
  BY CacheStep
<1> QED  BY <1>1, <1>2, PTL DEF Spec

(* The comment on CacheStore._demoted: whatever demotions, promotions and  *)
(* puts are in flight in however many threads, a key is memory-resident or *)
(* demoted, never both.                                                    *)
THEOREM OneTierHolds == Spec => []OneTier
<1>1. CacheInv => OneTier
  BY DEF CacheInv, TierInv
<1> QED  BY <1>1, CacheAlways, PTL

(* The comment in CacheStore._evict_to: for every set of costs, sizes and  *)
(* budgets, no resident entry's value is below the eviction clock.         *)
THEOREM ClockIsFloorHolds == Spec => []ClockIsFloor
<1>1. CacheInv => ClockIsFloor
  BY DEF CacheInv, TierInv
<1> QED  BY <1>1, CacheAlways, PTL

(* get() against put(), invalidate(), clear(), _demote() and _promote():   *)
(* once no thread is at work on a key that was never written while another *)
(* thread held a copy of it, the cache serves its last result or nothing.  *)
THEOREM StaleOnlyAfterRaceHolds == Spec => []StaleOnlyAfterRace
<1>1. CacheInv => StaleOnlyAfterRace
  <2> SUFFICES ASSUME CacheInv, NEW k \in Keys \ raced, \A t \in Threads : ~ Busy(t, k)
               PROVE  Served(k) \in {0, last[k]}
    BY DEF StaleOnlyAfterRace
  <2>1. KeyInv(k) /\ Shapes
    BY DEF CacheInv, TierInv
  <2>2. \A t \in Threads : ~ Holds(t, k)
    BY DEF Busy
  <2>3. Current(k) = {last[k]}
    BY <2>1, <2>2, HoldsFacts DEF Current, Pending
  <2>4. CASE k \in DOMAIN entries
    BY <2>1, <2>3, <2>4 DEF KeyInv, Served
  <2>5. CASE k \notin DOMAIN entries /\ k \in DOMAIN demoted /\ OnDisk(k)
    <3>1. Stored(k).ver \in CopiesOf(disk, k)
      BY <2>5 DEF OnDisk, Stored, Slot, Keyed, CopiesOf
    <3>2. CopiesOf(disk, k) \subseteq {last[k]}
      BY <2>1, <2>3, <2>5 DEF KeyInv, Awaited
    <3> QED  BY <2>5, <3>1, <3>2 DEF Served
  <2>6. CASE k \notin DOMAIN entries /\ ~ (k \in DOMAIN demoted /\ OnDisk(k))
    BY <2>6 DEF Served
  <2> QED  BY <2>4, <2>5, <2>6
<1> QED  BY <1>1, CacheAlways, PTL

-----------------------------------------------------------------------------
(* The bytes held.                                                         *)

(* What the keys ks hold, byte by byte.                                    *)
Bytes(e, ks) == UNION {{k} \X (1..e[k].size) : k \in ks}

(* What is held is the number of bytes, and finitely many keys hold        *)
(* finitely many.                                                          *)
LEMMA HeldFacts ==
    ASSUME NEW e, NEW ks, IsFiniteSet(ks), \A k \in ks : e[k].size \in Nat
    PROVE  IsFiniteSet(Bytes(e, ks)) /\ Held(e, ks) = Cardinality(Bytes(e, ks)) /\ Held(e, ks) \in Nat
<1> DEFINE piece(k) == {k} \X (1..e[k].size)
           f == [k \in ks |-> piece(k)]
           P == {piece(k) : k \in ks}
<1>1. f \in Surjection(ks, P)
  BY DEF Surjection
<1>2. IsFiniteSet(P)
  <2> HIDE DEF f, P
  <2> QED  BY <1>1, FS_Surjection
<1>3. ASSUME NEW T \in P PROVE IsFiniteSet(T)
  <2>1. PICK k \in ks : T = {k} \X (1..e[k].size)
    OBVIOUS
  <2> DEFINE s == e[k].size
  <2>2. s \in Int /\ 1 \in Int
    OBVIOUS
  <2>3. IsFiniteSet({k}) /\ IsFiniteSet(1..s)
    <3> HIDE DEF s
    <3> QED  BY <2>2, FS_Singleton, FS_Interval
  <2> QED  BY <2>1, <2>3, FS_Product
<1>4. IsFiniteSet(UNION P)
  <2> HIDE DEF P
  <2> QED  BY <1>2, <1>3, FS_UNION
<1>5. Bytes(e, ks) = UNION P
  BY DEF Bytes
<1>6. Held(e, ks) = Cardinality(Bytes(e, ks))
  BY DEF Held, Bytes
<1> QED  BY <1>4, <1>5, <1>6, FS_CardinalityType

(* A byte is one of a key's.                                               *)
LEMMA ByteFacts ==
    ASSUME NEW e, NEW ks, NEW b
    PROVE  b \in Bytes(e, ks) <=> \E k \in ks : \E n \in 1..e[k].size : b = <<k, n>>
BY DEF Bytes

(* Keys held apart add up.                                                 *)
LEMMA HeldSplit ==
    ASSUME NEW e, NEW ks, NEW ms, IsFiniteSet(ks), IsFiniteSet(ms), ks \cap ms = {},
           \A k \in ks \cup ms : e[k].size \in Nat
    PROVE  Held(e, ks \cup ms) = Held(e, ks) + Held(e, ms)
<1> DEFINE A == Bytes(e, ks)
           B == Bytes(e, ms)
<1>1. Bytes(e, ks \cup ms) = A \cup B
  BY DEF Bytes
<1>2. A \cap B = {}
  <2> SUFFICES ASSUME NEW b \in A, b \in B PROVE FALSE
    OBVIOUS
  <2>1. PICK k \in ks : \E n \in 1..e[k].size : b = <<k, n>>
    BY ByteFacts
  <2>2. PICK m \in ms : \E n \in 1..e[m].size : b = <<m, n>>
    BY ByteFacts
  <2> QED  BY <2>1, <2>2
<1>3. /\ IsFiniteSet(A) /\ Held(e, ks) = Cardinality(A) /\ Cardinality(A) \in Nat
      /\ IsFiniteSet(B) /\ Held(e, ms) = Cardinality(B) /\ Cardinality(B) \in Nat
  <2>1. (\A k \in ks : e[k].size \in Nat) /\ (\A k \in ms : e[k].size \in Nat)
    OBVIOUS
  <2> QED  BY <2>1, HeldFacts
<1>4. Held(e, ks \cup ms) = Cardinality(A \cup B)
  <2>1. IsFiniteSet(ks \cup ms)
    BY FS_Union
  <2>2. Held(e, ks \cup ms) = Cardinality(Bytes(e, ks \cup ms))
    BY <2>1, HeldFacts
  <2> QED  BY <1>1, <2>2
<1> HIDE DEF A, B
<1>5. Cardinality(A \cup B) = Cardinality(A) + Cardinality(B) - Cardinality({})
  BY <1>2, <1>3, FS_Union
<1>6. Cardinality({}) = 0
  BY FS_EmptySet
<1> QED  BY <1>3, <1>4, <1>5, <1>6

(* One key holds its size.                                                 *)
LEMMA HeldOne ==
    ASSUME NEW e, NEW k, e[k].size \in Nat
    PROVE  Held(e, {k}) = e[k].size
<1>1. Held(e, {k}) = Cardinality({k} \X (1..e[k].size))
  <2>1. UNION {{x} \X (1..e[x].size) : x \in {k}} = {k} \X (1..e[k].size)
    OBVIOUS
  <2> QED  BY <2>1 DEF Held
<1>2. IsFiniteSet({k}) /\ Cardinality({k}) = 1
  BY FS_Singleton
<1> DEFINE s == e[k].size
<1>3. s \in Nat /\ s \in Int
  OBVIOUS
<1> HIDE DEF s
<1>4. IsFiniteSet(1..s) /\ Cardinality(1..s) = s
  <2>1. 1 \in Int
    OBVIOUS
  <2>2. IsFiniteSet(1..s) /\ Cardinality(1..s) = IF 1 > s THEN 0 ELSE s - 1 + 1
    BY <1>3, <2>1, FS_Interval
  <2>3. \A n \in Nat : (IF 1 > n THEN 0 ELSE n - 1 + 1) = n
    OBVIOUS
  <2> QED  BY <1>3, <2>2, <2>3
<1> DEFINE I == 1..s
<1>5. Cardinality({k} \X I) = Cardinality({k}) * Cardinality(I)
  <2>1. IsFiniteSet(I)
    BY <1>4
  <2> HIDE DEF I
  <2> QED  BY <1>2, <2>1, FS_Product
<1>6. Cardinality(I) = s
  BY <1>4
<1>7. Held(e, {k}) = Cardinality({k} \X I)
  BY <1>1 DEF s
<1> HIDE DEF I
<1>8. Held(e, {k}) = 1 * s
  BY <1>2, <1>5, <1>6, <1>7
<1>9. 1 * s = s
  BY <1>3
<1> QED  BY <1>8, <1>9 DEF s

(* Nothing holds nothing.                                                  *)
LEMMA HeldNone ==
    ASSUME NEW e
    PROVE  Held(e, {}) = 0
BY FS_EmptySet DEF Held

(* What is held depends on the sizes only.                                 *)
LEMMA HeldSame ==
    ASSUME NEW e, NEW f, NEW ks, \A k \in ks : e[k].size = f[k].size
    PROVE  Held(e, ks) = Held(f, ks)
<1>1. {{k} \X (1..e[k].size) : k \in ks} = {{k} \X (1..f[k].size) : k \in ks}
  OBVIOUS
<1> QED  BY <1>1 DEF Held

(* Moved apart, each to a place as large, keys hold no more than the       *)
(* places do.                                                              *)
LEMMA HeldMoved ==
    ASSUME NEW e, NEW ks, NEW f, NEW ms, IsFiniteSet(ms), \A m \in ms : f[m].size \in Nat,
           NEW g, \A k \in ks : g[k] \in ms /\ e[k].size = f[g[k]].size,
           \A k, m \in ks : g[k] = g[m] => k = m
    PROVE  Held(e, ks) <= Held(f, ms)
<1> DEFINE A == Bytes(e, ks)
           B == Bytes(f, ms)
           h == [b \in A |-> <<g[b[1]], b[2]>>]
<1>1. ASSUME NEW b \in A
      PROVE  b[1] \in ks /\ b = <<b[1], b[2]>> /\ h[b] = <<g[b[1]], b[2]>> /\ h[b] \in B
  <2>1. PICK k \in ks : \E n \in 1..e[k].size : b = <<k, n>>
    BY ByteFacts
  <2>2. PICK n \in 1..e[k].size : b = <<k, n>>
    BY <2>1
  <2>3. g[k] \in ms /\ n \in 1..f[g[k]].size /\ h[b] = <<g[k], n>>
    BY <2>2
  <2>4. h[b] \in B
    <3>1. \E m \in ms : \E i \in 1..f[m].size : h[b] = <<m, i>>
      BY <2>3
    <3> HIDE DEF h
    <3> QED  BY <3>1, ByteFacts
  <2> HIDE DEF B
  <2> QED  BY <2>2, <2>3, <2>4
<1>2. h \in Injection(A, B)
  <2>1. h \in [A -> B]
    <3> HIDE DEF A, B
    <3> QED  BY <1>1
  <2>2. \A a, b \in A : h[a] = h[b] => a = b
    <3> SUFFICES ASSUME NEW a \in A, NEW b \in A, h[a] = h[b] PROVE a = b
      OBVIOUS
    <3>1. /\ a[1] \in ks /\ a = <<a[1], a[2]>> /\ h[a] = <<g[a[1]], a[2]>>
          /\ b[1] \in ks /\ b = <<b[1], b[2]>> /\ h[b] = <<g[b[1]], b[2]>>
      BY <1>1
    <3> HIDE DEF h, A, B
    <3>2. \A p, q, r, s : <<p, q>> = <<r, s>> => p = r /\ q = s
      OBVIOUS
    <3>3. <<g[a[1]], a[2]>> = <<g[b[1]], b[2]>>
      BY <3>1
    <3>4. g[a[1]] = g[b[1]] /\ a[2] = b[2]
      BY <3>2, <3>3
    <3> QED  BY <3>1, <3>4
  <2> HIDE DEF h, A, B
  <2> QED  BY <2>1, <2>2 DEF Injection, IsInjective
<1>3. IsFiniteSet(B) /\ Held(f, ms) = Cardinality(B)
  BY HeldFacts
<1>4. Cardinality(A) <= Cardinality(B)
  <2> HIDE DEF h, A, B
  <2> QED  BY <1>2, <1>3, FS_Injection
<1>5. Held(e, ks) = Cardinality(A)
  BY DEF Held, Bytes
<1> QED  BY <1>3, <1>4, <1>5

-----------------------------------------------------------------------------
(* The accounting.                                                         *)

(* The invariant of the accounting, next to CacheInv: memory's bytes are   *)
(* the resident entries' and within the budget, the disk's copies within   *)
(* its own, and no version is ahead of the operations started.             *)
Filled == used = Held(entries, DOMAIN entries) /\ used <= budget /\ budget \in Budgets

DiskFilled == DiskHeld(disk) <= diskBudget /\ diskBudget \in DiskBudgets \cup {0}

Counts ==
    /\ ops \in 0..MaxOps /\ last \in [Keys -> 0..MaxOps] /\ raced \subseteq Keys
    /\ \A t \in Threads : job[t].at \in {"insert", "write", "record"} => job[t].item.ver <= ops

AccountInv == Filled /\ DiskFilled /\ Counts

(* The resident entries are finitely many and have sizes.                  *)
LEMMA EntrySizes ==
    ASSUME NEW e, e \in [DOMAIN e -> Entry], DOMAIN e \subseteq Keys
    PROVE  /\ IsFiniteSet(DOMAIN e) /\ \A k \in DOMAIN e : e[k].size \in Nat
           /\ \A ks \in SUBSET DOMAIN e : IsFiniteSet(ks) /\ Held(e, ks) \in Nat
<1>1. IsFiniteSet(DOMAIN e) /\ \A k \in DOMAIN e : e[k].size \in Nat
  BY CacheAssumption, FS_Subset DEF Entry
<1>2. ASSUME NEW ks \in SUBSET DOMAIN e PROVE IsFiniteSet(ks) /\ Held(e, ks) \in Nat
  <2>1. IsFiniteSet(ks) /\ \A k \in ks : e[k].size \in Nat
    BY <1>1, FS_Subset
  <2> QED  BY <2>1, HeldFacts
<1> QED  BY <1>1, <1>2

(* Shedding some entries sheds what they hold.                             *)
LEMMA HeldRest ==
    ASSUME NEW e, e \in [DOMAIN e -> Entry], DOMAIN e \subseteq Keys, NEW gone \in SUBSET DOMAIN e,
           NEW f, DOMAIN f = DOMAIN e \ gone, \A k \in DOMAIN f : f[k] = e[k]
    PROVE  /\ Held(f, DOMAIN f) = Held(e, DOMAIN e) - Held(e, gone)
           /\ Held(f, DOMAIN f) \in Nat /\ Held(f, DOMAIN f) <= Held(e, DOMAIN e)
<1> DEFINE kept == DOMAIN e \ gone
<1>1. kept \in SUBSET DOMAIN e /\ kept \cup gone = DOMAIN e /\ kept \cap gone = {}
  OBVIOUS
<1>2. /\ IsFiniteSet(kept) /\ IsFiniteSet(gone) /\ Held(e, kept) \in Nat /\ Held(e, gone) \in Nat
      /\ \A k \in kept \cup gone : e[k].size \in Nat
  BY <1>1, EntrySizes
<1>3. Held(e, kept \cup gone) = Held(e, kept) + Held(e, gone)
  <2> HIDE DEF kept
  <2> QED  BY <1>1, <1>2, HeldSplit
<1>4. Held(f, DOMAIN f) = Held(e, kept)
  BY HeldSame
<1> HIDE DEF kept
<1>5. Held(e, DOMAIN e) = Held(e, kept) + Held(e, gone)
  BY <1>1, <1>3
<1> QED  BY <1>2, <1>4, <1>5

(* _evict_to() leaves the bytes of the entries it keeps, and reaches the   *)
(* target or keeps none.                                                   *)
LEMMA TrimHeld ==
    ASSUME NEW t, NEW e, NEW u, NEW target \in Nat, NEW next, Trim(t, e, u, target, next),
           e \in [DOMAIN e -> Entry], DOMAIN e \subseteq Keys, u = Held(e, DOMAIN e)
    PROVE  used' = Held(entries', DOMAIN entries') /\ used' <= target
<1>1. PICK q \in Evictions(e, u, target) :
           entries' = Restrict(e, DOMAIN e \ Range(q)) /\ used' = u - Held(e, Range(q))
  BY DEF Trim
<1> DEFINE gone == Range(q)
<1>2. gone \in SUBSET DOMAIN e
  <2>1. PICK m \in 0..Cardinality(DOMAIN e) : q \in [1..m -> DOMAIN e]
    BY DEF Evictions, SeqOf
  <2> QED  BY <2>1 DEF Range
<1>3. u - Held(e, gone) <= target \/ gone = DOMAIN e
  BY DEF Evictions
<1>4. DOMAIN entries' = DOMAIN e \ gone /\ \A k \in DOMAIN entries' : entries'[k] = e[k]
  BY <1>1 DEF Restrict
<1>5. used' = u - Held(e, gone)
  BY <1>1
<1> HIDE DEF gone
<1>6. Held(entries', DOMAIN entries') = u - Held(e, gone)
  BY <1>2, <1>4, HeldRest
<1>7. CASE gone = DOMAIN e
  <2>1. Held(e, gone) = u /\ u \in Nat
    BY <1>7, EntrySizes
  <2> QED  BY <1>5, <1>6, <2>1
<1> QED  BY <1>3, <1>5, <1>6, <1>7

(* An entry under a new key adds its size.                                 *)
LEMMA HeldWith ==
    ASSUME NEW e, e \in [DOMAIN e -> Entry], DOMAIN e \subseteq Keys, NEW k, k \notin DOMAIN e,
           NEW n \in Entry
    PROVE  Held(With(e, k, n), DOMAIN With(e, k, n)) = Held(e, DOMAIN e) + n.size
<1> DEFINE w == With(e, k, n)
           D == DOMAIN e
<1>1. DOMAIN w = D \cup {k} /\ w[k] = n /\ \A x \in D : w[x] = e[x]
  BY DEF With
<1>2. n.size \in Nat /\ IsFiniteSet(D) /\ \A x \in D : e[x].size \in Nat
  BY EntrySizes DEF Entry
<1> HIDE DEF w
<1>3. IsFiniteSet({k}) /\ D \cap {k} = {} /\ \A x \in D \cup {k} : w[x].size \in Nat
  BY <1>1, <1>2, FS_Singleton
<1>4. Held(w, D \cup {k}) = Held(w, D) + Held(w, {k})
  <2> HIDE DEF D
  <2> QED  BY <1>2, <1>3, HeldSplit
<1>5. Held(w, {k}) = n.size
  BY <1>1, <1>2, HeldOne
<1>6. Held(w, D) = Held(e, D)
  BY <1>1, HeldSame
<1> QED  BY <1>1, <1>4, <1>5, <1>6 DEF w

(* _forget() takes the key's bytes off.                                    *)
LEMMA ForgetHeld ==
    ASSUME CacheInv, Filled, NEW k
    PROVE  /\ Forget(k).used = Held(Without(entries, k), DOMAIN Without(entries, k))
           /\ Forget(k).used <= budget /\ Forget(k).used \in Nat
<1> DEFINE gone == {k} \cap DOMAIN entries
           f == Without(entries, k)
<1>1. /\ entries \in [DOMAIN entries -> Entry] /\ DOMAIN entries \subseteq Keys
      /\ gone \in SUBSET DOMAIN entries
      /\ DOMAIN f = DOMAIN entries \ gone /\ \A x \in DOMAIN f : f[x] = entries[x]
  <2>1. entries \in [DOMAIN entries -> Entry] /\ DOMAIN entries \subseteq Keys
    BY DEF CacheInv, TierInv, Shapes
  <2>2. DOMAIN f = DOMAIN entries \ {k} /\ \A x \in DOMAIN entries \ {k} : f[x] = entries[x]
    BY ForgetFacts
  <2> HIDE DEF f
  <2>3. DOMAIN entries \ {k} = DOMAIN entries \ gone
    OBVIOUS
  <2> QED  BY <2>1, <2>2, <2>3
<1>2. Forget(k).used = used - Held(entries, gone)
  BY DEF Forget
<1> HIDE DEF gone, f
<1>3. /\ Held(f, DOMAIN f) = Held(entries, DOMAIN entries) - Held(entries, gone)
      /\ Held(f, DOMAIN f) \in Nat /\ Held(f, DOMAIN f) <= Held(entries, DOMAIN entries)
  BY <1>1, HeldRest
<1>4. used \in Nat /\ budget \in Nat
  BY <1>1, EntrySizes, CacheAssumption DEF Filled
<1> QED  BY <1>1, <1>2, <1>3, <1>4, EntrySizes DEF Filled, f

(* The disk tier has finitely many copies, and they have sizes.            *)
LEMMA TierSizes ==
    ASSUME NEW d, Tier(d)
    PROVE  IsFiniteSet(DOMAIN d) /\ (\A n \in DOMAIN d : d[n].size \in Nat) /\ DiskHeld(d) \in Nat
<1>1. d \in Seq(Copies)
  BY DEF Tier
<1>2. DOMAIN d = 1..Len(d) /\ Len(d) \in Int /\ 1 \in Int /\ \A n \in DOMAIN d : d[n] \in Copies
  BY <1>1
<1>3. IsFiniteSet(DOMAIN d) /\ \A n \in DOMAIN d : d[n].size \in Nat
  BY <1>2, FS_Interval DEF Copies
<1>4. Held(d, DOMAIN d) \in Nat
  BY <1>3, HeldFacts
<1> QED  BY <1>3, <1>4 DEF DiskHeld

(* A disk whose copies are all another's holds no more.                    *)
LEMMA TierHeld ==
    ASSUME NEW d, Tier(d), NEW c, Tier(c), \A i \in DOMAIN c : \E n \in DOMAIN d : c[i] = d[n]
    PROVE  DiskHeld(c) <= DiskHeld(d)
<1> DEFINE g == [i \in DOMAIN c |-> CHOOSE n \in DOMAIN d : c[i] = d[n]]
<1>1. \A i \in DOMAIN c : g[i] \in DOMAIN d /\ c[i] = d[g[i]]
  OBVIOUS
<1> HIDE DEF g
<1>2. \A i, j \in DOMAIN c : g[i] = g[j] => i = j
  <2> SUFFICES ASSUME NEW i \in DOMAIN c, NEW j \in DOMAIN c, g[i] = g[j] PROVE i = j
    OBVIOUS
  <2>1. c[i] = c[j]
    BY <1>1
  <2>2. c[i].key = c[j].key
    BY <2>1
  <2> QED  BY <2>2 DEF Tier
<1>3. IsFiniteSet(DOMAIN d) /\ \A n \in DOMAIN d : d[n].size \in Nat
  BY TierSizes
<1>4. \A i \in DOMAIN c : g[i] \in DOMAIN d /\ c[i].size = d[g[i]].size
  BY <1>1
<1>5. Held(c, DOMAIN c) <= Held(d, DOMAIN d)
  BY <1>2, <1>3, <1>4, HeldMoved
<1> QED  BY <1>5 DEF DiskHeld

(* DiskCacheTier._evict_to() reaches its target.                           *)
LEMMA ShrunkHeld ==
    ASSUME NEW d, Tier(d), NEW target \in Nat
    PROVE  DiskHeld(Shrunk(d, target)) <= target
<1> DEFINE after(n) == SubSeq(d, n + 1, Len(d))
           S == {n \in 0..Len(d) : n = Len(d) \/ DiskHeld(after(n)) <= target}
           n == Min(S)
<1>1. d \in Seq(Copies) /\ Len(d) \in Nat
  BY DEF Tier
<1>2. S \subseteq Nat /\ Len(d) \in S
  BY <1>1
<1>3. n \in S
  <2> HIDE DEF S
  <2> QED  BY <1>2, MinOfNat
<1>4. Shrunk(d, target) = after(n)
  BY DEF Shrunk
<1>5. n = Len(d) \/ DiskHeld(after(n)) <= target
  BY <1>3
<1> HIDE DEF n, S
<1>6. CASE n = Len(d)
  <2>1. after(n) = <<>>
    BY <1>1, <1>6
  <2>2. Shrunk(d, target) = <<>>
    BY <1>4, <2>1
  <2>3. DOMAIN Shrunk(d, target) = {}
    BY <2>2
  <2>4. DiskHeld(Shrunk(d, target)) = 0
    BY <2>3, HeldNone DEF DiskHeld
  <2> QED  BY <2>4
<1> QED  BY <1>4, <1>5, <1>6

(* What the disk tier holds after a step that only drops or moves copies.  *)
LEMMA DiskKept ==
    ASSUME CacheInv, DiskFilled, diskBudget' = diskBudget, Tier(disk'),
           \A i \in DOMAIN disk' : \E n \in DOMAIN disk : disk'[i] = disk[n]
    PROVE  DiskFilled'
<1>1. Tier(disk)
  BY DEF CacheInv, TierInv, Shapes, Tier
<1>2. DiskHeld(disk') <= DiskHeld(disk) /\ DiskHeld(disk) \in Nat /\ DiskHeld(disk') \in Nat
  BY <1>1, TierHeld, TierSizes
<1>3. diskBudget \in Int
  BY CacheAssumption DEF DiskFilled
<1> QED  BY <1>2, <1>3 DEF DiskFilled

(* The disk without a key is within its budget.                            *)
LEMMA DiskReleased ==
    ASSUME CacheInv, DiskFilled, diskBudget' = diskBudget, NEW k, disk' = Released(k)
    PROVE  DiskFilled'
<1>1. Tier(disk)
  BY DEF CacheInv, TierInv, Shapes, Tier
<1>2. Tier(disk') /\ \A i \in DOMAIN disk' : \E n \in DOMAIN disk : disk'[i] = disk[n]
  BY <1>1, ReleasedFacts
<1> QED  BY <1>2, DiskKept

(* put() on disk: refused, failed, or written and shrunk to the budget.    *)
LEMMA DiskPutFilled ==
    ASSUME CacheInv, DiskFilled, NEW k \in Keys, NEW item \in Items,
           NEW written, NEW failed, DiskPut(k, item, written, failed)
    PROVE  DiskFilled'
<1>1. CASE UNCHANGED <<disk, diskBudget>>
  BY <1>1 DEF DiskFilled
<1>2. CASE disk = <<>> /\ diskBudget' = 0 /\ UNCHANGED disk
  <2>1. DiskHeld(<<>>) = 0
    BY HeldNone DEF DiskHeld
  <2> QED  BY <1>2, <2>1 DEF DiskFilled
<1>3. CASE disk' = Released(k) /\ UNCHANGED diskBudget
  BY <1>3, DiskReleased
<1>4. CASE disk' = Written(k, item) /\ UNCHANGED diskBudget
  <2> DEFINE c == [key |-> k, ver |-> item.ver, size |-> item.size]
             r == Released(k)
             a == Append(r, c)
  <2>1. Tier(disk) /\ diskBudget \in Nat
    BY CacheAssumption DEF CacheInv, TierInv, Shapes, Tier, DiskFilled
  <2>2. c \in Copies /\ c.key = k
    BY DEF Copies, Items
  <2>3. Tier(r) /\ \A i \in DOMAIN r : r[i].key # k
    BY <2>1, ReleasedFacts
  <2>4. disk' = Shrunk(a, diskBudget)
    BY <1>4 DEF Written
  <2> HIDE DEF c, r
  <2>5. Tier(a)
    BY <2>2, <2>3, AppendFacts
  <2> HIDE DEF a
  <2>6. DiskHeld(disk') <= diskBudget
    BY <2>1, <2>4, <2>5, ShrunkHeld
  <2> QED  BY <1>4, <2>6 DEF DiskFilled
<1> QED  BY <1>1, <1>2, <1>3, <1>4 DEF DiskPut

(* The disk tier stays within its budget.                                  *)
LEMMA DiskFilledStep ==
    ASSUME CacheInv, DiskFilled, NEW t \in Threads, Begin(t) \/ Proceed(t)
    PROVE  DiskFilled'
<1>0. job[t] \in Jobs /\ Tier(disk)
  BY CacheFacts
<1>1. CASE UNCHANGED <<disk, diskBudget>>
  BY <1>1 DEF DiskFilled
<1>2. CASE Begin(t)
  <2>1. UNCHANGED <<disk, diskBudget>>
    BY <1>2 DEF Begin, Get, Put, Invalidate, Clear, OnPressure, EvictToFree, SetBudget
  <2> QED  BY <1>1, <2>1
<1>3. CASE Read(t)
  <2> DEFINE k == job[t].key
  <2>1. diskBudget' = diskBudget
    BY <1>3 DEF Read
  <2>2. \/ disk' = Released(k)
        \/ OnDisk(k) /\ disk' = Append(Released(k), Stored(k))
    BY <1>3 DEF Read
  <2> HIDE DEF k
  <2>3. CASE disk' = Released(k)
    BY <2>1, <2>3, DiskReleased
  <2>4. CASE OnDisk(k) /\ disk' = Append(Released(k), Stored(k))
    <3> DEFINE c == Stored(k)
               r == Released(k)
    <3>1. c \in Copies /\ c.key = k /\ \E n \in DOMAIN disk : c = disk[n]
      <4>1. Slot(k) \in DOMAIN disk /\ disk[Slot(k)].key = k
        BY <2>4 DEF OnDisk, Keyed, Slot
      <4>2. disk[Slot(k)] \in Copies
        BY <1>0, <4>1 DEF Tier
      <4> QED  BY <4>1, <4>2 DEF Stored
    <3>2. /\ Tier(r) /\ \A i \in DOMAIN r : r[i].key # k
          /\ \A i \in DOMAIN r : \E n \in DOMAIN disk : r[i] = disk[n]
      BY <1>0, ReleasedFacts
    <3>3. disk' = Append(r, c)
      BY <2>4
    <3> HIDE DEF c, r
    <3>4. Tier(disk')
      BY <3>1, <3>2, <3>3, AppendFacts
    <3>5. ASSUME NEW i \in DOMAIN disk' PROVE disk'[i] = c \/ (i \in DOMAIN r /\ disk'[i] = r[i])
      <4>1. r \in Seq(Copies)
        BY <3>2 DEF Tier
      <4> QED  BY <3>1, <3>3, <4>1
    <3>6. \A i \in DOMAIN disk' : \E n \in DOMAIN disk : disk'[i] = disk[n]
      BY <3>1, <3>2, <3>5
    <3> QED  BY <2>1, <3>4, <3>6, DiskKept
  <2> QED  BY <2>2, <2>3, <2>4
<1>4. CASE Recheck(t) \/ Insert(t) \/ Record(t) \/ Victim(t)
  <2>1. UNCHANGED <<disk, diskBudget>>
    BY <1>4 DEF Recheck, Insert, Record, Victim
  <2> QED  BY <1>1, <2>1
<1>5. CASE Write(t)
  <2>1. job[t] \in Puts
    BY <1>0, <1>5, JobFacts DEF Write
  <2>2. job[t].key \in Keys /\ job[t].item \in Items
    BY <2>1 DEF Puts
  <2> QED  BY <1>5, <2>2, DiskPutFilled DEF Write
<1>6. CASE Spill(t)
  <2>1. job[t] \in Walks
    BY <1>0, <1>6, JobFacts DEF Spill
  <2>2. Head(job[t].queue).key \in Keys /\ Head(job[t].queue).item \in Items
    BY <2>1, WalkFacts
  <2> QED  BY <1>6, <2>2, DiskPutFilled DEF Spill
<1>7. CASE File(t)
  <2>1. diskBudget' = diskBudget /\ (disk' = disk \/ disk' = Released(Head(job[t].queue).key))
    BY <1>7 DEF File
  <2>2. CASE disk' = disk
    BY <1>1, <2>1, <2>2
  <2> QED  BY <2>1, <2>2, DiskReleased
<1>8. CASE Release(t)
  BY <1>8, DiskReleased DEF Release
<1>9. CASE Wipe(t)
  <2>1. disk' = <<>> /\ diskBudget' = diskBudget
    BY <1>9 DEF Wipe
  <2>2. DiskHeld(<<>>) = 0
    BY HeldNone DEF DiskHeld
  <2>3. diskBudget \in Nat
    BY CacheAssumption DEF DiskFilled
  <2>4. 0 <= diskBudget
    BY <2>3
  <2> QED  BY <2>1, <2>2, <2>4 DEF DiskFilled
<1>10. CASE Resize(t)
  <2>1. disk' = Shrunk(disk, job[t].disk) /\ diskBudget' = job[t].disk /\ job[t].disk \in DiskBudgets
    BY <1>0, <1>10, JobFacts DEF Resize
  <2>2. job[t].disk \in Nat
    BY <2>1, CacheAssumption
  <2> QED  BY <1>0, <2>1, <2>2, ShrunkHeld DEF DiskFilled
<1> QED  BY <1>2, <1>3, <1>4, <1>5, <1>6, <1>7, <1>8, <1>9, <1>10 DEF Proceed

(* A trim to a target within the budget.                                   *)
LEMMA TrimFilled ==
    ASSUME NEW t, NEW e, NEW u, NEW target \in Nat, NEW next, Trim(t, e, u, target, next),
           e \in [DOMAIN e -> Entry], DOMAIN e \subseteq Keys, u = Held(e, DOMAIN e),
           budget' \in Budgets, target <= budget'
    PROVE  Filled'
<1>1. used' = Held(entries', DOMAIN entries') /\ used' <= target
  BY TrimHeld
<1>2. /\ entries' \in [DOMAIN entries' -> Entry] /\ DOMAIN entries' \subseteq Keys
  <2>1. PICK q \in Evictions(e, u, target) : entries' = Restrict(e, DOMAIN e \ Range(q))
    BY DEF Trim
  <2>2. DOMAIN entries' = DOMAIN e \ Range(q) /\ \A k \in DOMAIN entries' : entries'[k] = e[k]
    BY <2>1 DEF Restrict
  <2>3. entries' = [k \in DOMAIN entries' |-> entries'[k]]
    BY <2>1 DEF Restrict
  <2> QED  BY <2>2, <2>3
<1>3. used' \in Nat /\ budget' \in Nat
  BY <1>1, <1>2, EntrySizes, CacheAssumption
<1>4. \A a, b, c \in Nat : a <= b /\ b <= c => a <= c
  OBVIOUS
<1> QED  BY <1>1, <1>3, <1>4 DEF Filled

(* The entries with a new one under k, in whose place there was none.      *)
LEMMA WithFacts ==
    ASSUME NEW e, e \in [DOMAIN e -> Entry], DOMAIN e \subseteq Keys, NEW k \in Keys, NEW n \in Entry
    PROVE  LET w == With(e, k, n) IN w \in [DOMAIN w -> Entry] /\ DOMAIN w \subseteq Keys
BY DEF With

(* Memory stays within its budget and its bytes accounted for.             *)
LEMMA FilledStep ==
    ASSUME CacheInv, Filled, NEW t \in Threads, Begin(t) \/ Proceed(t)
    PROVE  Filled'
<1>0. /\ job[t] \in Jobs /\ entries \in [DOMAIN entries -> Entry] /\ DOMAIN entries \subseteq Keys
      /\ DOMAIN entries \cap DOMAIN demoted = {} /\ clock \in Nat
  BY CacheFacts
<1>1. used = Held(entries, DOMAIN entries) /\ used <= budget /\ budget \in Budgets /\ budget \in Nat /\ used \in Nat
  BY <1>0, EntrySizes, CacheAssumption DEF Filled
<1>2. CASE UNCHANGED <<entries, used, budget>>
  BY <1>2 DEF Filled
<1>3. ASSUME NEW k \in Keys, Get(t, k) PROVE Filled'
  <2>1. used' = used /\ budget' = budget
    BY <1>3 DEF Get
  <2>2. CASE k \notin DOMAIN entries
    BY <1>2, <1>3, <2>1, <2>2 DEF Get
  <2>3. CASE k \in DOMAIN entries
    <3> DEFINE f == [entries[k] EXCEPT !.hits = @ + 1, !.base = clock]
    <3>1. entries' = [entries EXCEPT ![k] = f]
      BY <1>3, <2>3 DEF Get
    <3>2. f.size = entries[k].size
      BY <1>0, <2>3 DEF Entry
    <3> HIDE DEF f
    <3>3. DOMAIN entries' = DOMAIN entries /\ \A x \in DOMAIN entries : entries'[x].size = entries[x].size
      BY <1>0, <3>1, <3>2
    <3>4. Held(entries', DOMAIN entries') = Held(entries, DOMAIN entries)
      BY <3>3, HeldSame
    <3> QED  BY <1>1, <2>1, <3>4 DEF Filled
  <2> QED  BY <2>2, <2>3
<1>4. ASSUME NEW k \in Keys, Invalidate(t, k) PROVE Filled'
  <2>1. entries' = Without(entries, k) /\ used' = Forget(k).used /\ budget' = budget
    BY <1>4 DEF Invalidate, Forget
  <2> QED  BY <1>1, <2>1, ForgetHeld DEF Filled
<1>5. CASE Clear(t)
  <2>1. entries' = <<>> /\ used' = 0 /\ budget' = budget
    BY <1>5 DEF Clear
  <2>2. DOMAIN entries' = {}
    BY <2>1
  <2>3. Held(entries', DOMAIN entries') = 0
    BY <2>2, HeldNone
  <2>4. 0 <= budget
    BY <1>1
  <2> QED  BY <1>1, <2>1, <2>3, <2>4 DEF Filled
<1>6. ASSUME NEW quarters \in {2, 3}, OnPressure(t, quarters) PROVE Filled'
  <2> DEFINE target == (budget * quarters) \div 4
  <2>1. Trim(t, entries, used, target, Idle) /\ budget' = budget
    BY <1>6 DEF OnPressure
  <2>2. target \in Nat /\ target <= budget
    <3>1. \A b \in Nat : (b * 2) \div 4 \in Nat /\ (b * 2) \div 4 <= b /\ (b * 3) \div 4 \in Nat /\ (b * 3) \div 4 <= b
      OBVIOUS
    <3> QED  BY <1>1, <3>1
  <2> HIDE DEF target
  <2> QED  BY <1>0, <1>1, <2>1, <2>2, TrimFilled
<1>7. ASSUME NEW n \in 1..used, EvictToFree(t, n) PROVE Filled'
  <2> DEFINE target == Max({0, used - n})
  <2>1. Trim(t, entries, used, target, Idle) /\ budget' = budget
    BY <1>7 DEF EvictToFree
  <2>2. target \in Nat /\ target <= budget
    <3>1. used - n \in Nat /\ used - n <= used /\ used - n >= 0
      BY <1>1
    <3> DEFINE d == used - n
    <3>2. d \in Nat /\ d <= used
      BY <3>1
    <3> HIDE DEF d
    <3>3. d \in {0, d} /\ \A y \in {0, d} : d >= y
      BY <3>2
    <3>4. Max({0, d}) \in {0, d} /\ \A y \in {0, d} : Max({0, d}) >= y
      BY <3>3 DEF Max
    <3>5. Max({0, d}) \in Nat /\ Max({0, d}) <= used
      BY <1>1, <3>2, <3>4
    <3>6. target = Max({0, d})
      BY DEF d
    <3> HIDE DEF target
    <3> QED  BY <1>1, <3>5, <3>6
  <2> HIDE DEF target
  <2> QED  BY <1>0, <1>1, <2>1, <2>2, TrimFilled
<1>8. ASSUME NEW b \in Budgets, NEW d \in DiskBudgets, SetBudget(t, b, d) PROVE Filled'
  <2>1. Trim(t, entries, used, b, [at |-> "resize", disk |-> d]) /\ budget' = b
    BY <1>8 DEF SetBudget
  <2>2. b \in Nat /\ b <= b
    BY CacheAssumption
  <2> QED  BY <1>0, <1>1, <2>1, <2>2, TrimFilled
<1>9. CASE Recheck(t)
  <2> DEFINE k == job[t].key
  <2>1. budget' = budget
    BY <1>9 DEF Recheck
  <2>2. k \in Keys /\ job[t].table \subseteq Copies
    BY <1>0, <1>9, JobFacts DEF Recheck
  <2>3. CASE UNCHANGED <<entries, used>>
    BY <1>2, <2>1, <2>3
  <2>4. ASSUME NEW table \in job[t].table, k \in DOMAIN demoted, Promote(t, k, table) PROVE Filled'
    <3> DEFINE n == [ver |-> table.ver, size |-> table.size, cost |-> demoted[k].cost,
                     level |-> demoted[k].level, hits |-> 1, base |-> clock]
               w == With(entries, k, n)
    <3>1. CASE UNCHANGED store
      BY <2>3, <3>1 DEF store
    <3>2. CASE Trim(t, w, used + table.size, budget, [at |-> "release", key |-> k])
      <4>1. n \in Entry /\ n.size = table.size
        <5>1. demoted[k] \in Records
          BY <2>4, CacheFacts
        <5>2. table \in Copies
          BY <2>2
        <5>3. 1 \in Nat
          OBVIOUS
        <5> QED  BY <1>0, <5>1, <5>2, <5>3 DEF Entry, Records, Copies
      <4> HIDE DEF n
      <4>2. w \in [DOMAIN w -> Entry] /\ DOMAIN w \subseteq Keys
        BY <1>0, <2>2, <4>1, WithFacts
      <4>3. k \notin DOMAIN entries
        BY <1>0, <2>4
      <4>4. used + table.size = Held(w, DOMAIN w)
        BY <1>0, <1>1, <4>1, <4>3, HeldWith
      <4> HIDE DEF w
      <4>5. budget <= budget
        BY <1>1
      <4> QED  BY <1>1, <2>1, <3>2, <4>2, <4>4, <4>5, TrimFilled
    <3> QED  BY <2>4, <3>1, <3>2 DEF Promote
  <2> HIDE DEF k
  <2>5. \/ UNCHANGED <<entries, used>>
        \/ k \in DOMAIN demoted /\ \E table \in job[t].table : Promote(t, k, table)
    BY <1>9 DEF Recheck, k
  <2> QED  BY <2>3, <2>4, <2>5
<1>10. CASE Insert(t)
  <2> DEFINE k == job[t].key
             item == job[t].item
             n == [ver |-> item.ver, size |-> item.size, cost |-> item.cost,
                   level |-> item.level, hits |-> 0, base |-> clock]
             f == Without(entries, k)
             w == With(f, k, n)
  <2>1. budget' = budget /\ Trim(t, w, Forget(k).used + item.size, budget, Idle)
    BY <1>10 DEF Insert, Forget
  <2>2. k \in Keys /\ item \in Items
    <3>1. job[t] \in Puts
      BY <1>0, <1>10, JobFacts DEF Insert
    <3> QED  BY <3>1 DEF Puts
  <2>3. n \in Entry /\ n.size = item.size
    BY <1>0, <2>2 DEF Entry, Items
  <2>4. f \in [DOMAIN f -> Entry] /\ DOMAIN f \subseteq Keys /\ k \notin DOMAIN f
    BY <1>0, ForgetFacts
  <2>5. Forget(k).used = Held(f, DOMAIN f)
    BY ForgetHeld
  <2> HIDE DEF n, f, k, item
  <2>6. w \in [DOMAIN w -> Entry] /\ DOMAIN w \subseteq Keys
    BY <2>2, <2>3, <2>4, WithFacts
  <2>7. Forget(k).used + item.size = Held(w, DOMAIN w)
    BY <2>3, <2>4, <2>5, HeldWith
  <2> HIDE DEF w
  <2>8. budget <= budget
    BY <1>1
  <2> QED  BY <1>1, <2>1, <2>6, <2>7, <2>8, TrimFilled
<1>11. CASE Record(t)
  <2>1. entries' = Without(entries, job[t].key) /\ used' = Forget(job[t].key).used /\ budget' = budget
    BY <1>11 DEF Record, Forget
  <2> QED  BY <1>1, <2>1, ForgetHeld DEF Filled
<1>12. ASSUME NEW k \in Keys, NEW r \in Results, Put(t, k, r) PROVE Filled'
  BY <1>2, <1>12 DEF Put, store
<1>13. CASE Read(t) \/ Write(t) \/ Victim(t) \/ Spill(t) \/ File(t) \/ Release(t) \/ Wipe(t) \/ Resize(t)
  <2>1. UNCHANGED <<entries, used, budget>>
    BY <1>13 DEF Read, Write, Victim, Spill, File, Release, Wipe, Resize, store
  <2> QED  BY <1>2, <2>1
<1>14. CASE Begin(t)
  BY <1>3, <1>4, <1>5, <1>6, <1>7, <1>8, <1>12, <1>14 DEF Begin
<1>15. CASE Proceed(t)
  BY <1>9, <1>10, <1>11, <1>13, <1>15 DEF Proceed
<1> QED  BY <1>14, <1>15

(* A step of a thread that counts no result from the future.               *)
LEMMA CountsAt ==
    ASSUME CacheInv, Counts, NEW t \in Threads, NEW j, job' = [job EXCEPT ![t] = j],
           ops' \in {ops, ops + 1}, ops' <= MaxOps,
           j.at \in {"insert", "write", "record"} => j.item.ver \in Nat /\ j.item.ver <= ops',
           last' \in [Keys -> 0..MaxOps], raced' \subseteq Keys
    PROVE  Counts'
<1>1. ops \in Nat /\ MaxOps \in Nat /\ ops' \in Nat /\ ops <= ops'
  BY CacheAssumption DEF Counts
<1>2. \A u \in Threads : job[u] \in Jobs
  BY DEF CacheInv, TierInv, Shapes
<1>3. DOMAIN job = Threads
  BY DEF CacheInv, TierInv, Shapes
<1>4. ASSUME NEW u \in Threads, job'[u].at \in {"insert", "write", "record"}
      PROVE  job'[u].item.ver <= ops'
  <2>1. CASE u = t
    BY <1>3, <1>4, <2>1
  <2>2. CASE u # t
    <3>1. job'[u] = job[u]
      BY <1>3, <2>2
    <3>2. job[u] \in Puts
      BY <1>2, <1>4, <3>1, JobFacts
    <3>3. job[u].item.ver \in Nat
      BY <3>2 DEF Puts, Items
    <3>4. job[u].item.ver <= ops
      BY <1>4, <3>1 DEF Counts
    <3>5. \A a, b, c \in Nat : a <= b /\ b <= c => a <= c
      OBVIOUS
    <3> QED  BY <1>1, <3>1, <3>3, <3>4, <3>5
  <2> QED  BY <2>1, <2>2
<1>5. ops' \in 0..MaxOps
  BY <1>1
<1> QED  BY <1>4, <1>5 DEF Counts

(* A write touches cache keys only.                                        *)
LEMMA TouchKeys ==
    ASSUME Counts, NEW t, NEW ks \in SUBSET Keys, Touch(t, ks)
    PROVE  raced' \subseteq Keys
BY DEF Touch, Counts

(* What was last stored is a result put so far.                            *)
LEMMA UpdateKeys ==
    ASSUME Counts, NEW t, NEW ks \in SUBSET Keys, NEW ver \in 0..MaxOps, Update(t, ks, ver)
    PROVE  last' \in [Keys -> 0..MaxOps] /\ raced' \subseteq Keys
BY TouchKeys DEF Update, Counts

(* Versions, and the history of writes, stay within the operations run.    *)
LEMMA CountsStep ==
    ASSUME CacheInv, Counts, NEW t \in Threads, Begin(t) \/ Proceed(t)
    PROVE  Counts'
<1> DEFINE Fine(j) == j.at \in {"insert", "write", "record"} => j.item.ver \in Nat /\ j.item.ver <= ops'
<1>0. /\ job[t] \in Jobs /\ ops \in Nat /\ MaxOps \in Nat /\ ops <= MaxOps /\ ops \in 0..MaxOps
      /\ last \in [Keys -> 0..MaxOps] /\ raced \subseteq Keys /\ job = [job EXCEPT ![t] = job[t]]
      /\ 0 \in 0..MaxOps
  BY CacheFacts, CacheAssumption DEF Counts
<1>1. /\ entries \in [DOMAIN entries -> Entry] /\ DOMAIN entries \subseteq Keys
      /\ clock \in Nat /\ \A k \in DOMAIN entries : Value(entries[k]) >= clock
  BY CacheFacts
<1>2. job[t].at \in {"insert", "write", "record"} =>
        /\ job[t] \in Puts /\ job[t].key \in Keys /\ job[t].item.ver \in Nat /\ job[t].item.ver <= ops
        /\ job[t].item.ver \in 0..MaxOps
  <2> SUFFICES ASSUME job[t].at \in {"insert", "write", "record"}
               PROVE  /\ job[t] \in Puts /\ job[t].key \in Keys /\ job[t].item.ver \in Nat
                      /\ job[t].item.ver <= ops /\ job[t].item.ver \in 0..MaxOps
    OBVIOUS
  <2>1. job[t] \in Puts
    BY <1>0, JobFacts
  <2>2. job[t].key \in Keys /\ job[t].item.ver \in Nat
    BY <2>1 DEF Puts, Items
  <2>3. job[t].item.ver <= ops
    BY DEF Counts
  <2> DEFINE v == job[t].item.ver
  <2>4. v \in Nat /\ v <= ops
    BY <2>2, <2>3
  <2> HIDE DEF v
  <2>5. v \in 0..MaxOps
    BY <1>0, <2>4
  <2> QED  BY <2>1, <2>2, <2>3, <2>5 DEF v
<1>3. ASSUME NEW j, job' = [job EXCEPT ![t] = j], j.at \notin {"insert", "write", "record"},
             ops' = ops, UNCHANGED <<last, raced>>
      PROVE  Counts'
  BY <1>0, <1>3, CountsAt
<1>4. ASSUME NEW j, job' = [job EXCEPT ![t] = j], Start(t), Fine(j),
             last' \in [Keys -> 0..MaxOps], raced' \subseteq Keys
      PROVE  Counts'
  <2>1. ops' = ops + 1 /\ ops < MaxOps
    BY <1>4 DEF Start
  <2>2. ops' <= MaxOps
    BY <1>0, <2>1
  <2> QED  BY <1>4, <2>1, <2>2, CountsAt
<1>5. ASSUME NEW e, NEW u, NEW target, NEW next \in Nexts, Trim(t, e, u, target, next),
             e \in [DOMAIN e -> Entry], DOMAIN e \subseteq Keys, \A k \in DOMAIN e : Value(e[k]) >= clock
      PROVE  \E j \in Jobs : job' = [job EXCEPT ![t] = j] /\ j.at \notin {"insert", "write", "record"}
  <2>1. \E j \in Jobs : /\ job' = [job EXCEPT ![t] = j]
                        /\ j.at \in {"victim", "idle", "release", "resize"}
    BY <1>1, <1>5, TrimFacts
  <2> QED  BY <2>1
<1>6. CASE Begin(t)
  <2>1. ASSUME NEW k \in Keys, Get(t, k) PROVE Counts'
    <3>1. Start(t) /\ UNCHANGED <<last, raced>> /\ job[t] = Idle
      BY <2>1 DEF Get, Start
    <3>2. PICK j : job' = [job EXCEPT ![t] = j] /\ j.at \in {"idle", "read"}
      <4>1. Idle.at = "idle" /\ [at |-> "read", key |-> k].at = "read"
        BY DEF Idle
      <4> QED  BY <1>0, <2>1, <3>1, <4>1 DEF Get, Continue
    <3>3. Fine(j)
      BY <3>2
    <3> QED  BY <1>0, <1>4, <3>1, <3>2, <3>3
  <2>2. ASSUME NEW k \in Keys, NEW r \in Results, Put(t, k, r) PROVE Counts'
    <3> DEFINE item == [ver |-> ops + 1, size |-> r.size, cost |-> r.cost, level |-> r.level]
    <3>1. Start(t) /\ UNCHANGED <<last, raced>> /\ ops' = ops + 1
      BY <2>2 DEF Put, Start
    <3>2. PICK label : job' = [job EXCEPT ![t] = [at |-> label, key |-> k, item |-> item]]
      BY <2>2 DEF Put, Continue
    <3> DEFINE j == [at |-> label, key |-> k, item |-> item]
    <3>3. j.item.ver = ops + 1
      OBVIOUS
    <3>4. ops + 1 \in Nat /\ ops + 1 <= ops'
      BY <1>0, <3>1
    <3>5. Fine(j)
      <4> HIDE DEF j
      <4> QED  BY <3>3, <3>4
    <3>6. job' = [job EXCEPT ![t] = j]
      BY <3>2
    <3> HIDE DEF j
    <3> QED  BY <1>0, <1>4, <3>1, <3>5, <3>6
  <2>3. ASSUME NEW k \in Keys, Invalidate(t, k) PROVE Counts'
    <3> DEFINE j == [at |-> "release", key |-> k]
    <3>1. Start(t) /\ Update(t, {k}, 0) /\ job' = [job EXCEPT ![t] = j]
      BY <2>3 DEF Invalidate, Continue
    <3>2. Fine(j)
      OBVIOUS
    <3>3. last' \in [Keys -> 0..MaxOps] /\ raced' \subseteq Keys
      <4>1. {k} \in SUBSET Keys
        OBVIOUS
      <4> QED  BY <1>0, <3>1, <4>1, UpdateKeys
    <3> HIDE DEF j
    <3> QED  BY <1>4, <3>1, <3>2, <3>3
  <2>4. CASE Clear(t)
    <3> DEFINE j == [at |-> "wipe"]
    <3>1. Start(t) /\ Update(t, Keys, 0) /\ job' = [job EXCEPT ![t] = j]
      BY <2>4 DEF Clear, Continue
    <3>2. Fine(j)
      OBVIOUS
    <3>3. last' \in [Keys -> 0..MaxOps] /\ raced' \subseteq Keys
      BY <1>0, <3>1, UpdateKeys
    <3> HIDE DEF j
    <3> QED  BY <1>4, <3>1, <3>2, <3>3
  <2>5. ASSUME NEW u, NEW target, NEW next \in Nexts, Trim(t, entries, u, target, next),
               Start(t), UNCHANGED <<last, raced>>
        PROVE  Counts'
    <3>1. PICK j \in Jobs : job' = [job EXCEPT ![t] = j] /\ j.at \notin {"insert", "write", "record"}
      BY <1>1, <1>5, <2>5
    <3>2. Fine(j)
      BY <3>1
    <3> QED  BY <1>0, <1>4, <2>5, <3>1, <3>2
  <2>6. Idle \in Nexts /\ \A d \in DiskBudgets : [at |-> "resize", disk |-> d] \in Nexts
    BY DEF Nexts
  <2>7. ASSUME NEW quarters \in {2, 3}, OnPressure(t, quarters) PROVE Counts'
    BY <2>5, <2>6, <2>7 DEF OnPressure
  <2>8. ASSUME NEW n \in 1..used, EvictToFree(t, n) PROVE Counts'
    BY <2>5, <2>6, <2>8 DEF EvictToFree
  <2>9. ASSUME NEW b \in Budgets, NEW d \in DiskBudgets, SetBudget(t, b, d) PROVE Counts'
    BY <2>5, <2>6, <2>9 DEF SetBudget
  <2> QED  BY <1>6, <2>1, <2>2, <2>3, <2>4, <2>7, <2>8, <2>9 DEF Begin
<1>7. CASE Read(t)
  <2>1. \E tables : job' = [job EXCEPT ![t] = [at |-> "recheck", key |-> job[t].key, table |-> tables]]
    BY <1>7 DEF Read, Continue
  <2>2. PICK tables : job' = [job EXCEPT ![t] = [at |-> "recheck", key |-> job[t].key, table |-> tables]]
    BY <2>1
  <2> DEFINE j == [at |-> "recheck", key |-> job[t].key, table |-> tables]
  <2>3. j.at \notin {"insert", "write", "record"} /\ job' = [job EXCEPT ![t] = j]
    BY <2>2
  <2> HIDE DEF j
  <2> QED  BY <1>3, <1>7, <2>3 DEF Read
<1>8. CASE Recheck(t)
  <2> DEFINE k == job[t].key
  <2>1. UNCHANGED <<last, raced>> /\ ops' = ops
    BY <1>8 DEF Recheck
  <2>2. k \in Keys /\ job[t].table \subseteq Copies
    BY <1>0, <1>8, JobFacts DEF Recheck
  <2>3. CASE job' = [job EXCEPT ![t] = Idle]
    <3>1. Idle.at = "idle"
      BY DEF Idle
    <3> QED  BY <1>3, <2>1, <2>3, <3>1
  <2>4. ASSUME NEW table \in job[t].table, k \in DOMAIN demoted, Promote(t, k, table) PROVE Counts'
    <3> DEFINE n == [ver |-> table.ver, size |-> table.size, cost |-> demoted[k].cost,
                     level |-> demoted[k].level, hits |-> 1, base |-> clock]
               w == With(entries, k, n)
               next == [at |-> "release", key |-> k]
    <3>1. CASE Continue(t, Idle)
      BY <2>3, <3>1 DEF Continue
    <3>2. CASE Trim(t, w, used + table.size, budget, next)
      <4>1. n \in Entry /\ n.base = clock
        <5>1. demoted[k] \in Records
          BY <2>4, CacheFacts
        <5>2. table \in Copies
          BY <2>2
        <5>3. 1 \in Nat
          OBVIOUS
        <5> QED  BY <1>1, <5>1, <5>2, <5>3 DEF Entry, Records, Copies
      <4>2. next \in Nexts
        BY <2>2 DEF Nexts
      <4> HIDE DEF n, next
      <4>3. w \in [DOMAIN w -> Entry] /\ DOMAIN w \subseteq Keys
        BY <1>1, <2>2, <4>1, WithFacts
      <4>4. Value(n) >= clock
        BY <4>1, ValueFacts
      <4>5. \A x \in DOMAIN w : Value(w[x]) >= clock
        BY <1>1, <4>4 DEF With
      <4> HIDE DEF w
      <4>6. \E j \in Jobs : job' = [job EXCEPT ![t] = j] /\ j.at \notin {"insert", "write", "record"}
        BY <1>5, <3>2, <4>2, <4>3, <4>5
      <4> QED  BY <1>3, <2>1, <4>6
    <3> QED  BY <2>4, <3>1, <3>2 DEF Promote
  <2>5. \/ Continue(t, Idle)
        \/ k \in DOMAIN demoted /\ \E table \in job[t].table : Promote(t, k, table)
    BY <1>8 DEF Recheck
  <2> QED  BY <2>3, <2>4, <2>5 DEF Continue
<1>9. CASE Insert(t)
  <2> DEFINE k == job[t].key
             item == job[t].item
             n == [ver |-> item.ver, size |-> item.size, cost |-> item.cost,
                   level |-> item.level, hits |-> 0, base |-> clock]
             f == Without(entries, k)
             w == With(f, k, n)
  <2>1. ops' = ops /\ Update(t, {k}, item.ver) /\ Trim(t, w, Forget(k).used + item.size, budget, Idle)
    BY <1>9 DEF Insert, Forget
  <2>2. k \in Keys /\ item \in Items /\ item.ver \in 0..MaxOps
    <3>1. job[t] \in Puts /\ item.ver \in 0..MaxOps
      BY <1>2, <1>9 DEF Insert
    <3> QED  BY <3>1 DEF Puts
  <2>3. n \in Entry /\ n.base = clock
    BY <1>1, <2>2 DEF Entry, Items
  <2>4. f \in [DOMAIN f -> Entry] /\ DOMAIN f \subseteq Keys /\ \A x \in DOMAIN f : Value(f[x]) >= clock
    <3>1. /\ DOMAIN f = DOMAIN entries \ {k} /\ f \in [DOMAIN entries \ {k} -> Entry]
          /\ \A x \in DOMAIN entries \ {k} : f[x] = entries[x]
      BY ForgetFacts
    <3> HIDE DEF f
    <3> QED  BY <1>1, <3>1
  <2>5. last' \in [Keys -> 0..MaxOps] /\ raced' \subseteq Keys
    <3>1. {k} \in SUBSET Keys
      BY <2>2
    <3> HIDE DEF k, item
    <3> QED  BY <2>1, <2>2, <3>1, UpdateKeys
  <2> HIDE DEF n, f, k, item
  <2>6. w \in [DOMAIN w -> Entry] /\ DOMAIN w \subseteq Keys
    BY <2>2, <2>3, <2>4, WithFacts
  <2>7. Value(n) >= clock
    BY <2>3, ValueFacts
  <2>8. \A x \in DOMAIN w : Value(w[x]) >= clock
    BY <2>4, <2>7 DEF With
  <2>9. Idle \in Nexts
    BY DEF Nexts
  <2> HIDE DEF w
  <2>10. PICK j \in Jobs : job' = [job EXCEPT ![t] = j] /\ j.at \notin {"insert", "write", "record"}
    BY <1>5, <2>1, <2>6, <2>8, <2>9
  <2> QED  BY <1>0, <2>1, <2>5, <2>10, CountsAt
<1>10. CASE Write(t)
  <2>1. UNCHANGED <<ops, last>> /\ Touch(t, {job[t].key}) /\ job[t].at = "write"
    BY <1>10 DEF Write
  <2>2. raced' \subseteq Keys
    <3>1. {job[t].key} \in SUBSET Keys
      BY <1>2, <2>1
    <3> QED  BY <2>1, <3>1, TouchKeys
  <2> DEFINE j == [job[t] EXCEPT !.at = "record"]
  <2>3. job' = [job EXCEPT ![t] = j] \/ job' = [job EXCEPT ![t] = Idle]
    BY <1>10 DEF Write, DiskPut, Continue
  <2>4. j.item = job[t].item /\ Idle.at = "idle"
    BY <1>2, <2>1 DEF Puts, Idle
  <2>5. j.item.ver \in Nat /\ j.item.ver <= ops'
    BY <1>2, <2>1, <2>4
  <2> HIDE DEF j
  <2> QED  BY <1>0, <2>1, <2>2, <2>3, <2>4, <2>5, CountsAt
<1>11. CASE Record(t)
  <2>1. /\ ops' = ops /\ Update(t, {job[t].key}, job[t].item.ver) /\ job' = [job EXCEPT ![t] = Idle]
        /\ job[t].at = "record"
    BY <1>11 DEF Record, Continue
  <2>2. {job[t].key} \in SUBSET Keys /\ job[t].item.ver \in 0..MaxOps
    BY <1>2, <2>1
  <2>3. last' \in [Keys -> 0..MaxOps] /\ raced' \subseteq Keys
    BY <2>1, <2>2, UpdateKeys
  <2>4. Idle.at = "idle"
    BY DEF Idle
  <2> QED  BY <1>0, <2>1, <2>3, <2>4, CountsAt
<1>12. CASE Victim(t) \/ Spill(t) \/ File(t)
  <2>1. job[t] \in Walks /\ ops' = ops /\ last' = last
    BY <1>0, <1>12, JobFacts DEF Victim, Spill, File
  <2>2. Rest(job[t]).at \in {"victim", "idle", "release", "resize"} /\ Head(job[t].queue).key \in Keys
    BY <2>1, WalkFacts
  <2>3. \A l : [job[t] EXCEPT !.at = l].at = l
    BY <2>1 DEF Walks
  <2>4. raced' \subseteq Keys
    <3>1. CASE raced' = raced
      BY <1>0, <3>1
    <3>2. CASE Touch(t, {Head(job[t].queue).key})
      <4>1. {Head(job[t].queue).key} \in SUBSET Keys
        BY <2>2
      <4> QED  BY <3>2, <4>1, TouchKeys
    <3> QED  BY <1>12, <3>1, <3>2 DEF Victim, Spill, File
  <2>5. \/ job' = [job EXCEPT ![t] = Rest(job[t])]
        \/ job' = [job EXCEPT ![t] = [job[t] EXCEPT !.at = "spill"]]
        \/ job' = [job EXCEPT ![t] = [job[t] EXCEPT !.at = "file"]]
    BY <1>12 DEF Victim, Spill, File, DiskPut, Continue
  <2>6. PICK j : job' = [job EXCEPT ![t] = j] /\ j.at \in {"victim", "idle", "release", "resize", "spill", "file"}
    BY <2>2, <2>3, <2>5
  <2> QED  BY <1>0, <2>1, <2>4, <2>6, CountsAt
<1>13. CASE Release(t) \/ Wipe(t) \/ Resize(t)
  <2>1. job' = [job EXCEPT ![t] = Idle] /\ UNCHANGED <<ops, last, raced>>
    BY <1>13 DEF Release, Wipe, Resize, Continue
  <2>2. Idle.at = "idle"
    BY DEF Idle
  <2> QED  BY <1>3, <2>1, <2>2
<1> QED  BY <1>6, <1>7, <1>8, <1>9, <1>10, <1>11, <1>12, <1>13 DEF Proceed

(* A thread is at a step of an operation.                                  *)
LEMMA JobSteps ==
    ASSUME NEW j \in Jobs
    PROVE  j.at \in {"idle", "read", "recheck", "insert", "write", "record",
                     "victim", "spill", "file", "release", "wipe", "resize"}
BY DEF Jobs, Nexts, Reads, Puts, Walks, Idle

(* The cache starts empty.                                                 *)
LEMMA AccountInit == Init => AccountInv
<1> SUFFICES ASSUME Init PROVE AccountInv
  OBVIOUS
<1>1. /\ entries = <<>> /\ used = 0 /\ disk = <<>> /\ ops = 0 /\ raced = {} /\ last = [k \in Keys |-> 0]
      /\ budget \in Budgets /\ diskBudget \in DiskBudgets /\ job = [t \in Threads |-> Idle]
  BY DEF Init
<1>2. DOMAIN entries = {} /\ DOMAIN disk = {} /\ 0 <= budget /\ 0 <= diskBudget /\ 0 \in 0..MaxOps
  BY <1>1, CacheAssumption
<1>3. Held(entries, DOMAIN entries) = 0 /\ DiskHeld(disk) = 0
  BY <1>2, HeldNone DEF DiskHeld
<1>4. \A t \in Threads : job[t].at = "idle"
  BY <1>1 DEF Idle
<1> QED  BY <1>1, <1>2, <1>3, <1>4 DEF AccountInv, Filled, DiskFilled, Counts

(* Every step keeps the accounting.                                        *)
LEMMA AccountStep == CacheInv /\ AccountInv /\ [Next]_vars => AccountInv'
<1> SUFFICES ASSUME CacheInv, AccountInv, [Next]_vars PROVE AccountInv'
  OBVIOUS
<1>1. ASSUME NEW t \in Threads, Begin(t) \/ Proceed(t) PROVE AccountInv'
  BY <1>1, FilledStep, DiskFilledStep, CountsStep DEF AccountInv
<1>2. CASE UNCHANGED vars
  BY <1>2 DEF vars, store, AccountInv, Filled, DiskFilled, Counts
<1> QED  BY <1>1, <1>2 DEF Next, Quiet

(* The accounting holds of every behaviour.                                *)
LEMMA AccountAlways == Spec => []AccountInv
BY CacheAlways, AccountInit, AccountStep, PTL DEF Spec

(* The two invariants give the accounting and the state's shape.           *)
LEMMA AccountedFromInv ==
    ASSUME CacheInv, AccountInv
    PROVE  Accounted
<1>1. /\ entries \in [DOMAIN entries -> Entry] /\ DOMAIN entries \subseteq Keys
      /\ demoted \in [DOMAIN demoted -> Records] /\ DOMAIN demoted \subseteq Keys
      /\ clock \in Nat /\ disk \in Seq(Copies) /\ job \in [Threads -> Jobs]
  BY DEF CacheInv, TierInv, Shapes
<1>2. used \in Nat
  BY <1>1, EntrySizes DEF AccountInv, Filled
<1>3. \A k \in DOMAIN entries : Copy(entries[k]) \in Items /\ entries[k].hits \in Nat /\ entries[k].base \in Nat
  BY <1>1 DEF Copy, Items, Entry
<1>4. \A i \in DOMAIN disk : disk[i] \in [key : Keys, ver : Nat, size : Nat]
  <2>1. \A i \in DOMAIN disk : disk[i] \in Copies
    BY <1>1
  <2> QED  BY <2>1 DEF Copies
<1>5. \A t \in Threads : job[t].at \in {"idle", "read", "recheck", "insert", "write", "record",
                     "victim", "spill", "file", "release", "wipe", "resize"}
  BY <1>1, JobSteps
<1>6. TypeOK
  BY <1>1, <1>2, <1>3, <1>4, <1>5 DEF TypeOK, AccountInv, Filled, DiskFilled, Counts
<1> QED  BY <1>6 DEF Accounted, AccountInv, Filled, DiskFilled

(* CacheStore._used against _entries and DiskCacheTier.used_bytes against  *)
(* max_bytes: for any threads, results and budgets, and however set_budget *)
(* changes them under put() and _promote(), the accounted bytes are those  *)
(* of the resident entries and neither tier is over its budget.            *)
THEOREM AccountedHolds == Spec => []Accounted
<1>1. CacheInv /\ AccountInv => Accounted
  BY AccountedFromInv
<1> QED  BY <1>1, CacheAlways, AccountAlways, PTL
=============================================================================
