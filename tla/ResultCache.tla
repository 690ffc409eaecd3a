---------------------------- MODULE ResultCache ----------------------------
(***************************************************************************)
(* The result cache: CacheStore (carbonite/cache.py) over DiskCacheTier    *)
(* (carbonite/cache_disk.py).  Each has one lock.  Disk reads and writes   *)
(* happen with the store's lock released, so an operation is several steps *)
(* and those of other threads fall between them: a step is one lock        *)
(* window.  A table is its version and its size; statistics are left out.  *)
(***************************************************************************)
EXTENDS Integers, Sequences, SequencesExt, FiniteSets, FiniteSetsExt, Functions

CONSTANTS
    Threads, Keys,
    Results,            \* what a query may put: [size, cost, level] records
    Budgets,            \* memory budgets the configuration may ask for
    DiskBudgets,        \* disk budgets it may ask for
    Scale,              \* a common multiple of the sizes: keeps Value integral
    MaxOps              \* bound: operations started

Levels == {"MEMORY_ONLY", "MEMORY_AND_DISK", "DISK_ONLY"}
UsesMemory(level) == level # "DISK_ONLY"
UsesDisk(level) == level # "MEMORY_ONLY"

ASSUME CacheAssumption ==
    /\ IsFiniteSet(Threads) /\ IsFiniteSet(Keys)
    /\ Results \subseteq [size : Nat, cost : Nat \ {0}, level : Levels]
    /\ Budgets \subseteq Nat /\ Budgets # {}
    /\ DiskBudgets \subseteq Nat /\ DiskBudgets # {}
    /\ Scale \in Nat \ {0} /\ MaxOps \in Nat

VARIABLES
    entries,            \* _entries: key -> [ver, size, cost, level, hits, base]
    demoted,            \* _demoted: key -> [cost, level]
    used, clock,        \* _used and the eviction clock
    budget, diskBudget, \* _max_bytes of the two tiers
    disk,               \* the disk tier's entries, least recently used first
    job,                \* what each thread has left of its operation
    ops,                \* operations started; also the version of the next put
    last,               \* history: the version last stored, 0 once dropped
    raced               \* history: keys written while another thread held a copy

store == <<entries, demoted, used, clock>>
vars == <<store, budget, diskBudget, disk, job, ops, last, raced>>

Idle == [at |-> "idle"]
Continue(t, next) == job' = [job EXCEPT ![t] = next]

Without(f, k) == Restrict(f, DOMAIN f \ {k})
With(f, k, v) == [x \in DOMAIN f \cup {k} |-> IF x = k THEN v ELSE f[x]]

-----------------------------------------------------------------------------
(* Eviction from memory.                                                   *)

Value_NoInflation(e) == (e.cost * (e.hits + 1) * Scale) \div Max({1, e.size})

(* _Entry.value: the keep-value, over the clock of the last access.        *)
Value(e) == e.base + (e.cost * (e.hits + 1) * Scale) \div Max({1, e.size})

(* What a victim carries out of memory.                                    *)
Copy(e) == [ver |-> e.ver, size |-> e.size, cost |-> e.cost, level |-> e.level]

(* The sum of the sizes under ks: the number of bytes, told apart by key.  *)
Held(e, ks) == Cardinality(UNION {{k} \X (1..e[k].size) : k \in ks})

(* The orders in which _evict_to may shed entries of e, u bytes in all, to *)
(* reach the target: cheapest first and no further than needed.            *)
Evictions(e, u, target) ==
    {q \in SeqOf(DOMAIN e, Cardinality(DOMAIN e)) :
        LET gone == Range(q)
        IN  /\ \A i, j \in DOMAIN q : i < j => /\ q[i] # q[j]
                                               /\ Value(e[q[i]]) <= Value(e[q[j]])
            /\ \A i \in DOMAIN q : \A k \in DOMAIN e \ gone : Value(e[q[i]]) <= Value(e[k])
            /\ u - Held(e, gone) <= target \/ gone = DOMAIN e
            /\ q # <<>> => u - Held(e, Range(Front(q))) > target}

(* The state after e is trimmed to the target, and the thread left with    *)
(* the victims to demote before it goes on to next.  A promotion that      *)
(* evicts itself does not release its disk copy.                           *)
Trim(t, e, u, target, next) ==
    \E q \in Evictions(e, u, target) :
        LET after == IF next.at = "release" /\ next.key \in Range(q) THEN Idle ELSE next IN
        /\ entries' = Restrict(e, DOMAIN e \ Range(q))
        /\ used' = u - Held(e, Range(q))
        /\ clock' = IF q = <<>> THEN clock ELSE Value(e[Last(q)])
        /\ Continue(t, IF q = <<>> THEN after
                       ELSE [at |-> "victim", next |-> after,
                             queue |-> [i \in DOMAIN q |-> [key |-> q[i], item |-> Copy(e[q[i]])]]])

-----------------------------------------------------------------------------
(* The disk tier.  Each operator below is one window of its lock.          *)

Keyed(k) == {i \in DOMAIN disk : disk[i].key = k}
OnDisk(k) == Keyed(k) # {}
Slot(k) == CHOOSE i \in Keyed(k) : TRUE
Stored(k) == disk[Slot(k)]
Released(k) == IF OnDisk(k) THEN RemoveAt(disk, Slot(k)) ELSE disk

DiskHeld(d) == Held(d, DOMAIN d)

(* DiskCacheTier._evict_to: from the least recently used end.              *)
Shrunk(d, target) ==
    LET after(n) == SubSeq(d, n + 1, Len(d))
    IN  after(Min({n \in 0..Len(d) : n = Len(d) \/ DiskHeld(after(n)) <= target}))

DiskEnabled == diskBudget > 0

(* put(): refused outright (tier off, empty result); refused because the   *)
(* directory of an empty tier cannot be made, which turns the tier off;    *)
(* failed after the old copy was released (a failed write, a result larger *)
(* than the tier); or written at the recent end.                           *)
Refuses(item) == ~DiskEnabled \/ item.size = 0
Written_FirstWins(k, item) ==
    IF OnDisk(k) THEN disk
    ELSE Shrunk(Append(disk, [key |-> k, ver |-> item.ver, size |-> item.size]), diskBudget)

Written(k, item) ==
    Shrunk(Append(Released(k), [key |-> k, ver |-> item.ver, size |-> item.size]), diskBudget)

DiskPut(k, item, written, failed) ==
    \/ Refuses(item) /\ failed /\ UNCHANGED <<disk, diskBudget>>
    \/ ~Refuses(item) /\ disk = <<>> /\ failed /\ diskBudget' = 0 /\ UNCHANGED disk
    \/ ~Refuses(item) /\ failed /\ disk' = Released(k) /\ UNCHANGED diskBudget
    \/ /\ ~Refuses(item) /\ item.size <= diskBudget
       /\ written /\ disk' = Written(k, item) /\ UNCHANGED diskBudget

-----------------------------------------------------------------------------
(* History: a write of k while another thread holds a copy of it.          *)

Holds(t, k) ==
    \/ job[t].at = "recheck" /\ job[t].key = k /\ job[t].table # {}
    \/ job[t].at \in {"write", "record"} /\ job[t].key = k
    \/ job[t].at \in {"victim", "spill", "file"} /\ \E i \in DOMAIN job[t].queue : job[t].queue[i].key = k

Busy(t, k) ==
    \/ Holds(t, k)
    \/ job[t].at \in {"read", "recheck", "insert", "release"} /\ job[t].key = k
    \/ job[t].at = "wipe"

Touch(t, ks) == raced' = raced \cup {k \in ks : \E u \in Threads \ {t} : Holds(u, k)}

Update(t, ks, ver) ==
    /\ last' = [k \in Keys |-> IF k \in ks THEN ver ELSE last[k]]
    /\ Touch(t, ks)

-----------------------------------------------------------------------------
(* get().                                                                  *)

Start(t) == job[t] = Idle /\ ops < MaxOps /\ ops' = ops + 1

Get(t, k) ==
    /\ Start(t)
    /\ IF k \in DOMAIN entries
       THEN /\ entries' = [entries EXCEPT ![k].hits = @ + 1, ![k].base = clock]
            /\ UNCHANGED job
       ELSE /\ k \in DOMAIN demoted
            /\ Continue(t, [at |-> "read", key |-> k])
            /\ UNCHANGED entries
    /\ UNCHANGED <<demoted, used, clock, budget, diskBudget, disk, last, raced>>

(* The disk read, which refreshes the copy's recency; one that fails drops *)
(* the copy.  The table read is a set of at most one record.               *)
Read(t) ==
    /\ job[t].at = "read"
    /\ LET k == job[t].key
           found(tables) == Continue(t, [at |-> "recheck", key |-> k, table |-> tables])
       IN  \/ OnDisk(k) /\ found({Stored(k)}) /\ disk' = Append(Released(k), Stored(k))
           \/ found({}) /\ disk' = Released(k)
    /\ UNCHANGED <<store, budget, diskBudget, ops, last, raced>>

(* A result larger than the whole budget is not held in memory.            *)
Fits(size) == budget > 0 /\ size <= budget

(* _promote, once the record was found again.                              *)
Promote(t, k, table) ==
    LET e == [ver |-> table.ver, size |-> table.size, cost |-> demoted[k].cost,
              level |-> demoted[k].level, hits |-> 1, base |-> clock]
    IN  IF UsesMemory(demoted[k].level) /\ Fits(table.size)
        THEN /\ demoted' = Without(demoted, k)
             /\ Trim(t, With(entries, k, e), used + table.size, budget,
                     [at |-> "release", key |-> k])
        ELSE Continue(t, Idle) /\ UNCHANGED store

Recheck(t) ==
    /\ job[t].at = "recheck"
    /\ LET k == job[t].key
       IN  IF job[t].table = {} \/ k \notin DOMAIN demoted
           THEN /\ demoted' = Without(demoted, k)
                /\ Continue(t, Idle)
                /\ UNCHANGED <<entries, used, clock>>
           ELSE \E table \in job[t].table : Promote(t, k, table)
    /\ UNCHANGED <<budget, diskBudget, disk, ops, last, raced>>

-----------------------------------------------------------------------------
(* put().                                                                  *)

(* The result is compared with the budget before the lock is taken.        *)
Put(t, k, r) ==
    /\ Start(t)
    /\ LET item == [ver |-> ops + 1, size |-> r.size, cost |-> r.cost, level |-> r.level]
           next(label) == Continue(t, [at |-> label, key |-> k, item |-> item])
       IN  \/ UsesMemory(r.level) /\ Fits(r.size) /\ next("insert")
           \/ ~(UsesMemory(r.level) /\ Fits(r.size)) /\ UsesDisk(r.level) /\ next("write")
    /\ UNCHANGED <<store, budget, diskBudget, disk, last, raced>>

Forget_Leaks(k) == [entries |-> Without(entries, k), demoted |-> Without(demoted, k),
                    used |-> used]

(* _forget: the store with nothing under k.                                *)
Forget(k) == [entries |-> Without(entries, k), demoted |-> Without(demoted, k),
              used |-> used - Held(entries, {k} \cap DOMAIN entries)]

Insert(t) ==
    /\ job[t].at = "insert"
    /\ LET k == job[t].key
           item == job[t].item
           e == [ver |-> item.ver, size |-> item.size, cost |-> item.cost,
                 level |-> item.level, hits |-> 0, base |-> clock]
       IN  /\ demoted' = Forget(k).demoted
           /\ Trim(t, With(Forget(k).entries, k, e), Forget(k).used + item.size, budget, Idle)
           /\ Update(t, {k}, item.ver)
    /\ UNCHANGED <<budget, diskBudget, disk, ops>>

(* _write_through: the disk write, then the record of it.                  *)
Write(t) ==
    /\ job[t].at = "write"
    /\ DiskPut(job[t].key, job[t].item,
               Continue(t, [job[t] EXCEPT !.at = "record"]), Continue(t, Idle))
    /\ Touch(t, {job[t].key})
    /\ UNCHANGED <<store, budget, ops, last>>

Record(t) ==
    /\ job[t].at = "record"
    /\ LET k == job[t].key
           item == job[t].item
       IN  /\ entries' = Forget(k).entries
           /\ used' = Forget(k).used
           /\ demoted' = With(demoted, k, [cost |-> item.cost, level |-> item.level])
           /\ Update(t, {k}, item.ver)
    /\ Continue(t, Idle)
    /\ UNCHANGED <<clock, budget, diskBudget, disk, ops>>

-----------------------------------------------------------------------------
(* _demote: the victims, one by one.                                       *)

(* The thread moves on from the victim it was at.                          *)
Rest(j) == IF Len(j.queue) = 1 THEN j.next
           ELSE [j EXCEPT !.at = "victim", !.queue = Tail(@)]

Superseded_Unchecked(k) == FALSE

(* The key was put again since it was evicted.                             *)
Superseded(k) == k \in DOMAIN entries

Victim(t) ==
    /\ job[t].at = "victim"
    /\ LET v == Head(job[t].queue)
       IN  Continue(t, IF UsesDisk(v.item.level) /\ DiskEnabled /\ ~Superseded(v.key)
                       THEN [job[t] EXCEPT !.at = "spill"] ELSE Rest(job[t]))
    /\ UNCHANGED <<store, budget, diskBudget, disk, ops, last, raced>>

Spill(t) ==
    /\ job[t].at = "spill"
    /\ LET v == Head(job[t].queue)
       IN  /\ DiskPut(v.key, v.item, Continue(t, [job[t] EXCEPT !.at = "file"]),
                      Continue(t, Rest(job[t])))
           /\ Touch(t, {v.key})
    /\ UNCHANGED <<store, budget, ops, last>>

(* The record of the copy, unless a newer result took the key meanwhile.   *)
File(t) ==
    /\ job[t].at = "file"
    /\ LET v == Head(job[t].queue)
       IN  IF Superseded(v.key)
           THEN disk' = Released(v.key) /\ UNCHANGED demoted
           ELSE /\ demoted' = With(demoted, v.key, [cost |-> v.item.cost, level |-> v.item.level])
                /\ UNCHANGED disk
    /\ Continue(t, Rest(job[t]))
    /\ UNCHANGED <<entries, used, clock, budget, diskBudget, ops, last, raced>>

-----------------------------------------------------------------------------
(* Dropping, trimming and resizing.                                        *)

(* The disk copy of a key promoted or invalidated.                         *)
Release(t) ==
    /\ job[t].at = "release"
    /\ disk' = Released(job[t].key)
    /\ Continue(t, Idle)
    /\ UNCHANGED <<store, budget, diskBudget, ops, last, raced>>

Invalidate(t, k) ==
    /\ Start(t)
    /\ entries' = Forget(k).entries
    /\ demoted' = Forget(k).demoted
    /\ used' = Forget(k).used
    /\ Update(t, {k}, 0)
    /\ Continue(t, [at |-> "release", key |-> k])
    /\ UNCHANGED <<clock, budget, diskBudget, disk>>

(* clear(), also what critical memory pressure calls: both tiers in turn.  *)
Clear(t) ==
    /\ Start(t)
    /\ entries' = <<>> /\ demoted' = <<>>
    /\ used' = 0 /\ clock' = 0
    /\ Update(t, Keys, 0)
    /\ Continue(t, [at |-> "wipe"])
    /\ UNCHANGED <<budget, diskBudget, disk>>

Wipe(t) ==
    /\ job[t].at = "wipe"
    /\ disk' = <<>>
    /\ Continue(t, Idle)
    /\ UNCHANGED <<store, budget, diskBudget, ops, last, raced>>

(* on_pressure below CRITICAL.                                             *)
OnPressure(t, quarters) ==
    /\ Start(t)
    /\ Trim(t, entries, used, (budget * quarters) \div 4, Idle)
    /\ UNCHANGED <<demoted, budget, diskBudget, disk, last, raced>>

EvictToFree(t, n) ==
    /\ Start(t)
    /\ Trim(t, entries, used, Max({0, used - n}), Idle)
    /\ UNCHANGED <<demoted, budget, diskBudget, disk, last, raced>>

(* set_budget: memory under the lock, then, once its victims are demoted,  *)
(* the disk.                                                               *)
SetBudget(t, b, d) ==
    /\ Start(t)
    /\ b # budget \/ d # diskBudget
    /\ budget' = b
    /\ Trim(t, entries, used, b, [at |-> "resize", disk |-> d])
    /\ UNCHANGED <<demoted, diskBudget, disk, last, raced>>

Resize(t) ==
    /\ job[t].at = "resize"
    /\ diskBudget' = job[t].disk
    /\ disk' = Shrunk(disk, job[t].disk)
    /\ Continue(t, Idle)
    /\ UNCHANGED <<store, budget, ops, last, raced>>

-----------------------------------------------------------------------------
Init ==
    /\ entries = <<>> /\ demoted = <<>>
    /\ used = 0 /\ clock = 0
    /\ budget \in Budgets /\ diskBudget \in DiskBudgets
    /\ disk = <<>>
    /\ job = [t \in Threads |-> Idle]
    /\ ops = 0
    /\ last = [k \in Keys |-> 0] /\ raced = {}

Begin(t) ==
    \/ \E k \in Keys : Get(t, k)
    \/ \E k \in Keys, r \in Results : Put(t, k, r)
    \/ \E k \in Keys : Invalidate(t, k)
    \/ Clear(t)
    \/ \E quarters \in {2, 3} : OnPressure(t, quarters)
    \/ \E n \in 1..used : EvictToFree(t, n)
    \/ \E b \in Budgets, d \in DiskBudgets : SetBudget(t, b, d)

Proceed(t) ==
    \/ Read(t) \/ Recheck(t)
    \/ Insert(t) \/ Write(t) \/ Record(t)
    \/ Victim(t) \/ Spill(t) \/ File(t)
    \/ Release(t) \/ Wipe(t) \/ Resize(t)

(* Every operation has returned and the bound on new ones is reached.      *)
Quiet == ops = MaxOps /\ (\A t \in Threads : job[t] = Idle) /\ UNCHANGED vars

Next == (\E t \in Threads : Begin(t) \/ Proceed(t)) \/ Quiet

Spec == Init /\ [][Next]_vars

-----------------------------------------------------------------------------
(* Properties.                                                             *)

Items == [ver : Nat, size : Nat, cost : Nat \ {0}, level : Levels]
Records == [cost : Nat \ {0}, level : Levels]

(* The state is well formed: each tier is keyed by cache keys and a thread *)
(* is at a step of an operation.                                           *)
TypeOK ==
    /\ DOMAIN entries \subseteq Keys /\ DOMAIN demoted \subseteq Keys
    /\ \A k \in DOMAIN entries : /\ Copy(entries[k]) \in Items
                                 /\ entries[k].hits \in Nat /\ entries[k].base \in Nat
    /\ \A k \in DOMAIN demoted : demoted[k] \in Records
    /\ used \in Nat /\ clock \in Nat /\ budget \in Budgets /\ diskBudget \in DiskBudgets \cup {0}
    /\ \A i \in DOMAIN disk : disk[i] \in [key : Keys, ver : Nat, size : Nat]
    /\ DOMAIN job = Threads
    /\ \A t \in Threads : job[t].at \in {"idle", "read", "recheck", "insert", "write", "record",
                                          "victim", "spill", "file", "release", "wipe", "resize"}
    /\ ops \in 0..MaxOps /\ last \in [Keys -> 0..MaxOps] /\ raced \subseteq Keys

(* A key is memory-resident or demoted, never both, whatever demotions,    *)
(* promotions and puts were in flight: the comment on CacheStore._demoted, *)
(* on which the accounting of a promotion rests.                           *)
OneTier == DOMAIN entries \cap DOMAIN demoted = {}

(* The state is well formed, the accounted bytes are the sizes of the      *)
(* resident results, and neither tier is over its budget between lock      *)
(* windows, also when the budget shrank after put() compared the result    *)
(* with it.                                                                *)
Accounted ==
    /\ TypeOK
    /\ used = Held(entries, DOMAIN entries)
    /\ used <= budget
    /\ DiskHeld(disk) <= diskBudget

(* No resident entry ranks below the eviction clock, so evicting never     *)
(* lowers it: what the comment in _evict_to argues in place of a max().    *)
ClockIsFloor == \A k \in DOMAIN entries : Value(entries[k]) >= clock

(* The version a get of k would find.                                      *)
Served(k) ==
    IF k \in DOMAIN entries THEN entries[k].ver
    ELSE IF k \in DOMAIN demoted /\ OnDisk(k) THEN Stored(k).ver ELSE 0

(* When no thread is at work on a key, it serves the result last stored or *)
(* nothing, never an older or an invalidated one, provided no write of it  *)
(* overlapped another thread's demotion, promotion or write of a copy.     *)
(* (Without the proviso this fails: _demote skips a victim that was stored *)
(* again in memory, but not one invalidated or written through meanwhile.) *)
StaleOnlyAfterRace ==
    \A k \in Keys \ raced :
        (\A t \in Threads : ~Busy(t, k)) => Served(k) \in {0, last[k]}
=============================================================================
