------------------------ MODULE ConcurrencyLimiter ------------------------
(***************************************************************************)
(* Query admission: ConcurrencyLimiter.acquire and release                 *)
(* (carbonite/policies/concurrency.py), as ResourceManager.admit brackets  *)
(* a query with them.  The condition variable is CPython's: a waiter that  *)
(* times out stays in the waiter list until it holds the lock again, so a  *)
(* notify may be spent on it, and a thread that arrives may take the slot  *)
(* a woken waiter is on its way to.                                        *)
(***************************************************************************)
EXTENDS Integers, Sequences, FiniteSets

CONSTANTS
    Threads,           \* threads that run queries
    Patient,           \* the ones whose admission_timeout_s is 0
    Slots,             \* max_concurrent_queries, when it is not 0
    QueueDepth,        \* admission_queue_depth
    MaxQueries         \* bound: queries of one thread, nested ones included

ASSUME LimiterAssumption ==
    /\ IsFiniteSet(Threads) /\ Patient \subseteq Threads
    /\ Slots \in Nat \ {0} /\ QueueDepth \in Nat \ {0}
    /\ MaxQueries \in Nat

VARIABLES
    active, waiting,   \* queries holding a slot, and threads queued for one
    waiters,           \* the condition's waiter list
    pc,                \* "out", "asleep", "woken", "expired" or "running"
    depth,             \* nesting of queries on each thread
    left               \* queries each thread has yet to run

vars == <<active, waiting, waiters, pc, depth, left>>

Goto(t, label) == pc' = [pc EXCEPT ![t] = label]

-----------------------------------------------------------------------------
(* acquire().                                                              *)

HasSlot_OneExtra == active <= Slots

(* A slot is free.                                                         *)
HasSlot == active < Slots

(* The slot is taken and the thread's depth becomes one.                   *)
Enter(t) ==
    /\ active' = active + 1
    /\ depth' = [depth EXCEPT ![t] = 1]
    /\ Goto(t, "running")

(* The query gives up: AdmissionTimeout out of admit().                    *)
Refuse(t) ==
    /\ Goto(t, "out")
    /\ UNCHANGED <<active, depth>>

(* The wait() half of the loop.                                            *)
Sleep(t) ==
    /\ waiters' = Append(waiters, t)
    /\ Goto(t, "asleep")
    /\ UNCHANGED <<active, depth>>

(* The cap on threads already queued, whether or not a slot is free.       *)
QueueFull == waiting >= QueueDepth

(* An outermost query asks for a slot: turned away by a full queue, let    *)
(* straight through, or queued.                                            *)
Acquire(t) ==
    /\ pc[t] = "out" /\ left[t] > 0
    /\ left' = [left EXCEPT ![t] = @ - 1]
    /\ \/ QueueFull /\ Refuse(t) /\ UNCHANGED <<waiting, waiters>>
       \/ ~QueueFull /\ HasSlot /\ Enter(t) /\ UNCHANGED <<waiting, waiters>>
       \/ ~QueueFull /\ ~HasSlot /\ Sleep(t) /\ waiting' = waiting + 1

(* A collect() inside a UDF: no slot and no waiting.                       *)
AcquireNested(t) ==
    /\ pc[t] = "running" /\ left[t] > 0
    /\ left' = [left EXCEPT ![t] = @ - 1]
    /\ depth' = [depth EXCEPT ![t] = @ + 1]
    /\ UNCHANGED <<active, waiting, waiters, pc>>

(* The deadline of a sleeping thread passes; it now wants the lock.        *)
Expire(t) ==
    /\ pc[t] = "asleep" /\ t \notin Patient
    /\ Goto(t, "expired")
    /\ UNCHANGED <<active, waiting, waiters, depth, left>>

Place(t) == {i \in DOMAIN waiters : waiters[i] = t}

(* wait() takes its own entry off the list, if notify() has not yet.       *)
Unlisted(t) ==
    IF Place(t) = {} THEN waiters
    ELSE LET k == CHOOSE i \in Place(t) : TRUE
         IN  [i \in 1..(Len(waiters) - 1) |-> waiters[IF i < k THEN i ELSE i + 1]]

(* A queued thread holds the lock again and re-tests the loop condition    *)
(* before its deadline: a slot, the deadline, or back to sleep.            *)
Resume(t) ==
    /\ \/ /\ pc[t] \in {"woken", "expired"} /\ HasSlot
          /\ Enter(t)
          /\ waiting' = waiting - 1 /\ waiters' = Unlisted(t)
       \/ /\ pc[t] \in {"woken", "expired"} /\ t \notin Patient /\ ~HasSlot
          /\ Refuse(t)
          /\ waiting' = waiting - 1 /\ waiters' = Unlisted(t)
       \/ /\ pc[t] = "woken" /\ ~HasSlot
          /\ Sleep(t)
          /\ UNCHANGED waiting
    /\ UNCHANGED left

-----------------------------------------------------------------------------
(* release().                                                              *)

Notified_Skipped(t) == waiters' = waiters /\ pc' = [pc EXCEPT ![t] = "out"]

(* notify(): the oldest waiter is taken off the list; one that has already *)
(* timed out is on its way to the lock anyway.                             *)
Notified(t) ==
    IF waiters = <<>> THEN waiters' = waiters /\ pc' = [pc EXCEPT ![t] = "out"]
    ELSE LET w == Head(waiters)
         IN  /\ waiters' = Tail(waiters)
             /\ pc' = [pc EXCEPT ![t] = "out", ![w] = IF @ = "asleep" THEN "woken" ELSE @]

ReleaseNested_Leaks(t) == depth[t] > 1 /\ UNCHANGED vars

(* A nested query ends: only the thread's depth changes.                   *)
ReleaseNested(t) ==
    /\ depth[t] > 1
    /\ depth' = [depth EXCEPT ![t] = @ - 1]
    /\ UNCHANGED <<active, waiting, waiters, pc, left>>

(* The outermost query ends: its slot is free and one waiter hears of it.  *)
Release(t) ==
    /\ depth[t] = 1
    /\ depth' = [depth EXCEPT ![t] = 0]
    /\ active' = IF active > 0 THEN active - 1 ELSE active
    /\ Notified(t)
    /\ UNCHANGED <<waiting, left>>

-----------------------------------------------------------------------------
Init ==
    /\ active = 0 /\ waiting = 0 /\ waiters = <<>>
    /\ pc = [t \in Threads |-> "out"]
    /\ depth = [t \in Threads |-> 0]
    /\ left = [t \in Threads |-> MaxQueries]

Finished == (\A t \in Threads : pc[t] = "out" /\ left[t] = 0) /\ UNCHANGED vars

Step(t) ==
    \/ Acquire(t) \/ AcquireNested(t) \/ Resume(t)
    \/ ReleaseNested(t) \/ Release(t)

Next == Finished \/ \E t \in Threads : Step(t) \/ Expire(t)

Spec == Init /\ [][Next]_vars

(* A query that runs ends, and a thread that can take the lock does.       *)
FairSpec ==
    Spec /\ \A t \in Threads :
        WF_vars(Acquire(t)) /\ WF_vars(Resume(t)) /\ WF_vars(ReleaseNested(t) \/ Release(t))

-----------------------------------------------------------------------------
(* Properties.                                                             *)

Holders == {t \in Threads : depth[t] > 0}
Queued  == {t \in Threads : pc[t] \in {"asleep", "woken", "expired"}}
Asleep  == {t \in Threads : pc[t] = "asleep"}
Listed  == {waiters[i] : i \in DOMAIN waiters}

(* Threads a notify has reached that have not held the lock since.         *)
Signalled == Queued \ Listed

(* A thread is inside a query exactly while its depth is positive.         *)
TypeOK ==
    /\ active \in Nat /\ waiting \in Nat
    /\ waiters \in Seq(Threads)
    /\ pc \in [Threads -> {"out", "asleep", "woken", "expired", "running"}]
    /\ depth \in [Threads -> 0..MaxQueries]
    /\ left \in [Threads -> 0..MaxQueries]
    /\ \A t \in Threads : depth[t] > 0 <=> pc[t] = "running"

(* The accounting is exact however queries nest, time out and overlap:     *)
(* _active is the number of threads inside an outermost query, never more  *)
(* than the slots, and _waiting the number queued, never more than the cap *)
(* (release's per-thread depth, acquire's finally).                        *)
SlotsExact ==
    /\ TypeOK
    /\ active = Cardinality(Holders) /\ active <= Slots
    /\ waiting = Cardinality(Queued) /\ waiting <= QueueDepth

(* No lost wakeup: while a thread sleeps, every free slot has a thread on  *)
(* its way to the lock to take it, although notify() wakes one thread and  *)
(* may pick one that has just timed out.                                   *)
NoLostWakeup ==
    Asleep # {} => Slots - active <= Cardinality(Signalled)

(* Everybody who queued without a deadline is admitted, and nested queries *)
(* never deadlock the process against itself.                              *)
EventuallyAdmitted == \A t \in Patient : pc[t] = "asleep" ~> pc[t] = "running"
=============================================================================
