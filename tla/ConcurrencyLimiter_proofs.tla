--------------------- MODULE ConcurrencyLimiter_proofs ---------------------
(***************************************************************************)
(* The accounting of the admission limiter and the absence of a lost       *)
(* wakeup, for any number of threads, slots, queue places and nested       *)
(* queries.                                                                *)
(*                                                                         *)
(* The counters are sizes of sets of threads, so each step of the proof    *)
(* says which thread joins or leaves which set.  What makes that work is   *)
(* the discipline of the waiter list: a thread is in it once at most, only *)
(* queued threads are, and a sleeping one always is.                       *)
(***************************************************************************)
EXTENDS ConcurrencyLimiter, TLAPS, FiniteSetTheorems

-----------------------------------------------------------------------------
(* The inductive invariant.                                                *)

(* A query a thread is inside of or queued for is one of its MaxQueries.   *)
DepthPaid ==
    \A t \in Threads :
        /\ depth[t] + left[t] <= MaxQueries
        /\ pc[t] \in {"asleep", "woken", "expired"} => left[t] < MaxQueries

NoneListedTwice ==
    \A i, j \in DOMAIN waiters : waiters[i] = waiters[j] => i = j

(* A thread notify() has reached is off the list: what is on it sleeps or  *)
(* has timed out, and a sleeping thread is on it.                          *)
ListSound == \A t \in Listed : t \in Threads /\ pc[t] \in {"asleep", "expired"}

ListComplete == \A t \in Threads : pc[t] = "asleep" => t \in Listed

ListInv == TypeOK /\ DepthPaid /\ NoneListedTwice /\ ListSound /\ ListComplete

Counted ==
    /\ active = Cardinality(Holders) /\ active <= Slots
    /\ waiting = Cardinality(Queued) /\ waiting <= QueueDepth

IInv == ListInv /\ Counted /\ NoLostWakeup

-----------------------------------------------------------------------------
(* Lemmas about the list.                                                  *)

(* Taking a thread off a list without duplicates removes it and nobody     *)
(* else, and leaves no duplicates.                                         *)
LEMMA UnlistedRemoves ==
    ASSUME waiters \in Seq(Threads), NoneListedTwice, NEW t \in Threads, NEW u,
           u = Unlisted(t)
    PROVE  /\ u \in Seq(Threads)
           /\ \A i, j \in DOMAIN u : u[i] = u[j] => i = j
           /\ \A i \in DOMAIN u : u[i] # t /\ \E j \in DOMAIN waiters : waiters[j] = u[i]
           /\ \A j \in DOMAIN waiters : waiters[j] # t => \E i \in DOMAIN u : u[i] = waiters[j]
<1>1. CASE Place(t) = {}
  BY <1>1 DEF Unlisted, Place, NoneListedTwice
<1>2. CASE Place(t) # {}
  <2> DEFINE k == CHOOSE i \in Place(t) : TRUE
  <2>1. k \in DOMAIN waiters /\ waiters[k] = t
    BY <1>2 DEF Place
  <2>2. u = [i \in 1..(Len(waiters) - 1) |-> waiters[IF i < k THEN i ELSE i + 1]]
    BY <1>2 DEF Unlisted
  <2> HIDE DEF k
  <2>3. Len(waiters) \in Nat /\ DOMAIN waiters = 1..Len(waiters) /\ k \in 1..Len(waiters)
    BY <2>1
  <2>4. \A i \in 1..(Len(waiters) - 1) : (IF i < k THEN i ELSE i + 1) \in DOMAIN waiters
    BY <2>3
  <2>5. DOMAIN u = 1..(Len(waiters) - 1)
        /\ \A i \in DOMAIN u : u[i] = waiters[IF i < k THEN i ELSE i + 1]
    BY <2>2
  <2>6. u \in Seq(Threads)
    BY <2>2, <2>3, <2>4
  <2>7. \A i, j \in DOMAIN u : u[i] = u[j] => i = j
    BY <2>3, <2>4, <2>5 DEF NoneListedTwice
  <2>8. \A i \in DOMAIN u : u[i] # t /\ \E j \in DOMAIN waiters : waiters[j] = u[i]
    BY <2>1, <2>3, <2>4, <2>5 DEF NoneListedTwice
  <2>9. ASSUME NEW j \in DOMAIN waiters, waiters[j] # t
        PROVE  \E i \in DOMAIN u : u[i] = waiters[j]
    <3>1. CASE j < k
      BY <3>1, <2>3, <2>5
    <3>2. CASE ~(j < k)
      <4>1. j > k
        BY <3>2, <2>1, <2>3, <2>9
      <4>2. j - 1 \in DOMAIN u /\ ~(j - 1 < k) /\ j - 1 + 1 = j
        BY <4>1, <2>3, <2>5
      <4> QED
        BY <4>2, <2>5
    <3> QED
      BY <3>1, <3>2
  <2> QED
    BY <2>6, <2>7, <2>8, <2>9
<1> QED
  BY <1>1, <1>2

(* The same of the step that does so.                                      *)
LEMMA UnlistStep ==
    ASSUME waiters \in Seq(Threads), NoneListedTwice, NEW t \in Threads,
           waiters' = Unlisted(t)
    PROVE  waiters' \in Seq(Threads) /\ NoneListedTwice' /\ Listed' = Listed \ {t}
<1> DEFINE u == waiters'
<1>1. u = Unlisted(t)
  OBVIOUS
<1> HIDE DEF u
<1>2. /\ u \in Seq(Threads)
      /\ \A i, j \in DOMAIN u : u[i] = u[j] => i = j
      /\ \A i \in DOMAIN u : u[i] # t /\ \E j \in DOMAIN waiters : waiters[j] = u[i]
      /\ \A j \in DOMAIN waiters : waiters[j] # t => \E i \in DOMAIN u : u[i] = waiters[j]
  BY <1>1, UnlistedRemoves
<1> QED
  BY <1>2 DEF u, NoneListedTwice, Listed

(* A thread that goes to sleep and was not listed becomes listed.          *)
LEMMA AppendStep ==
    ASSUME waiters \in Seq(Threads), NoneListedTwice, NEW t \in Threads, t \notin Listed,
           waiters' = Append(waiters, t)
    PROVE  waiters' \in Seq(Threads) /\ NoneListedTwice' /\ Listed' = Listed \cup {t}
<1>1. /\ waiters' \in Seq(Threads) /\ DOMAIN waiters = 1..Len(waiters) /\ Len(waiters) \in Nat
      /\ DOMAIN waiters' = 1..(Len(waiters) + 1)
      /\ waiters'[Len(waiters) + 1] = t
      /\ \A i \in 1..Len(waiters) : waiters'[i] = waiters[i]
  OBVIOUS
<1>2. NoneListedTwice'
  BY <1>1 DEF NoneListedTwice, Listed
<1>3. Listed' = Listed \cup {t}
  BY <1>1 DEF Listed
<1> QED
  BY <1>1, <1>2, <1>3

(* The oldest waiter, which notify() takes off, is no longer listed.       *)
LEMMA TailStep ==
    ASSUME waiters \in Seq(Threads), NoneListedTwice, waiters # <<>>,
           waiters' = Tail(waiters)
    PROVE  /\ waiters' \in Seq(Threads) /\ NoneListedTwice'
           /\ Head(waiters) \in Listed /\ Listed' = Listed \ {Head(waiters)}
<1>1. /\ waiters' \in Seq(Threads) /\ DOMAIN waiters = 1..Len(waiters) /\ Len(waiters) \in Nat \ {0}
      /\ DOMAIN waiters' = 1..(Len(waiters) - 1)
      /\ Head(waiters) = waiters[1]
      /\ \A i \in 1..(Len(waiters) - 1) : waiters'[i] = waiters[i + 1]
  OBVIOUS
<1>2. NoneListedTwice'
  BY <1>1 DEF NoneListedTwice
<1>3. Head(waiters) \in Listed
  BY <1>1 DEF Listed
<1>4. ASSUME NEW w \in Listed'
      PROVE  w \in Listed /\ w # Head(waiters)
  <2>1. PICK i \in 1..(Len(waiters) - 1) : w = waiters[i + 1]
    BY <1>1, <1>4 DEF Listed
  <2>2. i + 1 \in DOMAIN waiters /\ i + 1 # 1 /\ 1 \in DOMAIN waiters
    BY <1>1
  <2> QED
    BY <1>1, <2>1, <2>2 DEF Listed, NoneListedTwice
<1>5. ASSUME NEW w \in Listed, w # Head(waiters)
      PROVE  w \in Listed'
  <2>1. PICK j \in DOMAIN waiters : w = waiters[j]
    BY <1>5 DEF Listed
  <2>2. j - 1 \in DOMAIN waiters' /\ j - 1 + 1 = j
    BY <1>1, <1>5, <2>1
  <2> QED
    BY <1>1, <2>1, <2>2 DEF Listed
<1> QED
  BY <1>1, <1>2, <1>3, <1>4, <1>5

-----------------------------------------------------------------------------
(* The list keeps its discipline.                                          *)

(* acquire(): the thread enters, leaves, or joins the list it is not on.   *)
LEMMA AcquireKeepsList ==
    ASSUME ListInv, NEW t \in Threads, Acquire(t)
    PROVE  ListInv'
<1>1. waiters \in Seq(Threads) /\ NoneListedTwice /\ t \notin Listed /\ pc[t] = "out"
  BY DEF ListInv, TypeOK, ListSound, Acquire
<1>2. \/ waiters' = waiters /\ Listed' = Listed /\ NoneListedTwice' /\ (Refuse(t) \/ Enter(t))
      \/ /\ waiters' \in Seq(Threads) /\ NoneListedTwice' /\ Listed' = Listed \cup {t}
         /\ waiting' = waiting + 1 /\ Sleep(t)
  <2>1. CASE UNCHANGED <<waiting, waiters>> /\ (Refuse(t) \/ Enter(t))
    BY <1>1, <2>1 DEF Listed, NoneListedTwice
  <2>2. CASE waiting' = waiting + 1 /\ Sleep(t)
    BY <1>1, <2>2, AppendStep DEF Sleep
  <2> QED
    BY <2>1, <2>2 DEF Acquire
<1>3. left[t] > 0 /\ left' = [left EXCEPT ![t] = left[t] - 1] /\ waiting' \in Nat
  BY DEF Acquire, ListInv, TypeOK
<1>4. TypeOK' /\ DepthPaid'
  <2>1. CASE Refuse(t)
    BY <1>1, <1>2, <1>3, <2>1, LimiterAssumption DEF Refuse, Goto, ListInv, TypeOK, DepthPaid
  <2>2. CASE Enter(t)
    BY <1>1, <1>2, <1>3, <2>2, LimiterAssumption DEF Enter, Goto, ListInv, TypeOK, DepthPaid
  <2>3. CASE Sleep(t)
    BY <1>1, <1>2, <1>3, <2>3, LimiterAssumption DEF Sleep, Goto, ListInv, TypeOK, DepthPaid
  <2> QED
    BY <1>2, <2>1, <2>2, <2>3
<1>5. ListSound' /\ ListComplete'
  BY <1>1, <1>2 DEF Refuse, Enter, Sleep, Goto, ListInv, TypeOK, ListSound, ListComplete
<1> QED
  BY <1>2, <1>4, <1>5 DEF ListInv

(* A queued thread re-tests the condition: it leaves the list it may be    *)
(* on, or, woken in vain, joins it again.                                  *)
LEMMA ResumeKeepsList ==
    ASSUME ListInv, waiting > 0, NEW t \in Threads, Resume(t)
    PROVE  /\ ListInv'
           /\ \/ Listed' = Listed \ {t} /\ (Enter(t) \/ Refuse(t))
              \/ Listed' = Listed \cup {t} /\ Sleep(t)
<1>1. /\ waiters \in Seq(Threads) /\ NoneListedTwice /\ waiting \in Nat
      /\ pc[t] \in {"woken", "expired"} /\ (pc[t] = "woken" => t \notin Listed)
  BY DEF ListInv, TypeOK, ListSound, Resume
<1>2. \/ /\ waiters' \in Seq(Threads) /\ NoneListedTwice' /\ Listed' = Listed \ {t}
         /\ waiting' = waiting - 1 /\ (Enter(t) \/ Refuse(t))
      \/ /\ waiters' \in Seq(Threads) /\ NoneListedTwice' /\ Listed' = Listed \cup {t}
         /\ waiting' = waiting /\ Sleep(t)
  <2>1. CASE waiters' = Unlisted(t) /\ waiting' = waiting - 1 /\ (Enter(t) \/ Refuse(t))
    BY <1>1, <2>1, UnlistStep
  <2>2. CASE pc[t] = "woken" /\ waiting' = waiting /\ Sleep(t)
    BY <1>1, <2>2, AppendStep DEF Sleep
  <2> QED
    BY <2>1, <2>2 DEF Resume
<1>3. UNCHANGED left /\ waiting' \in Nat /\ left[t] < MaxQueries /\ depth[t] = 0
  BY <1>1, <1>2 DEF Resume, ListInv, TypeOK, DepthPaid
<1>4. TypeOK' /\ DepthPaid'
  <2>1. CASE Refuse(t)
    BY <1>1, <1>2, <1>3, <2>1, LimiterAssumption DEF Refuse, Goto, ListInv, TypeOK, DepthPaid
  <2>2. CASE Enter(t)
    BY <1>1, <1>2, <1>3, <2>2, LimiterAssumption DEF Enter, Goto, ListInv, TypeOK, DepthPaid
  <2>3. CASE Sleep(t)
    BY <1>1, <1>2, <1>3, <2>3, LimiterAssumption DEF Sleep, Goto, ListInv, TypeOK, DepthPaid
  <2> QED
    BY <1>2, <2>1, <2>2, <2>3
<1>5. ListSound' /\ ListComplete'
  BY <1>1, <1>2 DEF Refuse, Enter, Sleep, Goto, ListInv, TypeOK, ListSound, ListComplete
<1> QED
  BY <1>2, <1>4, <1>5 DEF ListInv

(* release(): the oldest waiter, if there is one, leaves the list, and     *)
(* leaves its sleep unless it had timed out.                               *)
LEMMA ReleaseKeepsList ==
    ASSUME ListInv, active > 0, NEW t \in Threads, Release(t)
    PROVE  /\ ListInv'
           /\ \/ Listed = {} /\ Listed' = Listed /\ pc' = [pc EXCEPT ![t] = "out"]
              \/ \E w \in Listed :
                    /\ Listed' = Listed \ {w} /\ w # t
                    /\ pc' = [pc EXCEPT ![t] = "out", ![w] = IF pc[w] = "asleep" THEN "woken" ELSE pc[w]]
<1>1. /\ waiters \in Seq(Threads) /\ NoneListedTwice /\ pc[t] = "running" /\ t \notin Listed
      /\ depth' = [depth EXCEPT ![t] = 0] /\ active' = active - 1 /\ active' \in Nat
      /\ UNCHANGED <<waiting, left>>
  <2>1. depth[t] = 1 /\ depth' = [depth EXCEPT ![t] = 0] /\ UNCHANGED <<waiting, left>>
    BY DEF Release
  <2>2. active' = active - 1 /\ active' \in Nat
    BY DEF ListInv, TypeOK, Release
  <2>3. pc[t] = "running"
    BY <2>1 DEF ListInv, TypeOK
  <2> QED
    BY <2>1, <2>2, <2>3 DEF ListInv, TypeOK, ListSound
<1>2. CASE waiters = <<>>
  <2>1. waiters' = waiters /\ pc' = [pc EXCEPT ![t] = "out"]
    BY <1>2 DEF Release, Notified
  <2>2. Listed = {} /\ Listed' = Listed /\ NoneListedTwice'
    BY <1>1, <1>2, <2>1 DEF Listed, NoneListedTwice
  <2>3. TypeOK' /\ DepthPaid'
    BY <1>1, <2>1, LimiterAssumption DEF ListInv, TypeOK, DepthPaid
  <2>4. ListSound' /\ ListComplete'
    BY <1>1, <2>1, <2>2 DEF ListInv, TypeOK, ListSound, ListComplete
  <2> QED
    BY <2>1, <2>2, <2>3, <2>4 DEF ListInv
<1>3. CASE waiters # <<>>
  <2> DEFINE w == Head(waiters)
  <2>1. waiters' = Tail(waiters)
    BY <1>3 DEF Release, Notified
  <2>2. pc' = [pc EXCEPT ![t] = "out", ![w] = IF @ = "asleep" THEN "woken" ELSE @]
    BY <1>3 DEF Release, Notified
  <2>3. waiters' \in Seq(Threads) /\ NoneListedTwice' /\ w \in Listed /\ Listed' = Listed \ {w}
    BY <1>1, <1>3, <2>1, TailStep
  <2> HIDE DEF w
  <2>4. w \in Threads /\ w # t /\ pc[w] \in {"asleep", "expired"}
    BY <1>1, <2>3 DEF ListInv, ListSound
  <2>5. pc' = [pc EXCEPT ![t] = "out", ![w] = IF pc[w] = "asleep" THEN "woken" ELSE pc[w]]
    BY <1>1, <2>2, <2>4 DEF ListInv, TypeOK
  <2>6. TypeOK' /\ DepthPaid'
    <3>1. /\ pc' \in [Threads -> {"out", "asleep", "woken", "expired", "running"}]
          /\ pc'[t] = "out" /\ pc'[w] \in {"woken", "expired"}
          /\ \A s \in Threads : s # t /\ s # w => pc'[s] = pc[s]
      BY <1>1, <2>4, <2>5 DEF ListInv, TypeOK
    <3>2. /\ depth' \in [Threads -> 0..MaxQueries] /\ depth'[t] = 0
          /\ \A s \in Threads : s # t => depth'[s] = depth[s]
      BY <1>1, LimiterAssumption DEF ListInv, TypeOK
    <3>3. \A s \in Threads : depth'[s] > 0 <=> pc'[s] = "running"
      BY <1>1, <2>4, <3>1, <3>2 DEF ListInv, TypeOK
    <3>4. TypeOK'
      BY <1>1, <2>3, <3>1, <3>2, <3>3 DEF ListInv, TypeOK
    <3>5. DepthPaid'
      BY <1>1, <2>4, <3>1, <3>2, LimiterAssumption DEF ListInv, TypeOK, DepthPaid
    <3> QED
      BY <3>4, <3>5
  <2>7. ListSound' /\ ListComplete'
    BY <1>1, <2>3, <2>4, <2>5 DEF ListInv, TypeOK, ListSound, ListComplete
  <2> QED
    BY <2>3, <2>4, <2>5, <2>6, <2>7 DEF ListInv
<1> QED
  BY <1>2, <1>3

(* The steps that leave the list alone.                                    *)
LEMMA OthersKeepList ==
    ASSUME ListInv, NEW t \in Threads, AcquireNested(t) \/ ReleaseNested(t) \/ Expire(t)
    PROVE  ListInv' /\ Listed' = Listed
<1>1. waiters' = waiters
  BY DEF AcquireNested, ReleaseNested, Expire
<1>2. Listed' = Listed /\ NoneListedTwice'
  BY <1>1 DEF Listed, NoneListedTwice, ListInv
<1>3. CASE AcquireNested(t)
  <2>1. /\ pc' = pc /\ active' = active /\ waiting' = waiting /\ MaxQueries \in Nat
        /\ depth[t] \in 0..MaxQueries /\ left[t] \in 0..MaxQueries /\ left[t] > 0
        /\ depth[t] + left[t] <= MaxQueries /\ pc[t] = "running"
    BY <1>3, LimiterAssumption DEF AcquireNested, ListInv, TypeOK, DepthPaid
  <2>2. /\ depth' \in [Threads -> 0..MaxQueries] /\ left' \in [Threads -> 0..MaxQueries]
        /\ depth'[t] = depth[t] + 1 /\ left'[t] = left[t] - 1
        /\ \A s \in Threads : s # t => depth'[s] = depth[s] /\ left'[s] = left[s]
    BY <1>3, <2>1 DEF AcquireNested, ListInv, TypeOK
  <2>3. TypeOK'
    <3>1. ASSUME NEW s \in Threads
          PROVE  depth'[s] > 0 <=> pc'[s] = "running"
      <4>1. depth[s] > 0 <=> pc[s] = "running"
        BY DEF ListInv, TypeOK
      <4> QED  BY <2>1, <2>2, <4>1
    <3> QED  BY <1>1, <2>1, <2>2, <3>1 DEF ListInv, TypeOK
  <2>4. DepthPaid'
    BY <2>1, <2>2 DEF ListInv, DepthPaid
  <2> QED  BY <1>2, <2>1, <2>3, <2>4 DEF ListInv, ListSound, ListComplete
<1>4. CASE ReleaseNested(t)
  BY <1>1, <1>2, <1>4, LimiterAssumption
     DEF ReleaseNested, ListInv, TypeOK, DepthPaid, ListSound, ListComplete
<1>5. CASE Expire(t)
  BY <1>1, <1>2, <1>5, LimiterAssumption
     DEF Expire, Goto, ListInv, TypeOK, DepthPaid, ListSound, ListComplete
<1> QED
  BY <1>3, <1>4, <1>5

-----------------------------------------------------------------------------
(* The counters keep being sizes.                                          *)

(* Every set of threads has a size.                                        *)
LEMMA PartFinite ==
    \A S \in SUBSET Threads : IsFiniteSet(S) /\ Cardinality(S) \in Nat
BY LimiterAssumption, FS_Subset, FS_CardinalityType

(* One thread more, or one less, changes it by one.                        *)
LEMMA OneMore ==
    ASSUME NEW S \in SUBSET Threads, NEW t \in Threads, t \notin S
    PROVE  Cardinality(S \cup {t}) = Cardinality(S) + 1
BY PartFinite, FS_AddElement

(* Taking a thread out of a set leaves one fewer.                          *)
LEMMA OneLess ==
    ASSUME NEW S \in SUBSET Threads, NEW t \in S
    PROVE  Cardinality(S) > 0 /\ Cardinality(S \ {t}) = Cardinality(S) - 1
<1>1. Cardinality(S \ {t}) = Cardinality(S) - 1
  BY PartFinite, FS_RemoveElement
<1> QED
  BY <1>1, PartFinite

(* With every slot taken no wakeup is owed to anybody.                     *)
LEMMA NoSlotNoDebt ==
    ASSUME active' \in Nat, active' >= Slots, Signalled' \in SUBSET Threads
    PROVE  NoLostWakeup'
<1>1. Cardinality(Signalled') \in Nat
  BY PartFinite
<1>2. \A a, n \in Nat : a >= Slots => Slots - a <= n
  BY LimiterAssumption
<1>3. Slots - active' <= Cardinality(Signalled')
  BY <1>1, <1>2
<1> QED
  BY <1>3 DEF NoLostWakeup

(* The sets of threads are sets of threads.                                *)
LEMMA PartsOfThreads ==
    /\ Holders \in SUBSET Threads /\ Queued \in SUBSET Threads /\ Signalled \in SUBSET Threads
    /\ Holders' \in SUBSET Threads /\ Queued' \in SUBSET Threads /\ Signalled' \in SUBSET Threads
BY DEF Holders, Queued, Signalled

(* acquire() counts the thread as a holder, or as queued behind full       *)
(* slots.                                                                  *)
LEMMA AcquireCounts ==
    ASSUME IInv, NEW t \in Threads, Acquire(t)
    PROVE  IInv'
<1>0. ListInv'
  BY AcquireKeepsList DEF IInv
<1>1. /\ TypeOK /\ pc[t] = "out" /\ depth[t] = 0 /\ t \notin Queued /\ t \notin Holders
      /\ active \in Nat /\ waiting \in Nat /\ Slots \in Nat /\ QueueDepth \in Nat
  <2>1. pc[t] = "out" /\ TypeOK
    BY DEF Acquire, IInv, ListInv
  <2>2. depth[t] = 0
    BY <2>1 DEF TypeOK
  <2> QED
    BY <2>1, <2>2, LimiterAssumption DEF TypeOK, Queued, Holders
<1>2. CASE Refuse(t) /\ UNCHANGED <<waiting, waiters>>
  <2>1. pc' = pc /\ depth' = depth /\ active' = active /\ waiting' = waiting /\ waiters' = waiters
    BY <1>1, <1>2 DEF Refuse, Goto, TypeOK
  <2> QED
    BY <1>0, <2>1 DEF IInv, Counted, NoLostWakeup, Holders, Queued, Asleep, Signalled, Listed
<1>3. CASE HasSlot /\ Enter(t) /\ UNCHANGED <<waiting, waiters>>
  <2>1. Holders' = Holders \cup {t} /\ Queued' = Queued /\ Asleep' = Asleep /\ Signalled' = Signalled
    BY <1>1, <1>3 DEF Enter, Goto, TypeOK, Holders, Queued, Asleep, Signalled, Listed
  <2>2. Cardinality(Holders') = Cardinality(Holders) + 1
    BY <1>1, <2>1, OneMore, PartsOfThreads
  <2>3. Counted'
    BY <1>1, <1>3, <2>1, <2>2 DEF IInv, Counted, Enter, HasSlot
  <2>4. NoLostWakeup'
    BY <1>1, <1>3, <2>1, PartFinite, PartsOfThreads DEF IInv, NoLostWakeup, Enter
  <2> QED
    BY <1>0, <2>3, <2>4 DEF IInv
<1>4. CASE ~QueueFull /\ ~HasSlot /\ Sleep(t) /\ waiting' = waiting + 1
  <2>1. Holders' = Holders /\ Queued' = Queued \cup {t} /\ active' = active
    BY <1>1, <1>4 DEF Sleep, Goto, TypeOK, Holders, Queued
  <2>2. Cardinality(Queued') = Cardinality(Queued) + 1
    BY <1>1, <2>1, OneMore, PartsOfThreads
  <2>3. Counted'
    BY <1>1, <1>4, <2>1, <2>2 DEF IInv, Counted, QueueFull
  <2>4. NoLostWakeup'
    BY <1>1, <1>4, <2>1, NoSlotNoDebt, PartsOfThreads DEF HasSlot
  <2> QED
    BY <1>0, <2>3, <2>4 DEF IInv
<1> QED
  BY <1>2, <1>3, <1>4 DEF Acquire

(* A queued thread that leaves takes the slot it was signalled for, or     *)
(* finds none; one that stays finds none.                                  *)
LEMMA ResumeCounts ==
    ASSUME IInv, NEW t \in Threads, Resume(t)
    PROVE  IInv'
<1>1. /\ TypeOK /\ pc[t] \in {"woken", "expired"} /\ depth[t] = 0 /\ t \in Queued /\ t \notin Holders
      /\ active \in Nat /\ waiting \in Nat /\ Slots \in Nat /\ QueueDepth \in Nat
  <2>1. pc[t] \in {"woken", "expired"} /\ TypeOK
    BY DEF Resume, IInv, ListInv
  <2>2. depth[t] = 0
    BY <2>1 DEF TypeOK
  <2> QED
    BY <2>1, <2>2, LimiterAssumption DEF TypeOK, Queued, Holders
<1>2. waiting > 0 /\ Cardinality(Queued \ {t}) = waiting - 1
  BY <1>1, OneLess, PartsOfThreads DEF IInv, Counted
<1>3. ListInv' /\ ListInv
  BY <1>2, ResumeKeepsList DEF IInv
<1>4. CASE HasSlot /\ Enter(t) /\ waiting' = waiting - 1
  <2>1. Listed' = Listed \ {t}
    <3>1. ~Sleep(t)
      BY <1>1, <1>4 DEF Enter, Sleep, Goto, TypeOK
    <3> QED
      BY <1>2, <3>1, ResumeKeepsList DEF IInv
  <2>2. /\ Holders' = Holders \cup {t} /\ Queued' = Queued \ {t} /\ Asleep' = Asleep
        /\ Signalled' = Signalled \ {t}
    BY <1>1, <1>4, <2>1 DEF Enter, Goto, TypeOK, Holders, Queued, Asleep, Signalled
  <2>3. Cardinality(Holders') = Cardinality(Holders) + 1
    BY <1>1, <2>2, OneMore, PartsOfThreads
  <2>4. Counted'
    BY <1>1, <1>2, <1>4, <2>2, <2>3 DEF IInv, Counted, Enter, HasSlot
  <2>5. Cardinality(Signalled') >= Cardinality(Signalled) - 1
    <3>1. CASE t \in Signalled
      BY <2>2, <3>1, OneLess, PartsOfThreads, PartFinite
    <3>2. CASE t \notin Signalled
      <4>1. Signalled' = Signalled
        BY <2>2, <3>2
      <4> QED
        BY <4>1, PartsOfThreads, PartFinite
    <3> QED
      BY <3>1, <3>2
  <2>6. NoLostWakeup'
    <3>1. Cardinality(Signalled) \in Nat /\ Cardinality(Signalled') \in Nat /\ active' = active + 1
      BY <1>4, PartsOfThreads, PartFinite DEF Enter
    <3> QED
      BY <1>1, <2>2, <2>5, <3>1 DEF IInv, NoLostWakeup
  <2> QED
    BY <1>3, <2>4, <2>6 DEF IInv
<1>5. CASE ~HasSlot /\ Refuse(t) /\ waiting' = waiting - 1
  <2>1. Holders' = Holders /\ Queued' = Queued \ {t} /\ active' = active
    BY <1>1, <1>5 DEF Refuse, Goto, TypeOK, Holders, Queued
  <2>2. Counted'
    BY <1>1, <1>2, <1>5, <2>1 DEF IInv, Counted
  <2>3. NoLostWakeup'
    BY <1>1, <1>5, <2>1, NoSlotNoDebt, PartsOfThreads DEF HasSlot
  <2> QED
    BY <1>3, <2>2, <2>3 DEF IInv
<1>6. CASE ~HasSlot /\ Sleep(t) /\ waiting' = waiting
  <2>1. Holders' = Holders /\ Queued' = Queued /\ active' = active
    BY <1>1, <1>6 DEF Sleep, Goto, TypeOK, Holders, Queued
  <2>2. Counted'
    BY <1>6, <2>1 DEF IInv, Counted
  <2>3. NoLostWakeup'
    BY <1>1, <1>6, <2>1, NoSlotNoDebt, PartsOfThreads DEF HasSlot
  <2> QED
    BY <1>3, <2>2, <2>3 DEF IInv
<1> QED
  BY <1>4, <1>5, <1>6 DEF Resume

(* release() frees one slot and signals one thread more, unless nobody is  *)
(* left asleep: the notify is never spent on a thread already counted.     *)
LEMMA ReleaseCounts ==
    ASSUME IInv, NEW t \in Threads, Release(t)
    PROVE  IInv'
<1>1. /\ ListInv /\ TypeOK /\ t \in Holders /\ pc[t] = "running" /\ t \notin Queued
      /\ active \in Nat /\ Slots \in Nat /\ depth' = [depth EXCEPT ![t] = 0] /\ waiting' = waiting
  <2>1. depth[t] = 1 /\ TypeOK /\ ListInv /\ depth' = [depth EXCEPT ![t] = 0] /\ waiting' = waiting
    BY DEF Release, IInv, ListInv
  <2>2. pc[t] = "running"
    BY <2>1 DEF TypeOK
  <2> QED
    BY <2>1, <2>2, LimiterAssumption DEF TypeOK, Holders, Queued
<1>2. active > 0 /\ Cardinality(Holders \ {t}) = active - 1
  BY <1>1, OneLess, PartsOfThreads DEF IInv, Counted
<1>3. ListInv'
  BY <1>1, <1>2, ReleaseKeepsList
<1>4. active' = active - 1 /\ Holders' = Holders \ {t}
  BY <1>1, <1>2 DEF Release, Holders, TypeOK
<1>5. CASE Listed = {} /\ Listed' = Listed /\ pc' = [pc EXCEPT ![t] = "out"]
  <2>1. Queued' = Queued /\ Asleep' = {}
    BY <1>1, <1>5 DEF Queued, Asleep, ListInv, ListComplete, TypeOK
  <2>2. Counted'
    BY <1>1, <1>2, <1>4, <2>1 DEF IInv, Counted
  <2> QED
    BY <1>3, <2>1, <2>2 DEF IInv, NoLostWakeup
<1>6. ASSUME NEW w \in Listed, Listed' = Listed \ {w}, w # t,
             pc' = [pc EXCEPT ![t] = "out", ![w] = IF pc[w] = "asleep" THEN "woken" ELSE pc[w]]
      PROVE  IInv'
  <2>1. w \in Threads /\ pc[w] \in {"asleep", "expired"} /\ w \in Queued /\ w \notin Signalled
    BY <1>1, <1>6 DEF ListInv, ListSound, Queued, Signalled
  <2>2. Queued' = Queued /\ Asleep' \subseteq Asleep
    BY <1>1, <1>6, <2>1 DEF Queued, Asleep, TypeOK
  <2>3. Signalled' = Signalled \cup {w}
    BY <1>1, <1>6, <2>1, <2>2 DEF Signalled
  <2>4. Cardinality(Signalled') = Cardinality(Signalled) + 1
    BY <2>1, <2>3, OneMore, PartsOfThreads
  <2>5. Counted'
    BY <1>1, <1>2, <1>4, <2>2 DEF IInv, Counted
  <2>6. NoLostWakeup'
    <3>1. Cardinality(Signalled) \in Nat
      BY PartsOfThreads, PartFinite
    <3> QED
      BY <1>1, <1>4, <2>2, <2>4, <3>1 DEF IInv, NoLostWakeup
  <2> QED
    BY <1>3, <2>5, <2>6 DEF IInv
<1> QED
  BY <1>1, <1>2, <1>5, <1>6, ReleaseKeepsList

(* A nested query and a passing deadline move nobody between the sets that *)
(* are counted.                                                            *)
LEMMA OthersCount ==
    ASSUME IInv, NEW t \in Threads, AcquireNested(t) \/ ReleaseNested(t) \/ Expire(t)
    PROVE  IInv'
<1>1. TypeOK /\ ListInv' /\ Listed' = Listed /\ active' = active /\ waiting' = waiting
  BY OthersKeepList DEF IInv, ListInv, AcquireNested, ReleaseNested, Expire
<1>2. Holders' = Holders
  BY <1>1, LimiterAssumption DEF AcquireNested, ReleaseNested, Expire, Holders, TypeOK
<1>3. Queued' = Queued /\ Asleep' \subseteq Asleep
  BY <1>1 DEF AcquireNested, ReleaseNested, Expire, Goto, Queued, Asleep, TypeOK
<1>4. Signalled' = Signalled
  BY <1>1, <1>3 DEF Signalled
<1> QED
  BY <1>1, <1>2, <1>3, <1>4 DEF IInv, Counted, NoLostWakeup

-----------------------------------------------------------------------------
(* Nobody has asked for anything yet.                                      *)
LEMMA InitEstablishes == Init => IInv
<1> SUFFICES ASSUME Init PROVE IInv
  OBVIOUS
<1>1. ListInv
  BY LimiterAssumption
     DEF Init, ListInv, TypeOK, DepthPaid, NoneListedTwice, ListSound, ListComplete, Listed
<1>2. Holders = {} /\ Queued = {} /\ Asleep = {}
  BY DEF Init, Holders, Queued, Asleep
<1>3. Counted
  BY <1>2, FS_EmptySet, LimiterAssumption DEF Init, Counted
<1> QED
  BY <1>1, <1>2, <1>3 DEF IInv, NoLostWakeup

(* Every step keeps the invariant.                                         *)
LEMMA NextKeeps == IInv /\ [Next]_vars => IInv'
<1> SUFFICES ASSUME IInv, [Next]_vars PROVE IInv'
  OBVIOUS
<1>1. CASE UNCHANGED vars
  BY <1>1 DEF vars, IInv, ListInv, TypeOK, DepthPaid, NoneListedTwice, ListSound, ListComplete,
              Counted, NoLostWakeup, Holders, Queued, Asleep, Signalled, Listed
<1>2. ASSUME NEW t \in Threads, Step(t) \/ Expire(t)
      PROVE  IInv'
  BY <1>2, AcquireCounts, ResumeCounts, ReleaseCounts, OthersCount DEF Step
<1> QED
  BY <1>1, <1>2 DEF Next, Finished

(* The inductive invariant holds in every reachable state.                 *)
LEMMA Invariance == Spec => []IInv
BY InitEstablishes, NextKeeps, PTL DEF Spec

(* For any number of threads, slots and queue places, and any nesting: the *)
(* two counters of the limiter are exactly the threads inside a query and  *)
(* the threads queued for a slot, and neither passes its cap.              *)
THEOREM SlotsAreExact == Spec => []SlotsExact
<1>1. IInv => SlotsExact
  BY DEF IInv, ListInv, Counted, SlotsExact
<1> QED
  BY <1>1, Invariance, PTL

(* For any number of them: while a thread sleeps, every free slot has a    *)
(* thread on its way to the lock, whichever waiters notify() picks and     *)
(* whichever deadlines pass.                                               *)
THEOREM NoWakeupIsLost == Spec => []NoLostWakeup
<1>1. IInv => NoLostWakeup
  BY DEF IInv
<1> QED
  BY <1>1, Invariance, PTL
=============================================================================
