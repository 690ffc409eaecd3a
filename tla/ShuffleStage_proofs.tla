------------------------ MODULE ShuffleStage_proofs ------------------------
(***************************************************************************)
(* What holds of a shuffle for every number of workers, sources, buckets,  *)
(* retries and faults: its addresses are good, it blames no healthy        *)
(* worker, it implements its contract, and, with three attempts and one    *)
(* retry to spend, it survives any one loss.                               *)
(*                                                                         *)
(* The first two are one argument.  A source is recomputed because its     *)
(* last worker is blamed, and it is blamed because a reducer could not     *)
(* reach the source at its address.  So that a blamed worker is a gone     *)
(* one, an address of a live worker must be good, and the place the driver *)
(* recorded for a source (host) must be its address or a worker that died  *)
(* while it was being republished there.                                   *)
(*                                                                         *)
(* The last rests on who is suspected: while one thing has been lost, the  *)
(* driver writes off one worker at most, so another can always take its    *)
(* work; and a bucket is given up only with a suspect to show, so from the *)
(* second attempt on every copy runs on a live worker and names all that   *)
(* is missing, and the third attempt misses nothing.                       *)
(***************************************************************************)
EXTENDS ShuffleStage, TLAPS, SequenceTheorems, NaturalsInduction, WellFoundedInduction,
        FiniteSetTheorems

-----------------------------------------------------------------------------
(* The inductive invariant.                                                *)

(* The sources waiting to be submitted, and the workers a loss may be      *)
(* charged to.                                                             *)
Waits == {pending[i] : i \in DOMAIN pending}
Gone == (Workers \ alive) \cup draining

(* A source waits at most once, and never while it is in flight.           *)
WaitsOnce ==
    /\ \A i, j \in DOMAIN pending : pending[i] = pending[j] => i = j
    /\ Waits \cap inflight = {}

(* The map barrier is over once nothing waits or is in flight.             *)
BarrierOver == phase \notin {"map", "failed"} => Waits = {} /\ inflight = {}

AttemptsLeft == phase # "failed" => \A s \in Sources : attempts[s] <= MaxAttempts

(* A source that has been dealt is on a worker, and once it is published   *)
(* that worker is its address, unless it died during a republish.          *)
Dealt == \A s \in Sources : s \in Waits \/ host[s] \in Workers

Placed ==
    phase # "failed" => \A s \in Sources :
        s \in Waits \cup inflight \/ addr[s] = host[s] \/ host[s] \notin alive

(* A live worker that has replied, is an address, or acknowledged a copy   *)
(* holds the source.                                                       *)
RanHeld  == \A s \in ran : host[s] \in alive => <<host[s], s>> \in holds
AddrHeld == \A s \in Sources : addr[s] \in alive => <<addr[s], s>> \in holds
CopyHeld ==
    phase # "copy" => \A s \in Sources : \A w \in replicas[s] \cap alive : <<w, s>> \in holds

MapInv == TypeOK /\ WaitsOnce /\ BarrierOver /\ AttemptsLeft /\ Dealt
HeldInv == Placed /\ RanHeld /\ AddrHeld /\ CopyHeld

(* What a slot of the window may hold.                                     *)
SlotsSound ==
    \A b \in Buckets : /\ slot[b].kind = "ok" => slot[b].data = Sources
                       /\ slot[b].kind = "retry" => slot[b].data \subseteq Sources
                       /\ slot[b].kind = "dead" => slot[b].data \subseteq Workers

(* A bucket is reduced only while it has no result, once in an attempt.    *)
WindowUndone ==
    /\ phase # "reduce" => chunk = {}
    /\ phase \in {"launch", "reduce"} =>
          queue \cap chunk = {} /\ \A b \in queue \cup chunk : done[b] = NoResult

(* Whatever is about to be blamed is gone: the hosts of the sources to     *)
(* move, to recompute, and that the window could not reach, and the        *)
(* workers the window lost.                                                *)
MigrateGone == phase = "migrate" => \A s \in todo : host[s] \in draining
TodoGone    == phase = "recompute" => \A s \in todo : host[s] \in Gone
FailedGone  == phase \in {"launch", "reduce"} => \A s \in failed : host[s] \in Gone
SlotGone ==
    phase = "reduce" => \A b \in chunk :
        /\ slot[b].kind = "retry" => \A s \in slot[b].data : host[s] \in Gone
        /\ slot[b].kind = "dead" => slot[b].data \subseteq Gone

BlameInv ==
    /\ MigrateGone
    /\ blips = 0 => dead \cup lost \subseteq Gone /\ TodoGone /\ FailedGone /\ SlotGone

IInv == MapInv /\ HeldInv /\ SlotsSound /\ WindowUndone /\ BlameInv

-----------------------------------------------------------------------------
(* Lemmas about the operators.                                             *)

(* A non-empty set of numbers has a least element, and Least finds it.     *)
LEMMA LeastIn ==
    ASSUME NEW S, S \subseteq Nat, S # {}
    PROVE  Least(S) \in S /\ \A y \in S : Least(S) <= y
<1>1. PICK x \in S : \A y \in S : ~ (<<y, x>> \in OpToRel(<, Nat))
  BY NatLessThanWellFounded, WFMin
<1>2. \A y \in S : ~ (y < x)
  BY <1>1 DEF OpToRel
<1>3. \A y \in S : x <= y
  BY <1>2
<1> QED
  BY <1>3 DEF Least

(* A submission takes the first waiting source and no other.               *)
LEMMA TailWaits ==
    ASSUME pending \in Seq(Sources), WaitsOnce, pending # <<>>, UNCHANGED sources,
           pending' = Tail(pending)
    PROVE  /\ pending' \in Seq(Sources)
           /\ \A i, j \in DOMAIN pending' : pending'[i] = pending'[j] => i = j
           /\ Head(pending) \in Waits /\ Head(pending) \in Sources
           /\ Waits' = Waits \ {Head(pending)}
<1>1. /\ pending' \in Seq(Sources) /\ DOMAIN pending = 1..Len(pending)
      /\ Len(pending) \in Nat \ {0} /\ DOMAIN pending' = 1..(Len(pending) - 1)
      /\ Head(pending) = pending[1] /\ Head(pending) \in Sources
      /\ \A i \in 1..(Len(pending) - 1) : pending'[i] = pending[i + 1]
  OBVIOUS
<1>2. \A i, j \in DOMAIN pending' : pending'[i] = pending'[j] => i = j
  BY <1>1 DEF WaitsOnce
<1>3. Head(pending) \in Waits
  BY <1>1 DEF Waits
<1>4. ASSUME NEW s \in Waits'
      PROVE  s \in Waits /\ s # Head(pending)
  <2>1. PICK i \in 1..(Len(pending) - 1) : s = pending[i + 1]
    BY <1>1, <1>4 DEF Waits
  <2>2. i + 1 \in DOMAIN pending /\ i + 1 # 1 /\ 1 \in DOMAIN pending
    BY <1>1
  <2> QED
    BY <1>1, <2>1, <2>2 DEF Waits, WaitsOnce
<1>5. ASSUME NEW s \in Waits, s # Head(pending)
      PROVE  s \in Waits'
  <2>1. PICK j \in DOMAIN pending : s = pending[j]
    BY <1>5 DEF Waits
  <2>2. j - 1 \in DOMAIN pending' /\ j - 1 + 1 = j
    BY <1>1, <1>5, <2>1
  <2> QED
    BY <1>1, <2>1, <2>2 DEF Waits
<1> QED
  BY <1>1, <1>2, <1>3, <1>4, <1>5

(* A retry puts the source at the front of the queue.                      *)
LEMMA RequeueWaits ==
    ASSUME pending \in Seq(Sources), WaitsOnce, NEW s \in Sources, s \notin Waits,
           UNCHANGED sources, pending' = <<s>> \o pending
    PROVE  /\ pending' \in Seq(Sources)
           /\ \A i, j \in DOMAIN pending' : pending'[i] = pending'[j] => i = j
           /\ Waits' = Waits \cup {s}
<1>1. /\ pending' \in Seq(Sources) /\ DOMAIN pending = 1..Len(pending)
      /\ Len(pending) \in Nat /\ DOMAIN pending' = 1..(Len(pending) + 1)
      /\ pending'[1] = s
      /\ \A i \in 1..Len(pending) : pending'[i + 1] = pending[i]
  OBVIOUS
<1>2. \A i \in DOMAIN pending' : i = 1 \/ (i - 1 \in DOMAIN pending /\ pending'[i] = pending[i - 1])
  BY <1>1
<1>3. \A i, j \in DOMAIN pending' : pending'[i] = pending'[j] => i = j
  BY <1>1, <1>2 DEF WaitsOnce, Waits
<1>4. Waits' \subseteq Waits \cup {s}
  BY <1>1, <1>2 DEF Waits
<1>5. ASSUME NEW t \in Waits
      PROVE  t \in Waits'
  <2>1. PICK j \in DOMAIN pending : t = pending[j]
    BY <1>5 DEF Waits
  <2>2. j + 1 \in DOMAIN pending' /\ pending'[j + 1] = t
    BY <1>1, <2>1
  <2> QED
    BY <2>2 DEF Waits
<1>6. s \in Waits'
  BY <1>1 DEF Waits
<1> QED
  BY <1>1, <1>3, <1>4, <1>5, <1>6

(* A source is only ever dealt to a worker of the fleet, and what is left  *)
(* of the pool of idle workers is a list of workers.                       *)
LEMMA HostsAreWorkers ==
    ASSUME MapTypeOK, NEW src \in Sources
    PROVE  HostsFor(src) \subseteq Workers /\ Popped \in Seq(Workers)
<1>1. /\ idle \in Seq(Workers) /\ confirmed \subseteq Workers /\ sources \in Nat /\ W \in Nat
      /\ DOMAIN idle = 1..Len(idle) /\ Len(idle) \in Nat
  BY FleetAssumption, SourceAssumption DEF MapTypeOK
<1>2. PickLive \subseteq Workers
  BY <1>1 DEF PickLive
<1>3. ASSUME LiveIdle # {} PROVE NextIdle \in 1..Len(idle)
  <2>1. LiveIdle \subseteq Nat /\ LiveIdle \subseteq 1..Len(idle)
    BY <1>1 DEF LiveIdle
  <2>2. Least(LiveIdle) \in LiveIdle
    BY <1>3, <2>1, LeastIn
  <2> QED
    BY <2>1, <2>2 DEF NextIdle
<1>4. Pinned => src \in Workers
  BY <1>1 DEF Pinned, Sources, Workers
<1>5. HostsFor(src) \subseteq Workers
  <2>1. CASE Pinned
    BY <1>2, <1>4, <2>1 DEF HostsFor
  <2>2. CASE ~Pinned /\ LiveIdle # {}
    <3>1. idle[NextIdle] \in Workers
      BY <1>1, <1>3, <2>2
    <3> QED
      BY <2>2, <3>1 DEF HostsFor
  <2>3. CASE ~Pinned /\ LiveIdle = {}
    BY <1>2, <2>3 DEF HostsFor
  <2> QED
    BY <2>1, <2>2, <2>3
<1>6. Popped \in Seq(Workers)
  <2>1. CASE LiveIdle = {}
    BY <2>1 DEF Popped
  <2>2. CASE LiveIdle # {}
    <3>1. NextIdle + 1 \in 1..(Len(idle) + 1)
      BY <1>1, <1>3, <2>2
    <3>2. SubSeq(idle, NextIdle + 1, Len(idle)) \in Seq(Workers)
      BY <1>1, <3>1, SubSeqProperties
    <3> QED
      BY <2>2, <3>2 DEF Popped
  <2> QED
    BY <2>1, <2>2
<1> QED
  BY <1>5, <1>6

-----------------------------------------------------------------------------
(* The map barrier.                                                        *)

(* What no step of the map barrier disturbs.                               *)
LEMMA MapFrame ==
    ASSUME IInv, phase = "map", phase' \in {"map", "failed", "probe"},
           UNCHANGED <<alive, draining, sources, reduceVars>>, holds \subseteq holds'
    PROVE  /\ ReduceTypeOK' /\ SlotsSound' /\ WindowUndone' /\ CopyHeld'
           /\ MigrateGone' /\ TodoGone' /\ FailedGone' /\ SlotGone'
           /\ Sources' = Sources /\ Gone' = Gone
<1>1. Sources' = Sources /\ Gone' = Gone
  BY DEF Sources, Gone, reduceVars
<1>2. ReduceTypeOK'
  BY <1>1 DEF IInv, MapInv, TypeOK, ReduceTypeOK, reduceVars
<1>3. SlotsSound' /\ WindowUndone'
  BY <1>1 DEF IInv, SlotsSound, WindowUndone, reduceVars
<1>4. CopyHeld'
  BY <1>1 DEF IInv, HeldInv, CopyHeld, reduceVars
<1>5. MigrateGone' /\ TodoGone' /\ FailedGone' /\ SlotGone'
  BY DEF MigrateGone, TodoGone, FailedGone, SlotGone
<1> QED
  BY <1>1, <1>2, <1>3, <1>4, <1>5

(* A submission deals the first waiting source to a worker.                *)
LEMMA SubmitKeeps ==
    ASSUME IInv, Submit, UNCHANGED reduceVars
    PROVE  IInv'
<1>1. /\ phase = "map" /\ phase' \in {"map", "failed", "probe"} /\ pending # <<>>
      /\ UNCHANGED <<alive, draining, sources, reduceVars, holds, blips, dead, addr, ran>>
  BY DEF Submit, CanSubmit, Raise, fleetVars
<1>2. /\ ReduceTypeOK' /\ SlotsSound' /\ WindowUndone' /\ CopyHeld'
      /\ MigrateGone' /\ TodoGone' /\ FailedGone' /\ SlotGone'
      /\ Sources' = Sources /\ Gone' = Gone
  BY <1>1, MapFrame
<1>3. BlameInv'
  BY <1>1, <1>2 DEF IInv, BlameInv, reduceVars
<1>4. /\ MapTypeOK /\ WaitsOnce /\ BarrierOver /\ AttemptsLeft /\ Dealt /\ Placed /\ RanHeld
      /\ AddrHeld /\ pending \in Seq(Sources) /\ ran \subseteq inflight
  BY DEF IInv, MapInv, HeldInv, TypeOK, MapTypeOK
<1> DEFINE src == Head(pending)
<1>5. src \in Sources
  BY <1>1, <1>4
<1>6. CASE HostsFor(src) = {}
  <2>1. phase' = "failed" /\ failure' = "no_survivor" /\ filling' = TRUE
    BY <1>6 DEF Submit, Raise
  <2>2. UNCHANGED <<pending, inflight, idle, host, fleetVars, sources, ran, attempts, spent, dead,
                    confirmed, addr>>
    BY <1>6 DEF Submit
  <2>3. MapTypeOK'
    BY <1>2, <1>4, <2>1, <2>2 DEF MapTypeOK, fleetVars
  <2>4. Waits' = Waits
    BY <2>2 DEF Waits
  <2>5. MapInv' /\ HeldInv'
    BY <1>2, <1>4, <2>1, <2>2, <2>3, <2>4
       DEF MapInv, HeldInv, TypeOK, WaitsOnce, BarrierOver, AttemptsLeft, Dealt, Placed, RanHeld,
           AddrHeld, fleetVars
  <2> QED
    BY <1>2, <1>3, <2>5 DEF IInv
<1>7. CASE HostsFor(src) # {}
  <2>1. PICK h \in HostsFor(src) :
            /\ pending' = Tail(pending)
            /\ inflight' = inflight \cup {src}
            /\ host' = [host EXCEPT ![src] = h]
            /\ idle' = IF Pinned THEN idle ELSE Popped
            /\ UNCHANGED <<phase, failure>>
    BY <1>7 DEF Submit
  <2>2. filling' = TRUE /\ UNCHANGED <<fleetVars, sources, ran, attempts, spent, dead, confirmed, addr>>
    BY DEF Submit
  <2>3. h \in Workers /\ idle' \in Seq(Workers) /\ h \in Nat
    BY <1>4, <1>5, <2>1, HostsAreWorkers, FleetAssumption DEF MapTypeOK, Workers
  <2>4. /\ pending' \in Seq(Sources) /\ src \in Waits /\ Waits' = Waits \ {src}
        /\ \A i, j \in DOMAIN pending' : pending'[i] = pending'[j] => i = j
    BY <1>1, <1>4, <2>1, TailWaits
  <2> HIDE DEF src
  <2>5. src \notin inflight /\ src \notin ran
    BY <1>4, <2>4 DEF WaitsOnce
  <2>6. MapTypeOK'
    BY <1>2, <1>4, <1>5, <2>1, <2>2, <2>3, <2>4 DEF MapTypeOK, fleetVars
  <2>7. WaitsOnce' /\ BarrierOver' /\ AttemptsLeft'
    BY <1>1, <1>2, <1>4, <2>1, <2>2, <2>4 DEF WaitsOnce, BarrierOver, AttemptsLeft
  <2>8. \A s \in Sources : s # src => host'[s] = host[s]
    BY <1>4, <2>1 DEF MapTypeOK
  <2>9. host'[src] = h
    BY <1>4, <1>5, <2>1 DEF MapTypeOK
  <2>10. Dealt' /\ Placed'
    BY <1>1, <1>2, <1>4, <2>1, <2>3, <2>4, <2>8, <2>9 DEF Dealt, Placed
  <2>11. RanHeld' /\ AddrHeld'
    <3>1. \A s \in ran : s \in Sources /\ host'[s] = host[s]
      BY <1>4, <2>5, <2>8 DEF MapTypeOK
    <3>2. RanHeld'
      BY <1>1, <1>4, <3>1 DEF RanHeld
    <3>3. AddrHeld'
      BY <1>1, <1>2, <1>4 DEF AddrHeld
    <3> QED
      BY <3>2, <3>3
  <2> QED
    BY <1>1, <1>2, <1>3, <2>6, <2>7, <2>10, <2>11 DEF IInv, MapInv, HeldInv, TypeOK
<1> QED
  BY <1>6, <1>7

(* A worker that replies holds what it mapped.                             *)
LEMMA MapFinishKeeps ==
    ASSUME IInv, NEW s \in Sources, MapFinish(s), UNCHANGED reduceVars
    PROVE  IInv'
<1>1. /\ phase = "map" /\ s \in inflight \ ran /\ host[s] \in alive
      /\ holds' = holds \cup {<<host[s], s>>} /\ ran' = ran \cup {s}
      /\ UNCHANGED <<phase, failure, alive, blips, transients, draining, sources, pending,
                     inflight, filling, attempts, spent, dead, confirmed, idle, host, addr>>
  BY DEF MapFinish
<1>2. /\ ReduceTypeOK' /\ SlotsSound' /\ WindowUndone' /\ CopyHeld'
      /\ MigrateGone' /\ TodoGone' /\ FailedGone' /\ SlotGone'
      /\ Sources' = Sources /\ Gone' = Gone
  BY <1>1, MapFrame
<1>3. BlameInv'
  BY <1>1, <1>2 DEF IInv, BlameInv, reduceVars
<1>4. /\ MapTypeOK /\ WaitsOnce /\ BarrierOver /\ AttemptsLeft /\ Dealt /\ Placed /\ RanHeld
      /\ AddrHeld
  BY DEF IInv, MapInv, HeldInv, TypeOK
<1>5. MapTypeOK'
  BY <1>1, <1>2, <1>4 DEF MapTypeOK
<1>6. Waits' = Waits
  BY <1>1 DEF Waits
<1>7. WaitsOnce' /\ BarrierOver' /\ AttemptsLeft' /\ Dealt' /\ Placed'
  BY <1>1, <1>2, <1>4, <1>6 DEF WaitsOnce, BarrierOver, AttemptsLeft, Dealt, Placed
<1>8. RanHeld' /\ AddrHeld'
  BY <1>1, <1>2, <1>4 DEF RanHeld, AddrHeld
<1> QED
  BY <1>1, <1>2, <1>3, <1>5, <1>7, <1>8 DEF IInv, MapInv, HeldInv, TypeOK

(* A reply the driver takes makes its worker the address of the source.    *)
LEMMA MapDoneKeeps ==
    ASSUME IInv, NEW s \in Sources, MapDone(s), UNCHANGED reduceVars
    PROVE  IInv'
<1>1. /\ phase = "map" /\ s \in inflight /\ s \in ran
      /\ filling' = FALSE /\ inflight' = inflight \ {s} /\ ran' = ran \ {s}
      /\ addr' = [addr EXCEPT ![s] = host[s]]
      /\ confirmed' = confirmed \cup {host[s]}
      /\ idle' = IF Pinned \/ host[s] \in dead THEN idle ELSE Append(idle, host[s])
      /\ UNCHANGED <<phase, failure, alive, holds, blips, transients, draining, sources, pending,
                     attempts, spent, dead, host>>
  BY DEF MapDone, Collecting, fleetVars
<1>2. /\ ReduceTypeOK' /\ SlotsSound' /\ WindowUndone' /\ CopyHeld'
      /\ MigrateGone' /\ TodoGone' /\ FailedGone' /\ SlotGone'
      /\ Sources' = Sources /\ Gone' = Gone
  BY <1>1, MapFrame
<1>3. BlameInv'
  BY <1>1, <1>2 DEF IInv, BlameInv, reduceVars
<1>4. /\ MapTypeOK /\ WaitsOnce /\ BarrierOver /\ AttemptsLeft /\ Dealt /\ Placed /\ RanHeld
      /\ AddrHeld
  BY DEF IInv, MapInv, HeldInv, TypeOK
<1>5. host[s] \in Workers /\ s \notin Waits
  BY <1>1, <1>4 DEF WaitsOnce, Dealt
<1>6. MapTypeOK'
  <2>1. idle' \in Seq(Workers)
    BY <1>1, <1>4, <1>5 DEF MapTypeOK
  <2>2. addr' \in [Sources -> Workers \cup {NoAddr}] /\ confirmed' \subseteq Workers
    BY <1>1, <1>4, <1>5 DEF MapTypeOK
  <2> QED
    BY <1>1, <1>2, <1>4, <2>1, <2>2 DEF MapTypeOK
<1>7. Waits' = Waits
  BY <1>1 DEF Waits
<1>8. WaitsOnce' /\ BarrierOver' /\ AttemptsLeft' /\ Dealt'
  BY <1>1, <1>2, <1>4, <1>7 DEF WaitsOnce, BarrierOver, AttemptsLeft, Dealt
<1>9. addr'[s] = host[s] /\ \A t \in Sources : t # s => addr'[t] = addr[t]
  BY <1>1, <1>4 DEF MapTypeOK
<1>10. Placed'
  BY <1>1, <1>2, <1>4, <1>7, <1>9 DEF Placed
<1>11. RanHeld'
  BY <1>1, <1>4 DEF RanHeld
<1>12. AddrHeld'
  BY <1>1, <1>2, <1>4, <1>9 DEF AddrHeld, RanHeld
<1> QED
  BY <1>1, <1>2, <1>3, <1>6, <1>8, <1>10, <1>11, <1>12 DEF IInv, MapInv, HeldInv, TypeOK

(* A source that failed is back at the front of the queue, or the stage    *)
(* has failed; what is left of the step is blame and charges.              *)
LEMMA FailedSourceKeeps ==
    ASSUME IInv, NEW s \in Sources, phase = "map", s \in inflight, s \notin ran,
           inflight' = inflight \ {s}, filling' = FALSE,
           UNCHANGED <<alive, holds, draining, sources, ran, idle, host, addr, reduceVars>>,
           blips' \in Nat, transients' \in Nat, dead' \subseteq Workers, confirmed' \subseteq Workers,
           \/ /\ pending' = <<s>> \o pending /\ UNCHANGED <<phase, failure, attempts, spent>>
           \/ Retry(s),
           blips' = 0 => dead' \cup lost \subseteq Gone
    PROVE  IInv'
<1>1. phase' \in {"map", "failed"} /\ failure' \in {"none", "no_survivor", "attempts", "republish", "rounds"}
  BY DEF Retry, Raise, IInv, MapInv, TypeOK, MapTypeOK
<1>2. /\ ReduceTypeOK' /\ SlotsSound' /\ WindowUndone' /\ CopyHeld'
      /\ MigrateGone' /\ TodoGone' /\ FailedGone' /\ SlotGone'
      /\ Sources' = Sources /\ Gone' = Gone
  BY <1>1, MapFrame
<1>3. BlameInv'
  BY <1>2 DEF BlameInv, reduceVars
<1>4. /\ MapTypeOK /\ WaitsOnce /\ BarrierOver /\ AttemptsLeft /\ Dealt /\ Placed /\ RanHeld
      /\ AddrHeld /\ pending \in Seq(Sources)
  BY DEF IInv, MapInv, HeldInv, TypeOK, MapTypeOK
<1>5. s \notin Waits /\ host[s] \in Workers
  BY <1>4 DEF WaitsOnce, Dealt
<1>6. /\ pending' \in Seq(Sources)
      /\ \A i, j \in DOMAIN pending' : pending'[i] = pending'[j] => i = j
      /\ \/ Waits' = Waits \cup {s}
         \/ Waits' = Waits /\ phase' = "failed"
  <2>1. CASE pending' = <<s>> \o pending
    BY <1>4, <1>5, <2>1, RequeueWaits
  <2>2. CASE pending' = pending /\ phase' = "failed"
    BY <1>2, <1>4, <2>2 DEF Waits, WaitsOnce
  <2> QED
    BY <2>1, <2>2 DEF Retry, Raise
<1>7. /\ attempts' \in [Sources -> 0..(MaxAttempts + 1)] /\ spent' \in 0..Allowance
      /\ AttemptsLeft'
  <2>1. /\ attempts \in [Sources -> 0..(MaxAttempts + 1)] /\ spent \in 0..Allowance
        /\ attempts[s] \in 0..MaxAttempts /\ \A t \in Sources : attempts[t] <= MaxAttempts
    BY <1>4, AttemptAssumption DEF MapTypeOK, AttemptsLeft
  <2>2. CASE UNCHANGED <<phase, failure, attempts, spent>>
    BY <1>2, <1>4, <2>1, <2>2 DEF AttemptsLeft
  <2>3. CASE Retry(s)
    BY <1>2, <2>1, <2>3, AttemptAssumption DEF Retry, Raise, AttemptsLeft
  <2> QED
    BY <2>2, <2>3
<1>8. MapTypeOK'
  BY <1>1, <1>2, <1>4, <1>6, <1>7 DEF MapTypeOK
<1>9. WaitsOnce' /\ BarrierOver' /\ Dealt'
  BY <1>1, <1>2, <1>4, <1>5, <1>6 DEF WaitsOnce, BarrierOver, Dealt
<1>10. RanHeld' /\ AddrHeld'
  BY <1>2, <1>4 DEF RanHeld, AddrHeld
<1>11. Placed'
  BY <1>1, <1>2, <1>4, <1>5, <1>6 DEF Placed
<1> QED
  BY <1>1, <1>2, <1>3, <1>7, <1>8, <1>9, <1>10, <1>11 DEF IInv, MapInv, HeldInv, TypeOK

(* A lost call blames the worker it was made on: a dead one, or one whose  *)
(* failed call is counted.                                                 *)
LEMMA MapLostKeeps ==
    ASSUME IInv, NEW s \in Sources, MapLost(s), UNCHANGED reduceVars
    PROVE  IInv'
<1>1. /\ phase = "map" /\ s \in inflight /\ s \notin ran
      /\ inflight' = inflight \ {s} /\ filling' = FALSE
      /\ dead' = dead \cup {host[s]} /\ confirmed' = confirmed \ {host[s]}
      /\ UNCHANGED <<alive, holds, transients, draining, sources, ran, idle, host, addr, reduceVars>>
  BY DEF MapLost, Collecting, Blame
<1>2. /\ MapTypeOK /\ host[s] \in Workers
  BY <1>1 DEF IInv, MapInv, TypeOK, WaitsOnce, Dealt
<1>3. /\ blips' \in Nat /\ transients' \in Nat
      /\ dead' \subseteq Workers /\ confirmed' \subseteq Workers
  BY <1>1, <1>2 DEF MapLost, MapTypeOK
<1>4. blips' = 0 => blips = 0 /\ host[s] \notin alive
  BY <1>2 DEF MapLost, MapTypeOK
<1>5. blips' = 0 => dead' \cup lost \subseteq Gone
  BY <1>1, <1>2, <1>4 DEF IInv, BlameInv, Gone
<1>6. \/ /\ pending' = <<s>> \o pending /\ UNCHANGED <<phase, failure, attempts, spent>>
      \/ Retry(s)
  BY DEF MapLost
<1> QED
  BY <1>1, <1>3, <1>5, <1>6, FailedSourceKeeps

(* A retryable error blames nobody.                                        *)
LEMMA MapTransientKeeps ==
    ASSUME IInv, NEW s \in Sources, MapTransient(s), UNCHANGED reduceVars
    PROVE  IInv'
<1>1. /\ phase = "map" /\ s \in inflight /\ s \notin ran
      /\ inflight' = inflight \ {s} /\ filling' = FALSE /\ Retry(s)
      /\ transients' = transients + 1
      /\ UNCHANGED <<alive, holds, blips, draining, sources, ran, dead, confirmed, idle, host, addr,
                     reduceVars>>
  BY DEF MapTransient, Collecting
<1>2. MapTypeOK
  BY DEF IInv, MapInv, TypeOK
<1>3. /\ blips' \in Nat /\ transients' \in Nat
      /\ dead' \subseteq Workers /\ confirmed' \subseteq Workers
  BY <1>1, <1>2 DEF MapTypeOK
<1>4. blips' = 0 => dead' \cup lost \subseteq Gone
  BY <1>1 DEF IInv, BlameInv
<1> QED
  BY <1>1, <1>3, <1>4, FailedSourceKeeps

(* The barrier ends with nothing waiting and nothing in flight.            *)
LEMMA EndMapKeeps ==
    ASSUME IInv, EndMap, UNCHANGED reduceVars
    PROVE  IInv'
<1>1. /\ phase = "map" /\ pending = <<>> /\ inflight = {} /\ phase' = "probe"
      /\ UNCHANGED <<failure, alive, holds, blips, transients, draining, sources, pending, inflight,
                     ran, filling, attempts, spent, dead, confirmed, idle, host, addr>>
  BY DEF EndMap, fleetVars, barrierVars
<1>2. /\ ReduceTypeOK' /\ SlotsSound' /\ WindowUndone' /\ CopyHeld'
      /\ MigrateGone' /\ TodoGone' /\ FailedGone' /\ SlotGone'
      /\ Sources' = Sources /\ Gone' = Gone
  BY <1>1, MapFrame
<1>3. BlameInv'
  BY <1>1, <1>2 DEF IInv, BlameInv, reduceVars
<1>4. /\ MapTypeOK /\ WaitsOnce /\ AttemptsLeft /\ Dealt /\ Placed /\ RanHeld /\ AddrHeld
  BY DEF IInv, MapInv, HeldInv, TypeOK
<1>5. MapTypeOK'
  BY <1>1, <1>2, <1>4 DEF MapTypeOK
<1>6. Waits' = Waits /\ Waits = {}
  BY <1>1 DEF Waits
<1>7. WaitsOnce' /\ BarrierOver' /\ AttemptsLeft' /\ Dealt' /\ Placed'
  BY <1>1, <1>2, <1>4, <1>6 DEF WaitsOnce, BarrierOver, AttemptsLeft, Dealt, Placed
<1>8. RanHeld' /\ AddrHeld'
  BY <1>1, <1>2, <1>4 DEF RanHeld, AddrHeld
<1> QED
  BY <1>1, <1>2, <1>3, <1>5, <1>7, <1>8 DEF IInv, MapInv, HeldInv, TypeOK

-----------------------------------------------------------------------------
(* Faults.                                                                 *)

(* A worker that dies takes what it held with it, and is gone.             *)
LEMMA DieKeeps ==
    ASSUME IInv, NEW w \in Workers, Die(w), UNCHANGED reduceVars
    PROVE  IInv'
<1>1. /\ alive' = alive \ {w} /\ holds' = {p \in holds : p[1] # w}
      /\ UNCHANGED <<phase, failure, blips, transients, draining, sources, pending, inflight,
                     ran, filling, attempts, spent, dead, confirmed, idle, host, addr>>
  BY DEF Die, barrierVars
<1>2. Sources' = Sources /\ Gone \subseteq Gone' /\ Waits' = Waits
  BY <1>1 DEF Sources, Gone, Waits
<1>3. /\ MapTypeOK /\ ReduceTypeOK /\ WaitsOnce /\ BarrierOver /\ AttemptsLeft /\ Dealt
      /\ Placed /\ RanHeld /\ AddrHeld /\ CopyHeld
  BY DEF IInv, MapInv, HeldInv, TypeOK
<1>4. \A v \in alive', s \in Sources : <<v, s>> \in holds => <<v, s>> \in holds'
  BY <1>1
<1>5. MapTypeOK'
  <2>1. holds' \subseteq alive' \X Sources
    BY <1>1, <1>3 DEF MapTypeOK
  <2> QED
    BY <1>1, <1>2, <1>3, <2>1 DEF MapTypeOK
<1>6. ReduceTypeOK' /\ SlotsSound' /\ WindowUndone'
  BY <1>1, <1>2, <1>3 DEF IInv, ReduceTypeOK, SlotsSound, WindowUndone, reduceVars
<1>7. WaitsOnce' /\ BarrierOver' /\ AttemptsLeft' /\ Dealt' /\ Placed'
  BY <1>1, <1>2, <1>3 DEF WaitsOnce, BarrierOver, AttemptsLeft, Dealt, Placed
<1>8. RanHeld' /\ AddrHeld' /\ CopyHeld'
  <2>1. \A s \in ran : s \in Sources
    BY <1>3 DEF MapTypeOK
  <2>2. alive' \subseteq alive
    BY <1>1
  <2>3. RanHeld'
    BY <1>1, <1>3, <1>4, <2>1, <2>2 DEF RanHeld
  <2>4. AddrHeld'
    BY <1>1, <1>2, <1>3, <1>4, <2>2 DEF AddrHeld
  <2>5. CopyHeld'
    BY <1>1, <1>2, <1>3, <1>4, <2>2 DEF CopyHeld, reduceVars
  <2> QED
    BY <2>3, <2>4, <2>5
<1>9. BlameInv'
  BY <1>1, <1>2 DEF IInv, BlameInv, MigrateGone, TodoGone, FailedGone, SlotGone, reduceVars
<1> QED
  BY <1>1, <1>3, <1>5, <1>6, <1>7, <1>8, <1>9 DEF IInv, MapInv, HeldInv, TypeOK

(* A worker reported as leaving still answers, and may be written off.     *)
LEMMA DrainKeeps ==
    ASSUME IInv, NEW w \in Workers, Drain(w), UNCHANGED reduceVars
    PROVE  IInv'
<1>1. /\ draining' = draining \cup {w}
      /\ UNCHANGED <<phase, failure, alive, holds, blips, transients, sources, pending, inflight,
                     ran, filling, attempts, spent, dead, confirmed, idle, host, addr>>
  BY DEF Drain, barrierVars
<1>2. Sources' = Sources /\ Gone \subseteq Gone' /\ Waits' = Waits
  BY <1>1 DEF Sources, Gone, Waits
<1>3. /\ MapTypeOK /\ ReduceTypeOK /\ WaitsOnce /\ BarrierOver /\ AttemptsLeft /\ Dealt
      /\ Placed /\ RanHeld /\ AddrHeld /\ CopyHeld
  BY DEF IInv, MapInv, HeldInv, TypeOK
<1>5. MapTypeOK'
  BY <1>1, <1>2, <1>3 DEF MapTypeOK
<1>6. ReduceTypeOK' /\ SlotsSound' /\ WindowUndone'
  BY <1>1, <1>2, <1>3 DEF IInv, ReduceTypeOK, SlotsSound, WindowUndone, reduceVars
<1>7. WaitsOnce' /\ BarrierOver' /\ AttemptsLeft' /\ Dealt' /\ Placed'
  BY <1>1, <1>2, <1>3 DEF WaitsOnce, BarrierOver, AttemptsLeft, Dealt, Placed
<1>8. RanHeld' /\ AddrHeld' /\ CopyHeld'
  BY <1>1, <1>2, <1>3 DEF RanHeld, AddrHeld, CopyHeld, reduceVars
<1>9. BlameInv'
  BY <1>1, <1>2 DEF IInv, BlameInv, MigrateGone, TodoGone, FailedGone, SlotGone, reduceVars
<1> QED
  BY <1>1, <1>3, <1>5, <1>6, <1>7, <1>8, <1>9 DEF IInv, MapInv, HeldInv, TypeOK

-----------------------------------------------------------------------------
(* The copies and the reduce.                                              *)

Phases == {"map", "probe", "copy", "ready", "migrate", "launch", "reduce", "recompute", "done",
           "failed"}
Failures == {"none", "no_survivor", "attempts", "republish", "rounds"}

(* What no step of the driver after the barrier disturbs, unless it moves  *)
(* a source or copies one.                                                 *)
LEMMA ReduceFrame ==
    ASSUME IInv, phase \notin {"map", "failed"}, phase' \in Phases \ {"map"}, failure' \in Failures,
           blips' \in Nat, UNCHANGED <<alive, holds, transients, draining, barrierVars>>
    PROVE  /\ MapTypeOK' /\ WaitsOnce' /\ BarrierOver' /\ AttemptsLeft' /\ Dealt'
           /\ Placed' /\ RanHeld' /\ AddrHeld'
           /\ phase # "copy" /\ UNCHANGED replicas => CopyHeld'
           /\ Sources' = Sources /\ Gone' = Gone
<1>1. UNCHANGED <<sources, pending, inflight, ran, filling, attempts, spent, dead, confirmed, idle,
                  host, addr, alive, holds, transients, draining>>
  BY DEF barrierVars
<1>2. Sources' = Sources /\ Gone' = Gone /\ Waits' = Waits
  BY <1>1 DEF Sources, Gone, Waits
<1>3. /\ MapTypeOK /\ WaitsOnce /\ BarrierOver /\ AttemptsLeft /\ Dealt /\ Placed /\ RanHeld
      /\ AddrHeld /\ CopyHeld
  BY DEF IInv, MapInv, HeldInv, TypeOK
<1>4. MapTypeOK'
  BY <1>1, <1>2, <1>3 DEF MapTypeOK, Failures
<1>5. WaitsOnce' /\ BarrierOver' /\ AttemptsLeft' /\ Dealt' /\ Placed'
  BY <1>1, <1>2, <1>3 DEF WaitsOnce, BarrierOver, AttemptsLeft, Dealt, Placed
<1>6. RanHeld' /\ AddrHeld' /\ (phase # "copy" /\ UNCHANGED replicas => CopyHeld')
  BY <1>1, <1>2, <1>3 DEF RanHeld, AddrHeld, CopyHeld
<1> QED
  BY <1>2, <1>4, <1>5, <1>6

(* The conjuncts of the invariant, put together.                           *)
LEMMA Together ==
    ASSUME phase' \in Phases, MapTypeOK', ReduceTypeOK', WaitsOnce', BarrierOver', AttemptsLeft',
           Dealt', Placed', RanHeld', AddrHeld', CopyHeld', SlotsSound', WindowUndone', BlameInv'
    PROVE  IInv'
BY DEF IInv, MapInv, HeldInv, TypeOK, Phases

(* The probe of the fleet's placement.                                     *)
LEMMA ProbeKeeps == IInv /\ Probe => IInv'
<1> SUFFICES ASSUME IInv, Probe PROVE IInv'
  OBVIOUS
<1>1. /\ phase = "probe" /\ phase' = "copy" /\ todo' \subseteq Sources
      /\ UNCHANGED <<failure, alive, holds, blips, transients, draining, barrierVars, replicas, lost,
                     replicaServed, round, queue, chunk, copies, slot, backedUp, failed, done, dead>>
  BY DEF Probe, fleetVars, barrierVars
<1>2. blips' \in Nat /\ failure' \in Failures /\ ReduceTypeOK
  BY <1>1 DEF IInv, MapInv, TypeOK, MapTypeOK, Failures
<1>3. /\ MapTypeOK' /\ WaitsOnce' /\ BarrierOver' /\ AttemptsLeft' /\ Dealt' /\ Placed' /\ RanHeld'
      /\ AddrHeld' /\ Sources' = Sources /\ Gone' = Gone
  BY <1>1, <1>2, ReduceFrame DEF Phases
<1>4. ReduceTypeOK'
  BY <1>1, <1>2, <1>3 DEF ReduceTypeOK
<1>5. SlotsSound' /\ WindowUndone' /\ CopyHeld'
  BY <1>1, <1>3 DEF IInv, SlotsSound, WindowUndone, CopyHeld
<1>6. BlameInv'
  BY <1>1, <1>3 DEF IInv, BlameInv, MigrateGone, TodoGone, FailedGone, SlotGone
<1> QED
  BY <1>1, <1>3, <1>4, <1>5, <1>6, Together DEF Phases

(* One source's copy is assigned.                                          *)
LEMMA AssignReplicaKeeps == IInv /\ AssignReplica => IInv'
<1> SUFFICES ASSUME IInv, AssignReplica PROVE IInv'
  OBVIOUS
<1>1. /\ phase = "copy" /\ phase' = "copy" /\ todo' \subseteq todo
      /\ UNCHANGED <<failure, alive, holds, blips, transients, draining, barrierVars, lost,
                     replicaServed, round, queue, chunk, copies, slot, backedUp, failed, done, dead>>
  BY DEF AssignReplica, fleetVars, barrierVars
<1>2. blips' \in Nat /\ failure' \in Failures /\ ReduceTypeOK
  BY <1>1 DEF IInv, MapInv, TypeOK, MapTypeOK, Failures
<1>3. /\ MapTypeOK' /\ WaitsOnce' /\ BarrierOver' /\ AttemptsLeft' /\ Dealt' /\ Placed' /\ RanHeld'
      /\ AddrHeld' /\ Sources' = Sources /\ Gone' = Gone
  BY <1>1, <1>2, ReduceFrame DEF Phases
<1>4. \E best \in SUBSET Workers : replicas' = [replicas EXCEPT ![Least(todo)] = best]
  BY DEF AssignReplica
<1>5. ReduceTypeOK'
  <2>1. replicas' \in [Sources -> SUBSET Workers]
    BY <1>2, <1>4 DEF ReduceTypeOK
  <2> QED
    BY <1>1, <1>2, <1>3, <2>1 DEF ReduceTypeOK
<1>6. SlotsSound' /\ WindowUndone' /\ CopyHeld'
  BY <1>1, <1>3 DEF IInv, SlotsSound, WindowUndone, CopyHeld
<1>7. BlameInv'
  BY <1>1, <1>3 DEF IInv, BlameInv, MigrateGone, TodoGone, FailedGone, SlotGone
<1> QED
  BY <1>1, <1>3, <1>5, <1>6, <1>7, Together DEF Phases

(* Only a copy that was made is advertised.                                *)
LEMMA CopyKeeps == IInv /\ Copy => IInv'
<1> SUFFICES ASSUME IInv, Copy PROVE IInv'
  OBVIOUS
<1>1. /\ phase = "copy" /\ phase' = "ready"
      /\ replicas' = [s \in Sources |-> Acked(s)]
      /\ holds' = holds \cup {p \in alive \X Sources :
                              p[1] \in replicas[p[2]] /\ <<addr[p[2]], p[2]>> \in holds}
      /\ UNCHANGED <<failure, alive, blips, transients, draining, lost, replicaServed, round, todo,
                     queue, chunk, copies, slot, backedUp, failed, done>>
      /\ UNCHANGED <<sources, pending, inflight, ran, filling, attempts, spent, dead, confirmed, idle,
                     host, addr>>
  BY DEF Copy, barrierVars
<1>2. Sources' = Sources /\ Gone' = Gone /\ Waits' = Waits
  BY <1>1 DEF Sources, Gone, Waits
<1>3. /\ MapTypeOK /\ ReduceTypeOK /\ WaitsOnce /\ BarrierOver /\ AttemptsLeft /\ Dealt
      /\ Placed /\ RanHeld /\ AddrHeld
  BY DEF IInv, MapInv, HeldInv, TypeOK
<1>4. MapTypeOK'
  <2>1. holds' \subseteq alive' \X Sources
    BY <1>1, <1>3 DEF MapTypeOK
  <2> QED
    BY <1>1, <1>2, <1>3, <2>1 DEF MapTypeOK
<1>5. ReduceTypeOK'
  <2>1. replicas' \in [Sources -> SUBSET Workers]
    BY <1>1, <1>3 DEF Acked, ReduceTypeOK
  <2> QED
    BY <1>1, <1>2, <1>3, <2>1 DEF ReduceTypeOK
<1>6. WaitsOnce' /\ BarrierOver' /\ AttemptsLeft' /\ Dealt' /\ Placed'
  BY <1>1, <1>2, <1>3 DEF WaitsOnce, BarrierOver, AttemptsLeft, Dealt, Placed
<1>7. RanHeld' /\ AddrHeld'
  BY <1>1, <1>2, <1>3 DEF RanHeld, AddrHeld
<1>8. CopyHeld'
  <2>1. ASSUME NEW s \in Sources, NEW w \in replicas'[s] \cap alive
        PROVE  <<w, s>> \in holds'
    <3>1. w \in replicas[s] /\ w \in alive /\ <<addr[s], s>> \in holds
      BY <1>1, <2>1 DEF Acked
    <3>2. <<w, s>> \in alive \X Sources
      BY <2>1, <3>1
    <3> QED
      BY <1>1, <3>1, <3>2
  <2> QED
    BY <1>1, <1>2, <2>1 DEF CopyHeld
<1>9. SlotsSound' /\ WindowUndone'
  BY <1>1, <1>2 DEF IInv, SlotsSound, WindowUndone
<1>10. BlameInv'
  BY <1>1, <1>2 DEF IInv, BlameInv, MigrateGone, TodoGone, FailedGone, SlotGone
<1> QED
  BY <1>1, <1>4, <1>5, <1>6, <1>7, <1>8, <1>9, <1>10, Together DEF Phases

(* The reduce begins with the workers the barrier lost, and moves off the  *)
(* leaving ones.                                                           *)
LEMMA StartReduceKeeps == IInv /\ StartReduce => IInv'
<1> SUFFICES ASSUME IInv, StartReduce PROVE IInv'
  OBVIOUS
<1>1. /\ phase = "ready" /\ phase' = "migrate" /\ lost' = dead /\ queue' = Buckets
      /\ todo' = UNION {SourcesOn(w) : w \in draining}
      /\ UNCHANGED <<failure, alive, holds, blips, transients, draining, barrierVars, replicas,
                     replicaServed, round, chunk, copies, slot, backedUp, failed, done, dead, host>>
  BY DEF StartReduce, fleetVars, barrierVars
<1>2. blips' \in Nat /\ failure' \in Failures /\ ReduceTypeOK /\ dead \subseteq Workers
  BY <1>1 DEF IInv, MapInv, TypeOK, MapTypeOK, Failures
<1>3. /\ MapTypeOK' /\ WaitsOnce' /\ BarrierOver' /\ AttemptsLeft' /\ Dealt' /\ Placed' /\ RanHeld'
      /\ AddrHeld' /\ CopyHeld' /\ Sources' = Sources /\ Gone' = Gone
  BY <1>1, <1>2, ReduceFrame DEF Phases
<1>4. todo' \subseteq Sources /\ \A s \in todo' : host[s] \in draining
  BY <1>1 DEF SourcesOn
<1>5. ReduceTypeOK'
  BY <1>1, <1>2, <1>3, <1>4 DEF ReduceTypeOK
<1>6. SlotsSound' /\ WindowUndone'
  BY <1>1, <1>3 DEF IInv, SlotsSound, WindowUndone
<1>7. BlameInv'
  BY <1>1, <1>3, <1>4 DEF IInv, BlameInv, MigrateGone, TodoGone, FailedGone, SlotGone
<1> QED
  BY <1>1, <1>3, <1>5, <1>6, <1>7, Together DEF Phases

(* A recompute writes off the worker a source was on, which is gone, and   *)
(* publishes the source on one that is not, retiring its copies.           *)
LEMMA RecomputeKeeps == IInv /\ Recompute => IInv'
<1> SUFFICES ASSUME IInv, Recompute PROVE IInv'
  OBVIOUS
<1> DEFINE src == Least(todo)
           nowLost == lost \cup {HostOf(src)}
           targets == {w \in Workers : w \notin nowLost}
           target == Least(targets)
<1>1. /\ phase \in {"migrate", "recompute"} /\ todo # {} /\ lost' = nowLost
      /\ UNCHANGED <<alive, blips, transients, sources, pending, inflight, ran, filling, attempts,
                     spent, dead, confirmed, idle, draining, round, queue, chunk, copies, slot,
                     backedUp, failed, done>>
  BY DEF Recompute
<1>2. \/ /\ todo' = todo \ {src} /\ replicaServed' = replicaServed \cup {src}
         /\ UNCHANGED <<phase, failure, replicas, host, addr, holds>>
      \/ /\ RecomputeRaises("no_survivor")
         /\ UNCHANGED <<replicaServed, replicas, host, addr, holds>>
      \/ /\ targets # {} /\ host' = [host EXCEPT ![src] = target]
         /\ replicas' = [replicas EXCEPT ![src] = {}] /\ UNCHANGED replicaServed
         /\ target \in alive /\ addr' = [addr EXCEPT ![src] = target]
         /\ holds' = holds \cup {<<target, src>>} /\ todo' = todo \ {src}
         /\ UNCHANGED <<phase, failure>>
      \/ /\ targets # {} /\ host' = [host EXCEPT ![src] = target]
         /\ replicas' = [replicas EXCEPT ![src] = {}] /\ UNCHANGED replicaServed
         /\ target \notin alive /\ RecomputeRaises("republish") /\ UNCHANGED <<addr, holds>>
  BY DEF Recompute
<1>3. /\ MapTypeOK /\ ReduceTypeOK /\ WaitsOnce /\ BarrierOver /\ AttemptsLeft /\ Dealt
      /\ Placed /\ RanHeld /\ AddrHeld /\ CopyHeld
  BY DEF IInv, MapInv, HeldInv, TypeOK
<1>4. Sources' = Sources /\ Gone' = Gone /\ Waits' = Waits /\ Waits = {} /\ inflight = {} /\ ran = {}
  BY <1>1, <1>3 DEF Sources, Gone, Waits, BarrierOver, MapTypeOK
<1>5. src \in todo /\ src \in Sources /\ host[src] \in Workers
  <2>1. todo \subseteq Sources /\ Sources \subseteq Nat
    BY <1>3, SourceAssumption DEF ReduceTypeOK, MapTypeOK, Sources
  <2>2. src \in todo
    BY <1>1, <2>1, LeastIn
  <2> QED
    BY <1>3, <1>4, <2>1, <2>2 DEF Dealt
<1>6. targets # {} => target \in Workers /\ target \in Nat
  <2>1. Workers \subseteq Nat
    BY FleetAssumption DEF Workers
  <2>2. targets # {} => target \in targets
    BY <2>1, LeastIn
  <2> QED
    BY <2>1, <2>2
<1> HIDE DEF src, target, targets
<1>7. /\ phase' \in Phases /\ (phase' = phase \/ phase' = "failed") /\ failure' \in Failures
      /\ todo' \subseteq todo /\ (phase' = phase => src \notin todo')
  BY <1>1, <1>2, <1>3 DEF RecomputeRaises, Raise, Phases, Failures, MapTypeOK
<1>8. /\ lost' \subseteq Workers
      /\ replicas' \in [Sources -> SUBSET Workers] /\ replicaServed' \subseteq Sources
      /\ host' \in [Sources -> Nat] /\ addr' \in [Sources -> Workers \cup {NoAddr}]
      /\ holds' \subseteq alive \X Sources
  <2>1. lost' \subseteq Workers
    BY <1>1, <1>3, <1>5 DEF ReduceTypeOK, HostOf
  <2>2. replicas' \in [Sources -> SUBSET Workers] /\ replicaServed' \subseteq Sources
    BY <1>2, <1>3, <1>5 DEF ReduceTypeOK
  <2>3. host' \in [Sources -> Nat] /\ addr' \in [Sources -> Workers \cup {NoAddr}]
    BY <1>2, <1>3, <1>6 DEF MapTypeOK
  <2>4. holds' \subseteq alive \X Sources
    BY <1>2, <1>3, <1>5 DEF MapTypeOK
  <2> QED
    BY <2>1, <2>2, <2>3, <2>4
<1>9. MapTypeOK'
  BY <1>1, <1>3, <1>4, <1>7, <1>8 DEF MapTypeOK, Failures
<1>10. ReduceTypeOK'
  BY <1>1, <1>3, <1>4, <1>7, <1>8 DEF ReduceTypeOK
<1>11. /\ \A s \in Sources : s # src =>
             host'[s] = host[s] /\ addr'[s] = addr[s] /\ replicas'[s] = replicas[s]
       /\ \/ host'[src] = host[src] /\ addr'[src] = addr[src] /\ replicas'[src] = replicas[src]
          \/ host'[src] \in Workers /\ replicas'[src] = {}
             /\ \/ host'[src] \in alive /\ addr'[src] = host'[src] /\ <<addr'[src], src>> \in holds'
                \/ host'[src] \notin alive /\ addr'[src] = addr[src]
       /\ holds \subseteq holds'
  BY <1>2, <1>3, <1>5, <1>6 DEF MapTypeOK, ReduceTypeOK
<1>12. WaitsOnce' /\ BarrierOver' /\ AttemptsLeft'
  BY <1>1, <1>3, <1>4, <1>7 DEF WaitsOnce, BarrierOver, AttemptsLeft
<1>13. Dealt' /\ Placed'
  BY <1>1, <1>3, <1>4, <1>11 DEF Dealt, Placed
<1>14. RanHeld' /\ AddrHeld'
  BY <1>1, <1>3, <1>4, <1>11 DEF RanHeld, AddrHeld
<1>15. CopyHeld'
  BY <1>1, <1>3, <1>4, <1>11 DEF CopyHeld
<1>16. SlotsSound' /\ WindowUndone'
  BY <1>1, <1>4, <1>7 DEF IInv, SlotsSound, WindowUndone
<1>17. BlameInv'
  <2>1. MigrateGone'
    BY <1>1, <1>3, <1>5, <1>7, <1>11 DEF IInv, BlameInv, MigrateGone, ReduceTypeOK
  <2>2. blips = 0 => host[src] \in Gone
    BY <1>1, <1>5 DEF IInv, BlameInv, MigrateGone, TodoGone, Gone
  <2>3. blips = 0 => TodoGone'
    BY <1>1, <1>3, <1>4, <1>7, <1>11 DEF IInv, BlameInv, TodoGone, ReduceTypeOK
  <2>4. FailedGone' /\ SlotGone'
    BY <1>1, <1>7 DEF FailedGone, SlotGone
  <2> QED
    BY <1>1, <1>4, <2>1, <2>2, <2>3, <2>4 DEF IInv, BlameInv, HostOf
<1> QED
  BY <1>7, <1>9, <1>10, <1>12, <1>13, <1>14, <1>15, <1>16, <1>17, Together

(* An attempt takes up the buckets without a result.                       *)
LEMMA NextAttemptKeeps == IInv /\ NextAttempt => IInv'
<1> SUFFICES ASSUME IInv, NextAttempt PROVE IInv'
  OBVIOUS
<1>1. /\ phase \in {"migrate", "recompute"} /\ phase' = "launch"
      /\ queue' = {b \in Buckets : done[b] = NoResult} /\ failed' = {}
      /\ UNCHANGED <<failure, alive, holds, blips, transients, draining, barrierVars, replicas, lost,
                     replicaServed, round, todo, chunk, copies, slot, backedUp, done, dead>>
  BY DEF NextAttempt, fleetVars, barrierVars
<1>2. blips' \in Nat /\ failure' \in Failures /\ ReduceTypeOK
  BY <1>1 DEF IInv, MapInv, TypeOK, MapTypeOK, Failures
<1>3. /\ MapTypeOK' /\ WaitsOnce' /\ BarrierOver' /\ AttemptsLeft' /\ Dealt' /\ Placed' /\ RanHeld'
      /\ AddrHeld' /\ CopyHeld' /\ Sources' = Sources /\ Gone' = Gone
  BY <1>1, <1>2, ReduceFrame DEF Phases
<1>4. ReduceTypeOK'
  BY <1>1, <1>2, <1>3 DEF ReduceTypeOK
<1>5. SlotsSound' /\ WindowUndone'
  BY <1>1, <1>3 DEF IInv, SlotsSound, WindowUndone
<1>6. BlameInv'
  BY <1>1, <1>3 DEF IInv, BlameInv, MigrateGone, TodoGone, FailedGone, SlotGone
<1> QED
  BY <1>1, <1>3, <1>4, <1>5, <1>6, Together DEF Phases

(* A bucket is only ever sent to a worker of the fleet.                    *)
LEMMA HostForIsWorker == \A b \in Buckets, avoid \in SUBSET Workers : HostFor(b, avoid) \subseteq Workers
<1> SUFFICES ASSUME NEW b \in Buckets, NEW avoid \in SUBSET Workers
             PROVE  HostFor(b, avoid) \subseteq Workers
  OBVIOUS
<1> DEFINE usable == Workers \ (lost \cup avoid)
<1>1. usable # {} => Least(usable) \in usable
  <2>1. usable \subseteq Nat
    BY FleetAssumption DEF Workers
  <2> QED
    BY <2>1, LeastIn
<1> QED
  BY <1>1 DEF HostFor

(* A window is taken off the queue, with every slot empty.                 *)
LEMMA LaunchChunkKeeps == IInv /\ LaunchChunk => IInv'
<1> SUFFICES ASSUME IInv, LaunchChunk PROVE IInv'
  OBVIOUS
<1>1. /\ phase = "launch"
      /\ UNCHANGED <<alive, holds, blips, transients, draining, barrierVars, replicas, lost,
                     replicaServed, round, todo, failed, done, dead, host>>
  BY DEF LaunchChunk, fleetVars, barrierVars
<1>2. \/ /\ phase' = "failed" /\ failure' = "no_survivor"
         /\ UNCHANGED <<queue, chunk, copies, slot, backedUp>>
      \/ /\ phase' = "reduce" /\ chunk' = NextChunk /\ queue' = queue \ NextChunk
         /\ copies' = [b \in Buckets |->
                          IF b \notin NextChunk THEN {}
                          ELSE {[host |-> h, backup |-> FALSE, gone |-> Unreachable]
                                  : h \in HostFor(b, {})}]
         /\ slot' = [b \in Buckets |-> Waiting] /\ backedUp' = {} /\ failure' = failure
  BY DEF LaunchChunk, Raise
<1>3. /\ phase' \in Phases \ {"map"} /\ blips' \in Nat /\ failure' \in Failures /\ ReduceTypeOK
      /\ phase' \in {"failed", "reduce"}
  BY <1>1, <1>2 DEF IInv, MapInv, TypeOK, MapTypeOK, Failures, Phases
<1>4. /\ MapTypeOK' /\ WaitsOnce' /\ BarrierOver' /\ AttemptsLeft' /\ Dealt' /\ Placed' /\ RanHeld'
      /\ AddrHeld' /\ CopyHeld' /\ Sources' = Sources /\ Gone' = Gone
  BY <1>1, <1>3, ReduceFrame
<1>5. NextChunk \subseteq queue /\ queue \subseteq Buckets
  BY <1>3 DEF NextChunk, ReduceTypeOK
<1>6. copies' \in [Buckets -> SUBSET [host : Workers, backup : BOOLEAN, gone : SUBSET Sources]]
  <2>1. Unreachable \subseteq Sources
    BY DEF Unreachable
  <2>2. \A b \in Buckets : HostFor(b, {}) \subseteq Workers
    BY HostForIsWorker
  <2>3. CASE copies' = copies
    BY <1>3, <2>3 DEF ReduceTypeOK
  <2>4. CASE copies' = [b \in Buckets |->
                          IF b \notin NextChunk THEN {}
                          ELSE {[host |-> h, backup |-> FALSE, gone |-> Unreachable]
                                  : h \in HostFor(b, {})}]
    <3>1. \A h \in Workers : [host |-> h, backup |-> FALSE, gone |-> Unreachable]
                                \in [host : Workers, backup : BOOLEAN, gone : SUBSET Sources]
      BY <2>1
    <3>2. \A b \in Buckets : copies'[b] \subseteq [host : Workers, backup : BOOLEAN, gone : SUBSET Sources]
      BY <2>2, <2>4, <3>1
    <3> QED
      BY <2>4, <3>2
  <2> QED
    BY <1>2, <2>3, <2>4
<1>7. slot' = slot \/ slot' = [b \in Buckets |-> Waiting]
  BY <1>2
<1>8. slot' \in [Buckets -> [kind : {"none", "ok", "retry", "dead"}, data : SUBSET (Sources \cup Workers)]]
  BY <1>3, <1>7 DEF ReduceTypeOK, Waiting
<1>9. ReduceTypeOK'
  BY <1>1, <1>2, <1>3, <1>4, <1>5, <1>6, <1>8 DEF ReduceTypeOK
<1>10. SlotsSound'
  BY <1>4, <1>7 DEF IInv, SlotsSound, Waiting
<1>11. WindowUndone'
  BY <1>1, <1>2, <1>5 DEF IInv, WindowUndone
<1>12. SlotGone'
  BY <1>2, <1>5 DEF SlotGone, Waiting
<1>13. BlameInv'
  BY <1>1, <1>3, <1>4, <1>12 DEF IInv, BlameInv, MigrateGone, TodoGone, FailedGone
<1> QED
  BY <1>3, <1>4, <1>9, <1>10, <1>11, <1>13, Together

(* A source no copy of which is up was last placed on a worker that died.  *)
LEMMA UnreachableGone ==
    ASSUME IInv, phase = "reduce", NEW s \in Unreachable
    PROVE  s \in Sources /\ host[s] \in Gone
<1>1. s \in Sources /\ <<addr[s], s>> \notin holds
  BY DEF Unreachable, Candidates
<1>2. addr[s] \notin alive
  BY <1>1 DEF IInv, HeldInv, AddrHeld
<1>3. host[s] \in Workers /\ host[s] \notin alive
  BY <1>1, <1>2 DEF IInv, MapInv, HeldInv, BarrierOver, Dealt, Placed
<1> QED
  BY <1>1, <1>3 DEF Gone

(* An answer is the whole of the sources, or names the ones that are gone. *)
LEMMA ReduceAnswersKeeps ==
    ASSUME IInv, NEW b \in Buckets, ReduceAnswers(b)
    PROVE  IInv'
<1>1. /\ phase = "reduce" /\ phase' = "reduce" /\ b \in chunk
      /\ copies' = [copies EXCEPT ![b] = {}]
      /\ UNCHANGED <<failure, alive, holds, blips, transients, draining, barrierVars, replicas, lost,
                     replicaServed, round, todo, queue, chunk, backedUp, failed, done, dead, host>>
  BY DEF ReduceAnswers, fleetVars, barrierVars
<1>2. PICK missed \in SUBSET Unreachable : slot' = [slot EXCEPT ![b] = Answer(missed)]
  BY DEF ReduceAnswers
<1>3. blips' \in Nat /\ failure' \in Failures /\ ReduceTypeOK
  BY <1>1 DEF IInv, MapInv, TypeOK, MapTypeOK, Failures
<1>4. /\ MapTypeOK' /\ WaitsOnce' /\ BarrierOver' /\ AttemptsLeft' /\ Dealt' /\ Placed' /\ RanHeld'
      /\ AddrHeld' /\ CopyHeld' /\ Sources' = Sources /\ Gone' = Gone
  BY <1>1, <1>3, ReduceFrame DEF Phases
<1>5. \A s \in missed : s \in Sources /\ host[s] \in Gone
  BY <1>1, <1>2, UnreachableGone
<1>6. \/ Answer(missed) = [kind |-> "ok", data |-> Sources]
      \/ Answer(missed) = [kind |-> "retry", data |-> missed]
  BY DEF Answer
<1>7. slot \in [Buckets -> [kind : {"none", "ok", "retry", "dead"}, data : SUBSET (Sources \cup Workers)]]
  BY <1>3 DEF ReduceTypeOK
<1>8. /\ slot'[b] = Answer(missed) /\ \A c \in Buckets : c # b => slot'[c] = slot[c]
      /\ slot' \in [Buckets -> [kind : {"none", "ok", "retry", "dead"}, data : SUBSET (Sources \cup Workers)]]
  BY <1>2, <1>5, <1>6, <1>7
<1>9. ReduceTypeOK'
  BY <1>1, <1>3, <1>4, <1>8 DEF ReduceTypeOK
<1>10. SlotsSound'
  BY <1>4, <1>5, <1>6, <1>8 DEF IInv, SlotsSound
<1>11. WindowUndone'
  BY <1>1 DEF IInv, WindowUndone
<1>12. blips = 0 => SlotGone'
  BY <1>1, <1>3, <1>4, <1>5, <1>6, <1>8 DEF IInv, BlameInv, SlotGone, ReduceTypeOK
<1>13. BlameInv'
  BY <1>1, <1>4, <1>12 DEF IInv, BlameInv, MigrateGone, TodoGone, FailedGone
<1> QED
  BY <1>1, <1>4, <1>9, <1>10, <1>11, <1>13, Together DEF Phases

(* A lost copy is charged to its worker: a dead one, or one whose failed   *)
(* call is counted.                                                        *)
LEMMA CopyLostKeeps ==
    ASSUME IInv, NEW b \in Buckets, CopyLost(b)
    PROVE  IInv'
<1>1. /\ phase = "reduce" /\ phase' = "reduce" /\ b \in chunk
      /\ UNCHANGED <<failure, alive, holds, transients, draining, barrierVars, replicas, lost,
                     replicaServed, round, todo, queue, chunk, backedUp, failed, done, dead, host>>
  BY DEF CopyLost, barrierVars
<1>2. PICK c \in copies[b] :
        /\ \/ c.host \notin alive /\ UNCHANGED blips
           \/ c.host \in alive /\ CanFail /\ blips' = blips + 1
        /\ copies' = [copies EXCEPT ![b] = copies[b] \ {c}]
        /\ slot' = IF copies[b] = {c}
                   THEN [slot EXCEPT ![b] = [kind |-> "dead", data |-> {c.host}]]
                   ELSE slot
  BY DEF CopyLost
<1>3. blips \in Nat /\ blips' \in Nat /\ failure' \in Failures /\ ReduceTypeOK
  BY <1>1, <1>2 DEF IInv, MapInv, TypeOK, MapTypeOK, Failures
<1>4. /\ MapTypeOK' /\ WaitsOnce' /\ BarrierOver' /\ AttemptsLeft' /\ Dealt' /\ Placed' /\ RanHeld'
      /\ AddrHeld' /\ CopyHeld' /\ Sources' = Sources /\ Gone' = Gone
  BY <1>1, <1>3, ReduceFrame DEF Phases
<1>5. /\ c.host \in Workers
      /\ copies' \in [Buckets -> SUBSET [host : Workers, backup : BOOLEAN, gone : SUBSET Sources]]
  BY <1>2, <1>3 DEF ReduceTypeOK
<1>6. blips' = 0 => blips = 0 /\ c.host \in Gone
  BY <1>2, <1>3, <1>5 DEF Gone
<1>7. slot \in [Buckets -> [kind : {"none", "ok", "retry", "dead"}, data : SUBSET (Sources \cup Workers)]]
  BY <1>3 DEF ReduceTypeOK
<1>8. /\ slot' \in [Buckets -> [kind : {"none", "ok", "retry", "dead"}, data : SUBSET (Sources \cup Workers)]]
      /\ \A d \in Buckets : slot'[d] = slot[d] \/ slot'[d] = [kind |-> "dead", data |-> {c.host}]
  BY <1>2, <1>5, <1>7
<1>9. ReduceTypeOK'
  BY <1>1, <1>3, <1>4, <1>5, <1>8 DEF ReduceTypeOK
<1>10. SlotsSound'
  BY <1>4, <1>5, <1>8 DEF IInv, SlotsSound
<1>11. WindowUndone'
  BY <1>1 DEF IInv, WindowUndone
<1>12. blips' = 0 => SlotGone'
  BY <1>1, <1>3, <1>4, <1>6, <1>8 DEF IInv, BlameInv, SlotGone, ReduceTypeOK
<1>13. BlameInv'
  BY <1>1, <1>4, <1>6, <1>12 DEF IInv, BlameInv, MigrateGone, TodoGone, FailedGone
<1> QED
  BY <1>1, <1>4, <1>9, <1>10, <1>11, <1>13, Together DEF Phases

(* A backup is one more copy of a bucket in the window.                    *)
LEMMA BackupKeeps ==
    ASSUME IInv, NEW b \in Buckets, Backup(b)
    PROVE  IInv'
<1>1. /\ phase = "reduce" /\ phase' = "reduce" /\ b \in chunk /\ backedUp' = backedUp \cup {b}
      /\ UNCHANGED <<failure, alive, holds, blips, transients, draining, barrierVars, replicas, lost,
                     replicaServed, round, todo, queue, chunk, slot, failed, done, dead, host>>
  BY DEF Backup, fleetVars, barrierVars
<1>2. \E hosts \in SUBSET Workers :
        copies' = [copies EXCEPT ![b] = copies[b] \cup
                    {[host |-> h, backup |-> TRUE, gone |-> Unreachable] : h \in hosts}]
  <2>1. HostFor(b, {}) \subseteq Workers /\ HostFor(b, HostFor(b, {})) \subseteq Workers
    BY HostForIsWorker
  <2> QED
    BY <2>1 DEF Backup
<1>3. blips' \in Nat /\ failure' \in Failures /\ ReduceTypeOK
  BY <1>1 DEF IInv, MapInv, TypeOK, MapTypeOK, Failures
<1>4. /\ MapTypeOK' /\ WaitsOnce' /\ BarrierOver' /\ AttemptsLeft' /\ Dealt' /\ Placed' /\ RanHeld'
      /\ AddrHeld' /\ CopyHeld' /\ Sources' = Sources /\ Gone' = Gone
  BY <1>1, <1>3, ReduceFrame DEF Phases
<1>5. copies' \in [Buckets -> SUBSET [host : Workers, backup : BOOLEAN, gone : SUBSET Sources]]
  <2>1. \A h \in Workers : [host |-> h, backup |-> TRUE, gone |-> Unreachable]
                              \in [host : Workers, backup : BOOLEAN, gone : SUBSET Sources]
    BY DEF Unreachable
  <2>2. PICK hosts \in SUBSET Workers :
          copies' = [copies EXCEPT ![b] = copies[b] \cup
                    {[host |-> h, backup |-> TRUE, gone |-> Unreachable] : h \in hosts}]
    BY <1>2
  <2>3. {[host |-> h, backup |-> TRUE, gone |-> Unreachable] : h \in hosts}
          \subseteq [host : Workers, backup : BOOLEAN, gone : SUBSET Sources]
    BY <2>1
  <2> QED
    BY <1>3, <2>2, <2>3 DEF ReduceTypeOK
<1>6. ReduceTypeOK'
  BY <1>1, <1>3, <1>4, <1>5 DEF ReduceTypeOK
<1>7. SlotsSound' /\ WindowUndone'
  BY <1>1, <1>4 DEF IInv, SlotsSound, WindowUndone
<1>8. BlameInv'
  BY <1>1, <1>4 DEF IInv, BlameInv, MigrateGone, TodoGone, FailedGone, SlotGone
<1> QED
  BY <1>1, <1>4, <1>6, <1>7, <1>8, Together DEF Phases

(* The window's results are accepted, and what it could not do is blamed   *)
(* on workers that are gone.                                               *)
LEMMA ChunkDoneKeeps == IInv /\ ChunkDone => IInv'
<1> SUFFICES ASSUME IInv, ChunkDone PROVE IInv'
  OBVIOUS
<1> DEFINE of(kind) == {b \in chunk : slot[b].kind = kind}
           deadHosts == UNION {slot[b].data : b \in of("dead")}
           missed == UNION {slot[b].data : b \in of("retry")}
<1>1. /\ phase = "reduce" /\ phase' = "launch" /\ chunk' = {}
      /\ done' = [b \in Buckets |-> IF b \in of("ok") THEN slot[b].data ELSE done[b]]
      /\ lost' = lost \cup deadHosts
      /\ failed' = failed \cup missed \cup UNION {SourcesOn(w) : w \in deadHosts}
      /\ UNCHANGED <<failure, alive, holds, blips, transients, draining, barrierVars, replicas,
                     replicaServed, round, todo, queue, copies, slot, backedUp, dead, host>>
  <2>1. /\ phase = "reduce" /\ phase' = "launch" /\ chunk' = {}
        /\ UNCHANGED <<failure, alive, holds, blips, transients, draining, barrierVars, replicas,
                       replicaServed, round, todo, queue, copies, slot, backedUp, dead, host>>
    BY DEF ChunkDone, fleetVars, barrierVars
  <2>2. done' = [b \in Buckets |-> IF b \in of("ok") THEN slot[b].data ELSE done[b]]
    BY DEF ChunkDone
  <2>3. lost' = lost \cup deadHosts
    BY DEF ChunkDone
  <2>4. failed' = failed \cup missed \cup UNION {SourcesOn(w) : w \in deadHosts}
    BY DEF ChunkDone
  <2> QED
    BY <2>1, <2>2, <2>3, <2>4
<1>2. blips' \in Nat /\ failure' \in Failures /\ ReduceTypeOK
  BY <1>1 DEF IInv, MapInv, TypeOK, MapTypeOK, Failures
<1>3. /\ MapTypeOK' /\ WaitsOnce' /\ BarrierOver' /\ AttemptsLeft' /\ Dealt' /\ Placed' /\ RanHeld'
      /\ AddrHeld' /\ CopyHeld' /\ Sources' = Sources /\ Gone' = Gone
  BY <1>1, <1>2, ReduceFrame DEF Phases
<1>4. chunk \subseteq Buckets /\ \A b \in of("ok") : slot[b].data = Sources
  BY <1>2 DEF IInv, SlotsSound, ReduceTypeOK
<1>5. deadHosts \subseteq Workers /\ (blips = 0 => deadHosts \subseteq Gone)
  BY <1>1, <1>4 DEF IInv, SlotsSound, BlameInv, SlotGone
<1>6. missed \subseteq Sources /\ (blips = 0 => \A s \in missed : host[s] \in Gone)
  BY <1>1, <1>4 DEF IInv, SlotsSound, BlameInv, SlotGone
<1>7. failed' \subseteq Sources
  BY <1>1, <1>2, <1>6 DEF ReduceTypeOK, SourcesOn
<1>8. blips = 0 => \A s \in failed' : host[s] \in Gone
  BY <1>1, <1>5, <1>6 DEF IInv, BlameInv, FailedGone, SourcesOn
<1>9. done' \in [Buckets -> (SUBSET Sources) \cup {NoResult}]
  BY <1>1, <1>2, <1>4 DEF ReduceTypeOK
<1>10. \A b \in queue : done'[b] = NoResult
  BY <1>1, <1>2 DEF IInv, WindowUndone, ReduceTypeOK
<1> HIDE DEF deadHosts, missed, of
<1>11. ReduceTypeOK'
  BY <1>1, <1>2, <1>3, <1>5, <1>7, <1>9 DEF ReduceTypeOK
<1>12. SlotsSound' /\ WindowUndone'
  BY <1>1, <1>3, <1>10 DEF IInv, SlotsSound, WindowUndone
<1>13. BlameInv'
  BY <1>1, <1>3, <1>5, <1>8 DEF IInv, BlameInv, MigrateGone, TodoGone, FailedGone, SlotGone
<1> QED
  BY <1>1, <1>3, <1>11, <1>12, <1>13, Together DEF Phases

(* An attempt ends: the stage returns, raises, or recomputes what failed.  *)
LEMMA EndAttemptKeeps == IInv /\ EndAttempt => IInv'
<1> SUFFICES ASSUME IInv, EndAttempt PROVE IInv'
  OBVIOUS
<1>1. /\ phase = "launch" /\ chunk = {}
      /\ UNCHANGED <<alive, holds, blips, transients, draining, barrierVars, replicas, lost,
                     replicaServed, queue, chunk, copies, slot, backedUp, failed, done, dead, host>>
  BY DEF EndAttempt, fleetVars, barrierVars, IInv, WindowUndone
<1>2. \/ phase' = "done" /\ UNCHANGED <<failure, todo, round>>
      \/ phase' = "failed" /\ failure' = "rounds" /\ UNCHANGED <<todo, round>>
      \/ /\ ~LastRound /\ phase' = "recompute" /\ todo' = failed /\ round' = round + 1
         /\ UNCHANGED failure
  BY DEF EndAttempt, Raise
<1>3. blips' \in Nat /\ failure' \in Failures /\ ReduceTypeOK /\ phase' \in Phases \ {"map"}
  BY <1>1, <1>2 DEF IInv, MapInv, TypeOK, MapTypeOK, Failures, Phases
<1>4. /\ MapTypeOK' /\ WaitsOnce' /\ BarrierOver' /\ AttemptsLeft' /\ Dealt' /\ Placed' /\ RanHeld'
      /\ AddrHeld' /\ CopyHeld' /\ Sources' = Sources /\ Gone' = Gone
  BY <1>1, <1>3, ReduceFrame
<1>5. round' \in 0..(MaxAttempts - 1)
  BY <1>2, <1>3, AttemptAssumption DEF LastRound, ReduceTypeOK
<1>6. ReduceTypeOK'
  BY <1>1, <1>2, <1>3, <1>4, <1>5 DEF ReduceTypeOK
<1>7. SlotsSound' /\ WindowUndone'
  BY <1>1, <1>2, <1>4 DEF IInv, SlotsSound, WindowUndone
<1>8. BlameInv'
  BY <1>1, <1>2, <1>4 DEF IInv, BlameInv, MigrateGone, TodoGone, FailedGone, SlotGone
<1> QED
  BY <1>3, <1>4, <1>6, <1>7, <1>8, Together

-----------------------------------------------------------------------------
(* The stage.                                                              *)

(* Nothing is published, blamed or reduced at the start.                   *)
LEMMA InitEstablishes == Init => IInv
<1> SUFFICES ASSUME Init PROVE IInv
  OBVIOUS
<1>1. /\ sources \in Nat /\ sources >= W /\ W \in Nat \ {0}
  BY FleetAssumption, SourceAssumption DEF Init, MapInit
<1>2. MapTypeOK
  <2>1. pending \in Seq(Sources) /\ idle \in Seq(Workers)
    BY <1>1 DEF Init, MapInit, Sources, Workers
  <2>2. /\ attempts \in [Sources -> 0..(MaxAttempts + 1)] /\ spent \in 0..Allowance
        /\ host \in [Sources -> Nat] /\ addr \in [Sources -> Workers \cup {NoAddr}]
    BY <1>1, AttemptAssumption DEF Init, MapInit, Sources
  <2> QED
    BY <2>1, <2>2 DEF Init, MapInit, MapTypeOK
<1>3. ReduceTypeOK
  BY AttemptAssumption DEF Init, ReduceTypeOK, Waiting, NoResult
<1>4. Waits = Sources
  <2>1. DOMAIN pending = 1..sources /\ \A i \in 1..sources : pending[i] = i - 1
    BY DEF Init, MapInit
  <2>2. \A s \in Sources : s + 1 \in 1..sources /\ (s + 1) - 1 = s
    BY <1>1 DEF Sources
  <2>3. \A i \in 1..sources : i - 1 \in Sources
    BY <1>1 DEF Sources
  <2> QED
    BY <2>1, <2>2, <2>3 DEF Waits
<1>5. WaitsOnce
  BY <1>1 DEF Init, MapInit, WaitsOnce
<1>6. BarrierOver /\ AttemptsLeft /\ Dealt /\ Placed /\ RanHeld /\ CopyHeld
  BY <1>4, AttemptAssumption DEF Init, MapInit, BarrierOver, AttemptsLeft, Dealt, Placed, RanHeld, CopyHeld
<1>7. AddrHeld
  BY FleetAssumption DEF Init, MapInit, AddrHeld, NoAddr, Workers
<1>8. SlotsSound /\ WindowUndone
  BY DEF Init, MapInit, SlotsSound, WindowUndone, Waiting
<1>9. BlameInv
  BY DEF Init, MapInit, BlameInv, MigrateGone, TodoGone, FailedGone, SlotGone
<1> QED
  BY <1>2, <1>3, <1>5, <1>6, <1>7, <1>8, <1>9 DEF IInv, MapInv, HeldInv, TypeOK, Init, MapInit

(* Stuttering.                                                             *)
LEMMA StutterKeeps == IInv /\ UNCHANGED vars => IInv'
<1> SUFFICES ASSUME IInv, UNCHANGED vars PROVE IInv'
  OBVIOUS
<1>1. UNCHANGED <<phase, failure, fleetVars, barrierVars, reduceVars>>
  BY DEF vars
<1>2. UNCHANGED <<alive, holds, blips, transients, draining, sources, pending, inflight, ran, filling,
                  attempts, spent, dead, confirmed, idle, host, addr, replicas, lost, replicaServed,
                  round, todo, queue, chunk, copies, slot, backedUp, failed, done>>
  BY <1>1 DEF fleetVars, barrierVars, reduceVars
<1>3. Sources' = Sources /\ Gone' = Gone /\ Waits' = Waits
  BY <1>2 DEF Sources, Gone, Waits
<1>4. MapTypeOK' /\ ReduceTypeOK' /\ phase' \in Phases
  BY <1>1, <1>2, <1>3 DEF IInv, MapInv, TypeOK, MapTypeOK, ReduceTypeOK, Phases
<1>5. WaitsOnce' /\ BarrierOver' /\ AttemptsLeft' /\ Dealt' /\ Placed' /\ RanHeld' /\ AddrHeld' /\ CopyHeld'
  BY <1>1, <1>2, <1>3 DEF IInv, MapInv, HeldInv, WaitsOnce, BarrierOver, AttemptsLeft, Dealt, Placed,
                          RanHeld, AddrHeld, CopyHeld
<1>6. SlotsSound' /\ WindowUndone' /\ BlameInv'
  BY <1>1, <1>2, <1>3 DEF IInv, SlotsSound, WindowUndone, BlameInv, MigrateGone, TodoGone, FailedGone,
                          SlotGone
<1> QED
  BY <1>4, <1>5, <1>6, Together

(* Every step of the driver, of a worker, or of chance keeps it.           *)
LEMMA NextKeeps == IInv /\ [Next]_vars => IInv'
<1> SUFFICES ASSUME IInv, [Next]_vars PROVE IInv'
  OBVIOUS
<1>1. CASE MapStep
  BY <1>1, SubmitKeeps, EndMapKeeps, MapFinishKeeps, MapDoneKeeps, MapLostKeeps DEF MapStep, MapProgress
<1>2. CASE Reduce
  BY <1>2, ProbeKeeps, AssignReplicaKeeps, CopyKeeps, StartReduceKeeps, RecomputeKeeps,
     NextAttemptKeeps, LaunchChunkKeeps, ChunkDoneKeeps, EndAttemptKeeps, ReduceAnswersKeeps,
     CopyLostKeeps, BackupKeeps DEF Reduce
<1>3. CASE Fault
  BY <1>3, DieKeeps, DrainKeeps, MapTransientKeeps DEF Fault
<1>4. CASE Finished \/ UNCHANGED vars
  BY <1>4, StutterKeeps DEF Finished
<1> QED
  BY <1>1, <1>2, <1>3, <1>4 DEF Next, Progress

(* The inductive invariant holds in every reachable state.                 *)
LEMMA Invariance == Spec => []IInv
BY InitEstablishes, NextKeeps, PTL DEF Spec

(* For every fleet, stage and sequence of faults: the state is well formed *)
(* and every address or copy a reducer is sent to, on a live worker, holds *)
(* its source.                                                             *)
THEOREM AddressesAlwaysHold == Spec => []AddressesHold
<1>1. IInv => AddressesHold
  BY DEF IInv, MapInv, HeldInv, AddrHeld, CopyHeld, AddressesHold, Candidates
<1> QED
  BY <1>1, Invariance, PTL

(* For every fleet, stage and sequence of faults: only workers that died,  *)
(* were reported leaving, or failed a call are ever written off.           *)
THEOREM NoHealthyWorkerBlamed == Spec => []NoHealthyBlamed
<1>1. IInv => NoHealthyBlamed
  BY DEF IInv, BlameInv, Gone, NoHealthyBlamed
<1> QED
  BY <1>1, Invariance, PTL

-----------------------------------------------------------------------------
(* The contract.                                                           *)

(* What a step can mean to the caller: nothing, a window's results, the    *)
(* return with all of them, or a failure.                                  *)
LEMMA StepKinds ==
    ASSUME IInv, [Next]_vars
    PROVE  \/ UNCHANGED <<sources, done>> /\ (phase' = phase \/ {phase, phase'} \cap {"done", "failed"} = {})
           \/ UNCHANGED <<sources, done>> /\ phase \notin {"done", "failed"} /\ phase' = "failed"
           \/ UNCHANGED <<sources, done>> /\ phase = "launch" /\ phase' = "done" /\ AllDone
           \/ ChunkDone
<1>1. CASE MapStep
  <2>1. UNCHANGED <<sources, done>>
    BY <1>1 DEF MapStep, MapProgress, reduceVars, barrierVars, Submit, EndMap, MapFinish, MapDone, MapLost
  <2>2. phase = "map" /\ phase' \in {"map", "probe", "failed"}
    BY <1>1 DEF MapStep, MapProgress, Submit, EndMap, MapFinish, MapDone, MapLost, Retry, Raise, Collecting
  <2> QED
    BY <2>1, <2>2
<1>2. CASE Fault
  <2>1. UNCHANGED <<sources, done>>
    BY <1>2 DEF Fault, Die, Drain, MapTransient, reduceVars, barrierVars
  <2>2. phase' = phase \/ (phase = "map" /\ phase' = "failed")
    BY <1>2 DEF Fault, Die, Drain, MapTransient, Retry, Raise, Collecting
  <2> QED
    BY <2>1, <2>2
<1>3. CASE Probe \/ AssignReplica \/ Copy \/ StartReduce \/ NextAttempt
  BY <1>3 DEF Probe, AssignReplica, Copy, StartReduce, NextAttempt, barrierVars
<1>4. CASE Recompute
  <2>1. UNCHANGED <<sources, done>> /\ phase \in {"migrate", "recompute"}
    BY <1>4 DEF Recompute
  <2>2. phase' = phase \/ phase' = "failed"
    BY <1>4 DEF Recompute, RecomputeRaises, Raise
  <2> QED
    BY <2>1, <2>2
<1>5. CASE LaunchChunk
  BY <1>5 DEF LaunchChunk, Raise, barrierVars
<1>6. CASE EndAttempt
  BY <1>6 DEF EndAttempt, Raise, Complete, barrierVars
<1>7. ASSUME NEW b \in Buckets, ReduceAnswers(b) \/ CopyLost(b) \/ Backup(b)
      PROVE  UNCHANGED <<sources, done>> /\ phase' = phase
  BY <1>7 DEF ReduceAnswers, CopyLost, Backup, barrierVars
<1>8. CASE Finished \/ UNCHANGED vars
  BY <1>8 DEF Finished, vars, barrierVars, reduceVars
<1> QED
  BY <1>1, <1>2, <1>3, <1>4, <1>5, <1>6, <1>7, <1>8 DEF Next, Progress, Reduce

(* A window's step accepts the results of buckets that had none, each made *)
(* of every source.                                                        *)
LEMMA ChunkAccepts ==
    ASSUME IInv, ChunkDone
    PROVE  \E bs \in SUBSET Buckets :
              /\ \A b \in bs : done[b] = NoResult
              /\ done' = [b \in Buckets |-> IF b \in bs THEN Sources ELSE done[b]]
<1> DEFINE bs == {b \in chunk : slot[b].kind = "ok"}
<1>1. done' = [b \in Buckets |-> IF b \in bs THEN slot[b].data ELSE done[b]] /\ phase = "reduce"
  BY DEF ChunkDone
<1>2. chunk \subseteq Buckets
  BY DEF IInv, MapInv, TypeOK, ReduceTypeOK
<1>3. \A b \in bs : slot[b].data = Sources /\ done[b] = NoResult
  BY <1>1, <1>2 DEF IInv, SlotsSound, WindowUndone
<1>4. bs \in SUBSET Buckets
  BY <1>2
<1>5. done' = [b \in Buckets |-> IF b \in bs THEN Sources ELSE done[b]]
  BY <1>1, <1>3
<1> QED
  BY <1>3, <1>4, <1>5

(* The stage implements its contract, for every fleet, stage and sequence  *)
(* of faults: a bucket's result is accepted once, whole, never replaced,   *)
(* and the stage returns only with all of them.                            *)
THEOREM ContractHonoured == Spec => HonoursContract
<1>1. Init => Contract!CInit
  BY DEF Init, MapInit, Contract!CInit
<1>2. IInv /\ [Next]_vars => [Contract!CNext]_(Contract!cvars)
  <2> SUFFICES ASSUME IInv, [Next]_vars
               PROVE  Contract!CNext \/ UNCHANGED Contract!cvars
    OBVIOUS
  <2>1. CASE UNCHANGED <<sources, done>> /\ (phase' = phase \/ {phase, phase'} \cap {"done", "failed"} = {})
    BY <2>1 DEF Contract!cvars, Sources
  <2>2. CASE UNCHANGED <<sources, done>> /\ phase \notin {"done", "failed"} /\ phase' = "failed"
    <3>1. Contract!GiveUp
      BY <2>2 DEF Contract!GiveUp, Sources
    <3> QED
      BY <3>1 DEF Contract!CNext
  <2>3. CASE UNCHANGED <<sources, done>> /\ phase = "launch" /\ phase' = "done" /\ AllDone
    <3>1. Contract!Return
      BY <2>3 DEF Contract!Return, Sources, AllDone
    <3> QED
      BY <3>1 DEF Contract!CNext
  <2>4. CASE ChunkDone
    <3>1. phase = "reduce" /\ phase' = "launch" /\ Sources' = Sources
      BY <2>4 DEF ChunkDone, barrierVars, Sources
    <3>2. PICK bs \in SUBSET Buckets :
              /\ \A b \in bs : done[b] = NoResult
              /\ done' = [b \in Buckets |-> IF b \in bs THEN Sources ELSE done[b]]
      BY <2>4, ChunkAccepts
    <3>3. CASE bs = {}
      <4>1. done' = done
        BY <3>2, <3>3 DEF IInv, MapInv, TypeOK, ReduceTypeOK
      <4> QED
        BY <3>1, <4>1 DEF Contract!cvars
    <3>4. CASE bs # {}
      <4>1. Contract!Accept(bs)
        BY <3>1, <3>2, <3>4 DEF Contract!Accept
      <4> QED
        BY <4>1 DEF Contract!CNext
    <3> QED
      BY <3>3, <3>4
  <2> QED
    BY <2>1, <2>2, <2>3, <2>4, StepKinds
<1> QED
  BY <1>1, <1>2, Invariance, PTL DEF Spec, HonoursContract, Contract!CSpec

-----------------------------------------------------------------------------
(* One loss: a stage that has lost one thing recovers.                     *)

(* The workers that died.                                                  *)
Down == Workers \ alive

(* The workers sources were dealt to, and the idle ones.                   *)
HostsOf(S) == {host[s] : s \in S}
IdleHosts  == {idle[i] : i \in DOMAIN idle}

(* Until a loss shows, a worker has one task or is idle.                   *)
OneTaskEach ==
    phase = "map" /\ dead = {} /\ transients = 0 =>
        /\ \A s, t \in inflight : host[s] = host[t] => s = t
        /\ Pinned => \A s \in inflight : host[s] = s
        /\ ~ Pinned => /\ \A i, j \in DOMAIN idle : idle[i] = idle[j] => i = j
                       /\ HostsOf(inflight) \cap IdleHosts = {}
                       /\ HostsOf(inflight) \cup IdleHosts = Workers

(* No task is with a worker known to be gone, and only a retryable error   *)
(* has been charged.                                                       *)
MapSpared ==
    phase = "map" =>
        /\ HostsOf(inflight) \cap dead = {}
        /\ transients = 0 => spent = 0 /\ \A s \in Sources : attempts[s] = 0
        /\ round = 0 /\ \A s \in Sources : replicas[s] = {}

(* A source that is not waiting has an address, and no copy there.         *)
Published ==
    \A s \in Sources : /\ s \in Waits \cup inflight \/ addr[s] \in Workers
                       /\ addr[s] \notin replicas[s]

(* The workers the driver writes off, or is about to.                      *)
Suspected(w) ==
    \/ w \in dead \cup lost
    \/ phase \in {"migrate", "recompute"} /\ w \in HostsOf(todo)
    \/ phase \in {"launch", "reduce"} /\ w \in HostsOf(failed)
    \/ phase = "reduce" /\ \E b \in chunk :
          \/ slot[b].kind = "dead" /\ w \in slot[b].data
          \/ slot[b].kind = "retry" /\ w \in HostsOf(slot[b].data)

OneSuspect == blips > 0 => \A v, w \in Workers : Suspected(v) /\ Suspected(w) => v = w

(* Buckets this attempt has given up.                                      *)
Dropped == {b \in Buckets \ (queue \cup chunk) : done[b] = NoResult}
Missed  == Dropped # {} \/ failed # {}

(* A bucket is given up because something was lost, and then whoever died  *)
(* is written off before the next attempt.                                 *)
Evidence ==
    /\ phase = "reduce" => \A b \in chunk :
          /\ slot[b].kind \in {"retry", "dead"} => Losses >= 1 /\ slot[b].data # {}
          /\ slot[b].kind = "none" => slot[b] = Waiting
    /\ phase \in {"launch", "reduce"} /\ Missed => Losses >= 1 /\ Down \subseteq lost \cup HostsOf(failed)
    /\ phase = "recompute" => round >= 1 /\ Down \subseteq lost \cup HostsOf(todo)
    /\ phase \in {"probe", "copy", "ready", "migrate"} => round = 0
    /\ round >= 1 => Losses >= 1

(* From the second attempt on every copy runs on a live worker, and reports *)
(* every source that cannot be reached; the third can reach them all.      *)
LaterAttempts ==
    round >= 1 =>
        /\ phase \in {"launch", "reduce"} => Down \subseteq lost
        /\ phase \in {"launch", "reduce"} /\ Missed => failed = Unreachable /\ failed # {}
        /\ phase = "reduce" => \A b \in chunk :
              /\ \A c \in copies[b] : c.host \in alive /\ c.gone = Unreachable
              /\ slot[b] = Waiting \/ slot[b] = Answer(Unreachable)

LastAttempt ==
    /\ round <= 2
    /\ round = 2 /\ phase = "recompute" => Unreachable \subseteq todo
    /\ round = 2 /\ phase \in {"launch", "reduce"} => Unreachable = {}

(* What one loss leaves true, and so what holds until there is a second.   *)
Survives ==
    /\ phase # "failed"
    /\ OneTaskEach /\ MapSpared /\ Published
    /\ OneSuspect /\ Evidence /\ LaterAttempts /\ LastAttempt

LossInv == Losses <= 1 => Survives

(* The fleet is finite, and who is not up is down.                         *)
LEMMA UpAndDown ==
    ASSUME NEW up, up \subseteq Workers
    PROVE  /\ IsFiniteSet(Workers) /\ Cardinality(Workers) = W
           /\ IsFiniteSet(up) /\ Cardinality(up) \in Nat
           /\ Cardinality(Workers \ up) = W - Cardinality(up)
<1>1. IsFiniteSet(Workers) /\ Cardinality(Workers) = W
  <2>1. 0 \in Int /\ W - 1 \in Int /\ W >= 1 /\ W \in Nat
    BY FleetAssumption
  <2>2. IsFiniteSet(0..(W - 1)) /\ Cardinality(0..(W - 1)) = IF 0 > W - 1 THEN 0 ELSE (W - 1) - 0 + 1
    BY <2>1, FS_Interval
  <2> QED  BY <2>1, <2>2 DEF Workers
<1>2. Workers \cap up = up /\ IsFiniteSet(up)
  BY <1>1, FS_Subset
<1>3. Cardinality(Workers \ up) = Cardinality(Workers) - Cardinality(Workers \cap up)
  BY <1>1, FS_Difference
<1> QED  BY <1>1, <1>2, <1>3, FS_CardinalityType

(* The losses, as one sum of naturals.                                     *)
LEMMA LossFacts ==
    ASSUME IInv
    PROVE  /\ Losses \in Nat /\ IsFiniteSet(Down) /\ IsFiniteSet(draining)
           /\ Losses = Cardinality(Down) + Cardinality(draining) + blips + transients
           /\ Cardinality(Down) \in Nat /\ Cardinality(draining) \in Nat /\ blips \in Nat /\ transients \in Nat
<1>1. /\ alive \subseteq Workers /\ draining \subseteq Workers /\ Down \subseteq Workers
      /\ blips \in Nat /\ transients \in Nat
  BY DEF IInv, MapInv, TypeOK, MapTypeOK, Down
<1>2. /\ IsFiniteSet(Down) /\ IsFiniteSet(draining)
      /\ Cardinality(Down) \in Nat /\ Cardinality(draining) \in Nat
      /\ Cardinality(Workers \ alive) = W - Cardinality(alive)
  BY <1>1, UpAndDown
<1> QED  BY <1>1, <1>2 DEF Losses, Down

(* At most one element.                                                    *)
LEMMA AtMostOne ==
    ASSUME NEW S, IsFiniteSet(S), Cardinality(S) <= 1
    PROVE  /\ \A v, w \in S : v = w
           /\ S # {} => Cardinality(S) = 1
<1>1. Cardinality(S) \in Nat
  BY FS_CardinalityType
<1>2. Cardinality(S) = 0 \/ Cardinality(S) = 1
  BY <1>1
<1>3. CASE Cardinality(S) = 0
  BY <1>3, FS_EmptySet
<1>4. CASE Cardinality(S) = 1
  BY <1>4, FS_Singleton
<1> QED  BY <1>2, <1>3, <1>4

(* One loss is of one kind, and no loss is none of them.                   *)
LEMMA OneLossKinds ==
    ASSUME IInv, Losses <= 1
    PROVE  /\ \A v, w \in Gone : v = w
           /\ Gone # {} => blips = 0 /\ transients = 0
           /\ blips > 0 => transients = 0
           /\ Down # {} => draining = {}
           /\ Losses = 0 => Gone = {} /\ blips = 0 /\ transients = 0
           /\ Losses # 0 => Losses = 1
           /\ Gone # {} => Losses >= 1
           /\ blips > 0 => Losses >= 1
           /\ Down \subseteq Gone /\ Gone = Down \cup draining
<1>1. /\ Losses \in Nat /\ IsFiniteSet(Down) /\ IsFiniteSet(draining)
      /\ Losses = Cardinality(Down) + Cardinality(draining) + blips + transients
      /\ Cardinality(Down) \in Nat /\ Cardinality(draining) \in Nat /\ blips \in Nat /\ transients \in Nat
  BY LossFacts
<1>2. Cardinality(Down) <= 1 /\ Cardinality(draining) <= 1
  BY <1>1
<1>3. /\ \A v, w \in Down : v = w
      /\ \A v, w \in draining : v = w
      /\ Down # {} => Cardinality(Down) = 1
      /\ draining # {} => Cardinality(draining) = 1
  BY <1>1, <1>2, AtMostOne
<1>4. Gone = Down \cup draining
  BY DEF Gone, Down
<1>5. /\ Down # {} => draining = {} /\ blips = 0 /\ transients = 0 /\ Losses = 1
      /\ draining # {} => Down = {} /\ blips = 0 /\ transients = 0 /\ Losses = 1
      /\ blips > 0 => transients = 0 /\ Losses >= 1
      /\ Losses = 0 => blips = 0 /\ transients = 0
  BY <1>1, <1>3
<1>6. \A v, w \in Gone : v = w
  BY <1>3, <1>4, <1>5
<1>7. Losses # 0 => Losses = 1
  <2>1. \A n \in Nat : n <= 1 => n = 0 \/ n = 1
    OBVIOUS
  <2> QED  BY <1>1, <2>1
<1>8. Losses = 0 => Down = {} /\ draining = {}
  BY <1>5
<1> QED  BY <1>4, <1>5, <1>6, <1>7, <1>8

(* A loss counts one, and no other step counts.                            *)
LEMMA LossGrows ==
    ASSUME IInv, IInv',
           \/ \E w \in Workers : Die(w) \/ Drain(w)
           \/ \E s \in Sources : MapTransient(s)
           \/ UNCHANGED <<alive, draining, transients>> /\ blips' = blips + 1
    PROVE  Losses' = Losses + 1
<1>1. /\ Losses \in Nat /\ IsFiniteSet(Down) /\ IsFiniteSet(draining)
      /\ Losses = Cardinality(Down) + Cardinality(draining) + blips + transients
      /\ Cardinality(Down) \in Nat /\ Cardinality(draining) \in Nat /\ blips \in Nat /\ transients \in Nat
  BY LossFacts
<1>2. Losses' = Cardinality(Down)' + Cardinality(draining)' + blips' + transients'
  <2>1. alive' \subseteq Workers
    BY DEF IInv, MapInv, TypeOK, MapTypeOK, Workers
  <2>2. Cardinality(Workers \ alive') = W - Cardinality(alive')
    BY <2>1, UpAndDown
  <2>3. Down' = Workers \ alive'
    BY DEF Down, Workers
  <2> QED  BY <2>2, <2>3 DEF Losses
<1>3. CASE \E w \in Workers : Die(w)
  <2>1. PICK w \in Workers : w \in alive /\ alive' = alive \ {w} /\ UNCHANGED <<blips, transients, draining>>
    BY <1>3 DEF Die
  <2>2. Down' = Down \cup {w} /\ w \notin Down
    BY <2>1 DEF Down
  <2>3. Cardinality(Down)' = Cardinality(Down) + 1
    BY <1>1, <2>2, FS_AddElement
  <2> QED  BY <1>1, <1>2, <2>1, <2>3
<1>4. CASE \E w \in Workers : Drain(w)
  <2>1. PICK w \in Workers : w \notin draining /\ draining' = draining \cup {w} /\ UNCHANGED <<alive, blips, transients>>
    BY <1>4 DEF Drain
  <2>2. Cardinality(draining)' = Cardinality(draining) + 1
    BY <1>1, <2>1, FS_AddElement
  <2>3. Cardinality(Down)' = Cardinality(Down)
    BY <2>1 DEF Down
  <2> QED  BY <1>1, <1>2, <2>1, <2>2, <2>3
<1>5. CASE \E s \in Sources : MapTransient(s)
  <2>1. transients' = transients + 1 /\ UNCHANGED <<alive, blips, draining>>
    BY <1>5 DEF MapTransient
  <2> QED  BY <1>1, <1>2, <2>1 DEF Down
<1>6. CASE UNCHANGED <<alive, draining, transients>> /\ blips' = blips + 1
  BY <1>1, <1>2, <1>6 DEF Down
<1> QED  BY <1>3, <1>4, <1>5, <1>6

(* Whom the driver suspects when one thing was lost: nobody before the     *)
(* loss, nobody but a worker that died, and never two.                     *)
LEMMA SuspectFacts ==
    ASSUME IInv, OneSuspect, Losses <= 1
    PROVE  /\ \A v, w \in Workers : Suspected(v) /\ Suspected(w) => v = w
           /\ blips = 0 => \A w \in Workers : Suspected(w) => w \in Gone
           /\ Down # {} => \A w \in Workers : Suspected(w) => w \in Down
           /\ Losses = 0 => \A w \in Workers : ~ Suspected(w)
           /\ dead \subseteq Workers /\ lost \subseteq Workers /\ blips \in Nat
           /\ \A v, w \in dead \cup lost : v = w
<1>1. dead \subseteq Workers /\ lost \subseteq Workers /\ blips \in Nat /\ chunk \subseteq Buckets
  BY DEF IInv, MapInv, TypeOK, MapTypeOK, ReduceTypeOK
<1>2. blips = 0 => \A w \in Workers : Suspected(w) => w \in Gone
  <2> SUFFICES ASSUME blips = 0, NEW w \in Workers, Suspected(w) PROVE w \in Gone
    OBVIOUS
  <2>1. dead \cup lost \subseteq Gone /\ TodoGone /\ FailedGone /\ SlotGone /\ MigrateGone
    BY DEF IInv, BlameInv
  <2>2. draining \subseteq Gone
    BY DEF Gone
  <2> QED  BY <2>1, <2>2 DEF Suspected, TodoGone, FailedGone, SlotGone, MigrateGone, HostsOf
<1>3. /\ \A v, w \in Gone : v = w
      /\ Gone # {} => blips = 0 /\ transients = 0
      /\ Down # {} => draining = {}
      /\ Losses = 0 => Gone = {} /\ blips = 0
      /\ Down \subseteq Gone /\ Gone = Down \cup draining
  BY OneLossKinds
<1>4. \A v, w \in Workers : Suspected(v) /\ Suspected(w) => v = w
  <2>1. CASE blips = 0
    BY <1>2, <1>3, <2>1
  <2>2. CASE blips > 0
    BY <2>2 DEF OneSuspect
  <2> QED  BY <1>1, <2>1, <2>2
<1>5. Down # {} => \A w \in Workers : Suspected(w) => w \in Down
  BY <1>2, <1>3
<1>6. Losses = 0 => \A w \in Workers : ~ Suspected(w)
  BY <1>2, <1>3
<1>7. \A v, w \in dead \cup lost : v = w
  BY <1>1, <1>4 DEF Suspected
<1> QED  BY <1>1, <1>2, <1>4, <1>5, <1>6, <1>7

(* A step that suspects nobody new keeps it.                               *)
LEMMA NoNewSuspect ==
    ASSUME OneSuspect, blips' = blips, \A w \in Workers : Suspected(w)' => Suspected(w)
    PROVE  OneSuspect'
BY DEF OneSuspect, Workers

(* A source that cannot be reached was on the worker that died, and has no *)
(* other copy.                                                             *)
LEMMA ReachFacts ==
    ASSUME IInv, Published, Losses <= 1, phase \notin {"map", "failed", "copy"}
    PROVE  /\ \A s \in Unreachable : s \in Sources /\ replicas[s] = {} /\ host[s] \in Down
           /\ Unreachable # {} => Down # {} /\ Losses >= 1
<1>1. SUFFICES ASSUME NEW s \in Unreachable
               PROVE  s \in Sources /\ replicas[s] = {} /\ host[s] \in Down /\ Losses >= 1
  OBVIOUS
<1>2. s \in Sources /\ <<addr[s], s>> \notin holds /\ \A w \in replicas[s] : <<w, s>> \notin holds
  BY <1>1 DEF Unreachable, Candidates
<1>3. /\ \A v, w \in Gone : v = w
      /\ Down \subseteq Gone /\ (Gone # {} => Losses >= 1)
  BY OneLossKinds
<1>4. Waits = {} /\ inflight = {}
  BY DEF IInv, MapInv, BarrierOver
<1>5. addr[s] \in Down
  <2>1. addr[s] \in Workers
    BY <1>2, <1>4 DEF Published
  <2> QED  BY <1>2, <2>1 DEF IInv, HeldInv, AddrHeld, Down
<1>6. replicas[s] = {}
  <2>1. replicas[s] \subseteq Workers
    BY <1>2 DEF IInv, MapInv, TypeOK, ReduceTypeOK
  <2>2. \A w \in replicas[s] : w \in Down
    BY <1>2, <2>1 DEF IInv, HeldInv, CopyHeld, Down
  <2>3. addr[s] \notin replicas[s]
    BY <1>2 DEF Published
  <2> QED  BY <1>3, <1>5, <2>2, <2>3
<1>7. host[s] \in Down
  <2>1. host[s] \in Workers /\ (addr[s] = host[s] \/ host[s] \notin alive)
    BY <1>2, <1>4 DEF IInv, MapInv, HeldInv, Dealt, Placed
  <2> QED  BY <1>5, <2>1 DEF Down
<1> QED  BY <1>2, <1>3, <1>5, <1>6, <1>7

-----------------------------------------------------------------------------
(* One loss in the map barrier.                                            *)

(* What the reduce knows does not change while sources are mapped.         *)
LEMMA MapSurvives ==
    ASSUME IInv, Survives, phase = "map", phase' \in {"map", "probe"}, UNCHANGED reduceVars
    PROVE  /\ Evidence' /\ LaterAttempts' /\ LastAttempt'
           /\ round' = 0 /\ \A s \in Sources : replicas'[s] = {}
           /\ \A w \in Workers : Suspected(w)' => w \in dead' \/ w \in lost
<1>1. round' = round /\ replicas' = replicas /\ lost' = lost /\ round = 0 /\ \A s \in Sources : replicas[s] = {}
  BY DEF Survives, MapSpared, reduceVars
<1>2. Evidence' /\ LaterAttempts' /\ LastAttempt'
  BY <1>1 DEF Evidence, LaterAttempts, LastAttempt
<1>3. \A w \in Workers : Suspected(w)' => w \in dead' \/ w \in lost
  BY <1>1 DEF Suspected
<1> QED  BY <1>1, <1>2, <1>3

(* While no loss has shown, a free place in the window means a worker that *)
(* is idle.                                                                *)
LEMMA SomeoneIdle ==
    ASSUME IInv, OneTaskEach, phase = "map", dead = {}, transients = 0, ~ Pinned, CanSubmit
    PROVE  idle # <<>>
<1> SUFFICES ASSUME idle = <<>> PROVE FALSE
  OBVIOUS
<1>1. IdleHosts = {}
  BY DEF IdleHosts
<1>2. HostsOf(inflight) = Workers
  BY <1>1 DEF OneTaskEach
<1>3. inflight \subseteq Sources /\ sources \in Nat
  BY SourceAssumption DEF IInv, MapInv, TypeOK, MapTypeOK
<1>4. IsFiniteSet(inflight)
  <2>1. IsFiniteSet(0..(sources - 1))
    <3>1. 0 \in Int /\ sources - 1 \in Int
      BY <1>3
    <3> QED  BY <3>1, FS_Interval
  <2> QED  BY <1>3, <2>1, FS_Subset DEF Sources
<1>5. [s \in inflight |-> host[s]] \in Surjection(inflight, Workers)
  BY <1>2 DEF HostsOf, Surjection
<1>6. Cardinality(Workers) <= Cardinality(inflight)
  BY <1>4, <1>5, FS_Surjection
<1>7. Cardinality(Workers) = W /\ W \in Nat
  BY UpAndDown, FleetAssumption
<1>8. Cardinality(inflight) \in Nat /\ Cardinality(inflight) < W
  BY <1>4, FS_CardinalityType DEF CanSubmit, Window
<1> QED  BY <1>6, <1>7, <1>8

(* A worker that is dealt a source was not known to be gone.               *)
LEMMA DealtToTheLiving ==
    ASSUME W >= 2, IInv, OneSuspect, Losses <= 1, NEW src \in Sources
    PROVE  HostsFor(src) # {} /\ HostsFor(src) \cap dead = {}
<1>1. \A v, w \in dead \cup lost : v = w
  BY SuspectFacts
<1>2. \E w \in Workers : w \notin dead
  <2>1. 0 \in Workers /\ 1 \in Workers
    BY FleetAssumption DEF Workers
  <2> QED  BY <1>1, <2>1
<1>3. PickLive # {} /\ PickLive \cap dead = {}
  BY <1>2 DEF PickLive
<1>4. LiveIdle # {} => idle[NextIdle] \notin dead
  <2> SUFFICES ASSUME LiveIdle # {} PROVE idle[NextIdle] \notin dead
    OBVIOUS
  <2>1. idle \in Seq(Workers)
    BY DEF IInv, MapInv, TypeOK, MapTypeOK
  <2>2. LiveIdle \subseteq Nat
    BY <2>1 DEF LiveIdle
  <2>3. NextIdle \in LiveIdle
    BY <2>2, LeastIn DEF NextIdle
  <2> QED  BY <2>3 DEF LiveIdle
<1> QED  BY <1>3, <1>4 DEF HostsFor

(* A submission, to the first idle worker until a loss shows.              *)
LEMMA SubmitSurvives ==
    ASSUME W >= 2, IInv, Survives, Losses <= 1, Submit, UNCHANGED reduceVars
    PROVE  Survives'
<1> DEFINE src == Head(pending)
<1>1. /\ phase = "map" /\ CanSubmit /\ pending # <<>> /\ pending \in Seq(Sources) /\ WaitsOnce
      /\ MapTypeOK /\ inflight \subseteq Sources
      /\ UNCHANGED <<alive, draining, blips, transients, sources, attempts, spent, dead, addr>>
  BY DEF Submit, CanSubmit, fleetVars, IInv, MapInv, TypeOK, MapTypeOK
<1>2. src \in Sources /\ src \in Waits
  BY <1>1 DEF Waits
<1>3. HostsFor(src) # {} /\ HostsFor(src) \cap dead = {} /\ HostsFor(src) \subseteq Workers
  BY <1>1, <1>2, DealtToTheLiving, HostsAreWorkers DEF Survives
<1>4. PICK h \in HostsFor(src) :
        /\ pending' = Tail(pending) /\ inflight' = inflight \cup {src}
        /\ host' = [host EXCEPT ![src] = h]
        /\ idle' = IF Pinned THEN idle ELSE Popped
        /\ phase' = phase
  BY <1>3 DEF Submit
<1>5. /\ Sources' = Sources /\ Waits' = Waits \ {src} /\ src \notin inflight
      /\ host \in [Sources -> Nat]
  BY <1>1, <1>2, <1>4, TailWaits DEF Sources, WaitsOnce, MapTypeOK
<1>6. /\ host'[src] = h /\ (\A s \in inflight : host'[s] = host[s])
      /\ HostsOf(inflight)' = HostsOf(inflight) \cup {h}
  <2>1. host'[src] = h /\ (\A s \in inflight : host'[s] = host[s])
    BY <1>1, <1>2, <1>4, <1>5
  <2> QED  BY <1>4, <2>1 DEF HostsOf
<1> HIDE DEF src
<1>7. MapSpared'
  <2>1. round' = 0 /\ \A s \in Sources : replicas'[s] = {}
    BY <1>1, <1>4, MapSurvives
  <2>2. HostsOf(inflight)' \cap dead' = {}
    BY <1>1, <1>3, <1>4, <1>6 DEF Survives, MapSpared
  <2>3. transients = 0 => spent = 0 /\ \A s \in Sources : attempts[s] = 0
    BY <1>1 DEF Survives, MapSpared
  <2> QED  BY <1>1, <1>5, <2>1, <2>2, <2>3 DEF MapSpared
<1>8. Published'
  BY <1>1, <1>4, <1>5 DEF Survives, Published, reduceVars
<1>9. OneSuspect'
  <2>1. \A w \in Workers : Suspected(w)' => Suspected(w)
    BY <1>1, <1>4, MapSurvives DEF Suspected
  <2> QED  BY <1>1, <2>1, NoNewSuspect DEF Survives
<1>10. OneTaskEach'
  <2> SUFFICES ASSUME dead = {}, transients = 0
               PROVE  /\ \A s, t \in inflight' : host'[s] = host'[t] => s = t
                      /\ Pinned => \A s \in inflight' : host'[s] = s
                      /\ ~ Pinned => /\ \A i, j \in DOMAIN idle' : idle'[i] = idle'[j] => i = j
                                     /\ HostsOf(inflight)' \cap IdleHosts' = {}
                                     /\ HostsOf(inflight)' \cup IdleHosts' = Workers
    BY <1>1 DEF OneTaskEach, Pinned, Workers
  <2>1. /\ \A s, t \in inflight : host[s] = host[t] => s = t
        /\ Pinned => \A s \in inflight : host[s] = s
        /\ ~ Pinned => /\ \A i, j \in DOMAIN idle : idle[i] = idle[j] => i = j
                       /\ HostsOf(inflight) \cap IdleHosts = {}
                       /\ HostsOf(inflight) \cup IdleHosts = Workers
    BY <1>1 DEF Survives, OneTaskEach
  <2>2. CASE Pinned
    <3>1. h = src
      BY <1>4, <2>2 DEF HostsFor
    <3> QED  BY <1>4, <1>5, <1>6, <2>1, <2>2, <3>1
  <2>3. CASE ~ Pinned
    <3>1. idle \in Seq(Workers) /\ idle # <<>>
      BY <1>1, <2>3, SomeoneIdle DEF Survives, MapTypeOK
    <3>2. NextIdle = 1 /\ LiveIdle # {}
      <4>1. LiveIdle = 1..Len(idle) /\ Len(idle) \in Nat /\ Len(idle) >= 1
        BY <3>1 DEF LiveIdle
      <4>2. 1 \in LiveIdle /\ LiveIdle \subseteq Nat /\ \A i \in LiveIdle : i >= 1
        BY <4>1
      <4>3. Least(LiveIdle) \in LiveIdle /\ \A y \in LiveIdle : Least(LiveIdle) <= y
        BY <4>2, LeastIn
      <4>4. Least(LiveIdle) \in Nat /\ Least(LiveIdle) >= 1 /\ Least(LiveIdle) <= 1
        BY <4>2, <4>3
      <4>5. \A n \in Nat : n >= 1 /\ n <= 1 => n = 1
        OBVIOUS
      <4>6. Least(LiveIdle) = 1
        BY <4>4, <4>5
      <4> QED  BY <4>2, <4>6 DEF NextIdle
    <3>3. h = idle[1] /\ idle' = SubSeq(idle, 2, Len(idle))
      BY <1>4, <2>3, <3>2 DEF HostsFor, Popped
    <3>4. /\ DOMAIN idle = 1..Len(idle) /\ Len(idle) \in Nat /\ Len(idle) >= 1
          /\ DOMAIN idle' = 1..(Len(idle) - 1)
          /\ \A i \in 1..(Len(idle) - 1) : idle'[i] = idle[i + 1]
      BY <3>1, <3>3
    <3>5. \A i, j \in DOMAIN idle' : idle'[i] = idle'[j] => i = j
      BY <2>1, <2>3, <3>4
    <3>6. IdleHosts' = IdleHosts \ {h}
      <4>1. ASSUME NEW w \in IdleHosts' PROVE w \in IdleHosts /\ w # h
        <5>1. PICK i \in 1..(Len(idle) - 1) : w = idle[i + 1]
          BY <3>4, <4>1 DEF IdleHosts
        <5>2. i + 1 \in DOMAIN idle /\ i + 1 # 1 /\ 1 \in DOMAIN idle
          BY <3>4
        <5> QED  BY <2>1, <2>3, <3>3, <5>1, <5>2 DEF IdleHosts
      <4>2. ASSUME NEW w \in IdleHosts, w # h PROVE w \in IdleHosts'
        <5>1. PICK i \in DOMAIN idle : w = idle[i]
          BY <4>2 DEF IdleHosts
        <5>2. i - 1 \in DOMAIN idle' /\ i - 1 + 1 = i
          BY <3>3, <3>4, <4>2, <5>1
        <5> QED  BY <3>4, <5>1, <5>2 DEF IdleHosts
      <4> QED  BY <4>1, <4>2
    <3>7. h \in IdleHosts
      BY <3>3, <3>4 DEF IdleHosts
    <3>8. \A s \in inflight : host[s] # h
      BY <2>1, <2>3, <3>7 DEF HostsOf
    <3>9. \A s, t \in inflight' : host'[s] = host'[t] => s = t
      BY <1>4, <1>6, <2>1, <3>8
    <3>10. HostsOf(inflight)' \cap IdleHosts' = {} /\ HostsOf(inflight)' \cup IdleHosts' = Workers
      BY <1>6, <2>1, <2>3, <3>6, <3>7
    <3> QED  BY <2>3, <3>5, <3>9, <3>10
  <2> QED  BY <2>2, <2>3
<1> QED  BY <1>1, <1>4, <1>7, <1>8, <1>9, <1>10, MapSurvives DEF Survives

(* What the map barrier has to show when it goes on.                       *)
LEMMA MapTogether ==
    ASSUME IInv, Survives, phase = "map", UNCHANGED <<phase, sources, reduceVars>>,
           transients' # 0 \/ UNCHANGED <<transients, attempts, spent>>,
           OneTaskEach', Published', OneSuspect', HostsOf(inflight)' \cap dead' = {}
    PROVE  Survives'
<1>1. /\ Evidence' /\ LaterAttempts' /\ LastAttempt'
      /\ round' = 0 /\ \A s \in Sources : replicas'[s] = {}
  BY MapSurvives
<1>2. transients = 0 => spent = 0 /\ \A s \in Sources : attempts[s] = 0
  BY DEF Survives, MapSpared
<1>3. MapSpared'
  BY <1>1, <1>2 DEF MapSpared, Sources
<1> QED  BY <1>1, <1>3 DEF Survives

(* A worker finishes a source.                                             *)
LEMMA MapFinishSurvives ==
    ASSUME IInv, Survives, NEW s \in Sources, MapFinish(s), UNCHANGED reduceVars
    PROVE  Survives'
<1>1. /\ phase = "map"
      /\ UNCHANGED <<phase, alive, blips, transients, draining, sources, pending, inflight,
                     attempts, spent, dead, idle, host, addr>>
  BY DEF MapFinish
<1>2. OneTaskEach' /\ Published' /\ HostsOf(inflight)' \cap dead' = {}
  BY <1>1 DEF Survives, OneTaskEach, MapSpared, Published, HostsOf, IdleHosts, Workers, Pinned, Sources,
     Waits, reduceVars
<1>3. OneSuspect'
  <2>1. \A w \in Workers : Suspected(w)' => Suspected(w)
    BY <1>1, MapSurvives DEF Suspected
  <2> QED  BY <1>1, <2>1, NoNewSuspect DEF Survives
<1> QED  BY <1>1, <1>2, <1>3, MapTogether

(* The driver takes a reply, and the worker is idle again.                 *)
LEMMA MapDoneSurvives ==
    ASSUME IInv, Survives, NEW s \in Sources, MapDone(s), UNCHANGED reduceVars
    PROVE  Survives'
<1>1. /\ phase = "map" /\ s \in inflight /\ inflight' = inflight \ {s}
      /\ addr' = [addr EXCEPT ![s] = host[s]]
      /\ idle' = IF Pinned \/ host[s] \in dead THEN idle ELSE Append(idle, host[s])
      /\ UNCHANGED <<phase, alive, blips, transients, draining, sources, pending,
                     attempts, spent, dead, host>>
      /\ UNCHANGED <<replicas, round, lost>>
  BY DEF MapDone, Collecting, fleetVars, reduceVars
<1>2. /\ addr \in [Sources -> Workers \cup {NoAddr}] /\ idle \in Seq(Workers) /\ inflight \subseteq Sources
      /\ host[s] \in Workers
  BY <1>1 DEF IInv, MapInv, TypeOK, MapTypeOK, WaitsOnce, Dealt
<1>3. /\ HostsOf(inflight)' = {host[t] : t \in inflight \ {s}}
      /\ HostsOf(inflight)' \subseteq HostsOf(inflight) /\ host[s] \in HostsOf(inflight)
  BY <1>1 DEF HostsOf
<1>4. HostsOf(inflight)' \cap dead' = {}
  BY <1>1, <1>3 DEF Survives, MapSpared
<1>5. Published'
  <2>1. \A t \in Sources : replicas'[t] = {}
    BY <1>1, MapSurvives
  <2>2. ASSUME NEW t \in Sources
        PROVE  t \in Waits \cup (inflight \ {s}) \/ addr'[t] \in Workers
    BY <1>1, <1>2 DEF Survives, Published
  <2>3. Waits' = Waits /\ Sources' = Sources /\ Workers' = Workers
    BY <1>1 DEF Waits, Sources, Workers
  <2> QED  BY <1>1, <2>1, <2>2, <2>3 DEF Published
<1>6. OneSuspect'
  <2>1. \A w \in Workers : Suspected(w)' => Suspected(w)
    BY <1>1, MapSurvives DEF Suspected
  <2> QED  BY <1>1, <2>1, NoNewSuspect DEF Survives
<1>7. OneTaskEach'
  <2> SUFFICES ASSUME dead = {}, transients = 0
               PROVE  /\ \A r, t \in inflight' : host'[r] = host'[t] => r = t
                      /\ Pinned => \A t \in inflight' : host'[t] = t
                      /\ ~ Pinned => /\ \A i, j \in DOMAIN idle' : idle'[i] = idle'[j] => i = j
                                     /\ HostsOf(inflight)' \cap IdleHosts' = {}
                                     /\ HostsOf(inflight)' \cup IdleHosts' = Workers
    BY <1>1 DEF OneTaskEach, Pinned, Workers
  <2>1. /\ \A r, t \in inflight : host[r] = host[t] => r = t
        /\ Pinned => \A t \in inflight : host[t] = t
        /\ ~ Pinned => /\ \A i, j \in DOMAIN idle : idle[i] = idle[j] => i = j
                       /\ HostsOf(inflight) \cap IdleHosts = {}
                       /\ HostsOf(inflight) \cup IdleHosts = Workers
    BY <1>1 DEF Survives, OneTaskEach
  <2>2. ASSUME ~ Pinned
        PROVE  /\ \A i, j \in DOMAIN idle' : idle'[i] = idle'[j] => i = j
               /\ HostsOf(inflight)' \cap IdleHosts' = {}
               /\ HostsOf(inflight)' \cup IdleHosts' = Workers
    <3>1. /\ idle' = Append(idle, host[s]) /\ DOMAIN idle = 1..Len(idle) /\ Len(idle) \in Nat
          /\ DOMAIN idle' = 1..(Len(idle) + 1) /\ idle'[Len(idle) + 1] = host[s]
          /\ \A i \in 1..Len(idle) : idle'[i] = idle[i]
      BY <1>1, <1>2, <2>2
    <3>2. IdleHosts' = IdleHosts \cup {host[s]}
      <4>1. \A i \in DOMAIN idle' : i \in DOMAIN idle \/ i = Len(idle) + 1
        BY <3>1
      <4>2. IdleHosts' \subseteq IdleHosts \cup {host[s]}
        BY <3>1, <4>1 DEF IdleHosts
      <4>3. IdleHosts \subseteq IdleHosts'
        BY <3>1 DEF IdleHosts
      <4>4. host[s] \in IdleHosts'
        BY <3>1 DEF IdleHosts
      <4> QED  BY <4>2, <4>3, <4>4
    <3>3. host[s] \notin IdleHosts
      BY <1>3, <2>1, <2>2
    <3>4. \A i \in DOMAIN idle : idle[i] # host[s]
      BY <3>3 DEF IdleHosts
    <3>5. \A i, j \in DOMAIN idle' : idle'[i] = idle'[j] => i = j
      BY <2>1, <2>2, <3>1, <3>4
    <3>6. HostsOf(inflight)' = HostsOf(inflight) \ {host[s]}
      BY <1>1, <1>3, <2>1 DEF HostsOf
    <3> QED  BY <2>1, <2>2, <3>2, <3>3, <3>5, <3>6, <1>3
  <2> QED  BY <1>1, <2>1, <2>2
<1> QED  BY <1>1, <1>4, <1>5, <1>6, <1>7, MapTogether

(* The first loss of the map is not charged to the source, and no other    *)
(* task was with that worker.                                              *)
LEMMA MapLostSurvives ==
    ASSUME IInv, IInv', Survives, Losses <= 1, Losses' <= 1, NEW s \in Sources, MapLost(s),
           UNCHANGED reduceVars
    PROVE  Survives'
<1>1. /\ phase = "map" /\ s \in inflight /\ inflight' = inflight \ {s} /\ dead' = dead \cup {host[s]}
      /\ UNCHANGED <<alive, transients, draining, sources, idle, host, addr, reduceVars, replicas, lost>>
  BY DEF MapLost, Collecting, Blame, reduceVars
<1>2. host[s] \notin dead /\ host[s] \in Workers /\ s \notin Waits
  BY <1>1 DEF Survives, MapSpared, HostsOf, IInv, MapInv, TypeOK, MapTypeOK, WaitsOnce, Dealt
<1>3. pending' = <<s>> \o pending /\ UNCHANGED <<phase, attempts, spent>>
  BY <1>2 DEF MapLost
<1>4. \/ host[s] \in Down /\ UNCHANGED blips
      \/ blips' = blips + 1
  BY <1>2 DEF MapLost, Down
<1>5. \/ host[s] \in Down /\ blips = 0 /\ UNCHANGED blips
      \/ Losses = 0
  <2>1. CASE host[s] \in Down /\ UNCHANGED blips
    <3>1. Gone # {}
      BY <2>1, OneLossKinds
    <3> QED  BY <2>1, <3>1, OneLossKinds
  <2>2. CASE blips' = blips + 1
    <3>1. Losses' = Losses + 1 /\ Losses \in Nat
      BY <1>1, <2>2, LossGrows, LossFacts
    <3> QED  BY <3>1
  <2> QED  BY <1>4, <2>1, <2>2
<1>6. transients = 0 /\ dead = {} /\ (Losses = 0 => lost = {})
  <2>1. dead \subseteq Workers /\ lost \subseteq Workers
    BY SuspectFacts DEF Survives
  <2>2. \A w \in dead \cup lost : Suspected(w)
    BY DEF Suspected
  <2>3. CASE host[s] \in Down
    <3>1. Gone # {} /\ host[s] \in Gone /\ (\A v, w \in Gone : v = w) /\ transients = 0 /\ Down \subseteq Gone
          /\ Losses # 0
      BY <2>3, OneLossKinds
    <3>2. \A w \in dead : w \in Down
      BY <2>1, <2>2, <2>3, SuspectFacts DEF Survives
    <3> QED  BY <1>2, <3>1, <3>2
  <2>4. CASE Losses = 0
    <3>1. transients = 0 /\ \A w \in Workers : ~ Suspected(w)
      BY <2>4, OneLossKinds, SuspectFacts DEF Survives
    <3> QED  BY <2>1, <2>2, <3>1
  <2> QED  BY <1>5, <2>3, <2>4
<1>7. HostsOf(inflight)' \cap dead' = {}
  <2>1. \A r, t \in inflight : host[r] = host[t] => r = t
    BY <1>1, <1>6 DEF Survives, OneTaskEach
  <2> QED  BY <1>1, <1>6, <2>1 DEF HostsOf
<1>8. OneTaskEach'
  BY <1>1 DEF OneTaskEach
<1>9. Published'
  <2>1. Waits' = Waits \cup {s} /\ Sources' = Sources
    BY <1>1, <1>2, <1>3, RequeueWaits DEF IInv, MapInv, TypeOK, MapTypeOK, Sources
  <2>2. \A t \in Sources : t \in Waits \cup inflight \/ addr[t] \in Workers
    BY DEF Survives, Published
  <2>3. \A t \in Sources : addr[t] \notin replicas[t]
    BY DEF Survives, Published
  <2> QED  BY <1>1, <2>1, <2>2, <2>3 DEF Published, Workers
<1>10. OneSuspect'
  <2>1. CASE blips' = 0
    BY <2>1 DEF OneSuspect
  <2>2. CASE Losses = 0
    <3>1. \A w \in Workers : Suspected(w)' => w = host[s]
      BY <1>1, <1>3, <1>6, <2>2, MapSurvives
    <3> QED  BY <3>1 DEF OneSuspect, Workers
  <2> QED  BY <1>5, <2>1, <2>2
<1> QED  BY <1>1, <1>3, <1>7, <1>8, <1>9, <1>10, MapTogether

(* A first retryable error is within the budgets.                          *)
LEMMA MapTransientSurvives ==
    ASSUME Allowance >= 1, IInv, IInv', Survives, Losses <= 1, Losses' <= 1, NEW s \in Sources,
           MapTransient(s), UNCHANGED reduceVars
    PROVE  Survives'
<1>1. /\ phase = "map" /\ s \in inflight /\ inflight' = inflight \ {s} /\ transients' = transients + 1
      /\ Retry(s)
      /\ UNCHANGED <<alive, blips, draining, sources, dead, idle, host, addr, reduceVars, replicas, lost>>
  BY DEF MapTransient, Collecting, reduceVars
<1>2. s \notin Waits
  BY <1>1 DEF IInv, MapInv, WaitsOnce
<1>3. Losses = 0
  <2>1. Losses' = Losses + 1 /\ Losses \in Nat
    BY LossGrows, LossFacts
  <2> QED  BY <2>1
<1>4. transients = 0
  BY <1>3, OneLossKinds
<1>5. spent = 0 /\ attempts[s] = 0
  BY <1>1, <1>4 DEF Survives, MapSpared
<1>6. ~ (attempts[s] + 1 > MaxAttempts \/ spent + 1 > Allowance)
  BY <1>5, AttemptAssumption
<1>7. pending' = <<s>> \o pending /\ UNCHANGED phase
  BY <1>1, <1>6 DEF Retry
<1>8. HostsOf(inflight)' \cap dead' = {}
  BY <1>1 DEF Survives, MapSpared, HostsOf
<1>9. OneTaskEach' /\ transients' # 0
  BY <1>1, <1>4 DEF OneTaskEach
<1>10. Published'
  <2>1. Waits' = Waits \cup {s} /\ Sources' = Sources
    BY <1>1, <1>2, <1>7, RequeueWaits DEF IInv, MapInv, TypeOK, MapTypeOK, Sources
  <2>2. \A t \in Sources : t \in Waits \cup inflight \/ addr[t] \in Workers
    BY DEF Survives, Published
  <2>3. \A t \in Sources : addr[t] \notin replicas[t]
    BY DEF Survives, Published
  <2> QED  BY <1>1, <2>1, <2>2, <2>3 DEF Published, Workers
<1>11. OneSuspect'
  <2>1. \A w \in Workers : Suspected(w)' => Suspected(w)
    BY <1>1, <1>7, MapSurvives DEF Suspected
  <2> QED  BY <1>1, <2>1, NoNewSuspect DEF Survives
<1> QED  BY <1>1, <1>7, <1>8, <1>9, <1>10, <1>11, MapTogether

(* What the reduce has to show when it goes on.                            *)
LEMMA ReduceTogether ==
    ASSUME phase' \notin {"map", "failed"}, Published', OneSuspect', Evidence', LaterAttempts', LastAttempt'
    PROVE  Survives'
BY DEF Survives, OneTaskEach, MapSpared

(* The barrier ends with every source published.                           *)
LEMMA EndMapSurvives ==
    ASSUME IInv, Survives, EndMap, UNCHANGED reduceVars
    PROVE  Survives'
<1>1. /\ phase = "map" /\ phase' = "probe"
      /\ UNCHANGED <<blips, sources, pending, inflight, dead, host, addr, replicas, lost>>
  BY DEF EndMap, fleetVars, barrierVars, reduceVars
<1>2. Published'
  BY <1>1 DEF Survives, Published, Waits, Sources, Workers
<1>3. OneSuspect'
  <2>1. \A w \in Workers : Suspected(w)' => Suspected(w)
    BY <1>1, MapSurvives DEF Suspected
  <2> QED  BY <1>1, <2>1, NoNewSuspect DEF Survives
<1> QED  BY <1>1, <1>2, <1>3, MapSurvives, ReduceTogether

(* A worker dies or is drained: the first loss, so nothing was given up    *)
(* before it.                                                              *)
LEMMA FaultSurvives ==
    ASSUME IInv, IInv', Survives, Losses <= 1, Losses' <= 1, NEW w \in Workers, Die(w) \/ Drain(w),
           UNCHANGED reduceVars
    PROVE  Survives'
<1>1. /\ UNCHANGED <<phase, blips, transients, sources, pending, inflight, attempts, spent, dead, idle,
                     host, addr>>
      /\ UNCHANGED <<replicas, lost, round, todo, queue, chunk, copies, slot, failed, done>>
  BY DEF Die, Drain, barrierVars, reduceVars
<1>2. Losses = 0
  <2>1. Losses' = Losses + 1 /\ Losses \in Nat
    BY LossGrows, LossFacts
  <2> QED  BY <2>1
<1>3. /\ round \in Nat /\ Evidence /\ ~ (0 >= 1)
  BY DEF IInv, MapInv, TypeOK, ReduceTypeOK, Survives
<1>4. round = 0 /\ phase # "recompute"
  BY <1>2, <1>3 DEF Evidence
<1>5. /\ phase \in {"launch", "reduce"} => ~ Missed
      /\ phase = "reduce" => \A b \in chunk : /\ slot[b].kind \notin {"retry", "dead"}
                                              /\ slot[b].kind = "none" => slot[b] = Waiting
  BY <1>2, <1>3 DEF Evidence
<1>6. Missed' = Missed
  BY <1>1 DEF Missed, Dropped, Buckets, NoResult
<1>7. Evidence' /\ LaterAttempts' /\ LastAttempt'
  BY <1>1, <1>4, <1>5, <1>6 DEF Evidence, LaterAttempts, LastAttempt, Waiting
<1>8. OneSuspect'
  <2>1. \A v \in Workers : Suspected(v)' => Suspected(v)
    BY <1>1 DEF Suspected, HostsOf
  <2> QED  BY <1>1, <2>1, NoNewSuspect DEF Survives
<1>9. OneTaskEach' /\ MapSpared' /\ Published'
  BY <1>1 DEF Survives, OneTaskEach, MapSpared, Published, HostsOf, IdleHosts, Workers, Pinned, Sources, Waits
<1> QED  BY <1>1, <1>7, <1>8, <1>9 DEF Survives

-----------------------------------------------------------------------------
(* One loss in the reduce.                                                 *)

(* The phases in which nothing has been given up yet.                      *)
LEMMA EarlyTogether ==
    ASSUME Evidence, UNCHANGED round, phase \in {"probe", "copy", "ready", "migrate"},
           phase' \in {"probe", "copy", "ready", "migrate"}
    PROVE  Evidence' /\ LaterAttempts' /\ LastAttempt'
<1>1. round' = 0
  BY DEF Evidence
<1> QED  BY <1>1 DEF Evidence, LaterAttempts, LastAttempt

(* The probe suspects nobody.                                              *)
LEMMA ProbeSurvives ==
    ASSUME IInv, Survives, Probe
    PROVE  Survives'
<1>1. /\ phase = "probe" /\ phase' = "copy"
      /\ UNCHANGED <<blips, sources, pending, inflight, dead, addr, replicas, lost, round>>
  BY DEF Probe, fleetVars, barrierVars
<1>2. Published'
  BY <1>1 DEF Survives, Published, Waits, Sources, Workers
<1>3. OneSuspect'
  <2>1. \A w \in Workers : Suspected(w)' => Suspected(w)
    BY <1>1 DEF Suspected
  <2> QED  BY <1>1, <2>1, NoNewSuspect DEF Survives
<1>4. Evidence' /\ LaterAttempts' /\ LastAttempt'
  BY <1>1, EarlyTogether DEF Survives
<1> QED  BY <1>1, <1>2, <1>3, <1>4, ReduceTogether

(* A copy is never placed with the primary.                                *)
LEMMA AssignReplicaSurvives ==
    ASSUME IInv, Survives, AssignReplica
    PROVE  Survives'
<1>1. /\ phase = "copy" /\ phase' = "copy"
      /\ UNCHANGED <<blips, sources, pending, inflight, dead, addr, lost, round>>
  BY DEF AssignReplica, fleetVars, barrierVars
<1>2. \A s \in Sources : addr[s] \notin replicas'[s]
  <2>1. PICK best : /\ addr[Least(todo)] \notin best
                    /\ replicas' = [replicas EXCEPT ![Least(todo)] = best]
    BY DEF AssignReplica
  <2>2. replicas \in [Sources -> SUBSET Workers]
    BY DEF IInv, MapInv, TypeOK, ReduceTypeOK
  <2> QED  BY <2>1, <2>2 DEF Survives, Published
<1>3. Published'
  BY <1>1, <1>2 DEF Survives, Published, Waits, Sources, Workers
<1>4. OneSuspect'
  <2>1. \A w \in Workers : Suspected(w)' => Suspected(w)
    BY <1>1 DEF Suspected
  <2> QED  BY <1>1, <2>1, NoNewSuspect DEF Survives
<1>5. Evidence' /\ LaterAttempts' /\ LastAttempt'
  BY <1>1, EarlyTogether DEF Survives
<1> QED  BY <1>1, <1>3, <1>4, <1>5, ReduceTogether

(* The copies advertised are among those asked for.                        *)
LEMMA CopySurvives ==
    ASSUME IInv, Survives, Copy
    PROVE  Survives'
<1>1. /\ phase = "copy" /\ phase' = "ready" /\ replicas' = [s \in Sources |-> Acked(s)]
      /\ UNCHANGED <<blips, sources, pending, inflight, dead, addr, lost, round>>
  BY DEF Copy, barrierVars
<1>2. \A s \in Sources : replicas'[s] \subseteq replicas[s]
  BY <1>1 DEF Acked
<1>3. Published'
  BY <1>1, <1>2 DEF Survives, Published, Waits, Sources, Workers
<1>4. OneSuspect'
  <2>1. \A w \in Workers : Suspected(w)' => Suspected(w)
    BY <1>1 DEF Suspected
  <2> QED  BY <1>1, <2>1, NoNewSuspect DEF Survives
<1>5. Evidence' /\ LaterAttempts' /\ LastAttempt'
  BY <1>1, EarlyTogether DEF Survives
<1> QED  BY <1>1, <1>3, <1>4, <1>5, ReduceTogether

(* The reduce starts: a drained worker is the one loss, or there is none.  *)
LEMMA StartReduceSurvives ==
    ASSUME IInv, Survives, Losses <= 1, StartReduce
    PROVE  Survives'
<1>1. /\ phase = "ready" /\ phase' = "migrate" /\ lost' = dead
      /\ todo' = UNION {SourcesOn(w) : w \in draining}
      /\ UNCHANGED <<blips, sources, pending, inflight, dead, host, addr, replicas, round>>
  BY DEF StartReduce, fleetVars, barrierVars
<1>2. Published'
  BY <1>1 DEF Survives, Published, Waits, Sources, Workers
<1>3. OneSuspect'
  <2>1. CASE blips > 0
    <3>1. draining = {}
      BY <2>1, OneLossKinds DEF Gone
    <3>2. todo' = {}
      BY <1>1, <3>1
    <3>3. \A w \in Workers : Suspected(w)' => Suspected(w)
      BY <1>1, <3>2 DEF Suspected, HostsOf
    <3> QED  BY <1>1, <3>3, NoNewSuspect DEF Survives
  <2>2. CASE ~ (blips > 0)
    BY <1>1, <2>2 DEF OneSuspect
  <2> QED  BY <2>1, <2>2
<1>4. Evidence' /\ LaterAttempts' /\ LastAttempt'
  BY <1>1, EarlyTogether DEF Survives
<1> QED  BY <1>1, <1>2, <1>3, <1>4, ReduceTogether

(* A source is recomputed: its worker is the one suspect, so another takes *)
(* it, and that one is up.                                                 *)
LEMMA RecomputeSurvives ==
    ASSUME W >= 2, IInv, Survives, Losses <= 1, Recompute
    PROVE  Survives'
<1> DEFINE src == Least(todo)
           nowLost == lost \cup {HostOf(src)}
           targets == {w \in Workers : w \notin nowLost}
           target == Least(targets)
<1>1. /\ phase \in {"migrate", "recompute"} /\ todo # {} /\ lost' = nowLost
      /\ UNCHANGED <<alive, blips, transients, draining, sources, pending, inflight, dead, round>>
      /\ \/ /\ SurvivesOnPeer(src, nowLost) /\ todo' = todo \ {src}
            /\ UNCHANGED <<phase, replicas, host, addr, holds>>
         \/ targets = {}
         \/ target \notin alive
         \/ /\ targets # {} /\ host' = [host EXCEPT ![src] = target]
            /\ replicas' = [replicas EXCEPT ![src] = {}]
            /\ addr' = [addr EXCEPT ![src] = target] /\ holds' = holds \cup {<<target, src>>}
            /\ todo' = todo \ {src} /\ UNCHANGED phase
  BY DEF Recompute
<1>2. /\ todo \subseteq Sources /\ lost \subseteq Workers /\ Waits = {} /\ inflight = {}
      /\ host \in [Sources -> Nat] /\ addr \in [Sources -> Workers \cup {NoAddr}]
      /\ replicas \in [Sources -> SUBSET Workers] /\ \A s \in Sources : host[s] \in Workers
  BY <1>1 DEF IInv, MapInv, TypeOK, MapTypeOK, ReduceTypeOK, BarrierOver, Dealt
<1>3. src \in todo /\ src \in Sources
  <2>1. todo \subseteq Nat
    BY <1>2 DEF Sources
  <2> QED  BY <1>1, <1>2, <2>1, LeastIn
<1>4. /\ HostOf(src) = host[src] /\ host[src] \in Workers /\ Suspected(host[src])
      /\ \A w \in nowLost : w = host[src]
  <2>1. HostOf(src) = host[src] /\ host[src] \in Workers /\ Suspected(host[src])
    BY <1>1, <1>2, <1>3 DEF HostOf, Suspected, HostsOf
  <2>2. \A w \in lost : Suspected(w)
    BY DEF Suspected
  <2> QED  BY <1>2, <2>1, <2>2, SuspectFacts DEF Survives
<1>5. Down \subseteq {host[src]}
  <2> SUFFICES ASSUME NEW d \in Down PROVE d = host[src]
    OBVIOUS
  <2>1. Down # {} /\ d \in Gone /\ draining = {} /\ (\A v, w \in Gone : v = w) /\ Gone = Down \cup draining
    BY OneLossKinds
  <2>2. host[src] \in Down
    BY <1>4, <2>1, SuspectFacts DEF Survives
  <2> QED  BY <2>1, <2>2
<1> HIDE DEF src
<1>6. targets # {} /\ target \in Workers /\ target \in alive /\ target # host[src]
  <2>1. targets # {}
    <3>1. 0 \in Workers /\ 1 \in Workers
      BY FleetAssumption DEF Workers
    <3> QED  BY <1>4, <3>1
  <2>2. targets \subseteq Nat
    BY FleetAssumption DEF Workers
  <2>3. target \in targets
    BY <2>1, <2>2, LeastIn
  <2>4. target \in Workers /\ target # host[src]
    BY <1>4, <2>3
  <2> QED  BY <1>5, <2>1, <2>4 DEF Down
<1> HIDE DEF target
<1>7. UNCHANGED phase /\ todo' = todo \ {src}
  BY <1>1, <1>6
<1>8. Sources' = Sources /\ Waits' = Waits /\ Down' = Down
  BY <1>1 DEF Sources, Waits, Down, Workers
<1>9. \A s \in Sources \ {src} : host'[s] = host[s] /\ addr'[s] = addr[s] /\ replicas'[s] = replicas[s]
  BY <1>1, <1>2, <1>6
<1>10. Published'
  <2>1. \A s \in Sources : addr[s] \in Workers /\ addr[s] \notin replicas[s]
    BY <1>2 DEF Survives, Published
  <2>2. addr'[src] \in Workers /\ addr'[src] \notin replicas'[src]
    BY <1>1, <1>2, <1>3, <1>6, <2>1
  <2> QED  BY <1>8, <1>9, <2>1, <2>2 DEF Published, Workers
<1>11. OneSuspect'
  <2>1. HostsOf(todo)' \subseteq HostsOf(todo)
    BY <1>2, <1>7, <1>9 DEF HostsOf
  <2>2. \A w \in Workers : Suspected(w)' => Suspected(w)
    BY <1>1, <1>4, <1>7, <2>1 DEF Suspected
  <2> QED  BY <1>1, <2>2, NoNewSuspect DEF Survives
<1>12. Evidence'
  <2>1. round >= 1 => Losses >= 1
    BY DEF Survives, Evidence
  <2>2. Losses' = Losses
    BY <1>1 DEF Losses
  <2>3. Down' \subseteq lost'
    BY <1>1, <1>4, <1>5, <1>8
  <2>4. /\ phase = "recompute" => round >= 1
        /\ phase = "migrate" => round = 0
    BY DEF Survives, Evidence
  <2> QED  BY <1>1, <1>7, <2>1, <2>2, <2>3, <2>4 DEF Evidence
<1>13. LaterAttempts'
  BY <1>1, <1>7 DEF LaterAttempts
<1>14. LastAttempt'
  <2>1. SUFFICES ASSUME round = 2, phase = "recompute" PROVE Unreachable' \subseteq todo \ {src}
    BY <1>1, <1>7 DEF Survives, LastAttempt
  <2>2. Unreachable \subseteq todo
    BY <2>1 DEF Survives, LastAttempt
  <2>3. CASE SurvivesOnPeer(src, nowLost) /\ UNCHANGED <<replicas, host, addr, holds>>
    <3>1. Unreachable' = Unreachable
      BY <1>8, <2>3 DEF Unreachable, Candidates
    <3>2. src \notin Unreachable
      <4>1. replicas[src] # {}
        BY <2>3 DEF SurvivesOnPeer
      <4> QED  BY <1>1, <4>1, ReachFacts DEF Survives
    <3> QED  BY <2>2, <3>1, <3>2
  <2>4. CASE /\ addr' = [addr EXCEPT ![src] = target]
             /\ holds' = holds \cup {<<target, src>>}
    <3>1. addr'[src] = target
      BY <1>2, <1>3, <2>4
    <3>2. src \notin Unreachable'
      BY <2>4, <3>1 DEF Unreachable, Candidates
    <3>3. ASSUME NEW s \in Unreachable' PROVE s \in Unreachable
      <4>1. s \in Sources \ {src}
        BY <1>8, <3>2, <3>3 DEF Unreachable
      <4>2. \A w \in Candidates(s) : <<w, s>> \notin holds
        BY <1>9, <2>4, <3>3, <4>1 DEF Unreachable, Candidates
      <4> QED  BY <4>1, <4>2 DEF Unreachable
    <3> QED  BY <2>2, <3>2, <3>3
  <2> QED  BY <1>1, <1>6, <2>3, <2>4
<1> QED  BY <1>1, <1>7, <1>10, <1>11, <1>12, <1>13, <1>14, ReduceTogether

(* An attempt starts with nothing given up, and whoever died written off.  *)
LEMMA NextAttemptSurvives ==
    ASSUME IInv, Survives, NextAttempt
    PROVE  Survives'
<1>1. /\ phase \in {"migrate", "recompute"} /\ todo = {} /\ phase' = "launch"
      /\ queue' = {b \in Buckets : done[b] = NoResult} /\ failed' = {}
      /\ UNCHANGED <<alive, holds, blips, transients, draining, sources, pending, inflight, dead, host,
                     addr, replicas, lost, round, chunk, done>>
  BY DEF NextAttempt, fleetVars, barrierVars
<1>2. Published'
  BY <1>1 DEF Survives, Published, Waits, Sources, Workers
<1>3. OneSuspect'
  <2>1. \A w \in Workers : Suspected(w)' => Suspected(w)
    BY <1>1 DEF Suspected, HostsOf
  <2> QED  BY <1>1, <2>1, NoNewSuspect DEF Survives
<1>4. ~ Missed'
  BY <1>1 DEF Missed, Dropped, Buckets, NoResult
<1>5. /\ round >= 1 => Losses >= 1 /\ Down \subseteq lost
      /\ phase = "migrate" => round = 0
      /\ Losses' = Losses /\ Down' = Down /\ Unreachable' = Unreachable
  <2>1. round >= 1 => phase = "recompute"
    BY <1>1 DEF Survives, Evidence
  <2>2. HostsOf(todo) = {}
    BY <1>1 DEF HostsOf
  <2>3. Losses' = Losses /\ Down' = Down /\ Unreachable' = Unreachable
    BY <1>1 DEF Losses, Down, Workers, Unreachable, Candidates, Sources
  <2> QED  BY <2>1, <2>2, <2>3 DEF Survives, Evidence
<1>6. Evidence' /\ LaterAttempts'
  BY <1>1, <1>4, <1>5 DEF Evidence, LaterAttempts
<1>7. LastAttempt'
  <2>1. round <= 2 /\ (round = 2 => phase = "recompute")
    BY <1>1, <1>5 DEF Survives, LastAttempt
  <2>2. round = 2 => Unreachable = {}
    BY <1>1, <2>1 DEF Survives, LastAttempt
  <2> QED  BY <1>1, <1>5, <2>1, <2>2 DEF LastAttempt
<1> QED  BY <1>1, <1>2, <1>3, <1>6, <1>7, ReduceTogether

(* A reduce is sent to a worker that is not written off.                   *)
LEMMA HostForUsable ==
    ASSUME NEW b, NEW avoid
    PROVE  HostFor(b, avoid) \subseteq Workers \ (lost \cup avoid)
<1> DEFINE usable == Workers \ (lost \cup avoid)
<1>1. usable # {} => Least(usable) \in usable
  <2>1. usable \subseteq Nat
    BY FleetAssumption DEF Workers
  <2> QED  BY <2>1, LeastIn
<1> QED  BY <1>1 DEF HostFor

(* A window is launched: somebody is left to run it.                       *)
LEMMA LaunchChunkSurvives ==
    ASSUME W >= 2, IInv, Survives, Losses <= 1, LaunchChunk
    PROVE  Survives'
<1>1. /\ phase = "launch" /\ chunk = {}
      /\ UNCHANGED <<alive, holds, blips, transients, draining, sources, pending, inflight, dead, host,
                     addr, replicas, lost, round, todo, failed, done>>
  BY DEF LaunchChunk, fleetVars, barrierVars, IInv, WindowUndone
<1>2. Workers \ lost # {}
  <2>1. 0 \in Workers /\ 1 \in Workers
    BY FleetAssumption DEF Workers
  <2>2. \A v, w \in lost : v = w
    BY SuspectFacts DEF Survives
  <2> QED  BY <2>1, <2>2
<1>3. /\ phase' = "reduce" /\ chunk' = NextChunk /\ queue' = queue \ NextChunk
      /\ copies' = [b \in Buckets |->
                       IF b \notin NextChunk THEN {}
                       ELSE {[host |-> h, backup |-> FALSE, gone |-> Unreachable] : h \in HostFor(b, {})}]
      /\ slot' = [b \in Buckets |-> Waiting]
  BY <1>2 DEF LaunchChunk
<1>4. NextChunk \subseteq queue /\ queue \subseteq Buckets
  BY DEF NextChunk, IInv, MapInv, TypeOK, ReduceTypeOK
<1>5. \A b \in chunk' : slot'[b] = Waiting /\ slot'[b].kind = "none"
  BY <1>3, <1>4 DEF Waiting
<1>6. Missed' = Missed
  <2>1. queue' \cup chunk' = queue \cup chunk
    BY <1>1, <1>3, <1>4
  <2> QED  BY <1>1, <2>1 DEF Missed, Dropped, Buckets, NoResult
<1>7. /\ Losses' = Losses /\ Down' = Down /\ Unreachable' = Unreachable
      /\ HostsOf(failed)' = HostsOf(failed) /\ Waiting' = Waiting
  BY <1>1 DEF Losses, Down, Workers, Unreachable, Candidates, Sources, HostsOf, Waiting
<1>8. Published'
  BY <1>1 DEF Survives, Published, Waits, Sources, Workers
<1>9. OneSuspect'
  <2>1. \A w \in Workers : Suspected(w)' => Suspected(w)
    BY <1>1, <1>3, <1>5, <1>7 DEF Suspected
  <2> QED  BY <1>1, <2>1, NoNewSuspect DEF Survives
<1>10. Evidence'
  <2>1. /\ Missed => Losses >= 1 /\ Down \subseteq lost \cup HostsOf(failed)
        /\ round >= 1 => Losses >= 1
    BY <1>1 DEF Survives, Evidence
  <2> QED  BY <1>1, <1>3, <1>5, <1>6, <1>7, <2>1 DEF Evidence
<1>11. LaterAttempts'
  <2> SUFFICES ASSUME round >= 1
               PROVE  /\ Down \subseteq lost
                      /\ Missed => failed = Unreachable /\ failed # {}
                      /\ \A b \in chunk' : \A c \in copies'[b] : c.host \in alive /\ c.gone = Unreachable
    BY <1>1, <1>3, <1>5, <1>6, <1>7 DEF LaterAttempts
  <2>1. Down \subseteq lost /\ (Missed => failed = Unreachable /\ failed # {})
    BY <1>1 DEF Survives, LaterAttempts
  <2>2. \A b \in Buckets : HostFor(b, {}) \subseteq alive
    BY <2>1, HostForUsable DEF Down
  <2>3. ASSUME NEW b \in chunk', NEW c \in copies'[b]
        PROVE  c.host \in alive /\ c.gone = Unreachable
    <3>1. b \in Buckets /\ copies'[b] = {[host |-> h, backup |-> FALSE, gone |-> Unreachable]
                                            : h \in HostFor(b, {})}
      BY <1>3, <1>4
    <3> QED  BY <2>2, <3>1
  <2> QED  BY <2>1, <2>3
<1>12. LastAttempt'
  BY <1>1, <1>3, <1>7 DEF Survives, LastAttempt
<1> QED  BY <1>3, <1>8, <1>9, <1>10, <1>11, <1>12, ReduceTogether

(* What a step of the window leaves alone.                                 *)
LEMMA WindowFrame ==
    ASSUME Survives, phase = "reduce", phase' = "reduce",
           UNCHANGED <<alive, holds, transients, draining, barrierVars, replicas, lost, round, todo, queue,
                       chunk, failed, done>>
    PROVE  /\ Published' /\ LastAttempt'
           /\ Missed' = Missed /\ Down' = Down /\ Unreachable' = Unreachable
           /\ HostsOf(failed)' = HostsOf(failed) /\ Sources' = Sources /\ Waiting' = Waiting
           /\ UNCHANGED <<dead, host, sources>>
           /\ blips' = blips => Losses' = Losses
<1>1. UNCHANGED <<sources, pending, inflight, dead, host, addr>>
  BY DEF barrierVars
<1>2. Published'
  BY <1>1 DEF Survives, Published, Waits, Sources, Workers
<1>3. Missed' = Missed
  BY DEF Missed, Dropped, Buckets, NoResult
<1>4. /\ Down' = Down /\ Unreachable' = Unreachable
      /\ HostsOf(failed)' = HostsOf(failed) /\ Sources' = Sources /\ Waiting' = Waiting
      /\ blips' = blips => Losses' = Losses
  BY <1>1 DEF Losses, Down, Workers, Unreachable, Candidates, Sources, HostsOf, Waiting
<1>5. LastAttempt'
  BY <1>4 DEF Survives, LastAttempt
<1> QED  BY <1>1, <1>2, <1>3, <1>4, <1>5

(* A copy answers: it can have missed only what the one loss took, and     *)
(* after the first attempt it misses all of it.                            *)
LEMMA ReduceAnswersSurvives ==
    ASSUME IInv, Survives, Losses <= 1, NEW b \in Buckets, ReduceAnswers(b)
    PROVE  Survives'
<1>1. /\ phase = "reduce" /\ phase' = "reduce" /\ b \in chunk
      /\ copies' = [copies EXCEPT ![b] = {}]
      /\ UNCHANGED <<alive, holds, blips, transients, draining, barrierVars, replicas, lost, round, todo,
                     queue, chunk, failed, done>>
  BY DEF ReduceAnswers, fleetVars, barrierVars
<1>2. PICK c \in copies[b] : \E missed \in SUBSET Unreachable :
         c.gone \subseteq missed /\ slot' = [slot EXCEPT ![b] = Answer(missed)]
  BY DEF ReduceAnswers
<1>3. PICK missed \in SUBSET Unreachable :
         c.gone \subseteq missed /\ slot' = [slot EXCEPT ![b] = Answer(missed)]
  BY <1>2
<1>4. /\ Published' /\ LastAttempt' /\ Missed' = Missed /\ Down' = Down /\ Unreachable' = Unreachable
      /\ HostsOf(failed)' = HostsOf(failed) /\ Sources' = Sources /\ Waiting' = Waiting
      /\ UNCHANGED <<dead, host, sources>> /\ Losses' = Losses
  BY <1>1, WindowFrame
<1>5. /\ DOMAIN slot = Buckets /\ DOMAIN copies = Buckets /\ chunk \subseteq Buckets
      /\ slot'[b] = Answer(missed) /\ copies'[b] = {}
      /\ \A e \in chunk \ {b} : slot'[e] = slot[e] /\ copies'[e] = copies[e]
  <2>1. DOMAIN slot = Buckets /\ DOMAIN copies = Buckets /\ chunk \subseteq Buckets
    BY DEF IInv, MapInv, TypeOK, ReduceTypeOK
  <2> QED  BY <1>1, <1>3, <2>1
<1>6. /\ missed = {} => slot'[b].kind = "ok"
      /\ missed # {} => slot'[b].kind = "retry" /\ slot'[b].data = missed /\ Losses >= 1 /\ blips = 0
  <2>1. /\ missed = {} => slot'[b].kind = "ok"
        /\ missed # {} => slot'[b].kind = "retry" /\ slot'[b].data = missed
    BY <1>5 DEF Answer
  <2>2. missed # {} => Down # {} /\ Losses >= 1
    BY <1>1, <1>3, ReachFacts DEF Survives
  <2>3. Down # {} => blips = 0
    BY OneLossKinds
  <2> QED  BY <2>1, <2>2, <2>3
<1>7. OneSuspect'
  <2>1. CASE blips > 0
    <3>1. slot'[b].kind = "ok"
      BY <1>6, <2>1
    <3>2. \A w \in Workers : Suspected(w)' => Suspected(w)
      BY <1>1, <1>4, <1>5, <3>1 DEF Suspected, HostsOf
    <3> QED  BY <1>1, <3>2, NoNewSuspect DEF Survives
  <2>2. CASE ~ (blips > 0)
    BY <1>1, <2>2 DEF OneSuspect
  <2> QED  BY <2>1, <2>2
<1>8. Evidence'
  <2>1. \A e \in chunk : /\ slot[e].kind \in {"retry", "dead"} => Losses >= 1 /\ slot[e].data # {}
                         /\ slot[e].kind = "none" => slot[e] = Waiting
    BY <1>1 DEF Survives, Evidence
  <2>2. \A e \in chunk : /\ slot'[e].kind \in {"retry", "dead"} => Losses >= 1 /\ slot'[e].data # {}
                         /\ slot'[e].kind = "none" => slot'[e] = Waiting
    BY <1>5, <1>6, <2>1
  <2>3. /\ Missed => Losses >= 1 /\ Down \subseteq lost \cup HostsOf(failed)
        /\ round >= 1 => Losses >= 1
    BY <1>1 DEF Survives, Evidence
  <2> QED  BY <1>1, <1>4, <2>2, <2>3 DEF Evidence
<1>9. LaterAttempts'
  <2> SUFFICES ASSUME round >= 1
               PROVE  /\ Down \subseteq lost
                      /\ Missed => failed = Unreachable /\ failed # {}
                      /\ \A e \in chunk :
                            /\ \A d \in copies'[e] : d.host \in alive /\ d.gone = Unreachable
                            /\ slot'[e] = Waiting \/ slot'[e] = Answer(Unreachable)
    <3>1. Answer(Unreachable)' = Answer(Unreachable)
      BY <1>4 DEF Answer
    <3> QED  BY <1>1, <1>4, <3>1 DEF LaterAttempts
  <2>1. /\ Down \subseteq lost
        /\ Missed => failed = Unreachable /\ failed # {}
        /\ \A e \in chunk :
              /\ \A d \in copies[e] : d.host \in alive /\ d.gone = Unreachable
              /\ slot[e] = Waiting \/ slot[e] = Answer(Unreachable)
    BY <1>1 DEF Survives, LaterAttempts
  <2>2. missed = Unreachable
    BY <1>1, <1>2, <1>3, <2>1
  <2> QED  BY <1>5, <2>1, <2>2
<1> QED  BY <1>1, <1>4, <1>7, <1>8, <1>9, ReduceTogether

(* A copy fails with its worker, or with a call: only in the first attempt. *)
LEMMA CopyLostSurvives ==
    ASSUME IInv, IInv', Survives, Losses <= 1, Losses' <= 1, NEW b \in Buckets, CopyLost(b)
    PROVE  Survives'
<1>1. /\ phase = "reduce" /\ phase' = "reduce" /\ b \in chunk /\ slot[b] = Waiting
      /\ UNCHANGED <<alive, holds, transients, draining, barrierVars, replicas, lost, round, todo,
                     queue, chunk, failed, done>>
  BY DEF CopyLost, barrierVars
<1>2. PICK c \in copies[b] :
        /\ \/ c.host \notin alive /\ UNCHANGED blips
           \/ blips' = blips + 1
        /\ slot' = IF copies[b] = {c}
                   THEN [slot EXCEPT ![b] = [kind |-> "dead", data |-> {c.host}]]
                   ELSE slot
  BY DEF CopyLost
<1>3. /\ Published' /\ LastAttempt' /\ Missed' = Missed /\ Down' = Down /\ Unreachable' = Unreachable
      /\ HostsOf(failed)' = HostsOf(failed) /\ Sources' = Sources /\ Waiting' = Waiting
      /\ UNCHANGED <<dead, host, sources>> /\ (blips' = blips => Losses' = Losses)
  BY <1>1, WindowFrame
<1>4. /\ DOMAIN slot = Buckets /\ chunk \subseteq Buckets /\ c.host \in Workers
      /\ round \in Nat /\ blips \in Nat /\ Losses \in Nat
  <2>1. /\ DOMAIN slot = Buckets /\ chunk \subseteq Buckets /\ round \in Nat
        /\ copies \in [Buckets -> SUBSET [host : Workers, backup : BOOLEAN, gone : SUBSET Sources]]
    BY DEF IInv, MapInv, TypeOK, ReduceTypeOK
  <2>2. c \in [host : Workers, backup : BOOLEAN, gone : SUBSET Sources]
    BY <2>1
  <2>3. c.host \in Workers
    BY <2>2
  <2>4. blips \in Nat /\ Losses \in Nat
    BY LossFacts
  <2> QED  BY <2>1, <2>3, <2>4
<1>5. /\ \A e \in chunk \ {b} : slot'[e] = slot[e]
      /\ slot'[b] = slot[b] \/ slot'[b] = [kind |-> "dead", data |-> {c.host}]
  BY <1>1, <1>2, <1>4
<1>6. \/ c.host \in Down /\ blips' = blips /\ blips = 0 /\ Losses' = Losses /\ Losses >= 1
      \/ Losses = 0 /\ Losses' = 1
  <2>1. CASE c.host \notin alive /\ UNCHANGED blips
    <3>1. c.host \in Down /\ Losses' = Losses
      BY <1>3, <1>4, <2>1 DEF Down
    <3>2. Gone # {}
      BY <3>1, OneLossKinds
    <3> QED  BY <2>1, <3>1, <3>2, OneLossKinds
  <2>2. CASE blips' = blips + 1
    <3>1. Losses' = Losses + 1
      BY <1>1, <2>2, LossGrows
    <3> QED  BY <1>4, <3>1
  <2> QED  BY <1>2, <2>1, <2>2
<1>7. round = 0
  <2>1. CASE Losses = 0
    BY <1>4, <2>1 DEF Survives, Evidence
  <2>2. CASE c.host \in Down
    <3>1. c.host \notin alive
      BY <2>2 DEF Down
    <3>2. ~ (round >= 1)
      BY <1>1, <1>2, <3>1 DEF Survives, LaterAttempts
    <3> QED  BY <1>4, <3>2
  <2> QED  BY <1>6, <2>1, <2>2
<1>8. OneSuspect'
  <2>1. CASE blips' = 0
    BY <2>1 DEF OneSuspect
  <2>2. CASE Losses = 0
    <3>1. \A w \in Workers : ~ Suspected(w)
      BY <2>2, SuspectFacts DEF Survives
    <3>2. ASSUME NEW w \in Workers, Suspected(w)' PROVE w = c.host \/ Suspected(w)
      BY <1>1, <1>3, <1>5, <3>2 DEF Suspected, HostsOf
    <3> QED  BY <3>1, <3>2 DEF OneSuspect, Workers
  <2> QED  BY <1>6, <2>1, <2>2
<1>9. Evidence'
  <2>1. \A e \in chunk : /\ slot[e].kind \in {"retry", "dead"} => Losses >= 1 /\ slot[e].data # {}
                         /\ slot[e].kind = "none" => slot[e] = Waiting
    BY <1>1 DEF Survives, Evidence
  <2>2. Losses' >= 1
    BY <1>6
  <2>3. \A e \in chunk : /\ slot'[e].kind \in {"retry", "dead"} => slot'[e].data # {}
                         /\ slot'[e].kind = "none" => slot'[e] = Waiting
    BY <1>5, <2>1
  <2>4. Missed => Down \subseteq lost \cup HostsOf(failed)
    BY <1>1 DEF Survives, Evidence
  <2> QED  BY <1>1, <1>3, <2>2, <2>3, <2>4 DEF Evidence
<1>10. LaterAttempts'
  BY <1>1, <1>7 DEF LaterAttempts
<1> QED  BY <1>1, <1>3, <1>8, <1>9, <1>10, ReduceTogether

(* A backup runs on a worker that is not written off either.               *)
LEMMA BackupSurvives ==
    ASSUME IInv, Survives, NEW b \in Buckets, Backup(b)
    PROVE  Survives'
<1>1. /\ phase = "reduce" /\ phase' = "reduce" /\ b \in chunk
      /\ UNCHANGED <<alive, holds, blips, transients, draining, barrierVars, replicas, lost, round, todo,
                     queue, chunk, slot, failed, done>>
  BY DEF Backup, fleetVars, barrierVars
<1>2. PICK hosts \in SUBSET (Workers \ lost) :
        copies' = [copies EXCEPT ![b] = copies[b] \cup
                     {[host |-> h, backup |-> TRUE, gone |-> Unreachable] : h \in hosts}]
  <2> DEFINE own == HostFor(b, {})
             elsewhere == HostFor(b, own)
             hosts == IF elsewhere # {} THEN elsewhere ELSE own
  <2>1. own \subseteq Workers \ lost /\ elsewhere \subseteq Workers \ lost
    BY HostForUsable
  <2>2. hosts \in SUBSET (Workers \ lost)
    BY <2>1
  <2>3. copies' = [copies EXCEPT ![b] = copies[b] \cup
                     {[host |-> h, backup |-> TRUE, gone |-> Unreachable] : h \in hosts}]
    BY DEF Backup
  <2> QED  BY <2>2, <2>3
<1>3. /\ Published' /\ LastAttempt' /\ Missed' = Missed /\ Down' = Down /\ Unreachable' = Unreachable
      /\ HostsOf(failed)' = HostsOf(failed) /\ Sources' = Sources /\ Waiting' = Waiting
      /\ UNCHANGED <<dead, host, sources>> /\ Losses' = Losses
  BY <1>1, WindowFrame
<1>4. OneSuspect'
  <2>1. \A w \in Workers : Suspected(w)' => Suspected(w)
    BY <1>1, <1>3 DEF Suspected, HostsOf
  <2> QED  BY <1>1, <2>1, NoNewSuspect DEF Survives
<1>5. Evidence'
  BY <1>1, <1>3 DEF Survives, Evidence
<1>6. LaterAttempts'
  <2> SUFFICES ASSUME round >= 1
               PROVE  /\ Down \subseteq lost
                      /\ Missed => failed = Unreachable /\ failed # {}
                      /\ \A e \in chunk :
                            /\ \A d \in copies'[e] : d.host \in alive /\ d.gone = Unreachable
                            /\ slot[e] = Waiting \/ slot[e] = Answer(Unreachable)
    <3>1. Answer(Unreachable)' = Answer(Unreachable)
      BY <1>3 DEF Answer
    <3> QED  BY <1>1, <1>3, <3>1 DEF LaterAttempts
  <2>1. /\ Down \subseteq lost
        /\ Missed => failed = Unreachable /\ failed # {}
        /\ \A e \in chunk :
              /\ \A d \in copies[e] : d.host \in alive /\ d.gone = Unreachable
              /\ slot[e] = Waiting \/ slot[e] = Answer(Unreachable)
    BY <1>1 DEF Survives, LaterAttempts
  <2>2. hosts \subseteq alive
    BY <2>1 DEF Down
  <2>3. DOMAIN copies = Buckets /\ chunk \subseteq Buckets
    BY DEF IInv, MapInv, TypeOK, ReduceTypeOK
  <2>4. ASSUME NEW e \in chunk, NEW d \in copies'[e]
        PROVE  d.host \in alive /\ d.gone = Unreachable
    <3>1. d \in copies[e] \/ \E h \in hosts : d = [host |-> h, backup |-> TRUE, gone |-> Unreachable]
      BY <1>2, <2>3, <2>4
    <3> QED  BY <2>1, <2>2, <3>1
  <2> QED  BY <2>1, <2>4
<1> QED  BY <1>1, <1>3, <1>4, <1>5, <1>6, ReduceTogether

(* The window is folded: a bucket is given up only with a suspect to show, *)
(* and with one loss that is whoever died.                                 *)
LEMMA ChunkDoneSurvives ==
    ASSUME IInv, Survives, Losses <= 1, ChunkDone
    PROVE  Survives'
<1> DEFINE of(kind) == {b \in chunk : slot[b].kind = kind}
           deadHosts == UNION {slot[b].data : b \in of("dead")}
           missed == UNION {slot[b].data : b \in of("retry")}
<1>1. /\ phase = "reduce" /\ phase' = "launch" /\ chunk' = {} /\ \A b \in chunk : slot[b] # Waiting
      /\ done' = [b \in Buckets |-> IF b \in of("ok") THEN slot[b].data ELSE done[b]]
      /\ lost' = lost \cup deadHosts
      /\ failed' = failed \cup missed \cup (UNION {SourcesOn(w) : w \in deadHosts})
      /\ UNCHANGED <<alive, holds, blips, transients, draining, sources, pending, inflight, dead, host,
                     addr, replicas, round, queue>>
  BY DEF ChunkDone, fleetVars, barrierVars
<1>2. /\ Waits = {} /\ inflight = {} /\ chunk \subseteq Buckets
      /\ \A s \in Sources : host[s] \in Workers
      /\ \A b \in chunk : slot[b].kind \in {"none", "ok", "retry", "dead"}
  BY <1>1 DEF IInv, MapInv, TypeOK, ReduceTypeOK, BarrierOver, Dealt
<1>3. \A b \in chunk : /\ slot[b].kind = "ok" => slot[b].data = Sources
                       /\ slot[b].kind = "retry" => slot[b].data \subseteq Sources
                       /\ slot[b].kind = "dead" => slot[b].data \subseteq Workers
  BY <1>2 DEF IInv, SlotsSound
<1>4. /\ \A b \in chunk : slot[b].kind \in {"retry", "dead"} => Losses >= 1 /\ slot[b].data # {}
      /\ \A b \in chunk : slot[b].kind \in {"ok", "retry", "dead"}
  BY <1>1, <1>2 DEF Survives, Evidence
<1>5. /\ Losses' = Losses /\ Down' = Down /\ Unreachable' = Unreachable /\ Sources' = Sources
  BY <1>1 DEF Losses, Down, Workers, Unreachable, Candidates, Sources
<1>6. /\ \A w \in deadHosts : w \in Workers /\ Suspected(w)
      /\ \A s \in missed : s \in Sources /\ Suspected(host[s])
  <2>1. \A w \in deadHosts : w \in Workers /\ Suspected(w)
    BY <1>1, <1>3 DEF Suspected
  <2>2. ASSUME NEW s \in missed PROVE s \in Sources /\ Suspected(host[s])
    <3>1. PICK b \in chunk : slot[b].kind = "retry" /\ s \in slot[b].data
      BY <2>2
    <3>2. host[s] \in HostsOf(slot[b].data)
      BY <3>1 DEF HostsOf
    <3> QED  BY <1>1, <1>3, <3>1, <3>2 DEF Suspected
  <2> QED  BY <2>1, <2>2
<1>7. \A s \in failed' : s \in failed \/ s \in missed \/ (host[s] \in deadHosts)
  BY <1>1 DEF SourcesOn
<1>8. Missed' => \/ Missed
                 \/ \E b \in chunk : slot[b].kind \in {"retry", "dead"}
  <2> SUFFICES ASSUME Missed', \A b \in chunk : slot[b].kind = "ok" PROVE Missed
    BY <1>4
  <2>1. of("retry") = {} /\ of("dead") = {}
    OBVIOUS
  <2>2. failed' = failed
    BY <1>1, <2>1
  <2>3. CASE failed' # {}
    BY <2>2, <2>3 DEF Missed
  <2>4. CASE Dropped' # {}
    <3>1. PICK b \in Dropped' : TRUE
      BY <2>4
    <3>2. b \in Buckets /\ b \notin queue /\ done'[b] = NoResult
      BY <1>1, <3>1 DEF Dropped, Buckets, NoResult
    <3>3. b \notin chunk
      <4> SUFFICES ASSUME b \in chunk PROVE FALSE
        OBVIOUS
      <4>1. done'[b] = Sources
        BY <1>1, <1>3, <3>2
      <4>2. -1 \in NoResult /\ -1 \notin Sources
        BY DEF NoResult, Sources
      <4> QED  BY <3>2, <4>1, <4>2
    <3>4. done[b] = NoResult
      BY <1>1, <3>2, <3>3
    <3> QED  BY <3>2, <3>3, <3>4 DEF Missed, Dropped
  <2> QED  BY <2>3, <2>4 DEF Missed
<1>9. Published'
  BY <1>1 DEF Survives, Published, Waits, Sources, Workers
<1>10. OneSuspect'
  <2>1. ASSUME NEW w \in Workers, Suspected(w)' PROVE Suspected(w)
    <3>1. w \in dead \cup lost' \/ \E s \in failed' : w = host[s]
      BY <1>1, <2>1 DEF Suspected, HostsOf
    <3>2. CASE w \in dead \cup lost
      BY <3>2 DEF Suspected
    <3>3. CASE w \in deadHosts
      BY <1>6, <3>3
    <3>4. CASE \E s \in failed : w = host[s]
      BY <1>1, <3>4 DEF Suspected, HostsOf
    <3>5. CASE \E s \in missed : w = host[s]
      BY <1>6, <3>5
    <3> HIDE DEF deadHosts, missed
    <3> QED  BY <1>1, <1>7, <3>1, <3>2, <3>3, <3>4, <3>5
  <2> QED  BY <1>1, <2>1, NoNewSuspect DEF Survives
<1>11. HostsOf(failed)' = {host[s] : s \in failed'}
  BY <1>1 DEF HostsOf
<1>12. Evidence'
  <2>1. Missed' => Losses >= 1 /\ Down \subseteq lost' \cup {host[s] : s \in failed'}
    <3>1. CASE Missed
      BY <1>1, <3>1 DEF Survives, Evidence, HostsOf
    <3>2. ASSUME NEW b \in chunk, slot[b].kind \in {"retry", "dead"}
          PROVE  Losses >= 1 /\ Down \subseteq lost' \cup {host[s] : s \in failed'}
      <4>1. Losses >= 1 /\ slot[b].data # {}
        BY <1>4, <3>2
      <4>2. \E w \in Workers : Suspected(w) /\ w \in lost' \cup {host[s] : s \in failed'}
        <5>1. CASE slot[b].kind = "dead"
          <6>1. PICK w \in slot[b].data : w \in deadHosts
            BY <4>1, <5>1
          <6> QED  BY <1>1, <1>6, <6>1
        <5>2. CASE slot[b].kind = "retry"
          <6>1. PICK s \in slot[b].data : s \in missed
            BY <4>1, <5>2
          <6>2. s \in failed'
            BY <1>1, <6>1
          <6> QED  BY <1>2, <1>6, <6>1, <6>2
        <5> QED  BY <3>2, <5>1, <5>2
      <4>3. ASSUME NEW d \in Down PROVE d \in lost' \cup {host[s] : s \in failed'}
        <5>1. Down # {} /\ d \in Gone /\ (\A v, w \in Gone : v = w) /\ Down \subseteq Gone
          BY <4>3, OneLossKinds
        <5>2. \A w \in Workers : Suspected(w) => w \in Down
          BY <5>1, SuspectFacts DEF Survives
        <5> QED  BY <4>2, <5>1, <5>2
      <4> QED  BY <4>1, <4>3
    <3> QED  BY <1>8, <3>1, <3>2
  <2>2. round >= 1 => Losses >= 1
    BY DEF Survives, Evidence
  <2> QED  BY <1>1, <1>5, <1>11, <2>1, <2>2 DEF Evidence
<1>13. LaterAttempts'
  <2> SUFFICES ASSUME round >= 1
               PROVE  /\ Down \subseteq lost'
                      /\ Missed' => failed' = Unreachable /\ failed' # {}
    BY <1>1, <1>5 DEF LaterAttempts
  <2>1. /\ Down \subseteq lost
        /\ Missed => failed = Unreachable /\ failed # {}
        /\ \A b \in chunk : slot[b] = Answer(Unreachable)
    BY <1>1 DEF Survives, LaterAttempts
  <2>2. \A b \in chunk : /\ slot[b].kind # "dead"
                         /\ slot[b].kind = "retry" => Unreachable # {} /\ slot[b].data = Unreachable
    BY <2>1 DEF Answer
  <2>3. /\ deadHosts = {} /\ missed \subseteq Unreachable
        /\ (\E b \in chunk : slot[b].kind = "retry") => missed = Unreachable /\ Unreachable # {}
    BY <2>2
  <2>4. failed' = failed \cup missed
    BY <1>1, <2>3
  <2>5. failed \subseteq Unreachable
    BY <2>1 DEF Missed
  <2>6. ASSUME Missed
        PROVE  failed' = Unreachable /\ failed' # {}
    BY <2>1, <2>3, <2>4, <2>6
  <2>7. ASSUME \E b \in chunk : slot[b].kind \in {"retry", "dead"}
        PROVE  failed' = Unreachable /\ failed' # {}
    BY <2>2, <2>3, <2>4, <2>5, <2>7
  <2> QED  BY <1>1, <1>8, <2>1, <2>6, <2>7
<1>14. LastAttempt'
  BY <1>1, <1>5 DEF Survives, LastAttempt
<1> QED  BY <1>1, <1>9, <1>10, <1>12, <1>13, <1>14, ReduceTogether

(* An attempt that gave something up is followed by another, and there are *)
(* never more than three.                                                  *)
LEMMA EndAttemptSurvives ==
    ASSUME MaxAttempts >= 3, IInv, Survives, EndAttempt
    PROVE  Survives'
<1>1. /\ phase = "launch" /\ queue = {} /\ chunk = {}
      /\ UNCHANGED <<alive, holds, blips, transients, draining, sources, pending, inflight, dead, host,
                     addr, replicas, lost, failed, done>>
      /\ \/ phase' = "done" /\ UNCHANGED round
         \/ ~ Complete /\ LastRound
         \/ ~ Complete /\ phase' = "recompute" /\ todo' = failed /\ round' = round + 1
  BY DEF EndAttempt, fleetVars, barrierVars, IInv, WindowUndone
<1>2. ~ Complete => Missed
  BY <1>1 DEF Complete, AllDone, Missed, Dropped
<1>3. /\ round \in Nat /\ round <= 2 /\ MaxAttempts \in Nat
      /\ round >= 1 => Losses >= 1
      /\ Missed => Losses >= 1 /\ Down \subseteq lost \cup HostsOf(failed)
      /\ round >= 1 /\ Missed => failed = Unreachable /\ failed # {}
      /\ round = 2 => Unreachable = {}
  BY <1>1, AttemptAssumption DEF Survives, Evidence, LaterAttempts, LastAttempt, IInv, MapInv, TypeOK,
     ReduceTypeOK
<1>4. ~ Complete => round <= 1 /\ ~ LastRound
  <2>1. Missed => round # 2
    BY <1>3
  <2>2. Missed => round <= 1
    BY <1>3, <2>1
  <2> QED  BY <1>2, <1>3, <2>2 DEF LastRound
<1>5. /\ Losses' = Losses /\ Down' = Down /\ Unreachable' = Unreachable
  BY <1>1 DEF Losses, Down, Workers, Unreachable, Candidates, Sources
<1>6. Published'
  BY <1>1 DEF Survives, Published, Waits, Sources, Workers
<1>7. OneSuspect'
  <2>1. \A w \in Workers : Suspected(w)' => Suspected(w)
    BY <1>1, <1>4 DEF Suspected, HostsOf
  <2> QED  BY <1>1, <2>1, NoNewSuspect DEF Survives
<1>8. CASE phase' = "done" /\ UNCHANGED round
  <2>1. Evidence' /\ LaterAttempts' /\ LastAttempt'
    BY <1>3, <1>5, <1>8 DEF Evidence, LaterAttempts, LastAttempt
  <2> QED  BY <1>6, <1>7, <1>8, <2>1, ReduceTogether
<1>9. CASE ~ Complete /\ phase' = "recompute" /\ todo' = failed /\ round' = round + 1
  <2>1. HostsOf(todo)' = HostsOf(failed)
    BY <1>1, <1>9 DEF HostsOf
  <2>2. Evidence'
    BY <1>1, <1>2, <1>3, <1>5, <1>9, <2>1 DEF Evidence
  <2>3. LaterAttempts'
    BY <1>9 DEF LaterAttempts
  <2>4. LastAttempt'
    BY <1>2, <1>3, <1>4, <1>5, <1>9 DEF LastAttempt
  <2> QED  BY <1>6, <1>7, <1>9, <2>2, <2>3, <2>4, ReduceTogether
<1> QED  BY <1>1, <1>4, <1>8, <1>9

-----------------------------------------------------------------------------
(* The stage survives one loss.                                            *)

(* The stage starts with every source waiting and every worker idle.       *)
LEMMA InitSurvives == Init => Survives
<1> SUFFICES ASSUME Init PROVE Survives
  OBVIOUS
<1>1. /\ phase = "map" /\ blips = 0 /\ transients = 0 /\ inflight = {} /\ dead = {} /\ lost = {} /\ round = 0
      /\ sources \in Nat /\ W \in Nat /\ W >= 1 /\ spent = 0
      /\ attempts = [s \in Sources |-> 0] /\ replicas = [s \in Sources |-> {}]
      /\ pending = [i \in 1..sources |-> i - 1] /\ idle = [i \in 1..W |-> i - 1]
  BY FleetAssumption, SourceAssumption DEF Init, MapInit
<1>2. HostsOf(inflight) = {}
  BY <1>1 DEF HostsOf
<1>3. IdleHosts = Workers
  <2>1. \A w \in Workers : w + 1 \in 1..W /\ idle[w + 1] = w
    BY <1>1 DEF Workers
  <2>2. \A i \in 1..W : idle[i] \in Workers
    BY <1>1 DEF Workers
  <2> QED  BY <1>1, <2>1, <2>2 DEF IdleHosts
<1>4. OneTaskEach
  <2>1. \A i, j \in DOMAIN idle : idle[i] = idle[j] => i = j
    BY <1>1
  <2> QED  BY <1>1, <1>2, <1>3, <2>1 DEF OneTaskEach
<1>5. MapSpared
  BY <1>1, <1>2 DEF MapSpared
<1>6. Published
  <2>1. \A s \in Sources : s + 1 \in 1..sources /\ pending[s + 1] = s
    BY <1>1 DEF Sources
  <2>2. \A s \in Sources : s \in Waits
    BY <1>1, <2>1 DEF Waits
  <2> QED  BY <1>1, <2>2 DEF Published
<1>7. OneSuspect /\ Evidence /\ LaterAttempts /\ LastAttempt
  BY <1>1 DEF OneSuspect, Evidence, LaterAttempts, LastAttempt
<1> QED  BY <1>1, <1>4, <1>5, <1>6, <1>7 DEF Survives

(* A loss is never undone.                                                 *)
LEMMA LossesGrow ==
    ASSUME IInv, IInv', [Next]_vars
    PROVE  Losses' = Losses \/ Losses' = Losses + 1
<1>1. SUFFICES \/ UNCHANGED <<alive, draining, transients, blips>>
               \/ \E w \in Workers : Die(w) \/ Drain(w)
               \/ \E s \in Sources : MapTransient(s)
               \/ UNCHANGED <<alive, draining, transients>> /\ blips' = blips + 1
  <2>1. UNCHANGED <<alive, draining, transients, blips>> => Losses' = Losses
    BY DEF Losses
  <2> QED  BY <1>1, <2>1, LossGrows
<1>2. CASE MapStep
  BY <1>2 DEF MapStep, MapProgress, Submit, EndMap, MapFinish, MapDone, MapLost, fleetVars
<1>3. CASE Reduce
  BY <1>3 DEF Reduce, Probe, AssignReplica, Copy, StartReduce, Recompute, NextAttempt, LaunchChunk,
     ChunkDone, EndAttempt, ReduceAnswers, CopyLost, Backup, fleetVars
<1>4. CASE Fault
  BY <1>4 DEF Fault
<1>5. CASE Finished \/ UNCHANGED vars
  BY <1>5 DEF Finished, vars, fleetVars
<1> QED  BY <1>2, <1>3, <1>4, <1>5 DEF Next, Progress

(* A step that changes nothing.                                            *)
LEMMA StutterSurvives == Survives /\ UNCHANGED vars => Survives'
<1> SUFFICES ASSUME Survives, UNCHANGED vars PROVE Survives'
  OBVIOUS
<1>1. UNCHANGED <<phase, alive, holds, blips, transients, draining, sources, pending, inflight, attempts,
                  spent, dead, idle, host, addr, replicas, lost, round, todo, queue, chunk, copies, slot,
                  failed, done>>
  BY DEF vars, fleetVars, barrierVars, reduceVars
<1>2. OneTaskEach' /\ MapSpared' /\ Published'
  BY <1>1 DEF Survives, OneTaskEach, MapSpared, Published, HostsOf, IdleHosts, Workers, Pinned, Sources, Waits
<1>3. OneSuspect'
  <2>1. \A w \in Workers : Suspected(w)' => Suspected(w)
    BY <1>1 DEF Suspected, HostsOf
  <2> QED  BY <1>1, <2>1, NoNewSuspect DEF Survives
<1>4. /\ Losses' = Losses /\ Down' = Down /\ Unreachable' = Unreachable /\ Missed' = Missed
      /\ Answer(Unreachable)' = Answer(Unreachable) /\ Waiting' = Waiting
      /\ HostsOf(failed)' = HostsOf(failed) /\ HostsOf(todo)' = HostsOf(todo)
  BY <1>1 DEF Losses, Down, Workers, Unreachable, Candidates, Sources, Missed, Dropped, Buckets, NoResult,
     Answer, Waiting, HostsOf
<1>5. Evidence'
  BY <1>1, <1>4 DEF Survives, Evidence
<1>6. LaterAttempts' /\ LastAttempt'
  BY <1>1, <1>4 DEF Survives, LaterAttempts, LastAttempt
<1> QED  BY <1>1, <1>2, <1>3, <1>5, <1>6 DEF Survives

(* Every step preserves it: with at most one loss after the step, there    *)
(* was at most one before.                                                 *)
LEMMA NextSurvives ==
    ASSUME W >= 2, MaxAttempts >= 3, Allowance >= 1
    PROVE  IInv /\ IInv' /\ LossInv /\ [Next]_vars => LossInv'
<1> SUFFICES ASSUME IInv, IInv', LossInv, [Next]_vars, Losses' <= 1
             PROVE  Survives'
  BY DEF LossInv
<1>1. Losses <= 1 /\ Survives
  <2>1. Losses \in Nat /\ (Losses' = Losses \/ Losses' = Losses + 1)
    BY LossFacts, LossesGrow
  <2> QED  BY <2>1 DEF LossInv
<1>2. CASE MapStep
  BY <1>1, <1>2, SubmitSurvives, EndMapSurvives, MapFinishSurvives, MapDoneSurvives, MapLostSurvives
     DEF MapStep, MapProgress
<1>3. CASE Reduce
  BY <1>1, <1>3, ProbeSurvives, AssignReplicaSurvives, CopySurvives, StartReduceSurvives,
     RecomputeSurvives, NextAttemptSurvives, LaunchChunkSurvives, ChunkDoneSurvives, EndAttemptSurvives,
     ReduceAnswersSurvives, CopyLostSurvives, BackupSurvives DEF Reduce
<1>4. CASE Fault
  BY <1>1, <1>4, FaultSurvives, MapTransientSurvives DEF Fault
<1>5. CASE Finished \/ UNCHANGED vars
  BY <1>1, <1>5, StutterSurvives DEF Finished
<1> QED  BY <1>2, <1>3, <1>4, <1>5 DEF Next, Progress

(* For every fleet of at least two workers, with three attempts and one    *)
(* retry to spend: one loss of any kind, wherever it falls, never fails    *)
(* the stage.                                                              *)
THEOREM OneLossNeverFails ==
    ASSUME W >= 2, MaxAttempts >= 3, Allowance >= 1
    PROVE  Spec => []OneLossSurvived
<1>1. Init => LossInv
  BY InitSurvives DEF LossInv
<1>2. IInv /\ IInv' /\ LossInv /\ [Next]_vars => LossInv'
  BY NextSurvives
<1>3. IInv /\ LossInv => OneLossSurvived
  <2>1. IInv => Losses \in Nat
    BY LossFacts
  <2> QED  BY <2>1 DEF LossInv, Survives, OneLossSurvived
<1>4. Spec => []LossInv
  BY <1>1, <1>2, Invariance, PTL DEF Spec
<1> QED  BY <1>3, <1>4, Invariance, PTL

=============================================================================
