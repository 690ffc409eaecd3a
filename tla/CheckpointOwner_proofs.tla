----------------------- MODULE CheckpointOwner_proofs -----------------------
(***************************************************************************)
(* What holds of drivers sharing a checkpoint, for any number of them, any *)
(* source and any number of crashes: the fence lets a superseded driver    *)
(* write at most one more log record, and the table holds every row once.  *)
(*                                                                         *)
(* The second rests on the source being read the same way by every driver: *)
(* then batch i is the same rows whoever stages it, although the drivers   *)
(* may be at different ids and the logs may be swept under them.  That     *)
(* course of the stream is no variable of the system, so the invariant     *)
(* says that there is one which everything on disk and in memory follows.  *)
(***************************************************************************)
EXTENDS CheckpointOwner, TLAPS, FiniteSetTheorems

-----------------------------------------------------------------------------
(* The lease.                                                              *)

Labels == {"new", "persist", "claim", "recover", "committed", "position", "stage", "record",
           "offsets", "check", "append", "finish", "commit", "prune", "sweep", "stopped"}

(* The commit log has an end.                                              *)
CommitsEnd == \E b \in Nat : commits \subseteq 0..b

(* The types, by what changes together.                                    *)
LeaseTypes ==
    /\ mode \in Modes
    /\ metadata \in Drivers \cup {Nobody} /\ lock \in Drivers \cup {Nobody}
    /\ owner \in Drivers \cup {Nobody}
LogTypes ==
    /\ commits \subseteq Nat /\ DOMAIN offsets \subseteq Nat
    /\ \A i \in DOMAIN offsets : offsets[i] \in 0..N
    /\ CommitsEnd
SinkTypes ==
    /\ \A x \in table : {x.by, x.app} \subseteq Drivers /\ x.id \in Nat /\ x.rows \subseteq Rows
    /\ txns \in [Drivers -> Nat]
MineTypes ==
    /\ app \in [Drivers -> Drivers \cup {Nobody}]
    /\ batch \in [Drivers -> Nat] /\ swept \in [Drivers -> Nat]
    /\ start \in [Drivers -> 0..N] /\ upto \in [Drivers -> 0..N]
    /\ astray \subseteq Drivers
RestTypes ==
    /\ pc \in [Drivers -> Labels]
    /\ stale \in [Drivers -> Nat] /\ crashes \in 0..MaxCrashes

Allowed == IF mode = "local" THEN 0 ELSE 1

(* A driver at work has an application id, the lock is held by exactly the *)
(* local driver at work, and one that wrote a record without the lease has *)
(* come to a point from which the next verify() stops it: it will not own  *)
(* the checkpoint again.                                                   *)
Leased(d) ==
    /\ pc[d] \notin {"new", "persist", "stopped"} => app[d] \in Drivers
    /\ mode = "local" /\ Working(d) => lock = d
    /\ lock = d => mode = "local" /\ Working(d) /\ owner = d
    /\ stale[d] <= Allowed
    /\ stale[d] > 0 => /\ owner # d
                       /\ pc[d] \notin {"new", "persist", "claim", "offsets", "commit"}

LeaseInv ==
    LeaseTypes /\ LogTypes /\ SinkTypes /\ MineTypes /\ RestTypes /\ \A d \in Drivers : Leased(d)

(* The greatest element of a set of numbers with an upper bound.           *)
LEMMA MaxIn ==
    ASSUME NEW S, S # {}, S \subseteq Nat, NEW b \in Nat, S \subseteq 0..b
    PROVE  Max(S) \in S /\ \A y \in S : Max(S) >= y
<1> DEFINE U == {n \in Nat : \A y \in S : n >= y}
<1>1. b \in U
  OBVIOUS
<1>2. PICK x \in U : \A y \in U : ~ (<<y, x>> \in OpToRel(<, Nat))
  BY <1>1, NatLessThanWellFounded, WFMin
<1>3. \A y \in U : ~ (y < x)
  BY <1>2 DEF OpToRel
<1>5. x \in Nat /\ \A y \in S : y \in Nat /\ x >= y
  BY <1>2
<1> HIDE DEF U
<1>4. x \in S
  <2>1. SUFFICES ASSUME x \notin S PROVE FALSE
    OBVIOUS
  <2>2. PICK y \in S : TRUE
    OBVIOUS
  <2>3. x > y /\ x - 1 \in Nat
    <3>1. y \in Nat /\ x # y /\ x >= y
      BY <1>5, <2>1
    <3> QED
      BY <1>5, <3>1
  <2>4. \A z \in S : z <= x - 1
    <3>1. TAKE z \in S
    <3>2. z \in Nat /\ x # z /\ x >= z
      BY <1>5, <2>1
    <3> QED
      BY <1>5, <3>2
  <2>5. x - 1 \in U
    BY <2>3, <2>4, <1>5 DEF U
  <2> QED
    BY <1>3, <1>5, <2>3, <2>5
<1> QED
  BY <1>4, <1>5 DEF Max

(* The last committed id is an id of the log or, when the log is empty, 0. *)
LEMMA LastIn ==
    ASSUME commits \subseteq Nat, CommitsEnd
    PROVE  /\ LastCommitted \in commits \cup {0}
           /\ \A c \in commits : c <= LastCommitted
           /\ LastCommitted \in Nat
<1>1. PICK b \in Nat : commits \subseteq 0..b
  BY DEF CommitsEnd
<1>2. commits \cup {0} \subseteq Nat /\ commits \cup {0} \subseteq 0..b /\ commits \cup {0} # {}
  BY <1>1
<1>3. /\ Max(commits \cup {0}) \in commits \cup {0}
      /\ \A y \in commits \cup {0} : Max(commits \cup {0}) >= y
  BY <1>1, <1>2, MaxIn
<1> QED
  BY <1>2, <1>3 DEF LastCommitted

(* The invariant contains what the fence promises.                         *)
LEMMA LeaseImplies == LeaseInv => FencedAtOnce
<1> SUFFICES ASSUME LeaseInv PROVE FencedAtOnce
  OBVIOUS
<1>1. TypeOK
  BY DEF LeaseInv, LeaseTypes, LogTypes, SinkTypes, MineTypes, RestTypes, Leased, TypeOK
<1> QED
  BY <1>1 DEF LeaseInv, Leased, Allowed, FencedAtOnce

(* The invariant holds in every initial state.                             *)
LEMMA LeaseInit == Init => LeaseInv
<1> SUFFICES ASSUME Init PROVE LeaseInv
  OBVIOUS
<1>1. LeaseTypes /\ SinkTypes /\ MineTypes /\ RestTypes
  BY OwnerAssumption DEF Init, LeaseTypes, SinkTypes, MineTypes, RestTypes, Labels
<1>2. LogTypes
  BY DEF Init, LogTypes, CommitsEnd
<1>3. \A d \in Drivers : Leased(d)
  BY OwnerAssumption DEF Init, Leased, Allowed, Working
<1> QED
  BY <1>1, <1>2, <1>3 DEF LeaseInv

(* What a step does not write keeps its types.                             *)
LEMMA TypesKept ==
    ASSUME LeaseInv
    PROVE  /\ UNCHANGED <<mode, metadata, lock, owner>> => LeaseTypes'
           /\ UNCHANGED <<offsets, commits>> => LogTypes'
           /\ UNCHANGED <<table, txns>> => SinkTypes'
           /\ UNCHANGED <<app, batch, start, upto, swept, astray>> => MineTypes'
  BY DEF LeaseInv, LeaseTypes, LogTypes, CommitsEnd, SinkTypes, MineTypes

(* A driver that does not step keeps its part of the invariant, as long as *)
(* the lease stays where it is.                                            *)
LEMMA Elsewhere ==
    ASSUME LeaseInv, UNCHANGED <<mode, lock, owner>>, NEW e \in Drivers,
           pc'[e] = pc[e], app'[e] = app[e], stale'[e] = stale[e]
    PROVE  Leased(e)'
<1>1. Leased(e)
  BY DEF LeaseInv
<1> QED
  BY <1>1 DEF Leased, Allowed, Working

(* A driver that steps under an unchanged lease, and writes no log record. *)
LEMMA QuietStep ==
    ASSUME LeaseInv, NEW d \in Drivers, NEW l \in Labels,
           UNCHANGED <<mode, metadata, lock, owner, stale, crashes, app>>,
           pc' = [pc EXCEPT ![d] = l],
           pc[d] \in Labels \ {"new", "persist", "claim", "stopped"},
           l \in Labels \ {"new", "persist", "claim", "stopped"},
           l \in {"offsets", "commit"} => Owns(d)
    PROVE  LeaseTypes' /\ RestTypes' /\ \A e \in Drivers : Leased(e)'
<1>1. RestTypes'
  BY DEF LeaseInv, RestTypes
<1>2. Leased(d)'
  <2>1. Leased(d) /\ pc'[d] = l /\ stale'[d] = stale[d] /\ app'[d] = app[d] /\ stale[d] \in Nat
    BY DEF LeaseInv, RestTypes
  <2> QED
    BY <2>1 DEF Leased, Allowed, Working, Owns
<1>3. \A e \in Drivers \ {d} : Leased(e)'
  <2>1. \A e \in Drivers \ {d} : pc'[e] = pc[e] /\ stale'[e] = stale[e] /\ app'[e] = app[e]
    BY DEF LeaseInv, RestTypes
  <2> QED
    BY <2>1, Elsewhere
<1> QED
  BY <1>1, <1>2, <1>3, TypesKept

(* A driver that writes the log record it had verified: under a flock it   *)
(* still holds the lock, so it is the owner.                               *)
LEMMA LoggedStep ==
    ASSUME LeaseInv, NEW d \in Drivers, NEW l \in {"check", "prune"},
           UNCHANGED <<mode, metadata, lock, owner, crashes, app>>,
           pc' = [pc EXCEPT ![d] = l], pc[d] \in {"offsets", "commit"}, NoteStale(d)
    PROVE  LeaseTypes' /\ RestTypes' /\ \A e \in Drivers : Leased(e)'
<1>1. Leased(d) /\ stale[d] \in Nat /\ stale[d] = 0
  BY DEF LeaseInv, RestTypes, Leased
<1>2. RestTypes'
  BY DEF LeaseInv, RestTypes, Labels, NoteStale
<1>3. Leased(d)'
  <2>1. pc'[d] = l /\ app'[d] = app[d]
    BY DEF LeaseInv, RestTypes
  <2>2. mode = "local" => owner = d
    BY <1>1 DEF Leased, Working
  <2>3. owner = d => stale'[d] = 0
    BY <1>1 DEF NoteStale
  <2>4. owner # d => stale'[d] = 1
    BY <1>1 DEF LeaseInv, RestTypes, NoteStale
  <2> QED
    BY <1>1, <2>1, <2>2, <2>3, <2>4 DEF Leased, Allowed, Working
<1>4. \A e \in Drivers \ {d} : Leased(e)'
  <2>1. \A e \in Drivers \ {d} : pc'[e] = pc[e] /\ stale'[e] = stale[e] /\ app'[e] = app[e]
    BY DEF LeaseInv, RestTypes, NoteStale
  <2> QED
    BY <2>1, Elsewhere
<1> QED
  BY <1>2, <1>3, <1>4, TypesKept

(* Starting up: resolving and persisting the application id.               *)
LEMMA StartStep ==
    ASSUME LeaseInv, NEW d \in Drivers, ResolveId(d) \/ PersistId(d)
    PROVE  LeaseInv'
<1>1. /\ UNCHANGED <<mode, lock, owner, offsets, commits, table, txns, batch, start, upto, swept, astray,
                     stale, crashes>>
      /\ metadata' \in {metadata, d}
      /\ pc[d] \in {"new", "persist"}
  BY DEF ResolveId, PersistId, lease, logs, sink
<1>2. \/ pc' = [pc EXCEPT ![d] = "persist"] /\ app' = app
      \/ pc' = [pc EXCEPT ![d] = "claim"] /\ app' = [app EXCEPT ![d] = d]
      \/ pc' = [pc EXCEPT ![d] = "claim"] /\ app' = [app EXCEPT ![d] = metadata] /\ metadata \in Drivers
  BY DEF ResolveId, PersistId, Goto, LeaseInv, LeaseTypes
<1>3. LeaseTypes'
  BY <1>1 DEF LeaseInv, LeaseTypes
<1>4. RestTypes' /\ MineTypes'
  BY <1>1, <1>2 DEF LeaseInv, RestTypes, MineTypes, Labels
<1>5. Leased(d)'
  <2>1. Leased(d) /\ pc'[d] \in {"persist", "claim"} /\ (pc'[d] = "claim" => app'[d] \in Drivers)
    BY <1>2 DEF LeaseInv, RestTypes, MineTypes
  <2> QED
    BY <1>1, <2>1 DEF Leased, Allowed, Working
<1>6. \A e \in Drivers \ {d} : Leased(e)'
  <2>1. \A e \in Drivers \ {d} : pc'[e] = pc[e] /\ stale'[e] = stale[e] /\ app'[e] = app[e]
    BY <1>1, <1>2 DEF LeaseInv, RestTypes, MineTypes
  <2> QED
    BY <1>1, <2>1, Elsewhere
<1> QED
  BY <1>1, <1>3, <1>4, <1>5, <1>6, TypesKept DEF LeaseInv

(* Claiming: nobody at work held the lock, and the last owner becomes one  *)
(* whose records count as stale.                                           *)
LEMMA ClaimStep ==
    ASSUME LeaseInv, NEW d \in Drivers, Claim(d)
    PROVE  LeaseInv'
<1>1. /\ UNCHANGED <<mode, metadata, offsets, commits, table, txns, app, batch, start, upto, swept, astray,
                     stale, crashes>>
      /\ pc[d] = "claim"
  BY DEF Claim, logs, sink, mine
<1>2. LeaseTypes' /\ RestTypes'
  BY <1>1 DEF Claim, Goto, LeaseInv, LeaseTypes, RestTypes, Labels
<1>3. ASSUME NEW e \in Drivers PROVE Leased(e)'
  <2>1. Leased(e) /\ Leased(d) /\ stale'[e] = stale[e] /\ app'[e] = app[e] /\ stale[e] \in Nat
    BY <1>1 DEF LeaseInv, RestTypes
  <2>2. pc'[e] = IF e = d THEN (IF mode = "local" /\ lock # Nobody THEN "stopped" ELSE "recover")
                 ELSE pc[e]
    BY DEF Claim, Goto, LeaseInv, RestTypes
  <2>3. CASE mode = "local" /\ lock # Nobody
    <3>1. UNCHANGED <<lock, owner>>
      BY <2>3 DEF Claim
    <3> QED
      BY <1>1, <2>1, <2>2, <2>3, <3>1 DEF Leased, Allowed, Working
  <2>4. CASE mode = "local" /\ lock = Nobody
    <3>1. lock' = d /\ owner' = d
      BY <2>4 DEF Claim
    <3>2. ~ Working(e)
      BY <2>1, <2>4, OwnerAssumption DEF Leased
    <3> QED
      BY <1>1, <2>1, <2>2, <2>4, <3>1, <3>2 DEF Leased, Allowed, Working
  <2>5. CASE mode # "local"
    <3>1. lock' = lock /\ owner' = d
      BY <2>5 DEF Claim
    <3> QED
      BY <1>1, <2>1, <2>2, <2>5, <3>1 DEF Leased, Allowed, Working
  <2> QED
    BY <2>3, <2>4, <2>5
<1> QED
  BY <1>1, <1>2, <1>3, TypesKept DEF LeaseInv

(* A process that dies takes only its own lock with it.                    *)
LEMMA CrashStep ==
    ASSUME LeaseInv, NEW d \in Drivers, Crash(d)
    PROVE  LeaseInv'
<1>1. /\ UNCHANGED <<mode, metadata, owner, offsets, commits, table, txns, app, batch, start, upto,
                     swept, astray, stale>>
      /\ pc' = [pc EXCEPT ![d] = "stopped"] /\ pc[d] # "new"
      /\ lock' = (IF lock = d THEN Nobody ELSE lock)
  BY DEF Crash, Unlocked, Goto, logs, sink, mine
<1>2. LeaseTypes'
  BY <1>1 DEF LeaseInv, LeaseTypes
<1>3. RestTypes'
  BY <1>1, OwnerAssumption DEF Crash, LeaseInv, RestTypes, Labels
<1>4. ASSUME NEW e \in Drivers PROVE Leased(e)'
  <2>1. Leased(e) /\ stale'[e] = stale[e] /\ app'[e] = app[e] /\ stale[e] \in Nat
    BY <1>1 DEF LeaseInv, RestTypes
  <2>2. pc'[e] = IF e = d THEN "stopped" ELSE pc[e]
    BY <1>1 DEF LeaseInv, RestTypes
  <2> QED
    BY <1>1, <2>1, <2>2, OwnerAssumption DEF Leased, Allowed, Working
<1> QED
  BY <1>1, <1>2, <1>3, <1>4, TypesKept DEF LeaseInv

(* verify(): a driver goes on to the write only as the owner; only a       *)
(* remote one is ever stopped by it, and that one holds no lock.           *)
LEMMA VerifyStep ==
    ASSUME LeaseInv, NEW d \in Drivers, Verify(d)
    PROVE  LeaseInv'
<1>1. /\ UNCHANGED <<mode, metadata, lock, owner, offsets, commits, table, txns, app, batch, start,
                     upto, swept, astray, stale, crashes>>
      /\ pc[d] \in {"record", "finish"}
  BY DEF Verify, lease, logs, sink, mine
<1>2. CASE Owns(d)
  <2>1. PICK l \in {"offsets", "commit"} : pc' = [pc EXCEPT ![d] = l]
    BY <1>2 DEF Verify, Goto
  <2>2. LeaseTypes' /\ RestTypes' /\ \A e \in Drivers : Leased(e)'
    BY <1>1, <1>2, <2>1, QuietStep DEF Labels
  <2> QED
    BY <1>1, <2>2, TypesKept DEF LeaseInv
<1>3. CASE ~ Owns(d)
  <2>1. pc' = [pc EXCEPT ![d] = "stopped"] /\ mode # "local"
    BY <1>3 DEF Verify, Fenced, Goto, Owns
  <2>2. RestTypes'
    BY <1>1, <2>1 DEF LeaseInv, RestTypes, Labels
  <2>3. ASSUME NEW e \in Drivers PROVE Leased(e)'
    <3>1. Leased(e) /\ stale'[e] = stale[e] /\ app'[e] = app[e]
      BY <1>1 DEF LeaseInv
    <3>2. pc'[e] = IF e = d THEN "stopped" ELSE pc[e]
      BY <2>1 DEF LeaseInv, RestTypes
    <3> QED
      BY <1>1, <2>1, <3>1, <3>2 DEF Leased, Allowed, Working
  <2> QED
    BY <1>1, <2>2, <2>3, TypesKept DEF LeaseInv
<1> QED
  BY <1>2, <1>3

(* Recovery and a read move only the driver's own position.                *)
LEMMA ReadStep ==
    ASSUME LeaseInv, NEW d \in Drivers,
           ReadOffsetLog(d) \/ ReadCommitLog(d) \/ ReadPosition(d) \/ Stage(d)
    PROVE  LeaseInv'
<1>1. /\ UNCHANGED <<mode, metadata, lock, owner, offsets, commits, table, txns, app, swept, stale,
                     crashes>>
      /\ pc[d] \in {"recover", "committed", "position", "stage"}
  BY DEF ReadOffsetLog, ReadCommitLog, ReadPosition, Stage, lease, logs, sink
<1>2. PICK l \in {"committed", "position", "stage", "record"} : pc' = [pc EXCEPT ![d] = l]
  BY DEF ReadOffsetLog, ReadCommitLog, ReadPosition, FromTheBeginning, Stage, Goto
<1>3. LeaseTypes' /\ RestTypes' /\ \A e \in Drivers : Leased(e)'
  BY <1>1, <1>2, QuietStep DEF Labels
<1>4. MineTypes'
  <2>1. CASE ReadOffsetLog(d)
    <3>1. UNCHANGED <<upto, astray>>
      BY <2>1 DEF ReadOffsetLog
    <3>2. \/ UNCHANGED <<batch, start>>
          \/ batch' = [batch EXCEPT ![d] = 1] /\ start' = [start EXCEPT ![d] = 0]
      BY <2>1 DEF ReadOffsetLog, FromTheBeginning
    <3>3. batch' \in [Drivers -> Nat] /\ start' \in [Drivers -> 0..N]
      <4>1. 0 \in 0..N /\ 1 \in Nat
        BY OwnerAssumption
      <4>2. batch \in [Drivers -> Nat] /\ start \in [Drivers -> 0..N]
        BY DEF LeaseInv, MineTypes
      <4> QED
        BY <3>2, <4>1, <4>2
    <3> QED
      BY <1>1, <3>1, <3>3 DEF LeaseInv, MineTypes
  <2>2. CASE ReadCommitLog(d)
    <3>1. UNCHANGED <<upto, astray>>
      BY <2>2 DEF ReadCommitLog
    <3>2. \/ batch' = [batch EXCEPT ![d] = LastCommitted + 1] /\ start' = start
          \/ batch' = [batch EXCEPT ![d] = 1] /\ start' = [start EXCEPT ![d] = 0]
      BY <2>2 DEF ReadCommitLog, FromTheBeginning
    <3>3. LastCommitted + 1 \in Nat
      BY LastIn DEF LeaseInv, LogTypes
    <3>4. batch' \in [Drivers -> Nat] /\ start' \in [Drivers -> 0..N]
      <4>1. 0 \in 0..N /\ 1 \in Nat
        BY OwnerAssumption
      <4>2. batch \in [Drivers -> Nat] /\ start \in [Drivers -> 0..N]
        BY DEF LeaseInv, MineTypes
      <4> QED
        BY <3>2, <3>3, <4>1, <4>2
    <3> QED
      BY <1>1, <3>1, <3>4 DEF LeaseInv, MineTypes
  <2>3. CASE ReadPosition(d)
    <3>1. UNCHANGED <<batch, upto>> /\ astray' \subseteq astray \cup {d}
      BY <2>3 DEF ReadPosition
    <3>2. PICK p \in 0..N : start' = [start EXCEPT ![d] = p]
      BY <2>3, OwnerAssumption DEF ReadPosition, LeaseInv, LogTypes
    <3> QED
      BY <1>1, <3>1, <3>2 DEF LeaseInv, MineTypes
  <2>4. CASE Stage(d)
    <3>1. start[d] \in 0..N /\ Reads[start[d]] \subseteq 0..N
      BY OwnerAssumption DEF LeaseInv, MineTypes
    <3> QED
      BY <1>1, <2>4, <3>1 DEF Stage, LeaseInv, MineTypes
  <2> QED
    BY <2>1, <2>2, <2>3, <2>4
<1> QED
  BY <1>1, <1>3, <1>4, TypesKept DEF LeaseInv

(* The two log writes.                                                     *)
LEMMA LogStep ==
    ASSUME LeaseInv, NEW d \in Drivers, WriteOffsets(d) \/ WriteCommit(d)
    PROVE  LeaseInv'
<1>1. /\ UNCHANGED <<mode, metadata, lock, owner, table, txns, app, batch, start, upto, swept, astray,
                     crashes>>
      /\ pc[d] \in {"offsets", "commit"} /\ NoteStale(d)
  BY DEF WriteOffsets, WriteCommit, lease, sink, mine
<1>2. PICK l \in {"check", "prune"} : pc' = [pc EXCEPT ![d] = l]
  BY DEF WriteOffsets, WriteCommit, Goto
<1>3. LeaseTypes' /\ RestTypes' /\ \A e \in Drivers : Leased(e)'
  BY <1>1, <1>2, LoggedStep
<1>4. batch[d] \in Nat /\ upto[d] \in 0..N
  BY DEF LeaseInv, MineTypes
<1>5. LogTypes'
  <2>1. CASE WriteOffsets(d)
    BY <1>4, <2>1 DEF WriteOffsets, LeaseInv, LogTypes, CommitsEnd
  <2>2. CASE WriteCommit(d)
    <3>1. PICK b \in Nat : commits \subseteq 0..b
      BY DEF LeaseInv, LogTypes, CommitsEnd
    <3>2. b + batch[d] \in Nat /\ commits' \subseteq 0..(b + batch[d])
      <4>1. \A n \in Nat : b + n \in Nat /\ n \in 0..(b + n) /\ \A c \in 0..b : c \in 0..(b + n)
        OBVIOUS
      <4> QED
        BY <1>4, <2>2, <3>1, <4>1 DEF WriteCommit
    <3> QED
      BY <1>4, <2>2, <3>2 DEF WriteCommit, LeaseInv, LogTypes, CommitsEnd
  <2> QED
    BY <2>1, <2>2
<1> QED
  BY <1>1, <1>3, <1>5, TypesKept DEF LeaseInv

(* The pre-check and the commit of the data file.                          *)
LEMMA SinkStep ==
    ASSUME LeaseInv, NEW d \in Drivers, CheckTable(d) \/ Append(d)
    PROVE  LeaseInv'
<1>1. /\ UNCHANGED <<mode, metadata, lock, owner, offsets, commits, app, batch, start, upto, swept, astray,
                     stale, crashes>>
      /\ pc[d] \in {"check", "append"}
  BY DEF CheckTable, Append, lease, logs, mine
<1>2. PICK l \in {"finish", "append"} : pc' = [pc EXCEPT ![d] = l]
  BY DEF CheckTable, Append, Goto
<1>3. LeaseTypes' /\ RestTypes' /\ \A e \in Drivers : Leased(e)'
  BY <1>1, <1>2, QuietStep DEF Labels
<1>4. /\ app[d] \in Drivers /\ batch[d] \in Nat /\ start[d] \in 0..N /\ upto[d] \in 0..N
  BY <1>1 DEF LeaseInv, MineTypes, Leased
<1>5. SinkTypes'
  <2>1. CASE UNCHANGED <<table, txns>>
    BY <2>1, TypesKept
  <2>2. CASE ~ UNCHANGED <<table, txns>>
    <3> DEFINE x == [by |-> d, app |-> app[d], id |-> batch[d], rows |-> start[d] + 1 .. upto[d]]
    <3>1. table' = table \cup {x} /\ txns' = [txns EXCEPT ![app[d]] = batch[d]]
      BY <2>2 DEF CheckTable, Append, sink
    <3>2. x.rows \subseteq Rows
      BY <1>4, OwnerAssumption DEF Rows
    <3>3. {x.by, x.app} \subseteq Drivers /\ x.id \in Nat
      BY <1>4
    <3> HIDE DEF x
    <3> QED
      BY <1>4, <3>1, <3>2, <3>3 DEF LeaseInv, SinkTypes
  <2> QED
    BY <2>1, <2>2
<1> QED
  BY <1>1, <1>3, <1>5, TypesKept DEF LeaseInv

(* The two halves of a log sweep, and on to the next id.                   *)
LEMMA SweepStep ==
    ASSUME LeaseInv, NEW d \in Drivers, SweepOffsets(d) \/ SweepCommits(d)
    PROVE  LeaseInv'
<1>1. /\ UNCHANGED <<mode, metadata, lock, owner, table, txns, app, upto, astray, stale, crashes>>
      /\ pc[d] \in {"prune", "sweep"}
  BY DEF SweepOffsets, SweepCommits, lease, sink
<1>2. PICK l \in {"stage", "sweep"} : pc' = [pc EXCEPT ![d] = l]
  BY DEF SweepOffsets, SweepCommits, NextEpoch, Goto
<1>3. LeaseTypes' /\ RestTypes' /\ \A e \in Drivers : Leased(e)'
  BY <1>1, <1>2, QuietStep DEF Labels
<1>4. MineTypes'
  <2>1. swept' = swept \/ swept' = [swept EXCEPT ![d] = batch[d]]
    BY DEF SweepOffsets, SweepCommits
  <2>2. swept' \in [Drivers -> Nat]
    BY <2>1 DEF LeaseInv, MineTypes
  <2>3. \/ UNCHANGED <<batch, start>>
        \/ batch' = [batch EXCEPT ![d] = batch[d] + 1] /\ start' = [start EXCEPT ![d] = upto[d]]
    BY DEF SweepOffsets, SweepCommits, NextEpoch
  <2>4. batch' \in [Drivers -> Nat] /\ start' \in [Drivers -> 0..N]
    BY <2>3 DEF LeaseInv, MineTypes
  <2> QED
    BY <1>1, <2>2, <2>4 DEF LeaseInv, MineTypes
<1>5. LogTypes'
  <2>1. \/ offsets' = offsets
        \/ offsets' = [i \in DOMAIN offsets \ Superseded(d) |-> offsets[i]]
    BY DEF SweepOffsets, SweepCommits, Restrict
  <2>2. commits' \subseteq commits
    BY DEF SweepOffsets, SweepCommits
  <2> QED
    BY <2>1, <2>2 DEF LeaseInv, LogTypes, CommitsEnd
<1> QED
  BY <1>1, <1>3, <1>4, <1>5, TypesKept DEF LeaseInv

(* Every step keeps the invariant.                                         *)
LEMMA LeaseStep == LeaseInv /\ [Next]_vars => LeaseInv'
<1> SUFFICES ASSUME LeaseInv, [Next]_vars PROVE LeaseInv'
  OBVIOUS
<1>1. CASE UNCHANGED vars
  <2>1. UNCHANGED <<mode, metadata, lock, owner, offsets, commits, table, txns, pc, app, batch, start,
                    upto, swept, astray, stale, crashes>>
    BY <1>1 DEF vars, lease, logs, sink, mine
  <2>2. RestTypes' /\ \A e \in Drivers : Leased(e)'
    BY <2>1, Elsewhere DEF LeaseInv, RestTypes
  <2> QED
    BY <2>1, <2>2, TypesKept DEF LeaseInv
<1>2. CASE Next /\ ~ UNCHANGED vars
  <2>1. PICK d \in Drivers : ResolveId(d) \/ Step(d) \/ Crash(d)
    BY <1>2 DEF Next, Quiet
  <2> QED
    BY <2>1, StartStep, ClaimStep, CrashStep, VerifyStep, ReadStep, LogStep, SinkStep, SweepStep
       DEF Step
<1> QED
  BY <1>1, <1>2

(* The fence works for every number of drivers, source and location: a     *)
(* superseded driver writes at most the one log record it had verified     *)
(* before the takeover, and under a flock none (verify(), record_offsets() *)
(* and commit()).                                                          *)
THEOREM FencedAtOnceHolds == Spec => []FencedAtOnce
  BY LeaseInit, LeaseStep, LeaseImplies, PTL DEF Spec

-----------------------------------------------------------------------------
(* The table.                                                              *)

(* A read from a position ends where every read from it ends.              *)
Deterministic == \A p \in 0..N : \A q, r \in Reads[p] : q = r

Planned(d)  == pc[d] \in {"stage", "record", "offsets", "check", "append", "finish", "commit", "prune",
                          "sweep"}
Staged(d)   == pc[d] \in {"record", "offsets", "check", "append", "finish", "commit", "prune", "sweep"}
Logged(d)   == pc[d] \in {"check", "append", "finish", "commit", "prune", "sweep"}
Written(d)  == pc[d] \in {"finish", "commit", "prune", "sweep"}

(* One application id: it is persisted once and every driver past that     *)
(* point uses it, so the table's log has one sequence of versions.         *)
OneId ==
    /\ \A d, e \in Drivers : pc[d] = "persist" /\ pc[e] = "persist" => d = e
    /\ \A d \in Drivers : pc[d] = "persist" => metadata = Nobody
    /\ \A d \in Drivers : pc[d] \notin {"new", "persist", "stopped"} =>
                             metadata # Nobody /\ app[d] = metadata
    /\ \A a \in Drivers : a # metadata => txns[a] = 0

(* The last id in the table.                                               *)
Top == IF metadata = Nobody THEN 0 ELSE txns[metadata]

(* The course of the stream up to batch h: end[i] is where batch i ends.   *)
Course(end, h) ==
    /\ end \in [Nat -> 0..N] /\ h \in Nat /\ end[0] = 0
    /\ \A i \in 1..h : end[i] \in Reads[end[i - 1]]
    /\ \A i, j \in 0..h : i < j => end[i] < end[j]

(* Everything in the logs, in the drivers and in the table follows it.     *)
LogsFollow(end, h) == \A i \in DOMAIN offsets : i \in 1..h /\ offsets[i] = end[i]
DriverFollows(d, end, h) ==
    /\ Planned(d) => /\ batch[d] \in 1..(h + 1) /\ start[d] = end[batch[d] - 1]
    /\ Staged(d) => batch[d] \in 1..h /\ upto[d] = end[batch[d]]
    /\ pc[d] = "position" => batch[d] \in 1..(h + 1)
TableFollows(end, h) ==
    \A x \in table : x.id \in 1..h /\ x.rows = end[x.id - 1] + 1 .. end[x.id]
Follows(end, h) ==
    LogsFollow(end, h) /\ TableFollows(end, h) /\ \A d \in Drivers : DriverFollows(d, end, h)

(* The table holds each id up to the last, once.                           *)
IdsExact ==
    /\ \A x \in table : x.id \in 1..Top
    /\ \A x, y \in table : x.id = y.id => x = y
    /\ \A i \in 1..Top : \E x \in table : x.id = i

(* A driver never works on an id more than one past the last in the table, *)
(* and its record in the offset log outlives it unless a later commit is   *)
(* there: what one driver sweeps another has no need of, unless it is      *)
(* between its reads of the logs, where only a flock protects it.          *)
DriverLogs(d) ==
    /\ Planned(d) \/ pc[d] = "position" => batch[d] - 1 \in 0..Top
    /\ Written(d) => batch[d] <= Top
    /\ Logged(d) => batch[d] \in DOMAIN offsets \/ \E c \in commits : c > batch[d]
    /\ pc[d] \in {"prune", "sweep"} => \E c \in commits : c >= batch[d]
    /\ mode = "local" /\ pc[d] = "position" => batch[d] - 1 \in DOMAIN offsets
CommitsLogged ==
    /\ commits \subseteq 1..Top
    /\ \A c \in commits : c \in DOMAIN offsets \/ \E e \in commits : e > c
LogsExact == CommitsLogged /\ \A d \in Drivers : DriverLogs(d)

TableInv ==
    /\ LeaseInv /\ OneId /\ IdsExact /\ LogsExact
    /\ \E end, h : Course(end, h) /\ Follows(end, h)

(* Batches of a course are disjoint, and cover what lies before the end of *)
(* any of them.                                                            *)
LEMMA CourseDisjoint ==
    ASSUME NEW end, NEW h, Course(end, h), NEW i \in 1..h, NEW j \in 1..h,
           NEW r \in Nat, r \in end[i - 1] + 1 .. end[i], r \in end[j - 1] + 1 .. end[j]
    PROVE  i = j
<1>1. \A m, n \in 1..h : m < n => ~ (r \in end[m - 1] + 1 .. end[m] /\ r \in end[n - 1] + 1 .. end[n])
  <2> SUFFICES ASSUME NEW m \in 1..h, NEW n \in 1..h, m < n,
                      r <= end[m], end[n - 1] + 1 <= r
               PROVE  FALSE
    OBVIOUS
  <2>1. h \in Nat /\ end[m] \in Nat /\ end[n - 1] \in Nat
    BY OwnerAssumption DEF Course
  <2>2. m = n - 1 \/ (m \in 0..h /\ n - 1 \in 0..h /\ m < n - 1)
    BY <2>1
  <2>3. end[m] <= end[n - 1]
    BY <2>1, <2>2 DEF Course
  <2> QED
    BY <2>1, <2>3
<1> QED
  BY <1>1 DEF Course

(* The epochs of a course up to the c-th leave no row before its end out.  *)
LEMMA CourseCovers ==
    ASSUME NEW end, NEW h, Course(end, h), NEW c \in 1..h, NEW r \in 1..end[c]
    PROVE  \E i \in 1..c : r \in end[i - 1] + 1 .. end[i]
<1> DEFINE S == {n \in Nat : end[n] >= r}
<1>1. h \in Nat /\ c \in Nat /\ end[c] \in Nat /\ r \in Nat /\ r >= 1 /\ \A n \in Nat : end[n] \in Nat
  BY OwnerAssumption DEF Course
<1>2. c \in S
  BY <1>1
<1>3. PICK i \in S : \A y \in S : ~ (<<y, i>> \in OpToRel(<, Nat))
  BY <1>2, NatLessThanWellFounded, WFMin
<1>4. i \in Nat /\ end[i] >= r /\ \A y \in Nat : end[y] >= r => ~ (y < i)
  BY <1>3 DEF OpToRel
<1>5. i # 0
  BY <1>1, <1>4 DEF Course
<1>6. i <= c /\ i - 1 \in Nat
  BY <1>1, <1>2, <1>4, <1>5
<1>7. end[i - 1] < r
  BY <1>1, <1>4, <1>6
<1> QED
  BY <1>1, <1>4, <1>5, <1>6, <1>7

(* The last committed id is logged: a later commit would excuse it.        *)
LEMMA LastLogged ==
    ASSUME LeaseInv, LogsExact, commits # {}
    PROVE  LastCommitted \in commits /\ LastCommitted \in DOMAIN offsets
<1>1. /\ LastCommitted \in commits \cup {0} /\ LastCommitted \in Nat
      /\ \A c \in commits : c <= LastCommitted
  BY LastIn DEF LeaseInv, LogTypes
<1>2. \A c \in commits : c \in Nat /\ c >= 1
  <2>1. Top \in Nat
    BY DEF LeaseInv, LeaseTypes, SinkTypes, Top
  <2> QED
    BY <2>1 DEF LogsExact, CommitsLogged
<1>3. LastCommitted \in commits
  <2>1. PICK c \in commits : TRUE
    OBVIOUS
  <2>2. LastCommitted # 0
    BY <1>1, <1>2, <2>1
  <2> QED
    BY <1>1, <2>2
<1>4. ~ \E e \in commits : e > LastCommitted
  BY <1>1, <1>2
<1> QED
  BY <1>3, <1>4 DEF LogsExact, CommitsLogged

(* What the table promises while no driver is astray.                      *)
Exact ==
    /\ \A r \in Rows : Cardinality(Transactions(r)) <= 1
    /\ commits # {} => /\ LastCommitted \in DOMAIN offsets
                       /\ \A r \in 1..offsets[LastCommitted] : Transactions(r) # {}

(* The invariant contains it.                                              *)
LEMMA TableImplies == TableInv => Exact
<1> SUFFICES ASSUME TableInv PROVE Exact
  OBVIOUS
<1>1. PICK end, h : Course(end, h) /\ Follows(end, h)
  BY DEF TableInv
<1>2. ASSUME NEW r \in Rows PROVE Cardinality(Transactions(r)) <= 1
  <2>1. r \in Nat
    BY <1>2, OwnerAssumption DEF Rows
  <2>2. ASSUME NEW x \in Transactions(r), NEW y \in Transactions(r) PROVE x = y
    <3>1. /\ x \in table /\ y \in table /\ x.id \in 1..h /\ y.id \in 1..h
          /\ r \in end[x.id - 1] + 1 .. end[x.id] /\ r \in end[y.id - 1] + 1 .. end[y.id]
      BY <1>1, <2>2 DEF Transactions, Follows, TableFollows
    <3>2. x.id = y.id
      BY <1>1, <2>1, <3>1, CourseDisjoint
    <3> QED
      BY <3>1, <3>2 DEF TableInv, IdsExact
  <2>3. Transactions(r) = {} \/ \E x : Transactions(r) = {x}
    BY <2>2
  <2>4. Cardinality(Transactions(r)) \in {0, 1}
    BY <2>3, FS_EmptySet, FS_Singleton, Zenon
  <2> QED
    BY <2>4
<1>3. ASSUME commits # {}
      PROVE  /\ LastCommitted \in DOMAIN offsets
             /\ \A r \in 1..offsets[LastCommitted] : Transactions(r) # {}
  <2>1. LastCommitted \in commits /\ LastCommitted \in DOMAIN offsets
    BY <1>3, LastLogged DEF TableInv
  <2>2. LastCommitted \in 1..h /\ offsets[LastCommitted] = end[LastCommitted]
    BY <1>1, <2>1 DEF Follows, LogsFollow
  <2>3. ASSUME NEW r \in 1..end[LastCommitted] PROVE Transactions(r) # {}
    <3>1. PICK i \in 1..LastCommitted : r \in end[i - 1] + 1 .. end[i]
      BY <1>1, <2>2, <2>3, CourseCovers
    <3>2. i \in 1..Top
      <4>1. LastCommitted \in 1..Top /\ Top \in Nat
        BY <2>1 DEF TableInv, LogsExact, CommitsLogged, LeaseInv, LeaseTypes, SinkTypes, Top
      <4> QED
        BY <4>1
    <3>3. PICK x \in table : x.id = i
      BY <3>2 DEF TableInv, IdsExact
    <3> QED
      BY <1>1, <3>1, <3>3 DEF Follows, TableFollows, Transactions
  <2> QED
    BY <2>1, <2>2, <2>3
<1> QED
  BY <1>2, <1>3 DEF Exact

(* The invariant holds in every initial state.                             *)
LEMMA TableInit == Init => TableInv
<1> SUFFICES ASSUME Init PROVE TableInv
  OBVIOUS
<1>1. OneId /\ Top = 0
  BY OwnerAssumption DEF Init, OneId, Top
<1>2. IdsExact /\ LogsExact
  BY <1>1 DEF Init, IdsExact, LogsExact, CommitsLogged, DriverLogs, Planned, Written, Logged
<1>3. Course([i \in Nat |-> 0], 0)
  BY OwnerAssumption DEF Course
<1>4. Follows([i \in Nat |-> 0], 0)
  BY DEF Init, Follows, LogsFollow, TableFollows, DriverFollows, Planned, Staged
<1> QED
  BY <1>1, <1>2, <1>3, <1>4, LeaseInit DEF TableInv

(* The application id is persisted once, since no driver looks for it      *)
(* while another is about to write it.                                     *)
LEMMA OneIdStep ==
    ASSUME ~ RacingStarts, LeaseInv, OneId, NEW d \in Drivers, ResolveId(d) \/ Step(d) \/ Crash(d)
    PROVE  OneId'
<1>1. /\ pc \in [Drivers -> Labels] /\ app \in [Drivers -> Drivers \cup {Nobody}]
      /\ txns \in [Drivers -> Nat] /\ metadata \in Drivers \cup {Nobody}
  BY DEF LeaseInv, LeaseTypes, SinkTypes, MineTypes, RestTypes
<1>2. CASE ResolveId(d)
  <2>1. CASE metadata # Nobody
    <3>1. /\ pc' = [pc EXCEPT ![d] = "claim"] /\ app' = [app EXCEPT ![d] = metadata]
          /\ metadata' = metadata /\ txns' = txns
      BY <1>2, <2>1 DEF ResolveId, Goto, lease, sink
    <3> QED
      BY <1>1, <2>1, <3>1 DEF OneId
  <2>2. CASE metadata = Nobody
    <3>1. /\ pc' = [pc EXCEPT ![d] = "persist"] /\ app' = app
          /\ metadata' = metadata /\ txns' = txns /\ \A e \in Drivers : pc[e] # "persist"
      BY <1>2, <2>2 DEF ResolveId, Goto, lease, sink
    <3> QED
      BY <1>1, <2>2, <3>1 DEF OneId
  <2> QED
    BY <2>1, <2>2
<1>3. CASE PersistId(d)
  <2>1. /\ pc' = [pc EXCEPT ![d] = "claim"] /\ app' = [app EXCEPT ![d] = d] /\ pc[d] = "persist"
        /\ metadata' = d /\ txns' = txns
    BY <1>3 DEF PersistId, Goto, sink
  <2>2. metadata = Nobody /\ \A e \in Drivers : e # d => pc'[e] \in {"new", "stopped"}
    BY <1>1, <2>1 DEF OneId, Labels
  <2>3. \A e \in Drivers : txns[e] = 0
    BY <2>2, OwnerAssumption DEF OneId
  <2> QED
    BY <1>1, <2>1, <2>2, <2>3, OwnerAssumption DEF OneId
<1>4. CASE ~ ResolveId(d) /\ ~ PersistId(d)
  <2>1. /\ metadata' = metadata /\ app' = app
        /\ \E l \in Labels \ {"new", "persist"} : pc' = [pc EXCEPT ![d] = l]
        /\ pc[d] \notin {"new", "stopped"}
        /\ pc[d] = "persist" => pc' = [pc EXCEPT ![d] = "stopped"]
    BY <1>4 DEF Step, Claim, ReadOffsetLog, ReadCommitLog, ReadPosition, FromTheBeginning, Stage, Verify,
                Fenced, WriteOffsets, CheckTable, Append, WriteCommit, SweepOffsets, SweepCommits,
                NextEpoch, Crash, Goto, lease, mine, Labels
  <2>2. txns' = txns \/ (txns' = [txns EXCEPT ![app[d]] = batch[d]] /\ pc[d] = "append")
    BY <1>4 DEF Step, Claim, ReadOffsetLog, ReadCommitLog, ReadPosition, Stage, Verify, WriteOffsets,
                CheckTable, Append, WriteCommit, SweepOffsets, SweepCommits, Crash, sink
  <2>3. \A a \in Drivers : a # metadata' => txns'[a] = 0
    BY <1>1, <2>1, <2>2 DEF OneId
  <2>4. PICK l \in Labels \ {"new", "persist"} :
            pc' = [pc EXCEPT ![d] = l] /\ (pc[d] = "persist" => l = "stopped")
    BY <1>1, <2>1
  <2>5. \A e \in Drivers : pc'[e] = IF e = d THEN l ELSE pc[e]
    BY <1>1, <2>4
  <2>6. \A e \in Drivers : pc'[e] \notin {"new", "persist", "stopped"} =>
                             metadata' # Nobody /\ app'[e] = metadata'
    BY <2>1, <2>4, <2>5 DEF OneId
  <2> QED
    BY <2>1, <2>3, <2>4, <2>5, <2>6 DEF OneId
<1> QED
  BY <1>2, <1>3, <1>4

(* What a step that writes neither log nor table keeps of the invariant.   *)
LEMMA OthersKept ==
    ASSUME TableInv, NEW d \in Drivers, UNCHANGED <<mode, offsets, commits, table>>, Top' = Top,
           \A e \in Drivers \ {d} : /\ pc'[e] = pc[e] /\ batch'[e] = batch[e]
                                     /\ start'[e] = start[e] /\ upto'[e] = upto[e]
    PROVE  /\ IdsExact' /\ CommitsLogged' /\ \A e \in Drivers \ {d} : DriverLogs(e)'
           /\ \A end, h : Follows(end, h) =>
                 /\ LogsFollow(end, h)' /\ TableFollows(end, h)'
                 /\ \A e \in Drivers \ {d} : DriverFollows(e, end, h)'
<1>1. IdsExact' /\ CommitsLogged'
  BY DEF TableInv, IdsExact, LogsExact, CommitsLogged
<1>2. \A e \in Drivers \ {d} : DriverLogs(e)'
  BY DEF TableInv, LogsExact, DriverLogs, Planned, Written, Logged
<1>3. ASSUME NEW end, NEW h, Follows(end, h)
      PROVE  /\ LogsFollow(end, h)' /\ TableFollows(end, h)'
             /\ \A e \in Drivers \ {d} : DriverFollows(e, end, h)'
  BY <1>3 DEF Follows, LogsFollow, TableFollows, DriverFollows, Planned, Staged
<1> QED
  BY <1>1, <1>2, <1>3

(* A driver that only moves on, its epoch unchanged.                       *)
LEMMA MoveStep ==
    ASSUME TableInv, LeaseInv', OneId', NEW d \in Drivers, NEW l \in Labels,
           UNCHANGED <<mode, offsets, commits, table, batch, start, upto>>, Top' = Top,
           pc' = [pc EXCEPT ![d] = l],
           Planned(d)' => Planned(d), Staged(d)' => Staged(d), Logged(d)' => Logged(d),
           Written(d)' => Written(d) \/ batch[d] <= Top,
           l \notin {"prune", "sweep", "position"}
    PROVE  TableInv'
<1>1. pc \in [Drivers -> Labels]
  BY DEF TableInv, LeaseInv, RestTypes
<1>2. \A e \in Drivers \ {d} : /\ pc'[e] = pc[e] /\ batch'[e] = batch[e]
                                /\ start'[e] = start[e] /\ upto'[e] = upto[e]
  BY <1>1
<1>3. DriverLogs(d)'
  <2>1. DriverLogs(d) /\ pc'[d] \notin {"prune", "sweep", "position"}
    BY <1>1 DEF TableInv, LogsExact
  <2> QED
    BY <2>1 DEF DriverLogs
<1>4. PICK end, h : Course(end, h) /\ Follows(end, h)
  BY DEF TableInv
<1>5. DriverFollows(d, end, h)'
  <2>1. DriverFollows(d, end, h) /\ pc'[d] # "position"
    BY <1>1, <1>4 DEF Follows
  <2> QED
    BY <2>1 DEF DriverFollows
<1>6. Follows(end, h)'
  BY <1>2, <1>4, <1>5, OthersKept DEF Follows
<1> QED
  BY <1>2, <1>3, <1>4, <1>6, OthersKept DEF TableInv, LogsExact

(* Where the invariant needs no more than the lemma above: start-up, the   *)
(* fence, the pre-check and a crash.                                       *)
LEMMA MovesKept ==
    ASSUME TableInv, LeaseInv', OneId', NEW d \in Drivers,
           \/ ResolveId(d) \/ PersistId(d) \/ Claim(d) \/ Verify(d) \/ CheckTable(d) \/ Crash(d)
    PROVE  TableInv'
<1>1. pc \in [Drivers -> Labels] /\ LeaseInv /\ OneId
  BY DEF TableInv, LeaseInv, RestTypes
<1>2. UNCHANGED <<mode, offsets, commits, table, txns, batch, start, upto>>
  BY DEF ResolveId, PersistId, Claim, Verify, CheckTable, Crash, logs, sink, mine
<1>3. Top' = Top
  <2>1. CASE PersistId(d)
    BY <1>1, <1>2, <2>1, OwnerAssumption DEF PersistId, OneId, Top
  <2>2. CASE ~ PersistId(d)
    BY <1>2, <2>2 DEF ResolveId, Claim, Verify, CheckTable, Crash, lease, Top
  <2> QED
    BY <2>1, <2>2
<1>4. CASE Verify(d)
  <2>1. /\ pc[d] \in {"record", "finish"}
        /\ \E l \in {"offsets", "commit", "stopped"} :
             /\ pc' = [pc EXCEPT ![d] = l]
             /\ l = "offsets" => pc[d] = "record"
             /\ l = "commit" => pc[d] = "finish"
    BY <1>4 DEF Verify, Fenced, Goto
  <2>2. PICK l \in {"offsets", "commit", "stopped"} :
             /\ pc' = [pc EXCEPT ![d] = l]
             /\ l = "offsets" => pc[d] = "record"
             /\ l = "commit" => pc[d] = "finish"
    BY <2>1
  <2>3. pc'[d] = l /\ l \in Labels
    BY <1>1, <2>2 DEF Labels
  <2>4. /\ Planned(d)' => Planned(d)
        /\ Staged(d)' => Staged(d)
        /\ Logged(d)' => Logged(d)
        /\ Written(d)' => Written(d)
    BY <2>1, <2>2, <2>3 DEF Planned, Staged, Logged, Written
  <2> QED
    BY <1>2, <1>3, <2>2, <2>3, <2>4, MoveStep
<1>5. CASE CheckTable(d)
  <2>1. PICK l \in {"append", "finish"} :
            pc' = [pc EXCEPT ![d] = l] /\ (l = "finish" => Recorded(d)) /\ pc[d] = "check"
    BY <1>5 DEF CheckTable, Goto
  <2>2. pc'[d] = l /\ l \in Labels
    BY <1>1, <2>1 DEF Labels
  <2>3. /\ app[d] = metadata /\ metadata # Nobody /\ batch[d] \in Nat /\ txns[metadata] \in Nat
    BY <1>1, <2>1 DEF OneId, LeaseInv, LeaseTypes, SinkTypes, MineTypes
  <2>4. l = "finish" => batch[d] <= Top
    BY <2>1, <2>3 DEF Recorded, Top
  <2>5. /\ Planned(d)' => Planned(d)
        /\ Staged(d)' => Staged(d)
        /\ Logged(d)' => Logged(d)
        /\ Written(d)' => Written(d) \/ batch[d] <= Top
    BY <2>1, <2>2, <2>4 DEF Planned, Staged, Logged, Written
  <2> QED
    BY <1>2, <1>3, <2>1, <2>2, <2>5, MoveStep
<1>6. CASE ~ Verify(d) /\ ~ CheckTable(d)
  <2>1. PICK l \in {"persist", "claim", "recover", "stopped"} : pc' = [pc EXCEPT ![d] = l]
    BY <1>6 DEF ResolveId, PersistId, Claim, Crash, Goto
  <2>2. pc'[d] = l /\ l \in Labels
    BY <1>1, <2>1 DEF Labels
  <2>3. ~ Planned(d)' /\ ~ Staged(d)' /\ ~ Logged(d)' /\ ~ Written(d)'
    BY <2>2 DEF Planned, Staged, Logged, Written
  <2> QED
    BY <1>2, <1>3, <2>1, <2>2, <2>3, MoveStep
<1> QED
  BY <1>4, <1>5, <1>6

(* Recovery resumes where the last committed batch ends: it reads an id    *)
(* the table holds, and then that id's position, if it is still there.     *)
LEMMA RecoverKept ==
    ASSUME TableInv, LeaseInv', OneId', NEW d \in Drivers, astray' = {},
           ReadOffsetLog(d) \/ ReadCommitLog(d) \/ ReadPosition(d)
    PROVE  TableInv'
<1>1. /\ pc \in [Drivers -> Labels] /\ batch \in [Drivers -> Nat] /\ start \in [Drivers -> 0..N]
      /\ LeaseInv
  BY DEF TableInv, LeaseInv, RestTypes, MineTypes
<1>2. UNCHANGED <<mode, offsets, commits, table, upto>> /\ Top' = Top
  BY DEF ReadOffsetLog, ReadCommitLog, ReadPosition, lease, logs, sink, Top
<1>3. PICK end, h : Course(end, h) /\ Follows(end, h)
  BY DEF TableInv
<1>4. h \in Nat /\ end[0] = 0 /\ Top \in Nat
  BY <1>1, <1>3 DEF Course, LeaseInv, LeaseTypes, SinkTypes, Top
<1>5. ASSUME NEW l \in Labels, NEW b \in 1..(h + 1), NEW p \in 0..N,
             pc' = [pc EXCEPT ![d] = l], batch' = [batch EXCEPT ![d] = b],
             start' = [start EXCEPT ![d] = p], b - 1 \in 0..Top,
             l \in {"stage", "position"}, l = "stage" => p = end[b - 1],
             mode = "local" /\ l = "position" => b - 1 \in DOMAIN offsets
      PROVE  TableInv'
  <2>1. /\ pc'[d] = l /\ batch'[d] = b /\ start'[d] = p
        /\ \A e \in Drivers \ {d} : /\ pc'[e] = pc[e] /\ batch'[e] = batch[e]
                                     /\ start'[e] = start[e] /\ upto'[e] = upto[e]
    BY <1>1, <1>2, <1>5
  <2>2. ~ Staged(d)' /\ ~ Logged(d)' /\ ~ Written(d)' /\ pc'[d] \notin {"prune", "sweep"}
    BY <1>5, <2>1 DEF Staged, Logged, Written
  <2>3. DriverFollows(d, end, h)'
    BY <1>5, <2>1, <2>2 DEF DriverFollows, Planned
  <2>4. DriverLogs(d)'
    BY <1>2, <1>5, <2>1, <2>2 DEF DriverLogs
  <2>5. Follows(end, h)'
    BY <1>2, <1>3, <2>1, <2>3, OthersKept DEF Follows
  <2> QED
    BY <1>2, <1>3, <2>1, <2>4, <2>5, OthersKept DEF TableInv, LogsExact
<1>6. CASE FromTheBeginning(d)
  <2>1. 1 \in 1..(h + 1) /\ 1 - 1 = 0 /\ 0 \in 0..N /\ 0 \in 0..Top
    BY <1>4, OwnerAssumption
  <2> QED
    BY <1>4, <1>5, <1>6, <2>1 DEF FromTheBeginning, Goto, Labels
<1>7. CASE ReadOffsetLog(d) /\ ~ FromTheBeginning(d)
  <2>1. pc' = [pc EXCEPT ![d] = "committed"] /\ UNCHANGED <<batch, start>>
    BY <1>7 DEF ReadOffsetLog, Goto
  <2>2. pc'[d] = "committed" /\ "committed" \in Labels
    BY <1>1, <2>1 DEF Labels
  <2>3. ~ Planned(d)' /\ ~ Staged(d)' /\ ~ Logged(d)' /\ ~ Written(d)'
    BY <2>2 DEF Planned, Staged, Logged, Written
  <2> QED
    BY <1>2, <2>1, <2>2, <2>3, MoveStep
<1>8. CASE ReadCommitLog(d) /\ ~ FromTheBeginning(d)
  <2>1. /\ commits # {} /\ pc' = [pc EXCEPT ![d] = "position"] /\ start' = start
        /\ batch' = [batch EXCEPT ![d] = LastCommitted + 1]
    BY <1>8 DEF ReadCommitLog, Goto
  <2>2. LastCommitted \in commits /\ LastCommitted \in DOMAIN offsets
    BY <1>1, <2>1, LastLogged DEF TableInv
  <2>3. LastCommitted \in 1..h /\ LastCommitted \in 1..Top
    BY <1>3, <2>2 DEF Follows, LogsFollow, TableInv, LogsExact, CommitsLogged
  <2>4. /\ LastCommitted + 1 \in 1..(h + 1) /\ (LastCommitted + 1) - 1 = LastCommitted
        /\ LastCommitted \in 0..Top
    BY <1>4, <2>3
  <2>5. (LastCommitted + 1) - 1 \in DOMAIN offsets /\ (LastCommitted + 1) - 1 \in 0..Top
    BY <2>2, <2>4
  <2>6. start[d] \in 0..N /\ start' = [start EXCEPT ![d] = start[d]]
    BY <1>1, <2>1
  <2>7. "position" \in Labels
    BY DEF Labels
  <2> QED
    BY <1>5, <2>1, <2>4, <2>5, <2>6, <2>7
<1>9. CASE ReadPosition(d)
  <2>1. /\ batch[d] - 1 \in DOMAIN offsets /\ pc[d] = "position"
        /\ pc' = [pc EXCEPT ![d] = "stage"] /\ batch' = batch
        /\ start' = [start EXCEPT ![d] = offsets[batch[d] - 1]]
    BY <1>9 DEF ReadPosition, Goto
  <2>2. batch[d] \in 1..(h + 1) /\ batch[d] - 1 \in 0..Top
    BY <1>3, <2>1 DEF Follows, DriverFollows, TableInv, LogsExact, DriverLogs
  <2>3. offsets[batch[d] - 1] = end[batch[d] - 1] /\ offsets[batch[d] - 1] \in 0..N
    BY <1>1, <1>3, <2>1 DEF Follows, LogsFollow, LeaseInv, LogTypes
  <2>4. batch' = [batch EXCEPT ![d] = batch[d]]
    BY <1>1, <2>1
  <2>5. "stage" \in Labels
    BY DEF Labels
  <2> QED
    BY <1>5, <2>1, <2>2, <2>3, <2>4, <2>5
<1> QED
  BY <1>6, <1>7, <1>8, <1>9

(* A read goes where every read of the batch goes: it follows the course,  *)
(* or is the first of its batch and carries the course on.                 *)
LEMMA StageKept ==
    ASSUME Deterministic, TableInv, LeaseInv', OneId', NEW d \in Drivers, Stage(d)
    PROVE  TableInv'
<1>1. pc \in [Drivers -> Labels] /\ upto \in [Drivers -> 0..N] /\ LeaseInv
  BY DEF TableInv, LeaseInv, RestTypes, MineTypes
<1>2. PICK q \in Reads[start[d]] :
          /\ UNCHANGED <<mode, offsets, commits, table, batch, start>> /\ Top' = Top
          /\ pc' = [pc EXCEPT ![d] = "record"] /\ pc[d] = "stage"
          /\ upto' = [upto EXCEPT ![d] = q]
  BY DEF Stage, Goto, lease, logs, sink, Top
<1>3. \A e \in Drivers \ {d} : /\ pc'[e] = pc[e] /\ batch'[e] = batch[e]
                                /\ start'[e] = start[e] /\ upto'[e] = upto[e]
  BY <1>1, <1>2
<1>4. PICK end, h : Course(end, h) /\ Follows(end, h)
  BY DEF TableInv
<1>5. pc'[d] = "record" /\ upto'[d] = q /\ batch'[d] = batch[d] /\ start'[d] = start[d]
  BY <1>1, <1>2
<1>6. /\ batch[d] \in 1..(h + 1) /\ start[d] = end[batch[d] - 1] /\ h \in Nat
      /\ start[d] \in 0..N /\ q \in 0..N /\ q > start[d]
  <2>1. DriverFollows(d, end, h) /\ Planned(d) /\ h \in Nat
    BY <1>2, <1>4 DEF Follows, Planned, Course
  <2>2. start[d] \in 0..N
    BY <1>1 DEF LeaseInv, MineTypes
  <2> QED
    BY <1>2, <2>1, <2>2, OwnerAssumption DEF DriverFollows
<1>7. DriverLogs(d)'
  <2>1. DriverLogs(d) /\ Planned(d)
    BY <1>2 DEF TableInv, LogsExact, Planned
  <2> QED
    BY <1>2, <1>5, <2>1 DEF DriverLogs, Planned, Written, Logged
<1>8. CASE batch[d] \in 1..h
  <2>1. end[batch[d]] \in Reads[end[batch[d] - 1]]
    BY <1>4, <1>8 DEF Course
  <2>2. q = end[batch[d]]
    BY <1>2, <1>6, <2>1 DEF Deterministic
  <2>3. DriverFollows(d, end, h)'
    BY <1>5, <1>6, <1>8, <2>2 DEF DriverFollows
  <2>4. Follows(end, h)'
    BY <1>2, <1>3, <1>4, <2>3, OthersKept DEF Follows
  <2> QED
    BY <1>2, <1>3, <1>4, <1>7, <2>4, OthersKept DEF TableInv, LogsExact
<1>9. CASE batch[d] \notin 1..h
  <2> DEFINE on == [end EXCEPT ![h + 1] = q]
  <2>1. batch[d] = h + 1 /\ start[d] = end[h]
    BY <1>6, <1>9
  <2>2. /\ on \in [Nat -> 0..N] /\ on[h + 1] = q /\ \A i \in 0..h : on[i] = end[i]
        /\ end \in [Nat -> 0..N]
    BY <1>4, <1>6 DEF Course
  <2> HIDE DEF on
  <2>3. Course(on, h + 1)
    <3>1. on[0] = 0 /\ h + 1 \in Nat
      BY <1>4, <1>6, <2>2 DEF Course
    <3>2. ASSUME NEW i \in 1..(h + 1) PROVE on[i] \in Reads[on[i - 1]]
      <4>1. i - 1 \in 0..h /\ on[i - 1] = end[i - 1]
        BY <1>6, <2>2
      <4>2. CASE i = h + 1
        <5>1. i - 1 = h
          BY <1>6, <4>2
        <5> QED
          BY <1>2, <2>1, <2>2, <4>1, <4>2, <5>1
      <4>3. CASE i # h + 1
        <5>1. i \in 1..h
          BY <1>6, <4>3
        <5>2. i \in 0..h
          BY <1>6, <5>1
        <5> QED
          BY <1>4, <2>2, <4>1, <5>1, <5>2 DEF Course
      <4> QED
        BY <4>2, <4>3
    <3>3. ASSUME NEW i \in 0..(h + 1), NEW j \in 0..(h + 1), i < j PROVE on[i] < on[j]
      <4>1. i \in 0..h /\ on[i] = end[i] /\ end[i] \in 0..N
        BY <1>6, <2>2, <3>3
      <4>2. CASE j = h + 1
        <5>1. i = h \/ end[i] < end[h]
          BY <1>4, <1>6, <4>1 DEF Course
        <5>2. end[h] \in 0..N /\ q > end[h]
          BY <1>6, <2>1, <2>2
        <5> QED
          BY <1>6, <2>2, <4>1, <4>2, <5>1, <5>2
      <4>3. CASE j # h + 1
        <5>1. j \in 0..h
          BY <1>6, <4>3
        <5> QED
          BY <1>4, <2>2, <3>3, <4>1, <5>1 DEF Course
      <4> QED
        BY <4>2, <4>3
    <3> QED
      BY <2>2, <3>1, <3>2, <3>3 DEF Course
  <2>4. \A i \in 1..h : i \in 1..(h + 1) /\ i \in 0..h /\ i - 1 \in 0..h
    BY <1>6
  <2>5. LogsFollow(on, h + 1)' /\ TableFollows(on, h + 1)'
    BY <1>2, <1>4, <2>2, <2>4 DEF Follows, LogsFollow, TableFollows
  <2>6. DriverFollows(d, on, h + 1)'
    <3>1. (h + 1) - 1 = h /\ h \in 0..h /\ h + 1 \in 1..(h + 1) /\ h + 1 \in 1..((h + 1) + 1)
      BY <1>6
    <3> QED
      BY <1>5, <2>1, <2>2, <3>1 DEF DriverFollows
  <2>7. ASSUME NEW e \in Drivers \ {d} PROVE DriverFollows(e, on, h + 1)'
    <3>1. DriverFollows(e, end, h)
      BY <1>4 DEF Follows
    <3>2. \A i \in 1..(h + 1) : i \in 1..((h + 1) + 1) /\ i - 1 \in 0..h
      BY <1>6
    <3>3. Planned(e) => batch[e] \in 1..((h + 1) + 1) /\ start[e] = on[batch[e] - 1]
      BY <2>2, <3>1, <3>2 DEF DriverFollows
    <3>4. Staged(e) => batch[e] \in 1..(h + 1) /\ upto[e] = on[batch[e]]
      BY <2>2, <2>4, <3>1 DEF DriverFollows
    <3>5. pc[e] = "position" => batch[e] \in 1..((h + 1) + 1)
      BY <3>1, <3>2 DEF DriverFollows
    <3> QED
      BY <1>3, <3>3, <3>4, <3>5 DEF DriverFollows, Planned, Staged
  <2>8. Follows(on, h + 1)'
    BY <2>5, <2>6, <2>7 DEF Follows
  <2> QED
    BY <1>2, <1>3, <1>7, <2>3, <2>8, OthersKept DEF TableInv, LogsExact
<1> QED
  BY <1>8, <1>9

(* An offset record says where its batch ends, also when a superseded      *)
(* driver writes it over another's.                                        *)
LEMMA OffsetsKept ==
    ASSUME TableInv, LeaseInv', OneId', NEW d \in Drivers, WriteOffsets(d)
    PROVE  TableInv'
<1>1. /\ UNCHANGED <<mode, commits, table, batch, start, upto>> /\ Top' = Top
      /\ pc' = [pc EXCEPT ![d] = "check"] /\ pc[d] = "offsets"
      /\ DOMAIN offsets' = DOMAIN offsets \cup {batch[d]}
      /\ \A i \in DOMAIN offsets' : offsets'[i] = IF i = batch[d] THEN upto[d] ELSE offsets[i]
  BY DEF WriteOffsets, Goto, lease, sink, mine, Top
<1>2. \A e \in Drivers : pc'[e] = IF e = d THEN "check" ELSE pc[e]
  BY <1>1 DEF TableInv, LeaseInv, RestTypes
<1>3. PICK end, h : Course(end, h) /\ Follows(end, h)
  BY DEF TableInv
<1>4. Planned(d) /\ Staged(d)
  BY <1>1 DEF Planned, Staged
<1>5. batch[d] \in 1..h /\ upto[d] = end[batch[d]]
  BY <1>3, <1>4 DEF Follows, DriverFollows
<1>6. LogsFollow(end, h)' /\ TableFollows(end, h)'
  BY <1>1, <1>3, <1>5 DEF Follows, LogsFollow, TableFollows
<1>7. ASSUME NEW e \in Drivers PROVE DriverFollows(e, end, h)' /\ DriverLogs(e)'
  <2>1. DriverFollows(e, end, h) /\ DriverLogs(e)
    BY <1>3 DEF Follows, TableInv, LogsExact
  <2>2. CASE e = d
    BY <1>1, <1>2, <1>4, <2>1, <2>2 DEF DriverFollows, DriverLogs, Planned, Staged, Logged, Written
  <2>3. CASE e # d
    BY <1>1, <1>2, <2>1, <2>3 DEF DriverFollows, DriverLogs, Planned, Staged, Logged, Written
  <2> QED
    BY <2>2, <2>3
<1>8. IdsExact' /\ CommitsLogged'
  BY <1>1 DEF TableInv, IdsExact, LogsExact, CommitsLogged
<1>9. Follows(end, h)'
  BY <1>6, <1>7 DEF Follows
<1> QED
  BY <1>3, <1>7, <1>8, <1>9 DEF TableInv, LogsExact

(* The table's log takes the id after its last one, or refuses.            *)
LEMMA AppendKept ==
    ASSUME TableInv, LeaseInv', OneId', NEW d \in Drivers, Append(d)
    PROVE  TableInv'
<1>1. /\ UNCHANGED <<mode, metadata, offsets, commits, batch, start, upto>>
      /\ pc' = [pc EXCEPT ![d] = "finish"] /\ pc[d] = "append"
  BY DEF Append, Goto, lease, logs, mine
<1>2. \A e \in Drivers : pc'[e] = IF e = d THEN "finish" ELSE pc[e]
  BY <1>1 DEF TableInv, LeaseInv, RestTypes
<1>3. /\ app[d] = metadata /\ metadata \in Drivers /\ Top = txns[metadata] /\ Top \in Nat
      /\ txns \in [Drivers -> Nat]
  BY <1>1 DEF TableInv, OneId, LeaseInv, LeaseTypes, SinkTypes, Top
<1>4. PICK end, h : Course(end, h) /\ Follows(end, h)
  BY DEF TableInv
<1>5. Planned(d) /\ Staged(d) /\ Logged(d)
  BY <1>1 DEF Planned, Staged, Logged
<1>6. /\ batch[d] \in 1..h /\ start[d] = end[batch[d] - 1] /\ upto[d] = end[batch[d]] /\ h \in Nat
  BY <1>4, <1>5 DEF Course, Follows, DriverFollows
<1>7. batch[d] - 1 \in 0..Top
  BY <1>5 DEF TableInv, LogsExact, DriverLogs
<1>8. /\ Top' \in Nat /\ Top <= Top' /\ batch[d] <= Top' /\ IdsExact' /\ TableFollows(end, h)'
  <2>1. CASE Recorded(d)
    <3>1. table' = table /\ txns' = txns /\ Top' = Top
      BY <1>1, <2>1 DEF Append, sink, Top
    <3>2. batch[d] <= Top
      BY <1>3, <1>6, <2>1 DEF Recorded
    <3> QED
      BY <1>3, <1>4, <3>1, <3>2 DEF TableInv, IdsExact, Follows, TableFollows
  <2>2. CASE ~ Recorded(d)
    <3> DEFINE x == [by |-> d, app |-> app[d], id |-> batch[d], rows |-> start[d] + 1 .. upto[d]]
    <3>1. table' = table \cup {x} /\ txns' = [txns EXCEPT ![app[d]] = batch[d]]
      BY <2>2 DEF Append
    <3>2. metadata # Nobody
      BY <1>3, OwnerAssumption
    <3>3. Top' = batch[d] /\ batch[d] = Top + 1
      <4>1. Top' = batch[d]
        BY <1>1, <1>3, <3>1, <3>2 DEF Top
      <4>2. Top < batch[d]
        BY <1>3, <1>6, <2>2 DEF Recorded
      <4> QED
        BY <1>3, <1>6, <1>7, <4>1, <4>2
    <3>4. x.id = batch[d] /\ x.rows = end[batch[d] - 1] + 1 .. end[batch[d]]
      BY <1>6
    <3> HIDE DEF x
    <3>5. TableFollows(end, h)'
      BY <1>4, <1>6, <3>1, <3>4 DEF Follows, TableFollows
    <3>6. \A y \in table : y.id \in 1..Top
      BY DEF TableInv, IdsExact
    <3>7. \A i \in 1..Top : i \in 1..(Top + 1) /\ i # Top + 1
      BY <1>3
    <3>8. \A i \in 1..(Top + 1) : i \in 1..Top \/ i = Top + 1
      BY <1>3
    <3>9. IdsExact'
      <4>1. \A y \in table' : y.id \in 1..Top'
        BY <1>3, <3>1, <3>3, <3>4, <3>6, <3>7
      <4>2. \A y, z \in table' : y.id = z.id => y = z
        BY <3>1, <3>3, <3>4, <3>6, <3>7 DEF TableInv, IdsExact
      <4>3. \A i \in 1..Top' : \E y \in table' : y.id = i
        BY <3>1, <3>3, <3>4, <3>8 DEF TableInv, IdsExact
      <4> QED
        BY <4>1, <4>2, <4>3 DEF IdsExact
    <3> QED
      BY <1>3, <1>6, <3>3, <3>5, <3>9
  <2> QED
    BY <2>1, <2>2
<1>9. \A i \in 0..Top : i \in 0..Top'
  BY <1>3, <1>8
<1>10. ASSUME NEW e \in Drivers PROVE DriverFollows(e, end, h)' /\ DriverLogs(e)'
  <2>1. DriverFollows(e, end, h) /\ DriverLogs(e)
    BY <1>4 DEF Follows, TableInv, LogsExact
  <2>2. CASE e = d
    BY <1>1, <1>2, <1>5, <1>8, <1>9, <2>1, <2>2
       DEF DriverFollows, DriverLogs, Planned, Staged, Logged, Written
  <2>3. CASE e # d
    <3>1. Written(e) => batch[e] <= Top'
      <4>1. batch[e] \in Nat
        BY DEF TableInv, LeaseInv, MineTypes
      <4> QED
        BY <1>3, <1>8, <2>1, <4>1 DEF DriverLogs
    <3> QED
      BY <1>1, <1>2, <1>9, <2>1, <2>3, <3>1
         DEF DriverFollows, DriverLogs, Planned, Staged, Logged, Written
  <2> QED
    BY <2>2, <2>3
<1>11. CommitsLogged'
  <2>1. commits' \subseteq 1..Top'
    BY <1>1, <1>3, <1>8 DEF TableInv, LogsExact, CommitsLogged
  <2> QED
    BY <1>1, <2>1 DEF TableInv, LogsExact, CommitsLogged
<1>12. Follows(end, h)'
  BY <1>1, <1>4, <1>8, <1>10 DEF Follows, LogsFollow
<1> QED
  BY <1>4, <1>8, <1>10, <1>11, <1>12 DEF TableInv, LogsExact

(* A commit row is written for an id in the table, by its own driver or by *)
(* one that has been superseded.                                           *)
LEMMA CommitKept ==
    ASSUME TableInv, LeaseInv', OneId', NEW d \in Drivers, WriteCommit(d)
    PROVE  TableInv'
<1>1. /\ UNCHANGED <<mode, offsets, table, batch, start, upto>> /\ Top' = Top
      /\ pc' = [pc EXCEPT ![d] = "prune"] /\ pc[d] = "commit"
      /\ commits' = commits \cup {batch[d]}
  BY DEF WriteCommit, Goto, lease, sink, mine, Top
<1>2. \A e \in Drivers : pc'[e] = IF e = d THEN "prune" ELSE pc[e]
  BY <1>1 DEF TableInv, LeaseInv, RestTypes
<1>3. PICK end, h : Course(end, h) /\ Follows(end, h)
  BY DEF TableInv
<1>4. Planned(d) /\ Staged(d) /\ Logged(d) /\ Written(d)
  BY <1>1 DEF Planned, Staged, Logged, Written
<1>5. batch[d] \in 1..Top
  <2>1. batch[d] - 1 \in 0..Top /\ batch[d] <= Top /\ batch[d] \in Nat
    BY <1>4 DEF TableInv, LogsExact, DriverLogs, LeaseInv, MineTypes
  <2>2. Top \in Nat
    BY DEF TableInv, LeaseInv, LeaseTypes, SinkTypes, Top
  <2> QED
    BY <2>1, <2>2
<1>6. CommitsLogged'
  <2>1. batch[d] \in DOMAIN offsets \/ \E c \in commits : c > batch[d]
    BY <1>4 DEF TableInv, LogsExact, DriverLogs
  <2> QED
    BY <1>1, <1>5, <2>1 DEF TableInv, LogsExact, CommitsLogged
<1>7. ASSUME NEW e \in Drivers PROVE DriverFollows(e, end, h)' /\ DriverLogs(e)'
  <2>1. DriverFollows(e, end, h) /\ DriverLogs(e)
    BY <1>3 DEF Follows, TableInv, LogsExact
  <2>2. CASE e = d
    BY <1>1, <1>2, <1>4, <1>5, <2>1, <2>2
       DEF DriverFollows, DriverLogs, Planned, Staged, Logged, Written
  <2>3. CASE e # d
    BY <1>1, <1>2, <2>1, <2>3 DEF DriverFollows, DriverLogs, Planned, Staged, Logged, Written
  <2> QED
    BY <2>2, <2>3
<1>8. IdsExact' /\ Follows(end, h)'
  BY <1>1, <1>3, <1>7 DEF TableInv, IdsExact, Follows, LogsFollow, TableFollows
<1> QED
  BY <1>3, <1>6, <1>7, <1>8 DEF TableInv, LogsExact

(* Either half of a sweep leaves a commit at or past the id it sweeps up   *)
(* to, so that what it takes from a slower driver is no longer the last of *)
(* the log; and under a flock there is no slower driver.                   *)
LEMMA SweepKept ==
    ASSUME TableInv, LeaseInv', OneId', NEW d \in Drivers, SweepOffsets(d) \/ SweepCommits(d)
    PROVE  TableInv'
<1>1. /\ UNCHANGED <<mode, table, upto>> /\ Top' = Top
      /\ pc[d] \in {"prune", "sweep"}
  BY DEF SweepOffsets, SweepCommits, lease, sink, Top
<1>2. /\ batch \in [Drivers -> Nat] /\ start \in [Drivers -> 0..N] /\ pc \in [Drivers -> Labels]
      /\ Top \in Nat /\ DOMAIN offsets \subseteq Nat /\ commits \subseteq Nat
  BY DEF TableInv, LeaseInv, LeaseTypes, LogTypes, SinkTypes, MineTypes, RestTypes, Top
<1>3. \/ /\ pc' = [pc EXCEPT ![d] = "stage"] /\ batch' = [batch EXCEPT ![d] = batch[d] + 1]
         /\ start' = [start EXCEPT ![d] = upto[d]]
      \/ pc' = [pc EXCEPT ![d] = "sweep"] /\ batch' = batch /\ start' = start
  BY DEF SweepOffsets, SweepCommits, NextEpoch, Goto
<1>4. /\ \A e \in Drivers \ {d} : pc'[e] = pc[e] /\ batch'[e] = batch[e] /\ start'[e] = start[e]
      /\ \/ pc'[d] = "stage" /\ batch'[d] = batch[d] + 1 /\ start'[d] = upto[d]
         \/ pc'[d] = "sweep" /\ batch'[d] = batch[d] /\ start'[d] = start[d]
      /\ batch[d] \in Nat
  BY <1>2, <1>3
<1>5. PICK end, h : Course(end, h) /\ Follows(end, h)
  BY DEF TableInv
<1>6. Planned(d) /\ Staged(d) /\ Logged(d) /\ Written(d) /\ DriverFollows(d, end, h) /\ DriverLogs(d)
  BY <1>1, <1>5 DEF Planned, Staged, Logged, Written, Follows, TableInv, LogsExact
<1>7. /\ batch[d] \in 1..h /\ upto[d] = end[batch[d]] /\ h \in Nat /\ batch[d] <= Top
      /\ \E c \in commits : c >= batch[d]
  BY <1>1, <1>5, <1>6 DEF DriverFollows, DriverLogs, Course
<1>8. PICK c \in commits : c >= batch[d]
  BY <1>7
<1>9. /\ DOMAIN offsets' \subseteq DOMAIN offsets /\ commits' \subseteq commits /\ c \in commits'
      /\ \A i \in DOMAIN offsets : i >= batch[d] => i \in DOMAIN offsets'
      /\ \A i \in commits : i >= batch[d] => i \in commits'
      /\ \A i \in DOMAIN offsets' : offsets'[i] = offsets[i]
  <2>1. \/ offsets' = offsets
        \/ offsets' = [i \in DOMAIN offsets \ {j \in DOMAIN offsets : j < batch[d]} |-> offsets[i]]
    BY DEF SweepOffsets, SweepCommits, Superseded, Restrict
  <2>2. commits' = commits \/ commits' = {i \in commits : i >= batch[d]}
    BY DEF SweepOffsets, SweepCommits
  <2>3. \A i \in DOMAIN offsets : i >= batch[d] => ~ (i < batch[d])
    BY <1>2, <1>4
  <2>4. commits' \subseteq commits /\ c \in commits' /\ \A i \in commits : i >= batch[d] => i \in commits'
    BY <1>8, <2>2
  <2>5. /\ DOMAIN offsets' \subseteq DOMAIN offsets
        /\ \A i \in DOMAIN offsets : i >= batch[d] => i \in DOMAIN offsets'
        /\ \A i \in DOMAIN offsets' : offsets'[i] = offsets[i]
    BY <2>1, <2>3
  <2> QED
    BY <2>4, <2>5
<1>10. \A n \in Nat : n >= batch[d] \/ c > n
  BY <1>2, <1>4, <1>8
<1>11. ASSUME NEW n \in Nat, n \in DOMAIN offsets \/ \E e \in commits : e > n
       PROVE  n \in DOMAIN offsets' \/ \E e \in commits' : e > n
  <2>1. CASE c > n
    BY <1>9, <2>1
  <2>2. CASE n >= batch[d]
    <3>1. \A e \in commits : e > n => e >= batch[d]
      BY <1>2, <1>4, <2>2
    <3> QED
      BY <1>9, <1>11, <2>2, <3>1
  <2> QED
    BY <1>10, <2>1, <2>2
<1>12. CommitsLogged'
  <2>1. commits' \subseteq 1..Top'
    BY <1>1, <1>9 DEF TableInv, LogsExact, CommitsLogged
  <2>2. ASSUME NEW i \in commits' PROVE i \in DOMAIN offsets' \/ \E e \in commits' : e > i
    <3>1. i \in Nat /\ (i \in DOMAIN offsets \/ \E e \in commits : e > i)
      BY <1>2, <1>9, <2>2 DEF TableInv, LogsExact, CommitsLogged
    <3> QED
      BY <1>11, <3>1
  <2> QED
    BY <2>1, <2>2 DEF CommitsLogged
<1>13. LogsFollow(end, h)' /\ TableFollows(end, h)'
  BY <1>1, <1>5, <1>9 DEF Follows, LogsFollow, TableFollows
<1>14. DriverFollows(d, end, h)' /\ DriverLogs(d)'
  <2>1. CASE pc'[d] = "stage"
    <3>1. batch'[d] = batch[d] + 1 /\ start'[d] = upto[d]
      BY <1>4, <2>1
    <3>2. batch[d] + 1 \in 1..(h + 1) /\ (batch[d] + 1) - 1 = batch[d] /\ batch[d] \in 0..Top
      BY <1>2, <1>4, <1>7
    <3>3. /\ ~ Staged(d)' /\ ~ Logged(d)' /\ ~ Written(d)'
          /\ pc'[d] \notin {"prune", "sweep", "position"}
      BY <2>1 DEF Staged, Logged, Written
    <3> QED
      BY <1>1, <1>7, <3>1, <3>2, <3>3 DEF DriverFollows, DriverLogs
  <2>2. CASE pc'[d] = "sweep"
    <3>1. batch'[d] = batch[d] /\ start'[d] = start[d] /\ upto'[d] = upto[d] /\ pc'[d] # "position"
      BY <1>1, <1>4, <2>2
    <3>2. batch[d] \in DOMAIN offsets' \/ \E e \in commits' : e > batch[d]
      BY <1>4, <1>6, <1>11 DEF DriverLogs
    <3>3. DriverLogs(d)'
      BY <1>1, <1>6, <1>8, <1>9, <3>1, <3>2 DEF DriverLogs
    <3>4. DriverFollows(d, end, h)'
      BY <1>6, <3>1 DEF DriverFollows
    <3> QED
      BY <3>3, <3>4
  <2> QED
    BY <1>4, <2>1, <2>2
<1>15. ASSUME NEW e \in Drivers \ {d} PROVE DriverFollows(e, end, h)' /\ DriverLogs(e)'
  <2>1. /\ DriverFollows(e, end, h) /\ DriverLogs(e) /\ batch[e] \in Nat
        /\ pc'[e] = pc[e] /\ batch'[e] = batch[e] /\ start'[e] = start[e] /\ upto'[e] = upto[e]
    BY <1>1, <1>2, <1>4, <1>5 DEF Follows, TableInv, LogsExact
  <2>2. pc[e] \in {"prune", "sweep"} => \E i \in commits' : i >= batch[e]
    <3>1. CASE c > batch[e]
      BY <1>2, <1>9, <2>1, <3>1
    <3>2. CASE batch[e] >= batch[d]
      <4>1. \A a, b, i \in Nat : b >= a /\ i >= b => i >= a
        OBVIOUS
      <4> QED
        BY <1>2, <1>4, <1>9, <2>1, <3>2, <4>1 DEF DriverLogs
    <3> QED
      BY <1>10, <2>1, <3>1, <3>2
  <2>3. Logged(e) => batch[e] \in DOMAIN offsets' \/ \E i \in commits' : i > batch[e]
    BY <1>11, <2>1 DEF DriverLogs
  <2>4. ~ (mode = "local" /\ pc[e] = "position")
    <3>1. Leased(d) /\ Leased(e)
      BY DEF TableInv, LeaseInv
    <3> QED
      BY <1>1, <3>1 DEF Leased, Working
  <2>5. DriverLogs(e)'
    BY <1>1, <2>1, <2>2, <2>3, <2>4 DEF DriverLogs, Planned, Logged, Written
  <2>6. DriverFollows(e, end, h)'
    BY <2>1 DEF DriverFollows, Planned, Staged
  <2> QED
    BY <2>5, <2>6
<1>16. IdsExact' /\ Follows(end, h)' /\ \A e \in Drivers : DriverLogs(e)'
  BY <1>1, <1>13, <1>14, <1>15 DEF TableInv, IdsExact, Follows
<1> QED
  BY <1>5, <1>12, <1>16 DEF TableInv, LogsExact

(* Every step keeps the invariant, but for a recovery that finds its       *)
(* position gone.                                                          *)
LEMMA TableStep ==
    ASSUME ~ RacingStarts, Deterministic, TableInv, [Next]_vars, astray' = {}
    PROVE  TableInv'
<1>1. LeaseInv'
  BY LeaseStep DEF TableInv
<1>2. CASE UNCHANGED vars
  <2>1. UNCHANGED <<mode, metadata, offsets, commits, table, txns, pc, app, batch, start, upto>>
    BY <1>2 DEF vars, lease, logs, sink, mine
  <2>2. OneId' /\ Top' = Top
    BY <2>1 DEF TableInv, OneId, Top
  <2>3. IdsExact' /\ LogsExact'
    BY <2>1, <2>2 DEF TableInv, IdsExact, LogsExact, CommitsLogged, DriverLogs, Planned, Logged, Written
  <2>4. PICK end, h : Course(end, h) /\ Follows(end, h)
    BY DEF TableInv
  <2>5. Follows(end, h)'
    BY <2>1, <2>4 DEF Follows, LogsFollow, TableFollows, DriverFollows, Planned, Staged
  <2> QED
    BY <1>1, <2>2, <2>3, <2>4, <2>5 DEF TableInv
<1>3. CASE Next /\ ~ UNCHANGED vars
  <2>1. PICK d \in Drivers : ResolveId(d) \/ Step(d) \/ Crash(d)
    BY <1>3 DEF Next, Quiet
  <2>2. OneId'
    BY <2>1, OneIdStep DEF TableInv
  <2> QED
    BY <1>1, <2>1, <2>2, MovesKept, RecoverKept, StageKept, OffsetsKept, AppendKept, CommitKept,
       SweepKept DEF Step
<1> QED
  BY <1>2, <1>3

(* Only a recovery leads astray, and not under a flock: the driver at work *)
(* there is alone, so the position it is about to read is still logged.    *)
LEMMA AstrayStep ==
    ASSUME [Next]_vars
    PROVE  /\ mode' = mode /\ astray \subseteq astray'
           /\ TableInv /\ mode = "local" /\ astray = {} => astray' = {}
<1>1. CASE UNCHANGED vars
  BY <1>1 DEF vars
<1>2. CASE Next /\ ~ UNCHANGED vars
  <2>1. PICK d \in Drivers : ResolveId(d) \/ Step(d) \/ Crash(d)
    BY <1>2 DEF Next, Quiet
  <2>2. CASE ReadPosition(d)
    <3>1. TableInv /\ mode = "local" => batch[d] - 1 \in DOMAIN offsets
      BY <2>2 DEF ReadPosition, TableInv, LogsExact, DriverLogs
    <3> QED
      BY <2>2, <3>1 DEF ReadPosition
  <2>3. CASE ~ ReadPosition(d)
    BY <2>1, <2>3 DEF ResolveId, Step, PersistId, Claim, ReadOffsetLog, ReadCommitLog, Stage, Verify,
                      WriteOffsets, CheckTable, Append, WriteCommit, SweepOffsets, SweepCommits, Crash
  <2> QED
    BY <2>2, <2>3
<1> QED
  BY <1>1, <1>2

(* Until a driver goes astray the table is exact; under a flock none does. *)
UnlessAstray ==
    /\ mode = "local" => astray = {}
    /\ astray = {} => TableInv

(* The table is exact for every number of drivers and crashes, wherever    *)
(* the checkpoint is and however often the logs are swept: no row is in    *)
(* two transactions and every row before the restart position is in one,   *)
(* until a recovery finds the position of its commit swept away, which a   *)
(* flock excludes.  Both provisos are needed.  Drivers that race through   *)
(* the first start-up persist different application ids (the app_id_race   *)
(* run); and when a read may end elsewhere the second time, a driver that  *)
(* takes over logs an end for the id which is not the one the table holds. *)
THEOREM TableExactHolds ==
    ASSUME ~ RacingStarts, Deterministic
    PROVE  Spec => []TableExact
<1>1. Init => UnlessAstray
  BY TableInit DEF UnlessAstray, Init
<1>2. UnlessAstray /\ [Next]_vars => UnlessAstray'
  <2> SUFFICES ASSUME UnlessAstray, [Next]_vars PROVE UnlessAstray'
    OBVIOUS
  <2>1. ASSUME astray' = {} PROVE TableInv'
    <3>1. astray = {}
      BY <2>1, AstrayStep
    <3> QED
      BY <2>1, <3>1, TableStep DEF UnlessAstray
  <2>2. mode' = "local" => astray' = {}
    BY AstrayStep DEF UnlessAstray
  <2> QED
    BY <2>1, <2>2 DEF UnlessAstray
<1>3. UnlessAstray => TableExact
  BY TableImplies DEF UnlessAstray, TableExact, Exact
<1> QED
  BY <1>1, <1>2, <1>3, PTL DEF Spec
=============================================================================
