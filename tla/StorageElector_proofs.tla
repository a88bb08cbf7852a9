----------------------- MODULE StorageElector_proofs ------------------------
(***************************************************************************)
(* The theorems about StorageElector, for every set of nodes, every skew of*)
(* their clocks and every interval: that ElectorInv is an invariant, and   *)
(* what follows from it. The lemmas come in four parts: the types, the     *)
(* steps of a thread, the requests, and the steps of the metastore and of  *)
(* the processes with the theorems.                                        *)
(***************************************************************************)
EXTENDS StorageElector, TLAPS

(* Types, and what a step of one node's thread may touch without disturbing *)
(* the invariant of the others.                                             *)

(* The constants, one fact at a time.                                       *)
LEMMA Constants ==
  /\ Skew \in [Nodes -> Nat] /\ MaxSkew \in Nat /\ NoNode \notin Nodes
  /\ Expired \in Nat /\ Probe \in Nat /\ Expired > 0 /\ Probe > 0
  /\ \A m, n \in Nodes : Skew[m] - Skew[n] <= MaxSkew
  BY ElectorAssumption

LEMMA NoLeaseType == NoLease \in Lease /\ NoJob \in Job
  BY Zenon DEF NoLease, Lease, NoJob, Job, Kinds, Request

LEMMA StampType ==
  ASSUME TypeOK, NEW n \in Nodes
  PROVE  /\ Clock(n) \in Nat
         /\ Stamped(n, "Ready") \in Lease /\ Stamped(n, "Yield") \in Lease
  BY Constants DEF TypeOK, Clock, Stamped, Lease

(* A thread moves: to its next step, or to sleep.                           *)
LEMMA GotoType ==
  ASSUME TypeOK, NEW n \in Nodes, NEW l \in Labels, NEW j \in Job, Goto(n, l, j)
  PROVE  pc' \in [Nodes -> Labels] /\ job' \in [Nodes -> Job] /\ wait' \in [Nodes -> Nat]
  BY Zenon DEF TypeOK, Goto

LEMMA RestType ==
  ASSUME TypeOK, NEW n \in Nodes, NEW t \in Nat, Rest(n, t)
  PROVE  pc' \in [Nodes -> Labels] /\ job' \in [Nodes -> Job] /\ wait' \in [Nodes -> Nat]
  BY NoLeaseType, Zenon DEF TypeOK, Rest, Labels

LEMMA SleepType ==
  ASSUME NEW n \in Nodes
  PROVE  Sleep(n) \in Nat /\ Sleep(n) > 0
  BY Constants DEF Sleep

(* A leader that does not yield sleeps for the probe interval.              *)
LEMMA LeaderSleep ==
  ASSUME NEW n \in Nodes, ThreadOK(n), role[n] = "Leader"
  PROVE  Sleep(n) >= Probe
  BY Constants DEF ThreadOK, Yielding, Sleep

LEMMA StartType ==
  ASSUME TypeOK, NEW n \in Nodes, NEW k \in Kinds, Start(n, k)
  PROVE  pc' \in [Nodes -> Labels] /\ job' \in [Nodes -> Job] /\ wait' \in [Nodes -> Nat]
  <1>1. [NoJob EXCEPT !.kind = k] \in Job
    BY NoLeaseType, Zenon DEF NoJob, Job
  <1>2. "stamp" \in Labels
    BY Zenon DEF Labels
  <1> QED BY <1>1, <1>2, GotoType, Zenon DEF Start

LEMMA SoftYieldType ==
  ASSUME TypeOK, NEW n \in Nodes, SoftYield(n)
  PROVE  /\ pc' \in [Nodes -> Labels] /\ job' \in [Nodes -> Job] /\ wait' \in [Nodes -> Nat]
         /\ role' \in [Nodes -> {"Follower", "Leader"}]
  <1>1. 2 * Expired \in Nat
    BY Constants
  <1>2. Rest(n, 2 * Expired)
    BY Zenon DEF SoftYield
  <1> QED BY <1>1, <1>2, RestType, Zenon DEF TypeOK, SoftYield

LEMMA NoteType ==
  ASSUME TypeOK, NEW n \in Nodes, NEW r \in Lease, NEW b \in BOOLEAN, NoteRecord(n, r, b)
  PROVE  info' \in [Nodes -> Lease] /\ refreshLocal' \in [Nodes -> Nat]
  <1>1. Clock(n) \in Nat /\ r.refresh \in Nat
    BY StampType, Zenon DEF Lease
  <1> QED BY <1>1, Zenon DEF TypeOK, NoteRecord

LEMMA CasType ==
  ASSUME TypeOK, NEW q \in Request, Cas(q)
  PROVE  kv' \in Lease /\ gone' \in SUBSET Lease
  BY Zenon DEF TypeOK, Cas, Request

LEMMA JobType ==
  ASSUME TypeOK, NEW n \in Nodes
  PROVE  /\ job[n] \in Job /\ job[n].req \in Request /\ job[n].got \in Lease
         /\ job[n].ok \in BOOLEAN /\ job[n].req.new \in Lease
         /\ Answer(n) \in Lease /\ BecomeLeader(n) \in BOOLEAN
  BY Zenon DEF TypeOK, Job, Request, Answer, BecomeLeader, Yielding

(* Every step keeps every variable in its type.                             *)
LEMMA TypeStep ==
  ASSUME TypeOK, [Next]_vars
  PROVE  TypeOK'
  <1> USE DEF TypeOK
  <1>l. {"check", "got", "stamp", "put", "reread", "reply", "setRole", "onLeader", "leader"}
           \subseteq Labels
    BY Zenon DEF Labels
  <1>k. {"none", "init", "refresh", "elect", "yield", "stop"} \subseteq Kinds
    BY Zenon DEF Kinds
  <1>1. ASSUME NEW n \in Nodes, GetRecord(n), UNCHANGED crashes PROVE TypeOK'
    <2>1. [NoJob EXCEPT !.got = kv] \in Job
      BY NoLeaseType, Zenon DEF NoJob, Job
    <2> QED BY <1>1, <1>l, <2>1, GotoType, Zenon DEF GetRecord, shared, local
  <1>2. ASSUME NEW n \in Nodes, GetError(n), UNCHANGED crashes PROVE TypeOK'
    BY <1>2, RestType, Constants, Zenon DEF GetError, shared, local
  <1>3. ASSUME NEW n \in Nodes, InitRecord(n), UNCHANGED crashes PROVE TypeOK'
    <2>1. [NoJob EXCEPT !.kind = "init", !.req.new = Stamped(n, "Ready")] \in Job
      BY NoLeaseType, StampType, <1>k, Zenon DEF NoJob, Job, Request
    <2> QED BY <1>3, <1>l, <2>1, GotoType, Zenon DEF InitRecord, shared, local
  <1>4. ASSUME NEW n \in Nodes, Decide(n), UNCHANGED crashes PROVE TypeOK'
    <2>1. NoteRecord(n, job[n].got, FALSE) /\ UNCHANGED <<shared, role>>
      BY <1>4, Zenon DEF Decide
    <2>2. \/ Start(n, "elect") \/ Start(n, "refresh") \/ Rest(n, Probe)
      BY <1>4, Zenon DEF Decide
    <2>3. info' \in [Nodes -> Lease] /\ refreshLocal' \in [Nodes -> Nat]
      BY <2>1, JobType, NoteType, Zenon
    <2>4. pc' \in [Nodes -> Labels] /\ job' \in [Nodes -> Job] /\ wait' \in [Nodes -> Nat]
      BY <2>2, <1>k, StartType, RestType, Constants, Zenon
    <2> QED BY <1>4, <2>1, <2>3, <2>4, Zenon DEF shared
  <1>5. ASSUME NEW n \in Nodes, LeaderCheck(n), UNCHANGED crashes PROVE TypeOK'
    BY <1>5, <1>k, SoftYieldType, StartType, Zenon DEF LeaderCheck, shared
  <1>6. ASSUME NEW n \in Nodes, StopAndYield(n), UNCHANGED crashes PROVE TypeOK'
    BY <1>6, <1>k, StartType, RestType, Constants, Zenon DEF StopAndYield, shared
  <1>7. ASSUME NEW n \in Nodes, Stamp(n), UNCHANGED crashes PROVE TypeOK'
    <2> DEFINE s == IF Yielding(n) THEN "Yield" ELSE "Ready"
               j == [job[n] EXCEPT !.req = [expected |-> info[n], new |-> Stamped(n, s)]]
    <2>1. Stamped(n, s) \in Lease
      BY StampType, Zenon
    <2>2. j \in Job
      BY <2>1, JobType, Zenon DEF Job, Request
    <2>3. Goto(n, "put", j) /\ UNCHANGED <<shared, local>>
      BY <1>7, Zenon DEF Stamp
    <2> QED BY <1>7, <1>l, <2>2, <2>3, GotoType, Zenon DEF shared, local
  <1>8. ASSUME NEW n \in Nodes, KvCas(n), UNCHANGED crashes PROVE TypeOK'
    <2>1. [job[n] EXCEPT !.ok = TRUE] \in Job
      BY JobType, ZenonT(60) DEF Job
    <2>2. pc' \in [Nodes -> Labels] /\ job' \in [Nodes -> Job] /\ wait' \in [Nodes -> Nat]
      BY <1>8, <1>l, <2>1, JobType, GotoType, Zenon DEF KvCas
    <2> QED BY <1>8, <2>2, JobType, CasType, Zenon DEF KvCas, local
  <1>9. ASSUME NEW n \in Nodes, KvCommitUnknown(n), UNCHANGED crashes PROVE TypeOK'
    BY <1>9, JobType, CasType, Zenon DEF KvCommitUnknown, local
  <1>10. ASSUME NEW n \in Nodes, PutError(n), UNCHANGED crashes PROVE TypeOK'
    BY <1>10, JobType, SleepType, RestType, Zenon DEF PutError, Abandon, local
  <1>11. ASSUME NEW n \in Nodes, Reread(n), UNCHANGED crashes PROVE TypeOK'
    <2>1. [job[n] EXCEPT !.got = kv] \in Job
      BY JobType, Zenon DEF Job
    <2> QED BY <1>11, <1>l, <2>1, GotoType, Zenon DEF Reread, shared, local
  <1>12. ASSUME NEW n \in Nodes, ReplyKnown(n), UNCHANGED crashes PROVE TypeOK'
    BY <1>12, SoftYieldType, SleepType, RestType, Zenon DEF ReplyKnown, shared
  <1>13. ASSUME NEW n \in Nodes, ReplyNew(n), UNCHANGED crashes PROVE TypeOK'
    <2>1. info' \in [Nodes -> Lease] /\ refreshLocal' \in [Nodes -> Nat]
      BY <1>13, JobType, NoteType, Zenon DEF ReplyNew
    <2>2. pc' \in [Nodes -> Labels] /\ job' \in [Nodes -> Job] /\ wait' \in [Nodes -> Nat]
      BY <1>13, <1>l, JobType, SleepType, RestType, GotoType, Zenon DEF ReplyNew
    <2> QED BY <1>13, <2>1, <2>2, Zenon DEF ReplyNew, shared
  <1>14. ASSUME NEW n \in Nodes, SetRole(n), UNCHANGED crashes PROVE TypeOK'
    BY <1>14, <1>l, JobType, SleepType, RestType, GotoType, Zenon DEF SetRole, shared
  <1>15. ASSUME NEW n \in Nodes, OnLeader(n), UNCHANGED crashes PROVE TypeOK'
    BY <1>15, <1>l, NoLeaseType, SoftYieldType, RestType, GotoType, Constants, Zenon
       DEF OnLeader, shared
  <1>16. ASSUME NEW n \in Nodes, OnLeaderFails(n), UNCHANGED crashes PROVE TypeOK'
    BY <1>16, <1>k, StartType, Zenon DEF OnLeaderFails, shared
  <1>17. ASSUME NEW n \in Nodes, Crash(n) PROVE TypeOK'
    <2>1. pc' \in [Nodes -> Labels] /\ job' \in [Nodes -> Job] /\ wait' \in [Nodes -> Nat]
      BY <1>17, RestType, Zenon DEF Crash
    <2>2. inflight' \in SUBSET Request
      BY <1>17, JobType, Zenon DEF Crash, Abandon
    <2>3. info' \in [Nodes -> Lease] /\ refreshLocal' \in [Nodes -> Nat]
      BY <1>17, NoLeaseType, Zenon DEF Crash
    <2>4. role' \in [Nodes -> {"Follower", "Leader"}] /\ crashes' \in Nat
      BY <1>17 DEF Crash
    <2> QED BY <1>17, <2>1, <2>2, <2>3, <2>4, Zenon DEF Crash
  <1>18. ASSUME NEW q \in inflight, KvLateCas(q) PROVE TypeOK'
    BY <1>18, CasType, Zenon DEF KvLateCas, local
  <1>19. CASE Tick
    BY <1>19 DEF Tick, local
  <1>20. CASE UNCHANGED vars
    BY <1>20, Zenon DEF vars, shared, local
  <1>21. ASSUME NEW n \in Nodes, NodeStep(n), UNCHANGED crashes PROVE TypeOK'
    BY <1>21, <1>1, <1>2, <1>3, <1>4, <1>5, <1>6, <1>7, <1>8, <1>9, <1>10, <1>11, <1>12,
       <1>13, <1>14, <1>15, <1>16, Zenon DEF NodeStep
  <1> QED BY <1>17, <1>18, <1>19, <1>20, <1>21, Zenon DEF Next
-----------------------------------------------------------------------------
(* A step of n's thread that touches nothing shared.                        *)
LocalTo(n) ==
  /\ UNCHANGED shared
  /\ \A m \in Nodes \ {n} :
       /\ pc'[m] = pc[m] /\ job'[m] = job[m] /\ wait'[m] = wait[m]
       /\ role'[m] = role[m] /\ info'[m] = info[m] /\ refreshLocal'[m] = refreshLocal[m]

LEMMA OthersKeep ==
  ASSUME ElectorInv, NEW n \in Nodes, LocalTo(n), NEW m \in Nodes \ {n}
  PROVE  ThreadOK(m)' /\ StampOK(m)' /\ LeaderOK(m)'
  <1>1. /\ UNCHANGED <<now, kv, gone, inflight>>
        /\ pc'[m] = pc[m] /\ job'[m] = job[m] /\ wait'[m] = wait[m]
        /\ role'[m] = role[m] /\ info'[m] = info[m] /\ refreshLocal'[m] = refreshLocal[m]
    BY Zenon DEF LocalTo, shared
  <1>2. ThreadOK(m) /\ StampOK(m) /\ LeaderOK(m)
    BY Zenon DEF ElectorInv
  <1>3. ThreadOK(m)'
    BY <1>1, <1>2, ZenonT(60) DEF ThreadOK, Takeable, Dead, Clock, Yielding, Demoting, Past
  <1>4. StampOK(m)'
    BY <1>1, <1>2, Zenon DEF StampOK, JustAsleep, Clock, Yielding, Demoting, Past
  <1>5. LeaderOK(m)'
    BY <1>1, <1>2, Zenon DEF LeaderOK, Clock, Yielding, Demoting, Holds
  <1> QED BY <1>3, <1>4, <1>5, Zenon

(* Such a step concerns the other nodes and the old requests in no way.     *)
LEMMA LocalStep ==
  ASSUME ElectorInv, TypeOK', NEW n \in Nodes, LocalTo(n),
         ThreadOK(n)', StampOK(n)', LeaderOK(n)',
         pc'[n] # "put"
  PROVE  ElectorInv'
  <1>1. UNCHANGED <<now, kv, gone, inflight>>
    BY Zenon DEF LocalTo, shared
  <1>2. \A m \in Nodes \ {n} : ThreadOK(m)' /\ StampOK(m)' /\ LeaderOK(m)'
    BY OthersKeep, Zenon
  <1>3. Pending' \subseteq Pending
    BY <1>1, Zenon DEF Pending, Sent, LocalTo
  <1>4. \A q \in Pending' : RequestOK(q)'
    BY <1>1, <1>3, Zenon DEF ElectorInv, RequestOK, Takeable, Dead, Clock, Past
  <1> QED BY <1>1, <1>2, <1>3, <1>4, Zenon DEF ElectorInv, Past

(* n goes to sleep, as a follower or as a leader that holds its lease.      *)
LEMMA RestStep ==
  ASSUME ElectorInv, TypeOK', NEW n \in Nodes, LocalTo(n), NEW t \in Nat, t > 0, Rest(n, t),
         info'[n] \in Past, role'[n] = "Follower" \/ t >= Probe,
         \/ role'[n] = "Follower"
         \/ /\ role[n] = "Leader" /\ ~ Demoting(n)
            /\ info'[n] = info[n] /\ refreshLocal'[n] = refreshLocal[n]
         \/ /\ info'[n].node = n
            /\ Holds(n, refreshLocal'[n])
            /\ \A q \in inflight : q.new.node = n => q.new.refresh < refreshLocal'[n]
  PROVE  ElectorInv'
  <1> TypeOK /\ NoLease \in Past /\ ThreadOK(n) /\ StampOK(n) /\ LeaderOK(n)
    BY Zenon DEF ElectorInv
  <1>1. UNCHANGED <<now, kv, gone, inflight>>
    BY Zenon DEF LocalTo, shared
  <1>2. pc'[n] = "check" /\ wait'[n] = t /\ job'[n] = NoJob
    BY Zenon DEF Rest, TypeOK
  <1>3. NoJob.kind = "none" /\ NoJob.got = NoLease /\ NoJob.ok = FALSE
    BY Zenon DEF NoJob
  <1>5. ThreadOK(n)'
    BY <1>1, <1>2, <1>3, Zenon DEF ThreadOK, Demoting, Yielding, Past
  <1>6. StampOK(n)'
    BY <1>1, <1>2, <1>3, Zenon DEF StampOK, JustAsleep, Demoting, Yielding, Past, Clock
  <1>7. LeaderOK(n)'
    BY <1>1, <1>2, <1>3, Zenon DEF LeaderOK, Demoting, Yielding, Holds, Clock
  <1> QED BY <1>2, <1>5, <1>6, <1>7, LocalStep, Zenon

(* n starts a remote update; a node that gives its lease back is follower.  *)
LEMMA StartStep ==
  ASSUME ElectorInv, TypeOK', NEW n \in Nodes, LocalTo(n), NEW k, Start(n, k),
         info'[n] \in Past,
         info'[n] \in gone \/ info'[n].node = n \/ Takeable(info'[n]),
         \/ role'[n] = "Follower"
         \/ /\ role[n] = "Leader" /\ ~ Demoting(n) /\ k \notin {"yield", "stop"}
            /\ info'[n] = info[n] /\ refreshLocal'[n] = refreshLocal[n],
         \A v \in Past : v.node = n /\ v.refresh = Clock(n) => v = info'[n] /\ v.status = "Ready",
         \A q \in inflight : q.new.node = n => q.new.refresh < Clock(n)
  PROVE  ElectorInv'
  <1> TypeOK /\ NoLease \in Past /\ ThreadOK(n) /\ StampOK(n) /\ LeaderOK(n)
    BY Zenon DEF ElectorInv
  <1>1. UNCHANGED <<now, kv, gone, inflight>>
    BY Zenon DEF LocalTo, shared
  <1>2. pc'[n] = "stamp" /\ job'[n] = [NoJob EXCEPT !.kind = k]
    BY Zenon DEF Start, Goto, TypeOK
  <1>3. job'[n].kind = k /\ job'[n].got = NoLease /\ job'[n].ok = FALSE
    BY <1>2, Zenon DEF NoJob
  <1>4. ThreadOK(n)'
    BY <1>1, <1>2, <1>3, Zenon DEF ThreadOK, Demoting, Yielding, Past, Takeable, Dead, Clock
  <1>5. StampOK(n)'
    BY <1>1, <1>2, <1>3, Zenon DEF StampOK, JustAsleep, Demoting, Yielding, Past, Clock
  <1>6. LeaderOK(n)'
    BY <1>1, <1>2, <1>3, Zenon DEF LeaderOK, Demoting, Yielding, Holds, Clock
  <1> QED BY <1>2, <1>4, <1>5, <1>6, LocalStep, Zenon

(* A thread whose wait is over has stamped nothing at this instant.         *)
LEMMA AwakeFresh ==
  ASSUME ElectorInv, NEW n \in Nodes, Awake(n) \/ pc[n] = "got"
  PROVE  /\ \A v \in Past : v.node = n => v.refresh < Clock(n)
         /\ \A q \in inflight : q.new.node = n => q.new.refresh < Clock(n)
  <1>1. \A v \in Past : v.refresh \in Nat
    BY Zenon DEF ElectorInv, TypeOK, Past, Lease
  <1>2. Clock(n) \in Nat
    BY StampType, Zenon DEF ElectorInv
  <1> QED BY <1>1, <1>2 DEF ElectorInv, StampOK, JustAsleep, Awake

(* If the lease of r ran out for n, it did so for its owner, up to the      *)
(* difference of their clocks.                                              *)
LEMMA ExpiredIsTakeable ==
  ASSUME TypeOK, NEW n \in Nodes, NEW r \in Lease, isLeaseExpired(n, r)
  PROVE  Takeable(r)
  <1>1. now \in Nat /\ r.refresh \in Nat
    BY Zenon DEF TypeOK, Lease
  <1>2. CASE r.node \in Nodes
    <2>1. Skew[n] - Skew[r.node] <= MaxSkew /\ Skew[n] \in Nat /\ Skew[r.node] \in Nat
      BY <1>2, Constants, Zenon
    <2> QED BY <1>1, <2>1, Constants DEF isLeaseExpired, Takeable, Dead, Clock
  <1> QED BY <1>2, Zenon DEF Takeable, Dead

-----------------------------------------------------------------------------
(* The steps of bg_thread between two calls of the metastore: reads of the
   record, decisions, and answers to a CAS. *)

LEMMA GetRecordStep ==
  ASSUME ElectorInv, TypeOK', NEW n \in Nodes, GetRecord(n)
  PROVE  ElectorInv'
  <1> TypeOK /\ NoLease \in Past /\ ThreadOK(n) /\ StampOK(n) /\ LeaderOK(n)
    BY Zenon DEF ElectorInv
  <1>1. UNCHANGED <<now, kv, gone, inflight>> /\ UNCHANGED local /\ LocalTo(n)
    BY Zenon DEF GetRecord, Goto, shared, local, LocalTo, TypeOK
  <1>2. pc'[n] = "got" /\ job'[n] = [NoJob EXCEPT !.got = kv]
    BY Zenon DEF GetRecord, Goto, TypeOK
  <1>3. job'[n].kind = "none" /\ job'[n].got = kv /\ job'[n].ok = FALSE
    BY <1>2, Zenon DEF NoJob
  <1>4. ThreadOK(n)'
    BY <1>1, <1>2, <1>3, Zenon DEF GetRecord, ThreadOK, Demoting, Yielding, Past, local
  <1>5. StampOK(n)'
    <2>1. \A v \in Past : v.node = n => v.refresh < Clock(n) /\ v.refresh \in Nat
      BY AwakeFresh, Zenon DEF GetRecord, Past, TypeOK, Lease
    <2> QED BY <1>1, <1>2, <1>3, <2>1, AwakeFresh, StampType
            DEF StampOK, JustAsleep, Past, Clock, GetRecord
  <1>6. LeaderOK(n)'
    BY <1>1, <1>2, <1>3, Zenon DEF GetRecord, LeaderOK, local
  <1> QED BY <1>1, <1>2, <1>4, <1>5, <1>6, LocalStep, Zenon

LEMMA GetErrorStep ==
  ASSUME ElectorInv, TypeOK', NEW n \in Nodes, GetError(n)
  PROVE  ElectorInv'
  <1>1. LocalTo(n) /\ UNCHANGED local
    BY Zenon DEF GetError, Rest, shared, local, LocalTo, ElectorInv, TypeOK
  <1>2. role'[n] = "Follower" /\ info'[n] \in Past
    BY <1>1, Zenon DEF GetError, local, ElectorInv, ThreadOK
  <1> QED BY <1>1, <1>2, RestStep, Constants, Zenon DEF GetError

LEMMA DecideStep ==
  ASSUME ElectorInv, TypeOK', NEW n \in Nodes, Decide(n)
  PROVE  ElectorInv'
  <1> DEFINE r == job[n].got
  <1> TypeOK /\ NoLease \in Past /\ ThreadOK(n) /\ StampOK(n) /\ LeaderOK(n)
    BY Zenon DEF ElectorInv
  <1>1. /\ pc[n] = "got" /\ NoteRecord(n, r, FALSE) /\ UNCHANGED <<shared, role>>
        /\ IF isLeaseExpired(n, r) THEN Start(n, "elect")
           ELSE IF r.node = n THEN Start(n, "refresh") ELSE Rest(n, Probe)
    BY Zenon DEF Decide
  <1>2. LocalTo(n)
    BY <1>1 DEF NoteRecord, Start, Goto, Rest, shared, LocalTo, TypeOK
  <1>3. r \in Lease /\ r \in Past /\ info[n] \in Past /\ role[n] = "Follower"
    BY <1>1, JobType, Zenon DEF ThreadOK
  <1>4. info'[n] = r \/ info'[n] \in gone
    BY <1>1, <1>3, Zenon DEF NoteRecord, ThreadOK, TypeOK
  <1>5. info'[n] \in Past /\ role'[n] = "Follower"
    BY <1>1, <1>3, <1>4, Zenon DEF Past
  <1>6. \A v \in Past : v.node = n /\ v.refresh = Clock(n) => v = info'[n] /\ v.status = "Ready"
    <2>1. \A v \in Past : v.refresh \in Nat
      BY Zenon DEF TypeOK, Past, Lease
    <2> QED BY <1>1, <2>1, AwakeFresh
  <1>7. CASE Start(n, "elect") /\ isLeaseExpired(n, r)
    <2>1. info'[n] \in gone \/ Takeable(info'[n])
      BY <1>3, <1>4, <1>7, ExpiredIsTakeable, Zenon
    <2> QED BY <1>1, <1>2, <1>5, <1>6, <1>7, <2>1, AwakeFresh, StartStep, Zenon
  <1>8. CASE Start(n, "refresh") /\ r.node = n
    BY <1>1, <1>2, <1>4, <1>5, <1>6, <1>8, AwakeFresh, StartStep, Zenon
  <1>9. CASE Rest(n, Probe)
    BY <1>2, <1>5, <1>9, RestStep, Constants, Zenon
  <1> QED BY <1>1, <1>7, <1>8, <1>9, Zenon

(* A leader that sends a request, and the stamps it has written.            *)
LEMMA LeaderStart ==
  ASSUME ElectorInv, TypeOK', NEW n \in Nodes, role[n] = "Leader",
         \/ pc[n] = "check" /\ wait[n] < Probe
         \/ pc[n] \in {"onLeader", "leader"},
         NEW k, Start(n, k), UNCHANGED <<shared, info, refreshLocal>>,
         \/ role' = role /\ k \notin {"yield", "stop"}
         \/ role' = [role EXCEPT ![n] = "Follower"]
  PROVE  ElectorInv'
  <1> TypeOK /\ NoLease \in Past /\ ThreadOK(n) /\ StampOK(n) /\ LeaderOK(n)
    BY Zenon DEF ElectorInv
  <1>1. LocalTo(n)
    BY Zenon DEF Start, Goto, shared, LocalTo, TypeOK
  <1>2. ~ Demoting(n) /\ info[n].node = n /\ info[n] \in Past
    BY Zenon DEF ThreadOK, Demoting
  <1>3. \A v \in Past : v.node = n /\ v.refresh = Clock(n) => v = info[n] /\ v.status = "Ready"
    BY Constants DEF StampOK, JustAsleep, TypeOK
  <1>4. \A q \in inflight : q.new.node = n => q.new.refresh < Clock(n)
    BY Constants DEF StampOK, JustAsleep, TypeOK
  <1>5. \/ role'[n] = "Follower"
        \/ role[n] = "Leader" /\ ~ Demoting(n) /\ k \notin {"yield", "stop"}
    BY <1>2, Zenon DEF TypeOK
  <1> QED BY <1>1, <1>2, <1>3, <1>4, <1>5, StartStep, Zenon

(* A leader leaves its role and sleeps.                                     *)
LEMMA SoftYieldStep ==
  ASSUME ElectorInv, TypeOK', NEW n \in Nodes, SoftYield(n),
         UNCHANGED <<shared, info, refreshLocal>>
  PROVE  ElectorInv'
  <1> TypeOK /\ NoLease \in Past /\ ThreadOK(n) /\ StampOK(n) /\ LeaderOK(n)
    BY Zenon DEF ElectorInv
  <1>1. LocalTo(n) /\ Rest(n, 2 * Expired)
    BY Zenon DEF SoftYield, Rest, shared, LocalTo, TypeOK
  <1>2. role'[n] = "Follower" /\ info'[n] \in Past
    BY Zenon DEF SoftYield, ThreadOK, TypeOK
  <1>3. 2 * Expired \in Nat /\ 2 * Expired > 0
    BY Constants
  <1> QED BY <1>1, <1>2, <1>3, RestStep, Zenon

LEMMA LeaderCheckStep ==
  ASSUME ElectorInv, TypeOK', NEW n \in Nodes, LeaderCheck(n)
  PROVE  ElectorInv'
  <1>1. CASE SoftYield(n)
    BY <1>1, SoftYieldStep, Zenon DEF LeaderCheck
  <1>2. CASE Start(n, "refresh") /\ UNCHANGED role
    BY <1>2, LeaderStart, Constants, Zenon DEF LeaderCheck, Awake
  <1> QED BY <1>1, <1>2, Zenon DEF LeaderCheck

LEMMA StopAndYieldStep ==
  ASSUME ElectorInv, TypeOK', NEW n \in Nodes, StopAndYield(n)
  PROVE  ElectorInv'
  <1>1. CASE role[n] = "Leader"
    BY <1>1, LeaderStart, Zenon DEF StopAndYield
  <1>2. CASE role[n] # "Leader"
    <2>1. LocalTo(n) /\ Rest(n, Expired) /\ info'[n] \in Past /\ role'[n] = "Follower"
      BY <1>2 DEF StopAndYield, Rest, shared, LocalTo, ElectorInv, TypeOK, ThreadOK
    <2> QED BY <2>1, RestStep, Constants, ZenonT(60)
  <1> QED BY <1>1, <1>2, Zenon

LEMMA OnLeaderFailsStep ==
  ASSUME ElectorInv, TypeOK', NEW n \in Nodes, OnLeaderFails(n)
  PROVE  ElectorInv'
  <1>1. role[n] = "Leader"
    BY Zenon DEF OnLeaderFails, ElectorInv, ThreadOK
  <1> QED BY <1>1, LeaderStart, Zenon DEF OnLeaderFails

LEMMA OnLeaderStep ==
  ASSUME ElectorInv, TypeOK', NEW n \in Nodes, OnLeader(n)
  PROVE  ElectorInv'
  <1> TypeOK /\ NoLease \in Past /\ ThreadOK(n) /\ StampOK(n) /\ LeaderOK(n)
    BY Zenon DEF ElectorInv
  <1>1. pc[n] = "onLeader" /\ role[n] = "Leader" /\ ~ Demoting(n)
    BY Zenon DEF OnLeader, ThreadOK, Demoting
  <1>2. CASE SoftYield(n)
    BY <1>2, SoftYieldStep, Zenon DEF OnLeader
  <1>3. CASE Rest(n, Probe) /\ UNCHANGED role
    <2>1. LocalTo(n) /\ info'[n] = info[n] /\ info[n] \in Past /\ refreshLocal'[n] = refreshLocal[n]
      BY <1>3, Zenon DEF OnLeader, Rest, shared, LocalTo, TypeOK, ThreadOK
    <2> QED BY <1>1, <1>3, <2>1, RestStep, Constants
  <1>4. CASE Goto(n, "leader", NoJob) /\ UNCHANGED role
    <2>1. LocalTo(n) /\ UNCHANGED <<now, kv, gone, inflight, role, info, refreshLocal>>
      BY <1>4, Zenon DEF OnLeader, Goto, shared, LocalTo, TypeOK
    <2>2. pc'[n] = "leader" /\ job'[n] = NoJob
      BY <1>4, Zenon DEF Goto, TypeOK
    <2>3. NoJob.kind = "none" /\ NoJob.got = NoLease /\ NoJob.ok = FALSE
      BY Zenon DEF NoJob
    <2>4. ThreadOK(n)'
      BY <1>1, <2>1, <2>2, <2>3, Zenon DEF ThreadOK, Demoting, Yielding, Past
    <2>5. StampOK(n)'
      BY <1>1, <2>1, <2>2, Zenon DEF StampOK, JustAsleep, Past, Clock
    <2>6. LeaderOK(n)'
      BY <1>1, <2>1, <2>2, Zenon DEF LeaderOK, Demoting, Holds, Clock
    <2> QED BY <2>1, <2>2, <2>4, <2>5, <2>6, LocalStep, Zenon
  <1> QED BY <1>2, <1>3, <1>4, Zenon DEF OnLeader

LEMMA RereadStep ==
  ASSUME ElectorInv, TypeOK', NEW n \in Nodes, Reread(n)
  PROVE  ElectorInv'
  <1> TypeOK /\ NoLease \in Past /\ ThreadOK(n) /\ StampOK(n) /\ LeaderOK(n)
    BY Zenon DEF ElectorInv
  <1>1. LocalTo(n) /\ UNCHANGED <<now, kv, gone, inflight, role, info, refreshLocal>>
    BY Zenon DEF Reread, Goto, shared, local, LocalTo, TypeOK
  <1>2. pc[n] = "reread" /\ pc'[n] = "reply" /\ job'[n] = [job[n] EXCEPT !.got = kv]
    BY Zenon DEF Reread, Goto, TypeOK
  <1>3. /\ job'[n].kind = job[n].kind /\ job'[n].req = job[n].req
        /\ job'[n].ok = job[n].ok /\ job'[n].got = kv
    BY <1>2, JobType, Zenon DEF Job
  <1>4. ThreadOK(n)'
    BY <1>1, <1>2, <1>3, Zenon DEF ThreadOK, Demoting, Yielding, Past, Clock
  <1>5. StampOK(n)'
    BY <1>1, <1>2, <1>3, ZenonT(60) DEF StampOK, JustAsleep, Demoting, Yielding, Past, Clock
  <1>6. LeaderOK(n)'
    BY <1>1, <1>2, <1>3, Zenon DEF LeaderOK, ThreadOK, Demoting, Yielding, Holds, Clock
  <1> QED BY <1>1, <1>2, <1>4, <1>5, <1>6, LocalStep, Zenon

LEMMA ReplyKnownStep ==
  ASSUME ElectorInv, TypeOK', NEW n \in Nodes, ReplyKnown(n)
  PROVE  ElectorInv'
  <1>1. CASE SoftYield(n)
    BY <1>1, SoftYieldStep, Zenon DEF ReplyKnown
  <1>2. CASE Rest(n, Sleep(n)) /\ UNCHANGED role
    <2>1. LocalTo(n) /\ UNCHANGED <<info, refreshLocal>> /\ info[n] \in Past
      BY SMTT(60), <1>2 DEF ReplyKnown, Rest, shared, LocalTo, ElectorInv, TypeOK, ThreadOK
    <2>2. ~ Demoting(n) /\ role'[n] = role[n] /\ role[n] \in {"Follower", "Leader"}
      BY <1>2, Zenon DEF ReplyKnown, Demoting, ElectorInv, TypeOK
    <2>3. role'[n] = "Follower" \/ Sleep(n) >= Probe
      BY <2>2, LeaderSleep, Zenon DEF ElectorInv
    <2> QED BY <1>2, <2>1, <2>2, <2>3, RestStep, SleepType, Zenon
  <1> QED BY <1>1, <1>2, Zenon DEF ReplyKnown

LEMMA SetRoleStep ==
  ASSUME ElectorInv, TypeOK', NEW n \in Nodes, SetRole(n)
  PROVE  ElectorInv'
  <1> TypeOK /\ NoLease \in Past /\ ThreadOK(n) /\ StampOK(n) /\ LeaderOK(n)
    BY Zenon DEF ElectorInv
  <1>1. CASE role[n] = "Leader"
    <2>1. Rest(n, Sleep(n)) /\ LocalTo(n) /\ UNCHANGED info /\ info[n] \in Past
      BY <1>1, Zenon DEF SetRole, Rest, shared, LocalTo, TypeOK, ThreadOK
    <2>2. role'[n] = "Follower"
      BY <1>1, Zenon DEF SetRole, TypeOK
    <2> QED BY <2>1, <2>2, RestStep, SleepType, Zenon
  <1>2. CASE role[n] # "Leader"
    <2>1. LocalTo(n) /\ UNCHANGED <<now, kv, gone, inflight, info, refreshLocal>>
      BY <1>2, ZenonT(60) DEF SetRole, Goto, shared, LocalTo, TypeOK
    <2>2. /\ pc[n] = "setRole" /\ role[n] = "Follower"
          /\ pc'[n] = "onLeader" /\ job'[n] = job[n] /\ role'[n] = "Leader"
      BY <1>2, ZenonT(60) DEF SetRole, Goto, TypeOK
    <2>3. ThreadOK(n)'
      BY <2>1, <2>2, Zenon DEF ThreadOK, Demoting, Yielding, Past
    <2>4. StampOK(n)'
      <3>1. /\ info[n] = job[n].req.new /\ ~ Yielding(n) /\ ~ Demoting(n)
            /\ info[n].status = "Ready" /\ info[n].refresh <= Clock(n)
        BY <2>2, Zenon DEF ThreadOK, Demoting
      <3>2. \A q \in inflight : q.new.node = n => q.new.refresh < info[n].refresh
        BY <2>2, <3>1, Zenon DEF StampOK, JustAsleep
      <3>3. \A q \in inflight : q.new.refresh \in Nat
        BY Zenon DEF TypeOK, Request, Lease
      <3>4. Clock(n) \in Nat /\ info[n].refresh \in Nat
        BY StampType, Zenon DEF TypeOK, Lease
      <3> QED BY <2>1, <2>2, <3>1, <3>2, <3>3, <3>4, Zenon DEF StampOK, JustAsleep, Past, Clock
    <2>5. LeaderOK(n)'
      <3>1. job[n].ok /\ ~ Yielding(n) /\ refreshLocal[n] = job[n].req.new.refresh
        BY <2>2, Zenon DEF ThreadOK
      <3>2. Holds(n, refreshLocal[n])
        BY <2>2, <3>1, Zenon DEF LeaderOK
      <3>3. \A q \in inflight : q.new.node = n => q.new.refresh < refreshLocal[n]
        BY <2>2, <3>1, Zenon DEF StampOK, JustAsleep
      <3> QED BY <2>1, <2>2, <3>2, <3>3, Zenon DEF LeaderOK, Holds, Clock
    <2> QED BY <2>1, <2>2, <2>3, <2>4, <2>5, LocalStep, Zenon
  <1> QED BY <1>1, <1>2, Zenon

LEMMA ReplyNewStep ==
  ASSUME ElectorInv, TypeOK', NEW n \in Nodes, ReplyNew(n)
  PROVE  ElectorInv'
  <1> TypeOK /\ NoLease \in Past /\ ThreadOK(n) /\ StampOK(n) /\ LeaderOK(n)
    BY Zenon DEF ElectorInv
  <1>1. /\ pc[n] = "reply" /\ UNCHANGED <<shared, role>>
        /\ UNCHANGED <<now, kv, gone, inflight>>
        /\ IF role[n] = NewRole(n) THEN Rest(n, Sleep(n)) ELSE Goto(n, "setRole", job[n])
    BY Zenon DEF ReplyNew, shared
  <1>2. /\ info' = [info EXCEPT ![n] = Answer(n)]
        /\ refreshLocal' = [refreshLocal EXCEPT
                              ![n] = IF BecomeLeader(n) THEN Answer(n).refresh ELSE Clock(n)]
    BY Zenon DEF ReplyNew, NoteRecord
  <1>3. LocalTo(n)
    BY <1>1, <1>2 DEF Goto, Rest, LocalTo, TypeOK
  <1>4. info'[n] = Answer(n) /\ Answer(n) \in Past /\ role'[n] = role[n]
    BY <1>1, <1>2, Zenon DEF Answer, ThreadOK, TypeOK
  <1>5. NewRole(n) = "Leader" =>
          /\ job[n].ok /\ ~ Yielding(n) /\ info'[n] = job[n].req.new
          /\ refreshLocal'[n] = job[n].req.new.refresh
          /\ job[n].req.new.node = n
          /\ Holds(n, job[n].req.new.refresh)
          /\ \A q \in inflight : q.new.node = n => q.new.refresh < job[n].req.new.refresh
    BY <1>1, <1>2, <1>4, Zenon DEF NewRole, BecomeLeader, Answer, ThreadOK, StampOK, JustAsleep, LeaderOK, TypeOK
  <1>6. role[n] \in {"Follower", "Leader"} /\ NewRole(n) \in {"Follower", "Leader"}
    BY Zenon DEF TypeOK, NewRole
  <1>7. CASE role[n] = NewRole(n)
    <2>1. role'[n] = "Follower" \/ Sleep(n) >= Probe
      BY <1>4, <1>6, LeaderSleep, Zenon
    <2> QED BY <1>1, <1>3, <1>4, <1>5, <1>6, <1>7, <2>1, RestStep, SleepType, Zenon
  <1>8. CASE role[n] # NewRole(n)
    <2>1. pc'[n] = "setRole" /\ job'[n] = job[n]
      BY <1>1, <1>8, Zenon DEF Goto, TypeOK
    <2>2. ~ Yielding(n)
      BY <1>6, <1>8, Zenon DEF ThreadOK, NewRole, BecomeLeader
    <2>3. ThreadOK(n)'
      BY <1>1, <1>4, <1>5, <1>6, <1>8, <2>1, <2>2, Zenon DEF ThreadOK, Demoting, Yielding, Past, Clock
    <2>4. StampOK(n)'
      BY <1>1, <2>1, <2>2, Zenon DEF StampOK, JustAsleep, Demoting, Yielding, Past, Clock
    <2>5. LeaderOK(n)'
      BY <1>1, <1>4, <2>1, <2>2, Zenon DEF LeaderOK, Demoting, Yielding, Holds, Clock
    <2> QED BY <1>3, <2>1, <2>3, <2>4, <2>5, LocalStep, Zenon
  <1> QED BY <1>7, <1>8, Zenon

-----------------------------------------------------------------------------
(* Requests: a new one carries a fresh time stamp, and one that is applied,
   at once or late, keeps the leases. *)

(* n sends a request.                                                       *)
LEMMA SendStep ==
  ASSUME ElectorInv, TypeOK', NEW n \in Nodes, LocalTo(n), pc'[n] = "put",
         ThreadOK(n)', StampOK(n)', LeaderOK(n)',
         RequestOK(job'[n].req), \A p \in Pending : p.new # job'[n].req.new
  PROVE  ElectorInv'
  <1>1. UNCHANGED <<now, kv, gone, inflight>>
    BY Zenon DEF LocalTo, shared
  <1>2. \A m \in Nodes \ {n} : ThreadOK(m)' /\ StampOK(m)' /\ LeaderOK(m)'
    BY OthersKeep, Zenon
  <1>3. Pending' \subseteq Pending \cup {job'[n].req}
    BY <1>1 DEF Pending, Sent, LocalTo
  <1>4. \A q \in Pending' : RequestOK(q)'
    BY <1>1, <1>3, Zenon DEF ElectorInv, RequestOK, Takeable, Dead, Clock, Past
  <1>5. \A p, q \in Pending' : p.new = q.new => p = q
    BY <1>3, Zenon DEF ElectorInv
  <1> QED BY <1>1, <1>2, <1>4, <1>5, Zenon DEF ElectorInv, Past

(* No other request, sent or late, has the time stamp n is about to use.    *)
LEMMA FreshStamp ==
  ASSUME ElectorInv, NEW n \in Nodes, pc[n] \in {"got", "stamp"}
  PROVE  \A p \in Pending : p.new.node = n => p.new.refresh < Clock(n)
  <1>1. \A q \in inflight : q.new.node = n => q.new.refresh < Clock(n)
    BY Zenon DEF ElectorInv, StampOK, JustAsleep
  <1>2. ASSUME NEW m \in Sent PROVE job[m].req.new.node = m /\ m # n
    BY Zenon DEF ElectorInv, ThreadOK, Sent
  <1> QED BY <1>1, <1>2, Zenon DEF Pending

LEMMA StampStep ==
  ASSUME ElectorInv, TypeOK', NEW n \in Nodes, Stamp(n)
  PROVE  ElectorInv'
  <1> DEFINE s == IF Yielding(n) THEN "Yield" ELSE "Ready"
             q == [expected |-> info[n], new |-> Stamped(n, s)]
  <1> TypeOK /\ NoLease \in Past /\ ThreadOK(n) /\ StampOK(n) /\ LeaderOK(n)
    BY Zenon DEF ElectorInv
  <1>1. LocalTo(n) /\ UNCHANGED <<now, kv, gone, inflight, role, info, refreshLocal>>
    BY Zenon DEF Stamp, Goto, shared, local, LocalTo, TypeOK
  <1>2. pc[n] = "stamp" /\ pc'[n] = "put" /\ job'[n] = [job[n] EXCEPT !.req = q]
    BY Zenon DEF Stamp, Goto, TypeOK
  <1>3. /\ job'[n].kind = job[n].kind /\ job'[n].req = q
        /\ job'[n].ok = job[n].ok /\ job'[n].got = job[n].got
    BY <1>2, JobType, Zenon DEF Job
  <1>4. /\ q.new.node = n /\ q.new.refresh = Clock(n) /\ q.new.status = s
        /\ q.expected = info[n] /\ Clock(n) \in Nat
    BY StampType, Zenon DEF Stamped
  <1>5. job[n].ok = FALSE
    BY <1>2 DEF ThreadOK
  <1>6. ThreadOK(n)'
    BY <1>1, <1>2, <1>3, <1>4, <1>5 DEF ThreadOK, Demoting, Yielding, Past, Clock
  <1>7. StampOK(n)'
    <2>1. \A v \in Past : v = [node |-> v.node, refresh |-> v.refresh, status |-> v.status]
      BY DEF TypeOK, Past, Lease
    <2>2. \A v \in Past : v.node = n /\ v.refresh = Clock(n) => Yielding(n) \/ v = q.new
      BY <1>2, <2>1, Zenon DEF StampOK, JustAsleep, Stamped
    <2>3. \A v \in Past : v.node = n => v.refresh <= Clock(n)
      BY Zenon DEF StampOK, JustAsleep
    <2>4. \A p \in inflight : p.new.node = n => p.new.refresh < Clock(n)
      BY <1>2, Zenon DEF StampOK, JustAsleep
    <2> QED BY <1>1, <1>2, <1>3, <1>4, <2>2, <2>3, <2>4 DEF StampOK, JustAsleep, Yielding, Past, Clock
  <1>8. LeaderOK(n)'
    BY <1>1, <1>2, Zenon DEF LeaderOK, Demoting, Holds, Clock
  <1>9. RequestOK(q)
    BY <1>2, <1>4 DEF RequestOK, ThreadOK, StampOK, JustAsleep, Past
  <1>10. \A p \in Pending : p.new # q.new
    <2>1. \A p \in Pending : p.new.node = n => p.new.refresh < Clock(n)
      BY <1>2, FreshStamp, Zenon
    <2> QED BY <1>4, <2>1
  <1> QED BY <1>1, <1>2, <1>3, <1>6, <1>7, <1>8, <1>9, <1>10, SendStep, Zenon

LEMMA InitRecordStep ==
  ASSUME ElectorInv, TypeOK', NEW n \in Nodes, InitRecord(n)
  PROVE  ElectorInv'
  <1> DEFINE q == [expected |-> NoLease, new |-> Stamped(n, "Ready")]
  <1> TypeOK /\ NoLease \in Past /\ ThreadOK(n) /\ StampOK(n) /\ LeaderOK(n)
    BY Zenon DEF ElectorInv
  <1>1. LocalTo(n) /\ UNCHANGED <<now, kv, gone, inflight, role, info, refreshLocal>>
    BY Zenon DEF InitRecord, Goto, shared, local, LocalTo, TypeOK
  <1>2. /\ pc[n] = "got" /\ pc'[n] = "put"
        /\ job'[n] = [NoJob EXCEPT !.kind = "init", !.req.new = Stamped(n, "Ready")]
    BY Zenon DEF InitRecord, Goto, TypeOK
  <1>3. job'[n].kind = "init" /\ job'[n].req = q /\ job'[n].ok = FALSE /\ job'[n].got = NoLease
    BY <1>2, Zenon DEF NoJob
  <1>4. /\ q.new.node = n /\ q.new.refresh = Clock(n) /\ q.new.status = "Ready"
        /\ q.expected = NoLease /\ NoLease.node \notin Nodes /\ Clock(n) \in Nat
    BY StampType, Constants, Zenon DEF Stamped, NoLease
  <1>5. /\ \A v \in Past : v.node = n => v.refresh < Clock(n) /\ v.refresh \in Nat
        /\ \A p \in inflight : p.new.node = n => p.new.refresh < Clock(n)
    BY <1>2, AwakeFresh, Zenon DEF Past, TypeOK, Lease
  <1>6. ThreadOK(n)'
    BY <1>1, <1>2, <1>3, <1>4 DEF ThreadOK, Demoting, Yielding, Past, Clock
  <1>7. StampOK(n)'
    BY <1>1, <1>2, <1>3, <1>4, <1>5, Zenon DEF StampOK, JustAsleep, Past, Clock
  <1>8. LeaderOK(n)'
    BY <1>1, <1>2, Zenon DEF ThreadOK, LeaderOK
  <1>9. RequestOK(q)
    BY <1>4, <1>5 DEF RequestOK, Takeable, Dead
  <1>10. \A p \in Pending : p.new # q.new
    <2>1. \A p \in Pending : p.new.node = n => p.new.refresh < Clock(n)
      BY <1>2, FreshStamp, Zenon
    <2> QED BY <1>4, <2>1
  <1> QED BY <1>1, <1>2, <1>3, <1>6, <1>7, <1>8, <1>9, <1>10, SendStep, Zenon
-----------------------------------------------------------------------------
LEMMA PendingType ==
  ASSUME TypeOK
  PROVE  \A q \in Pending : /\ q \in Request
                            /\ q.new.refresh \in Nat /\ q.expected.refresh \in Nat
  <1>1. \A n \in Nodes : job[n].req \in Request
    BY JobType, ZenonT(60)
  <1> QED BY <1>1 DEF TypeOK, Pending, Sent, Request, Lease

(* A pending request is late, or the sender named in it waits for it.       *)
LEMMA PendingSender ==
  ASSUME ElectorInv, NEW q \in Pending
  PROVE  \/ q \in inflight
         \/ q.new.node \in Nodes /\ pc[q.new.node] = "put" /\ q = job[q.new.node].req
  BY DEF ElectorInv, ThreadOK, Pending, Sent

(* A request that is applied writes a record that never was there before.   *)
LEMMA CasFacts ==
  ASSUME ElectorInv, NEW q \in Pending, Cas(q)
  PROVE  /\ gone \subseteq gone' /\ Past \subseteq Past' /\ Past' \subseteq Past \cup {q.new}
         /\ kv' \notin gone'
         /\ kv' # kv => kv = q.expected /\ kv' = q.new /\ q.new \notin Past
  <1>1. RequestOK(q) /\ kv \notin gone
    BY Zenon DEF ElectorInv
  <1>2. kv' # kv => kv = q.expected /\ kv' = q.new /\ q.new \notin Past /\ gone' = gone \cup {kv}
    BY <1>1, Zenon DEF Cas, RequestOK
  <1>3. kv' = kv => gone' = gone
    BY Zenon DEF Cas
  <1> QED BY <1>1, <1>2, <1>3, Zenon DEF Past

(* The other requests stay sound: two of them never write the same record.  *)
LEMMA CasRequests ==
  ASSUME ElectorInv, NEW q \in Pending, Cas(q), now' = now, NEW p \in Pending
  PROVE  RequestOK(p)'
  <1>1. RequestOK(p) /\ (p.new = q.new => p = q)
    BY Zenon DEF ElectorInv
  <1>2. /\ gone \subseteq gone' /\ Past' \subseteq Past \cup {q.new}
        /\ kv' # kv => kv = q.expected /\ kv' = q.new /\ q.new \notin Past
    BY CasFacts, Zenon
  <1>3. p.new \in Past' => p.expected \in gone' \/ p.expected = p.new
    <2>1. CASE p.new \in Past
      BY <1>1, <1>2, <2>1, Zenon DEF RequestOK
    <2>2. CASE p.new \notin Past /\ p.new \in Past'
      <3>1. p = q /\ kv = q.expected /\ kv' # kv
        BY <1>1, <1>2, <2>2, Zenon DEF Past, Cas
      <3> QED BY <3>1, Zenon DEF Cas
    <2> QED BY <2>1, <2>2, Zenon
  <1> QED BY <1>1, <1>2, <1>3, Zenon DEF RequestOK, Takeable, Dead, Clock

(* A lease stays with its owner until it is over, or its owner returns it.  *)
LEMMA CasHolds ==
  ASSUME ElectorInv, NEW q \in Pending, Cas(q), now' = now,
         NEW m \in Nodes, NEW t \in Nat, Holds(m, t),
         q.new.node = m /\ q.new.status = "Yield" => q.new.refresh < t
  PROVE  \/ kv'.node = m /\ kv'.status = "Ready" /\ kv'.refresh >= t
         \/ Clock(m) + MaxSkew >= t + Expired
  <1>1. RequestOK(q) /\ kv \notin gone /\ q.new.refresh \in Nat /\ q \in Request
    BY PendingType, Zenon DEF ElectorInv
  <1>2. now \in Nat /\ kv \in Lease /\ kv.refresh \in Nat /\ q.new.status \in {"Ready", "Yield"}
    BY <1>1, Zenon DEF ElectorInv, TypeOK, Lease, Request
  <1>3. Clock(m) \in Nat /\ Clock(m)' = Clock(m)
    BY StampType, Zenon DEF ElectorInv, Clock
  <1>4. CASE kv' = kv
    BY <1>3, <1>4, Zenon DEF Holds
  <1>5. CASE kv' # kv /\ kv.node = m /\ kv.status = "Ready" /\ kv.refresh >= t
    <2>1. kv = q.expected /\ kv' = q.new
      BY <1>5, Zenon DEF Cas
    <2>2. CASE q.new.node # m
      <3>1. Clock(m) + MaxSkew >= kv.refresh + Expired
        BY <1>1, <1>5, <2>1, <2>2, Zenon DEF RequestOK, Takeable, Dead
      <3> QED BY <1>2, <1>3, <1>5, <3>1, Constants DEF Holds
    <2>3. CASE q.new.node = m
      <3>1. kv.refresh <= q.new.refresh
        BY <1>1, <1>5, <2>1, <2>3, Zenon DEF RequestOK
      <3> QED BY <1>1, <1>2, <1>5, <2>1, <2>3, <3>1 DEF Holds
    <2> QED BY <2>2, <2>3, Zenon
  <1> QED BY <1>3, <1>4, <1>5, Zenon DEF Holds

(* What a request that is applied does to a node that takes no step.        *)
LEMMA CasKeeps ==
  ASSUME ElectorInv, NEW q \in Pending, Cas(q), now' = now, inflight' \subseteq inflight,
         NEW m \in Nodes,
         pc'[m] = pc[m], job'[m] = job[m], wait'[m] = wait[m], UNCHANGED local
  PROVE  ThreadOK(m)' /\ StampOK(m)' /\ LeaderOK(m)'
  <1>1. ThreadOK(m) /\ StampOK(m) /\ LeaderOK(m) /\ RequestOK(q)
    BY Zenon DEF ElectorInv
  <1>2. gone \subseteq gone' /\ Past \subseteq Past' /\ Past' \subseteq Past \cup {q.new}
    BY CasFacts, Zenon
  <1>3. Clock(m)' = Clock(m) /\ UNCHANGED <<role, info, refreshLocal>>
    BY Zenon DEF Clock, local
  <1>4. Yielding(m)' = Yielding(m) /\ Demoting(m)' = Demoting(m)
    BY <1>3, Zenon DEF Yielding, Demoting
  <1>5. Takeable(info[m]) => Takeable(info[m])'
    BY <1>3, Zenon DEF Takeable, Dead, Clock
  <1>6. ThreadOK(m)'
    BY <1>1, <1>2, <1>3, <1>4, <1>5, ZenonT(60) DEF ThreadOK
  <1>7. StampOK(m)'
    <2>1. q.new.node = m =>
            /\ q.new.refresh <= Clock(m)
            /\ q.new.refresh = Clock(m) => \/ JustAsleep(m)
                                           \/ pc[m] = "put" /\ q.new = job[m].req.new
      <3>1. q.new.node = m => \/ q \in inflight
                              \/ pc[m] = "put" /\ q = job[m].req
        BY PendingSender, Zenon
      <3>2. q.new.refresh \in Nat /\ Clock(m) \in Nat
        BY PendingType, StampType, Zenon DEF ElectorInv
      <3> QED BY <1>1, <3>1, <3>2 DEF StampOK, JustAsleep, RequestOK
    <2> QED BY <1>1, <1>2, <1>3, <1>4, <2>1, ZenonT(60) DEF StampOK, JustAsleep
  <1>8. LeaderOK(m)'
    <2>1. /\ refreshLocal[m] \in Nat /\ job[m].req.new.refresh \in Nat
      BY JobType, Zenon DEF ElectorInv, TypeOK, Lease
    <2>2. q.new.node = m => \/ q \in inflight
                            \/ pc[m] = "put" /\ q = job[m].req
      BY PendingSender, Zenon
    <2>3. ASSUME role[m] = "Leader", ~ Demoting(m)
          PROVE  \/ kv'.node = m /\ kv'.status = "Ready" /\ kv'.refresh >= refreshLocal[m]
                 \/ Clock(m) + MaxSkew >= refreshLocal[m] + Expired
      <3>1. q.new.node = m /\ q.new.status = "Yield" => q.new.refresh < refreshLocal[m]
        BY <1>1, <2>2, <2>3, Zenon DEF LeaderOK, ThreadOK
      <3> QED BY <1>1, <2>1, <2>3, <3>1, CasHolds, Zenon DEF LeaderOK
    <2>4. ASSUME pc[m] \in {"reply", "setRole"}, job[m].ok, ~ Yielding(m)
          PROVE  \/ kv'.node = m /\ kv'.status = "Ready" /\ kv'.refresh >= job[m].req.new.refresh
                 \/ Clock(m) + MaxSkew >= job[m].req.new.refresh + Expired
      <3>1. q.new.node = m => q.new.refresh < job[m].req.new.refresh
        BY <1>1, <2>2, <2>4, Zenon DEF StampOK, JustAsleep
      <3> QED BY <1>1, <2>1, <2>4, <3>1, CasHolds, Zenon DEF LeaderOK
    <2> QED BY <1>1, <1>3, <1>4, <2>3, <2>4, Zenon DEF LeaderOK, Holds
  <1> QED BY <1>6, <1>7, <1>8, Zenon

LEMMA KvCommitUnknownStep ==
  ASSUME ElectorInv, TypeOK', NEW n \in Nodes, KvCommitUnknown(n)
  PROVE  ElectorInv'
  <1>1. job[n].req \in Pending
    BY Zenon DEF KvCommitUnknown, Pending, Sent
  <1>2. Cas(job[n].req) /\ UNCHANGED <<now, inflight, local, pc, job, wait>>
    BY Zenon DEF KvCommitUnknown
  <1>3. \A m \in Nodes : ThreadOK(m)' /\ StampOK(m)' /\ LeaderOK(m)'
    BY <1>1, <1>2, CasKeeps, Zenon
  <1>4. Pending' = Pending
    BY <1>2, Zenon DEF Pending, Sent
  <1>5. \A p \in Pending : RequestOK(p)'
    BY <1>1, <1>2, CasRequests, Zenon
  <1>6. kv' \notin gone' /\ NoLease \in Past'
    BY <1>1, <1>2, CasFacts, Zenon DEF ElectorInv
  <1> QED BY <1>3, <1>4, <1>5, <1>6, Zenon DEF ElectorInv

LEMMA KvLateCasStep ==
  ASSUME ElectorInv, TypeOK', NEW q \in inflight, KvLateCas(q)
  PROVE  ElectorInv'
  <1>1. q \in Pending
    BY Zenon DEF Pending
  <1>2. Cas(q) /\ UNCHANGED <<now, local, pc, job, wait>> /\ inflight' \subseteq inflight
    BY Zenon DEF KvLateCas
  <1>3. \A m \in Nodes : ThreadOK(m)' /\ StampOK(m)' /\ LeaderOK(m)'
    BY <1>1, <1>2, CasKeeps, Zenon
  <1>4. Pending' \subseteq Pending
    BY <1>2, Zenon DEF Pending, Sent
  <1>5. \A p \in Pending : RequestOK(p)'
    BY <1>1, <1>2, CasRequests, Zenon
  <1>6. kv' \notin gone' /\ NoLease \in Past'
    BY <1>1, <1>2, CasFacts, Zenon DEF ElectorInv
  <1> QED BY <1>3, <1>4, <1>5, <1>6, Zenon DEF ElectorInv

-----------------------------------------------------------------------------
(* The steps of the metastore, of the clock and of the processes, and the
   theorems. *)

LEMMA KvCasStep ==
  ASSUME ElectorInv, TypeOK', NEW n \in Nodes, KvCas(n)
  PROVE  ElectorInv'
  <1> DEFINE q == job[n].req
  <1>1. q \in Pending /\ pc[n] = "put"
    BY Zenon DEF KvCas, Pending, Sent
  <1>2. Cas(q) /\ UNCHANGED <<now, inflight, local>>
    BY Zenon DEF KvCas
  <1>3. /\ \A m \in Nodes \ {n} : pc'[m] = pc[m] /\ job'[m] = job[m] /\ wait'[m] = wait[m]
        /\ kv = q.expected => pc'[n] = "reply" /\ job'[n] = [job[n] EXCEPT !.ok = TRUE]
        /\ kv # q.expected => pc'[n] = "reread" /\ job'[n] = job[n]
    BY Zenon DEF KvCas, Goto, ElectorInv, TypeOK
  <1>4. /\ job'[n].kind = job[n].kind /\ job'[n].req = q /\ job'[n].got = job[n].got
        /\ kv = q.expected => pc'[n] = "reply" /\ job'[n].ok
        /\ kv # q.expected => pc'[n] = "reread" /\ ~ job'[n].ok
    BY SMTT(60), <1>1, <1>3, JobType DEF ElectorInv, Job, ThreadOK
  <1>5. /\ gone \subseteq gone' /\ Past \subseteq Past' /\ Past' \subseteq Past \cup {q.new}
        /\ kv' \notin gone' /\ NoLease \in Past'
    BY <1>1, <1>2, CasFacts, Zenon DEF ElectorInv
  <1>6. \A m \in Nodes \ {n} : ThreadOK(m)' /\ StampOK(m)' /\ LeaderOK(m)'
    BY <1>1, <1>2, <1>3, CasKeeps, Zenon
  <1>7. ThreadOK(n) /\ StampOK(n) /\ LeaderOK(n)
    BY Zenon DEF ElectorInv
  <1>8. Clock(n)' = Clock(n) /\ UNCHANGED <<role, info, refreshLocal, inflight>>
        /\ Yielding(n)' = Yielding(n) /\ ~ Demoting(n) /\ ~ Demoting(n)'
    BY <1>1, <1>2, <1>4, Zenon DEF Clock, local, Yielding, Demoting
  <1>9. q.new \in Past' \/ ~ job'[n].ok
    BY <1>2, <1>4, Zenon DEF Cas, Past
  <1>10. ThreadOK(n)'
    BY <1>1, <1>4, <1>5, <1>7, <1>8, <1>9, Zenon DEF ThreadOK
  <1>11. StampOK(n)'
    BY <1>1, <1>4, <1>5, <1>7, <1>8, Zenon DEF StampOK, JustAsleep, ThreadOK
  <1>12. LeaderOK(n)'
    <2>1. refreshLocal[n] \in Nat /\ q.new.refresh \in Nat
      BY JobType, Zenon DEF ElectorInv, TypeOK, Lease
    <2>2. role[n] = "Leader" => q.new.status # "Yield"
      BY <1>1, <1>7, Zenon DEF ThreadOK
    <2>3. ASSUME role[n] = "Leader"
          PROVE  \/ kv'.node = n /\ kv'.status = "Ready" /\ kv'.refresh >= refreshLocal[n]
                 \/ Clock(n) + MaxSkew >= refreshLocal[n] + Expired
      BY <1>1, <1>2, <1>7, <1>8, <2>1, <2>2, <2>3, CasHolds, Zenon DEF LeaderOK
    <2>4. ASSUME job'[n].ok, ~ Yielding(n)
          PROVE  kv'.node = n /\ kv'.status = "Ready" /\ kv'.refresh >= q.new.refresh
      <3>1. kv' = q.new /\ q.new.node = n /\ q.new.status = "Ready"
        BY <1>1, <1>2, <1>4, <1>7, <2>4, Zenon DEF Cas, ThreadOK
      <3> QED BY <2>1, <3>1
    <2> QED BY <1>4, <1>7, <1>8, <2>3, <2>4, Zenon DEF LeaderOK, Holds
  <1>13. Pending' \subseteq Pending
    BY <1>2, <1>3, <1>4 DEF Pending, Sent
  <1>14. \A p \in Pending : RequestOK(p)'
    BY <1>1, <1>2, CasRequests, Zenon
  <1> QED BY <1>5, <1>6, <1>10, <1>11, <1>12, <1>13, <1>14, Zenon DEF ElectorInv
-----------------------------------------------------------------------------
(* A call fails or its process dies: the request may be applied later.      *)
LEMMA AbandonStep ==
  ASSUME ElectorInv, TypeOK', NEW n \in Nodes, Abandon(n), NEW t \in Nat, t > 0, Rest(n, t),
         UNCHANGED <<now, kv, gone>>,
         \A m \in Nodes \ {n} :
           role'[m] = role[m] /\ info'[m] = info[m] /\ refreshLocal'[m] = refreshLocal[m],
         info'[n] \in Past, role'[n] = "Follower" \/ t >= Probe,
         \/ role'[n] = "Follower"
         \/ /\ role[n] = "Leader" /\ pc[n] \in {"put", "reread"}
            /\ info'[n] = info[n] /\ refreshLocal'[n] = refreshLocal[n]
  PROVE  ElectorInv'
  <1>1. /\ pc'[n] = "check" /\ wait'[n] = t /\ job'[n] = NoJob
        /\ \A m \in Nodes \ {n} : pc'[m] = pc[m] /\ job'[m] = job[m] /\ wait'[m] = wait[m]
    BY Zenon DEF Rest, ElectorInv, TypeOK
  <1>2. job'[n].kind = "none" /\ job'[n].got = NoLease /\ job'[n].ok = FALSE
    BY <1>1 DEF NoJob
  <1>3. /\ \A q \in inflight' : q \in inflight \/ (pc[n] = "put" /\ q = job[n].req)
        /\ Pending' \subseteq Pending
    BY <1>1, Zenon DEF Abandon, Pending, Sent
  <1>4. Past' = Past /\ \A m \in Nodes : Clock(m)' = Clock(m)
    BY Zenon DEF Past, Clock
  <1>5. \A m \in Nodes : ThreadOK(m) /\ StampOK(m) /\ LeaderOK(m)
    BY Zenon DEF ElectorInv
  <1>6. pc[n] = "put" => job[n].req.new.node = n
    BY <1>5, Zenon DEF ThreadOK
  <1>7. ASSUME NEW m \in Nodes \ {n} PROVE ThreadOK(m)' /\ StampOK(m)' /\ LeaderOK(m)'
    <2>1. /\ pc'[m] = pc[m] /\ job'[m] = job[m] /\ wait'[m] = wait[m] /\ role'[m] = role[m]
          /\ info'[m] = info[m] /\ refreshLocal'[m] = refreshLocal[m]
          /\ Clock(m)' = Clock(m) /\ ThreadOK(m) /\ StampOK(m) /\ LeaderOK(m)
      BY <1>1, <1>4, <1>5, Zenon
    <2>2. \A q \in inflight' : q.new.node = m => q \in inflight
      BY <1>3, <1>6, Zenon
    <2>3. ThreadOK(m)'
      BY <1>4, <2>1, ZenonT(60) DEF ThreadOK, Takeable, Dead, Clock, Yielding, Demoting
    <2>4. StampOK(m)'
      BY <1>4, <2>1, <2>2, Zenon DEF StampOK, JustAsleep, Yielding, Demoting
    <2>5. LeaderOK(m)'
      BY <2>1, <2>2, Zenon DEF LeaderOK, Yielding, Demoting, Holds
    <2> QED BY <2>3, <2>4, <2>5, Zenon
  <1>8. ThreadOK(n)'
    <2>1. role'[n] = "Leader" => info'[n].node = n
      BY <1>5 DEF ThreadOK, Demoting
    <2> QED BY <1>1, <1>2, <1>4, <2>1, Zenon DEF ThreadOK, Demoting, Yielding, ElectorInv
  <1>9. StampOK(n)'
    BY <1>1, <1>4, <1>5, Zenon DEF StampOK, JustAsleep
  <1>10. LeaderOK(n)'
    <2>1. ASSUME role'[n] = "Leader"
          PROVE  /\ Holds(n, refreshLocal[n]) /\ refreshLocal'[n] = refreshLocal[n]
                 /\ \A q \in inflight' : q.new.node = n /\ q.new.status = "Yield"
                                           => q.new.refresh < refreshLocal[n]
      <3>1. role[n] = "Leader" /\ ~ Demoting(n) /\ pc[n] \in {"put", "reread"}
        BY <2>1, Zenon DEF Demoting
      <3>2. pc[n] = "put" => job[n].req.new.status # "Yield"
        BY <1>5, <3>1, Zenon DEF ThreadOK
      <3> QED BY <1>3, <1>5, <2>1, <3>1, <3>2, Zenon DEF LeaderOK
    <2> QED BY <1>1, <1>2, <1>4, <2>1, Zenon DEF LeaderOK, Holds
  <1>11. \A q \in Pending : RequestOK(q)'
    BY <1>4, Zenon DEF ElectorInv, RequestOK, Takeable, Dead, Clock
  <1> QED BY <1>3, <1>4, <1>7, <1>8, <1>9, <1>10, <1>11, Zenon DEF ElectorInv

LEMMA PutErrorStep ==
  ASSUME ElectorInv, TypeOK', NEW n \in Nodes, PutError(n)
  PROVE  ElectorInv'
  <1>1. UNCHANGED <<role, info, refreshLocal>> /\ info[n] \in Past
    BY Zenon DEF PutError, local, ElectorInv, ThreadOK
  <1>2. role[n] \in {"Follower", "Leader"} /\ pc[n] \in {"put", "reread"}
    BY Zenon DEF PutError, ElectorInv, TypeOK
  <1>3. role'[n] = "Follower" \/ Sleep(n) >= Probe
    BY <1>1, <1>2, LeaderSleep, Zenon DEF ElectorInv
  <1> QED BY <1>1, <1>2, <1>3, AbandonStep, SleepType, Zenon DEF PutError

LEMMA CrashStep ==
  ASSUME ElectorInv, TypeOK', NEW n \in Nodes, Crash(n)
  PROVE  ElectorInv'
  <1>1. /\ role'[n] = "Follower" /\ info'[n] = NoLease /\ NoLease \in Past
        /\ \A m \in Nodes \ {n} :
             role'[m] = role[m] /\ info'[m] = info[m] /\ refreshLocal'[m] = refreshLocal[m]
    BY Zenon DEF Crash, ElectorInv, TypeOK
  <1> QED BY <1>1, AbandonStep DEF Crash

(* Time passes: leases only run out, and a stamp of the past stays past.    *)
LEMMA TickStep ==
  ASSUME ElectorInv, TypeOK', Tick
  PROVE  ElectorInv'
  <1>1. UNCHANGED <<kv, gone, inflight, role, info, refreshLocal, pc, job>>
    BY Zenon DEF Tick, local
  <1>2. \A m \in Nodes : Clock(m) \in Nat /\ Clock(m)' = Clock(m) + 1
    <2>1. now \in Nat /\ now' = now + 1
      BY Zenon DEF Tick, ElectorInv, TypeOK
    <2> QED BY <2>1, Constants DEF Clock
  <1>3. Past' = Past /\ Pending' = Pending
    BY <1>1, Zenon DEF Past, Pending, Sent
  <1>4. \A v \in Lease : v.refresh \in Nat /\ (Takeable(v) => Takeable(v)')
    BY <1>2, Constants DEF Takeable, Dead, Lease
  <1>5. \A v \in Past : v \in Lease
    BY Zenon DEF ElectorInv, TypeOK, Past
  <1>6. ASSUME NEW m \in Nodes PROVE ThreadOK(m)' /\ StampOK(m)' /\ LeaderOK(m)'
    <2>1. ThreadOK(m) /\ StampOK(m) /\ LeaderOK(m)
      BY Zenon DEF ElectorInv
    <2>2. /\ info[m] \in Lease /\ refreshLocal[m] \in Nat /\ job[m].req.new.refresh \in Nat
          /\ Clock(m) \in Nat /\ Clock(m)' = Clock(m) + 1
      BY <1>2, JobType, Zenon DEF ElectorInv, TypeOK, Lease
    <2>3. Yielding(m)' = Yielding(m) /\ Demoting(m)' = Demoting(m)
      BY <1>1, ZenonT(60) DEF Yielding, Demoting
    <2>4. ThreadOK(m)'
      BY SMTT(60), <1>1, <1>3, <1>4, <2>1, <2>2, <2>3 DEF ThreadOK
    <2>5. StampOK(m)'
      <3>1. \A v \in Past : v.node = m => v.refresh <= Clock(m) /\ v.refresh \in Nat
        BY <1>4, <1>5, <2>1, Zenon DEF StampOK, JustAsleep
      <3>2. \A q \in inflight : q.new.node = m => q.new.refresh <= Clock(m) /\ q.new.refresh \in Nat
        <4>1. \A q \in inflight : RequestOK(q) /\ q.new.refresh \in Nat
          BY PendingType, Zenon DEF ElectorInv, Pending
        <4> QED BY <4>1, Zenon DEF RequestOK
      <3> QED BY <1>1, <1>3, <2>1, <2>2, <3>1, <3>2 DEF StampOK, JustAsleep
    <2>6. LeaderOK(m)'
      <3>1. \A x \in Nat : Clock(m) + MaxSkew >= x + Expired => Clock(m)' + MaxSkew >= x + Expired
        BY <2>2, Constants
      <3> QED BY <1>1, <2>1, <2>2, <2>3, <3>1, Zenon DEF LeaderOK, Holds
    <2> QED BY <2>4, <2>5, <2>6, Zenon
  <1>7. ASSUME NEW q \in Pending PROVE RequestOK(q)'
    <2>1. RequestOK(q) /\ q \in Request /\ q.expected \in Lease /\ q.new.refresh \in Nat
      BY PendingType, Zenon DEF ElectorInv, Request
    <2> QED BY <1>1, <1>2, <1>3, <1>4, <2>1 DEF RequestOK
  <1> QED BY <1>1, <1>3, <1>6, <1>7, Zenon DEF ElectorInv
-----------------------------------------------------------------------------
LEMMA ElectorInit == ASSUME Init PROVE ElectorInv
  <1>1. TypeOK
    BY NoLeaseType, Zenon DEF Init, TypeOK, Labels
  <1>2. Past = {NoLease} /\ Pending = {}
    BY Zenon DEF Init, Past, Pending, Sent
  <1>3. ASSUME NEW n \in Nodes PROVE ThreadOK(n) /\ StampOK(n) /\ LeaderOK(n)
    <2>1. /\ pc[n] = "check" /\ role[n] = "Follower" /\ info[n] = NoLease
          /\ job[n].kind = "none" /\ job[n].got = NoLease /\ job[n].ok = FALSE
      BY Zenon DEF Init, NoJob
    <2>2. NoLease.node # n /\ inflight = {}
      BY Constants, Zenon DEF NoLease, Init
    <2> QED BY <1>2, <2>1, <2>2, Zenon DEF ThreadOK, StampOK, JustAsleep, LeaderOK, Yielding, Demoting
  <1> QED BY <1>1, <1>2, <1>3, Zenon DEF ElectorInv, Init

LEMMA ElectorStep == ASSUME ElectorInv, [Next]_vars PROVE ElectorInv'
  <1>1. TypeOK'
    BY TypeStep, Zenon DEF ElectorInv
  <1>2. ASSUME NEW n \in Nodes, NodeStep(n) PROVE ElectorInv'
    BY <1>1, <1>2, GetRecordStep, GetErrorStep, InitRecordStep, DecideStep, LeaderCheckStep,
       StopAndYieldStep, StampStep, KvCasStep, KvCommitUnknownStep, PutErrorStep, RereadStep,
       ReplyKnownStep, ReplyNewStep, SetRoleStep, OnLeaderStep, OnLeaderFailsStep, Zenon DEF NodeStep
  <1>3. CASE UNCHANGED vars
    <2>1. UNCHANGED <<now, kv, gone, inflight, role, info, refreshLocal, pc, job, wait>>
      BY <1>3, Zenon DEF vars, shared, local
    <2>2. Past' = Past /\ Pending' = Pending
      BY <2>1, Zenon DEF Past, Pending, Sent
    <2>3. ASSUME NEW m \in Nodes PROVE ThreadOK(m)' /\ StampOK(m)' /\ LeaderOK(m)'
      <3>1. ThreadOK(m) /\ StampOK(m) /\ LeaderOK(m)
        BY Zenon DEF ElectorInv
      <3>2. ThreadOK(m)'
        BY <2>1, <2>2, <3>1, Zenon DEF ThreadOK, Takeable, Dead, Clock, Yielding, Demoting
      <3>3. StampOK(m)' /\ LeaderOK(m)'
        BY <2>1, <2>2, <3>1, Zenon DEF StampOK, JustAsleep, LeaderOK, Holds, Clock, Yielding, Demoting
      <3> QED BY <3>2, <3>3, Zenon
    <2>4. \A q \in Pending : RequestOK(q)'
      BY <2>1, <2>2, Zenon DEF ElectorInv, RequestOK, Takeable, Dead, Clock
    <2> QED BY <1>1, <2>1, <2>2, <2>3, <2>4, Zenon DEF ElectorInv
  <1> QED BY <1>1, <1>2, <1>3, TickStep, CrashStep, KvLateCasStep, Zenon DEF Next

(* The record changes only when a request that is still pending matches.    *)
LEMMA WriteIsCas ==
  ASSUME [Next]_vars, kv' # kv
  PROVE  \E q \in Pending : Cas(q)
  <1>1. ASSUME NEW n \in Nodes, NodeStep(n) PROVE KvCas(n) \/ KvCommitUnknown(n)
    BY <1>1, Zenon DEF NodeStep, GetRecord, GetError, InitRecord, Decide, LeaderCheck, StopAndYield,
       Stamp, PutError, Reread, ReplyKnown, ReplyNew, SetRole, OnLeader, OnLeaderFails, shared
  <1>2. ASSUME NEW n \in Nodes, KvCas(n) \/ KvCommitUnknown(n) PROVE \E q \in Pending : Cas(q)
    <2>1. job[n].req \in Pending /\ Cas(job[n].req)
      BY <1>2, Zenon DEF KvCas, KvCommitUnknown, Pending, Sent
    <2> QED BY <2>1, Zenon
  <1>3. ASSUME NEW q \in inflight, KvLateCas(q) PROVE \E p \in Pending : Cas(p)
    BY <1>3, Zenon DEF KvLateCas, Pending
  <1>4. ~ Tick /\ (\A n \in Nodes : ~ Crash(n)) /\ ~ UNCHANGED vars
    BY Zenon DEF Tick, Crash, vars, shared
  <1> QED BY <1>1, <1>2, <1>3, <1>4, Zenon DEF Next

(* Type correctness of the elector.                                         *)
THEOREM TypeCorrect == Spec => []TypeOK
  <1>1. Init => TypeOK
    BY ElectorInit, Zenon DEF ElectorInv
  <1>2. TypeOK /\ [Next]_vars => TypeOK'
    BY TypeStep, Zenon
  <1> QED BY <1>1, <1>2, PTL DEF Spec

(* Threads, requests, time stamps and leases agree at every step, for every *)
(* set of nodes, every skew of the clocks and all intervals.                *)
THEOREM ElectorInvariant == Spec => []ElectorInv
  <1>1. Init => ElectorInv
    BY ElectorInit, Zenon
  <1>2. ElectorInv /\ [Next]_vars => ElectorInv'
    BY ElectorStep, Zenon
  <1> QED BY <1>1, <1>2, PTL DEF Spec

LEMMA SafeLeaderOwns ==
  ASSUME ElectorInv, NEW n \in Nodes, SafeLeader(n)
  PROVE  kv.node = n /\ kv.status = "Ready"
  <1>1. Holds(n, refreshLocal[n])
    BY Zenon DEF ElectorInv, LeaderOK, SafeLeader, isLeader
  <1>2. Clock(n) \in Nat /\ refreshLocal[n] \in Nat
    BY StampType, Zenon DEF ElectorInv, TypeOK
  <1> QED BY <1>1, <1>2, Constants DEF Holds, SafeLeader

(* A leader whose lease has more than MaxSkew left is named by the record.  *)
THEOREM LeaderOwnsTheRecord == Spec => []LeaderOwnsRecord
  <1>1. ElectorInv => LeaderOwnsRecord
    BY SafeLeaderOwns, Zenon DEF LeaderOwnsRecord
  <1> QED BY <1>1, ElectorInvariant, PTL

(* Two nodes never both hold a lease with more than MaxSkew left.            *)
THEOREM LeaderIsUnique == Spec => []AtMostOneLeader
  <1>1. ElectorInv => AtMostOneLeader
    BY SafeLeaderOwns, Zenon DEF AtMostOneLeader
  <1> QED BY <1>1, ElectorInvariant, PTL

(* No CAS, however late, takes a lease before it ran out for its owner.     *)
THEOREM LeasesAreRespected == Spec => LeaseRespected
  <1>1. ElectorInv /\ [Next]_vars =>
          [kv.node \in Nodes /\ kv'.node # kv.node /\ kv.status = "Ready"
             => Clock(kv.node) + MaxSkew >= kv.refresh + Expired]_kv
    <2> SUFFICES ASSUME ElectorInv, [Next]_vars, kv' # kv,
                        kv.node \in Nodes, kv'.node # kv.node, kv.status = "Ready"
                 PROVE  Clock(kv.node) + MaxSkew >= kv.refresh + Expired
      OBVIOUS
    <2>1. PICK q \in Pending : Cas(q)
      BY WriteIsCas, Zenon
    <2>2. kv = q.expected /\ kv' = q.new /\ RequestOK(q) /\ kv \notin gone
      BY <2>1, Zenon DEF Cas, ElectorInv
    <2> QED BY <2>2, Zenon DEF RequestOK, Takeable, Dead
  <1> QED BY <1>1, ElectorInvariant, PTL DEF Spec, LeaseRespected

(* The record never takes an old value again, so comparing values is safe.  *)
THEOREM RecordsAreFresh == Spec => RecordNeverReused
  <1>1. ElectorInv /\ [Next]_vars => [kv' \notin gone]_kv
    <2> SUFFICES ASSUME ElectorInv, [Next]_vars, kv' # kv PROVE kv' \notin gone
      OBVIOUS
    <2>1. PICK q \in Pending : Cas(q)
      BY WriteIsCas, Zenon
    <2> QED BY <2>1, CasFacts, Zenon
  <1> QED BY <1>1, ElectorInvariant, PTL DEF Spec, RecordNeverReused
=============================================================================
