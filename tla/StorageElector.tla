--------------------------- MODULE StorageElector ---------------------------
(***************************************************************************)
(* Leader election by a lease record in the metastore, as used by the TSO  *)
(* server, the resource manager and the server manager.  Every node runs   *)
(* one background thread (bg_thread) that alternates doFollowerCheck and   *)
(* doLeaderCheck; other threads call isLeader() at any moment.             *)
(*                                                                         *)
(* A lease record keeps the fields the protocol reads: the owner's address,*)
(* last_refresh_time and status.  elected_time and the previous leader are *)
(* only reported; records that differ in them alone are identified, which  *)
(* can only let more CAS requests succeed.  All nodes have the same        *)
(* intervals, as they share one configuration.                             *)
(*                                                                         *)
(* A node's clock is the real time plus a constant skew.                   *)
(***************************************************************************)
EXTENDS Integers, FiniteSets

CONSTANTS Nodes,
          NoNode,     \* owner of the empty record
          Skew,       \* node -> its clock minus the real time
          MaxSkew,    \* bound on the difference of two clocks
          Expired,    \* expired_interval_ms
          Probe,      \* refresh_interval_ms = probe_interval_ms
          MaxTime,    \* bound: real time
          MaxInflight,\* bound: abandoned requests that may apply late
          MaxCrashes  \* bound: crashes of a node

ASSUME ElectorAssumption ==
  /\ NoNode \notin Nodes
  /\ Skew \in [Nodes -> Nat]
  /\ MaxSkew \in Nat
  /\ \A m, n \in Nodes : Skew[m] - Skew[n] <= MaxSkew
  /\ Expired \in Nat \ {0}
  /\ Probe \in Nat \ {0}
  /\ MaxTime \in Nat
  /\ MaxInflight \in Nat
  /\ MaxCrashes \in Nat

Lease == [node : Nodes \cup {NoNode}, refresh : Nat, status : {"Ready", "Yield"}]
NoLease == [node |-> NoNode, refresh |-> 0, status |-> "Ready"]
Request == [expected : Lease, new : Lease]

Labels == {"check", "got", "stamp", "put", "reread", "reply", "setRole", "onLeader",
           "leader"}

(* The remote update a thread is at: why it is made, the CAS request, its   *)
(* answer and the record that a get returned.                               *)
Kinds == {"none", "init", "refresh", "elect", "yield", "stop"}
Job == [kind : Kinds, req : Request, ok : BOOLEAN, got : Lease]
NoJob == [kind |-> "none", req |-> [expected |-> NoLease, new |-> NoLease],
          ok |-> FALSE, got |-> NoLease]

VARIABLES
  now,            \* real time
  kv,             \* the record under election_key, NoLease when absent
  gone,           \* history: the records that were overwritten
  inflight,       \* CAS requests whose caller got an error but may still apply
  role,           \* node -> role
  info,           \* node -> last_leader_info and last_leader_info_string
  refreshLocal,   \* node -> last_refresh_local_time
  pc,             \* node -> where bg_thread is
  job,            \* node -> the remote update under way
  wait,           \* node -> what is left of sleep_time
  crashes         \* how many crashes there were

shared == <<now, kv, gone, inflight>>
local  == <<role, info, refreshLocal>>
vars   == <<shared, local, pc, job, wait, crashes>>

Clock(n) == now + Skew[n]    \* getCurrentTimeMs() on n

LocalExpired(n) == IF info[n] = NoLease THEN 0 ELSE Expired

(* Mutant: only the local observation counts.                               *)
isLeaseExpired_LocalOnly(n, r) ==
  r.status = "Yield" \/ Clock(n) >= refreshLocal[n] + LocalExpired(n)

isLeaseExpired(n, r) ==
  \/ r.status = "Yield"
  \/ /\ Clock(n) >= r.refresh + Expired
     /\ Clock(n) >= refreshLocal[n] + LocalExpired(n)

(* What the other threads of n see.                                         *)
isLeader(n) == role[n] = "Leader" /\ Clock(n) < refreshLocal[n] + Expired

Init ==
  /\ now = 1    \* 0 is the last_refresh_time of a node that knows no record
  /\ kv = NoLease
  /\ gone = {}
  /\ inflight = {}
  /\ role = [n \in Nodes |-> "Follower"]
  /\ info = [n \in Nodes |-> NoLease]
  /\ refreshLocal = [n \in Nodes |-> 0]
  /\ pc = [n \in Nodes |-> "check"]
  /\ job = [n \in Nodes |-> NoJob]
  /\ wait = [n \in Nodes |-> 0]
  /\ crashes = 0
-----------------------------------------------------------------------------
(* The thread goes to sleep for t and then runs the check of its role.      *)
Rest(n, t) ==
  /\ pc' = [pc EXCEPT ![n] = "check"]
  /\ wait' = [wait EXCEPT ![n] = t]
  /\ job' = [job EXCEPT ![n] = NoJob]

(* sleep_time after a remote update; after "stop", yieldLeadership's sleep. *)
Sleep(n) == CASE job[n].kind = "yield" -> 2 * Expired
              [] job[n].kind = "stop"  -> Expired
              [] OTHER                 -> Probe

Goto(n, label, j) ==
  /\ pc' = [pc EXCEPT ![n] = label]
  /\ job' = [job EXCEPT ![n] = j]
  /\ UNCHANGED wait

(* A remote update of the given kind starts.                                *)
Start(n, k) == Goto(n, "stamp", [NoJob EXCEPT !.kind = k])

(* doYield(soft = true): back to follower, wait longer than a lease.        *)
SoftYield(n) ==
  /\ role' = [role EXCEPT ![n] = "Follower"]
  /\ Rest(n, 2 * Expired)

Awake(n) == pc[n] = "check" /\ wait[n] = 0
-----------------------------------------------------------------------------
(* doFollowerCheck reads the record; the answer is handled in Decide.       *)
GetRecord(n) ==
  /\ Awake(n) /\ role[n] = "Follower"
  /\ Goto(n, "got", [NoJob EXCEPT !.got = kv])
  /\ UNCHANGED <<shared, local>>

GetError(n) ==
  /\ Awake(n) /\ role[n] = "Follower"
  /\ Rest(n, Probe)
  /\ UNCHANGED <<shared, local>>

(* tryUpdateLocalRecord up to its call of setRole: the record is noted      *)
(* unless its last_refresh_time is the one already known.                   *)
NoteRecord_OnAnswer(n, r, becomeLeader) ==    \* mutant: lease counted from the answer
  IF r.refresh = info[n].refresh
    THEN UNCHANGED <<info, refreshLocal>>
    ELSE /\ info' = [info EXCEPT ![n] = r]
         /\ refreshLocal' = [refreshLocal EXCEPT ![n] = Clock(n)]

NoteRecord(n, r, becomeLeader) ==
  IF r.refresh = info[n].refresh
    THEN UNCHANGED <<info, refreshLocal>>
    ELSE /\ info' = [info EXCEPT ![n] = r]
         /\ refreshLocal' =
              [refreshLocal EXCEPT ![n] = IF becomeLeader THEN r.refresh ELSE Clock(n)]

Stamped(n, status) == [node |-> n, refresh |-> Clock(n), status |-> status]

(* The rest of doFollowerCheck: create the record if there is none; note    *)
(* the one there is, and take it over if it expired or is the node's own.   *)
InitRecord(n) ==
  /\ pc[n] = "got" /\ job[n].got = NoLease
  /\ Goto(n, "put", [NoJob EXCEPT !.kind = "init", !.req.new = Stamped(n, "Ready")])
  /\ UNCHANGED <<shared, local>>

Decide(n) ==
  LET r == job[n].got
      expired == isLeaseExpired(n, r)
  IN  /\ pc[n] = "got" /\ r # NoLease
      /\ NoteRecord(n, r, FALSE)
      /\ IF expired THEN Start(n, "elect")
         ELSE IF r.node = n THEN Start(n, "refresh")
         ELSE Rest(n, Probe)
      /\ UNCHANGED <<shared, role>>

(* doLeaderCheck, which follows an election without a sleep.                *)
LeaderCheck(n) ==
  /\ Awake(n) \/ pc[n] = "leader"
  /\ role[n] = "Leader"
  /\ IF isLeaseExpired(n, info[n])
       THEN SoftYield(n)
       ELSE Start(n, "refresh") /\ UNCHANGED role
  /\ UNCHANGED <<shared, info, refreshLocal>>

(* yieldLeadership: the thread sees thread_stop as it goes to sleep or when *)
(* it wakes up, a leader gives its lease back, and the thread starts again  *)
(* after a lease's time.  A leader stamps once in a tick of the clock.      *)
StopAndYield(n) ==
  /\ pc[n] = "check"
  /\ role[n] = "Leader" => wait[n] < Probe
  /\ IF role[n] = "Leader"
       THEN Start(n, "stop") /\ role' = [role EXCEPT ![n] = "Follower"]
       ELSE Rest(n, Expired) /\ UNCHANGED role
  /\ UNCHANGED <<shared, info, refreshLocal>>

Yielding(n) == job[n].kind \in {"yield", "stop"}

(* tryUpdateRemoteRecord: read the clock, then send the CAS.                *)
Stamp(n) ==
  /\ pc[n] = "stamp"
  /\ Goto(n, "put", [job[n] EXCEPT !.req =
       [expected |-> info[n],
        new |-> Stamped(n, IF Yielding(n) THEN "Yield" ELSE "Ready")]])
  /\ UNCHANGED <<shared, local>>
-----------------------------------------------------------------------------
(* The metastore: putCAS, and put with if_not_exists for "init".            *)
Cas_Put(q) ==    \* mutant: a plain put
  /\ kv' = q.new
  /\ gone' = IF kv' = kv THEN gone ELSE gone \cup {kv}

Cas(q) ==
  /\ kv' = IF kv = q.expected THEN q.new ELSE kv
  /\ gone' = IF kv' = kv THEN gone ELSE gone \cup {kv}

KvCas(n) ==
  /\ pc[n] = "put"
  /\ Cas(job[n].req)
  /\ IF kv = job[n].req.expected
       THEN Goto(n, "reply", [job[n] EXCEPT !.ok = TRUE])
       ELSE Goto(n, "reread", job[n])
  /\ UNCHANGED <<now, inflight, local>>

(* with_old_value: a failed putCAS reads the record again, on its own.      *)
Reread(n) ==
  /\ pc[n] = "reread" /\ job[n].kind # "init"
  /\ Goto(n, "reply", [job[n] EXCEPT !.got = kv])
  /\ UNCHANGED <<shared, local>>

(* The write happens but its result is unknown to the client, which tries   *)
(* the CAS again.                                                           *)
KvCommitUnknown(n) ==
  /\ pc[n] = "put" /\ kv = job[n].req.expected
  /\ Cas(job[n].req)
  /\ UNCHANGED <<now, inflight, local, pc, job, wait>>

(* The request of a call that fails half-way may be applied later.          *)
Abandon(n) ==
  inflight' = IF pc[n] = "put" /\ Cardinality(inflight) < MaxInflight
                THEN inflight \cup {job[n].req}
                ELSE inflight

(* The call throws, as put(if_not_exists) also does when the record exists; *)
(* the check catches the exception.                                         *)
PutError(n) ==
  /\ pc[n] \in {"put", "reread"}
  /\ Abandon(n)
  /\ Rest(n, Sleep(n))
  /\ UNCHANGED <<now, kv, gone, local>>

KvLateCas(q) ==
  /\ Cas(q)
  /\ inflight' = inflight \ {q}
  /\ UNCHANGED <<now, local, pc, job, wait, crashes>>
-----------------------------------------------------------------------------
(* The answer to the CAS is handled by tryUpdateLocalRecord, whose last     *)
(* step, setRole, is a step of its own: last_refresh_local_time is written  *)
(* before the role.                                                         *)
Answer(n) == IF job[n].ok THEN job[n].req.new ELSE job[n].got
BecomeLeader(n) == job[n].ok /\ ~ Yielding(n)
NewRole(n) ==
  IF BecomeLeader(n) /\ ~ isLeaseExpired(n, Answer(n)) THEN "Leader" ELSE "Follower"

(* The record's last_refresh_time is already known: nothing is noted, and a *)
(* leader whose lease ran out during the CAS leaves.                        *)
ReplyKnown(n) ==
  /\ pc[n] = "reply"
  /\ Answer(n).refresh = info[n].refresh
  /\ IF /\ role[n] = "Leader" /\ BecomeLeader(n) /\ job[n].kind # "init"
        /\ isLeaseExpired(n, Answer(n))
       THEN SoftYield(n)
       ELSE Rest(n, Sleep(n)) /\ UNCHANGED role
  /\ UNCHANGED <<shared, info, refreshLocal>>

ReplyNew(n) ==
  /\ pc[n] = "reply"
  /\ Answer(n).refresh # info[n].refresh
  /\ NoteRecord(n, Answer(n), BecomeLeader(n))
  /\ IF role[n] = NewRole(n)
       THEN Rest(n, Sleep(n))
       ELSE Goto(n, "setRole", job[n])
  /\ UNCHANGED <<shared, role>>

(* setRole(Follower), and setRole(Leader) up to the call of on_leader.      *)
SetRole(n) ==
  /\ pc[n] = "setRole"
  /\ IF role[n] = "Leader"
       THEN Rest(n, Sleep(n)) /\ role' = [role EXCEPT ![n] = "Follower"]
       ELSE Goto(n, "onLeader", job[n]) /\ role' = [role EXCEPT ![n] = "Leader"]
  /\ UNCHANGED <<shared, info, refreshLocal>>

(* on_leader returned: leave again if the lease ran out meanwhile.          *)
OnLeader(n) ==
  /\ pc[n] = "onLeader"
  /\ IF isLeaseExpired(n, info[n]) /\ job[n].kind # "init"
       THEN SoftYield(n)
       ELSE /\ IF job[n].kind = "elect" THEN Goto(n, "leader", NoJob) ELSE Rest(n, Probe)
            /\ UNCHANGED role
  /\ UNCHANGED <<shared, info, refreshLocal>>

(* on_leader failed: doYield(soft = false).                                 *)
OnLeaderFails(n) ==
  /\ pc[n] = "onLeader"
  /\ Start(n, "yield")
  /\ role' = [role EXCEPT ![n] = "Follower"]
  /\ UNCHANGED <<shared, info, refreshLocal>>
-----------------------------------------------------------------------------
(* The process dies and is started again, which takes some time.            *)
Crash(n) ==
  /\ crashes < MaxCrashes
  /\ crashes' = crashes + 1
  /\ Abandon(n)
  /\ role' = [role EXCEPT ![n] = "Follower"]
  /\ info' = [info EXCEPT ![n] = NoLease]
  /\ refreshLocal' = [refreshLocal EXCEPT ![n] = 0]
  /\ Rest(n, 1)
  /\ UNCHANGED <<now, kv, gone>>

Tick ==
  /\ now < MaxTime
  /\ now' = now + 1
  /\ wait' = [n \in Nodes |-> IF wait[n] > 0 THEN wait[n] - 1 ELSE 0]
  /\ UNCHANGED <<kv, gone, inflight, local, pc, job, crashes>>

NodeStep(n) ==
  \/ GetRecord(n) \/ GetError(n) \/ InitRecord(n) \/ Decide(n)
  \/ LeaderCheck(n) \/ StopAndYield(n) \/ Stamp(n)
  \/ KvCas(n) \/ KvCommitUnknown(n) \/ PutError(n)
  \/ Reread(n) \/ ReplyKnown(n) \/ ReplyNew(n)
  \/ SetRole(n) \/ OnLeader(n) \/ OnLeaderFails(n)

Next == \/ Tick
        \/ \E n \in Nodes : (NodeStep(n) /\ UNCHANGED crashes) \/ Crash(n)
        \/ \E q \in inflight : KvLateCas(q)

Spec == Init /\ [][Next]_vars
-----------------------------------------------------------------------------
TypeOK ==
  /\ now \in Nat
  /\ kv \in Lease
  /\ gone \in SUBSET Lease
  /\ inflight \in SUBSET Request
  /\ role \in [Nodes -> {"Follower", "Leader"}]
  /\ info \in [Nodes -> Lease]
  /\ refreshLocal \in [Nodes -> Nat]
  /\ pc \in [Nodes -> Labels]
  /\ job \in [Nodes -> Job]
  /\ wait \in [Nodes -> Nat]
  /\ crashes \in Nat

(* bg_thread has noted another leader's record and is about to write the    *)
(* role: isLeader() may answer TRUE on the strength of that record.         *)
Demoting(n) == pc[n] = "setRole" /\ role[n] = "Leader"

(* n is leader and stays so for more than the clocks can differ.            *)
SafeLeader(n) ==
  /\ isLeader(n) /\ ~ Demoting(n)
  /\ Clock(n) + MaxSkew < refreshLocal[n] + Expired

(* At most one leader: two nodes never both hold a lease that has more than *)
(* MaxSkew left, whatever is delayed, lost, applied late or restarted (for  *)
(* MaxSkew = 0: isLeader() is true on one node at most).                    *)
AtMostOneLeader ==
  \A m, n \in Nodes : SafeLeader(m) /\ SafeLeader(n) => m = n

(* A leader is the node the record in the metastore names, so that          *)
(* ElectionReader leads clients to it.                                      *)
LeaderOwnsRecord ==
  \A n \in Nodes : SafeLeader(n) => kv.node = n /\ kv.status = "Ready"

(* A lease that was not given back is only taken by another node when it    *)
(* has run out, up to the difference of the clocks.                         *)
LeaseRespected ==
  [][ kv.node \in Nodes /\ kv'.node # kv.node /\ kv.status = "Ready"
        => Clock(kv.node) + MaxSkew >= kv.refresh + Expired ]_kv

(* putCAS compares values, so it is only safe if the record never takes a   *)
(* value again that it had before, however late a request is applied.       *)
RecordNeverReused == [][kv' \notin gone]_kv

-----------------------------------------------------------------------------
(* The inductive invariant behind the properties above.                     *)

Past == gone \cup {kv}                    \* every value the record has had
Sent == {n \in Nodes : pc[n] = "put"}     \* their request is on its way
Pending ==                                \* requests that may still be applied
  inflight \cup {job[n].req : n \in Sent}

(* The owner of r counts it as over, up to the difference of the clocks.    *)
Dead(r) == r.node \in Nodes => Clock(r.node) + MaxSkew >= r.refresh + Expired
Takeable(r) == r.status = "Yield" \/ Dead(r)

(* What the thread of n knows at each of its steps.                         *)
ThreadOK(n) ==
  /\ pc[n] = "got" => role[n] = "Follower" /\ (info[n] = job[n].got \/ info[n] \in gone)
  /\ pc[n] = "stamp" => info[n] \in gone \/ info[n].node = n \/ Takeable(info[n])
  /\ pc[n] \in {"stamp", "put", "reread"} => ~ job[n].ok
  /\ pc[n] \in {"put", "reread", "reply", "setRole"}
       => /\ job[n].req.new.node = n
          /\ job[n].req.new.refresh <= Clock(n)
          /\ job[n].req.new.status = IF Yielding(n) THEN "Yield" ELSE "Ready"
  /\ pc[n] = "setRole" /\ role[n] = "Follower"
       => /\ job[n].ok /\ info[n] = job[n].req.new
          /\ refreshLocal[n] = job[n].req.new.refresh
  /\ pc[n] \in {"onLeader", "leader"} => role[n] = "Leader"
  /\ Yielding(n) => role[n] = "Follower" /\ pc[n] \in {"stamp", "put", "reread", "reply"}
  /\ role[n] = "Leader" /\ ~ Demoting(n) => info[n].node = n
  /\ info[n] \in Past /\ job[n].got \in Past
  /\ pc[n] \in {"reply", "setRole"} /\ job[n].ok => job[n].req.new \in Past

(* What a request that may still be applied asks for.                       *)
RequestOK(q) ==
  /\ q.new.node \in Nodes /\ q.new.refresh <= Clock(q.new.node)
  /\ q.expected.node # q.new.node => q.expected \in gone \/ Takeable(q.expected)
  /\ q.expected.node = q.new.node => q.expected.refresh <= q.new.refresh
  /\ q.new \in Past => q.expected \in gone \/ q.expected = q.new

(* The thread may have gone to sleep at this very time.                     *)
JustAsleep(n) ==
  pc[n] = "check" /\ wait[n] > 0 /\ (role[n] = "Leader" => wait[n] >= Probe)

(* n writes no two different records with one time stamp.                   *)
StampOK(n) ==
  /\ \A v \in Past : v.node = n =>
       /\ v.refresh <= Clock(n)
       /\ v.refresh = Clock(n) =>
            \/ JustAsleep(n)
            \/ /\ pc[n] \in {"stamp", "onLeader", "leader"}
               /\ v = info[n] /\ v.status = "Ready"
            \/ /\ pc[n] \in {"put", "reread", "reply", "setRole"}
               /\ Yielding(n) \/ v = job[n].req.new \/ Demoting(n)
  /\ \A q \in inflight :
       q.new.node = n =>
         /\ q.new.refresh < Clock(n) \/ JustAsleep(n)
         /\ pc[n] \in {"put", "reread", "reply", "setRole"}
              => q.new.refresh < job[n].req.new.refresh

(* n's record stands, or its lease from t is over.                          *)
Holds(n, t) ==
  \/ kv.node = n /\ kv.status = "Ready" /\ kv.refresh >= t
  \/ Clock(n) + MaxSkew >= t + Expired

(* A leader holds its lease, and no late request gives it back.             *)
LeaderOK(n) ==
  /\ role[n] = "Leader" /\ ~ Demoting(n)
       => /\ Holds(n, refreshLocal[n])
          /\ \A q \in inflight : q.new.node = n /\ q.new.status = "Yield"
                                   => q.new.refresh < refreshLocal[n]
  /\ pc[n] \in {"reply", "setRole"} /\ job[n].ok /\ ~ Yielding(n)
       => Holds(n, job[n].req.new.refresh)

(* The inductive invariant: threads, requests, time stamps and leases agree *)
(* at every step of doFollowerCheck, doLeaderCheck and the late requests.   *)
ElectorInv ==
  /\ TypeOK
  /\ kv \notin gone /\ NoLease \in Past
  /\ \A n \in Nodes : ThreadOK(n) /\ StampOK(n) /\ LeaderOK(n)
  /\ \A q \in Pending : RequestOK(q)
  /\ \A p, q \in Pending : p.new = q.new => p = q
=============================================================================
