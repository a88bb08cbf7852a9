----------------------------- MODULE TableHost -----------------------------
(***************************************************************************)
(* What the servers do with the topologies: a table is written, cached and *)
(* locked at the one server its topology names.  Every server works with   *)
(* the list it fetched last, which may be old; the leases, the margin      *)
(* before their end and the versions are to keep two servers from acting   *)
(* for the table at once.  One table, whose host in a server list ms is    *)
(* Host[ms].                                                               *)
(***************************************************************************)
EXTENDS Topology

CONSTANTS Servers, NoServer, Host,
          Margin,       \* the 6000 ms that writeParts and a commit are given
          Txns, Home,   \* lock takers and the servers that coordinate them
          Users         \* what uses the table: "write", "read"

ASSUME HostAssumption ==
  /\ NoServer \notin Servers /\ Host \in [Members -> Servers]
  /\ Margin \in 1 .. Life - 1 /\ Home \in [Txns -> Servers]
  /\ Users \subseteq {"write", "read"}

VARIABLES
  view,      \* server -> CnchTopologyMaster::topologies
  writing,   \* server -> its open write: version and time of the host check
  version,   \* server -> cache_version of the table, Nothing without an entry
  stale,     \* server -> whether another server wrote after the cache was loaded
  txn        \* transaction -> its lock: stage, server, version, time of the
             \* assertion

hosts == <<view, writing, version, stale, txn>>
vars == <<now, topology, hosts>>

NoVersion == <<0, 0>>
Nothing == <<>>
NoWrite == [at |-> -1, version |-> NoVersion]
NoTarget == [server |-> NoServer, version |-> NoVersion]
Idle == [stage |-> "new", server |-> NoServer, version |-> NoVersion, at |-> -1]

Init ==
  /\ TopologyInit
  /\ view = [s \in Servers |-> <<>>] /\ writing = [s \in Servers |-> NoWrite]
  /\ version = [s \in Servers |-> Nothing] /\ stale = [s \in Servers |-> FALSE]
  /\ txn = [x \in Txns |-> Idle]
-----------------------------------------------------------------------------
LeaseStart(e) == IF e.init # 0 THEN e.init ELSE e.exp - Life
Version(e) == <<e.init, e.term>>

(* The first topology whose lease, without its last slack units, holds t.   *)
InLease(list, t, slack) == {i \in DOMAIN list : LeaseStart(list[i]) <= t /\ t < list[i].exp - slack}
FirstOf(is) == CHOOSE i \in is : \A j \in is : i <= j

getCurrentTopologyVersion(list) ==
  LET is == InLease(list, now, Margin)
  IN  IF is = {} THEN NoVersion ELSE Version(list[FirstOf(is)])

(* getTargetServerImpl: in the margin only a host that stays is named.      *)
getTargetServer_NoMargin(list) ==
  LET is == InLease(list, now, 0)
  IN  IF is = {} THEN NoTarget
      ELSE [server |-> Host[list[FirstOf(is)].members], version |-> Version(list[FirstOf(is)])]
getTargetServer(list) ==
  LET is == InLease(list, now, 0)
      i == FirstOf(is)
      named(e) == [server |-> Host[e.members], version |-> Version(e)]
  IN  IF is = {} THEN NoTarget
      ELSE IF now < list[i].exp - Margin THEN named(list[i])
      ELSE IF i < Len(list) /\ Host[list[i].members] = Host[list[i + 1].members]
        THEN named(list[i + 1])
      ELSE NoTarget

(* fetchTopologies: the cache is reset after a long absence, and given up   *)
(* when the first topology changed and names another host.                  *)
Dropped(s) ==
  LET new == stored[1] old == view[s][1]
  IN  \/ new.exp > old.exp + 2 * Life /\ new.term > old.term + 1
      \/ new.members # old.members /\ Host[new.members] # s
fetchTopologies(s) ==
  /\ stored # <<>> /\ view[s] # stored
  /\ view' = [view EXCEPT ![s] = stored]
  /\ IF view[s] # <<>> /\ Dropped(s)
       THEN version' = [version EXCEPT ![s] = Nothing] /\ stale' = [stale EXCEPT ![s] = FALSE]
       ELSE UNCHANGED <<version, stale>>
  /\ UNCHANGED <<now, topology, writing, txn>>
-----------------------------------------------------------------------------
(* mayUpdateTableMeta: with the version of the entry nothing is done; the   *)
(* version is moved on when its initial time is one less; otherwise the     *)
(* entry is loaded from the metastore.                                      *)
KeptUnder_Later(old, v) == old # Nothing /\ (v = old \/ old[2] <= v[2])
KeptUnder(old, v) == old # Nothing /\ (v = old \/ old[1] + 1 = v[1])
mayUpdateTableMeta(s, v, old) ==
  /\ version' = [version EXCEPT ![s] = v]
  /\ stale' = IF KeptUnder(version[s], v) THEN old ELSE [old EXCEPT ![s] = FALSE]

(* A read, or loadActiveTables, through the cache of the host.              *)
UseCache(s) ==
  /\ "read" \in Users /\ getTargetServer(view[s]).server = s
  /\ mayUpdateTableMeta(s, getTargetServer(view[s]).version, stale)
  /\ UNCHANGED <<now, topology, view, writing, txn>>

(* writeParts: the host is checked, the write takes up to Margin, then the  *)
(* parts go into the cache under the version found at the check.            *)
WriteBegin(s) ==
  /\ "write" \in Users /\ writing[s] = NoWrite /\ getTargetServer(view[s]).server = s
  /\ writing' = [writing EXCEPT ![s] = [at |-> now, version |-> getTargetServer(view[s]).version]]
  /\ UNCHANGED <<now, topology, view, version, stale, txn>>
WriteEnd(s) ==
  /\ writing[s] # NoWrite
  /\ mayUpdateTableMeta(s, writing[s].version, [t \in Servers |-> stale[t] \/ (t # s /\ version[t] # Nothing)])
  /\ writing' = [writing EXCEPT ![s] = NoWrite]
  /\ UNCHANGED <<now, topology, view, txn>>
-----------------------------------------------------------------------------
Holding(x) == txn[x].stage \in {"held", "asserted"}
Target(x) == getTargetServer(view[Home[x]]).server

(* CnchLock::tryLock: the coordinator picks the server, the request arrives *)
(* later; LockManager::lock notes the version current there, not whether    *)
(* this server is the host.                                                 *)
LockSend(x) ==
  /\ txn[x].stage = "new" /\ Target(x) # NoServer
  /\ txn' = [txn EXCEPT ![x].stage = "sent", ![x].server = Target(x)]
  /\ UNCHANGED <<now, topology, view, writing, version, stale>>
LockGrant(x) ==
  /\ txn[x].stage = "sent"
  /\ \A y \in Txns : Holding(y) => txn[y].server # txn[x].server
  /\ txn' = [txn EXCEPT ![x].stage = "held",
                         ![x].version = getCurrentTopologyVersion(view[txn[x].server])]
  /\ UNCHANGED <<now, topology, view, writing, version, stale>>

(* LockManager::assertLockAcquired at the server the coordinator names now. *)
Acquired_Anywhere(x) == Target(x) # NoServer
Acquired(x) ==
  LET current == getCurrentTopologyVersion(view[txn[x].server])
  IN  /\ Target(x) = txn[x].server
      /\ \/ current \in {NoVersion, txn[x].version}
         \/ txn[x].version[2] + 1 = current[2]
assertLockAcquired(x) ==
  /\ txn[x].stage = "held" /\ Acquired(x)
  /\ txn' = [txn EXCEPT ![x].stage = "asserted", ![x].at = now]
  /\ UNCHANGED <<now, topology, view, writing, version, stale>>

(* The commit write ends within Margin of the assertion before it.          *)
TxnCommits(x) ==
  /\ txn[x].stage = "asserted"
  /\ txn' = [txn EXCEPT ![x] = Idle]
  /\ UNCHANGED <<now, topology, view, writing, version, stale>>
TxnEnds(x) ==
  /\ txn[x].stage \in {"sent", "held"}
  /\ txn' = [txn EXCEPT ![x] = Idle]
  /\ UNCHANGED <<now, topology, view, writing, version, stale>>

(* What begins with a check of the host ends within the margin.  This is    *)
(* assumed of the whole call, from the check to the insertion into the      *)
(* cache: the code bounds each metastore call, not their number, and        *)
(* finishCommitInBatch writes any number of batches after one check.        *)
Due == {writing[s].at : s \in {t \in Servers : writing[t] # NoWrite}}
       \cup {txn[x].at : x \in {y \in Txns : txn[y].stage = "asserted"}}
TimePasses == (\A t \in Due : now < t + Margin) /\ Tick /\ UNCHANGED hosts

Next ==
  \/ ManagerStep /\ UNCHANGED hosts
  \/ TimePasses
  \/ \E s \in Servers : fetchTopologies(s) \/ UseCache(s) \/ WriteBegin(s) \/ WriteEnd(s)
  \/ \E x \in Txns : LockSend(x) \/ LockGrant(x) \/ assertLockAcquired(x) \/ TxnCommits(x) \/ TxnEnds(x)
Spec == Init /\ [][Next]_vars
-----------------------------------------------------------------------------
HostTypes ==
  /\ view \in [Servers -> Seq(Entries)]
  /\ writing \in [Servers -> [at : -1 .. MaxTime, version : Nat \X Nat]]
  /\ version \in [Servers -> {Nothing} \cup (Nat \X Nat)] /\ stale \in [Servers -> BOOLEAN]
Locks == [stage : {"new", "sent", "held", "asserted"}, server : Servers \cup {NoServer},
          version : Nat \X Nat, at : -1 .. MaxTime]
TypeOK == TopologyTypes /\ HostTypes /\ txn \in [Txns -> Locks]

Listed(list) == {list[i] : i \in DOMAIN list}
Known == Listed(stored) \cup UNION {Listed(view[s]) : s \in Servers}

(* A version (initial time and term) names one topology wherever it is      *)
(* known: caches and locks are compared by it alone.                        *)
VersionsIdentify ==
  \A a, b \in Known : Version(a) = Version(b) => a.members = b.members

(* Two servers never write the table at the same time, however old the      *)
(* lists they work with (the reason for the 6000 ms in getTargetServerImpl).*)
WritesExclude ==
  \A s, t \in Servers : writing[s] # NoWrite /\ writing[t] # NoWrite => s = t

(* A host that keeps its cached table has missed no write of another server,*)
(* even when the table went away and came back between two fetches          *)
(* (mayUpdateTableMeta, fetchTopologies: "prevent from ABA problem").       *)
CacheFresh ==
  \A s \in Servers :
    LET target == getTargetServer(view[s])
    IN  target.server = s /\ KeptUnder(version[s], target.version) => ~ stale[s]

(* From the assertion of a lock to the end of the commit no server can be   *)
(* taken for the host but the one that holds the lock (LockManager::unlock: *)
(* "use the time window of topo switching to avoid this problem").          *)
CommitWithinTopology ==
  \A x \in Txns : txn[x].stage = "asserted" =>
    \A s \in Servers : getTargetServer(view[s]).server \in {txn[x].server, NoServer}
-----------------------------------------------------------------------------
(* The inductive invariant behind the properties above.                     *)

(* The list the next one is made from, and every topology still in sight.   *)
Front == IF leader = NoManager THEN stored ELSE cached[leader]
Alive == Known \cup Listed(Front)

(* Topologies of one term differ in their end only; a later one begins when *)
(* the earlier one is over, by whatever list.                               *)
Agree(a, b) ==
  /\ a.term = b.term => a.init = b.init /\ a.members = b.members
  /\ a.term < b.term => a.exp <= LeaseStart(b)

EntryOK(e) == (e.init = 0 \/ e.init >= Life) /\ e.init + Life <= e.exp
ListOK(list) ==
  /\ \A i, j \in DOMAIN list : list[i].term + j = list[j].term + i
  /\ \A i \in DOMAIN list : i > 1 => list[i].init # 0

(* list is not ahead of the last topology of front.                         *)
Upto(list, front) ==
  list # <<>> =>
    /\ front # <<>>
    /\ \A e \in Listed(list) :
         e.term < Last(front).term \/ (e.term = Last(front).term /\ e.exp <= Last(front).exp)

ManagerOK(m) ==
  /\ pc[m] = "renew" => leader = m /\ at[m] <= now
  /\ leader = m /\ cached[m] # <<>> => term[m] = Last(cached[m]).term

TopologyInv ==
  /\ \A a, b \in Alive : Agree(a, b)
  /\ \A e \in Alive : EntryOK(e)
  /\ ListOK(stored) /\ ListOK(Front) /\ \A s \in Servers : ListOK(view[s])
  /\ Upto(Front, Front) /\ Upto(stored, stored) /\ Upto(stored, Front)
  /\ \A s \in Servers : Upto(view[s], stored)
  /\ \A m \in Managers : ManagerOK(m)

(* Of the topologies all and the stored list, at time n:                    *)
(* from t, when s was the host, to Margin later no other server can be it;  *)
Covers(all, list, n, s, t) ==
  /\ t <= n /\ n <= t + Margin
  /\ list # <<>> /\ t + Margin < Last(list).exp
  /\ \A e \in all : LeaseStart(e) <= t + Margin /\ t < e.exp => Host[e.members] = s

(* s has been the host under version v, and whoever was before is not any   *)
(* more;                                                                    *)
Names(all, list, n, s, v) ==
  /\ v[1] = 0 \/ v[1] >= Life
  /\ list # <<>> /\ v[2] <= Last(list).term /\ v[1] + Life <= Last(list).exp
  /\ \A e \in all :
       /\ e.term = v[2] => Host[e.members] = s
       /\ e.term < v[2] => Host[e.members] = s \/ e.exp <= n
       /\ e.init # v[1] + 1 /\ e.init + 1 # v[1]

(* those up to term k were over at t.                                       *)
Ended(all, list, k, t) ==
  /\ list # <<>> /\ k < Last(list).term
  /\ \A e \in all : e.term <= k => e.exp <= t

Covered(s, t) == Covers(Alive, stored, now, s, t)
Named(s, v) == Names(Alive, stored, now, s, v)
Over(k, t) == Ended(Alive, stored, k, t)

WriteOK(s) ==
  writing[s] # NoWrite =>
    /\ Covered(s, writing[s].at) /\ Named(s, writing[s].version)
    /\ version[s] # Nothing => version[s][1] + 1 # writing[s].version[1]

CacheOK(s) ==
  version[s] # Nothing =>
    /\ Named(s, version[s])
    /\ stale[s] => Over(version[s][2], now)
    /\ \A t \in Servers : t # s /\ writing[t] # NoWrite => Over(version[s][2], writing[t].at)

TxnOK(x) ==
  /\ txn[x].stage \in {"sent", "held"} => txn[x].server # NoServer
  /\ txn[x].stage = "asserted" => txn[x].server \in Servers /\ Covered(txn[x].server, txn[x].at)

HostsOK == \A s \in Servers : WriteOK(s) /\ CacheOK(s)
TxnsOK == \A x \in Txns : TxnOK(x)

(* The inductive invariant: the lists of the manager, the metastore and the *)
(* servers agree, and with them the versions of open writes, of caches and  *)
(* of locks.                                                                *)
HostInv ==
  /\ TypeOK /\ TopologyInv /\ WritesExclude /\ HostsOK /\ TxnsOK
=============================================================================
