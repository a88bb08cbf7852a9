------------------------------ MODULE Topology ------------------------------
(***************************************************************************)
(* The list of server topologies in the metastore and the topology         *)
(* managers that keep it: an elected manager looks up the servers and      *)
(* renews the lease of the last topology, or appends a new one that starts *)
(* where the last one ends.                                                *)
(*                                                                         *)
(* now is the physical part of a TSO timestamp, the only clock the code    *)
(* uses here.  A server list is an element of Members.  The election is    *)
(* abstract: module StorageElector is its model.                           *)
(***************************************************************************)
EXTENDS Integers, Sequences, FiniteSets

CONSTANTS Managers, NoManager,
          Members, NoMembers,   \* server lists of the service discovery
          Life,       \* topology_lease_life_ms
          MaxTime,    \* bound on the clock
          MaxTerm,    \* bound on topologies and failed puts together
          MaxErrors   \* bound on failed puts

ASSUME TopologyAssumption ==
  /\ NoManager \notin Managers /\ NoMembers \notin Members
  /\ Life \in Nat \ {0} /\ MaxTime \in Nat /\ MaxTerm \in Nat /\ MaxErrors \in Nat

VARIABLES
  now,
  stored,   \* the topologies in the metastore
  leader,
  cached, term, next,   \* manager -> cached_topologies, term, next_version_topology
  errors,   \* puts that failed
  pc, at    \* manager -> whether it is in renewLease, current_time_ms there

managers == <<errors, leader, cached, term, next, pc, at>>
topology == <<stored, managers>>

Entry(tm, init, exp, ms) == [term |-> tm, init |-> init, exp |-> exp, members |-> ms]
Last(list) == list[Len(list)]
Later(a, b) == IF a < b THEN b ELSE a

TopologyInit ==
  /\ now = 0 /\ stored = <<>> /\ errors = 0
  /\ leader = NoManager
  /\ cached = [m \in Managers |-> <<>>] /\ term = [m \in Managers |-> 0]
  /\ next = [m \in Managers |-> NoMembers]
  /\ pc = [m \in Managers |-> "idle"] /\ at = [m \in Managers |-> 0]
-----------------------------------------------------------------------------
(* onLeader: initLeaderStatus.  next_version_topology and, without stored   *)
(* topologies, the term are left from an earlier reign.                     *)
Elect_Blind(m) ==
  /\ leader = NoManager /\ pc[m] = "idle"
  /\ leader' = m
  /\ UNCHANGED <<now, errors, stored, cached, term, next, pc, at>>
Elect(m) ==
  /\ leader = NoManager /\ pc[m] = "idle"
  /\ leader' = m
  /\ cached' = [cached EXCEPT ![m] = stored]
  /\ term' = IF stored = <<>> THEN term ELSE [term EXCEPT ![m] = Last(stored).term]
  /\ UNCHANGED <<now, errors, stored, next, pc, at>>

(* onFollower: partialShutdown waits for a renewal that is running; that it  *)
(* ends before the lease of the election does is assumed.                   *)
Expire ==
  /\ leader # NoManager /\ pc[leader] = "idle"
  /\ leader' = NoManager
  /\ UNCHANGED <<now, errors, stored, cached, term, next, pc, at>>

Crash(m) ==
  /\ leader = m \/ next[m] # NoMembers \/ pc[m] = "renew"
  /\ leader' = IF leader = m THEN NoManager ELSE leader
  /\ cached' = [cached EXCEPT ![m] = <<>>] /\ term' = [term EXCEPT ![m] = 0]
  /\ next' = [next EXCEPT ![m] = NoMembers]
  /\ pc' = [pc EXCEPT ![m] = "idle"] /\ at' = [at EXCEPT ![m] = 0]
  /\ UNCHANGED <<now, errors, stored>>

(* refreshTopology: a pending topology is replaced, never withdrawn.        *)
refreshTopology(m, ms) ==
  /\ leader = m /\ term[m] + errors < MaxTerm
  /\ cached[m] # <<>> => Last(cached[m]).members # ms
  /\ next' = [next EXCEPT ![m] = ms]
  /\ UNCHANGED <<now, errors, stored, leader, cached, term, pc, at>>
-----------------------------------------------------------------------------
(* renewLease, from the check of the role and the timestamp to the put.     *)
RenewStart(m) ==
  /\ leader = m /\ pc[m] = "idle"
  /\ at' = [at EXCEPT ![m] = now] /\ pc' = [pc EXCEPT ![m] = "renew"]
  /\ UNCHANGED <<now, errors, stored, leader, cached, term, next>>

(* Topologies over for a whole lease are dropped, but not the only one.     *)
Outdated(m) == {i \in DOMAIN cached[m] : \A j \in 1 .. i : cached[m][j].exp + Life < at[m]}
Kept(m) ==
  LET n == Cardinality(Outdated(m))
      all == Len(cached[m])
  IN  SubSeq(cached[m], IF 0 < n /\ n = all /\ next[m] = NoMembers THEN n ELSE n + 1, all)

Pending(m) == Kept(m) # <<>> /\ at[m] + Life < Last(Kept(m)).exp
Pushes_Unset(m) == ~ Pending(m)
Pushes(m) == next[m] # NoMembers /\ ~ Pending(m)

Start_Now(m) == at[m]
Start(m) == IF Kept(m) = <<>> THEN 0 ELSE Later(Last(Kept(m)).exp, at[m])

(* The first topology has no initial time.                                  *)
Renewed(m) ==
  IF Pushes(m)
    THEN Append(Kept(m), Entry(term[m] + 1, Start(m),
                               (IF Start(m) = 0 THEN at[m] ELSE Start(m)) + Life, next[m]))
    ELSE IF Kept(m) = <<>> \/ Pending(m) THEN Kept(m)
         ELSE [Kept(m) EXCEPT ![Len(Kept(m))].exp = at[m] + Life]

Renew(m) ==
  /\ pc[m] = "renew"
  /\ cached' = [cached EXCEPT ![m] = Renewed(m)]
  /\ term' = IF Pushes(m) THEN [term EXCEPT ![m] = @ + 1] ELSE term
  /\ next' = [next EXCEPT ![m] = NoMembers]
  /\ pc' = [pc EXCEPT ![m] = "idle"] /\ at' = [at EXCEPT ![m] = 0]
  /\ UNCHANGED <<now, leader>>

(* updateTopologies: a put of the whole list; an empty one is not written.  *)
RenewPut(m) ==
  /\ Renew(m) /\ UNCHANGED errors
  /\ stored' = IF cached'[m] = <<>> THEN stored ELSE cached'[m]

(* The put throws without effect; what was cached stays cached.             *)
RenewError(m) == errors < MaxErrors /\ errors' = errors + 1 /\ Renew(m) /\ UNCHANGED stored

Tick ==
  /\ now < MaxTime
  /\ now' = now + 1
  /\ UNCHANGED topology

ManagerStep ==
  \/ Expire
  \/ \E m \in Managers :
       \/ Elect(m) \/ Crash(m) \/ RenewStart(m) \/ RenewPut(m) \/ RenewError(m)
       \/ \E ms \in Members : refreshTopology(m, ms)
-----------------------------------------------------------------------------
Entries == [term : Nat, init : Nat, exp : Nat, members : Members]
TopologyTypes ==
  /\ errors \in 0 .. MaxErrors /\ now \in 0 .. MaxTime /\ stored \in Seq(Entries)
  /\ leader \in Managers \cup {NoManager}
  /\ cached \in [Managers -> Seq(Entries)] /\ term \in [Managers -> Nat]
  /\ next \in [Managers -> Members \cup {NoMembers}]
  /\ pc \in [Managers -> {"idle", "renew"}] /\ at \in [Managers -> Nat]

(* The stored leases follow each other without overlap and with consecutive *)
(* terms, and none but a first one lacks an initial time, whatever puts     *)
(* failed and whoever was leader.                                           *)
LeasesInOrder ==
  \A i \in 1 .. Len(stored) - 1 :
    /\ stored[i + 1].init >= stored[i].exp
    /\ stored[i + 1].term = stored[i].term + 1
=============================================================================
