-------------------------- MODULE TableHost_proofs --------------------------
(***************************************************************************)
(* What a renewal keeps of the list, the invariant of TableHost and what   *)
(* follows from it.                                                        *)
(***************************************************************************)
EXTENDS TableHost_steps, FiniteSetTheorems

(* What is left of a list when outdated topologies are dropped: a suffix,   *)
(* and nothing only when the last one is outdated.                          *)
LEMMA KeptFacts == ASSUME TypeOK, NEW m \in Managers PROVE KeptSuffix(m)
<1> DEFINE all == Len(cached[m])
           n == Cardinality(Outdated(m))
           from == IF 0 < n /\ n = all /\ next[m] = NoMembers THEN n ELSE n + 1
<1>1. cached[m] \in Seq(Entries) BY Zenon DEF TypeOK, TopologyTypes
<1>2. all \in Nat /\ DOMAIN cached[m] = 1 .. all /\ \A i \in 1 .. all : cached[m][i] \in Entries
  BY <1>1, ListedType, Zenon
<1>3. IsFiniteSet(1 .. all) /\ Cardinality(1 .. all) = all BY <1>2, FS_Interval
<1>4. Outdated(m) \in SUBSET (1 .. all) BY <1>2, Zenon DEF Outdated
<1>5. IsFiniteSet(Outdated(m)) /\ n <= all /\ (n = all => Outdated(m) = 1 .. all)
  BY <1>3, <1>4, FS_Subset, Zenon
<1>6. n \in Nat BY <1>5, FS_CardinalityType, Zenon
<1> HIDE DEF n, all
<1>7. from \in 1 .. all + 1 BY <1>2, <1>5, <1>6
<1>8. Kept(m) = SubSeq(cached[m], from, all) BY Zenon DEF Kept, n, all, from
<1> HIDE DEF from
<1>9. /\ Kept(m) \in Seq(Entries)
      /\ Len(Kept(m)) = IF from <= all THEN all - from + 1 ELSE 0
      /\ \A i \in 1 .. all - from + 1 : Kept(m)[i] = cached[m][from + i - 1]
  BY <1>2, <1>7, <1>8
<1>10. ASSUME Kept(m) = <<>>, cached[m] # <<>>
       PROVE  next[m] # NoMembers /\ Last(cached[m]).exp + Life < at[m]
  <2>1. all >= 1 BY <1>1, <1>10 DEF all
  <2>2. from = all + 1 BY <1>2, <1>7, <1>9, <1>10
  <2>3. n = all /\ next[m] # NoMembers BY <1>2, <1>5, <1>6, <2>1, <2>2 DEF from
  <2>4. all \in Outdated(m) BY <1>2, <1>5, <2>1, <2>3
  <2> QED BY <1>2, <2>1, <2>3, <2>4, Zenon DEF Outdated, Last, all
<1>11. \E d \in 0 .. all : /\ Len(Kept(m)) = all - d
                            /\ \A i \in 1 .. Len(Kept(m)) : Kept(m)[i] = cached[m][i + d]
  <2>1. from - 1 \in 0 .. all BY <1>2, <1>7
  <2>2. Len(Kept(m)) = all - (from - 1) BY <1>2, <1>7, <1>9
  <2>3. \A i \in 1 .. Len(Kept(m)) : Kept(m)[i] = cached[m][i + (from - 1)]
    BY <1>2, <1>7, <1>9, <2>2
  <2> QED BY <2>1, <2>2, <2>3, Zenon
<1> QED BY <1>9, <1>10, <1>11, Zenon DEF all, KeptSuffix

LEMMA InitHolds == Init => HostInv
<1> SUFFICES ASSUME Init PROVE HostInv OBVIOUS
<1>1. /\ now = 0 /\ stored = <<>> /\ leader = NoManager /\ Front = <<>>
      /\ \A s \in Servers : view[s] = <<>> /\ writing[s] = NoWrite /\ version[s] = Nothing
      /\ \A x \in Txns : txn[x].stage = "new"
      /\ \A m \in Managers : pc[m] = "idle" /\ leader # m
  BY TopologyAssumption, Zenon DEF Init, TopologyInit, Front, Idle
<1>2. TypeOK
  <2>1. <<>> \in Seq(Entries) OBVIOUS
  <2>2. TopologyTypes BY <2>1, TopologyAssumption DEF Init, TopologyInit, TopologyTypes
  <2>3. -1 \in -1 .. MaxTime BY TopologyAssumption
  <2>4. NoWrite \in [at : -1 .. MaxTime, version : Nat \X Nat] BY <2>3, Zenon DEF NoWrite, NoVersion
  <2>5. Idle \in Locks BY <2>3, Zenon DEF Idle, NoVersion, Locks
  <2> QED BY <2>1, <2>2, <2>4, <2>5, Zenon DEF Init, TypeOK, HostTypes
<1>3. TopologyInv
  <2>1. Alive = {} BY <1>1 DEF Alive, Known, Listed
  <2>2. ListOK(<<>>) /\ Upto(<<>>, <<>>) BY DEF ListOK, Upto
  <2> QED BY <1>1, <2>1, <2>2, Zenon DEF TopologyInv, ManagerOK
<1> QED BY <1>1, <1>2, <1>3, Zenon DEF HostInv, WritesExclude, HostsOK, TxnsOK, WriteOK, CacheOK, TxnOK

LEMMA StepKeeps == ASSUME HostInv, [Next]_vars PROVE HostInv'
<1>1. TypeOK /\ TopologyInv /\ WritesExclude /\ HostsOK /\ TxnsOK BY Zenon DEF HostInv
<1>2. ASSUME UNCHANGED hosts, now' = now, TypeOK', TopologyInv', Outlasts PROVE HostInv'
  <2>1. writing' = writing /\ version' = version /\ stale' = stale /\ txn' = txn BY <1>2, Zenon DEF hosts
  <2>2. now' \in Nat /\ now <= now' BY <1>1, <1>2, AliveType
  <2>3. WritesExclude' /\ HostsOK' BY <1>1, <1>2, <2>1, <2>2, HostsStill, Zenon
  <2>4. TxnsOK' BY <1>1, <1>2, <2>1, TxnsStill, Zenon
  <2> QED BY <1>2, <2>3, <2>4, Zenon DEF HostInv
<1>3. CASE ManagerStep /\ UNCHANGED hosts BY <1>1, <1>2, <1>3, KeptFacts, ManagerTopology, ManagerType, Zenon
<1>4. CASE UNCHANGED vars
  <2>1. /\ now' = now /\ stored' = stored /\ leader' = leader /\ cached' = cached /\ term' = term
        /\ next' = next /\ pc' = pc /\ at' = at /\ errors' = errors
        /\ view' = view /\ writing' = writing /\ version' = version /\ stale' = stale /\ txn' = txn
    BY <1>4, Zenon DEF vars, topology, managers, hosts
  <2>2. TypeOK' BY <1>1, <2>1, Zenon DEF TypeOK, TopologyTypes, HostTypes, Locks
  <2>3. now' \in Nat /\ now <= now' BY <1>1, <2>1, AliveType
  <2>4. Front' = Front BY <2>1, Zenon DEF Front
  <2>5. \A m \in Managers : ManagerOK(m)' BY <1>1, <2>1, Zenon DEF TopologyInv, ManagerOK, Last
  <2>6. TopologyInv' /\ Outlasts BY <1>1, <2>1, <2>3, <2>4, <2>5, ListsKept, Zenon
  <2> QED BY <1>2, <2>1, <2>2, <2>6, Zenon DEF hosts
<1> QED BY <1>3, <1>4, TimePassesKeeps, HostStepKeeps, Zenon DEF Next

(* What the invariant says of the properties.                               *)
LEMMA Consequences ==
  ASSUME HostInv
  PROVE  /\ LeasesInOrder /\ VersionsIdentify /\ WritesExclude
         /\ CacheFresh /\ CommitWithinTopology
<1>1. TypeOK /\ TopologyInv /\ WritesExclude /\ HostsOK /\ TxnsOK BY Zenon DEF HostInv
<1>2. LeasesInOrder
  <2> SUFFICES ASSUME NEW i \in 1 .. Len(stored) - 1
               PROVE  stored[i + 1].init >= stored[i].exp /\ stored[i + 1].term = stored[i].term + 1
    BY Zenon DEF LeasesInOrder
  <2>1. /\ stored \in Seq(Entries) /\ Listed(stored) \subseteq Alive /\ ListOK(stored)
    BY <1>1, AliveType, Zenon DEF TopologyInv
  <2>2. /\ Len(stored) \in Nat /\ DOMAIN stored = 1 .. Len(stored)
        /\ \A j \in DOMAIN stored : stored[j] \in Listed(stored)
    BY <2>1, ListedType, Zenon
  <2>3. i \in DOMAIN stored /\ i + 1 \in DOMAIN stored /\ i + 1 > 1 /\ i \in Nat BY <2>2
  <2>4. /\ stored[i].term + (i + 1) = stored[i + 1].term + i /\ stored[i + 1].init # 0
    BY <2>1, <2>3, Zenon DEF ListOK
  <2>5. stored[i] \in Alive /\ stored[i + 1] \in Alive BY <2>1, <2>2, <2>3, Zenon
  <2>6. stored[i].term \in Nat /\ stored[i + 1].term \in Nat /\ stored[i].exp \in Nat /\ stored[i + 1].init \in Nat
    BY <1>1, <2>5, AliveType, Zenon
  <2>7. stored[i + 1].term = stored[i].term + 1
    <3>1. \A a, b \in Nat : a + (i + 1) = b + i => b = a + 1 BY <2>3
    <3> QED BY <2>4, <2>6, <3>1, Zenon
  <2>8. stored[i].exp <= LeaseStart(stored[i + 1]) BY <1>1, <2>5, <2>6, <2>7, Apart
  <2> QED BY <2>4, <2>6, <2>7, <2>8, Zenon DEF LeaseStart
<1>3. VersionsIdentify BY <1>1, Zenon DEF TopologyInv, VersionsIdentify, Version, Agree, Alive
<1>4. CacheFresh
  <2> SUFFICES ASSUME NEW s \in Servers, getTargetServer(view[s]).server = s,
                      KeptUnder(version[s], getTargetServer(view[s]).version)
               PROVE  ~ stale[s]
    BY Zenon DEF CacheFresh
  <2>1. PICK e \in Entries, h \in Entries : Found(s, s, getTargetServer(view[s]).version, e, h)
    BY <1>1, HostAssumption, TargetFacts, Zenon
  <2> QED BY <1>1, <2>1, KeptFresh, Zenon DEF HostsOK
<1>5. CommitWithinTopology
  <2> SUFFICES ASSUME NEW x \in Txns, txn[x].stage = "asserted", NEW s \in Servers,
                      getTargetServer(view[s]).server # NoServer
               PROVE  getTargetServer(view[s]).server = txn[x].server
    BY Zenon DEF CommitWithinTopology
  <2>1. PICK e \in Entries, h \in Entries :
          Found(s, getTargetServer(view[s]).server, getTargetServer(view[s]).version, e, h)
    BY <1>1, TargetFacts, Zenon
  <2>2. txn[x].at \in Int BY <1>1, HostType, Zenon
  <2>3. Covered(txn[x].server, txn[x].at) BY <1>1, Zenon DEF TxnsOK, TxnOK
  <2> QED BY <1>1, <2>1, <2>2, <2>3, OneHost
<1> QED BY <1>1, <1>2, <1>3, <1>4, <1>5, Zenon

(* The invariant holds in every behaviour.                                  *)
THEOREM HostInvariant == Spec => []HostInv
BY InitHolds, StepKeeps, PTL DEF Spec

(* The stored leases follow each other without overlap and with consecutive *)
(* terms, whatever puts failed and whoever was leader (renewLease).         *)
THEOREM LeasesStayInOrder == Spec => []LeasesInOrder
BY HostInvariant, Consequences, PTL

(* A version names one topology wherever it is known, so that comparing     *)
(* versions compares topologies (PairInt64 in CnchServerTopology).          *)
THEOREM VersionsAreIdentities == Spec => []VersionsIdentify
BY HostInvariant, Consequences, PTL

(* No two servers write the table at the same time, however old the lists   *)
(* they work with (the margin in getTargetServerImpl).                      *)
THEOREM WritesAreExclusive == Spec => []WritesExclude
BY HostInvariant, Consequences, PTL

(* A host that keeps its cached table has missed no write of another server *)
(* (mayUpdateTableMeta).                                                    *)
THEOREM CachesAreFresh == Spec => []CacheFresh
BY HostInvariant, Consequences, PTL

(* From the assertion of a lock to the end of the commit no other server is *)
(* taken for the host (assertLockAcquired).                                 *)
THEOREM CommitsStayWithinTopology == Spec => []CommitWithinTopology
BY HostInvariant, Consequences, PTL
=============================================================================
