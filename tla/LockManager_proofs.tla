------------------------- MODULE LockManager_proofs -------------------------
(***************************************************************************)
(* For any number of transactions and any locks they take: the lists of    *)
(* the lock manager match the statuses of the requests, nobody waits for a *)
(* lock that nobody holds, locks exclude each other, and a transaction     *)
(* commits only with all of its locks, however it is evicted.              *)
(***************************************************************************)
EXTENDS LockManager, TLAPS

(* Every request of one transaction on one entity has the same mode, as     *)
(* when all of its LockInfos are of one level.                              *)
NoUpgrade ==
  \A q, r \in Requests :
    TxnOf(q) = TxnOf(r) /\ EntityOf(q) = EntityOf(r) => ModeOf(q) = ModeOf(r)

Contexts ==
  /\ granted \subseteq Requests /\ waiting \subseteq Requests
  /\ ahead \in [Requests -> SUBSET Requests]
  /\ status \in [Requests -> {"INIT", "OK", "WAITING", "TIMEOUT", "CANCELLED"}]
  /\ ListsMatch /\ WaitersHaveHolders /\ Ordered

Inv == TypeOK /\ ListsMatch /\ WaitersHaveHolders /\ LockInv

-----------------------------------------------------------------------------
(* The requests of a LockInfo.                                              *)
LEMMA SequenceIsFunction ==
  ASSUME NEW T, NEW s \in Seq(T)
  PROVE  DOMAIN s = 1 .. Len(s) /\ \A j \in 1 .. Len(s) : s[j] \in T
OBVIOUS

LEMMA LockRequestsType ==
  ASSUME NEW i \in Infos
  PROVE  /\ \E S : getLockRequests(i) \in Seq([entity : S, mode : Modes])
         /\ Len(getLockRequests(i)) \in Nat \ {0}
<1> DEFINE p == Scope[i].partition
           b == Scope[i].bucket
           intent == IF Scope[i].mode = "S" THEN "IS" ELSE "IX"
           On(e) == [entity |-> e, mode |-> IF e = Entity(p, b) THEN Scope[i].mode ELSE intent]
           S == {Entity(None, None), Entity(p, None), Entity(p, b)}
           T == [entity : S, mode : Modes]
           s1 == <<On(Entity(None, None))>>
           s2 == IF p # None THEN <<On(Entity(p, None))>> ELSE <<>>
           s3 == IF b # None THEN <<On(Entity(p, b))>> ELSE <<>>
<1>1. Scope[i].mode \in Modes /\ intent \in Modes
  BY LockAssumption, Zenon DEF Modes
<1>2. \A e \in S : On(e) \in T
  BY <1>1, Zenon
<1> HIDE DEF T, On
<1>3. s1 \in Seq(T) /\ Len(s1) = 1
  BY <1>2
<1>4. s2 \in Seq(T)
  BY <1>2
<1>5. s3 \in Seq(T)
  BY <1>2
<1>6. getLockRequests(i) = (s1 \o s2) \o s3
  BY Zenon DEF getLockRequests, On
<1> HIDE DEF s1, s2, s3
<1>7. (s1 \o s2) \in Seq(T) /\ Len(s1 \o s2) = 1 + Len(s2)
  <2>1. s1 \in Seq(T) /\ s2 \in Seq(T)
    BY <1>3, <1>4, Zenon
  <2>2. (s1 \o s2) \in Seq(T) /\ Len(s1 \o s2) = Len(s1) + Len(s2)
    BY <2>1
  <2> QED BY <1>3, <2>2, Zenon
<1>8. (s1 \o s2) \o s3 \in Seq(T) /\ Len((s1 \o s2) \o s3) = 1 + Len(s2) + Len(s3)
  BY SMTT(60), <1>5, <1>7
<1>9. Len(s2) \in Nat /\ Len(s3) \in Nat
  BY <1>4, <1>5
<1>10. getLockRequests(i) \in Seq([entity : S, mode : Modes])
  BY <1>6, <1>8, Zenon DEF T
<1>11. Len(getLockRequests(i)) \in Nat \ {0}
  BY <1>6, <1>8, <1>9
<1> QED BY Zenon, <1>10, <1>11

LEMMA RequestFacts ==
  /\ \A i \in Infos : /\ Len(getLockRequests(i)) \in Nat \ {0}
                      /\ \A j : <<i, j>> \in RequestsOf(i) <=> j \in 1 .. Len(getLockRequests(i))
                      /\ RequestsOf(i) \subseteq Requests
                      /\ \A r \in RequestsOf(i) : r = <<i, r[2]>> /\ r[1] = i /\ TxnOf(r) = Scope[i].txn
  /\ \A r \in Requests : /\ r = <<r[1], r[2]>> /\ r[1] \in Infos /\ r \in RequestsOf(r[1])
                         /\ TxnOf(r) = Scope[r[1]].txn /\ TxnOf(r) \in Txns /\ ModeOf(r) \in Modes
<1>1. ASSUME NEW i \in Infos
      PROVE  /\ Len(getLockRequests(i)) \in Nat \ {0}
             /\ DOMAIN getLockRequests(i) = 1 .. Len(getLockRequests(i))
             /\ \A j \in DOMAIN getLockRequests(i) : getLockRequests(i)[j].mode \in Modes
  <2>1. PICK S : getLockRequests(i) \in Seq([entity : S, mode : Modes])
    BY Zenon, LockRequestsType
  <2>2. /\ DOMAIN getLockRequests(i) = 1 .. Len(getLockRequests(i))
        /\ \A j \in 1 .. Len(getLockRequests(i)) : getLockRequests(i)[j] \in [entity : S, mode : Modes]
    BY Zenon, <2>1, SequenceIsFunction
  <2>3. Len(getLockRequests(i)) \in Nat \ {0}
    BY LockRequestsType, Zenon
  <2> QED BY <2>2, <2>3, Zenon
<1>2. ASSUME NEW i \in Infos, NEW r \in RequestsOf(i)
      PROVE  r = <<i, r[2]>> /\ r[1] = i /\ r[2] \in DOMAIN getLockRequests(i)
  BY DEF RequestsOf
<1>3. ASSUME NEW r \in Requests PROVE \E i \in Infos : r \in RequestsOf(i)
  BY Zenon DEF Requests
<1>4. \A i \in Infos : RequestsOf(i) \subseteq Requests
  BY Zenon DEF Requests
<1>5. \A i \in Infos : \A j : <<i, j>> \in RequestsOf(i) <=> j \in 1 .. Len(getLockRequests(i))
  BY <1>1, Zenon DEF RequestsOf
<1>6. \A i \in Infos : \A r \in RequestsOf(i) : TxnOf(r) = Scope[i].txn
  BY <1>2, Zenon DEF TxnOf
<1>7. ASSUME NEW r \in Requests
      PROVE  /\ r = <<r[1], r[2]>> /\ r[1] \in Infos /\ r \in RequestsOf(r[1])
             /\ TxnOf(r) = Scope[r[1]].txn /\ TxnOf(r) \in Txns /\ ModeOf(r) \in Modes
  <2>1. PICK i \in Infos : r \in RequestsOf(i)
    BY <1>3, Zenon
  <2>2. r = <<i, r[2]>> /\ r[1] = i /\ r[2] \in DOMAIN getLockRequests(i)
    BY <1>2, <2>1, Zenon
  <2>3. ModeOf(r) \in Modes
    BY <1>1, <2>2, Zenon DEF ModeOf
  <2>4. TxnOf(r) = Scope[i].txn /\ Scope[i].txn \in Txns
    BY <1>6, <2>1, LockAssumption, Zenon
  <2> QED BY <2>1, <2>2, <2>3, <2>4, Zenon
<1> QED BY <1>1, <1>2, <1>4, <1>5, <1>6, <1>7, Zenon

LEMMA ConflictsSymmetric ==
  ASSUME NEW q \in Requests, NEW r \in Requests, conflicts(q, r)
  PROVE  conflicts(r, q)
<1>1. ModeOf(q) \in Modes /\ ModeOf(r) \in Modes
  BY RequestFacts, Zenon
<1> QED BY <1>1, Zenon DEF conflicts, Against, Modes

LEMMA FirstRequest == \A i \in Infos : <<i, 1>> \in Requests
<1> SUFFICES ASSUME NEW i \in Infos PROVE <<i, 1>> \in Requests
  BY Zenon
<1>1. 1 \in 1 .. Len(getLockRequests(i))
  BY RequestFacts
<1> QED BY <1>1, RequestFacts, Zenon
-----------------------------------------------------------------------------
(* LockContext::unlock.                                                     *)
LEMMA UnlockKeeps ==
  ASSUME Contexts, NEW r \in Requests, NEW s \in {"INIT", "TIMEOUT"}, Unlock(r, s)
  PROVE  /\ Contexts'
         /\ granted \ {r} \subseteq granted'
         /\ \A q \in Requests \ {r} : status'[q] = status[q] \/ status'[q] = "OK"
<1> USE DEF Contexts
<1>1. ASSUME status[r] = "OK", NEW G \in SUBSET Waiters(EntityOf(r)),
             Scheduled(G, granted \ {r}, EntityOf(r)),
             granted' = (granted \ {r}) \cup G, Dequeue(G),
             status' = [q \in Requests |-> IF q = r THEN s
                                           ELSE IF q \in G THEN "OK" ELSE status[q]]
      PROVE  /\ Contexts'
             /\ granted \ {r} \subseteq granted'
             /\ \A q \in Requests \ {r} : status'[q] = status[q] \/ status'[q] = "OK"
  <2>1. G \subseteq waiting /\ G \subseteq Requests /\ r \notin G /\ r \notin waiting
    BY <1>1, Zenon DEF Waiters, ListsMatch
  <2>2. /\ waiting' = waiting \ G
        /\ ahead' = [q \in Requests |-> IF q \in G THEN {} ELSE ahead[q] \ G]
    BY <1>1, Zenon DEF Dequeue
  <2>3. status' \in [Requests -> {"INIT", "OK", "WAITING", "TIMEOUT", "CANCELLED"}]
    BY <1>1, <2>1, Zenon
  <2>4. ahead' \in [Requests -> SUBSET Requests] /\ granted' \subseteq Requests /\ waiting' \subseteq Requests
    BY <1>1, <2>1, <2>2, Zenon
  <2>5. ListsMatch'
    <3>1. \A q \in Requests : /\ q \in granted <=> status[q] = "OK"
                              /\ q \in waiting <=> status[q] = "WAITING"
                              /\ ahead[q] \subseteq waiting \ {q}
      BY Zenon DEF ListsMatch
    <3>2. \A q \in Requests : q \in granted' <=> status'[q] = "OK"
      BY <1>1, <2>1, <3>1, Zenon
    <3>3. \A q \in Requests : q \in waiting' <=> status'[q] = "WAITING"
      BY <1>1, <2>1, <2>2, <3>1, Zenon
    <3>4. \A q \in Requests : ahead'[q] \subseteq waiting' \ {q}
      BY <2>1, <2>2, <3>1, Zenon
    <3> QED BY <2>4, <3>2, <3>3, <3>4, Zenon DEF ListsMatch
  <2>6. Ordered'
    BY <2>1, <2>2, Zenon DEF Ordered
  <2>7. WaitersHaveHolders'
    <3> SUFFICES ASSUME NEW w \in waiting' PROVE \E q \in granted' : EntityOf(q) = EntityOf(w)
      BY Zenon DEF WaitersHaveHolders, Holders
    <3>1. w \in waiting /\ w \notin G
      BY <2>2, Zenon
    <3>2. CASE EntityOf(w) = EntityOf(r)
      <4>1. w \in Waiters(EntityOf(r))
        BY <3>1, <3>2, Zenon DEF Waiters
      <4>2. \E q \in (granted \ {r}) \cup (G \cap ahead[w]) : conflicts(w, q)
        BY <1>1, <3>1, <4>1, Zenon DEF Scheduled
      <4> QED BY <1>1, <4>2, Zenon DEF conflicts
    <3>3. CASE EntityOf(w) # EntityOf(r)
      BY <1>1, <3>1, <3>3, Zenon DEF WaitersHaveHolders, Holders
    <3> QED BY <3>2, <3>3, Zenon
  <2>8. \A q \in Requests \ {r} : status'[q] = status[q] \/ status'[q] = "OK"
    BY <1>1, Zenon
  <2> QED BY <1>1, <2>3, <2>4, <2>5, <2>6, <2>7, <2>8, Zenon
<1>2. ASSUME status[r] = "WAITING", Dequeue({r}), NEW c \in {"CANCELLED", "TIMEOUT"},
             status' = [status EXCEPT ![r] = c], granted' = granted
      PROVE  /\ Contexts'
             /\ granted \ {r} \subseteq granted'
             /\ \A q \in Requests \ {r} : status'[q] = status[q] \/ status'[q] = "OK"
  <2>1. /\ waiting' = waiting \ {r}
        /\ ahead' = [q \in Requests |-> IF q \in {r} THEN {} ELSE ahead[q] \ {r}]
    BY <1>2, Zenon DEF Dequeue
  <2>2. /\ status' \in [Requests -> {"INIT", "OK", "WAITING", "TIMEOUT", "CANCELLED"}]
        /\ ahead' \in [Requests -> SUBSET Requests]
    BY <1>2, <2>1, Zenon
  <2>3. ListsMatch'
    BY <1>2, <2>1, <2>2, Zenon DEF ListsMatch
  <2>4. Ordered' /\ WaitersHaveHolders'
    BY <1>2, <2>1, Zenon DEF Ordered, WaitersHaveHolders, Holders
  <2> QED BY <1>2, <2>1, <2>2, <2>3, <2>4, Zenon
<1>3. ASSUME status[r] \notin {"OK", "WAITING"}, NEW c \in {"INIT", "TIMEOUT", "CANCELLED"},
             status' = [status EXCEPT ![r] = c],
             granted' = granted, waiting' = waiting, ahead' = ahead
      PROVE  /\ Contexts'
             /\ granted \ {r} \subseteq granted'
             /\ \A q \in Requests \ {r} : status'[q] = status[q] \/ status'[q] = "OK"
  BY <1>3 DEF ListsMatch, Ordered, WaitersHaveHolders, Holders
<1>4. CASE status[r] = "OK"
  <2>1. PICK G \in SUBSET Waiters(EntityOf(r)) :
             /\ Scheduled(G, granted \ {r}, EntityOf(r))
             /\ granted' = (granted \ {r}) \cup G
             /\ Dequeue(G)
             /\ status' = [q \in Requests |-> IF q = r THEN s
                                              ELSE IF q \in G THEN "OK" ELSE status[q]]
    BY Zenon, <1>4 DEF Unlock
  <2> QED BY <1>1, <1>4, <2>1, Zenon
<1>5. CASE status[r] = "WAITING"
  <2>1. Dequeue({r}) /\ granted' = granted
    BY <1>5, Zenon DEF Unlock
  <2>2. \E c \in {"CANCELLED", "TIMEOUT"} : status' = [status EXCEPT ![r] = c]
    BY <1>5, Zenon DEF Unlock
  <2> QED BY Zenon, <1>2, <1>5, <2>1, <2>2
<1>6. CASE status[r] \notin {"OK", "WAITING"}
  <2>1. granted' = granted /\ waiting' = waiting /\ ahead' = ahead
    BY <1>6, Zenon DEF Unlock
  <2>2. status' = [status EXCEPT ![r] = IF s = "INIT" THEN status[r] ELSE s]
    BY <1>6, Zenon DEF Unlock
  <2>3. (IF s = "INIT" THEN status[r] ELSE s) \in {"INIT", "TIMEOUT", "CANCELLED"}
    BY <1>6, Zenon
  <2> QED BY Zenon, <1>3, <1>6, <2>1, <2>2, <2>3
<1> QED BY <1>4, <1>5, <1>6, Zenon

(* LockContext::lock.                                                       *)
LEMMA RequestContexts ==
  ASSUME Contexts, NEW t \in Txns, NEW noWait \in BOOLEAN, Request(t, noWait), Req(t) \in Requests
  PROVE  /\ Contexts'
         /\ granted \subseteq granted'
         /\ \A q \in Requests \ {Req(t)} : status'[q] = status[q]
         /\ status'[Req(t)] \in {"OK", "TIMEOUT", "WAITING"}
<1> USE DEF Contexts
<1> DEFINE r == Req(t)
<1>0. status[r] = "INIT" /\ r \notin granted /\ r \notin waiting /\ r \in Requests
  BY Zenon DEF Request, ListsMatch
<1>00. \A q \in Requests : /\ q \in granted <=> status[q] = "OK"
                           /\ q \in waiting <=> status[q] = "WAITING"
                           /\ ahead[q] \subseteq waiting \ {q}
  BY Zenon DEF ListsMatch
<1>1. CASE Grantable(r)
  <2>1. /\ granted' = granted \cup {r} /\ status' = [status EXCEPT ![r] = "OK"]
        /\ waiting' = waiting /\ ahead' = ahead
    BY <1>1, Zenon DEF Request
  <2> HIDE DEF r
  <2>2. ListsMatch' /\ Ordered' /\ WaitersHaveHolders'
    BY <1>0, <1>00, <2>1 DEF ListsMatch, Ordered, WaitersHaveHolders, Holders
  <2> QED BY <1>0, <2>1, <2>2, Zenon DEF r
<1>2. CASE ~ Grantable(r) /\ noWait
  <2>1. /\ granted' = granted /\ status' = [status EXCEPT ![r] = "TIMEOUT"]
        /\ waiting' = waiting /\ ahead' = ahead
    BY <1>2, Zenon DEF Request
  <2> HIDE DEF r
  <2>2. ListsMatch' /\ Ordered' /\ WaitersHaveHolders'
    BY <1>0, <1>00, <2>1, ZenonT(60) DEF ListsMatch, Ordered, WaitersHaveHolders, Holders
  <2> QED BY <1>0, <2>1, <2>2, Zenon DEF r
<1>3. CASE ~ Grantable(r) /\ ~ noWait
  <2>1. /\ granted' = granted /\ status' = [status EXCEPT ![r] = "WAITING"]
        /\ waiting' = waiting \cup {r}
        /\ ahead' = [ahead EXCEPT ![r] = Waiters(EntityOf(r))]
    BY <1>3, Zenon DEF Request
  <2>2. Waiters(EntityOf(r)) # {} \/ \E q \in granted : conflicts(r, q)
    BY <1>3, Zenon DEF Grantable
  <2> HIDE DEF r
  <2>3. Waiters(EntityOf(r)) \subseteq waiting \ {r}
    BY <1>0, Zenon DEF Waiters
  <2>4. ListsMatch'
    BY <1>0, <1>00, <2>1, <2>3 DEF ListsMatch
  <2>5. Ordered'
    BY <1>0, <2>1 DEF Ordered, Waiters
  <2>6. WaitersHaveHolders'
    BY <1>0, <2>1, <2>2, ZenonT(60) DEF WaitersHaveHolders, Holders, Waiters, conflicts
  <2>7. ahead' \in [Requests -> SUBSET Requests]
    BY <1>0, <2>1, <2>3, Zenon
  <2> QED BY <1>0, <2>1, <2>4, <2>5, <2>6, <2>7, Zenon DEF r
<1> QED BY <1>1, <1>2, <1>3, Zenon
-----------------------------------------------------------------------------
(* Every action keeps the invariant.                                        *)
LEMMA ContextsHold == Inv => Contexts
BY Zenon DEF Inv, LockInv, Contexts, TypeOK

LEMMA ContextsKept == Contexts /\ UNCHANGED contexts => Contexts'
BY ZenonT(60) DEF contexts, Contexts, ListsMatch, WaitersHaveHolders, Holders, Ordered

LEMMA InvStep ==
  ASSUME Contexts', TypeOK', \A t \in Txns : OwnInv(t)' /\ RunningInv(t)', \A p \in Procs : EvictInv(p)'
  PROVE  Inv'
BY Zenon DEF Inv, LockInv, Contexts

(* What an action that leaves a thread or an eviction alone does not break. *)
Stages == {"off", "judge", "abort", "put", "unlock", "requests"}
Evictions == [stage : Stages, todo : SUBSET Txns, victim : Txns \cup {NoTxn}]
Places == {"idle", "request", "evict", "wait", "woken", "timeout", "fail",
           "undoing", "undo", "commit", "abort", "release", "unlocking", "unlock"}
          \cup IF Metastore = "FDB" THEN {"commitPut", "abortPut"} ELSE {}
Records == {"Running", "Aborted", "Finished"}

LEMMA Types ==
  ASSUME Inv
  PROVE  /\ locks \in [Txns -> SUBSET Infos] /\ late \in [Txns -> BOOLEAN]
         /\ record \in [Txns -> Records] /\ pc \in [Txns -> Places]
         /\ cur \in [Txns -> Infos] /\ k \in [Txns -> Nat] /\ \A t \in Txns : Req(t) \in Requests
         /\ left \in [Txns -> SUBSET Infos] /\ held \in [Txns -> SUBSET Infos]
         /\ ev \in [Procs -> Evictions] /\ ureqs \in [Procs -> SUBSET Requests]
BY Zenon DEF Inv, TypeOK, Places, Records, Evictions, Stages

LEMMA Parts ==
  ASSUME Inv
  PROVE  /\ \A u \in Txns : OwnInv(u) /\ RunningInv(u)
         /\ \A p \in Procs : EvictInv(p)
         /\ Txns \subseteq Procs
BY Zenon DEF Inv, LockInv, Procs

LEMMA OwnKept ==
  ASSUME NEW u \in Txns, OwnInv(u), locks'[u] \subseteq locks[u], held'[u] \subseteq held[u],
         left'[u] \subseteq left[u], cur'[u] = cur[u], pc'[u] \in Locking => pc[u] \in Locking
  PROVE  OwnInv(u)'
BY Zenon DEF OwnInv, InfosOf, Locking

LEMMA RunningKept ==
  ASSUME NEW u \in Txns, RunningInv(u), record'[u] = "Running" => record[u] = "Running",
         granted \subseteq granted', status'[Req(u)] = status[Req(u)], pc'[u] = pc[u],
         held'[u] = held[u], cur'[u] = cur[u], k'[u] = k[u]
  PROVE  RunningInv(u)'
<1>1. Req(u)' = Req(u)
  BY Zenon DEF Req
<1> QED BY <1>1, Zenon DEF RunningInv

LEMMA EvictKept ==
  ASSUME NEW u \in Procs, EvictInv(u), ev'[u] = ev[u], ureqs'[u] \subseteq ureqs[u],
         ureqs[u] \subseteq Requests, u \in Txns => pc'[u] = pc[u] /\ cur'[u] = cur[u],
         \A v \in Txns : record'[v] = "Running" => record[v] = "Running"
  PROVE  EvictInv(u)'
<1>1. \A r \in ureqs[u] : TxnOf(r) \in Txns
  BY RequestFacts, Zenon
<1> QED BY <1>1, Zenon DEF EvictInv

(* The types hold again when those of the changed variables do.             *)
LEMMA TypesStep ==
  ASSUME Contexts', locks' \in [Txns -> SUBSET Infos], late' \in [Txns -> BOOLEAN],
         record' \in [Txns -> Records], pc' \in [Txns -> Places],
         cur' \in [Txns -> Infos], k' \in [Txns -> Nat], \A t \in Txns : <<cur'[t], k'[t]>> \in Requests,
         left' \in [Txns -> SUBSET Infos], held' \in [Txns -> SUBSET Infos],
         ev' \in [Procs -> Evictions], ureqs' \in [Procs -> SUBSET Requests]
  PROVE  TypeOK'
BY SMTT(60) DEF TypeOK, Contexts, Req, Places, Records, Evictions, Stages

(* A step of thread t that changes pc[t], and perhaps ends t or forgets     *)
(* registered infos.                                                        *)
LEMMA PcKeeps ==
  ASSUME Inv, NEW t \in Txns, NEW n \in Places, pc' = [pc EXCEPT ![t] = n],
         NEW s \in Records, NEW L \in SUBSET locks[t],
         record' = record \/ (record' = [record EXCEPT ![t] = s] /\ s # "Running"),
         locks' = locks \/ locks' = [locks EXCEPT ![t] = L],
         UNCHANGED <<contexts, late, cur, k, left, held, ev, ureqs>>,
         n \in Locking => pc[t] \in Locking,
         n \notin {"request", "evict"}, n \in {"wait", "woken"} => pc[t] \in {"evict", "wait"},
         record'[t] = "Running" => n \notin {"release", "unlocking", "unlock"}
                                   /\ (n = "woken" => status[Req(t)] = "OK"),
         ev[t].stage = "off",
         record'[t] = "Running" => (pc[t] \in {"undoing", "undo"} => n = "undo" \/ ureqs[t] = {})
  PROVE  Inv'
<1>0. /\ locks' \in [Txns -> SUBSET Infos] /\ record' \in [Txns -> Records] /\ pc' \in [Txns -> Places]
      /\ \A u \in Txns : locks'[u] \subseteq locks[u] /\ (record'[u] = "Running" => record[u] = "Running")
      /\ pc'[t] = n /\ \A u \in Txns : u # t => pc'[u] = pc[u]
  BY Types, Zenon
<1>1. Contexts'
  BY ContextsHold, ContextsKept, Zenon
<1>2. TypeOK'
  <2>1. \A u \in Txns : <<cur'[u], k'[u]>> \in Requests
    BY SMTT(60), Types DEF Req
  <2> QED BY <1>0, <1>1, <2>1, Types, TypesStep, Zenon
<1>3. ASSUME NEW u \in Txns PROVE OwnInv(u)'
  BY <1>0, Parts, OwnKept, Zenon
<1>4. ASSUME NEW u \in Txns PROVE RunningInv(u)'
  <2>1. CASE u # t
    BY SMTT(60), <1>0, <2>1, Parts, RunningKept DEF contexts
  <2>2. CASE u = t
    <3>1. RunningInv(t) /\ Req(t)' = Req(t)
      BY Parts, Zenon DEF Req
    <3> QED BY <1>0, <2>2, <3>1, Zenon DEF RunningInv, contexts
  <2> QED BY Zenon, <2>1, <2>2
<1>5. ASSUME NEW u \in Procs PROVE EvictInv(u)'
  <2>1. CASE u # t
    BY <1>0, <2>1, Parts, Types, EvictKept, Zenon
  <2>2. CASE u = t
    <3>1. EvictInv(t) /\ t \in Procs /\ ureqs[t] \subseteq Requests
      BY Parts, Types, Zenon
    <3>2. \A r \in ureqs[t] : TxnOf(r) \in Txns
      BY SMTT(60), <3>1, RequestFacts
    <3> QED BY <1>0, <2>2, <3>1, <3>2, Zenon DEF EvictInv
  <2> QED BY Zenon, <2>1, <2>2
<1> QED BY <1>1, <1>2, <1>3, <1>4, <1>5, InvStep, Zenon

(* A step of the eviction of process p, which perhaps ends transactions and *)
(* collects the requests of ended ones.                                     *)
LEMMA EvKeeps ==
  ASSUME Inv, NEW p \in Procs, NEW e \in Evictions, ev' = [ev EXCEPT ![p] = e],
         record' \in [Txns -> Records], \A u \in Txns : record'[u] = "Running" => record[u] = "Running",
         locks' \in [Txns -> SUBSET Infos], \A u \in Txns : locks'[u] \subseteq locks[u],
         NEW R \in SUBSET Requests, \A r \in R : record'[TxnOf(r)] # "Running",
         ureqs' = ureqs \/ ureqs' = [ureqs EXCEPT ![p] = R],
         UNCHANGED <<contexts, late, thread>>,
         p \in Txns /\ e.stage # "off" => pc[p] = "evict",
         e.stage \in {"abort", "put", "unlock", "requests"} => e.victim \in Txns,
         e.stage \in {"unlock", "requests"} => record'[e.victim] # "Running"
  PROVE  Inv'
<1>0. /\ ev' \in [Procs -> Evictions] /\ ureqs' \in [Procs -> SUBSET Requests]
      /\ ev'[p] = e /\ (ureqs'[p] = ureqs[p] \/ ureqs'[p] = R)
      /\ \A u \in Procs : u # p => ev'[u] = ev[u] /\ ureqs'[u] = ureqs[u]
  BY Types, Zenon
<1>00. UNCHANGED <<pc, cur, k, left, held>>
  BY Zenon DEF thread
<1>1. Contexts'
  BY ContextsHold, ContextsKept, Zenon
<1>2. TypeOK'
  <2>1. \A u \in Txns : <<cur'[u], k'[u]>> \in Requests
    BY SMTT(60), <1>00, Types DEF Req
  <2> QED BY <1>0, <1>00, <1>1, <2>1, Types, TypesStep, Zenon
<1>3. ASSUME NEW u \in Txns PROVE OwnInv(u)'
  BY <1>00, Parts, OwnKept, Zenon
<1>4. ASSUME NEW u \in Txns PROVE RunningInv(u)'
  BY SMTT(60), <1>00, Parts, RunningKept DEF contexts
<1>5. ASSUME NEW u \in Procs PROVE EvictInv(u)'
  <2>1. CASE u # p
    BY <1>0, <1>00, <2>1, Parts, Types, EvictKept, Zenon
  <2>2. CASE u = p
    <3>1. EvictInv(p) /\ ureqs[p] \subseteq Requests
      BY Parts, Types, Zenon
    <3>2. \A r \in ureqs[p] : TxnOf(r) \in Txns
      BY <3>1, RequestFacts, Zenon
    <3> QED BY SMTT(60), <1>0, <1>00, <2>2, <3>1, <3>2 DEF EvictInv
  <2> QED BY Zenon, <2>1, <2>2
<1> QED BY SMTT(60), <1>1, <1>2, <1>3, <1>4, <1>5, InvStep

(* A step that changes no more than who is late.                            *)
LEMMA LateKeeps ==
  ASSUME Inv, late' \in [Txns -> BOOLEAN], UNCHANGED <<contexts, locks, record, thread, ev, ureqs>>
  PROVE  Inv'
<1>0. UNCHANGED <<pc, cur, k, left, held>>
  BY Zenon DEF thread
<1>1. Contexts'
  BY SMTT(60), ContextsHold, ContextsKept
<1>2. TypeOK'
  <2>1. \A u \in Txns : <<cur'[u], k'[u]>> \in Requests
    BY SMTT(60), <1>0, Types DEF Req
  <2> QED BY <1>0, <1>1, <2>1, Types, TypesStep, Zenon
<1>3. ASSUME NEW u \in Txns PROVE OwnInv(u)'
  BY <1>0, Parts, OwnKept, Zenon
<1>4. ASSUME NEW u \in Txns PROVE RunningInv(u)'
  BY SMTT(60), <1>0, Parts, RunningKept DEF contexts
<1>5. ASSUME NEW u \in Procs PROVE EvictInv(u)'
  BY <1>0, Parts, Types, EvictKept, Zenon
<1> QED BY <1>1, <1>2, <1>3, <1>4, <1>5, InvStep, Zenon

LEMMA NoEviction == ASSUME Inv, NEW t \in Txns, pc[t] # "evict" PROVE ev[t].stage = "off"
BY Parts, Zenon DEF EvictInv

LEMMA AdvanceKeeps ==
  ASSUME Inv, NEW t \in Txns, Advance(t), pc[t] \in {"evict", "woken"}, ev[t].stage = "off",
         record[t] = "Running" => status[Req(t)] = "OK",
         UNCHANGED <<contexts, locks, late, record, cur, left, ev, ureqs>>
  PROVE  Inv'
<1> DEFINE n == Len(getLockRequests(cur[t]))
<1>0. cur[t] \in Infos /\ k[t] \in Nat /\ n \in Nat /\ k[t] \in 1 .. n /\ Req(t) = <<cur[t], k[t]>>
  <2>1. Req(t) \in Requests /\ Req(t) = <<cur[t], k[t]>> /\ cur[t] \in Infos /\ k[t] \in Nat
    BY SMTT(60), Types DEF Req
  <2>2. <<cur[t], k[t]>> \in RequestsOf(cur[t])
    BY SMTT(60), <2>1, RequestFacts
  <2> QED BY <2>1, <2>2, RequestFacts, Zenon
<1>01. record[t] = "Running" => Req(t) \in granted /\ \A j \in 1 .. k[t] - 1 : <<cur[t], j>> \in granted
  BY Parts, Types, Zenon DEF RunningInv, Inv, ListsMatch
<1>02. \/ /\ k[t] < n /\ k' = [k EXCEPT ![t] = k[t] + 1]
          /\ pc' = [pc EXCEPT ![t] = "request"] /\ held' = held
       \/ /\ k[t] = n /\ held' = [held EXCEPT ![t] = held[t] \cup {cur[t]}]
          /\ pc' = [pc EXCEPT ![t] = "idle"] /\ k' = k
       \/ pc' = [pc EXCEPT ![t] = "fail"] /\ k' = k /\ held' = held
  BY Zenon DEF Advance
<1> HIDE DEF n
<1>03. \/ k[t] < n /\ k'[t] = k[t] + 1 /\ pc'[t] = "request" /\ held'[t] = held[t]
       \/ k[t] = n /\ k'[t] = k[t] /\ pc'[t] = "idle" /\ held'[t] = held[t] \cup {cur[t]}
       \/ k'[t] = k[t] /\ pc'[t] = "fail" /\ held'[t] = held[t]
  BY <1>02, Types, Zenon
<1>04. \A u \in Txns : u # t => k'[u] = k[u] /\ pc'[u] = pc[u] /\ held'[u] = held[u]
  BY <1>02, Types, Zenon
<1>05. pc' \in [Txns -> Places] /\ k' \in [Txns -> Nat] /\ held' \in [Txns -> SUBSET Infos]
  <2>1. pc' \in [Txns -> Places]
    BY SMTT(60), <1>02, Types DEF Places
  <2>2. k' \in [Txns -> Nat]
    <3>1. k[t] + 1 \in Nat
      BY <1>0
    <3> QED BY <1>02, <3>1, Types, Zenon
  <2>3. held' \in [Txns -> SUBSET Infos]
    <3>1. held[t] \cup {cur[t]} \in SUBSET Infos
      BY Types, Zenon
    <3> QED BY SMTT(60), <1>02, <3>1, Types
  <2> QED BY <2>1, <2>2, <2>3, Zenon
<1>1. Contexts'
  BY ContextsHold, ContextsKept, Zenon
<1>2. TypeOK'
  <2>1. ASSUME NEW u \in Txns PROVE <<cur'[u], k'[u]>> \in Requests
    <3>1. CASE u # t
      BY <1>04, <3>1, Types, Zenon DEF Req
    <3>2. CASE u = t
      <4>1. k'[t] \in 1 .. n
        BY SMTT(60), <1>0, <1>03
      <4>2. <<cur[t], k'[t]>> \in RequestsOf(cur[t])
        BY SMTT(60), <1>0, <4>1, RequestFacts DEF n
      <4> QED BY <1>0, <3>2, <4>2, RequestFacts, Zenon
    <3> QED BY <3>1, <3>2, Zenon
  <2> QED BY SMTT(60), <1>05, <1>1, <2>1, Types, TypesStep
<1>3. ASSUME NEW u \in Txns PROVE OwnInv(u)'
  <2>1. CASE u # t
    BY SMTT(60), <1>04, <2>1, Parts, OwnKept
  <2>2. CASE u = t
    <3>1. OwnInv(t) /\ pc[t] \in Locking
      BY SMTT(60), Parts DEF Locking
    <3> QED BY Zenon, <1>03, <2>2, <3>1 DEF OwnInv, Locking
  <2> QED BY Zenon, <2>1, <2>2
<1>4. ASSUME NEW u \in Txns PROVE RunningInv(u)'
  <2>1. CASE u # t
    BY ZenonT(40), <1>04, <2>1, Parts, RunningKept DEF contexts
  <2>2. CASE u = t
    <3> SUFFICES ASSUME record[t] = "Running" PROVE RunningInv(t)'
      BY <2>2, Zenon DEF RunningInv
    <3>1. RunningInv(t)
      BY SMTT(60), Parts
    <3>2. CASE pc'[t] = "request"
      <4>1. \A j \in 1 .. k'[t] - 1 : j \in 1 .. k[t] - 1 \/ j = k[t]
        BY <1>0, <1>03, <3>2
      <4>2. \A j \in 1 .. k'[t] - 1 : <<cur'[t], j>> \in granted'
        BY SMTT(60), <1>0, <1>01, <4>1 DEF contexts
      <4>3. held'[t] = held[t]
        BY SMTT(60), <1>03, <3>2
      <4> QED BY ZenonT(40), <3>1, <3>2, <4>2, <4>3 DEF RunningInv, contexts
    <3>3. CASE pc'[t] = "idle"
      <4>1. RequestsOf(cur[t]) \subseteq granted
        <5>1. ASSUME NEW r \in RequestsOf(cur[t]) PROVE r \in granted
          <6>1. r = <<cur[t], r[2]>> /\ r[2] \in 1 .. n
            BY SMTT(60), <1>0, RequestFacts DEF n
          <6>2. k[t] = n
            BY <1>03, <3>3, Zenon
          <6>3. r[2] \in 1 .. k[t] - 1 \/ r[2] = k[t]
            BY SMTT(60), <1>0, <6>1, <6>2
          <6> QED BY <1>0, <1>01, <6>1, <6>3, Zenon
        <5> QED BY <5>1, Zenon
      <4>2. held'[t] = held[t] \cup {cur[t]}
        BY SMTT(60), <1>03, <3>3
      <4> QED BY <3>1, <3>3, <4>1, <4>2, Zenon DEF RunningInv, contexts
    <3>4. CASE pc'[t] = "fail"
      BY Zenon, <1>03, <3>1, <3>4 DEF RunningInv, contexts
    <3> QED BY Zenon, <1>03, <3>2, <3>3, <3>4
  <2> QED BY Zenon, <2>1, <2>2
<1>5. ASSUME NEW u \in Procs PROVE EvictInv(u)'
  <2>1. CASE u # t
    BY ZenonT(40), <1>04, <2>1, Parts, Types, EvictKept
  <2>2. CASE u = t
    BY <2>2, Parts, Zenon DEF EvictInv
  <2> QED BY Zenon, <2>1, <2>2
<1> QED BY <1>1, <1>2, <1>3, <1>4, <1>5, InvStep, Zenon

LEMMA UnlockKeepsRunning ==
  ASSUME Inv, NEW r \in Requests, NEW s \in {"INIT", "TIMEOUT"}, Unlock(r, s), NEW u \in Txns,
         UNCHANGED <<record, held, cur, k>>, pc'[u] = pc[u] \/ pc'[u] = "fail",
         record[u] = "Running" /\ TxnOf(r) = u
           => r[1] \notin held[u] /\ pc'[u] \in {"undoing", "undo", "fail"}
  PROVE  RunningInv(u)'
<1>0. RunningInv(u) /\ OwnInv(u) /\ Req(u) \in Requests
  BY Parts, Types, Zenon
<1>1. /\ granted \ {r} \subseteq granted'
      /\ \A q \in Requests \ {r} : status'[q] = status[q] \/ status'[q] = "OK"
  BY SMTT(60), ContextsHold, UnlockKeeps
<1>2. ASSUME NEW i \in held[u], r[1] # i, RequestsOf(i) \subseteq granted PROVE RequestsOf(i) \subseteq granted'
  <2>1. r \notin RequestsOf(i)
    BY <1>2, RequestFacts, Types, Zenon
  <2> QED BY SMTT(60), <1>1, <1>2, <2>1
<1>3. CASE TxnOf(r) = u
  BY <1>0, <1>2, <1>3, Zenon DEF RunningInv
<1>4. CASE TxnOf(r) # u
  <2>1. cur[u] # r[1] /\ r[1] \notin held[u] /\ Req(u) # r
    <3>1. TxnOf(r) = Scope[r[1]].txn
      BY SMTT(60), RequestFacts
    <3>2. cur[u] # r[1] /\ r[1] \notin held[u]
      BY <1>0, <1>4, <3>1, Zenon DEF OwnInv, InfosOf
    <3> QED BY <3>2 DEF Req
  <2>2. Req(u)' = Req(u) /\ (status'[Req(u)] = status[Req(u)] \/ status'[Req(u)] = "OK")
    BY <1>0, <1>1, <2>1, Zenon DEF Req
  <2>3. \A j : <<cur[u], j>> \in granted => <<cur[u], j>> \in granted'
    BY <1>1, <2>1
  <2> QED BY <1>0, <1>2, <2>1, <2>2, <2>3, Zenon DEF RunningInv
<1> QED BY SMTT(60), <1>3, <1>4

LEMMA RegisterKeeps ==
  ASSUME Inv, NEW t \in Txns, NEW i \in left[t], Register(t, i)
  PROVE  Inv'
<1>0. /\ pc[t] = "idle" /\ UNCHANGED <<contexts, record, held, ev, ureqs>>
      /\ cur' = [cur EXCEPT ![t] = i] /\ k' = [k EXCEPT ![t] = 1]
      /\ pc' = [pc EXCEPT ![t] = "request"] /\ left' = [left EXCEPT ![t] = left[t] \ {i}]
      /\ locks' = [locks EXCEPT ![t] = locks[t] \cup {i}] /\ late' = [late EXCEPT ![t] = FALSE]
  BY Zenon DEF Register
<1>01. OwnInv(t) /\ RunningInv(t) /\ i \in Infos /\ Scope[i].txn = t /\ <<i, 1>> \in Requests
  BY Parts, Types, FirstRequest, Zenon DEF OwnInv, InfosOf
<1>02. \A u \in Txns : u # t => /\ pc'[u] = pc[u] /\ cur'[u] = cur[u] /\ k'[u] = k[u]
                               /\ left'[u] = left[u] /\ locks'[u] = locks[u]
  BY <1>0, Types, Zenon
<1>03. /\ pc'[t] = "request" /\ cur'[t] = i /\ k'[t] = 1
       /\ left'[t] = left[t] \ {i} /\ locks'[t] = locks[t] \cup {i}
  BY <1>0, Types, Zenon
<1>1. Contexts'
  BY <1>0, ContextsHold, ContextsKept, Zenon
<1>2. TypeOK'
  <2>1. ASSUME NEW u \in Txns PROVE <<cur'[u], k'[u]>> \in Requests
    BY ZenonT(40), <1>01, <1>02, <1>03, Types DEF Req
  <2>2. /\ locks' \in [Txns -> SUBSET Infos] /\ late' \in [Txns -> BOOLEAN] /\ pc' \in [Txns -> Places]
        /\ cur' \in [Txns -> Infos] /\ k' \in [Txns -> Nat] /\ left' \in [Txns -> SUBSET Infos]
    BY ZenonT(40), <1>0, <1>01, Types DEF Places
  <2> QED BY SMTT(60), <1>0, <1>1, <2>1, <2>2, Types, TypesStep
<1>3. ASSUME NEW u \in Txns PROVE OwnInv(u)'
  <2>1. CASE u # t
    BY Zenon, <1>0, <1>02, <2>1, Parts, OwnKept
  <2>2. CASE u = t
    BY SMTT(60), <1>0, <1>01, <1>03, <2>2 DEF OwnInv, InfosOf
  <2> QED BY Zenon, <2>1, <2>2
<1>4. ASSUME NEW u \in Txns PROVE RunningInv(u)'
  <2>1. CASE u # t
    BY SMTT(60), <1>0, <1>02, <2>1, Parts, RunningKept DEF contexts
  <2>2. CASE u = t
    <3>1. 1 .. k'[t] - 1 = {}
      BY <1>03
    <3> QED BY ZenonT(40), <1>0, <1>01, <1>03, <2>2, <3>1 DEF RunningInv, contexts
  <2> QED BY Zenon, <2>1, <2>2
<1>5. ASSUME NEW u \in Procs PROVE EvictInv(u)'
  <2>1. CASE u # t
    BY SMTT(60), <1>0, <1>02, <2>1, Parts, Types, EvictKept
  <2>2. CASE u = t
    BY Zenon, <1>0, <2>2, Parts, NoEviction DEF EvictInv
  <2> QED BY Zenon, <2>1, <2>2
<1> QED BY <1>1, <1>2, <1>3, <1>4, <1>5, InvStep, Zenon

LEMMA RequestKeeps ==
  ASSUME Inv, NEW t \in Txns, NEW noWait \in BOOLEAN, Request(t, noWait)
  PROVE  Inv'
<1>0. Req(t) \in Requests /\ Contexts
  BY ContextsHold, Types, Zenon
<1>00. /\ granted \subseteq granted'
       /\ \A q \in Requests \ {Req(t)} : status'[q] = status[q]
       /\ status'[Req(t)] \in {"OK", "TIMEOUT", "WAITING"}
  BY SMTT(60), <1>0, RequestContexts
<1>1. Contexts'
  BY SMTT(60), <1>0, RequestContexts
<1> DEFINE e == [stage |-> "judge", victim |-> NoTxn, todo |-> {TxnOf(q) : q \in Holders(EntityOf(Req(t)))}]
<1>01. /\ pc[t] = "request" /\ pc' = [pc EXCEPT ![t] = "evict"]
       /\ UNCHANGED <<locks, late, record, cur, k, left, held, ureqs>>
  BY Zenon DEF Request
<1>02. ev' = ev \/ ev' = [ev EXCEPT ![t] = e]
  BY SMTT(60) DEF Request
<1>03. e \in Evictions /\ e.stage = "judge"
  <2>1. {TxnOf(q) : q \in Holders(EntityOf(Req(t)))} \subseteq Txns
    BY SMTT(60), <1>0, RequestFacts DEF Contexts, Holders
  <2> QED BY SMTT(60), <2>1 DEF Evictions, Stages
<1> HIDE DEF e
<1>04. /\ pc'[t] = "evict" /\ (ev'[t] = ev[t] \/ ev'[t] = e)
       /\ \A u \in Txns : u # t => pc'[u] = pc[u]
       /\ \A u \in Procs : u # t => ev'[u] = ev[u]
  BY SMTT(60), <1>01, <1>02, Types, Parts
<1>2. TypeOK'
  <2>1. \A u \in Txns : <<cur'[u], k'[u]>> \in Requests
    BY SMTT(60), <1>01, Types DEF Req
  <2>2. pc' \in [Txns -> Places] /\ ev' \in [Procs -> Evictions]
    BY SMTT(60), <1>01, <1>02, <1>03, Types DEF Places
  <2> QED BY <1>1, <1>01, <2>1, <2>2, Types, TypesStep, Zenon
<1>3. ASSUME NEW u \in Txns PROVE OwnInv(u)'
  <2>1. pc'[u] \in Locking => pc[u] \in Locking
    BY SMTT(60), <1>01, <1>04 DEF Locking
  <2> QED BY SMTT(60), <1>01, <2>1, Parts, OwnKept
<1>4. ASSUME NEW u \in Txns PROVE RunningInv(u)'
  <2>1. CASE u # t
    <3>1. Req(u) # Req(t) /\ Req(u) \in Requests
      BY <2>1, Parts, Types, Zenon DEF OwnInv, InfosOf, Req
    <3> QED BY SMTT(60), <1>00, <1>01, <1>04, <2>1, <3>1, Parts, RunningKept
  <2>2. CASE u = t
    <3>1. RunningInv(t) /\ Req(t)' = Req(t)
      BY <1>01, Parts, Zenon DEF Req
    <3> QED BY <1>00, <1>01, <1>04, <2>2, <3>1, Zenon DEF RunningInv
  <2> QED BY Zenon, <2>1, <2>2
<1>5. ASSUME NEW u \in Procs PROVE EvictInv(u)'
  <2>1. CASE u # t
    BY SMTT(60), <1>01, <1>04, <2>1, Parts, Types, EvictKept
  <2>2. CASE u = t
    <3>1. EvictInv(t) /\ ev[t].stage = "off"
      BY ZenonT(40), <1>01, Parts, NoEviction
    <3> QED BY ZenonT(40), <1>01, <1>03, <1>04, <2>2, <3>1 DEF EvictInv
  <2> QED BY Zenon, <2>1, <2>2
<1> QED BY <1>1, <1>2, <1>3, <1>4, <1>5, InvStep, Zenon

-----------------------------------------------------------------------------
(* The steps of the transactions, of the eviction and of the clock, and the *)
(* theorems.                                                                *)
LEMMA StatusKeeps ==
  ASSUME Inv, NEW t \in Txns, Status(t)
  PROVE  Inv'
<1>1. UNCHANGED <<contexts, locks, late, record, cur, left, ev, ureqs>> /\ pc[t] = "evict" /\ ev[t].stage = "off"
  BY Zenon DEF Status
<1>2. CASE status[Req(t)] = "OK" /\ Advance(t)
  BY <1>1, <1>2, AdvanceKeeps, Zenon
<1>3. ASSUME NEW n \in {"wait", "fail", "abort"}, pc' = [pc EXCEPT ![t] = n], UNCHANGED <<k, held>>
      PROVE  Inv'
  <2>1. n \in Places /\ pc[t] \in Locking /\ locks[t] \in SUBSET locks[t] /\ "Aborted" \in Records
    BY <1>1, Zenon DEF Places, Locking, Records
  <2> QED BY <1>1, <1>3, <2>1, PcKeeps, Zenon
<1>4. CASE status[Req(t)] # "OK"
  BY <1>3, <1>4, Zenon DEF Status
<1>5. status[Req(t)] = "OK" => Advance(t)
  BY Zenon DEF Status
<1> QED BY Zenon, <1>2, <1>4, <1>5

LEMMA WakeKeeps ==
  ASSUME Inv, NEW t \in Txns, Wake(t)
  PROVE  Inv'
<1>1. /\ pc[t] = "wait" /\ status[Req(t)] \in {"OK", "CANCELLED"} /\ pc' = [pc EXCEPT ![t] = "woken"]
      /\ UNCHANGED <<contexts, locks, late, record, cur, k, left, held, ev, ureqs>>
  BY Zenon DEF Wake
<1>2. record'[t] = "Running" => status[Req(t)] = "OK"
  BY <1>1, Parts, Zenon DEF RunningInv
<1>3. ev[t].stage = "off"
  BY <1>1, NoEviction, Zenon
<1>4. "woken" \in Places /\ pc[t] \in Locking /\ locks[t] \in SUBSET locks[t] /\ "Aborted" \in Records
  BY <1>1, Zenon DEF Places, Locking, Records
<1> QED BY <1>1, <1>2, <1>3, <1>4, PcKeeps, Zenon

LEMMA WokenKeeps ==
  ASSUME Inv, NEW t \in Txns, Woken(t)
  PROVE  Inv'
<1>0. UNCHANGED <<contexts, locks, late, record, cur, left, ev, ureqs>> /\ pc[t] = "woken"
  BY Zenon DEF Woken
<1>1. ev[t].stage = "off"
  BY <1>0, NoEviction, Zenon
<1>2. CASE status[Req(t)] # "CANCELLED" /\ Advance(t)
  BY <1>0, <1>1, <1>2, Parts, AdvanceKeeps, Zenon DEF RunningInv
<1>3. CASE status[Req(t)] = "CANCELLED" /\ pc' = [pc EXCEPT ![t] = "fail"] /\ UNCHANGED <<k, held>>
  <2>1. "fail" \in Places /\ pc[t] \in Locking /\ locks[t] \in SUBSET locks[t] /\ "Aborted" \in Records
    BY <1>0, Zenon DEF Places, Locking, Records
  <2> QED BY <1>0, <1>1, <1>3, <2>1, PcKeeps, Zenon
<1> QED BY SMTT(60), <1>2, <1>3 DEF Woken

LEMMA GiveUpKeeps ==
  ASSUME Inv, NEW t \in Txns, GiveUp(t)
  PROVE  Inv'
<1>1. /\ pc[t] = "wait" /\ pc' = [pc EXCEPT ![t] = "timeout"]
      /\ UNCHANGED <<contexts, locks, late, record, cur, k, left, held, ev, ureqs>>
  BY Zenon DEF GiveUp
<1>2. ev[t].stage = "off"
  BY <1>1, NoEviction, Zenon
<1>3. "timeout" \in Places /\ pc[t] \in Locking /\ locks[t] \in SUBSET locks[t] /\ "Aborted" \in Records
  BY <1>1, Zenon DEF Places, Locking, Records
<1> QED BY <1>1, <1>2, <1>3, PcKeeps, Zenon

LEMMA UnregisterKeeps ==
  ASSUME Inv, NEW t \in Txns, Unregister(t)
  PROVE  Inv'
<1> DEFINE n == IF pc[t] = "undoing" THEN "undo" ELSE "unlock"
           L == locks[t] \ {cur[t]}
<1>1. /\ pc[t] \in {"undoing", "unlocking"} /\ pc' = [pc EXCEPT ![t] = n] /\ locks' = [locks EXCEPT ![t] = L]
      /\ UNCHANGED <<contexts, late, record, cur, k, left, held, ev, ureqs>>
  BY Zenon DEF Unregister
<1>2. ev[t].stage = "off" /\ (record[t] = "Running" => pc[t] = "undoing")
  BY <1>1, NoEviction, Parts, Zenon DEF RunningInv
<1>3. n \in Places /\ (n \in Locking => pc[t] \in Locking) /\ L \in SUBSET locks[t] /\ "Aborted" \in Records
  BY <1>1, Zenon DEF Places, Locking, Records
<1>4. n \in {"undo", "unlock"} /\ (pc[t] = "undoing" => n = "undo")
  OBVIOUS
<1> HIDE DEF n, L
<1> QED BY <1>1, <1>2, <1>3, <1>4, PcKeeps, Zenon

LEMMA UnlockedKeeps ==
  ASSUME Inv, NEW t \in Txns, Unlocked(t)
  PROVE  Inv'
<1> DEFINE n == IF pc[t] = "undo" THEN "abort" ELSE "release"
<1>1. /\ pc[t] \in {"undo", "unlock"} /\ pc' = [pc EXCEPT ![t] = n] /\ ureqs[t] = {}
      /\ UNCHANGED <<contexts, locks, late, record, cur, k, left, held, ev, ureqs>>
  BY SMTT(60) DEF Unlocked
<1>2. ev[t].stage = "off" /\ (record[t] = "Running" => pc[t] = "undo")
  BY <1>1, NoEviction, Parts, Zenon DEF RunningInv
<1>3. n \in Places /\ n \notin Locking /\ locks[t] \in SUBSET locks[t] /\ "Aborted" \in Records
  BY Zenon DEF Places, Locking, Records
<1>4. n \in {"abort", "release"} /\ (pc[t] = "undo" => n = "abort")
  OBVIOUS
<1> HIDE DEF n
<1> QED BY <1>1, <1>2, <1>3, <1>4, PcKeeps, Zenon

LEMMA AssertLocksKeeps ==
  ASSUME Inv, NEW t \in Txns, AssertLocks(t)
  PROVE  Inv'
<1> DEFINE n == IF held[t] \subseteq locks[t] THEN "commit" ELSE "abort"
<1>1. /\ pc[t] = "idle" /\ pc' = [pc EXCEPT ![t] = n]
      /\ UNCHANGED <<contexts, locks, late, record, cur, k, left, held, ev, ureqs>>
  BY SMTT(60) DEF AssertLocks
<1>2. ev[t].stage = "off"
  BY <1>1, NoEviction, Zenon
<1>3. n \in Places /\ n \notin Locking /\ locks[t] \in SUBSET locks[t] /\ "Aborted" \in Records
  BY Zenon DEF Places, Locking, Records
<1>4. n \in {"commit", "abort"}
  OBVIOUS
<1> HIDE DEF n
<1> QED BY <1>1, <1>2, <1>3, <1>4, PcKeeps, Zenon

LEMMA CompareKeeps ==
  ASSUME Inv, NEW t \in Txns, Compare(t)
  PROVE  Inv'
<1> DEFINE n == IF pc[t] = "commit" THEN "commitPut" ELSE "abortPut"
<1>1. /\ pc[t] \in {"commit", "abort"} /\ pc' = [pc EXCEPT ![t] = n]
      /\ UNCHANGED <<contexts, locks, late, record, cur, k, left, held, ev, ureqs>>
  BY Zenon DEF Compare
<1>2. ev[t].stage = "off"
  BY <1>1, NoEviction, Zenon
<1>3. n \in {"commitPut", "abortPut"}
  OBVIOUS
<1>4. n \in Places /\ n \notin Locking /\ locks[t] \in SUBSET locks[t] /\ "Aborted" \in Records
  BY SMTT(60) DEF Places, Locking, Records, Compare, PutsLater
<1> HIDE DEF n
<1> QED BY <1>1, <1>2, <1>3, <1>4, PcKeeps, Zenon

LEMMA EndKeeps ==
  ASSUME Inv, NEW t \in Txns, NEW s \in {"Finished", "Aborted"},
         pc[t] \in {"commit", "commitPut", "abort", "abortPut"}, End(t, s)
  PROVE  Inv'
<1>1. /\ pc' = [pc EXCEPT ![t] = "release"] /\ UNCHANGED <<contexts, locks, late, cur, k, left, held, ev, ureqs>>
      /\ record' = record \/ (record' = [record EXCEPT ![t] = s] /\ s # "Running")
      /\ record[t] = "Running" => record' = [record EXCEPT ![t] = s]
  BY Zenon DEF End
<1>2. record'[t] # "Running"
  BY <1>1, Types, Zenon
<1>3. ev[t].stage = "off"
  BY NoEviction, Zenon
<1>4. /\ "release" \in Places /\ "release" \notin Locking /\ locks[t] \in SUBSET locks[t] /\ s \in Records
      /\ "release" \notin {"request", "evict", "wait", "woken"}
  BY Zenon DEF Places, Locking, Records
<1> QED BY <1>1, <1>2, <1>3, <1>4, PcKeeps, Zenon

LEMMA TimedOutKeeps ==
  ASSUME Inv, NEW t \in Txns, TimedOut(t)
  PROVE  Inv'
<1>0. /\ Unlock(Req(t), "TIMEOUT") /\ pc[t] = "timeout" /\ pc' = [pc EXCEPT ![t] = "fail"]
      /\ UNCHANGED <<locks, late, record, cur, k, left, held, ev, ureqs>> /\ Req(t) \in Requests
  BY SMTT(60), Types DEF TimedOut
<1>01. pc'[t] = "fail" /\ \A u \in Txns : u # t => pc'[u] = pc[u]
  BY <1>0, Types, Zenon
<1>1. Contexts'
  BY SMTT(60), <1>0, ContextsHold, UnlockKeeps
<1>2. TypeOK'
  <2>1. \A u \in Txns : <<cur'[u], k'[u]>> \in Requests
    BY SMTT(60), <1>0, Types DEF Req
  <2>2. pc' \in [Txns -> Places]
    BY SMTT(60), <1>0, Types DEF Places
  <2> QED BY <1>0, <1>1, <2>1, <2>2, Types, TypesStep, Zenon
<1>3. ASSUME NEW u \in Txns PROVE OwnInv(u)'
  <2>1. pc'[u] \in Locking => pc[u] \in Locking
    BY <1>0, <1>01, Zenon DEF Locking
  <2> QED BY ZenonT(40), <1>0, <2>1, Parts, OwnKept
<1>4. ASSUME NEW u \in Txns PROVE RunningInv(u)'
  <2>1. Req(t)[1] = cur[t] /\ TxnOf(Req(t)) = t /\ cur[t] \notin held[t]
    BY <1>0, RequestFacts, Parts, Zenon DEF Req, OwnInv, InfosOf, Locking
  <2>2. TxnOf(Req(t)) = u => Req(t)[1] \notin held[u] /\ pc'[u] = "fail"
    BY <1>01, <2>1, Zenon
  <2> QED BY SMTT(60), <1>0, <1>01, <2>2, UnlockKeepsRunning
<1>5. ASSUME NEW u \in Procs PROVE EvictInv(u)'
  <2>1. CASE u # t
    BY <1>0, <1>01, <2>1, Parts, Types, EvictKept, Zenon
  <2>2. CASE u = t
    <3>1. EvictInv(t) /\ ev[t].stage = "off" /\ ureqs[t] \subseteq Requests
      BY <1>0, Parts, NoEviction, Types, Zenon
    <3> QED BY <1>0, <1>01, <2>2, <3>1, Zenon DEF EvictInv
  <2> QED BY Zenon, <2>1, <2>2
<1> QED BY <1>1, <1>2, <1>3, <1>4, <1>5, InvStep, Zenon

LEMMA FailKeeps ==
  ASSUME Inv, NEW t \in Txns, Fail(t)
  PROVE  Inv'
<1> DEFINE R == IF cur[t] \in locks[t] THEN RequestsOf(cur[t]) ELSE {}
<1>0. /\ pc[t] = "fail" /\ pc' = [pc EXCEPT ![t] = "undoing"] /\ ureqs' = [ureqs EXCEPT ![t] = R]
      /\ UNCHANGED <<contexts, locks, late, record, cur, k, left, held, ev>>
  BY Zenon DEF Fail, getLockInfoPtr
<1>00. R \subseteq Requests /\ \A r \in R : r[1] = cur[t] /\ TxnOf(r) = t
  <2>1. cur[t] \in Infos /\ Scope[cur[t]].txn = t
    BY SMTT(60), Parts, Types DEF OwnInv, InfosOf
  <2> QED BY <2>1, RequestFacts, Zenon
<1> HIDE DEF R
<1>01. /\ pc'[t] = "undoing" /\ \A u \in Txns : u # t => pc'[u] = pc[u]
       /\ ureqs'[t] = R /\ \A u \in Procs : u # t => ureqs'[u] = ureqs[u]
  BY SMTT(60), <1>0, Types, Parts
<1>1. Contexts'
  BY <1>0, ContextsHold, ContextsKept, Zenon
<1>2. TypeOK'
  <2>1. \A u \in Txns : <<cur'[u], k'[u]>> \in Requests
    BY <1>0, Types, Zenon DEF Req
  <2>2. pc' \in [Txns -> Places] /\ ureqs' \in [Procs -> SUBSET Requests]
    BY <1>0, <1>00, Types, Zenon DEF Places
  <2> QED BY <1>0, <1>1, <2>1, <2>2, Types, TypesStep, Zenon
<1>3. ASSUME NEW u \in Txns PROVE OwnInv(u)'
  <2>1. pc'[u] \in Locking => pc[u] \in Locking
    BY SMTT(60), <1>0, <1>01 DEF Locking
  <2> QED BY SMTT(60), <1>0, <2>1, Parts, OwnKept
<1>4. ASSUME NEW u \in Txns PROVE RunningInv(u)'
  <2>1. CASE u # t
    BY ZenonT(40), <1>0, <1>01, <2>1, Parts, RunningKept DEF contexts
  <2>2. CASE u = t
    BY SMTT(60), <1>0, <1>01, <2>2, Parts DEF RunningInv, contexts
  <2> QED BY Zenon, <2>1, <2>2
<1>5. ASSUME NEW u \in Procs PROVE EvictInv(u)'
  <2>1. CASE u # t
    BY Zenon, <1>0, <1>01, <2>1, Parts, Types, EvictKept
  <2>2. CASE u = t
    <3>1. ev[t].stage = "off"
      BY <1>0, NoEviction, Zenon
    <3> QED BY <1>0, <1>00, <1>01, <2>2, <3>1, Zenon DEF EvictInv
  <2> QED BY Zenon, <2>1, <2>2
<1> QED BY <1>1, <1>2, <1>3, <1>4, <1>5, InvStep, Zenon

LEMMA ReleaseKeeps ==
  ASSUME Inv, NEW t \in Txns, NEW i \in held[t], Release(t, i)
  PROVE  Inv'
<1> DEFINE R == IF i \in locks[t] THEN RequestsOf(i) ELSE {}
<1>0. /\ pc[t] = "release" /\ pc' = [pc EXCEPT ![t] = "unlocking"] /\ ureqs' = [ureqs EXCEPT ![t] = R]
      /\ held' = [held EXCEPT ![t] = held[t] \ {i}] /\ cur' = [cur EXCEPT ![t] = i] /\ k' = [k EXCEPT ![t] = 1]
      /\ UNCHANGED <<contexts, locks, late, record, left, ev>>
  BY SMTT(60) DEF Release, getLockInfoPtr
<1>00. i \in Infos /\ Scope[i].txn = t /\ record[t] # "Running" /\ OwnInv(t)
  BY ZenonT(40), <1>0, Parts, Types DEF OwnInv, InfosOf, RunningInv
<1>01. R \subseteq Requests /\ <<i, 1>> \in Requests /\ \A r \in R : TxnOf(r) = t
  BY SMTT(60), <1>00, RequestFacts, FirstRequest
<1> HIDE DEF R
<1>02. /\ pc'[t] = "unlocking" /\ ureqs'[t] = R /\ held'[t] = held[t] \ {i} /\ cur'[t] = i /\ k'[t] = 1
       /\ \A u \in Txns : u # t => pc'[u] = pc[u] /\ held'[u] = held[u] /\ cur'[u] = cur[u] /\ k'[u] = k[u]
       /\ \A u \in Procs : u # t => ureqs'[u] = ureqs[u]
  BY ZenonT(40), <1>0, Types, Parts
<1>1. Contexts'
  BY <1>0, ContextsHold, ContextsKept, Zenon
<1>2. TypeOK'
  <2>1. ASSUME NEW u \in Txns PROVE <<cur'[u], k'[u]>> \in Requests
    BY SMTT(60), <1>01, <1>02, Types DEF Req
  <2>2. /\ pc' \in [Txns -> Places] /\ ureqs' \in [Procs -> SUBSET Requests] /\ held' \in [Txns -> SUBSET Infos]
        /\ cur' \in [Txns -> Infos] /\ k' \in [Txns -> Nat]
    BY <1>0, <1>00, <1>01, Types, Zenon DEF Places
  <2> QED BY SMTT(60), <1>0, <1>1, <2>1, <2>2, Types, TypesStep
<1>3. ASSUME NEW u \in Txns PROVE OwnInv(u)'
  <2>1. CASE u # t
    BY ZenonT(40), <1>0, <1>02, <2>1, Parts, OwnKept
  <2>2. CASE u = t
    BY SMTT(60), <1>0, <1>00, <1>02, <2>2 DEF OwnInv, InfosOf, Locking
  <2> QED BY Zenon, <2>1, <2>2
<1>4. ASSUME NEW u \in Txns PROVE RunningInv(u)'
  <2>1. CASE u # t
    BY ZenonT(40), <1>0, <1>02, <2>1, Parts, RunningKept DEF contexts
  <2>2. CASE u = t
    BY ZenonT(40), <1>0, <1>00, <2>2 DEF RunningInv
  <2> QED BY Zenon, <2>1, <2>2
<1>5. ASSUME NEW u \in Procs PROVE EvictInv(u)'
  <2>1. CASE u # t
    BY ZenonT(40), <1>0, <1>02, <2>1, Parts, Types, EvictKept
  <2>2. CASE u = t
    <3>1. ev[t].stage = "off"
      BY <1>0, NoEviction, Zenon
    <3> QED BY ZenonT(60), <1>0, <1>00, <1>01, <1>02, <2>2, <3>1 DEF EvictInv
  <2> QED BY Zenon, <2>1, <2>2
<1> QED BY <1>1, <1>2, <1>3, <1>4, <1>5, InvStep, Zenon

LEMMA ExpireKeeps == ASSUME Inv, NEW t \in Txns, Expire(t) \/ Heartbeat(t) PROVE Inv'
<1>1. late' \in [Txns -> BOOLEAN] /\ UNCHANGED <<contexts, locks, record, thread, ev, ureqs>>
  BY Types, Zenon DEF Expire, Heartbeat
<1> QED BY SMTT(60), <1>1, LateKeeps

LEMMA EvOnlyKeeps ==
  ASSUME Inv, NEW p \in Procs, NEW e \in Evictions, ev' = [ev EXCEPT ![p] = e],
         UNCHANGED <<contexts, locks, late, record, thread, ureqs>>,
         p \in Txns /\ e.stage # "off" => pc[p] = "evict",
         e.stage \in {"off", "judge", "abort", "put"}, e.stage \in {"abort", "put"} => e.victim \in Txns
  PROVE  Inv'
<1>1. /\ record' \in [Txns -> Records] /\ \A u \in Txns : record'[u] = "Running" => record[u] = "Running"
      /\ locks' \in [Txns -> SUBSET Infos] /\ \A u \in Txns : locks'[u] \subseteq locks[u]
  BY SMTT(60), Types
<1>2. {} \in SUBSET Requests /\ \A r \in {} : record'[TxnOf(r)] # "Running"
  OBVIOUS
<1>3. e.stage \notin {"unlock", "requests"}
  OBVIOUS
<1> QED BY <1>1, <1>2, <1>3, EvKeeps, Zenon

(* A round of the checker or of releaseLocks starts.                        *)
LEMMA RoundKeeps ==
  ASSUME Inv, NEW p \in Procs, NEW found \in SUBSET Txns, p \notin Txns,
         ev' = [ev EXCEPT ![p] = [stage |-> "judge", todo |-> found, victim |-> NoTxn]],
         UNCHANGED <<contexts, locks, late, record, thread, ureqs>>
  PROVE  Inv'
<1> DEFINE e == [stage |-> "judge", todo |-> found, victim |-> NoTxn]
<1>1. e \in Evictions /\ e.stage = "judge" /\ ev' = [ev EXCEPT ![p] = e]
  BY Zenon DEF Evictions, Stages
<1> HIDE DEF e
<1> QED BY <1>1, EvOnlyKeeps, Zenon

LEMMA DaemonKeeps ==
  ASSUME Inv, CheckTxnStatus \/ \E found \in SUBSET Txns : ReleaseLocks(found)
  PROVE  Inv'
<1>1. \A p \in Daemons : p \in Procs /\ p \notin Txns
  BY SMTT(60), LockAssumption DEF Procs
<1>2. CASE CheckTxnStatus
  <2> DEFINE found == {t \in Txns : locks[t] # {} /\ late[t]}
  <2>1. /\ "checker" \in Daemons /\ UNCHANGED <<contexts, locks, late, record, thread, ureqs>>
        /\ ev' = [ev EXCEPT !["checker"] = [stage |-> "judge", todo |-> found, victim |-> NoTxn]]
    BY <1>2, Zenon DEF CheckTxnStatus
  <2>2. found \in SUBSET Txns
    OBVIOUS
  <2> HIDE DEF found
  <2> QED BY <1>1, <2>1, <2>2, RoundKeeps, Zenon
<1>3. ASSUME NEW found \in SUBSET Txns, ReleaseLocks(found) PROVE Inv'
  <2>1. /\ "admin" \in Daemons /\ UNCHANGED <<contexts, locks, late, record, thread, ureqs>>
        /\ ev' = [ev EXCEPT !["admin"] = [stage |-> "judge", todo |-> found, victim |-> NoTxn]]
    BY <1>3, Zenon DEF ReleaseLocks
  <2> QED BY <1>1, <2>1, RoundKeeps, Zenon
<1> QED BY SMTT(60), <1>2, <1>3

LEMMA EvictionFacts ==
  ASSUME Inv, NEW p \in Procs
  PROVE  /\ ev[p] \in Evictions /\ (p \in Txns /\ ev[p].stage # "off" => pc[p] = "evict")
         /\ ev[p].stage \in {"abort", "put", "unlock", "requests"} => ev[p].victim \in Txns
         /\ ev[p].stage \in {"unlock", "requests"} => record[ev[p].victim] # "Running"
BY Types, Parts, Zenon DEF EvictInv

LEMMA JudgeKeeps ==
  ASSUME Inv, NEW p \in Procs, NEW v \in ev[p].todo, Judge(p, v)
  PROVE  Inv'
<1>1. PICK s \in {"abort", "judge"} :
        ev' = [ev EXCEPT ![p] = [stage |-> s, todo |-> ev[p].todo \ {v}, victim |-> v]]
  BY Zenon DEF Judge
<1> DEFINE e == [stage |-> s, todo |-> ev[p].todo \ {v}, victim |-> v]
<1>2. ev[p].stage = "judge" /\ UNCHANGED <<contexts, locks, late, record, thread, ureqs>>
  BY SMTT(60) DEF Judge
<1>3. e \in Evictions /\ e.stage = s /\ e.victim = v /\ v \in Txns /\ ev' = [ev EXCEPT ![p] = e]
  BY SMTT(60), <1>1, EvictionFacts DEF Evictions, Stages
<1> HIDE DEF e
<1>4. p \in Txns => pc[p] = "evict"
  BY SMTT(60), <1>2, EvictionFacts
<1> QED BY <1>2, <1>3, <1>4, EvOnlyKeeps, Zenon

LEMMA JudgedAllKeeps ==
  ASSUME Inv, NEW p \in Procs, JudgedAll(p)
  PROVE  Inv'
<1>1. Off \in Evictions /\ Off.stage = "off"
  BY Zenon DEF Off, Evictions, Stages
<1>2. ev' = [ev EXCEPT ![p] = Off] /\ UNCHANGED <<contexts, locks, late, record, thread, ureqs>>
  BY Zenon DEF JudgedAll
<1> QED BY <1>1, <1>2, EvOnlyKeeps, Zenon

LEMMA AbortTxnKeeps ==
  ASSUME Inv, NEW p \in Procs, AbortTxn(p)
  PROVE  Inv'
<1> DEFINE v == ev[p].victim
<1>0. v \in Txns /\ ev[p].stage \in {"abort", "put"} /\ UNCHANGED <<contexts, locks, late, thread, ureqs>>
  BY EvictionFacts, Zenon DEF AbortTxn
<1>1. PICK s \in {"unlock", "judge", "put"} :
        /\ ev' = [ev EXCEPT ![p] = [ev[p] EXCEPT !.stage = s]]
        /\ \/ record' = [record EXCEPT ![v] = "Aborted"]
           \/ record' = record /\ (s # "put" => record[v] # "Running")
  BY Zenon DEF AbortTxn
<1>2. /\ record' \in [Txns -> Records] /\ (s # "put" => record'[v] # "Running")
      /\ \A u \in Txns : record'[u] = "Running" => record[u] = "Running"
  BY <1>0, <1>1, Types, Zenon DEF Records
<1> DEFINE e == [ev[p] EXCEPT !.stage = s]
<1>3. e \in Evictions /\ e.stage = s /\ e.victim = v /\ ev' = [ev EXCEPT ![p] = e]
  BY <1>1, EvictionFacts, Zenon DEF Evictions, Stages
<1> HIDE DEF e, v
<1>4. /\ locks' \in [Txns -> SUBSET Infos] /\ \A u \in Txns : locks'[u] \subseteq locks[u]
      /\ {} \in SUBSET Requests /\ \A r \in {} : record'[TxnOf(r)] # "Running"
  BY SMTT(60), <1>0, Types
<1>5. p \in Txns => pc[p] = "evict"
  BY SMTT(60), <1>0, EvictionFacts
<1> QED BY <1>0, <1>2, <1>3, <1>4, <1>5, EvKeeps, Zenon

LEMMA UnlockTxnKeeps ==
  ASSUME Inv, NEW p \in Procs, UnlockTxn(p)
  PROVE  Inv'
<1> DEFINE v == ev[p].victim
           R == UNION {RequestsOf(i) : i \in locks[v]}
           e == [ev[p] EXCEPT !.stage = "requests"]
<1>0. /\ v \in Txns /\ record[v] # "Running" /\ ev[p].stage = "unlock"
      /\ ureqs' = [ureqs EXCEPT ![p] = R] /\ locks' = [locks EXCEPT ![v] = {}]
      /\ ev' = [ev EXCEPT ![p] = e] /\ UNCHANGED <<contexts, late, record, thread>>
  BY EvictionFacts, Zenon DEF UnlockTxn
<1>1. R \in SUBSET Requests /\ \A r \in R : TxnOf(r) = v
  <2>1. \A i \in locks[v] : i \in Infos /\ Scope[i].txn = v
    BY <1>0, Parts, Types, Zenon DEF OwnInv, InfosOf
  <2>2. \A i \in locks[v] : RequestsOf(i) \subseteq Requests /\ \A r \in RequestsOf(i) : TxnOf(r) = v
    BY <2>1, RequestFacts
  <2> QED BY <2>2, Zenon
<1>2. e \in Evictions /\ e.stage = "requests" /\ e.victim = v
  BY EvictionFacts, Zenon DEF Evictions, Stages
<1>3. locks' \in [Txns -> SUBSET Infos] /\ \A u \in Txns : locks'[u] \subseteq locks[u]
  BY <1>0, Types, Zenon
<1> HIDE DEF e, v, R
<1>4. /\ record' \in [Txns -> Records] /\ \A u \in Txns : record'[u] = "Running" => record[u] = "Running"
      /\ \A r \in R : record'[TxnOf(r)] # "Running"
  BY <1>0, <1>1, Types, Zenon
<1>5. p \in Txns => pc[p] = "evict"
  BY <1>0, EvictionFacts, Zenon
<1>6. record'[v] # "Running"
  BY <1>0, Zenon
<1> QED BY <1>0, <1>1, <1>2, <1>3, <1>4, <1>5, <1>6, EvKeeps, Zenon

LEMMA EvictedKeeps ==
  ASSUME Inv, NEW p \in Procs, Evicted(p)
  PROVE  Inv'
<1> DEFINE e == [ev[p] EXCEPT !.stage = "judge"]
<1>0. /\ ev[p].stage = "requests" /\ ev' = [ev EXCEPT ![p] = e]
      /\ UNCHANGED <<contexts, locks, late, record, thread, ureqs>>
  BY Zenon DEF Evicted
<1>1. e \in Evictions /\ e.stage = "judge"
  BY EvictionFacts, Zenon DEF Evictions, Stages
<1> HIDE DEF e
<1>2. p \in Txns => pc[p] = "evict"
  BY <1>0, EvictionFacts, Zenon
<1> QED BY <1>0, <1>1, <1>2, EvOnlyKeeps, Zenon

LEMMA AbortThrowsKeeps ==
  ASSUME Inv, NEW p \in Procs, AbortThrows(p)
  PROVE  Inv'
<1>0. /\ ev[p].stage \in {"abort", "put"} /\ ev' = [ev EXCEPT ![p] = Off] /\ (p \in Txns => pc[p] = "evict")
      /\ pc' = pc \/ pc' = [pc EXCEPT ![p] = "abort"]
      /\ p \in Txns => pc' = [pc EXCEPT ![p] = "abort"]
      /\ UNCHANGED <<contexts, locks, late, record, cur, k, left, held, ureqs>>
  BY EvictionFacts, Zenon DEF AbortThrows
<1>01. Off \in Evictions /\ Off.stage = "off"
  BY Zenon DEF Off, Evictions, Stages
<1>02. /\ \A u \in Txns : IF u = p THEN pc'[u] = "abort" ELSE pc'[u] = pc[u]
       /\ ev'[p] = Off /\ \A u \in Procs : u # p => ev'[u] = ev[u]
  BY <1>0, Types, Zenon
<1>1. Contexts'
  BY <1>0, ContextsHold, ContextsKept, Zenon
<1>2. TypeOK'
  <2>1. \A u \in Txns : <<cur'[u], k'[u]>> \in Requests
    BY SMTT(60), <1>0, Types DEF Req
  <2>2. pc' \in [Txns -> Places] /\ ev' \in [Procs -> Evictions]
    BY SMTT(60), <1>0, <1>01, Types DEF Places
  <2> QED BY <1>0, <1>1, <2>1, <2>2, Types, TypesStep, Zenon
<1>3. ASSUME NEW u \in Txns PROVE OwnInv(u)'
  <2>1. pc'[u] \in Locking => pc[u] \in Locking
    BY SMTT(60), <1>02 DEF Locking
  <2> QED BY ZenonT(40), <1>0, <2>1, Parts, OwnKept
<1>4. ASSUME NEW u \in Txns PROVE RunningInv(u)'
  <2>1. CASE u # p
    BY ZenonT(40), <1>0, <1>02, <2>1, Parts, RunningKept DEF contexts
  <2>2. CASE u = p
    BY SMTT(60), <1>0, <1>02, <2>2, Parts DEF RunningInv, contexts
  <2> QED BY Zenon, <2>1, <2>2
<1>5. ASSUME NEW u \in Procs PROVE EvictInv(u)'
  <2>1. CASE u # p
    BY SMTT(60), <1>0, <1>02, <2>1, Parts, Types, EvictKept
  <2>2. CASE u = p
    <3>1. EvictInv(p)
      BY Parts, Zenon
    <3>2. \A r \in ureqs[p] : TxnOf(r) \in Txns
      BY SMTT(60), Types, RequestFacts
    <3>3. \A r \in ureqs[p] : record[TxnOf(r)] # "Running"
      BY <1>0, <3>1, <3>2, Zenon DEF EvictInv
    <3> QED BY <1>0, <1>01, <1>02, <2>2, <3>3, Zenon DEF EvictInv
  <2> QED BY ZenonT(60), <2>1, <2>2
<1> QED BY <1>1, <1>2, <1>3, <1>4, <1>5, InvStep, Zenon

LEMMA UnlockReqKeeps ==
  ASSUME Inv, NEW p \in Procs, NEW r \in ureqs[p], UnlockReq(p, r)
  PROVE  Inv'
<1>0. /\ Unlock(r, "INIT") /\ ureqs' = [ureqs EXCEPT ![p] = ureqs[p] \ {r}] /\ r \in Requests
      /\ UNCHANGED <<locks, late, record, ev, pc, cur, k, left, held>>
  BY SMTT(60), Types DEF UnlockReq, thread
<1>1. Contexts'
  BY <1>0, ContextsHold, UnlockKeeps, ZenonT(60)
<1>2. TypeOK'
  <2>1. \A u \in Txns : <<cur'[u], k'[u]>> \in Requests
    BY <1>0, Types, Zenon DEF Req
  <2>2. ureqs' \in [Procs -> SUBSET Requests]
    BY <1>0, Types, Zenon
  <2> QED BY SMTT(60), <1>0, <1>1, <2>1, <2>2, Types, TypesStep
<1>3. ASSUME NEW u \in Txns PROVE OwnInv(u)'
  BY <1>0, Parts, OwnKept, Zenon
<1>4. ASSUME NEW u \in Txns PROVE RunningInv(u)'
  <2>1. ASSUME record[u] = "Running", TxnOf(r) = u PROVE r[1] \notin held[u] /\ pc[u] \in {"undoing", "undo"}
    <3>1. p = u /\ pc[u] \in {"undoing", "undo"} /\ r[1] = cur[u]
      BY SMTT(60), <2>1, Parts DEF EvictInv
    <3> QED BY <3>1, Parts, ZenonT(60) DEF OwnInv, Locking
  <2> QED BY <1>0, <2>1, UnlockKeepsRunning, Zenon
<1>5. ASSUME NEW u \in Procs PROVE EvictInv(u)'
  <2>1. ureqs'[u] \subseteq ureqs[u]
    BY <1>0, Types, ZenonT(60)
  <2> QED BY <1>0, <2>1, Parts, Types, EvictKept, Zenon
<1> QED BY <1>1, <1>2, <1>3, <1>4, <1>5, InvStep, Zenon

-----------------------------------------------------------------------------
LEMMA InitHolds == Init => Inv
<1> SUFFICES ASSUME Init PROVE Inv
  OBVIOUS
<1> USE LockAssumption DEF Init
<1>1. ASSUME NEW t \in Txns PROVE cur[t] \in Infos /\ Scope[cur[t]].txn = t
  BY SMTT(60) DEF Init
<1>2. TypeOK
  <2>1. \A t \in Txns : Req(t) \in Requests
    BY Zenon, <1>1, FirstRequest DEF Req
  <2> QED BY SMTT(60), <1>1, <2>1 DEF TypeOK, Off
<1>3. ListsMatch /\ WaitersHaveHolders /\ Ordered
  <2>1. ListsMatch
    BY SMTT(60) DEF ListsMatch
  <2>2. WaitersHaveHolders
    BY SMTT(60) DEF WaitersHaveHolders
  <2>3. Ordered
    BY SMTT(60) DEF Ordered
  <2> QED BY ZenonT(60), <2>1, <2>2, <2>3
<1>4. ASSUME NEW t \in Txns PROVE OwnInv(t) /\ RunningInv(t)
  BY SMTT(60), <1>1 DEF OwnInv, RunningInv, InfosOf, Locking
<1>5. ASSUME NEW p \in Procs PROVE EvictInv(p)
  BY SMTT(60) DEF EvictInv, Off
<1> QED BY SMTT(60), <1>2, <1>3, <1>4, <1>5 DEF Inv, LockInv

LEMMA StepKeeps == ASSUME Inv, [Next]_vars PROVE Inv'
<1>1. CASE UNCHANGED vars
  <2>1. Contexts' /\ TypeOK'
    BY SMTT(60), <1>1, ContextsHold, ContextsKept DEF vars, Inv, TypeOK, Req, thread, contexts
  <2>2. \A t \in Txns : OwnInv(t)' /\ RunningInv(t)'
    BY ZenonT(40), <1>1 DEF Inv, LockInv, OwnInv, RunningInv, Req, vars, thread, contexts
  <2>3. \A p \in Procs : EvictInv(p)'
    BY ZenonT(40), <1>1 DEF Inv, LockInv, EvictInv, vars, thread
  <2> QED BY SMTT(60), <2>1, <2>2, <2>3, InvStep
<1>2. ASSUME NEW t \in Txns,
             \/ \E i \in left[t] : Register(t, i)
             \/ \E noWait \in BOOLEAN : Request(t, noWait)
             \/ Status(t) \/ Wake(t) \/ Woken(t) \/ GiveUp(t) \/ TimedOut(t) \/ Fail(t) \/ Unregister(t) \/ Unlocked(t)
             \/ AssertLocks(t) \/ Compare(t) \/ Commit(t) \/ Abort(t) \/ \E i \in held[t] : Release(t, i)
             \/ Expire(t) \/ Heartbeat(t)
      PROVE  Inv'
  BY ZenonT(40), <1>2, RegisterKeeps, RequestKeeps, StatusKeeps, WakeKeeps, WokenKeeps, GiveUpKeeps,
     TimedOutKeeps,
     FailKeeps, UnregisterKeeps, UnlockedKeeps, AssertLocksKeeps, CompareKeeps, EndKeeps, ReleaseKeeps, ExpireKeeps
     DEF Commit, Abort
<1>3. CASE CheckTxnStatus \/ \E found \in SUBSET Txns : ReleaseLocks(found)
  BY SMTT(60), <1>3, DaemonKeeps
<1>4. ASSUME NEW p \in Procs,
             \/ \E v \in ev[p].todo : Judge(p, v)
             \/ JudgedAll(p) \/ AbortTxn(p) \/ AbortThrows(p) \/ UnlockTxn(p) \/ Evicted(p)
             \/ \E r \in ureqs[p] : UnlockReq(p, r)
      PROVE  Inv'
  BY <1>4, JudgeKeeps, JudgedAllKeeps, AbortTxnKeeps, AbortThrowsKeeps, UnlockTxnKeeps, EvictedKeeps, UnlockReqKeeps, Zenon
<1> QED BY ZenonT(40), <1>1, <1>2, <1>3, <1>4 DEF Next

(* The invariant the other theorems rest on is inductive: waiting lists are *)
(* ordered, an eviction has ended its victim before it unlocks it, and a    *)
(* transaction that has not ended has what it locked so far.                *)
THEOREM LockInvariant == Spec => []LockInv
<1>1. Inv /\ [Next]_vars => Inv'
  BY StepKeeps, Zenon
<1>2. Inv => LockInv
  BY Zenon DEF Inv
<1> QED BY <1>1, <1>2, InitHolds, PTL DEF Spec

(* Every variable of the lock manager keeps its type; the thread of a       *)
(* transaction is always at a request of the LockInfo it works on.          *)
THEOREM TypeCorrect == Spec => []TypeOK
<1>1. Inv /\ [Next]_vars => Inv'
  BY StepKeeps, Zenon
<1>2. Inv => TypeOK
  BY Zenon DEF Inv
<1> QED BY <1>1, <1>2, InitHolds, PTL DEF Spec

(* The granted and the waiting list hold exactly the requests whose status  *)
(* says so, through timeouts, cancellations and evictions.                  *)
THEOREM ListsMatchStatuses == Spec => []ListsMatch
<1>1. Inv /\ [Next]_vars => Inv'
  BY StepKeeps, Zenon
<1>2. Inv => ListsMatch
  BY Zenon DEF Inv
<1> QED BY <1>1, <1>2, InitHolds, PTL DEF Spec

(* A request in a waiting list has a holder in front of it, whose unlock    *)
(* schedules the list.                                                      *)
THEOREM NobodyWaitsForNobody == Spec => []WaitersHaveHolders
<1>1. Inv /\ [Next]_vars => Inv'
  BY StepKeeps, Zenon
<1>2. Inv => WaitersHaveHolders
  BY SMTT(60) DEF Inv
<1> QED BY <1>1, <1>2, InitHolds, PTL DEF Spec

(* On ByteKV the record of a transaction changes while it is Running.       *)
LEMMA EndsOnce ==
  ASSUME Inv, [Next]_vars, NEW t \in Txns, Metastore # "FDB",
         record[t] # "Finished", record'[t] = "Finished"
  PROVE  record[t] = "Running"
<1>1. CASE record' = record
  BY <1>1, Zenon
<1>2. ASSUME NEW u \in Txns, Commit(u) \/ Abort(u) PROVE record[t] = "Running"
  <2>1. pc[u] \notin {"commitPut", "abortPut"}
    BY SMTT(60), Types DEF Places
  <2>2. PICK s \in Records : record' = IF record[u] = "Running" THEN [record EXCEPT ![u] = s] ELSE record
    BY <1>2, <2>1, Zenon DEF Commit, Abort, End, Records
  <2> QED BY SMTT(60), <2>2, Types
<1>3. ASSUME NEW p \in Procs, AbortTxn(p) PROVE record[t] = "Running"
  <2>1. record' = record \/ record' = [record EXCEPT ![ev[p].victim] = "Aborted"]
    BY <1>3, Zenon DEF AbortTxn
  <2> QED BY SMTT(60), <2>1, Types
<1>4. ASSUME NEW u \in Txns,
             \/ \E i \in left[u] : Register(u, i)
             \/ \E noWait \in BOOLEAN : Request(u, noWait)
             \/ Status(u) \/ Wake(u) \/ Woken(u) \/ GiveUp(u) \/ TimedOut(u) \/ Fail(u) \/ Unregister(u) \/ Unlocked(u)
             \/ AssertLocks(u) \/ Compare(u) \/ \E i \in held[u] : Release(u, i)
             \/ Expire(u) \/ Heartbeat(u)
      PROVE  record' = record
  BY ZenonT(40), <1>4 DEF Register, Request, Status, Wake, Woken, GiveUp, TimedOut, Fail, Unregister, Unlocked,
     AssertLocks, Compare, Release, Expire, Heartbeat
<1>5. CASE CheckTxnStatus \/ \E found \in SUBSET Txns : ReleaseLocks(found)
  BY Zenon, <1>1, <1>5 DEF CheckTxnStatus, ReleaseLocks
<1>6. ASSUME NEW p \in Procs,
             \/ \E v \in ev[p].todo : Judge(p, v)
             \/ JudgedAll(p) \/ AbortThrows(p) \/ UnlockTxn(p) \/ Evicted(p)
             \/ \E r \in ureqs[p] : UnlockReq(p, r)
      PROVE  record' = record
  BY <1>6, Zenon DEF Judge, JudgedAll, AbortThrows, UnlockTxn, Evicted, UnlockReq
<1>7. CASE UNCHANGED vars
  BY <1>1, <1>7, Zenon DEF vars
<1> QED BY ZenonT(40), <1>1, <1>2, <1>3, <1>4, <1>5, <1>6, <1>7 DEF Next

(* A transaction commits only while all of its locks are granted, whoever   *)
(* evicts it and whenever; on FDB, if its record is Running when the commit *)
(* puts it.                                                                 *)
THEOREM CommitsAreLocked == Spec => CommitsHoldLocks
<1>1. Inv /\ [Next]_vars => Inv'
  BY StepKeeps, Zenon
<1>2. Inv /\ [Next]_vars
      => [\A t \in Txns :
            /\ record[t] # "Finished" /\ record'[t] = "Finished"
            /\ Metastore = "FDB" => record[t] = "Running"
            => \A i \in held[t] : RequestsOf(i) \subseteq granted]_vars
  BY EndsOnce, Zenon DEF Inv, LockInv, RunningInv
<1> QED BY <1>1, <1>2, InitHolds, PTL DEF Spec, CommitsHoldLocks
-----------------------------------------------------------------------------
LEMMA UnlockExclusive ==
  ASSUME Contexts, Exclusive, NEW r \in Requests, NEW s \in {"INIT", "TIMEOUT"}, Unlock(r, s)
  PROVE  Exclusive'
<1> USE DEF Contexts
<1>1. CASE status[r] = "OK"
  <2>1. PICK G \in SUBSET Waiters(EntityOf(r)) :
             Scheduled(G, granted \ {r}, EntityOf(r)) /\ granted' = (granted \ {r}) \cup G
    BY Zenon, <1>1 DEF Unlock
  <2>2. G \subseteq waiting /\ \A w \in G : EntityOf(w) = EntityOf(r)
    BY Zenon DEF Waiters
  <2>3. \A w \in G : \A q \in (granted \ {r}) \cup (G \cap ahead[w]) : ~ conflicts(w, q)
    BY <2>1, Zenon DEF Scheduled
  <2>4. ASSUME NEW q \in granted', NEW w \in G, q # w PROVE ~ conflicts(q, w) /\ ~ conflicts(w, q)
    <3>1. q \in Requests /\ w \in Requests
      BY <2>1, <2>2, Zenon
    <3>2. CASE q \in granted \ {r}
      BY <2>3, <3>1, <3>2, ConflictsSymmetric, Zenon
    <3>3. CASE q \in G
      <4>1. q \in ahead[w] \/ w \in ahead[q]
        BY <2>2, <2>4, <3>3, Zenon DEF Ordered
      <4> QED BY <2>3, <3>1, <3>3, <4>1, ConflictsSymmetric, Zenon
    <3> QED BY <2>1, <2>4, <3>2, <3>3, Zenon
  <2> QED BY <2>1, <2>4, Zenon DEF Exclusive
<1>2. CASE status[r] # "OK"
  <2>1. granted' = granted
    BY <1>2, Zenon DEF Unlock
  <2> QED BY <2>1, Zenon DEF Exclusive
<1> QED BY <1>1, <1>2, Zenon

LEMMA RequestExclusive ==
  ASSUME NoUpgrade, Contexts, Exclusive, NEW r \in Requests, Grantable(r), granted' = granted \cup {r}
  PROVE  Exclusive'
<1> USE DEF Contexts
<1>1. ASSUME NEW q \in granted, TxnOf(q) # TxnOf(r) PROVE ~ conflicts(r, q)
  <2>1. CASE \E p \in Holders(EntityOf(r)) : TxnOf(p) = TxnOf(r)
    <3>1. PICK p \in granted : EntityOf(p) = EntityOf(r) /\ TxnOf(p) = TxnOf(r)
      BY <2>1, Zenon DEF Holders
    <3>2. ModeOf(p) = ModeOf(r)
      BY <3>1, Zenon DEF NoUpgrade
    <3>3. ~ conflicts(p, q)
      BY SMTT(60), <1>1, <3>1 DEF Exclusive
    <3> QED BY <3>1, <3>2, <3>3, Zenon DEF conflicts
  <2>2. CASE \A p \in granted : ~ conflicts(r, p)
    BY SMTT(60), <2>2
  <2> QED BY <2>1, <2>2, Zenon DEF Grantable
<1>2. ASSUME NEW q \in granted, TxnOf(q) # TxnOf(r) PROVE ~ conflicts(q, r)
  BY SMTT(60), <1>1, <1>2, ConflictsSymmetric
<1> QED BY <1>1, <1>2, Zenon DEF Exclusive

LEMMA ExclusiveStep == ASSUME NoUpgrade, Inv, Exclusive, [Next]_vars PROVE Exclusive'
<1>1. CASE granted' = granted
  BY <1>1, Zenon DEF Exclusive
<1>2. ASSUME NEW t \in Txns, NEW noWait \in BOOLEAN, Request(t, noWait) PROVE Exclusive'
  <2>1. Req(t) \in Requests
    BY Zenon DEF Inv, TypeOK
  <2>2. granted' = granted \/ (Grantable(Req(t)) /\ granted' = granted \cup {Req(t)})
    BY SMTT(60), <1>2 DEF Request
  <2> QED BY SMTT(60), <1>1, <2>1, <2>2, RequestExclusive, ContextsHold
<1>3. ASSUME NEW t \in Txns, TimedOut(t) PROVE Exclusive'
  <2>1. Req(t) \in Requests /\ Unlock(Req(t), "TIMEOUT")
    BY SMTT(60), <1>3 DEF Inv, TypeOK, TimedOut
  <2> QED BY <2>1, UnlockExclusive, ContextsHold, Zenon
<1>4. ASSUME NEW p \in Procs, NEW r \in ureqs[p], UnlockReq(p, r) PROVE Exclusive'
  <2>1. r \in Requests /\ Unlock(r, "INIT")
    BY SMTT(60), <1>4 DEF Inv, TypeOK, UnlockReq
  <2> QED BY <2>1, UnlockExclusive, ContextsHold, Zenon
<1>5. CASE UNCHANGED vars
  BY SMTT(60), <1>1, <1>5 DEF vars, contexts
<1>6. ASSUME NEW t \in Txns,
             \/ \E i \in left[t] : Register(t, i)
             \/ Status(t) \/ Wake(t) \/ Woken(t) \/ GiveUp(t) \/ Fail(t) \/ Unregister(t) \/ Unlocked(t)
             \/ AssertLocks(t) \/ Compare(t) \/ Commit(t) \/ Abort(t) \/ \E i \in held[t] : Release(t, i)
             \/ Expire(t) \/ Heartbeat(t)
      PROVE  granted' = granted
  BY ZenonT(40), <1>6 DEF contexts, Register, Status, Wake, Woken, GiveUp, Fail, Unregister, Unlocked,
     AssertLocks, Compare, Commit, Abort, End, Release, Expire, Heartbeat
<1>7. CASE CheckTxnStatus \/ \E found \in SUBSET Txns : ReleaseLocks(found)
  BY Zenon, <1>1, <1>7 DEF contexts, CheckTxnStatus, ReleaseLocks
<1>8. ASSUME NEW p \in Procs,
             \/ \E v \in ev[p].todo : Judge(p, v)
             \/ JudgedAll(p) \/ AbortTxn(p) \/ AbortThrows(p) \/ UnlockTxn(p) \/ Evicted(p)
      PROVE  granted' = granted
  BY <1>8, Zenon DEF contexts, Judge, JudgedAll, AbortTxn, AbortThrows, UnlockTxn, Evicted
<1> QED BY Zenon, <1>1, <1>2, <1>3, <1>4, <1>5, <1>6, <1>7, <1>8 DEF Next

(* Two transactions never hold conflicting locks on one entity, as long as  *)
(* no transaction asks for two modes on one entity: the order of the        *)
(* waiting list is what makes one pass of scheduleWaitingRequests sound.    *)
THEOREM LocksAreExclusive == ASSUME NoUpgrade PROVE Spec => []Exclusive
<1>1. Inv /\ Exclusive /\ [Next]_vars => Inv' /\ Exclusive'
  BY StepKeeps, ExclusiveStep, Zenon
<1>2. Init => Exclusive
  BY Zenon DEF Init, Exclusive
<1> QED BY <1>1, <1>2, InitHolds, PTL DEF Spec
=============================================================================
