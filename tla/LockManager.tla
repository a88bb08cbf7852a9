---------------------------- MODULE LockManager -----------------------------
(***************************************************************************)
(* The lock manager of one server: locks on a table, its partitions and    *)
(* its buckets, taken for transactions, evicted when a transaction does    *)
(* not renew them, and the transactions that use them, from lock() to the  *)
(* commit.                                                                 *)
(*                                                                         *)
(* A step is a critical section of a mutex (a stripe of lock_maps or of    *)
(* txn_locks_map, a LockRequest) or a call of the catalog.  Time is the    *)
(* flag late: expire_time is over.  A LockInfo is an element of Infos; its *)
(* k-th request is <<i, k>>.  Every list of a LockContext is a set here;   *)
(* ahead keeps the order of the waiting list.                              *)
(***************************************************************************)
EXTENDS Integers, Sequences, FiniteSets

CONSTANTS Txns, NoTxn,
          Infos,        \* LockInfos
          Scope,        \* info -> [txn, mode, partition, bucket]
          None,         \* no partition, no bucket
          Metastore,    \* of the catalog: its putCAS is atomic, or is not
          Daemons,      \* who evicts besides a waiting transaction
          Overlap       \* bound: whether two of them evict at the same time

Modes == {"IS", "IX", "S", "X"}

ASSUME LockAssumption ==
  /\ NoTxn \notin Txns /\ Metastore \in {"ByteKV", "FDB"}
  /\ Daemons \subseteq {"checker", "admin"} /\ Daemons \cap Txns = {}
  /\ Overlap \in BOOLEAN
  /\ \A i \in Infos : Scope[i].txn \in Txns /\ Scope[i].mode \in {"S", "X"}
  /\ \A t \in Txns : \E i \in Infos : Scope[i].txn = t

(* LockInfo::getLockRequests: the mode on the finest level, its intention   *)
(* mode on the levels above.                                                *)
Entity(p, b) == [partition |-> p, bucket |-> b]
getLockRequests(i) ==
  LET p == Scope[i].partition
      b == Scope[i].bucket
      intent == IF Scope[i].mode = "S" THEN "IS" ELSE "IX"
      On(e) == [entity |-> e, mode |-> IF e = Entity(p, b) THEN Scope[i].mode ELSE intent]
  IN  <<On(Entity(None, None))>>
      \o (IF p # None THEN <<On(Entity(p, None))>> ELSE <<>>)
      \o (IF b # None THEN <<On(Entity(p, b))>> ELSE <<>>)

RequestsOf(i) == {i} \X DOMAIN getLockRequests(i)
Requests == UNION {RequestsOf(i) : i \in Infos}
TxnOf(r) == Scope[r[1]].txn
ModeOf(r) == getLockRequests(r[1])[r[2]].mode
EntityOf(r) == getLockRequests(r[1])[r[2]].entity

(* conflictTable                                                            *)
Against_SharedOnly(m) ==
  CASE m = "IS" -> {"X"} [] m = "IX" -> {"S", "X"}
    [] m = "S" -> {"IX", "X"} [] m = "X" -> {"S", "X"}
Against(m) ==
  CASE m = "IS" -> {"X"} [] m = "IX" -> {"S", "X"}
    [] m = "S" -> {"IX", "X"} [] m = "X" -> Modes
conflicts(q, r) == EntityOf(q) = EntityOf(r) /\ ModeOf(r) \in Against(ModeOf(q))

VARIABLES
  granted, waiting,   \* requests in the lists of the LockContexts
  ahead,    \* request -> the requests ahead of it in the waiting list
  status,   \* request -> LockStatus
  locks,    \* txn_locks_map: transaction -> its registered infos
  late,     \* transaction -> its expire_time is over
  record,   \* transaction -> the status of its record in the catalog
  pc, cur, k,   \* transaction -> where its thread is, in which info and request
  left,     \* transaction -> infos it has not locked yet
  held,     \* transaction -> infos it locked and has not unlocked
  ev,       \* process -> its eviction: stage, victims to come, present victim
  ureqs     \* process -> requests it is about to unlock

contexts == <<granted, waiting, ahead, status>>
thread   == <<pc, cur, k, left, held>>
vars     == <<contexts, locks, late, record, thread, ev, ureqs>>

Procs == Txns \cup Daemons
Req(t) == <<cur[t], k[t]>>
Off == [stage |-> "off", todo |-> {}, victim |-> NoTxn]

Init ==
  /\ granted = {} /\ waiting = {}
  /\ ahead = [r \in Requests |-> {}]
  /\ status = [r \in Requests |-> "INIT"]
  /\ locks = [t \in Txns |-> {}]
  /\ late = [t \in Txns |-> FALSE]
  /\ record = [t \in Txns |-> "Running"]
  /\ pc = [t \in Txns |-> "idle"]
  /\ cur = [t \in Txns |-> CHOOSE i \in Infos : Scope[i].txn = t]
  /\ k = [t \in Txns |-> 1]
  /\ left = [t \in Txns |-> {i \in Infos : Scope[i].txn = t}]
  /\ held = [t \in Txns |-> {}]
  /\ ev = [p \in Procs |-> Off]
  /\ ureqs = [p \in Procs |-> {}]
-----------------------------------------------------------------------------
(* LockContext.                                                             *)
Holders(e) == {r \in granted : EntityOf(r) = e}
Waiters(e) == {r \in waiting : EntityOf(r) = e}

(* lock(): a transaction that holds a lock on the entity gets any other.    *)
Grantable(r) ==
  \/ \E q \in Holders(EntityOf(r)) : TxnOf(q) = TxnOf(r)
  \/ Waiters(EntityOf(r)) = {} /\ \A q \in granted : ~ conflicts(r, q)

(* scheduleWaitingRequests, with g granted: the waiting list is passed once *)
(* and every request that fits what is granted by then is granted.          *)
Scheduled(G, g, e) ==
  \A r \in Waiters(e) : r \in G <=> \A q \in g \cup (G \cap ahead[r]) : ~ conflicts(r, q)

Dequeue(gone) ==
  /\ waiting' = waiting \ gone
  /\ ahead' = [r \in Requests |-> IF r \in gone THEN {} ELSE ahead[r] \ gone]

Unlock_NoSchedule(r, s) ==
  /\ IF status[r] = "OK" THEN granted' = granted \ {r} ELSE UNCHANGED granted
  /\ IF status[r] = "WAITING" THEN Dequeue({r}) ELSE UNCHANGED <<waiting, ahead>>
  /\ status' = [status EXCEPT ![r] = IF s = "INIT" /\ @ = "WAITING" THEN "CANCELLED"
                                     ELSE IF s = "INIT" /\ @ # "OK" THEN @ ELSE s]

(* unlock(): s is INIT, or TIMEOUT for a lock() that gives up.              *)
Unlock(r, s) ==
  \/ /\ status[r] = "OK"
     /\ \E G \in SUBSET Waiters(EntityOf(r)) :
          /\ Scheduled(G, granted \ {r}, EntityOf(r))
          /\ granted' = (granted \ {r}) \cup G
          /\ Dequeue(G)
          /\ status' = [q \in Requests |-> IF q = r THEN s
                                          ELSE IF q \in G THEN "OK" ELSE status[q]]
  \/ /\ status[r] = "WAITING"
     /\ Dequeue({r})
     /\ status' = [status EXCEPT ![r] = IF s = "INIT" THEN "CANCELLED" ELSE s]
     /\ UNCHANGED granted
  \/ /\ status[r] \notin {"OK", "WAITING"}
     /\ status' = [status EXCEPT ![r] = IF s = "INIT" THEN @ ELSE s]
     /\ UNCHANGED <<granted, waiting, ahead>>
-----------------------------------------------------------------------------
(* LockManager::lock(info): register, then lock the requests in order.      *)
Register(t, i) ==
  /\ pc[t] = "idle" /\ i \in left[t]
  /\ locks' = [locks EXCEPT ![t] = @ \cup {i}]
  /\ late' = [late EXCEPT ![t] = FALSE]
  /\ pc' = [pc EXCEPT ![t] = "request"]
  /\ cur' = [cur EXCEPT ![t] = i] /\ k' = [k EXCEPT ![t] = 1]
  /\ left' = [left EXCEPT ![t] = @ \ {i}]
  /\ UNCHANGED <<contexts, record, held, ev, ureqs>>

(* LockManager::lock(request); when it is not granted, the holders are the  *)
(* candidates for eviction.                                                 *)
Request(t, noWait) ==
  LET r == Req(t)
  IN  /\ pc[t] = "request" /\ status[r] = "INIT"
      /\ pc' = [pc EXCEPT ![t] = "evict"]
      /\ IF Grantable(r)
           THEN /\ granted' = granted \cup {r}
                /\ status' = [status EXCEPT ![r] = "OK"]
                /\ UNCHANGED <<waiting, ahead, ev>>
           ELSE /\ IF noWait
                     THEN /\ status' = [status EXCEPT ![r] = "TIMEOUT"]
                          /\ UNCHANGED <<waiting, ahead>>
                     ELSE /\ status' = [status EXCEPT ![r] = "WAITING"]
                          /\ waiting' = waiting \cup {r}
                          /\ ahead' = [ahead EXCEPT ![r] = Waiters(EntityOf(r))]
                /\ ev' = [ev EXCEPT ![t] = [stage |-> "judge", victim |-> NoTxn,
                                           todo |-> {TxnOf(q) : q \in Holders(EntityOf(r))}]]
                /\ UNCHANGED granted
      /\ UNCHANGED <<locks, late, record, cur, k, left, held, ureqs>>

(* What lock(info) does with a request that was locked: with time left, the *)
(* next one.                                                                *)
Advance_OneMore(t) ==
  \/ /\ k[t] <= Len(getLockRequests(cur[t]))
     /\ k' = [k EXCEPT ![t] = @ + 1]
     /\ pc' = [pc EXCEPT ![t] = "request"]
     /\ UNCHANGED held
  \/ /\ pc' = [pc EXCEPT ![t] = "fail"]
     /\ UNCHANGED <<k, held>>
Advance(t) ==
  \/ /\ k[t] < Len(getLockRequests(cur[t]))
     /\ k' = [k EXCEPT ![t] = @ + 1]
     /\ pc' = [pc EXCEPT ![t] = "request"]
     /\ UNCHANGED held
  \/ /\ k[t] = Len(getLockRequests(cur[t]))
     /\ held' = [held EXCEPT ![t] = @ \cup {cur[t]}]
     /\ pc' = [pc EXCEPT ![t] = "idle"]
     /\ UNCHANGED k
  \/ /\ pc' = [pc EXCEPT ![t] = "fail"]
     /\ UNCHANGED <<k, held>>

(* LockRequest::lock: what became of the request.                           *)
Status(t) ==
  LET s == status[Req(t)]
  IN  /\ pc[t] = "evict" /\ ev[t].stage = "off"
      /\ \/ s = "OK" /\ Advance(t)
         \/ /\ s # "OK"
            /\ pc' = [pc EXCEPT ![t] = IF s = "WAITING" THEN "wait"
                                      ELSE IF s = "TIMEOUT" THEN "fail" ELSE "abort"]
            /\ UNCHANGED <<k, held>>
      /\ UNCHANGED <<contexts, locks, late, record, cur, left, ev, ureqs>>

Wake(t) ==
  /\ pc[t] = "wait" /\ status[Req(t)] \in {"OK", "CANCELLED"}
  /\ pc' = [pc EXCEPT ![t] = "woken"]
  /\ UNCHANGED <<contexts, locks, late, record, cur, k, left, held, ev, ureqs>>

Woken(t) ==
  /\ pc[t] = "woken"
  /\ \/ status[Req(t)] # "CANCELLED" /\ Advance(t)
     \/ /\ status[Req(t)] = "CANCELLED"
        /\ pc' = [pc EXCEPT ![t] = "fail"]
        /\ UNCHANGED <<k, held>>
  /\ UNCHANGED <<contexts, locks, late, record, cur, left, ev, ureqs>>

(* wait() gives up; the request may have been granted since.                *)
GiveUp(t) ==
  /\ pc[t] = "wait" /\ status[Req(t)] \notin {"OK", "CANCELLED"}
  /\ pc' = [pc EXCEPT ![t] = "timeout"]
  /\ UNCHANGED <<contexts, locks, late, record, cur, k, left, held, ev, ureqs>>

TimedOut_StatusOnly(t) ==
  /\ pc[t] = "timeout"
  /\ status' = [status EXCEPT ![Req(t)] = "TIMEOUT"]
  /\ pc' = [pc EXCEPT ![t] = "fail"]
  /\ UNCHANGED <<granted, waiting, ahead, locks, late, record, cur, k, left, held, ev, ureqs>>
TimedOut(t) ==
  /\ pc[t] = "timeout"
  /\ Unlock(Req(t), "TIMEOUT")
  /\ pc' = [pc EXCEPT ![t] = "fail"]
  /\ UNCHANGED <<locks, late, record, cur, k, left, held, ev, ureqs>>

(* LockManager::unlock(info): look the info up, erase it, then unlock its   *)
(* requests; nothing when it is not registered any more.                    *)
getLockInfoPtr(t, i) ==
  ureqs' = [ureqs EXCEPT ![t] = IF i \in locks[t] THEN RequestsOf(i) ELSE {}]

Fail(t) ==
  /\ pc[t] = "fail"
  /\ getLockInfoPtr(t, cur[t])
  /\ pc' = [pc EXCEPT ![t] = "undoing"]
  /\ UNCHANGED <<contexts, locks, late, record, cur, k, left, held, ev>>

Unregister(t) ==
  /\ pc[t] \in {"undoing", "unlocking"}
  /\ locks' = [locks EXCEPT ![t] = @ \ {cur[t]}]
  /\ pc' = [pc EXCEPT ![t] = IF pc[t] = "undoing" THEN "undo" ELSE "unlock"]
  /\ UNCHANGED <<contexts, late, record, cur, k, left, held, ev, ureqs>>

Unlocked(t) ==
  /\ pc[t] \in {"undo", "unlock"} /\ ureqs[t] = {}
  /\ pc' = [pc EXCEPT ![t] = IF pc[t] = "undo" THEN "abort" ELSE "release"]
  /\ UNCHANGED <<contexts, locks, late, record, cur, k, left, held, ev, ureqs>>
-----------------------------------------------------------------------------
(* setTransactionRecord changes a record that is Running by putCAS.  ByteKV *)
(* compares and puts in one step; FDBClient::Put compares a snapshot, and   *)
(* puts later, whatever the record is by then.                              *)
PutsLater(v) == Metastore = "FDB" /\ record[v] = "Running"

(* The transaction: assertLockAcquired and the putCAS of its record, then   *)
(* CnchLockHolder::unlock.                                                  *)
AssertLocks(t) ==
  /\ pc[t] = "idle"
  /\ pc' = [pc EXCEPT ![t] = IF held[t] \subseteq locks[t] THEN "commit" ELSE "abort"]
  /\ UNCHANGED <<contexts, locks, late, record, cur, k, left, held, ev, ureqs>>

Compare(t) ==
  /\ pc[t] \in {"commit", "abort"} /\ PutsLater(t)
  /\ pc' = [pc EXCEPT ![t] = IF pc[t] = "commit" THEN "commitPut" ELSE "abortPut"]
  /\ UNCHANGED <<contexts, locks, late, record, cur, k, left, held, ev, ureqs>>

End(t, s) ==
  /\ record' = IF record[t] = "Running" \/ pc[t] \in {"commitPut", "abortPut"}
                 THEN [record EXCEPT ![t] = s] ELSE record
  /\ pc' = [pc EXCEPT ![t] = "release"]
  /\ UNCHANGED <<contexts, locks, late, cur, k, left, held, ev, ureqs>>

Commit(t) ==
  /\ pc[t] = "commitPut" \/ (pc[t] = "commit" /\ ~ PutsLater(t))
  /\ End(t, "Finished")
Abort(t) ==
  /\ pc[t] = "abortPut" \/ (pc[t] = "abort" /\ ~ PutsLater(t))
  /\ End(t, "Aborted")

Release(t, i) ==
  /\ pc[t] = "release"
  /\ getLockInfoPtr(t, i)
  /\ held' = [held EXCEPT ![t] = @ \ {i}]
  /\ cur' = [cur EXCEPT ![t] = i] /\ k' = [k EXCEPT ![t] = 1]
  /\ pc' = [pc EXCEPT ![t] = "unlocking"]
  /\ UNCHANGED <<contexts, locks, late, record, left, ev>>

Expire(t) ==
  /\ locks[t] # {} /\ ~ late[t]
  /\ late' = [late EXCEPT ![t] = TRUE]
  /\ UNCHANGED <<contexts, locks, record, thread, ev, ureqs>>

(* updateExpireTime, until ~CnchLockHolder.                                 *)
Heartbeat(t) ==
  /\ locks[t] # {} /\ late[t] /\ pc[t] \notin {"release", "unlocking", "unlock"}
  /\ late' = [late EXCEPT ![t] = FALSE]
  /\ UNCHANGED <<contexts, locks, record, thread, ev, ureqs>>
-----------------------------------------------------------------------------
(* Eviction.                                                                *)
Alone == \A d \in Daemons : ev[d].stage = "off"

CheckTxnStatus ==
  /\ ~ Overlap => Alone
  /\ "checker" \in Daemons /\ ev["checker"].stage = "off"
  /\ LET found == {t \in Txns : locks[t] # {} /\ late[t]}
     IN  /\ found # {}
         /\ ev' = [ev EXCEPT !["checker"] = [stage |-> "judge", todo |-> found, victim |-> NoTxn]]
  /\ UNCHANGED <<contexts, locks, late, record, thread, ureqs>>

(* releaseLocksForTable; releaseLocksForTxn is the case of one transaction. *)
ReleaseLocks(found) ==
  /\ ~ Overlap => Alone
  /\ "admin" \in Daemons /\ ev["admin"].stage = "off"
  /\ found # {} /\ found \subseteq {TxnOf(r) : r \in granted \cup waiting}
  /\ ev' = [ev EXCEPT !["admin"] = [stage |-> "judge", todo |-> found, victim |-> NoTxn]]
  /\ UNCHANGED <<contexts, locks, late, record, thread, ureqs>>

(* isTxnExpired for a waiting transaction; releaseLocksForTxn skips one     *)
(* that is not registered.                                                  *)
MayEvict(p, v) ==
  CASE p = "checker" -> TRUE
    [] p = "admin"   -> locks[v] # {}
    [] OTHER         -> locks[v] = {} \/ late[v]

Judge(p, v) ==
  /\ ev[p].stage = "judge" /\ v \in ev[p].todo
  /\ ev' = [ev EXCEPT ![p] = [stage |-> IF MayEvict(p, v) THEN "abort" ELSE "judge",
                              todo |-> @.todo \ {v}, victim |-> v]]
  /\ UNCHANGED <<contexts, locks, late, record, thread, ureqs>>

JudgedAll(p) ==
  /\ ev[p].stage = "judge" /\ ev[p].todo = {}
  /\ ev' = [ev EXCEPT ![p] = Off]
  /\ UNCHANGED <<contexts, locks, late, record, thread, ureqs>>

(* abortTxnAndReleaseLocks: a compare-and-set that is lost against the end  *)
(* of the transaction gives up; a call of the catalog that throws ends the  *)
(* lock() or the round it was made for.                                     *)
AbortTxn_UnlockOnly(p) ==
  /\ ev[p].stage = "abort"
  /\ ev' = [ev EXCEPT ![p].stage = "unlock"]
  /\ UNCHANGED <<contexts, locks, late, record, thread, ureqs>>
AbortTxn(p) ==
  LET v == ev[p].victim
  IN  /\ \/ /\ ev[p].stage = "abort" /\ PutsLater(v)
            /\ ev' = [ev EXCEPT ![p].stage = "put"]
            /\ UNCHANGED record
         \/ /\ \/ ev[p].stage = "put"
               \/ ev[p].stage = "abort" /\ record[v] = "Running" /\ ~ PutsLater(v)
            /\ record' = [record EXCEPT ![v] = "Aborted"]
            /\ ev' = [ev EXCEPT ![p].stage = "unlock"]
         \/ /\ ev[p].stage = "abort" /\ record[v] # "Running"
            /\ \E s \in {"unlock", "judge"} : ev' = [ev EXCEPT ![p].stage = s]
            /\ UNCHANGED record
      /\ UNCHANGED <<contexts, locks, late, thread, ureqs>>

AbortThrows(p) ==
  /\ ev[p].stage \in {"abort", "put"}
  /\ ev' = [ev EXCEPT ![p] = Off]
  /\ pc' = IF p \in Txns THEN [pc EXCEPT ![p] = "abort"] ELSE pc
  /\ UNCHANGED <<contexts, locks, late, record, cur, k, left, held, ureqs>>

(* LockManager::unlock(txn_id)                                              *)
UnlockTxn(p) ==
  LET v == ev[p].victim
  IN  /\ ev[p].stage = "unlock"
      /\ ureqs' = [ureqs EXCEPT ![p] = UNION {RequestsOf(i) : i \in locks[v]}]
      /\ locks' = [locks EXCEPT ![v] = {}]
      /\ ev' = [ev EXCEPT ![p].stage = "requests"]
      /\ UNCHANGED <<contexts, late, record, thread>>

UnlockReq(p, r) ==
  /\ p \in Txns => pc[p] \notin {"undoing", "unlocking"}
  /\ r \in ureqs[p] /\ \A q \in ureqs[p] : q[1] = r[1] => r[2] <= q[2]
  /\ Unlock(r, "INIT")
  /\ ureqs' = [ureqs EXCEPT ![p] = @ \ {r}]
  /\ UNCHANGED <<locks, late, record, thread, ev>>

Evicted(p) ==
  /\ ev[p].stage = "requests" /\ ureqs[p] = {}
  /\ ev' = [ev EXCEPT ![p].stage = "judge"]
  /\ UNCHANGED <<contexts, locks, late, record, thread, ureqs>>

Next ==
  \/ \E t \in Txns :
       \/ \E i \in left[t] : Register(t, i)
       \/ \E noWait \in BOOLEAN : Request(t, noWait)
       \/ Status(t) \/ Wake(t) \/ Woken(t) \/ GiveUp(t) \/ TimedOut(t) \/ Fail(t) \/ Unregister(t) \/ Unlocked(t)
       \/ AssertLocks(t) \/ Compare(t) \/ Commit(t) \/ Abort(t) \/ \E i \in held[t] : Release(t, i)
       \/ Expire(t) \/ Heartbeat(t)
  \/ CheckTxnStatus \/ \E found \in SUBSET Txns : ReleaseLocks(found)
  \/ \E p \in Procs :
       \/ \E v \in ev[p].todo : Judge(p, v)
       \/ JudgedAll(p) \/ AbortTxn(p) \/ AbortThrows(p) \/ UnlockTxn(p) \/ Evicted(p)
       \/ \E r \in ureqs[p] : UnlockReq(p, r)

Spec == Init /\ [][Next]_vars
-----------------------------------------------------------------------------
TypeOK ==
  /\ granted \subseteq Requests /\ waiting \subseteq Requests
  /\ ahead \in [Requests -> SUBSET Requests]
  /\ status \in [Requests -> {"INIT", "OK", "WAITING", "TIMEOUT", "CANCELLED"}]
  /\ locks \in [Txns -> SUBSET Infos] /\ late \in [Txns -> BOOLEAN]
  /\ record \in [Txns -> {"Running", "Aborted", "Finished"}]
  /\ pc \in [Txns -> {"idle", "request", "evict", "wait", "woken", "timeout", "fail",
                      "undoing", "undo", "commit", "abort", "release", "unlocking", "unlock"}
                     \cup IF Metastore = "FDB" THEN {"commitPut", "abortPut"} ELSE {}]
  /\ cur \in [Txns -> Infos] /\ k \in [Txns -> Nat] /\ \A t \in Txns : Req(t) \in Requests
  /\ left \in [Txns -> SUBSET Infos] /\ held \in [Txns -> SUBSET Infos]
  /\ ev \in [Procs -> [stage : {"off", "judge", "abort", "put", "unlock", "requests"},
                       todo : SUBSET Txns, victim : Txns \cup {NoTxn}]]
  /\ ureqs \in [Procs -> SUBSET Requests]

(* The lists and the statuses agree, so that the iterator a request keeps   *)
(* is one of the list it is erased from.                                    *)
ListsMatch ==
  /\ granted = {r \in Requests : status[r] = "OK"}
  /\ waiting = {r \in Requests : status[r] = "WAITING"}
  /\ \A r \in Requests : ahead[r] \subseteq waiting \ {r}

(* Locks of two transactions on one entity are compatible.                  *)
Exclusive ==
  \A q, r \in granted : TxnOf(q) # TxnOf(r) => ~ conflicts(q, r)

(* Nobody waits for a lock that nobody holds.                               *)
WaitersHaveHolders ==
  \A r \in waiting : Holders(EntityOf(r)) # {}

(* A transaction that commits still has every lock it took: an eviction     *)
(* aborts the record before it unlocks.  On FDB this holds of a commit that *)
(* meets its record Running; the putCAS of another one may overwrite the    *)
(* Aborted that an eviction put since the comparison.                       *)
CommitsHoldLocks ==
  [][\A t \in Txns :
       /\ record[t] # "Finished" /\ record'[t] = "Finished"
       /\ Metastore = "FDB" => record[t] = "Running"
       => \A i \in held[t] : RequestsOf(i) \subseteq granted]_vars

(* What these rest on.  The waiting list is ordered; a transaction locks    *)
(* only infos of its own, each once.                                        *)
InfosOf(t) == {i \in Infos : Scope[i].txn = t}
Locking == {"request", "evict", "wait", "woken", "timeout", "fail", "undoing", "undo"}
Ordered ==
  \A q, r \in waiting : q # r /\ EntityOf(q) = EntityOf(r) => q \in ahead[r] \/ r \in ahead[q]
OwnInv(t) ==
  /\ locks[t] \cup held[t] \cup left[t] \cup {cur[t]} \subseteq InfosOf(t)
  /\ held[t] \cap left[t] = {}
  /\ pc[t] \in Locking => cur[t] \notin held[t] \cup left[t]

(* Whoever unlocks on behalf of another transaction has ended it; a         *)
(* transaction that has not ended has what it locked so far.                *)
EvictInv(p) ==
  /\ p \in Txns /\ ev[p].stage # "off" => pc[p] = "evict"
  /\ ev[p].stage \in {"abort", "put", "unlock", "requests"} => ev[p].victim \in Txns
  /\ ev[p].stage \in {"unlock", "requests"} => record[ev[p].victim] # "Running"
  /\ \A r \in ureqs[p] : record[TxnOf(r)] = "Running"
       => p = TxnOf(r) /\ pc[p] \in {"undoing", "undo"} /\ r[1] = cur[p]
RunningInv(t) == record[t] = "Running" =>
  /\ \A i \in held[t] : RequestsOf(i) \subseteq granted
  /\ pc[t] \notin {"release", "unlocking", "unlock"}
  /\ pc[t] \in {"request", "evict", "wait", "woken"}
       => \A j \in 1 .. k[t] - 1 : <<cur[t], j>> \in granted
  /\ pc[t] \in {"evict", "wait"} => status[Req(t)] # "CANCELLED"
  /\ pc[t] = "woken" => status[Req(t)] = "OK"

LockInv ==
  /\ Ordered
  /\ \A t \in Txns : OwnInv(t) /\ RunningInv(t)
  /\ \A p \in Procs : EvictInv(p)
=============================================================================
