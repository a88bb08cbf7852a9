-------------------------- MODULE FDBClient_proofs --------------------------
(***************************************************************************)
(* MultiWrite and Delete of the FoundationDB client implement the atomic   *)
(* compare-and-set of CasStore, for any number of clients, keys, values,   *)
(* requests and retries.                                                   *)
(***************************************************************************)
EXTENDS FDBClient, TLAPS

(* The snapshot of a running attempt still holds on every key that was not  *)
(* written after it was taken.                                              *)
SnapshotCurrent ==
  /\ \A k \in Keys : written[k] <= version
  /\ \A c \in Clients : pc[c] = "commit" =>
        /\ readAt[c] <= version
        /\ \A k \in Keys : written[k] <= readAt[c] => store[k] = seen[c][k]

IInv == TypeOK /\ SnapshotCurrent

(* Put is the operation whose reads are not checked at commit.              *)
NoPut == \A r \in Requests : r.op # "Put"

LEMMA EffectType ==
  ASSUME NEW r \in Requests, NEW s \in [Keys -> Values]
  PROVE  C!Effect(r, s) \in [Keys -> Values]
BY FDBAssumption, Zenon DEF C!Effect, Values

(* Type correctness of the client and of the database it writes to.         *)
THEOREM TypeCorrect == ASSUME Requests # {} PROVE Spec => []TypeOK
<1>1. Init => TypeOK
  BY FDBAssumption DEF Init, TypeOK, Values
<1>2. TypeOK /\ [Next]_vars => TypeOK'
  <2> SUFFICES ASSUME TypeOK, [Next]_vars PROVE TypeOK'
    OBVIOUS
  <2> USE DEF TypeOK
  <2>1. ASSUME NEW c \in Clients, NEW r \in Requests, Call(c, r) PROVE TypeOK'
    BY <2>1, FDBAssumption DEF Call
  <2>2. ASSUME NEW c \in Clients, Read(c) PROVE TypeOK'
    BY <2>2, Zenon DEF Read
  <2>0. ASSUME NEW c \in Clients, Retry(c)
        PROVE  /\ pc' \in [Clients -> {"idle", "read", "commit", "done"}]
               /\ retries' \in [Clients -> 0 .. MaxRetry]
               /\ result' \in [Clients -> {"none", "true", "false", "error"}]
    <3>0. MaxRetry \in Nat
      BY FDBAssumption, Zenon
    <3>1. CASE retries[c] > 1 /\ retries' = [retries EXCEPT ![c] = @ - 1]
               /\ pc' = [pc EXCEPT ![c] = "read"] /\ UNCHANGED result
      <4>1. retries[c] - 1 \in 0 .. MaxRetry
        BY <3>0, <3>1
      <4>2. /\ retries' = [retries EXCEPT ![c] = retries[c] - 1]
            /\ pc' = [pc EXCEPT ![c] = "read"]
            /\ result' = result
        BY <3>1, Zenon
      <4>3. retries' \in [Clients -> 0 .. MaxRetry]
        BY <4>1, <4>2, Zenon
      <4> QED BY <4>2, <4>3, Zenon
    <3>2. CASE Finish(c, "error") /\ UNCHANGED retries
      BY <3>2, Zenon DEF Finish
    <3> QED BY <2>0, <3>1, <3>2, Zenon DEF Retry
  <2>3. ASSUME NEW c \in Clients, ReadError(c) PROVE TypeOK'
    <3>0. [k \in Keys |-> Nil] \in [Keys -> Values]
      BY Zenon DEF Values
    <3>1. CASE req[c].op = "Put"
      <4>1. /\ seen' = [seen EXCEPT ![c] = [k \in Keys |-> Nil]]
            /\ readAt' = [readAt EXCEPT ![c] = version]
            /\ pc' = [pc EXCEPT ![c] = "commit"]
            /\ UNCHANGED <<retries, result, store, written, version, req>>
        BY <2>3, <3>1, Zenon DEF ReadError
      <4>2. seen' \in [Clients -> [Keys -> Values]]
        BY <3>0, <4>1, Zenon
      <4>3. readAt' \in [Clients -> Nat] /\ pc' \in [Clients -> {"idle", "read", "commit", "done"}]
        BY <4>1, Zenon
      <4> QED BY <4>1, <4>2, <4>3, Zenon
    <3>2. CASE req[c].op # "Put"
      BY <2>3, <3>2, <2>0, Zenon DEF ReadError
    <3> QED BY <3>1, <3>2, Zenon
  <2>4. ASSUME NEW c \in Clients, Mismatch(c) PROVE TypeOK'
    BY <2>4, Zenon DEF Mismatch, Finish
  <2>5. ASSUME NEW c \in Clients, CommitConflict(c) PROVE TypeOK'
    BY <2>5, Zenon DEF CommitConflict, Finish
  <2>6. ASSUME NEW c \in Clients, Apply(c)
        PROVE  /\ store' \in [Keys -> Values] /\ written' \in [Keys -> Nat]
               /\ version' \in Nat
    <3>1. req[c] \in Requests
      OBVIOUS
    <3> QED BY <2>6, <3>1, EffectType DEF Apply
  <2>7. ASSUME NEW c \in Clients, CommitOk(c) PROVE TypeOK'
    BY <2>6, <2>7, Zenon DEF CommitOk, Apply, Finish
  <2>8. ASSUME NEW c \in Clients, CommitUnknownApplied(c) PROVE TypeOK'
    BY <2>0, <2>6, <2>8, Zenon DEF CommitUnknownApplied, Apply
  <2>9. ASSUME NEW c \in Clients, CommitUnknownLost(c) PROVE TypeOK'
    BY <2>0, <2>9, Zenon DEF CommitUnknownLost
  <2>10. ASSUME NEW c \in Clients, Return(c) PROVE TypeOK'
    <3>0. [k \in Keys |-> Nil] \in [Keys -> Values]
      BY Zenon DEF Values
    <3> QED BY <2>10, <3>0, FDBAssumption DEF Return
  <2>11. CASE UNCHANGED vars
    BY <2>11, Zenon DEF vars
  <2> QED BY <2>1, <2>2, <2>3, <2>4, <2>5, <2>7, <2>8, <2>9, <2>10, <2>11, Zenon DEF Next
<1> QED BY <1>1, <1>2, PTL DEF Spec

(* A snapshot is current when it is taken, and a commit of another client   *)
(* gives the keys it writes a later version.                                *)
LEMMA SnapshotStep ==
  ASSUME IInv, TypeOK', [Next]_vars, NoPut PROVE SnapshotCurrent'
<1> USE DEF IInv, TypeOK
<1>1. ASSUME NEW c \in Clients, NEW r \in Requests, Call(c, r) PROVE SnapshotCurrent'
  BY <1>1 DEF Call, SnapshotCurrent
<1>2. ASSUME NEW c \in Clients, Read(c) PROVE SnapshotCurrent'
  BY <1>2 DEF Read, SnapshotCurrent
<1>3. ASSUME NEW c \in Clients, ReadError(c) PROVE SnapshotCurrent'
  BY <1>3 DEF ReadError, Retry, Finish, SnapshotCurrent, NoPut
<1>4. ASSUME NEW c \in Clients, Mismatch(c) PROVE SnapshotCurrent'
  BY <1>4 DEF Mismatch, Finish, SnapshotCurrent
<1>5. ASSUME NEW c \in Clients, CommitConflict(c) PROVE SnapshotCurrent'
  BY <1>5 DEF CommitConflict, Finish, SnapshotCurrent
<1>6. ASSUME NEW c \in Clients, Apply(c),
             \A d \in Clients : pc'[d] = "commit" => pc[d] = "commit"
      PROVE  SnapshotCurrent'
  BY <1>6 DEF Apply, SnapshotCurrent, C!Effect
<1>7. ASSUME NEW c \in Clients, CommitOk(c) PROVE SnapshotCurrent'
  BY <1>6, <1>7, Zenon DEF CommitOk, Finish
<1>8. ASSUME NEW c \in Clients, CommitUnknownApplied(c) PROVE SnapshotCurrent'
  BY <1>6, <1>8, Zenon DEF CommitUnknownApplied, Retry, Finish
<1>9. ASSUME NEW c \in Clients, CommitUnknownLost(c) PROVE SnapshotCurrent'
  BY <1>9 DEF CommitUnknownLost, Retry, Finish, SnapshotCurrent
<1>10. ASSUME NEW c \in Clients, Return(c) PROVE SnapshotCurrent'
  BY <1>10 DEF Return, SnapshotCurrent
<1>11. CASE UNCHANGED vars
  BY <1>11, Zenon DEF vars, SnapshotCurrent
<1> QED BY <1>1, <1>2, <1>3, <1>4, <1>5, <1>7, <1>8, <1>9, <1>10, <1>11, Zenon DEF Next

(* A commit that takes effect finds the values its request expects.         *)
LEMMA ApplySwaps ==
  ASSUME IInv, NoPut, NEW c \in Clients, Apply(c)
  PROVE  C!Swap(req[c])
<1>1. req[c] \in Requests /\ pc[c] = "commit"
  BY Zenon DEF IInv, TypeOK, Apply
<1>2. ConflictKeys(req[c]) = DOMAIN req[c].cas
  BY <1>1, Zenon DEF ConflictKeys, NoPut
<1>3. ASSUME NEW k \in DOMAIN req[c].cas PROVE store[k] = req[c].cas[k]
  <2>1. k \in Keys
    BY <1>1, FDBAssumption, Zenon
  <2>2. ~ (written[k] > readAt[c])
    BY <1>2, Zenon DEF Apply, Conflicts
  <2>3. store[k] = seen[c][k]
    BY <1>1, <2>1, <2>2 DEF IInv, TypeOK, SnapshotCurrent
  <2> QED BY <2>3, Zenon DEF Apply, C!Matches
<1> QED BY <1>3, Zenon DEF C!Swap, C!Matches, Apply

(* batchWrite and drop(expected) are atomic compare-and-set operations:     *)
(* without Put, every behaviour of the client is one of CasStore.           *)
THEOREM BatchWriteIsAtomic ==
  ASSUME NoPut, Requests # {} PROVE Spec => CasAtomic
<1>0. Init => C!Init
  BY Zenon DEF Init, C!Init
<1>1. Init => SnapshotCurrent
  BY DEF Init, SnapshotCurrent
<1>2. TypeOK /\ SnapshotCurrent /\ TypeOK' /\ [Next]_vars => SnapshotCurrent'
  BY SnapshotStep, Zenon DEF IInv
<1>3. TypeOK /\ SnapshotCurrent /\ [Next]_vars => [C!Next]_store
  <2> SUFFICES ASSUME IInv, [Next]_vars PROVE [C!Next]_store
    BY Zenon DEF IInv
  <2>1. ASSUME NEW c \in Clients, Apply(c) PROVE C!Next
    <3>1. req[c] \in Requests
      BY Zenon DEF IInv, TypeOK
    <3> QED BY <2>1, <3>1, ApplySwaps, Zenon DEF C!Next
  <2>2. CASE \E c \in Clients : Apply(c)
    BY <2>1, <2>2, Zenon
  <2>3. CASE ~ \E c \in Clients : Apply(c)
    BY <2>3, Zenon DEF Next, vars, Call, Read, ReadError, Mismatch, CommitConflict,
       CommitOk, CommitUnknownApplied, CommitUnknownLost, Return
  <2> QED BY <2>2, <2>3, Zenon
<1>4. Spec => []TypeOK
  BY TypeCorrect, Zenon
<1> QED BY <1>0, <1>1, <1>2, <1>3, <1>4, PTL DEF Spec, CasAtomic, C!CasSpec
=============================================================================
