----------------------------- MODULE FDBClient ------------------------------
(***************************************************************************)
(* The write operations of the FoundationDB client: Put, MultiWrite and    *)
(* Delete, each an optimistic FoundationDB transaction run by RunWithRetry.*)
(*                                                                         *)
(* FoundationDB itself is external: a transaction reads a snapshot at one  *)
(* version; its commit fails (not_committed) when a key it read with       *)
(* snapshot = 0 was written after that version.  Keys read with            *)
(* snapshot = 1 and keys only written are not checked.                     *)
(***************************************************************************)
EXTENDS Naturals, FiniteSets

CONSTANTS Clients,     \* threads of servers, one operation at a time each
          Keys,
          Vals,
          Nil,         \* no value: the key is absent
          Requests,    \* [op, cas, writes], see CasStore
          MaxRetry,    \* FDB_DEFAULT_MAX_RETRY
          MaxVersion   \* bound: commits in a behaviour

ASSUME FDBAssumption ==
  /\ Nil \notin Vals
  /\ MaxRetry \in Nat \ {0}
  /\ MaxVersion \in Nat
  /\ \A r \in Requests :
        /\ r.op \in {"Put", "MultiWrite", "Delete"}
        /\ DOMAIN r.cas \subseteq Keys
        /\ DOMAIN r.writes \subseteq Keys
        /\ \A k \in DOMAIN r.writes : r.writes[k] \in Vals \cup {Nil}

VARIABLES
  store,      \* key -> value
  written,    \* key -> version of the commit that last wrote it
  version,    \* the database's commit version
  pc,         \* client -> "idle", "read", "commit", "done"
  req,        \* client -> the request being run
  seen,       \* client -> the snapshot its transaction reads
  readAt,     \* client -> the version of that snapshot
  retries,    \* client -> attempts RunWithRetry has left
  result      \* client -> "none", "true", "false", "error"

vars == <<store, written, version, pc, req, seen, readAt, retries, result>>

Values == Vals \cup {Nil}
C == INSTANCE CasStore WITH store <- store, Keys <- Keys, Values <- Values, Requests <- Requests

Init ==
  /\ store \in [Keys -> Values]
  /\ written = [k \in Keys |-> 0]
  /\ version = 0
  /\ pc = [c \in Clients |-> "idle"]
  /\ req = [c \in Clients |-> CHOOSE r \in Requests : TRUE]
  /\ seen = [c \in Clients |-> [k \in Keys |-> Nil]]
  /\ readAt = [c \in Clients |-> 0]
  /\ retries = [c \in Clients |-> 0]
  /\ result = [c \in Clients |-> "none"]

(* A caller enters Put, MultiWrite or Delete.                               *)
Call(c, r) ==
  /\ pc[c] = "idle"
  /\ pc' = [pc EXCEPT ![c] = "read"]
  /\ req' = [req EXCEPT ![c] = r]
  /\ retries' = [retries EXCEPT ![c] = MaxRetry]
  /\ UNCHANGED <<store, written, version, seen, readAt, result>>

Finish(c, res) ==
  /\ pc' = [pc EXCEPT ![c] = "done"]
  /\ result' = [result EXCEPT ![c] = res]

(* The reads of one attempt, all at one version.                            *)
Read(c) ==
  /\ pc[c] = "read"
  /\ seen' = [seen EXCEPT ![c] = store]
  /\ readAt' = [readAt EXCEPT ![c] = version]
  /\ pc' = [pc EXCEPT ![c] = "commit"]
  /\ UNCHANGED <<store, written, version, req, retries, result>>

(* Mutants: no bound on the attempts; the count runs below zero.            *)
Retry_Forever(c) ==
  /\ pc' = [pc EXCEPT ![c] = "read"]
  /\ UNCHANGED <<retries, result>>

Retry_Underflow(c) ==
  /\ retries' = [retries EXCEPT ![c] = @ - 1]
  /\ pc' = [pc EXCEPT ![c] = "read"]
  /\ UNCHANGED result

(* RunWithRetry: fdb_transaction_on_error lets an attempt start again after *)
(* a retryable error; any other error, and the last one, go to the caller.  *)
Retry(c) ==
  \/ /\ retries[c] > 1
     /\ retries' = [retries EXCEPT ![c] = @ - 1]
     /\ pc' = [pc EXCEPT ![c] = "read"]
     /\ UNCHANGED result
  \/ /\ Finish(c, "error")
     /\ UNCHANGED retries

(* A read that returns an error.  MultiWrite and Delete return the error;   *)
(* Put drops it and goes on as if the key were absent.                      *)
ReadError(c) ==
  /\ pc[c] = "read"
  /\ IF req[c].op = "Put"
       THEN /\ seen' = [seen EXCEPT ![c] = [k \in Keys |-> Nil]]
            /\ readAt' = [readAt EXCEPT ![c] = version]
            /\ pc' = [pc EXCEPT ![c] = "commit"]
            /\ UNCHANGED <<retries, result>>
       ELSE /\ Retry(c)
            /\ UNCHANGED <<seen, readAt>>
  /\ UNCHANGED <<store, written, version, req>>

(* The comparison with the expected values fails: not_committed, which      *)
(* RunWithRetry does not retry.                                             *)
Mismatch(c) ==
  /\ pc[c] = "commit"
  /\ ~ C!Matches(req[c], seen[c])
  /\ Finish(c, "false")
  /\ UNCHANGED <<store, written, version, req, seen, readAt, retries>>

(* Keys whose reads the resolver checks: those Put compares are read with   *)
(* snapshot = 1 and are not among them.                                     *)
ConflictKeys_AllSnapshot(r) == {}
ConflictKeys(r) == IF r.op = "Put" THEN {} ELSE DOMAIN r.cas

Conflicts(c) == \E k \in ConflictKeys(req[c]) : written[k] > readAt[c]

(* The commit is refused by FoundationDB's conflict check: not_committed,   *)
(* or the error of the read that looks up the conflicting values.           *)
CommitConflict(c) ==
  /\ pc[c] = "commit"
  /\ C!Matches(req[c], seen[c])
  /\ Conflicts(c)
  /\ Finish(c, "false") \/ Finish(c, "error")
  /\ UNCHANGED <<store, written, version, req, seen, readAt, retries>>

(* The commit takes effect.                                                 *)
Apply(c) ==
  /\ pc[c] = "commit"
  /\ C!Matches(req[c], seen[c])
  /\ ~ Conflicts(c)
  /\ version < MaxVersion
  /\ version' = version + 1
  /\ store' = C!Effect(req[c], store)
  /\ written' = [k \in Keys |-> IF k \in DOMAIN req[c].writes THEN version + 1
                                                              ELSE written[k]]
  /\ UNCHANGED <<req, seen, readAt>>

CommitOk(c) == /\ Apply(c)
               /\ Finish(c, "true")
               /\ UNCHANGED retries

(* commit_unknown_result: the commit took effect, or it did not, and the    *)
(* client only learns of a retryable error.                                 *)
CommitUnknownApplied(c) == Apply(c) /\ Retry(c)

CommitUnknownLost(c) ==
  /\ pc[c] = "commit"
  /\ C!Matches(req[c], seen[c])
  /\ Retry(c)
  /\ UNCHANGED <<store, written, version, req, seen, readAt>>

Return(c) ==
  /\ pc[c] = "done"
  /\ pc' = [pc EXCEPT ![c] = "idle"]
  /\ seen' = [seen EXCEPT ![c] = [k \in Keys |-> Nil]]
  /\ readAt' = [readAt EXCEPT ![c] = 0]
  /\ retries' = [retries EXCEPT ![c] = 0]
  /\ result' = [result EXCEPT ![c] = "none"]
  /\ UNCHANGED <<store, written, version, req>>

Next == \E c \in Clients :
  \/ \E r \in Requests : Call(c, r)
  \/ Read(c)
  \/ ReadError(c)
  \/ Mismatch(c)
  \/ CommitConflict(c)
  \/ CommitOk(c)
  \/ CommitUnknownApplied(c)
  \/ CommitUnknownLost(c)
  \/ Return(c)

Spec == Init /\ [][Next]_vars

(* The thread of a client runs on, and FoundationDB answers.                *)
Step(c) == \/ Read(c) \/ ReadError(c) \/ Mismatch(c) \/ CommitConflict(c)
           \/ CommitOk(c) \/ CommitUnknownApplied(c) \/ CommitUnknownLost(c)

FairSpec == Spec /\ \A c \in Clients : WF_vars(Step(c))
-----------------------------------------------------------------------------
TypeOK ==
  /\ store \in [Keys -> Values]
  /\ written \in [Keys -> Nat]
  /\ version \in Nat
  /\ pc \in [Clients -> {"idle", "read", "commit", "done"}]
  /\ req \in [Clients -> Requests]
  /\ seen \in [Clients -> [Keys -> Values]]
  /\ readAt \in [Clients -> Nat]
  /\ retries \in [Clients -> 0 .. MaxRetry]
  /\ result \in [Clients -> {"none", "true", "false", "error"}]

(* Atomicity of the compare-and-set writes (IMetaStore::putCAS, put with    *)
(* if_not_exists, drop with an expected value, batchWrite): whatever the    *)
(* interleaving of clients, retries and unknown commit results, the store   *)
(* only changes by a request whose expected values it holds at that moment. *)
CasAtomic == C!CasSpec

(* An operation ends: RunWithRetry gives up after its last attempt, so the  *)
(* caller gets an answer however often a retryable error comes back.        *)
CallReturns == \A c \in Clients : (pc[c] = "read") ~> (pc[c] = "done")
=============================================================================
