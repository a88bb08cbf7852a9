------------------------------ MODULE TxnCommit -----------------------------
(***************************************************************************)
(* The life of one write transaction: its record, undo buffer and parts in *)
(* the metastore; the CnchServerTransaction on its server, used by the     *)
(* query and by the scan for expired transactions; the clean tasks of the  *)
(* servers; the TXN_GC daemon; readers; and another transaction that finds *)
(* an intent of this one in its way.                                       *)
(*                                                                         *)
(* A step is one call of the metastore or of another server, or a critical *)
(* section.  owner holds the mutex of the transaction across several       *)
(* calls; commit(), abort() and rollback() make one call each, which is    *)
(* two steps where putCAS is not atomic.  The parts of one table are one   *)
(* element of part: they are written by one action.                        *)
(***************************************************************************)
EXTENDS Naturals, FiniteSets

CONSTANTS Tables,      \* that the transaction writes to
          Servers, Home,   \* Home: location of the record
          Metastore,   \* of the catalog: its putCAS is atomic, or is not
          MaxFaults,   \* bound: calls that fail, crashes and moves of a table
          Actors       \* which of these meet the transaction: the scan for
                       \* expired transactions, a cancelled merge, a query

ASSUME TxnAssumption ==
  /\ Tables # {} /\ Home \in Servers /\ MaxFaults \in Nat
  /\ Metastore \in {"ByteKV", "FDB"}
  /\ Actors \subseteq {"scan", "cancel", "reader"}

VARIABLES
  rec,      \* status of the record; "Cleaned" is Finished with a clean time
  old,      \* the clean time is older than cnch_txn_safe_remove_seconds
  undo,     \* tables with an undo buffer
  part,     \* table -> its parts: none, intermediate (no commit time), committed
  mem, prepared,     \* txn_record of the CnchServerTransaction
  actions,  \* tables with an action
  active,   \* the transaction is in active_txn_list
  force,    \* force_clean_by_dm
  owner,    \* who is in precommit(), in clean() or between two steps of putCAS
  pc, todo, \* thread -> where it is, tables to come
  result,   \* what the client was told
  task,     \* server -> its clean task for the transaction
  host,     \* table -> its host server
  gc,       \* the daemon's round
  reader,   \* a query that reads the tables
  ddl,      \* IntentLock::writeIntents of the other transaction
  faults

meta   == <<rec, old, undo, part>>
object == <<mem, prepared, actions, active, force, owner>>
thread == <<pc, todo, result>>
vars   == <<meta, object, thread, task, host, gc, reader, ddl, faults>>

Threads == {"query", "scan"}
NoTask == [kind |-> "none", stage |-> "off", todo |-> {}, keys |-> {}, others |-> {}]
NoParts == [t \in Tables |-> "none"]
Ended(s) == s \in {"Finished", "Aborted"}
Visible(t, parts) ==
  \/ parts[t] = "committed"
  \/ parts[t] = "intermediate" /\ rec \in {"Finished", "Cleaned"}

Init ==
  /\ rec = "none" /\ old = FALSE /\ undo = {} /\ part = NoParts
  /\ mem = "Running" /\ prepared = FALSE /\ actions = {} /\ active = FALSE
  /\ force = FALSE /\ owner = "none"
  /\ pc = [p \in Threads |-> IF p = "query" THEN "new" ELSE "idle"]
  /\ todo = [p \in Threads |-> {}] /\ result = "none"
  /\ task = [s \in Servers |-> NoTask]
  /\ host \in [Tables -> Servers]
  /\ gc = [stage |-> "records", saw |-> "none"]
  /\ reader = [stage |-> "idle", snap |-> NoParts, acked |-> FALSE, sees |-> {}]
  /\ ddl = [stage |-> "idle", saw |-> "none"]
  /\ faults = 0

Goto(p, l) == pc' = [pc EXCEPT ![p] = l]
Fault == faults < MaxFaults /\ faults' = faults + 1
-----------------------------------------------------------------------------
(* commit() of a prepared transaction; abort() by the query, by the scan,   *)
(* by CnchMergeMutateThread of a merge that is being committed.             *)
isPrepared_Flag == prepared
isPrepared == mem = "Running" /\ prepared
Cancels == "cancel" \in Actors /\ active
Setting(p) ==
  \/ p = "query" /\ pc[p] = "commit" /\ isPrepared
  \/ p = "query" /\ pc[p] = "abort" /\ mem # "Finished"
  \/ p \in Threads /\ pc[p] = "cleanAbort" /\ mem # "Finished"
  \/ p = "cancel" /\ Cancels /\ mem # "Finished"

(* putCAS.  ByteKV compares and puts in one step; FDBClient::Put compares a *)
(* snapshot and puts later, whatever the record has become.                 *)
Compare(p) ==
  /\ Metastore = "FDB" /\ Setting(p) /\ owner = "none" /\ rec = mem
  /\ owner' = p
  /\ UNCHANGED <<meta, mem, prepared, actions, active, force, thread, task, host, gc, reader, ddl, faults>>
Puts(p) == IF Metastore = "FDB" THEN owner = p ELSE rec = mem
Free(p) == owner = "none" \/ (Metastore = "FDB" /\ owner = p)

(* Catalog::setTransactionRecord(txn_record, target): the putCAS, which     *)
(* leaves the record it met in txn_record; Unknown when there is none.      *)
Seen == CASE rec = "none" -> "Unknown" [] rec = "Cleaned" -> "Finished" [] OTHER -> rec
SetRecord_Put(p, target) ==
  rec' = target /\ mem' = target /\ UNCHANGED <<prepared, faults>>
SetRecord(p, target) ==
  \/ Puts(p) /\ rec' = target /\ mem' = target /\ UNCHANGED <<prepared, faults>>
  \/ /\ owner = "none" /\ rec # mem
     /\ mem' = Seen /\ prepared' = (prepared /\ rec = "none") /\ UNCHANGED <<rec, faults>>

(* The call throws, having taken effect or not.                             *)
SetRecordThrows(p, target) ==
  /\ Fault
  /\ UNCHANGED rec \/ (Puts(p) /\ rec' = target)
  /\ UNCHANGED <<mem, prepared>>
-----------------------------------------------------------------------------
(* The query.  CnchServerTransaction(): the record is created before the    *)
(* transaction is in active_txn_list.                                       *)
CreateTxn ==
  /\ pc["query"] = "new"
  /\ \/ rec' = "Running" /\ Goto("query", "created") /\ UNCHANGED <<result, faults>>
     \/ Fault /\ rec' \in {"Running", rec} /\ result' = "error" /\ Goto("query", "done")
  /\ UNCHANGED <<old, undo, part, object, todo, task, host, gc, reader, ddl>>

Activate ==
  /\ pc["query"] = "created"
  /\ active' = TRUE /\ Goto("query", "write")
  /\ UNCHANGED <<meta, mem, prepared, actions, force, owner, todo, result, task, host, gc, reader, ddl, faults>>

(* The undo buffer is written before the data; then the action is appended. *)
WriteUndo(t) ==
  /\ pc["query"] = "write" /\ t \notin actions
  /\ undo' = undo \cup {t}
  /\ actions' = actions \cup {t}
  /\ UNCHANGED <<rec, old, part, mem, prepared, active, force, owner, thread, task, host, gc, reader, ddl, faults>>

QueryFails ==
  /\ pc["query"] = "write"
  /\ result' = "error" /\ Goto("query", "finish")
  /\ UNCHANGED <<meta, object, todo, task, host, gc, reader, ddl, faults>>

precommit ==
  /\ pc["query"] = "write" /\ actions = Tables /\ owner = "none"
  /\ \/ /\ mem = "Running"
        /\ owner' = "query" /\ todo' = [todo EXCEPT !["query"] = actions]
        /\ Goto("query", "execute")
     \/ mem # "Running" /\ Goto("query", "abort") /\ UNCHANGED <<owner, todo>>
  /\ UNCHANGED <<meta, mem, prepared, actions, active, force, result, task, host, gc, reader, ddl, faults>>

executeV2(t) ==
  /\ pc["query"] = "execute" /\ t \in todo["query"]
  /\ part' = [part EXCEPT ![t] = "intermediate"]
  /\ todo' = [todo EXCEPT !["query"] = @ \ {t}]
  /\ UNCHANGED <<rec, old, undo, object, pc, result, task, host, gc, reader, ddl, faults>>

(* commitV2 catches: a DB::Exception leads to abort(), others to rollback() *)
ExecuteThrows ==
  /\ pc["query"] = "execute" /\ todo["query"] # {} /\ Fault
  /\ \E l \in {"abort", "rollback"} : Goto("query", l)
  /\ owner' = "none"
  /\ UNCHANGED <<meta, mem, prepared, actions, active, force, todo, result, task, host, gc, reader, ddl>>

Prepared ==
  /\ pc["query"] = "execute" /\ todo["query"] = {}
  /\ prepared' = TRUE /\ owner' = "none"
  /\ Goto("query", "dedup")
  /\ UNCHANGED <<meta, mem, actions, active, force, todo, result, task, host, gc, reader, ddl, faults>>

Dedup ==
  /\ pc["query"] = "dedup"
  /\ \E l \in {"commit", "abort", "rollback"} : Goto("query", l)
  /\ UNCHANGED <<meta, object, todo, result, task, host, gc, reader, ddl, faults>>

commit ==
  /\ pc["query"] = "commit" /\ Free("query")
  /\ \/ /\ ~ isPrepared
        /\ Goto("query", "abort")
        /\ UNCHANGED <<rec, mem, prepared, result, faults>>
     \/ /\ isPrepared
        /\ SetRecord("query", "Finished")
        /\ result' = IF mem' = "Finished" THEN "committed" ELSE result
        /\ Goto("query", IF mem' = "Finished" THEN "finish" ELSE "abort")
     \/ isPrepared /\ SetRecordThrows("query", "Finished") /\ Goto("query", "abort") /\ UNCHANGED result
  /\ owner' = "none"
  /\ UNCHANGED <<old, undo, part, actions, active, force, todo, task, host, gc, reader, ddl>>

(* abort() of a committed primary transaction throws.                       *)
abort ==
  /\ pc["query"] = "abort" /\ Free("query")
  /\ \/ mem = "Finished" /\ result' = "error" /\ UNCHANGED <<rec, mem, prepared, faults>>
     \/ mem # "Finished" /\ SetRecord("query", "Aborted")
          /\ result' = IF mem' = "Finished" THEN "committed" ELSE "error"
     \/ mem # "Finished" /\ SetRecordThrows("query", "Aborted") /\ result' = "error"
  /\ owner' = "none" /\ Goto("query", "finish")
  /\ UNCHANGED <<old, undo, part, actions, active, force, todo, task, host, gc, reader, ddl>>

rollback ==
  /\ pc["query"] = "rollback" /\ owner = "none"
  /\ mem' = "Aborted"
  /\ \/ rec' = "Aborted" /\ UNCHANGED faults
     \/ Fault /\ UNCHANGED rec
  /\ result' = "error" /\ Goto("query", "finish")
  /\ UNCHANGED <<old, undo, part, prepared, actions, active, force, owner, todo, task, host, gc, reader, ddl>>
-----------------------------------------------------------------------------
CancelMerge ==
  /\ (Cancels /\ owner = "none") \/ owner = "cancel"
  /\ mem # "Finished" /\ SetRecord("cancel", "Aborted")
  /\ owner' = "none"
  /\ UNCHANGED <<old, undo, part, actions, active, force, thread, task, host, gc, reader, ddl>>

(* finishTransaction of the query; scanActiveTransactions.                  *)
finishTransaction(p) ==
  /\ pc[p] = "finish" \/ ("scan" \in Actors /\ p = "scan" /\ pc[p] = "idle" /\ active)
  /\ active' = FALSE
  /\ Goto(p, "check")
  /\ UNCHANGED <<meta, mem, prepared, actions, force, owner, todo, result, task, host, gc, reader, ddl, faults>>

(* TransactionCleaner::cleanTransaction(txn)                                *)
CheckEnded(p) ==
  /\ pc[p] = "check"
  /\ Goto(p, IF Ended(mem) THEN "clean" ELSE "cleanAbort")
  /\ UNCHANGED <<meta, object, todo, result, task, host, gc, reader, ddl, faults>>

CleanAbort(p) ==
  /\ pc[p] = "cleanAbort" /\ Free(p)
  /\ \/ /\ mem # "Finished" /\ SetRecord(p, "Aborted")
        /\ force' = (force \/ ~ Ended(mem'))
        /\ Goto(p, IF Ended(mem') THEN "clean" ELSE "done")
     \/ /\ \/ mem = "Finished" /\ UNCHANGED <<rec, mem, prepared, faults>>
           \/ mem # "Finished" /\ SetRecordThrows(p, "Aborted")
        /\ force' = TRUE /\ Goto(p, "done")
  /\ owner' = "none"
  /\ UNCHANGED <<old, undo, part, actions, active, todo, result, task, host, gc, reader, ddl>>

(* CnchServerTransaction::clean: of a committed transaction, the commit     *)
(* time of the parts, the undo buffer, the clean time; of an aborted one,   *)
(* the parts, the undo buffer, the record.                                  *)
Clean(p) ==
  /\ pc[p] = "clean" /\ owner = "none"
  /\ IF force
       THEN Goto(p, "done") /\ UNCHANGED <<owner, todo>>
       ELSE /\ owner' = p /\ todo' = [todo EXCEPT ![p] = actions]
            /\ Goto(p, IF mem = "Finished" THEN "postCommit" ELSE "abortParts")
  /\ UNCHANGED <<meta, mem, prepared, actions, active, force, result, task, host, gc, reader, ddl, faults>>

CleanPart(p, t) ==
  /\ pc[p] \in {"postCommit", "abortParts"} /\ t \in todo[p]
  /\ part' = [part EXCEPT ![t] = IF pc[p] = "postCommit" THEN "committed" ELSE "none"]
  /\ todo' = [todo EXCEPT ![p] = @ \ {t}]
  /\ UNCHANGED <<rec, old, undo, object, pc, result, task, host, gc, reader, ddl, faults>>

CleanUndo(p) ==
  /\ pc[p] \in {"postCommit", "abortParts"} /\ todo[p] = {}
  /\ undo' = {}
  /\ Goto(p, IF pc[p] = "postCommit" THEN "stamp" ELSE "remove")
  /\ UNCHANGED <<rec, old, part, object, todo, result, task, host, gc, reader, ddl, faults>>

CleanRecord(p) ==
  /\ pc[p] \in {"stamp", "remove"}
  /\ rec' = IF pc[p] = "stamp" THEN "Cleaned" ELSE "none"
  /\ old' = FALSE
  /\ owner' = "none" /\ Goto(p, "done")
  /\ UNCHANGED <<undo, part, mem, prepared, actions, active, force, todo, result, task, host, gc, reader, ddl, faults>>

CleanThrows(p) ==
  /\ pc[p] \in {"postCommit", "abortParts", "stamp", "remove"} /\ Fault
  /\ owner' = "none" /\ Goto(p, "done")
  /\ UNCHANGED <<meta, mem, prepared, actions, active, force, todo, result, task, host, gc, reader, ddl>>
-----------------------------------------------------------------------------
(* Clean tasks, at most one per server: scheduleTask drops another.         *)
SetTask(s, r) == task' = [task EXCEPT ![s] = r]
At(s, stage) == task[s].stage = stage
Stage(s, stage) == SetTask(s, [task[s] EXCEPT !.stage = stage])
NotByTask == UNCHANGED <<object, thread, host, gc, reader, ddl, faults>>

(* cleanAbortedTxn of a record that was running.                            *)
TaskActive(s) ==
  /\ At(s, "active")
  /\ IF s = Home /\ active THEN SetTask(s, NoTask) ELSE Stage(s, "cas")
  /\ UNCHANGED meta /\ NotByTask

TaskAbort(s) ==
  /\ \/ /\ At(s, "cas") /\ rec = "Running" /\ Metastore = "FDB"
        /\ UNCHANGED rec /\ Stage(s, "put")
     \/ /\ At(s, "put") \/ (At(s, "cas") /\ rec = "Running" /\ Metastore = "ByteKV")
        /\ rec' = "Aborted" /\ Stage(s, "read")
     \/ At(s, "cas") /\ rec # "Running" /\ UNCHANGED rec /\ SetTask(s, NoTask)
  /\ UNCHANGED <<old, undo, part>> /\ NotByTask

(* getUndoBuffer; a committed transaction's tables are cleaned on their     *)
(* host servers, a callee cleans its own.                                   *)
TaskRead(s) ==
  LET mine == IF task[s].kind = "abort" THEN undo ELSE {t \in undo : host[t] = s}
      others == IF task[s].kind = "commit" THEN {host[t] : t \in undo \ mine} ELSE {}
  IN  /\ At(s, "read")
      /\ SetTask(s, [task[s] EXCEPT !.todo = mine, !.keys = mine, !.others = others,
                       !.stage = IF others = {} THEN "parts" ELSE "dispatch"])
      /\ UNCHANGED meta /\ NotByTask

(* cleanUndoBuffers on the hosts of the other tables; it only schedules.    *)
Callee == [NoTask EXCEPT !.kind = "callee", !.stage = "read"]
TaskDispatch(s) ==
  /\ At(s, "dispatch")
  /\ task' = [d \in Servers |-> IF d = s THEN [task[s] EXCEPT !.stage = "parts"]
                                ELSE IF d \in task[s].others /\ task[d] = NoTask THEN Callee
                                ELSE task[d]]
  /\ UNCHANGED meta /\ NotByTask

(* applyUndos, or the commit time of the parts that are there.              *)
TaskPart(s, t) ==
  /\ At(s, "parts") /\ t \in task[s].todo
  /\ part' = [part EXCEPT ![t] = IF task[s].kind = "abort" \/ @ = "none" THEN "none" ELSE "committed"]
  /\ SetTask(s, [task[s] EXCEPT !.todo = @ \ {t}])
  /\ UNCHANGED <<rec, old, undo>> /\ NotByTask

(* clearUndoBuffer, or clearUndoBuffersByKeys after a dispatch.             *)
TaskUndo(s) ==
  LET byKeys == task[s].others # {} \/ task[s].kind = "callee"
  IN  /\ At(s, "parts") /\ task[s].todo = {}
      /\ undo' = IF byKeys THEN undo \ task[s].keys ELSE {}
      /\ IF task[s].kind = "callee" THEN SetTask(s, NoTask)
         ELSE Stage(s, IF byKeys THEN "verify" ELSE "record")
      /\ UNCHANGED <<rec, old, part>> /\ NotByTask

TaskVerify_Skip(s) ==
  /\ At(s, "verify")
  /\ Stage(s, "record")
  /\ UNCHANGED meta /\ NotByTask
TaskVerify(s) ==
  /\ At(s, "verify")
  /\ IF undo # {} THEN SetTask(s, NoTask) ELSE Stage(s, "record")
  /\ UNCHANGED meta /\ NotByTask

(* removeTransactionRecord, setTransactionRecordCleanTime: both put.        *)
TaskRecord(s) ==
  /\ At(s, "record")
  /\ rec' = IF task[s].kind = "abort" THEN "none" ELSE "Cleaned"
  /\ old' = FALSE
  /\ SetTask(s, NoTask)
  /\ UNCHANGED <<undo, part>> /\ NotByTask

TaskThrows(s) ==
  /\ task[s] # NoTask /\ Fault
  /\ SetTask(s, NoTask)
  /\ UNCHANGED <<meta, object, thread, host, gc, reader, ddl>>
-----------------------------------------------------------------------------
(* A round of DaemonJobTxnGC: the records, then the undo buffers.           *)
GCTo(stage, saw) == gc' = [stage |-> stage, saw |-> saw]
NotByGC == UNCHANGED <<old, undo, part, object, thread, host, reader, ddl>>

GCScan ==
  /\ gc.stage = "records"
  /\ GCTo("judge", IF rec = "Cleaned" /\ old THEN "Old" ELSE rec)
  /\ UNCHANGED <<rec, task, faults>> /\ NotByGC

(* cleanTransaction goes to the server of the record, which is first asked  *)
(* whether a running one is active, or to the host of the main table; to    *)
(* another server, without asking, when that one is not in the pool.        *)
Target_Recorded(s) ==
  \/ gc.saw = "Running"  /\ s = Home /\ ~ active
  \/ gc.saw = "Aborted"  /\ s = Home
  \/ gc.saw = "Finished" /\ s \in {host[t] : t \in Tables}
Target(s) ==
  \/ gc.saw = "Running"  /\ s = Home /\ ~ active
  \/ gc.saw = "Aborted"  /\ s = Home
  \/ gc.saw = "Finished" /\ s \in {host[t] : t \in Tables}
  \/ gc.saw = "Missing"
GCClean(s) ==
  /\ gc.stage = "judge"
  /\ \/ Target(s) /\ UNCHANGED faults
     \/ gc.saw \in {"Running", "Aborted"} /\ s # Home /\ Fault
  /\ IF task[s] # NoTask THEN UNCHANGED task
     ELSE SetTask(s, [NoTask EXCEPT !.kind = IF gc.saw = "Finished" THEN "commit" ELSE "abort",
                                    !.stage = IF gc.saw = "Running" THEN "active" ELSE "read"])
  /\ GCTo(IF gc.saw = "Missing" THEN "records" ELSE "undo", "none")
  /\ UNCHANGED rec /\ NotByGC

GCRemove_Young ==
  /\ gc.stage = "judge" /\ gc.saw \in {"Cleaned", "Old"}
  /\ rec' = "none" /\ GCTo("undo", "none")
  /\ UNCHANGED <<task, faults>> /\ NotByGC
GCRemove ==
  /\ gc.stage = "judge" /\ gc.saw = "Old"
  /\ rec' = "none" /\ GCTo("undo", "none")
  /\ UNCHANGED <<task, faults>> /\ NotByGC

GCNothing ==
  /\ gc.stage = "judge" /\ gc.saw # "Old" /\ (\A s \in Servers : ~ Target(s))
  /\ GCTo("undo", "none")
  /\ UNCHANGED <<rec, task, faults>> /\ NotByGC

GCThrows ==
  /\ gc.stage = "judge" /\ Fault
  /\ GCTo("undo", "none")
  /\ UNCHANGED <<rec, task>> /\ NotByGC

(* cleanUndoBuffers: undo buffers of transactions without a record.         *)
GCScanUndo ==
  /\ gc.stage = "undo"
  /\ GCTo(IF undo = {} THEN "records" ELSE "missing", "none")
  /\ UNCHANGED <<rec, task, faults>> /\ NotByGC

GCMissing_Blind ==
  /\ gc.stage = "missing"
  /\ GCTo("judge", "Missing")
  /\ UNCHANGED <<rec, task, faults>> /\ NotByGC
GCMissing ==
  /\ gc.stage = "missing"
  /\ IF rec = "none" THEN GCTo("judge", "Missing") ELSE GCTo("records", "none")
  /\ UNCHANGED <<rec, task, faults>> /\ NotByGC
-----------------------------------------------------------------------------
(* A query: the parts, then the records of the transactions of the parts    *)
(* without a commit time.                                                   *)
ReadParts ==
  /\ "reader" \in Actors /\ reader.stage = "idle"
  /\ reader' = [reader EXCEPT !.stage = "parts", !.snap = part, !.acked = result = "committed"]
  /\ UNCHANGED <<meta, object, thread, task, host, gc, ddl, faults>>

isCommitted_IgnoreStatus == {t \in Tables : reader.snap[t] # "none"}
isCommitted == {t \in Tables : Visible(t, reader.snap)}

ReadRecords ==
  /\ reader.stage = "parts"
  /\ reader' = [reader EXCEPT !.stage = "done", !.sees = isCommitted, !.snap = NoParts]
  /\ UNCHANGED <<meta, object, thread, task, host, gc, ddl, faults>>

(* cnch_txn_safe_remove_seconds are longer than any read of the metadata.   *)
Age ==
  /\ rec = "Cleaned" /\ ~ old /\ reader.stage # "parts"
  /\ old' = TRUE
  /\ UNCHANGED <<rec, undo, part, object, thread, task, host, gc, reader, ddl, faults>>
-----------------------------------------------------------------------------
(* IntentLock::writeIntents of another transaction, of the same priority:   *)
(* the intent of this one, its record, its status on its server.            *)
NotByDDL == UNCHANGED <<old, undo, part, object, thread, task, host, gc, reader, faults>>
Served == [stage |-> "done", saw |-> "none"]

Conflict ==
  /\ ddl.stage = "idle"
  /\ pc["query"] \notin {"new", "created"} /\ result = "none"
  /\ ddl' = [ddl EXCEPT !.stage = "record"]
  /\ UNCHANGED rec /\ NotByDDL

ConflictRecord ==
  /\ ddl.stage = "record"
  /\ ddl' = IF rec \in {"none", "Running"} THEN [stage |-> "status", saw |-> rec] ELSE Served
  /\ UNCHANGED rec /\ NotByDDL

ConflictStatus ==
  /\ ddl.stage = "status"
  /\ ddl' = IF ~ active /\ ddl.saw = "Running" THEN [ddl EXCEPT !.stage = "rollback"] ELSE Served
  /\ UNCHANGED rec /\ NotByDDL

rollbackTransaction ==
  /\ ddl.stage = "rollback"
  /\ rec' = "Aborted"
  /\ ddl' = Served
  /\ NotByDDL
-----------------------------------------------------------------------------
Crash(s) ==
  /\ Fault
  /\ SetTask(s, NoTask)
  /\ IF s = Home
       THEN /\ active' = FALSE /\ owner' = "none" /\ force' = FALSE
            /\ mem' = "Running" /\ prepared' = FALSE /\ actions' = {}
            /\ pc' = [p \in Threads |-> "done"] /\ todo' = [p \in Threads |-> {}]
       ELSE UNCHANGED <<object, pc, todo>>
  /\ UNCHANGED <<meta, result, host, gc, reader, ddl>>

Move(t, s) ==
  /\ Fault /\ s # host[t]
  /\ host' = [host EXCEPT ![t] = s]
  /\ UNCHANGED <<meta, object, thread, task, gc, reader, ddl>>

QueryStep ==
  \/ CreateTxn \/ Activate \/ \E t \in Tables : WriteUndo(t) \/ executeV2(t)
  \/ QueryFails \/ precommit \/ ExecuteThrows \/ Prepared \/ Dedup \/ commit \/ abort \/ rollback
ThreadStep(p) ==
  \/ Compare(p) \/ finishTransaction(p) \/ CheckEnded(p) \/ CleanAbort(p) \/ Clean(p) \/ CleanUndo(p)
  \/ CleanRecord(p) \/ CleanThrows(p) \/ \E t \in Tables : CleanPart(p, t)
TaskStep(s) ==
  \/ TaskActive(s) \/ TaskAbort(s) \/ TaskRead(s) \/ TaskDispatch(s) \/ TaskUndo(s)
  \/ TaskVerify(s) \/ TaskRecord(s) \/ TaskThrows(s) \/ \E t \in Tables : TaskPart(s, t)
GCStep ==
  \/ GCScan \/ GCRemove \/ GCNothing \/ GCThrows \/ GCScanUndo \/ GCMissing
  \/ \E s \in Servers : GCClean(s)
ReaderStep == ReadParts \/ ReadRecords \/ Age
DDLStep == Conflict \/ ConflictRecord \/ ConflictStatus \/ rollbackTransaction

Next ==
  \/ QueryStep \/ Compare("cancel") \/ CancelMerge \/ GCStep \/ ReaderStep
  \/ \E p \in Threads : ThreadStep(p)
  \/ \E s \in Servers : TaskStep(s) \/ Crash(s) \/ \E t \in Tables : Move(t, s)

(* Of a transaction that no intent lock meets, and of any.                  *)
Spec == Init /\ [][Next]_vars
DDLSpec == Init /\ [][Next \/ DDLStep]_vars

(* The threads, the pools and the daemon go on, a putCAS that compared      *)
(* puts, and the mutex of the transaction starves nobody; nothing has to    *)
(* crash, move, be cancelled or be expired.                                 *)
Fairness ==
  /\ SF_vars(QueryStep) /\ SF_vars(ThreadStep("query"))
  /\ SF_vars(pc["scan"] # "idle" /\ ThreadStep("scan")) /\ WF_vars(owner = "cancel" /\ CancelMerge)
  /\ WF_vars(GCStep) /\ WF_vars(ReadRecords) /\ WF_vars(Age)
  /\ \A s \in Servers : WF_vars(TaskStep(s))
LiveSpec == Spec /\ Fairness
-----------------------------------------------------------------------------
Labels == {"new", "created", "write", "execute", "dedup", "commit", "abort", "rollback", "finish", "idle",
           "check", "cleanAbort", "clean", "postCommit", "abortParts", "stamp", "remove", "done"}
Stages == {"off", "active", "cas", "read", "dispatch", "parts", "verify", "record"}
          \cup IF Metastore = "FDB" THEN {"put"} ELSE {}
Tasks == [kind : {"none", "abort", "commit", "callee"}, stage : Stages, todo : SUBSET Tables,
          keys : SUBSET Tables, others : SUBSET Servers]
TypeOK ==
  /\ rec \in {"none", "Running", "Finished", "Cleaned", "Aborted"} /\ old \in BOOLEAN
  /\ undo \subseteq Tables /\ part \in [Tables -> {"none", "intermediate", "committed"}]
  /\ mem \in {"Running", "Finished", "Aborted", "Unknown"} /\ prepared \in BOOLEAN
  /\ actions \subseteq Tables /\ active \in BOOLEAN /\ force \in BOOLEAN
  /\ owner \in Threads \cup {"none", "cancel"} /\ pc \in [Threads -> Labels]
  /\ todo \in [Threads -> SUBSET Tables] /\ result \in {"none", "committed", "error"}
  /\ task \in [Servers -> Tasks]
  /\ host \in [Tables -> Servers] /\ faults \in 0 .. MaxFaults
  /\ gc \in [stage : {"records", "judge", "undo", "missing"},
             saw : {"none", "Running", "Finished", "Cleaned", "Old", "Aborted", "Missing"}]
  /\ reader \in [stage : {"idle", "parts", "done"}, snap : [Tables -> {"none", "intermediate", "committed"}],
                 acked : BOOLEAN, sees : SUBSET Tables]
  /\ ddl \in [stage : {"idle", "record", "status", "rollback", "done"}, saw : {"none", "Running"}]

(* A transaction whose client was told that it is committed stays readable: *)
(* every part has its commit time, or the record says Finished.  No clean   *)
(* task, expiry, daemon or crash undoes what commitV2 returned.             *)
AckedVisible == result = "committed" => \A t \in Tables : Visible(t, part)

(* The transaction is one atomic decision: whatever the coordinator, the    *)
(* scan, the clean tasks and the daemon do to the record, the undo buffer   *)
(* and the parts, and also after the record is gone, a committed one does   *)
(* not turn into an aborted one or the reverse.                             *)
Committed ==
  rec \in {"Finished", "Cleaned"} \/ (rec = "none" /\ \A t \in Tables : part[t] = "committed")
Outcome ==
  IF Committed THEN "committed"
  ELSE IF rec = "Running" \/ (rec = "none" /\ pc["query"] = "new") THEN "open" ELSE "aborted"
A == INSTANCE AtomicTxn WITH outcome <- Outcome, told <- result
TxnIsAtomic == A!AtomicSpec

(* A query that starts after the answer sees every part, although it reads  *)
(* the parts and the record at different times (getCommitted.h).            *)
ReadersSeeCommits == reader.stage = "done" /\ reader.acked => reader.sees = Tables

(* What a query has seen stays: the transaction is not aborted any more and *)
(* all of its parts are readable.                                           *)
ReadsAreFinal ==
  reader.sees # {} => rec \notin {"Running", "Aborted"} /\ \A t \in Tables : Visible(t, part)

(* As long as a part of a committed transaction lacks its commit time, its  *)
(* undo buffer and its record are there for the next clean to finish.       *)
CommitsAreRecoverable ==
  rec \in {"Finished", "Cleaned"} =>
    \A t \in Tables : part[t] # "committed" => t \in undo /\ rec = "Finished"

(* Finished and Aborted are final: the record only goes on to be removed.   *)
StatusIsFinal ==
  [][/\ rec = "Aborted" => rec' \in {"Aborted", "none"}
     /\ rec \in {"Finished", "Cleaned"} => rec' \in {rec, "Cleaned", "none"}]_vars

(* Every transaction leaves neither a record nor an undo buffer behind.     *)
EventuallyCleaned == <>[](rec = "none" /\ undo = {})
-----------------------------------------------------------------------------
(* The inductive invariant behind the safety properties, where putCAS is    *)
(* atomic and for transactions that no intent lock meets.                   *)

(* The query may still commit; or the transaction is not, and will not be,  *)
(* committed.                                                               *)
Early == {"created", "write", "execute", "dedup", "commit"}
MayCommit == pc["query"] = "new" \/ (pc["query"] \in Early /\ rec = "Running")
Aborting == ~ Committed /\ ~ MayCommit

(* A part without its commit time has an undo buffer and a Finished record. *)
PartsOK ==
  /\ Committed =>
       /\ rec # "Finished" => undo = {}
       /\ \A t \in Tables : part[t] = "committed" \/ (part[t] = "intermediate" /\ t \in undo /\ rec = "Finished")
  /\ ~ Committed => \A t \in Tables : part[t] # "committed"

QueryOK ==
  /\ pc["query"] = "new" => rec = "none" /\ undo = {} /\ actions = {}
  /\ pc["query"] \in Early \cup {"new", "rollback"} => ~ Committed
  /\ pc["query"] \in Early \cup {"new", "rollback", "abort"} => result = "none"
  /\ pc["query"] \in {"execute", "dedup", "commit"} => actions = Tables
  /\ pc["query"] \in Early /\ MayCommit =>
       /\ actions \subseteq undo
       /\ pc["query"] = "execute" => \A t \in Tables \ todo["query"] : part[t] = "intermediate"
       /\ pc["query"] \in {"dedup", "commit"} => \A t \in Tables : part[t] = "intermediate"
  /\ result = "committed" => Committed

(* What the CnchServerTransaction knows.  After a crash nothing uses it.    *)
ObjectOK ==
  /\ mem = "Finished" => Committed
  /\ mem = "Aborted" => Aborting
  /\ active => pc["query"] \in Early \cup {"rollback", "abort", "finish"}
  /\ Committed /\ (\E p \in Threads : pc[p] # "done") => actions = Tables

ThreadOK(p) ==
  /\ pc[p] = "clean" => mem = "Finished" \/ Aborting
  /\ pc[p] \in {"abortParts", "remove"} => Aborting
  /\ pc[p] \in {"postCommit", "stamp"} => Committed
  /\ pc[p] = "postCommit" => \A t \in Tables \ todo[p] : part[t] = "committed"
  /\ pc[p] = "stamp" => undo = {} /\ \A t \in Tables : part[t] = "committed"

TaskOK(s) ==
  /\ task[s].kind = "none" => task[s].stage = "off"
  /\ task[s].kind = "callee" => task[s].stage \in {"read", "parts"}
  /\ task[s].stage = "dispatch" => task[s].kind = "commit" /\ task[s].others # {}
  /\ task[s].kind = "abort" => task[s].stage \in {"active", "cas"} \/ Aborting
  /\ task[s].kind \in {"commit", "callee"} =>
       /\ Committed
       /\ task[s].stage \in {"dispatch", "parts"} => \A t \in task[s].keys \ task[s].todo : part[t] = "committed"
  /\ task[s].kind = "commit" =>
       /\ task[s].stage \in {"read", "dispatch", "parts", "verify", "record"}
       /\ task[s].stage = "parts" /\ task[s].others = {} => undo \subseteq task[s].keys
       /\ task[s].stage = "record" => undo = {}

GCOK ==
  /\ gc.saw = "Finished" => Committed
  /\ gc.saw \in {"Aborted", "Missing"} => Aborting
  /\ gc.saw = "Old" => undo = {} /\ Committed /\ \A t \in Tables : part[t] = "committed"
  /\ gc.stage = "missing" => pc["query"] # "new" /\ ~ (rec = "none" /\ Committed)

(* A query that met a part without its commit time will find the record.    *)
ReaderOK ==
  /\ reader.stage = "parts" =>
       /\ reader.acked => Committed /\ \A t \in Tables : reader.snap[t] # "none"
       /\ (\E t \in Tables : reader.snap[t] = "committed") => Committed
       /\ (\E t \in Tables : reader.snap[t] = "intermediate") =>
            gc.saw # "Old" /\ ~ (rec = "Cleaned" /\ old) /\ ~ (rec = "none" /\ Committed)
  /\ reader.sees # {} => Committed

(* The inductive invariant: what is known to be committed or to be aborting *)
(* by everyone who acts on it, and how far the commit and its clean are.    *)
TxnInv ==
  /\ ddl.stage = "idle" /\ TypeOK /\ PartsOK /\ QueryOK /\ ObjectOK /\ GCOK /\ ReaderOK /\ ReadersSeeCommits
  /\ (\A p \in Threads : ThreadOK(p)) /\ \A s \in Servers : TaskOK(s)
=============================================================================
