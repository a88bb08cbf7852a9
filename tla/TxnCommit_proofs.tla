-------------------------- MODULE TxnCommit_proofs --------------------------
(***************************************************************************)
(* A transaction that no intent lock meets is one atomic decision, for any *)
(* tables, servers and number of faults, where the putCAS of the metastore *)
(* is atomic, as it is on ByteKV.                                          *)
(***************************************************************************)
EXTENDS TxnCommit, TLAPS

(* What a step leaves of a decision: committed stays committed, and no part *)
(* loses its commit time; aborting stays aborting.                          *)
Kept ==
  /\ Committed => Committed' /\ undo' \subseteq undo
  /\ Committed => \A t \in Tables : part[t] = "committed" => part'[t] = "committed"
  /\ Aborting => Aborting'

(* The step removes the record of a committed transaction.                  *)
Removed == rec' = "none" /\ Committed' /\ ~ (rec = "none" /\ Committed)

(* Whoever does not take part in a step keeps what they rely on.            *)
LEMMA ThreadKept ==
  ASSUME NEW p, ThreadOK(p), Kept, pc'[p] = pc[p], todo'[p] = todo[p], mem = "Finished" => mem' = "Finished"
  PROVE  ThreadOK(p)'
BY Zenon DEF ThreadOK, Kept

LEMMA TaskKept ==
  ASSUME NEW s, TaskOK(s), Kept, task'[s] = task[s], TypeOK, s \in Servers
  PROVE  TaskOK(s)'
<1>1. task[s].keys \subseteq Tables
  BY DEF TypeOK, Tasks
<1> QED BY <1>1, Zenon DEF TaskOK, Kept

LEMMA GCKept ==
  ASSUME GCOK, Kept, gc' = gc, pc'["query"] = "new" => pc["query"] = "new", ~ Removed
  PROVE  GCOK'
BY Zenon DEF GCOK, Kept, Removed

LEMMA ReaderKept ==
  ASSUME ReaderOK, ReadersSeeCommits, Kept, reader' = reader, ~ Removed,
         gc'.saw = "Old" => gc.saw = "Old" \/ (rec = "Cleaned" /\ old),
         rec' = "Cleaned" /\ old' => rec = "Cleaned" /\ old
  PROVE  ReaderOK' /\ ReadersSeeCommits'
BY Zenon DEF ReaderOK, ReadersSeeCommits, Kept, Removed

(* What is left to show of a step that neither the daemon nor the reader    *)
(* takes.                                                                   *)
LEMMA StepBy ==
  ASSUME TxnInv, TypeOK', PartsOK', QueryOK', ObjectOK', Kept, ~ Removed,
         pc'["query"] = "new" => pc["query"] = "new",
         rec' = "Cleaned" /\ old' => rec = "Cleaned" /\ old,
         UNCHANGED <<gc, reader, ddl>>,
         \A p \in Threads : \/ ThreadOK(p)'
                            \/ pc'[p] = pc[p] /\ todo'[p] = todo[p] /\ (mem = "Finished" => mem' = "Finished"),
         \A s \in Servers : TaskOK(s)' \/ task'[s] = task[s]
  PROVE  TxnInv'
<1>1. \A p \in Threads : ThreadOK(p)'
  BY ThreadKept, Zenon DEF TxnInv
<1>2. \A s \in Servers : TaskOK(s)'
  BY TaskKept, Zenon DEF TxnInv
<1>3. GCOK' /\ ReaderOK' /\ ReadersSeeCommits'
  BY GCKept, ReaderKept, Zenon DEF TxnInv
<1> QED BY <1>1, <1>2, <1>3, Zenon DEF TxnInv

(* A table that is not committed keeps the record from counting as removed  *)
(* after a commit.                                                          *)
LEMMA NotCommitted ==
  ASSUME rec \notin {"Finished", "Cleaned"}, rec = "none" => \A t \in Tables : part[t] # "committed"
  PROVE  ~ Committed
BY TxnAssumption, Zenon DEF Committed

(* Steps that leave the record and the parts alone, and the query where it  *)
(* cannot commit if it could not before.                                    *)
LEMMA SameDecision ==
  ASSUME UNCHANGED <<rec, part>>, pc'["query"] = "new" => pc["query"] = "new",
         pc'["query"] \in Early => pc["query"] \in Early
  PROVE  /\ Committed' = Committed /\ (MayCommit' => MayCommit) /\ (Aborting => Aborting') /\ ~ Removed
         /\ (Committed => undo' \subseteq undo) => Kept
<1>1. Committed' = Committed
  BY Zenon DEF Committed
<1>2. MayCommit' => MayCommit
  BY Zenon DEF MayCommit, Early
<1>3. Aborting => Aborting'
  BY <1>1, <1>2, Zenon DEF Aborting
<1> QED BY <1>1, <1>2, <1>3, Zenon DEF Kept, Removed

(* Steps of a thread that leave the metastore and the record in memory      *)
(* alone.                                                                   *)
LEMMA ThreadMoves ==
  ASSUME TxnInv, UNCHANGED <<meta, mem, actions, task, gc, reader, ddl>>,
         pc'["query"] = "new" => pc["query"] = "new",
         pc'["query"] \in Early => pc["query"] \in Early,
         TypeOK', QueryOK', ObjectOK',
         \A p \in Threads : ThreadOK(p)' \/ (pc'[p] = pc[p] /\ todo'[p] = todo[p])
  PROVE  TxnInv'
<1>1. UNCHANGED <<rec, old, undo, part>> /\ UNCHANGED <<gc, reader, ddl>> /\ mem' = mem /\ task' = task
  BY Zenon DEF meta
<1>2. Committed' = Committed /\ Kept /\ ~ Removed
  BY <1>1, SameDecision, Zenon
<1>3. PartsOK'
  BY <1>1, <1>2, Zenon DEF TxnInv, PartsOK
<1> QED BY <1>1, <1>2, <1>3, StepBy, Zenon
-----------------------------------------------------------------------------
(* The query. *)
LEMMA PC == TypeOK => DOMAIN pc = Threads /\ DOMAIN todo = Threads /\ "query" \in Threads /\ "scan" \in Threads
BY Zenon DEF TypeOK, Threads

(* A thread that goes somewhere leaves the other one where it is.           *)
LEMMA GotoFacts ==
  ASSUME NEW p \in Threads, NEW l, TypeOK, Goto(p, l)
  PROVE  /\ pc'[p] = l /\ \A q \in Threads \ {p} : pc'[q] = pc[q]
         /\ l \in Labels => pc' \in [Threads -> Labels]
<1>1. pc \in [Threads -> Labels] /\ pc' = [pc EXCEPT ![p] = l]
  BY Zenon DEF TypeOK, Goto
<1> QED BY <1>1, Zenon

LEMMA CreateTxnInv == TxnInv /\ CreateTxn => TxnInv'
<1> SUFFICES ASSUME TxnInv, CreateTxn PROVE TxnInv'
  OBVIOUS
<1>1. TypeOK /\ "query" \in Threads
  BY PC, Zenon DEF TxnInv
<1>2. pc["query"] = "new" /\ rec = "none" /\ undo = {} /\ actions = {} /\ result = "none" /\ ~ Committed /\ ~ Aborting /\ ~ active
  BY Zenon DEF TxnInv, QueryOK, ObjectOK, CreateTxn, Aborting, MayCommit, Early
<1>3. PICK l \in {"created", "done"} : Goto("query", l) /\ (l = "created" => rec' = "Running" /\ result' = result)
                                        /\ (l = "done" => result' = "error")
  BY Zenon DEF CreateTxn
<1>4. rec' \in {"none", "Running"} /\ UNCHANGED <<old, undo, part, mem, prepared, actions, active, force, owner, todo, task, host>>
      /\ UNCHANGED <<gc, reader, ddl>>
  BY <1>2, Zenon DEF CreateTxn, object
<1>5. pc'["query"] = l /\ pc'["scan"] = pc["scan"] /\ pc' \in [Threads -> Labels]
  BY <1>1, <1>3, GotoFacts, Zenon DEF Threads, Labels
<1>6. ~ Committed' /\ \A t \in Tables : part'[t] # "committed"
  BY <1>2, <1>4, TxnAssumption, Zenon DEF TxnInv, PartsOK, Committed
<1>7. Kept /\ ~ Removed /\ PartsOK'
  BY <1>2, <1>6, Zenon DEF Kept, Removed, PartsOK
<1>8. TypeOK'
  <2>1. faults' \in 0 .. MaxFaults
    BY <1>1, TxnAssumption DEF TypeOK, CreateTxn, Fault
  <2>2. result' \in {"none", "committed", "error"}
    BY <1>2, <1>3, Zenon
  <2> QED BY <1>1, <1>4, <1>5, <2>1, <2>2, SMT DEF TypeOK
<1>9. QueryOK'
  BY <1>2, <1>3, <1>4, <1>5, <1>6, Zenon DEF QueryOK, Early
<1>10. ObjectOK'
  <2>1. mem' # "Aborted"
    BY <1>2, <1>4, Zenon DEF TxnInv, ObjectOK
  <2>2. mem' # "Finished" /\ ~ active'
    BY <1>2, <1>4, Zenon DEF TxnInv, ObjectOK
  <2> QED BY <2>1, <2>2, <1>6, Zenon DEF ObjectOK
<1>11. \A p \in Threads : ThreadOK(p)' \/ (pc'[p] = pc[p] /\ todo'[p] = todo[p] /\ (mem = "Finished" => mem' = "Finished"))
  BY <1>3, <1>4, <1>5, Zenon DEF Threads, ThreadOK
<1> QED BY <1>2, <1>4, <1>7, <1>8, <1>9, <1>10, <1>11, StepBy, Zenon

(* Activate, QueryFails, precommit, ExecuteThrows, Prepared and Dedup go    *)
(* one step further, to where the parts and the actions allow it.           *)
LEMMA QueryMoves ==
  ASSUME NEW l \in {"write", "execute", "dedup", "commit", "abort", "rollback", "finish"},
         TxnInv, Goto("query", l), UNCHANGED <<meta, mem, actions, force, task, host, gc, reader, ddl>>,
         prepared' \in BOOLEAN, owner' \in Threads \cup {"none", "cancel"}, active' \in BOOLEAN,
         faults' \in 0 .. MaxFaults, todo' \in [Threads -> SUBSET Tables], todo'["scan"] = todo["scan"],
         pc["query"] \in Early,
         result' = result \/ (l = "finish" /\ result' = "error"),
         l = "finish" => result' = "error",
         l \in {"execute", "dedup", "commit"} => actions = Tables,
         l = "execute" => todo'["query"] = Tables,
         l \in {"dedup", "commit"} /\ MayCommit => \A t \in Tables : part[t] = "intermediate"
  PROVE  TxnInv'
<1>1. TypeOK /\ "query" \in Threads /\ "scan" \in Threads
  BY PC, Zenon DEF TxnInv
<1>2. pc'["query"] = l /\ pc'["scan"] = pc["scan"] /\ pc' \in [Threads -> Labels]
  <2>1. l \in Labels
    BY Zenon DEF Labels
  <2> QED BY <1>1, <2>1, GotoFacts, Zenon DEF Threads
<1>3. UNCHANGED <<rec, part, undo, old>>
  BY Zenon DEF meta
<1>4. pc["query"] # "new" /\ pc'["query"] # "new" /\ ~ Committed /\ result = "none"
  BY <1>2, Zenon DEF Early, TxnInv, QueryOK
<1>5. Committed' = Committed /\ (MayCommit' => MayCommit) /\ (Aborting => Aborting')
  BY <1>3, <1>4, SameDecision, Zenon
<1>6. TypeOK'
  <2>1. result' \in {"none", "committed", "error"}
    BY <1>1, Zenon DEF TypeOK
  <2> QED BY <1>1, <1>2, <1>3, <2>1, SMT DEF TypeOK
<1>7. QueryOK'
  <2>1. MayCommit' => actions' \subseteq undo'
    BY <1>3, <1>4, <1>5, Zenon DEF TxnInv, QueryOK
  <2>2. pc'["query"] \in Early \cup {"new", "rollback", "abort"} => result' = "none"
    BY <1>2, <1>4, Zenon DEF Early
  <2>3. MayCommit' /\ l \in {"dedup", "commit"} => \A t \in Tables : part'[t] = "intermediate"
    BY <1>3, <1>5, Zenon
  <2>4. result' # "committed"
    BY <1>4, Zenon
  <2> QED BY <1>2, <1>4, <1>5, <2>1, <2>2, <2>3, <2>4, Zenon DEF QueryOK
<1>8. ObjectOK'
  <2>1. mem' # "Finished" /\ ~ Committed'
    BY <1>4, <1>5, Zenon DEF TxnInv, ObjectOK
  <2>2. mem' = "Aborted" => Aborting'
    BY <1>5, Zenon DEF TxnInv, ObjectOK
  <2> QED BY <1>2, <2>1, <2>2, Zenon DEF ObjectOK, Early
<1>9. \A p \in Threads : ThreadOK(p)' \/ (pc'[p] = pc[p] /\ todo'[p] = todo[p])
  BY <1>2, Zenon DEF Threads, ThreadOK
<1> QED BY <1>3, <1>4, <1>6, <1>7, <1>8, <1>9, ThreadMoves, Zenon DEF Early

LEMMA FaultFacts == TypeOK /\ Fault => faults' \in 0 .. MaxFaults
BY TxnAssumption DEF TypeOK, Fault

LEMMA QueryMovesInv ==
  ASSUME TxnInv, Activate \/ QueryFails \/ precommit \/ ExecuteThrows \/ Prepared \/ Dedup
  PROVE  TxnInv'
<1>1. TypeOK /\ "query" \in Threads
  BY PC, Zenon DEF TxnInv
<1>2. QueryOK
  BY Zenon DEF TxnInv
<1>t. /\ prepared \in BOOLEAN /\ owner \in Threads \cup {"none", "cancel"} /\ active \in BOOLEAN
      /\ faults \in 0 .. MaxFaults /\ todo \in [Threads -> SUBSET Tables]
  BY <1>1, Zenon DEF TypeOK
<1>3. CASE Activate
  <2>1. UNCHANGED <<prepared, owner, faults, todo, result>>
    BY <1>3, Zenon DEF Activate
  <2> QED BY <1>t, <1>3, <2>1, QueryMoves, Zenon DEF Activate, Early
<1>4. CASE QueryFails
  <2>1. UNCHANGED <<mem, prepared, actions, active, force, owner>> /\ UNCHANGED <<faults, todo>>
    BY <1>4, Zenon DEF QueryFails, object
  <2> QED BY <1>t, <1>4, <2>1, QueryMoves, Zenon DEF QueryFails, Early
<1>5. CASE precommit
  <2>1. UNCHANGED <<prepared, active, faults, result>> /\ actions = Tables /\ pc["query"] = "write"
    BY <1>5, Zenon DEF precommit
  <2>2. CASE mem = "Running" /\ owner' = "query" /\ todo' = [todo EXCEPT !["query"] = actions] /\ Goto("query", "execute")
    <3>1. todo' \in [Threads -> SUBSET Tables] /\ todo'["query"] = Tables /\ todo'["scan"] = todo["scan"]
      BY <1>t, <1>1, <2>1, <2>2, Zenon DEF Threads
    <3> QED BY <1>t, <1>1, <1>5, <2>1, <2>2, <3>1, QueryMoves, Zenon DEF precommit, Early
  <2>3. CASE Goto("query", "abort") /\ UNCHANGED <<owner, todo>>
    BY <1>t, <1>5, <2>1, <2>3, QueryMoves, Zenon DEF precommit, Early
  <2> QED BY <1>5, <2>2, <2>3, Zenon DEF precommit
<1>6. CASE ExecuteThrows
  <2>1. UNCHANGED <<prepared, active, todo, result>> /\ owner' = "none" /\ faults' \in 0 .. MaxFaults
    BY <1>1, <1>6, FaultFacts, Zenon DEF ExecuteThrows
  <2>2. PICK l \in {"abort", "rollback"} : Goto("query", l)
    BY <1>6, Zenon DEF ExecuteThrows
  <2> QED BY <1>t, <1>6, <2>1, <2>2, QueryMoves, Zenon DEF ExecuteThrows, Early
<1>7. CASE Prepared
  <2>1. UNCHANGED <<faults, active, todo, result>> /\ owner' = "none" /\ prepared' = TRUE
    BY <1>7, Zenon DEF Prepared
  <2>2. actions = Tables /\ (MayCommit => \A t \in Tables : part[t] = "intermediate")
    BY <1>2, <1>7, Zenon DEF Prepared, QueryOK, Early
  <2> QED BY <1>t, <1>7, <2>1, <2>2, QueryMoves, Zenon DEF Prepared, Early
<1>8. CASE Dedup
  <2>1. UNCHANGED <<mem, prepared, actions, active, force, owner>> /\ UNCHANGED <<faults, todo, result>>
    BY <1>8, Zenon DEF Dedup, object
  <2>2. PICK l \in {"commit", "abort", "rollback"} : Goto("query", l)
    BY <1>8, Zenon DEF Dedup
  <2>3. actions = Tables /\ (MayCommit => \A t \in Tables : part[t] = "intermediate")
    BY <1>2, <1>8, Zenon DEF Dedup, QueryOK, Early
  <2> QED BY <1>t, <1>8, <2>1, <2>2, <2>3, QueryMoves, Zenon DEF Dedup, Early
<1> QED BY <1>3, <1>4, <1>5, <1>6, <1>7, <1>8, Zenon

LEMMA WriteUndoInv == ASSUME NEW t \in Tables, TxnInv, WriteUndo(t) PROVE TxnInv'
<1>1. TypeOK /\ QueryOK /\ ObjectOK /\ PartsOK /\ pc["query"] = "write" /\ undo' = undo \cup {t} /\ actions' = actions \cup {t}
  BY Zenon DEF TxnInv, WriteUndo
<1>2. UNCHANGED <<rec, old, part, mem, prepared, active, force, owner, pc, todo, result>> /\ UNCHANGED <<task, host, gc, reader, ddl, faults>>
  BY Zenon DEF WriteUndo, thread
<1>3. ~ Committed /\ pc["query"] \in Early
  BY <1>1, Zenon DEF QueryOK, Early
<1>4. Committed' = Committed /\ (MayCommit' => MayCommit) /\ (Aborting => Aborting') /\ ~ Removed /\ Kept
  BY <1>2, <1>3, SameDecision, Zenon
<1>5. TypeOK'
  BY <1>1, <1>2, SMT DEF TypeOK
<1>6. PartsOK'
  BY <1>1, <1>2, <1>3, <1>4, Zenon DEF PartsOK
<1>7. QueryOK'
  <2>1. MayCommit' => actions' \subseteq undo'
    BY <1>1, <1>3, <1>4, Zenon DEF QueryOK
  <2> QED BY <1>1, <1>2, <1>3, <1>4, <2>1, Zenon DEF QueryOK
<1>8. ObjectOK'
  BY <1>1, <1>2, <1>3, <1>4, Zenon DEF ObjectOK
<1> QED BY <1>2, <1>4, <1>5, <1>6, <1>7, <1>8, StepBy, Zenon

LEMMA executeV2Inv == ASSUME NEW t \in Tables, TxnInv, executeV2(t) PROVE TxnInv'
<1>1. TypeOK /\ QueryOK /\ ObjectOK /\ PartsOK /\ pc["query"] = "execute"
  BY Zenon DEF TxnInv, executeV2
<1>2. UNCHANGED <<rec, old, undo, mem, prepared, actions, active, force, owner, pc, result>> /\ UNCHANGED <<task, host, gc, reader, ddl, faults>>
  BY Zenon DEF executeV2, object
<1>3. ~ Committed /\ pc["query"] \in Early /\ \A u \in Tables : part[u] # "committed"
  BY <1>1, Zenon DEF QueryOK, Early, PartsOK
<1>4. /\ part' \in [Tables -> {"none", "intermediate", "committed"}]
      /\ part'[t] = "intermediate" /\ \A u \in Tables \ {t} : part'[u] = part[u]
  BY <1>1, Zenon DEF TypeOK, executeV2
<1>5. /\ todo' \in [Threads -> SUBSET Tables]
      /\ todo'["query"] = todo["query"] \ {t} /\ todo'["scan"] = todo["scan"]
  <2>1. todo \in [Threads -> SUBSET Tables] /\ todo' = [todo EXCEPT !["query"] = todo["query"] \ {t}]
    BY <1>1, Zenon DEF TypeOK, executeV2
  <2> QED BY <2>1 DEF Threads
<1>6. \A u \in Tables : part'[u] # "committed"
  BY <1>3, <1>4, Zenon
<1>7. ~ Committed'
  BY <1>2, <1>3, <1>6, TxnAssumption, Zenon DEF Committed
<1>8. (MayCommit' <=> MayCommit) /\ Kept /\ ~ Removed
  BY <1>2, <1>3, <1>7, Zenon DEF MayCommit, Kept, Removed, Aborting
<1>9. TypeOK'
  BY <1>1, <1>2, <1>4, <1>5, SMT DEF TypeOK
<1>10. PartsOK'
  BY <1>6, <1>7, Zenon DEF PartsOK
<1>11. QueryOK'
  <2>1. MayCommit' => \A u \in Tables \ todo'["query"] : part'[u] = "intermediate"
    BY <1>1, <1>3, <1>4, <1>5, <1>8, Zenon DEF QueryOK
  <2> QED BY <1>1, <1>2, <1>3, <1>7, <1>8, <2>1, Zenon DEF QueryOK
<1>12. ObjectOK'
  BY <1>1, <1>2, <1>3, <1>7, <1>8, Zenon DEF ObjectOK, Aborting
<1>13. \A p \in Threads : ThreadOK(p)' \/ (pc'[p] = pc[p] /\ todo'[p] = todo[p] /\ (mem = "Finished" => mem' = "Finished"))
  BY <1>1, <1>2, <1>5, Zenon DEF Threads, ThreadOK
<1> QED BY <1>2, <1>8, <1>9, <1>10, <1>11, <1>12, <1>13, StepBy, Zenon
-----------------------------------------------------------------------------
(* The compare-and-set of the record.                                       *)

(* It aborts a running record or leaves it, and leaves in memory what is    *)
(* known of it.                                                             *)
LEMMA AbortFacts ==
  ASSUME NEW p, Metastore = "ByteKV", TxnInv, mem # "Finished", SetRecord(p, "Aborted") \/ SetRecordThrows(p, "Aborted"), UNCHANGED part,
         pc'["query"] = "new" => pc["query"] = "new",
         pc'["query"] \in Early => pc["query"] \in Early
  PROVE  /\ rec' = rec \/ (rec = "Running" /\ rec' = "Aborted")
         /\ Committed' = Committed /\ (MayCommit' => MayCommit) /\ (Aborting => Aborting')
         /\ ~ Removed /\ ((Committed => undo' \subseteq undo) => Kept)
         /\ (mem' = "Finished" => Committed') /\ (mem' = "Aborted" => Aborting')
         /\ rec' \in {"none", "Running", "Finished", "Cleaned", "Aborted"}
         /\ mem' \in {"Running", "Finished", "Aborted", "Unknown"}
         /\ prepared' \in BOOLEAN /\ faults' \in 0 .. MaxFaults
<1>1. TypeOK /\ QueryOK /\ ObjectOK
  BY Zenon DEF TxnInv
<1>t. /\ rec \in {"none", "Running", "Finished", "Cleaned", "Aborted"} /\ mem \in {"Running", "Aborted", "Unknown"}
      /\ prepared \in BOOLEAN /\ faults \in 0 .. MaxFaults
  BY <1>1, Zenon DEF TypeOK
<1>2. Seen = "Finished" => rec \in {"Finished", "Cleaned"}
  BY <1>t, Zenon DEF Seen
<1>3. Seen = "Aborted" => rec = "Aborted"
  BY <1>t, Zenon DEF Seen
<1>4. Seen \in {"Running", "Finished", "Aborted", "Unknown"}
  BY <1>t, Zenon DEF Seen
<1>5. prepared' \in BOOLEAN /\ faults' \in 0 .. MaxFaults
  <2>1. CASE SetRecord(p, "Aborted")
    BY <1>t, <2>1 DEF SetRecord
  <2>2. CASE SetRecordThrows(p, "Aborted")
    BY <1>1, <1>t, <2>2, FaultFacts, Zenon DEF SetRecordThrows
  <2> QED BY <2>1, <2>2, Zenon
<1>6. rec' = rec \/ (rec = mem /\ rec' = "Aborted")
  BY Zenon DEF SetRecord, SetRecordThrows, Puts
<1>7. rec' = rec \/ (rec = "Running" /\ rec' = "Aborted")
  BY <1>6, <1>t, Zenon
<1>8. Committed' = Committed
  BY <1>7, Zenon DEF Committed
<1>9. MayCommit' => MayCommit
  BY <1>7, Zenon DEF MayCommit, Early
<1>10. Aborting => Aborting'
  BY <1>8, <1>9, Zenon DEF Aborting
<1>11. ~ Removed
  BY <1>7, <1>8, Zenon DEF Removed
<1>12. (Committed => undo' \subseteq undo) => Kept
  BY <1>8, <1>10, Zenon DEF Kept
<1>13. mem' \in {mem, Seen, "Aborted"} /\ (mem' = "Finished" => mem' = Seen)
  BY <1>t, Zenon DEF SetRecord, SetRecordThrows, Puts
<1>14. mem' = "Finished" => Committed'
  BY <1>2, <1>8, <1>13, Zenon DEF Committed
<1>15. rec' = "Aborted" => Aborting'
  <2>1. rec = "none" \/ pc["query"] # "new"
    BY <1>1, Zenon DEF QueryOK
  <2> QED BY <2>1, <1>7, Zenon DEF Aborting, MayCommit, Committed, Early
<1>16. mem' = "Aborted" => mem = "Aborted" \/ rec' = "Aborted"
  BY <1>3, Zenon DEF SetRecord, SetRecordThrows, Puts
<1>17. mem' = "Aborted" => Aborting'
  BY <1>1, <1>10, <1>15, <1>16, Zenon DEF ObjectOK
<1>18. mem' \in {"Running", "Finished", "Aborted", "Unknown"}
  BY <1>t, <1>4, <1>13, Zenon
<1>19. rec' \in {"none", "Running", "Finished", "Cleaned", "Aborted"}
  BY <1>t, <1>7, Zenon
<1> QED BY <1>5, <1>7, <1>8, <1>9, <1>10, <1>11, <1>12, <1>14, <1>17, <1>18, <1>19, Zenon

(* Steps of a thread that change the record and what memory knows of it.    *)
LEMMA RecordMoves ==
  ASSUME TxnInv, TypeOK', QueryOK', Kept, ~ Removed, Committed' = Committed, UNCHANGED <<old, undo, part, actions, task>>,
         UNCHANGED <<gc, reader, ddl>>,
         rec' = rec \/ rec = "Running",
         rec' # "Cleaned" \/ rec = "Cleaned",
         pc'["query"] = "new" => pc["query"] = "new",
         mem' = "Finished" => Committed', mem' = "Aborted" => Aborting',
         active' => pc'["query"] \in Early \cup {"rollback", "abort", "finish"},
         \A p \in Threads : pc'[p] # "done" => pc[p] # "done",
         \A p \in Threads : ThreadOK(p)' \/ (pc'[p] = pc[p] /\ todo'[p] = todo[p] /\ (mem = "Finished" => mem' = "Finished"))
  PROVE  TxnInv'
<1>1. PartsOK /\ ObjectOK
  BY Zenon DEF TxnInv
<1>2. PartsOK'
  <2>1. CASE Committed
    <3>1. rec' = rec
      <4>1. rec # "Running"
        BY <2>1, Zenon DEF Committed
      <4> QED BY <4>1, Zenon
    <3> QED BY <1>1, <2>1, <3>1, Zenon DEF PartsOK
  <2>2. CASE ~ Committed
    BY <1>1, <2>2, Zenon DEF PartsOK
  <2> QED BY <2>1, <2>2, Zenon
<1>3. ObjectOK'
  BY <1>1, Zenon DEF ObjectOK
<1> QED BY <1>2, <1>3, StepBy, Zenon

LEMMA CancelMergeInv == Metastore = "ByteKV" /\ TxnInv /\ CancelMerge => TxnInv'
<1> SUFFICES ASSUME Metastore = "ByteKV", TxnInv, CancelMerge PROVE TxnInv'
  OBVIOUS
<1>1. /\ UNCHANGED <<old, undo, part, actions, active, force, pc, todo, result, task, host>> /\ UNCHANGED <<gc, reader, ddl>>
      /\ owner' = "none" /\ SetRecord("cancel", "Aborted")
  BY Zenon DEF CancelMerge, thread
<1>2. TypeOK /\ QueryOK /\ ObjectOK
  BY Zenon DEF TxnInv
<1>3. /\ rec' = rec \/ (rec = "Running" /\ rec' = "Aborted")
      /\ Committed' = Committed /\ (MayCommit' => MayCommit) /\ Kept /\ ~ Removed
      /\ (mem' = "Finished" => Committed') /\ (mem' = "Aborted" => Aborting')
  BY <1>1, AbortFacts, Zenon DEF CancelMerge
<1>4. /\ rec' \in {"none", "Running", "Finished", "Cleaned", "Aborted"}
      /\ mem' \in {"Running", "Finished", "Aborted", "Unknown"}
      /\ prepared' \in BOOLEAN /\ faults' \in 0 .. MaxFaults
  BY <1>1, AbortFacts, Zenon DEF CancelMerge
<1>5. TypeOK'
  BY <1>1, <1>2, <1>4, SMT DEF TypeOK
<1>6. QueryOK'
  <2>1. pc'["query"] = "new" => rec' = "none"
    BY <1>1, <1>2, <1>3, Zenon DEF QueryOK
  <2> QED BY <1>1, <1>2, <1>3, <2>1, Zenon DEF QueryOK
<1>7. active' => pc'["query"] \in Early \cup {"rollback", "abort", "finish"}
  BY <1>1, <1>2, Zenon DEF ObjectOK
<1>8. mem # "Finished"
  BY Zenon DEF CancelMerge
<1> QED BY <1>1, <1>3, <1>5, <1>6, <1>7, <1>8, RecordMoves, Zenon

LEMMA abortInv == Metastore = "ByteKV" /\ TxnInv /\ abort => TxnInv'
<1> SUFFICES ASSUME Metastore = "ByteKV", TxnInv, abort PROVE TxnInv'
  OBVIOUS
<1>1. /\ UNCHANGED <<old, undo, part, actions, active, force, todo, task, host>> /\ UNCHANGED <<gc, reader, ddl>>
      /\ pc["query"] = "abort" /\ owner' = "none"
  BY Zenon DEF abort
<1>2. TypeOK /\ QueryOK /\ ObjectOK /\ "query" \in Threads
  BY PC, Zenon DEF TxnInv
<1>3. pc'["query"] = "finish" /\ pc'["scan"] = pc["scan"] /\ pc' \in [Threads -> Labels]
  BY <1>2, GotoFacts, Zenon DEF abort, Threads, Labels
<1>4. /\ rec' = rec \/ (rec = "Running" /\ rec' = "Aborted")
      /\ Committed' = Committed /\ Kept /\ ~ Removed
      /\ (mem' = "Finished" => Committed') /\ (mem' = "Aborted" => Aborting')
  <2>1. CASE mem = "Finished"
    <3>1. UNCHANGED <<rec, mem>> /\ Committed
      BY <1>2, <2>1, Zenon DEF abort, ObjectOK
    <3> QED BY <1>1, <1>3, <2>1, <3>1, SameDecision, Zenon DEF Early
  <2>2. CASE mem # "Finished"
    BY <1>1, <1>3, <2>2, AbortFacts, Zenon DEF abort, Early
  <2> QED BY <2>1, <2>2, Zenon
<1>5. /\ rec' \in {"none", "Running", "Finished", "Cleaned", "Aborted"}
      /\ mem' \in {"Running", "Finished", "Aborted", "Unknown"}
      /\ prepared' \in BOOLEAN /\ faults' \in 0 .. MaxFaults
  <2>1. CASE mem = "Finished"
    BY <1>2, <2>1, Zenon DEF abort, TypeOK
  <2>2. CASE mem # "Finished"
    BY <1>1, <1>3, <2>2, AbortFacts, Zenon DEF abort, Early
  <2> QED BY <2>1, <2>2, Zenon
<1>6. result' \in {"none", "committed", "error"} /\ (result' = "committed" => mem' = "Finished")
  BY Zenon DEF abort
<1>7. TypeOK'
  BY <1>1, <1>2, <1>3, <1>5, <1>6, SMT DEF TypeOK
<1>8. QueryOK'
  BY <1>3, <1>4, <1>6, Zenon DEF QueryOK, Early
<1>9. \A p \in Threads : ThreadOK(p)' \/ (pc'[p] = pc[p] /\ todo'[p] = todo[p] /\ (mem = "Finished" => mem' = "Finished"))
  <2>1. mem = "Finished" => mem' = "Finished"
    BY Zenon DEF abort
  <2> QED BY <1>1, <1>3, <2>1, Zenon DEF Threads, ThreadOK
<1>10. pc'["query"] # "new" /\ \A p \in Threads : pc'[p] # "done" => pc[p] # "done"
  BY <1>1, <1>3, Zenon DEF Threads
<1>11. pc'["query"] \in Early \cup {"rollback", "abort", "finish"}
  BY <1>3, Zenon
<1> QED BY <1>1, <1>4, <1>7, <1>8, <1>9, <1>10, <1>11, RecordMoves, Zenon

LEMMA rollbackInv == TxnInv /\ rollback => TxnInv'
<1> SUFFICES ASSUME TxnInv, rollback PROVE TxnInv'
  OBVIOUS
<1>1. /\ UNCHANGED <<old, undo, part, prepared, actions, active, force, owner, todo, task, host>> /\ UNCHANGED <<gc, reader, ddl>>
      /\ pc["query"] = "rollback" /\ mem' = "Aborted" /\ rec' \in {rec, "Aborted"} /\ result' = "error"
  BY Zenon DEF rollback
<1>2. TypeOK /\ QueryOK /\ ObjectOK /\ PartsOK /\ "query" \in Threads
  BY PC, Zenon DEF TxnInv
<1>3. pc'["query"] = "finish" /\ pc'["scan"] = pc["scan"] /\ pc' \in [Threads -> Labels]
  BY <1>2, GotoFacts, Zenon DEF rollback, Threads, Labels
<1>4. ~ Committed /\ mem # "Finished" /\ \A t \in Tables : part[t] # "committed"
  BY <1>1, <1>2, Zenon DEF QueryOK, ObjectOK, PartsOK
<1>5. ~ Committed'
  BY <1>1, <1>4, TxnAssumption, Zenon DEF Committed
<1>6. Aborting' /\ Kept /\ ~ Removed
  BY <1>3, <1>4, <1>5, Zenon DEF Aborting, MayCommit, Early, Kept, Removed
<1>7. TypeOK'
  <2>1. faults' \in 0 .. MaxFaults
    BY <1>2, FaultFacts, Zenon DEF rollback, TypeOK
  <2> QED BY <1>1, <1>2, <1>3, <2>1, SMT DEF TypeOK
<1>8. QueryOK'
  BY <1>1, <1>3, Zenon DEF QueryOK, Early
<1>9. PartsOK' /\ ObjectOK'
  BY <1>1, <1>3, <1>4, <1>5, <1>6, Zenon DEF PartsOK, ObjectOK
<1>10. \A p \in Threads : ThreadOK(p)' \/ (pc'[p] = pc[p] /\ todo'[p] = todo[p] /\ (mem = "Finished" => mem' = "Finished"))
  BY <1>1, <1>3, <1>4, Zenon DEF Threads, ThreadOK
<1>11. rec' = "Cleaned" /\ old' => rec = "Cleaned" /\ old
  BY <1>1, Zenon
<1> QED BY <1>1, <1>3, <1>6, <1>7, <1>8, <1>9, <1>10, <1>11, StepBy, Zenon

(* The decision: the record turns Finished while every part is written and  *)
(* every undo buffer is there.                                              *)
LEMMA Commits ==
  ASSUME NEW l \in {"finish", "abort"}, TxnInv, pc["query"] = "commit", rec = "Running", rec' = "Finished",
         mem' = mem \/ mem' = "Finished", mem = "Running", prepared' \in BOOLEAN, faults' \in 0 .. MaxFaults,
         result' = result \/ (l = "finish" /\ result' = "committed"), Goto("query", l),
         owner' = "none", UNCHANGED <<old, undo, part, actions, active, force, todo, task, host, gc, reader, ddl>>
  PROVE  TxnInv'
<1>1. TypeOK /\ QueryOK /\ ObjectOK /\ PartsOK /\ "query" \in Threads
  BY PC, Zenon DEF TxnInv
<1>2. /\ UNCHANGED <<old, undo, part, actions, active, force, todo, task>>
      /\ UNCHANGED <<host, gc, reader, ddl>> /\ UNCHANGED <<gc, reader, ddl>>
  BY Zenon
<1>3. pc'["query"] = l /\ pc'["scan"] = pc["scan"] /\ pc' \in [Threads -> Labels]
  <2>1. l \in Labels
    BY Zenon DEF Labels
  <2> QED BY <1>1, <2>1, GotoFacts, Zenon DEF Threads
<1>4. ~ Committed /\ MayCommit /\ pc["query"] \in Early /\ result = "none" /\ actions = Tables
  BY <1>1, Zenon DEF QueryOK, Early, MayCommit
<1>5. actions \subseteq undo /\ \A t \in Tables : part[t] = "intermediate"
  BY <1>1, <1>4, Zenon DEF QueryOK
<1>6. Committed' /\ Kept /\ ~ Removed
  BY <1>4, Zenon DEF Committed, Kept, Aborting, Removed
<1>7. PartsOK'
  BY <1>2, <1>4, <1>5, <1>6, Zenon DEF PartsOK
<1>8. QueryOK'
  <2>1. pc'["query"] \in {"finish", "abort"} /\ (pc'["query"] = "abort" => result' = "none")
    BY <1>3, <1>4, Zenon
  <2> QED BY <2>1, <1>6, Zenon DEF QueryOK, Early
<1>9. ObjectOK'
  <2>1. mem' # "Aborted" /\ actions' = Tables
    BY <1>2, <1>4, Zenon
  <2> QED BY <1>3, <1>6, <2>1, Zenon DEF ObjectOK
<1>10. TypeOK'
  <2>1. result' \in {"none", "committed", "error"} /\ mem' \in {"Running", "Finished"}
    BY <1>4, Zenon
  <2> QED BY <1>1, <1>2, <1>3, <2>1, SMT DEF TypeOK
<1>11. \A p \in Threads : ThreadOK(p)' \/ (pc'[p] = pc[p] /\ todo'[p] = todo[p] /\ (mem = "Finished" => mem' = "Finished"))
  BY <1>2, <1>3, Zenon DEF Threads, ThreadOK
<1>12. pc'["query"] # "new" /\ rec' # "Cleaned"
  BY <1>3, Zenon
<1> QED BY <1>2, <1>6, <1>7, <1>8, <1>9, <1>10, <1>11, <1>12, StepBy, Zenon

LEMMA commitInv == Metastore = "ByteKV" /\ TxnInv /\ commit => TxnInv'
<1> SUFFICES ASSUME Metastore = "ByteKV", TxnInv, commit PROVE TxnInv'
  OBVIOUS
<1>1. /\ UNCHANGED <<old, undo, part, actions, active, force, todo, task, host, gc, reader, ddl>>
      /\ UNCHANGED <<old, undo, part, actions, task>> /\ UNCHANGED <<gc, reader, ddl>>
      /\ pc["query"] = "commit" /\ owner' = "none"
  BY Zenon DEF commit
<1>2. TypeOK /\ QueryOK /\ ObjectOK /\ PartsOK /\ "query" \in Threads
  BY PC, Zenon DEF TxnInv
<1>t. /\ rec \in {"none", "Running", "Finished", "Cleaned", "Aborted"} /\ prepared \in BOOLEAN /\ active \in BOOLEAN
      /\ owner \in Threads \cup {"none", "cancel"} /\ faults \in 0 .. MaxFaults /\ todo \in [Threads -> SUBSET Tables]
  BY <1>2, Zenon DEF TypeOK
<1>3. ~ Committed /\ pc["query"] \in Early /\ result = "none" /\ rec \notin {"Finished", "Cleaned"}
  BY <1>1, <1>2, Zenon DEF QueryOK, Early, Committed
<1>4. ASSUME UNCHANGED <<rec, mem, prepared, result>>, faults' \in 0 .. MaxFaults, Goto("query", "abort")
      PROVE  TxnInv'
  <2>1. /\ UNCHANGED <<meta, mem, actions, force, task, host, gc, reader, ddl>>
        /\ prepared' \in BOOLEAN /\ owner' \in Threads \cup {"none", "cancel"} /\ active' \in BOOLEAN
        /\ todo' \in [Threads -> SUBSET Tables] /\ todo'["scan"] = todo["scan"] /\ result' = result
    BY <1>1, <1>t, <1>4, Zenon DEF meta
  <2> QED BY <1>3, <1>4, <2>1, QueryMoves, Zenon
<1>5. CASE ~ isPrepared /\ Goto("query", "abort") /\ UNCHANGED <<rec, mem, prepared, result, faults>>
  BY <1>t, <1>4, <1>5, Zenon
<1>6. CASE isPrepared /\ SetRecord("query", "Finished") /\ (result' = IF mem' = "Finished" THEN "committed" ELSE result)
           /\ Goto("query", IF mem' = "Finished" THEN "finish" ELSE "abort")
  <2>m. mem = "Running"
    BY <1>6, Zenon DEF isPrepared
  <2>1. CASE rec = mem /\ rec' = "Finished" /\ mem' = "Finished" /\ UNCHANGED <<prepared, faults>>
    <3>1. result' = "committed" /\ Goto("query", "finish") /\ prepared' \in BOOLEAN /\ faults' \in 0 .. MaxFaults
      BY <1>t, <1>6, <2>1, Zenon
    <3> QED BY <1>1, <2>m, <2>1, <3>1, Commits, Zenon
  <2>2. CASE rec # mem /\ mem' = Seen /\ prepared' = (prepared /\ rec = "none") /\ UNCHANGED <<rec, faults>>
    <3>1. rec \in {"none", "Aborted"}
      BY <1>t, <1>3, <2>m, <2>2, Zenon
    <3>2. mem' \in {"Unknown", "Aborted"} /\ (mem' = "Aborted" => rec = "Aborted")
      BY <2>2, <3>1, Zenon DEF Seen
    <3>3. Goto("query", "abort") /\ result' = result
      BY <1>6, <3>2, Zenon
    <3>4. pc'["query"] = "abort" /\ pc'["scan"] = pc["scan"] /\ pc' \in [Threads -> Labels]
      BY <1>2, <3>3, GotoFacts, Zenon DEF Threads, Labels
    <3>5. Committed' = Committed /\ (MayCommit' => MayCommit) /\ (Aborting => Aborting') /\ Kept /\ ~ Removed
      BY <1>1, <2>2, <3>4, SameDecision, Zenon DEF Early
    <3>6. Aborting'
      BY <1>3, <3>4, <3>5, Zenon DEF Aborting, MayCommit, Early
    <3>7. TypeOK'
      <4>1. prepared' \in BOOLEAN
        BY <1>t, <2>2
      <4> QED BY <1>1, <1>2, <2>2, <3>2, <3>3, <3>4, <4>1, SMT DEF TypeOK
    <3>8. QueryOK'
      BY <1>3, <3>3, <3>4, Zenon DEF QueryOK, Early
    <3>9. \A p \in Threads : ThreadOK(p)' \/ (pc'[p] = pc[p] /\ todo'[p] = todo[p] /\ (mem = "Finished" => mem' = "Finished"))
      BY <1>1, <2>m, <3>4, Zenon DEF Threads, ThreadOK
    <3>10. \A p \in Threads : pc'[p] # "done" => pc[p] # "done"
      BY <1>1, <3>4, Zenon DEF Threads
    <3>11. pc'["query"] # "new" /\ pc'["query"] \in Early \cup {"rollback", "abort", "finish"} /\ mem' # "Finished"
           /\ rec' = rec
      BY <2>2, <3>2, <3>4, Zenon
    <3> QED BY <1>1, <3>5, <3>6, <3>7, <3>8, <3>9, <3>10, <3>11, RecordMoves, Zenon
  <2> QED BY <1>6, <2>1, <2>2, Zenon DEF SetRecord, Puts
<1>7. CASE isPrepared /\ SetRecordThrows("query", "Finished") /\ Goto("query", "abort") /\ UNCHANGED result
  <2>1. UNCHANGED <<mem, prepared, result>> /\ faults' \in 0 .. MaxFaults /\ mem = "Running" /\ prepared' \in BOOLEAN
    BY <1>2, <1>t, <1>7, FaultFacts, Zenon DEF SetRecordThrows, isPrepared
  <2>2. CASE rec' = rec
    BY <1>4, <1>7, <2>1, <2>2, Zenon
  <2>3. CASE rec = mem /\ rec' = "Finished"
    BY <1>1, <1>7, <2>1, <2>3, Commits, Zenon
  <2> QED BY <1>7, <2>2, <2>3, Zenon DEF SetRecordThrows, Puts
<1> QED BY <1>5, <1>6, <1>7, Zenon DEF commit
-----------------------------------------------------------------------------
(* The end of the query, and the scan for expired transactions.             *)
Cleaning == {"check", "cleanAbort", "clean", "postCommit", "abortParts", "stamp", "remove"}

LEMMA CleanerGoes ==
  ASSUME NEW p \in Threads, NEW l \in Cleaning \cup {"done"}, TypeOK, ObjectOK, pc[p] # "done", Goto(p, l)
  PROVE  /\ pc' \in [Threads -> Labels] /\ pc'[p] = l /\ \A q \in Threads \ {p} : pc'[q] = pc[q]
         /\ pc'["query"] = "new" => pc["query"] = "new"
         /\ pc'["query"] \in Early => pc["query"] \in Early
         /\ pc'["query"] \in Early \cup {"new", "rollback", "abort"} => pc'["query"] = pc["query"] /\ p # "query"
         /\ \A q \in Threads : pc'[q] # "done" => pc[q] # "done"
         /\ active /\ pc[p] \in Cleaning => pc'["query"] \in Early \cup {"rollback", "abort", "finish"}
<1>1. l \in Labels
  BY Zenon DEF Labels, Cleaning
<1>2. pc' \in [Threads -> Labels] /\ pc'[p] = l /\ \A q \in Threads \ {p} : pc'[q] = pc[q]
  BY <1>1, GotoFacts, Zenon
<1>3. "query" \in Threads
  BY Zenon DEF Threads
<1>4. l \notin Early \cup {"new", "rollback", "abort"}
  BY Zenon DEF Early, Cleaning
<1>5. pc'["query"] \in Early \cup {"new", "rollback", "abort"} => pc'["query"] = pc["query"] /\ p # "query"
  BY <1>2, <1>3, <1>4, Zenon
<1>6. \A q \in Threads : pc'[q] # "done" => pc[q] # "done"
  BY <1>2, Zenon
<1>7. ASSUME active, pc[p] \in Cleaning PROVE pc'["query"] \in Early \cup {"rollback", "abort", "finish"}
  <2>1. pc["query"] \in Early \cup {"rollback", "abort", "finish"}
    BY <1>7, Zenon DEF ObjectOK
  <2>2. p # "query"
    BY <1>7, <2>1, Zenon DEF Early, Cleaning
  <2> QED BY <1>2, <1>3, <2>1, <2>2, Zenon
<1>8. pc'["query"] = "new" => pc["query"] = "new"
  BY <1>5, Zenon
<1>9. pc'["query"] \in Early => pc["query"] \in Early
  BY <1>5, Zenon
<1> QED BY <1>2, <1>5, <1>6, <1>7, <1>8, <1>9, Zenon

(* The query's own facts when another thread cleans.                        *)
LEMMA CleanerQuery ==
  ASSUME QueryOK, Committed' = Committed, MayCommit' => MayCommit, UNCHANGED <<part, undo, actions, result>>,
         pc'["query"] \in Early \cup {"new", "rollback", "abort"} => pc'["query"] = pc["query"] /\ todo'["query"] = todo["query"],
         rec = "none" => rec' = "none"
  PROVE  QueryOK'
<1>1. CASE pc'["query"] \in Early \cup {"new", "rollback", "abort"}
  BY <1>1, Zenon DEF QueryOK, Early
<1>2. CASE pc'["query"] \notin Early \cup {"new", "rollback", "abort"}
  BY <1>2, Zenon DEF QueryOK, Early
<1> QED BY <1>1, <1>2, Zenon

(* finishTransaction, CheckEnded, Clean and CleanThrows leave the record    *)
(* and the parts alone.                                                     *)
LEMMA CleanerMoves ==
  ASSUME NEW p \in Threads, NEW l \in Cleaning \cup {"done"}, TxnInv, pc[p] # "done", Goto(p, l),
         UNCHANGED <<meta, mem, prepared, actions, force, result, task, host, gc, reader, ddl>>,
         owner' \in Threads \cup {"none", "cancel"}, faults' \in 0 .. MaxFaults,
         active' = FALSE \/ (active' = active /\ pc[p] \in Cleaning),
         todo' \in [Threads -> SUBSET Tables], \A q \in Threads \ {p} : todo'[q] = todo[q],
         l = "clean" => mem = "Finished" \/ Aborting,
         l = "postCommit" => Committed /\ todo'[p] = Tables,
         l = "abortParts" => Aborting,
         l \notin {"stamp", "remove"}
  PROVE  TxnInv'
<1>1. TypeOK /\ QueryOK /\ ObjectOK
  BY Zenon DEF TxnInv
<1>2. /\ UNCHANGED <<rec, old, undo, part, mem, actions, result, task>> /\ UNCHANGED <<meta, mem, actions, task, gc, reader, ddl>>
      /\ UNCHANGED <<prepared, force, host, gc, reader, ddl>>
  BY Zenon DEF meta
<1>3. /\ pc' \in [Threads -> Labels] /\ pc'[p] = l /\ \A q \in Threads \ {p} : pc'[q] = pc[q]
      /\ pc'["query"] = "new" => pc["query"] = "new"
      /\ pc'["query"] \in Early => pc["query"] \in Early
      /\ pc'["query"] \in Early \cup {"new", "rollback", "abort"} => pc'["query"] = pc["query"] /\ p # "query"
      /\ \A q \in Threads : pc'[q] # "done" => pc[q] # "done"
      /\ active /\ pc[p] \in Cleaning => pc'["query"] \in Early \cup {"rollback", "abort", "finish"}
  BY <1>1, CleanerGoes, Zenon
<1>4. Committed' = Committed /\ (MayCommit' => MayCommit) /\ (Aborting => Aborting')
  BY <1>2, <1>3, SameDecision, ZenonT(60)
<1>5. TypeOK'
  <2>1. active' \in BOOLEAN
    BY <1>1, Zenon DEF TypeOK
  <2> QED BY <1>1, <1>2, <1>3, <2>1, SMT DEF TypeOK
<1>6. QueryOK'
  <2>1. p # "query" => todo'["query"] = todo["query"]
    BY Zenon DEF Threads
  <2> QED BY <1>1, <1>2, <1>3, <1>4, <2>1, CleanerQuery, Zenon
<1>7. ObjectOK'
  <2>1. (mem' = "Finished" => Committed') /\ (mem' = "Aborted" => Aborting')
    BY <1>1, <1>2, <1>4, Zenon DEF ObjectOK
  <2>2. active' => pc'["query"] \in Early \cup {"rollback", "abort", "finish"}
    BY <1>3, Zenon
  <2>3. Committed' /\ (\E q \in Threads : pc'[q] # "done") => actions' = Tables
    BY <1>1, <1>2, <1>3, <1>4, Zenon DEF ObjectOK
  <2> QED BY <2>1, <2>2, <2>3, Zenon DEF ObjectOK
<1>8. ThreadOK(p)'
  <2>1. (l = "clean" => mem' = "Finished" \/ Aborting') /\ (l = "abortParts" => Aborting')
    BY <1>2, <1>4, Zenon
  <2>2. l = "postCommit" => Committed' /\ Tables \ todo'[p] = {}
    BY <1>4, Zenon
  <2> QED BY <1>3, <2>1, <2>2, Zenon DEF ThreadOK
<1>9. \A q \in Threads : ThreadOK(q)' \/ (pc'[q] = pc[q] /\ todo'[q] = todo[q])
  BY <1>3, <1>8, Zenon
<1> QED BY <1>2, <1>3, <1>5, <1>6, <1>7, <1>9, ThreadMoves, Zenon

LEMMA CleanerMovesInv ==
  ASSUME NEW p \in Threads, TxnInv, finishTransaction(p) \/ CheckEnded(p) \/ Clean(p) \/ CleanThrows(p)
  PROVE  TxnInv'
<1>1. TypeOK /\ ObjectOK /\ ThreadOK(p)
  BY Zenon DEF TxnInv
<1>t. owner \in Threads \cup {"none", "cancel"} /\ faults \in 0 .. MaxFaults /\ todo \in [Threads -> SUBSET Tables]
  BY <1>1, Zenon DEF TypeOK
<1>2. CASE finishTransaction(p)
  <2>1. /\ UNCHANGED <<owner, faults, todo>> /\ active' = FALSE /\ Goto(p, "check") /\ pc[p] # "done"
        /\ UNCHANGED <<meta, mem, prepared, actions, force, result, task, host, gc, reader, ddl>>
    BY <1>2, Zenon DEF finishTransaction
  <2> QED BY <1>t, <2>1, CleanerMoves, Zenon DEF Cleaning
<1>3. CASE CheckEnded(p)
  <2>1. /\ UNCHANGED <<owner, faults, todo, active>> /\ pc[p] = "check"
        /\ UNCHANGED <<meta, mem, prepared, actions, force, result, task, host, gc, reader, ddl>>
    BY <1>3, Zenon DEF CheckEnded, object
  <2>2. CASE Ended(mem)
    <3>1. Goto(p, "clean") /\ (mem = "Finished" \/ Aborting)
      BY <1>1, <1>3, <2>2, Zenon DEF CheckEnded, Ended, ObjectOK
    <3> QED BY <1>t, <2>1, <3>1, CleanerMoves, Zenon DEF Cleaning
  <2>3. CASE ~ Ended(mem)
    <3>1. Goto(p, "cleanAbort")
      BY <1>3, <2>3, Zenon DEF CheckEnded
    <3> QED BY <1>t, <2>1, <3>1, CleanerMoves, Zenon DEF Cleaning
  <2> QED BY <2>2, <2>3, Zenon
<1>4. CASE Clean(p)
  <2>1. /\ UNCHANGED <<faults, active>> /\ pc[p] = "clean" /\ (mem = "Finished" \/ Aborting)
        /\ UNCHANGED <<meta, mem, prepared, actions, force, result, task, host, gc, reader, ddl>>
    BY <1>1, <1>4, Zenon DEF Clean, ThreadOK
  <2>2. CASE Goto(p, "done") /\ UNCHANGED <<owner, todo>>
    BY <1>t, <2>1, <2>2, CleanerMoves, Zenon DEF Cleaning
  <2>3. CASE /\ owner' = p /\ todo' = [todo EXCEPT ![p] = actions]
             /\ Goto(p, IF mem = "Finished" THEN "postCommit" ELSE "abortParts")
    <3>1. actions \subseteq Tables
      BY <1>1, Zenon DEF TypeOK
    <3>2. todo' \in [Threads -> SUBSET Tables] /\ todo'[p] = actions /\ \A q \in Threads \ {p} : todo'[q] = todo[q]
      BY <1>t, <2>3, <3>1, Zenon
    <3>3. CASE mem = "Finished"
      <4>1. Goto(p, "postCommit") /\ Committed /\ actions = Tables
        BY <1>1, <2>1, <2>3, <3>3, Zenon DEF ObjectOK
      <4> QED BY <1>t, <2>1, <2>3, <3>2, <4>1, CleanerMoves, Zenon DEF Cleaning
    <3>4. CASE mem # "Finished"
      <4>1. Goto(p, "abortParts") /\ Aborting
        BY <2>1, <2>3, <3>4, Zenon
      <4> QED BY <1>t, <2>1, <2>3, <3>2, <4>1, CleanerMoves, Zenon DEF Cleaning
    <3> QED BY <3>3, <3>4, Zenon
  <2> QED BY <1>4, <2>2, <2>3, Zenon DEF Clean
<1>5. CASE CleanThrows(p)
  <2>1. /\ UNCHANGED <<todo, active>> /\ owner' = "none" /\ Goto(p, "done") /\ pc[p] \in Cleaning /\ pc[p] # "done"
        /\ UNCHANGED <<meta, mem, prepared, actions, force, result, task, host, gc, reader, ddl>>
        /\ faults' \in 0 .. MaxFaults
    BY <1>1, <1>5, FaultFacts, Zenon DEF CleanThrows, Cleaning
  <2> QED BY <1>t, <2>1, CleanerMoves, Zenon
<1> QED BY <1>2, <1>3, <1>4, <1>5, Zenon

LEMMA CleanAbortInv == ASSUME NEW p \in Threads, Metastore = "ByteKV", TxnInv, CleanAbort(p) PROVE TxnInv'
<1>1. TypeOK /\ QueryOK /\ ObjectOK /\ pc[p] = "cleanAbort" /\ pc[p] \in Cleaning /\ pc[p] # "done"
  BY Zenon DEF TxnInv, CleanAbort, Cleaning
<1>2. /\ UNCHANGED <<old, undo, part, actions, task>> /\ UNCHANGED <<active, todo, result, host>>
      /\ UNCHANGED <<gc, reader, ddl>> /\ owner' = "none"
  BY Zenon DEF CleanAbort
<1>3. PICK l \in {"clean", "done"} : Goto(p, l) /\ (l = "clean" => mem' = "Finished" \/ mem' = "Aborted")
  BY Zenon DEF CleanAbort, Ended
<1>4. /\ pc' \in [Threads -> Labels] /\ pc'[p] = l /\ \A q \in Threads \ {p} : pc'[q] = pc[q]
      /\ pc'["query"] = "new" => pc["query"] = "new"
      /\ pc'["query"] \in Early => pc["query"] \in Early
      /\ pc'["query"] \in Early \cup {"new", "rollback", "abort"} => pc'["query"] = pc["query"] /\ p # "query"
      /\ \A q \in Threads : pc'[q] # "done" => pc[q] # "done"
      /\ active => pc'["query"] \in Early \cup {"rollback", "abort", "finish"}
  <2>1. l \in Cleaning \cup {"done"}
    BY Zenon DEF Cleaning
  <2> QED BY <1>1, <1>3, <2>1, CleanerGoes, Zenon
<1>5. /\ rec' = rec \/ (rec = "Running" /\ rec' = "Aborted")
      /\ Committed' = Committed /\ (MayCommit' => MayCommit) /\ Kept /\ ~ Removed
      /\ (mem' = "Finished" => Committed') /\ (mem' = "Aborted" => Aborting')
      /\ rec' \in {"none", "Running", "Finished", "Cleaned", "Aborted"}
      /\ mem' \in {"Running", "Finished", "Aborted", "Unknown"}
      /\ prepared' \in BOOLEAN /\ faults' \in 0 .. MaxFaults
      /\ mem = "Finished" => mem' = "Finished"
  <2>1. CASE mem = "Finished"
    <3>1. UNCHANGED <<rec, mem, prepared, faults>> /\ Committed
      BY <1>1, <2>1, Zenon DEF CleanAbort, ObjectOK
    <3>2. Committed' = Committed /\ (MayCommit' => MayCommit) /\ Kept /\ ~ Removed
      BY <1>2, <1>4, <3>1, SameDecision, Zenon
    <3>3. /\ rec \in {"none", "Running", "Finished", "Cleaned", "Aborted"}
          /\ mem \in {"Running", "Finished", "Aborted", "Unknown"}
          /\ prepared \in BOOLEAN /\ faults \in 0 .. MaxFaults
      BY <1>1, Zenon DEF TypeOK
    <3> QED BY <2>1, <3>1, <3>2, <3>3, Zenon
  <2>2. CASE mem # "Finished"
    <3>1. SetRecord(p, "Aborted") \/ SetRecordThrows(p, "Aborted")
      BY <2>2, Zenon DEF CleanAbort
    <3> QED BY <1>2, <1>4, <2>2, <3>1, AbortFacts, Zenon
  <2> QED BY <2>1, <2>2, Zenon
<1>6. TypeOK'
  <2>1. force' \in BOOLEAN
    <3>1. force \in BOOLEAN
      BY <1>1, Zenon DEF TypeOK
    <3> QED BY <3>1 DEF CleanAbort
  <2> QED BY <1>1, <1>2, <1>4, <1>5, <2>1, SMT DEF TypeOK
<1>7. QueryOK'
  <2>1. UNCHANGED <<part, undo, actions, result>> /\ todo'["query"] = todo["query"] /\ (rec = "none" => rec' = "none")
    BY <1>2, <1>5, Zenon
  <2> QED BY <1>1, <1>4, <1>5, <2>1, CleanerQuery, Zenon
<1>8. \A q \in Threads : ThreadOK(q)' \/ (pc'[q] = pc[q] /\ todo'[q] = todo[q] /\ (mem = "Finished" => mem' = "Finished"))
  <2>1. ThreadOK(p)'
    BY <1>3, <1>4, <1>5, Zenon DEF ThreadOK
  <2> QED BY <1>2, <1>4, <1>5, <2>1, Zenon
<1>9. rec' # "Cleaned" \/ rec = "Cleaned"
  BY <1>5, Zenon
<1> QED BY <1>2, <1>4, <1>5, <1>6, <1>7, <1>8, <1>9, RecordMoves, Zenon

(* A part of a committed transaction gets its commit time; a part of one    *)
(* that is aborting goes.                                                   *)
LEMMA PartChange ==
  ASSUME NEW t \in Tables, NEW v, TxnInv, UNCHANGED <<rec, old, undo, actions, mem, active, pc, result>>,
         part' = [part EXCEPT ![t] = v],
         \/ Committed /\ v = "committed"
         \/ Aborting /\ v = "none"
  PROVE  /\ part' \in [Tables -> {"none", "intermediate", "committed"}]
         /\ part'[t] = v /\ \A u \in Tables \ {t} : part'[u] = part[u]
         /\ Committed' = Committed /\ (Aborting <=> Aborting') /\ Kept /\ ~ Removed
         /\ PartsOK' /\ ObjectOK'
         /\ todo'["query"] = todo["query"] \/ pc["query"] # "execute" => QueryOK'
<1>1. TypeOK /\ QueryOK /\ ObjectOK /\ PartsOK
  BY Zenon DEF TxnInv
<1>2. /\ part' \in [Tables -> {"none", "intermediate", "committed"}]
      /\ part'[t] = v /\ \A u \in Tables \ {t} : part'[u] = part[u]
  BY <1>1, ZenonT(60) DEF TypeOK
<1>3. MayCommit' <=> MayCommit
  BY Zenon DEF MayCommit
<1>4. Committed' = Committed
  <2>1. CASE Committed /\ v = "committed"
    BY <1>2, <2>1, Zenon DEF Committed
  <2>2. CASE Aborting /\ v = "none"
    <3>1. rec \notin {"Finished", "Cleaned"} /\ ~ Committed
      BY <2>2, Zenon DEF Aborting, Committed
    <3>2. ~ Committed'
      BY <1>2, <2>2, <3>1, Zenon DEF Committed
    <3> QED BY <3>1, <3>2 DEF Committed
  <2> QED BY <2>1, <2>2, Zenon
<1>5. (Aborting <=> Aborting') /\ ~ Removed
  BY <1>3, <1>4, Zenon DEF Aborting, Removed
<1>6. Committed => v = "committed"
  BY Zenon DEF Aborting
<1>7. Kept
  BY <1>2, <1>4, <1>5, <1>6, Zenon DEF Kept
<1>8. PartsOK'
  <2>1. CASE Committed
    BY <1>1, <1>2, <1>4, <1>6, <2>1, Zenon DEF PartsOK
  <2>2. CASE ~ Committed
    <3>1. v = "none"
      BY <2>2, Zenon
    <3> QED BY <1>1, <1>2, <1>4, <2>2, <3>1, Zenon DEF PartsOK
  <2> QED BY <2>1, <2>2, Zenon
<1>9. ObjectOK'
  BY <1>1, <1>4, <1>5, Zenon DEF ObjectOK
<1>10. ASSUME todo'["query"] = todo["query"] \/ pc["query"] # "execute" PROVE QueryOK'
  <2>1. ~ (pc'["query"] \in Early /\ MayCommit')
    <3>1. CASE Committed
      BY <1>1, <3>1, Zenon DEF QueryOK
    <3>2. CASE ~ Committed
      BY <1>3, <3>2, Zenon DEF Aborting
    <3> QED BY <3>1, <3>2, Zenon
  <2> QED BY <1>1, <1>4, <2>1, Zenon DEF QueryOK
<1> QED BY <1>2, <1>4, <1>5, <1>7, <1>8, <1>9, <1>10, Zenon

LEMMA CleanPartInv == ASSUME NEW p \in Threads, NEW t \in Tables, TxnInv, CleanPart(p, t) PROVE TxnInv'
<1>1. TypeOK /\ ThreadOK(p) /\ pc[p] \in {"postCommit", "abortParts"}
  BY Zenon DEF TxnInv, CleanPart
<1>2. /\ UNCHANGED <<rec, old, undo, actions, mem, active, pc, result>> /\ UNCHANGED <<prepared, force, owner, task, host, faults>>
      /\ UNCHANGED <<gc, reader, ddl>>
  BY Zenon DEF CleanPart, object
<1>3. /\ todo' \in [Threads -> SUBSET Tables]
      /\ todo'[p] = todo[p] \ {t} /\ \A q \in Threads \ {p} : todo'[q] = todo[q]
  <2>1. todo \in [Threads -> SUBSET Tables] /\ todo' = [todo EXCEPT ![p] = todo[p] \ {t}]
    BY <1>1, Zenon DEF TypeOK, CleanPart
  <2> QED BY <2>1
<1>4. PICK v : part' = [part EXCEPT ![t] = v] /\ v = IF pc[p] = "postCommit" THEN "committed" ELSE "none"
  BY Zenon DEF CleanPart
<1>5. (Committed /\ v = "committed" /\ pc[p] = "postCommit") \/ (Aborting /\ v = "none" /\ pc[p] = "abortParts")
  BY <1>1, <1>4, Zenon DEF ThreadOK
<1>6. todo'["query"] = todo["query"] \/ pc["query"] # "execute"
  BY <1>1, <1>3, Zenon DEF Threads
<1>7. /\ part' \in [Tables -> {"none", "intermediate", "committed"}]
      /\ part'[t] = v /\ \A u \in Tables \ {t} : part'[u] = part[u]
      /\ Committed' = Committed /\ (Aborting <=> Aborting') /\ Kept /\ ~ Removed
      /\ PartsOK' /\ ObjectOK' /\ QueryOK'
  BY <1>2, <1>4, <1>5, <1>6, PartChange, Zenon
<1>8. TypeOK'
  BY <1>1, <1>2, <1>3, <1>7, SMT DEF TypeOK
<1>9. ThreadOK(p)'
  <2>1. CASE pc[p] = "postCommit"
    <3>1. Committed' /\ v = "committed"
      BY <1>5, <1>7, <2>1, Zenon
    <3>2. \A u \in Tables \ todo'[p] : part'[u] = "committed"
      BY <1>1, <1>3, <1>7, <2>1, <3>1, Zenon DEF ThreadOK
    <3> QED BY <1>2, <2>1, <3>1, <3>2, Zenon DEF ThreadOK
  <2>2. CASE pc[p] = "abortParts"
    BY <1>2, <1>5, <1>7, <2>2, Zenon DEF ThreadOK
  <2> QED BY <1>1, <2>1, <2>2, Zenon
<1>10. \A q \in Threads : ThreadOK(q)' \/ (pc'[q] = pc[q] /\ todo'[q] = todo[q] /\ (mem = "Finished" => mem' = "Finished"))
  BY <1>2, <1>3, <1>9, Zenon
<1> QED BY <1>2, <1>7, <1>8, <1>10, StepBy, Zenon


(* Undo buffers go when the parts they name have their commit time, or when *)
(* the transaction is aborting.                                             *)
LEMMA UndoChange ==
  ASSUME TxnInv, UNCHANGED <<rec, old, part, actions, result>>, undo' \subseteq undo,
         Aborting \/ (Committed /\ \A t \in Tables : part[t] = "committed" \/ t \in undo'),
         pc'["query"] = "new" => pc["query"] = "new",
         pc'["query"] \in Early => pc["query"] \in Early,
         pc'["query"] \in Early \cup {"new", "rollback", "abort"} => pc'["query"] = pc["query"] /\ todo'["query"] = todo["query"]
  PROVE  Committed' = Committed /\ (Aborting => Aborting') /\ Kept /\ ~ Removed /\ PartsOK' /\ QueryOK'
<1>1. TypeOK /\ QueryOK /\ PartsOK
  BY Zenon DEF TxnInv
<1>2. Committed' = Committed /\ (MayCommit' => MayCommit) /\ (Aborting => Aborting') /\ ~ Removed /\ Kept
  BY SameDecision, Zenon
<1>3. PartsOK'
  <2>1. CASE Committed
    <3>1. \A t \in Tables : part[t] = "committed" \/ t \in undo'
      BY <2>1, Zenon DEF Aborting
    <3>2. (rec' # "Finished" => undo' = {})
      BY <1>1, <2>1, Zenon DEF PartsOK
    <3>3. \A t \in Tables : part'[t] = "committed" \/ (part'[t] = "intermediate" /\ t \in undo' /\ rec' = "Finished")
      BY <1>1, <2>1, <3>1, Zenon DEF PartsOK
    <3> QED BY <1>2, <2>1, <3>2, <3>3, Zenon DEF PartsOK
  <2>2. CASE ~ Committed
    BY <1>1, <1>2, <2>2, Zenon DEF PartsOK
  <2> QED BY <2>1, <2>2, Zenon
<1>4. QueryOK'
  <2>1. ~ (pc'["query"] \in Early /\ MayCommit')
    BY <1>1, <1>2, Zenon DEF QueryOK, Aborting
  <2>2. pc'["query"] = "new" => rec' = "none" /\ undo' = {} /\ actions' = {}
    BY <1>1, Zenon DEF QueryOK
  <2>3. pc'["query"] \in Early \cup {"new", "rollback"} => ~ Committed'
    BY <1>1, <1>2, Zenon DEF QueryOK
  <2>4. pc'["query"] \in Early \cup {"new", "rollback", "abort"} => result' = "none"
    BY <1>1, Zenon DEF QueryOK
  <2>5. pc'["query"] \in {"execute", "dedup", "commit"} => actions' = Tables
    BY <1>1, Zenon DEF QueryOK, Early
  <2>6. result' = "committed" => Committed'
    BY <1>1, <1>2, Zenon DEF QueryOK
  <2> QED BY <2>1, <2>2, <2>3, <2>4, <2>5, <2>6, Zenon DEF QueryOK
<1> QED BY <1>2, <1>3, <1>4, Zenon

(* The record gets its clean time when no undo buffer is left; the record   *)
(* of a transaction that is aborting goes.                                  *)
LEMMA RecordPut ==
  ASSUME TxnInv, UNCHANGED <<undo, part, actions, result>>,
         (Committed /\ undo = {} /\ rec' = "Cleaned") \/ (Aborting /\ rec' = "none"),
         pc'["query"] = "new" => pc["query"] = "new",
         pc'["query"] \in Early => pc["query"] \in Early,
         pc'["query"] \in Early \cup {"new", "rollback", "abort"} => pc'["query"] = pc["query"] /\ todo'["query"] = todo["query"]
  PROVE  Committed' = Committed /\ (Aborting => Aborting') /\ Kept /\ ~ Removed /\ PartsOK' /\ QueryOK'
<1>1. TypeOK /\ QueryOK /\ PartsOK
  BY Zenon DEF TxnInv
<1>2. (Committed => rec' = "Cleaned" /\ undo = {} /\ \A t \in Tables : part[t] = "committed")
  BY <1>1, Zenon DEF PartsOK, Aborting
<1>3. ~ Committed => Aborting /\ rec' = "none" /\ \A t \in Tables : part[t] # "committed"
  BY <1>1, Zenon DEF PartsOK
<1>4. Committed <=> Committed'
  BY <1>2, <1>3, TxnAssumption, Zenon DEF Committed
<1>5. Committed' = Committed
  BY <1>4 DEF Committed
<1>6. ~ MayCommit'
  <2>1. pc["query"] # "new"
    BY <1>1, Zenon DEF QueryOK, Aborting, MayCommit
  <2> QED BY <2>1, Zenon DEF MayCommit
<1>7. (Aborting => Aborting') /\ Kept /\ ~ Removed
  <2>1. Aborting => Aborting'
    BY <1>4, <1>6, Zenon DEF Aborting
  <2>2. ~ Removed
    BY <1>2, <1>4, Zenon DEF Removed
  <2> QED BY <1>4, <2>1, <2>2, Zenon DEF Kept
<1>8. PartsOK'
  BY <1>2, <1>3, <1>4, Zenon DEF PartsOK
<1>9. QueryOK'
  <2>2. pc'["query"] # "new"
    BY <1>6, Zenon DEF MayCommit
  <2>3. pc'["query"] \in Early \cup {"new", "rollback"} => ~ Committed'
    BY <1>1, <1>5, Zenon DEF QueryOK
  <2>4. pc'["query"] \in Early \cup {"new", "rollback", "abort"} => result' = "none"
    BY <1>1, Zenon DEF QueryOK
  <2>5. pc'["query"] \in {"execute", "dedup", "commit"} => actions' = Tables
    BY <1>1, Zenon DEF QueryOK, Early
  <2>6. result' = "committed" => Committed'
    BY <1>1, <1>5, Zenon DEF QueryOK
  <2> QED BY <1>6, <2>2, <2>3, <2>4, <2>5, <2>6, Zenon DEF QueryOK
<1> QED BY <1>5, <1>7, <1>8, <1>9, Zenon

LEMMA CleanUndoRecordInv == ASSUME NEW p \in Threads, TxnInv, CleanUndo(p) \/ CleanRecord(p) PROVE TxnInv'
<1>1. TypeOK /\ QueryOK /\ ObjectOK /\ PartsOK /\ ThreadOK(p)
  BY Zenon DEF TxnInv
<1>2. PICK l \in {"stamp", "remove", "done"} :
        /\ Goto(p, l)
        /\ CleanUndo(p) => (pc[p] = "postCommit" /\ l = "stamp") \/ (pc[p] = "abortParts" /\ l = "remove")
        /\ CleanRecord(p) => l = "done"
  <2>1. CleanUndo(p) => pc[p] \in {"postCommit", "abortParts"} /\ ~ CleanRecord(p)
    BY Zenon DEF CleanUndo, CleanRecord
  <2>2. CASE CleanUndo(p) /\ pc[p] = "postCommit"
    <3>1. Goto(p, "stamp")
      BY <2>2, Zenon DEF CleanUndo
    <3> QED BY <2>1, <2>2, <3>1, Zenon
  <2>3. CASE CleanUndo(p) /\ pc[p] = "abortParts"
    <3>1. Goto(p, "remove")
      BY <2>3, Zenon DEF CleanUndo
    <3> QED BY <2>1, <2>3, <3>1, Zenon
  <2>4. CASE CleanRecord(p)
    <3>1. Goto(p, "done")
      BY <2>4, Zenon DEF CleanRecord
    <3> QED BY <2>1, <2>4, <3>1, Zenon
  <2> QED BY <2>1, <2>2, <2>3, <2>4, Zenon
<1>3. pc[p] \in Cleaning /\ pc[p] # "done" /\ l \in Cleaning \cup {"done"}
  BY Zenon DEF CleanUndo, CleanRecord, Cleaning
<1>4. /\ pc' \in [Threads -> Labels] /\ pc'[p] = l /\ \A q \in Threads \ {p} : pc'[q] = pc[q]
      /\ pc'["query"] = "new" => pc["query"] = "new"
      /\ pc'["query"] \in Early => pc["query"] \in Early
      /\ pc'["query"] \in Early \cup {"new", "rollback", "abort"} => pc'["query"] = pc["query"] /\ p # "query"
      /\ \A q \in Threads : pc'[q] # "done" => pc[q] # "done"
      /\ active => pc'["query"] \in Early \cup {"rollback", "abort", "finish"}
  BY <1>1, <1>2, <1>3, CleanerGoes, Zenon
<1>5. /\ UNCHANGED <<part, mem, prepared, actions, active, force, todo, result, task, host, faults>> /\ UNCHANGED <<gc, reader, ddl>>
      /\ (CleanUndo(p) => UNCHANGED <<rec, old, owner>>) /\ (CleanRecord(p) => undo' = undo /\ old' = FALSE /\ owner' = "none")
  BY Zenon DEF CleanUndo, CleanRecord, object
<1>6. /\ Committed' = Committed /\ (Aborting => Aborting') /\ Kept /\ ~ Removed /\ PartsOK' /\ QueryOK'
      /\ undo' \subseteq undo /\ rec' \in {"none", "Running", "Finished", "Cleaned", "Aborted"} /\ ThreadOK(p)'
      /\ (rec' = "Cleaned" /\ old' => rec = "Cleaned" /\ old)
  <2>1. CASE CleanUndo(p)
    <3>1. undo' = {} /\ todo[p] = {} /\ UNCHANGED <<rec, old, part, actions, result>>
      BY <1>5, <2>1, Zenon DEF CleanUndo
    <3>2. (pc[p] = "postCommit" /\ l = "stamp" /\ Committed /\ \A t \in Tables : part[t] = "committed")
          \/ (pc[p] = "abortParts" /\ l = "remove" /\ Aborting)
      BY <1>1, <1>2, <2>1, <3>1, Zenon DEF ThreadOK
    <3>3. Committed' = Committed /\ (Aborting => Aborting') /\ Kept /\ ~ Removed /\ PartsOK' /\ QueryOK'
      BY <1>4, <1>5, <3>1, <3>2, UndoChange, Zenon
    <3>4. ThreadOK(p)'
      BY <1>4, <3>1, <3>2, <3>3, Zenon DEF ThreadOK
    <3>5. rec' \in {"none", "Running", "Finished", "Cleaned", "Aborted"}
      BY <1>1, <3>1, Zenon DEF TypeOK
    <3> QED BY <3>1, <3>3, <3>4, <3>5, Zenon
  <2>2. CASE CleanRecord(p)
    <3>1. undo' = undo /\ old' = FALSE /\ UNCHANGED <<undo, part, actions, result>> /\ l = "done"
      BY <1>2, <1>5, <2>2, Zenon DEF CleanRecord
    <3>2. (Committed /\ undo = {} /\ rec' = "Cleaned") \/ (Aborting /\ rec' = "none")
      BY <1>1, <2>2, Zenon DEF ThreadOK, CleanRecord
    <3>3. Committed' = Committed /\ (Aborting => Aborting') /\ Kept /\ ~ Removed /\ PartsOK' /\ QueryOK'
      BY <1>4, <1>5, <3>1, <3>2, RecordPut, Zenon
    <3>4. ThreadOK(p)'
      BY <1>4, <3>1, Zenon DEF ThreadOK
    <3> QED BY <3>1, <3>2, <3>3, <3>4, Zenon
  <2> QED BY <2>1, <2>2, Zenon
<1>7. TypeOK'
  <2>1. old' \in BOOLEAN /\ owner' \in Threads \cup {"none", "cancel"} /\ undo' \subseteq Tables
    BY <1>1, <1>5, <1>6, Zenon DEF TypeOK
  <2> QED BY <1>1, <1>4, <1>5, <1>6, <2>1, SMT DEF TypeOK
<1>8. ObjectOK'
  <2>1. (mem' = "Finished" => Committed') /\ (mem' = "Aborted" => Aborting')
    BY <1>1, <1>5, <1>6, Zenon DEF ObjectOK
  <2>2. active' => pc'["query"] \in Early \cup {"rollback", "abort", "finish"}
    BY <1>4, <1>5, Zenon
  <2>3. Committed' /\ (\E q \in Threads : pc'[q] # "done") => actions' = Tables
    BY <1>1, <1>4, <1>5, <1>6, Zenon DEF ObjectOK
  <2> QED BY <2>1, <2>2, <2>3, Zenon DEF ObjectOK
<1>9. \A q \in Threads : ThreadOK(q)' \/ (pc'[q] = pc[q] /\ todo'[q] = todo[q] /\ (mem = "Finished" => mem' = "Finished"))
  BY <1>4, <1>5, <1>6, Zenon
<1> QED BY <1>4, <1>5, <1>6, <1>7, <1>8, <1>9, StepBy, Zenon

-----------------------------------------------------------------------------
(* The clean tasks of the servers.                                          *)
LEMMA NoTaskFacts ==
  /\ NoTask \in Tasks /\ NoTask.kind = "none" /\ NoTask.stage = "off"
  /\ NoTask.keys = {} /\ NoTask.todo = {} /\ NoTask.others = {}
BY DEF NoTask, Tasks, Stages

LEMMA NoTaskOK == ASSUME NEW s, task'[s] = NoTask PROVE TaskOK(s)'
<1>1. task'[s].kind = "none" /\ task'[s].stage = "off"
  BY NoTaskFacts, Zenon
<1> QED BY <1>1, Zenon DEF TaskOK

LEMMA SetTaskFacts ==
  ASSUME NEW s \in Servers, NEW r \in Tasks, TypeOK, SetTask(s, r)
  PROVE  task' \in [Servers -> Tasks] /\ task'[s] = r /\ \A d \in Servers \ {s} : task'[d] = task[d]
<1>1. task \in [Servers -> Tasks] /\ task' = [task EXCEPT ![s] = r]
  BY Zenon DEF TypeOK, SetTask
<1> QED BY <1>1, Zenon

LEMMA StageFacts ==
  ASSUME NEW s \in Servers, NEW l \in Stages, TypeOK, Stage(s, l)
  PROVE  /\ task' \in [Servers -> Tasks] /\ \A d \in Servers \ {s} : task'[d] = task[d]
         /\ task'[s].stage = l /\ task'[s].kind = task[s].kind /\ task'[s].todo = task[s].todo
         /\ task'[s].keys = task[s].keys /\ task'[s].others = task[s].others
<1>1. task[s] \in Tasks
  BY Zenon DEF TypeOK
<1> DEFINE r == [task[s] EXCEPT !.stage = l]
<1>2. /\ r \in Tasks /\ r.stage = l /\ r.kind = task[s].kind /\ r.todo = task[s].todo
      /\ r.keys = task[s].keys /\ r.others = task[s].others
  BY <1>1 DEF Tasks
<1>3. SetTask(s, r)
  BY Zenon DEF Stage
<1> HIDE DEF r
<1>4. task' \in [Servers -> Tasks] /\ task'[s] = r /\ \A d \in Servers \ {s} : task'[d] = task[d]
  BY <1>2, <1>3, SetTaskFacts, Zenon
<1> QED BY <1>2, <1>4, Zenon

(* A step that leaves the metastore, the object and the threads alone.      *)
LEMMA Frame ==
  ASSUME TxnInv, UNCHANGED <<meta, object, thread>>
  PROVE  /\ UNCHANGED <<rec, old, undo, part>> /\ UNCHANGED <<mem, prepared, actions, active, force, owner>>
         /\ UNCHANGED <<pc, todo, result>>
         /\ Kept /\ ~ Removed /\ PartsOK' /\ QueryOK' /\ ObjectOK'
         /\ Committed' = Committed /\ (Aborting => Aborting')
<1>1. UNCHANGED <<rec, old, undo, part>> /\ UNCHANGED <<mem, prepared, actions, active, force, owner>> /\ UNCHANGED <<pc, todo, result>>
  BY Zenon DEF meta, object, thread
<1>2. Committed' = Committed /\ (MayCommit' => MayCommit) /\ (Aborting => Aborting') /\ ~ Removed /\ Kept
  BY <1>1, SameDecision, Zenon
<1>3. PartsOK'
  BY <1>1, <1>2, Zenon DEF TxnInv, PartsOK
<1>4. QueryOK'
  BY <1>1, <1>2, Zenon DEF TxnInv, QueryOK
<1>5. ObjectOK'
  BY <1>1, <1>2, Zenon DEF TxnInv, ObjectOK
<1> QED BY <1>1, <1>2, <1>3, <1>4, <1>5, Zenon

LEMMA TaskMoves ==
  ASSUME TxnInv, UNCHANGED <<meta, object, thread>>, UNCHANGED <<host, gc, reader, ddl>>, faults' \in 0 .. MaxFaults,
         task' \in [Servers -> Tasks], \A s \in Servers : TaskOK(s)' \/ task'[s] = task[s]
  PROVE  TxnInv'
<1>1. /\ UNCHANGED <<rec, old, undo, part>> /\ UNCHANGED <<mem, prepared, actions, active, force, owner>>
      /\ UNCHANGED <<pc, todo, result>>
      /\ Kept /\ ~ Removed /\ PartsOK' /\ QueryOK' /\ ObjectOK'
  BY Frame, Zenon
<1>2. TypeOK
  BY Zenon DEF TxnInv
<1>3. TypeOK'
  BY <1>1, <1>2, SMT DEF TypeOK
<1>4. UNCHANGED <<gc, reader, ddl>>
  BY Zenon
<1> QED BY <1>1, <1>3, <1>4, StepBy, Zenon

LEMMA TaskMovesInv ==
  ASSUME NEW s \in Servers, TxnInv, TaskActive(s) \/ TaskVerify(s) \/ TaskThrows(s)
  PROVE  TxnInv'
<1>1. TypeOK /\ TaskOK(s) /\ faults \in 0 .. MaxFaults
  BY Zenon DEF TxnInv, TypeOK
<1>2. UNCHANGED <<meta, object, thread>> /\ UNCHANGED <<host, gc, reader, ddl>> /\ faults' \in 0 .. MaxFaults
  BY <1>1, FaultFacts, Zenon DEF TaskActive, TaskVerify, TaskThrows, NotByTask
<1>3. Committed' = Committed /\ (Aborting => Aborting') /\ undo' = undo
  BY <1>2, Frame, Zenon
<1>4. CASE SetTask(s, NoTask)
  <2>1. task' \in [Servers -> Tasks] /\ task'[s] = NoTask /\ \A d \in Servers \ {s} : task'[d] = task[d]
    BY <1>1, <1>4, NoTaskFacts, SetTaskFacts, Zenon
  <2>2. TaskOK(s)'
    BY <2>1, NoTaskOK, Zenon
  <2> QED BY <1>2, <2>1, <2>2, TaskMoves, Zenon
<1>5. CASE At(s, "active") /\ Stage(s, "cas")
  <2>1. task[s].kind = "abort"
    <3>1. task[s].kind \in {"none", "abort", "commit", "callee"} /\ task[s].stage = "active"
      BY <1>1, <1>5 DEF TypeOK, Tasks, At
    <3> QED BY <1>1, <3>1, Zenon DEF TaskOK
  <2>2. /\ task' \in [Servers -> Tasks] /\ \A d \in Servers \ {s} : task'[d] = task[d]
        /\ task'[s].stage = "cas" /\ task'[s].kind = "abort"
    BY <1>1, <1>5, <2>1, StageFacts, Zenon DEF Stages
  <2>3. TaskOK(s)'
    BY <2>2, Zenon DEF TaskOK
  <2> QED BY <1>2, <2>2, <2>3, TaskMoves, Zenon
<1>6. CASE At(s, "verify") /\ undo = {} /\ Stage(s, "record")
  <2>1. task[s].kind \in {"abort", "commit"} /\ task[s].stage = "verify"
    <3>1. task[s].kind \in {"none", "abort", "commit", "callee"} /\ task[s].stage = "verify"
      BY <1>1, <1>6 DEF TypeOK, Tasks, At
    <3> QED BY <1>1, <3>1, Zenon DEF TaskOK
  <2>2. /\ task' \in [Servers -> Tasks] /\ \A d \in Servers \ {s} : task'[d] = task[d]
        /\ task'[s].stage = "record" /\ task'[s].kind = task[s].kind
    BY <1>1, <1>6, StageFacts, Zenon DEF Stages
  <2>3. TaskOK(s)'
    BY <1>1, <1>3, <1>6, <2>1, <2>2, Zenon DEF TaskOK
  <2> QED BY <1>2, <2>2, <2>3, TaskMoves, Zenon
<1> QED BY <1>4, <1>5, <1>6, Zenon DEF TaskActive, TaskVerify, TaskThrows

LEMMA TaskReadInv == ASSUME NEW s \in Servers, TxnInv, TaskRead(s) PROVE TxnInv'
<1> DEFINE mine == IF task[s].kind = "abort" THEN undo ELSE {t \in undo : host[t] = s}
           others == IF task[s].kind = "commit" THEN {host[t] : t \in undo \ mine} ELSE {}
           r == [task[s] EXCEPT !.todo = mine, !.keys = mine, !.others = others,
                                !.stage = IF others = {} THEN "parts" ELSE "dispatch"]
<1>1. TypeOK /\ TaskOK(s) /\ task[s] \in Tasks /\ undo \subseteq Tables /\ host \in [Tables -> Servers] /\ task[s].stage = "read"
  BY Zenon DEF TxnInv, TypeOK, TaskRead, At
<1>2. /\ UNCHANGED <<meta, object, thread>> /\ UNCHANGED <<host, gc, reader, ddl>> /\ faults' = faults /\ faults \in 0 .. MaxFaults
      /\ SetTask(s, r)
  BY <1>1, Zenon DEF TaskRead, NotByTask, TypeOK
<1>3. mine \in SUBSET Tables
  BY <1>1, Zenon
<1>4. others \in SUBSET Servers /\ (task[s].kind # "commit" => others = {}) /\ (task[s].kind = "commit" /\ others = {} => undo \subseteq mine)
  <2>1. task[s].kind = "commit" => others = {host[t] : t \in undo \ mine}
    BY Zenon
  <2>2. task[s].kind # "commit" => others = {}
    BY Zenon
  <2> HIDE DEF mine, others
  <2>3. {host[t] : t \in undo \ mine} \subseteq Servers
    BY <1>1, Zenon
  <2>4. {host[t] : t \in undo \ mine} = {} => undo \subseteq mine
    BY Zenon
  <2> QED BY <2>1, <2>2, <2>3, <2>4, Zenon
<1>5. /\ r \in Tasks /\ r.kind = task[s].kind /\ r.todo = mine /\ r.keys = mine /\ r.others = others
      /\ r.stage = IF others = {} THEN "parts" ELSE "dispatch"
  <2> HIDE DEF mine, others
  <2> QED BY <1>1, <1>3, <1>4 DEF Tasks, Stages
<1> HIDE DEF mine, others, r
<1>6. task' \in [Servers -> Tasks] /\ task'[s] = r /\ \A d \in Servers \ {s} : task'[d] = task[d]
  BY <1>1, <1>2, <1>5, SetTaskFacts, Zenon
<1>7. Committed' = Committed /\ (Aborting => Aborting') /\ undo' = undo
  BY <1>2, Frame, Zenon
<1>8. TaskOK(s)'
  <2>1. r.kind # "none" /\ (r.kind = "abort" => Aborting') /\ (r.kind \in {"commit", "callee"} => Committed')
    BY <1>1, <1>5, <1>7, Zenon DEF TaskOK
  <2>2. r.stage \in {"parts", "dispatch"} /\ (r.stage = "dispatch" => r.kind = "commit" /\ r.others # {})
    BY <1>4, <1>5, Zenon
  <2>3. r.keys \ r.todo = {}
    BY <1>5, Zenon
  <2>4. r.kind = "commit" /\ r.stage = "parts" /\ r.others = {} => undo' \subseteq r.keys
    BY <1>4, <1>5, <1>7, Zenon
  <2> QED BY <1>6, <2>1, <2>2, <2>3, <2>4, Zenon DEF TaskOK
<1> QED BY <1>2, <1>6, <1>8, TaskMoves, Zenon

LEMMA TaskDispatchInv == ASSUME NEW s \in Servers, TxnInv, TaskDispatch(s) PROVE TxnInv'
<1> DEFINE r == [task[s] EXCEPT !.stage = "parts"]
<1>1. TypeOK /\ TaskOK(s) /\ task[s] \in Tasks /\ task[s].stage = "dispatch" /\ \A d \in Servers : task[d] \in Tasks
  BY Zenon DEF TxnInv, TypeOK, TaskDispatch, At
<1>2. UNCHANGED <<meta, object, thread>> /\ UNCHANGED <<host, gc, reader, ddl>> /\ faults' = faults /\ faults \in 0 .. MaxFaults
  BY <1>1, Zenon DEF TaskDispatch, NotByTask, TypeOK
<1>3. /\ r \in Tasks /\ r.kind = task[s].kind /\ r.todo = task[s].todo /\ r.keys = task[s].keys
      /\ r.others = task[s].others /\ r.stage = "parts"
  BY <1>1 DEF Tasks, Stages
<1>4. Callee \in Tasks /\ Callee.kind = "callee" /\ Callee.stage = "read"
  BY DEF Callee, Tasks, NoTask, Stages
<1>5. task' = [d \in Servers |-> IF d = s THEN r
                                 ELSE IF d \in task[s].others /\ task[d] = NoTask THEN Callee ELSE task[d]]
  BY Zenon DEF TaskDispatch
<1> HIDE DEF r
<1>6. task' \in [Servers -> Tasks] /\ task'[s] = r /\ \A d \in Servers \ {s} : task'[d] \in {Callee, task[d]}
  BY <1>1, <1>3, <1>4, <1>5, Zenon
<1>7. Committed' = Committed /\ undo' = undo /\ part' = part /\ Committed /\ task[s].kind = "commit" /\ task[s].others # {}
  <2>1. UNCHANGED <<rec, old, undo, part>> /\ Committed' = Committed
    BY <1>2, Frame, Zenon
  <2> QED BY <1>1, <2>1, Zenon DEF TaskOK
<1>8. TaskOK(s)'
  <2>1. \A t \in r.keys \ r.todo : part'[t] = "committed"
    BY <1>1, <1>3, <1>7, Zenon DEF TaskOK
  <2> QED BY <1>3, <1>6, <1>7, <2>1, Zenon DEF TaskOK
<1>9. ASSUME NEW d \in Servers PROVE TaskOK(d)' \/ task'[d] = task[d]
  <2>1. CASE d = s
    BY <1>8, <2>1, Zenon
  <2>2. CASE task'[d] = Callee
    <3>1. task'[d].kind = "callee" /\ task'[d].stage = "read"
      BY <1>4, <2>2, Zenon
    <3> QED BY <1>7, <3>1, Zenon DEF TaskOK
  <2> QED BY <1>6, <2>1, <2>2, Zenon
<1> QED BY <1>2, <1>6, <1>9, TaskMoves, Zenon


(* What a task that writes is entitled to.                                  *)
LEMMA TaskKind ==
  ASSUME NEW s \in Servers, TypeOK, TaskOK(s), task[s].stage \in {"cas", "parts", "record"}
  PROVE  /\ task[s].kind \in {"abort", "commit", "callee"}
         /\ task[s].stage = "cas" => task[s].kind = "abort"
         /\ task[s].stage = "record" => task[s].kind # "callee"
         /\ task[s].kind = "abort" /\ task[s].stage # "cas" => Aborting
         /\ task[s].kind # "abort" => Committed
<1>1. task[s].kind \in {"none", "abort", "commit", "callee"}
  BY DEF TypeOK, Tasks
<1> QED BY <1>1, Zenon DEF TaskOK

LEMMA TaskPartInv == ASSUME NEW s \in Servers, NEW t \in Tables, TxnInv, TaskPart(s, t) PROVE TxnInv'
<1> DEFINE r == [task[s] EXCEPT !.todo = task[s].todo \ {t}]
<1>1. TypeOK /\ TaskOK(s) /\ PartsOK /\ task[s] \in Tasks /\ task[s].stage = "parts"
  BY Zenon DEF TxnInv, TypeOK, TaskPart, At
<1>2. /\ UNCHANGED <<rec, old, undo, actions, mem, active, pc, result>> /\ UNCHANGED <<prepared, force, owner, todo, host, faults>>
      /\ UNCHANGED <<gc, reader, ddl>> /\ SetTask(s, r)
  <2>1. SetTask(s, [task[s] EXCEPT !.todo = @ \ {t}]) /\ UNCHANGED <<rec, old, undo>> /\ NotByTask
    BY Zenon DEF TaskPart
  <2>2. SetTask(s, r)
    BY <2>1 DEF SetTask
  <2> QED BY <2>1, <2>2, Zenon DEF NotByTask, object, thread
<1>3. /\ r \in Tasks /\ r.kind = task[s].kind /\ r.todo = task[s].todo \ {t} /\ r.keys = task[s].keys
      /\ r.others = task[s].others /\ r.stage = "parts"
  BY <1>1 DEF Tasks
<1> HIDE DEF r
<1>4. task' \in [Servers -> Tasks] /\ task'[s] = r /\ \A d \in Servers \ {s} : task'[d] = task[d]
  BY <1>1, <1>2, <1>3, SetTaskFacts, Zenon
<1>5. (task[s].kind = "abort" /\ Aborting) \/ (task[s].kind \in {"commit", "callee"} /\ Committed /\ part[t] # "none")
  <2>1. Committed => part[t] # "none"
    BY <1>1, Zenon DEF PartsOK
  <2> QED BY <1>1, <2>1, TaskKind, Zenon
<1>6. PICK v : part' = [part EXCEPT ![t] = v] /\ ((Committed /\ v = "committed" /\ task[s].kind # "abort") \/ (Aborting /\ v = "none" /\ task[s].kind = "abort"))
  <2>1. part' = [part EXCEPT ![t] = IF task[s].kind = "abort" \/ part[t] = "none" THEN "none" ELSE "committed"]
    BY <1>1 DEF TaskPart, TypeOK
  <2>2. CASE task[s].kind = "abort"
    BY <1>5, <2>1, <2>2, Zenon
  <2>3. CASE task[s].kind # "abort"
    BY <1>5, <2>1, <2>3, Zenon
  <2> QED BY <2>2, <2>3, Zenon
<1>7. /\ part' \in [Tables -> {"none", "intermediate", "committed"}]
      /\ part'[t] = v /\ \A u \in Tables \ {t} : part'[u] = part[u]
      /\ Committed' = Committed /\ (Aborting <=> Aborting') /\ Kept /\ ~ Removed
      /\ PartsOK' /\ ObjectOK' /\ QueryOK'
  BY <1>2, <1>6, PartChange, Zenon
<1>8. TypeOK'
  BY <1>1, <1>2, <1>4, <1>7, SMT DEF TypeOK
<1>9. TaskOK(s)'
  <2>1. task[s].keys \subseteq Tables
    BY <1>1 DEF Tasks
  <2>2. r.kind \in {"commit", "callee"} => Committed' /\ \A u \in r.keys \ r.todo : part'[u] = "committed"
    BY <1>1, <1>3, <1>5, <1>6, <1>7, <2>1, Zenon DEF TaskOK
  <2>3. r.kind = "commit" /\ r.others = {} => undo' \subseteq r.keys
    BY <1>1, <1>2, <1>3, Zenon DEF TaskOK
  <2>4. r.kind # "none" /\ (r.kind = "abort" => Aborting')
    BY <1>3, <1>5, <1>7, Zenon
  <2> QED BY <1>3, <1>4, <2>2, <2>3, <2>4, Zenon DEF TaskOK
<1>10. (\A d \in Servers : TaskOK(d)' \/ task'[d] = task[d])
       /\ \A p \in Threads : pc'[p] = pc[p] /\ todo'[p] = todo[p] /\ (mem = "Finished" => mem' = "Finished")
  BY <1>2, <1>4, <1>9, Zenon
<1> QED BY <1>2, <1>7, <1>8, <1>10, StepBy, Zenon

LEMMA TaskUndoInv == ASSUME NEW s \in Servers, TxnInv, TaskUndo(s) PROVE TxnInv'
<1> DEFINE byKeys == task[s].others # {} \/ task[s].kind = "callee"
<1>1. TypeOK /\ TaskOK(s) /\ PartsOK /\ ObjectOK /\ task[s] \in Tasks /\ task[s].stage = "parts" /\ task[s].todo = {}
  BY Zenon DEF TxnInv, TypeOK, TaskUndo, At
<1>2. /\ UNCHANGED <<rec, old, part, actions, result>> /\ UNCHANGED <<mem, prepared, active, force, owner, pc, todo, host, faults>>
      /\ UNCHANGED <<gc, reader, ddl>>
  BY Zenon DEF TaskUndo, NotByTask, object, thread
<1>3. /\ undo' = IF byKeys THEN undo \ task[s].keys ELSE {}
      /\ IF task[s].kind = "callee" THEN SetTask(s, NoTask) ELSE Stage(s, IF byKeys THEN "verify" ELSE "record")
  BY Zenon DEF TaskUndo
<1>4. undo' \subseteq undo
  BY <1>3, Zenon
<1>k. task[s].kind \in {"abort", "commit", "callee"} /\ (task[s].kind = "abort" => Aborting) /\ (task[s].kind # "abort" => Committed)
  BY <1>1, TaskKind, Zenon
<1>5. Aborting \/ (Committed /\ \A t \in Tables : part[t] = "committed" \/ t \in undo')
  <2>1. CASE task[s].kind = "abort"
    BY <1>k, <2>1, Zenon
  <2>2. CASE task[s].kind # "abort"
    <3>1. \A t \in task[s].keys : part[t] = "committed"
      BY <1>1, <1>k, <2>2, Zenon DEF TaskOK
    <3>2. \A t \in Tables : part[t] = "committed" \/ t \in undo
      BY <1>1, <1>k, <2>2, Zenon DEF PartsOK
    <3>3. CASE byKeys
      BY <1>3, <1>k, <2>2, <3>1, <3>2, <3>3, Zenon
    <3>4. CASE ~ byKeys
      <4>1. undo \subseteq task[s].keys
        BY <1>1, <1>k, <2>2, <3>4, Zenon DEF TaskOK
      <4> QED BY <1>k, <2>2, <3>1, <3>2, <4>1, Zenon
    <3> QED BY <3>3, <3>4, Zenon
  <2> QED BY <2>1, <2>2, Zenon
<1>6. Committed' = Committed /\ (Aborting => Aborting') /\ Kept /\ ~ Removed /\ PartsOK' /\ QueryOK'
  BY <1>2, <1>4, <1>5, UndoChange, Zenon
<1>7. task' \in [Servers -> Tasks] /\ TaskOK(s)' /\ \A d \in Servers \ {s} : task'[d] = task[d]
  <2>1. CASE task[s].kind = "callee"
    <3>1. task' \in [Servers -> Tasks] /\ task'[s] = NoTask /\ \A d \in Servers \ {s} : task'[d] = task[d]
      BY <1>1, <1>3, <2>1, NoTaskFacts, SetTaskFacts, Zenon
    <3> QED BY <3>1, NoTaskOK, Zenon
  <2>2. CASE task[s].kind # "callee"
    <3>1. PICK l \in {"verify", "record"} : Stage(s, l) /\ (l = "record" => undo' = {})
      BY <1>3, <2>2, Zenon
    <3>2. /\ task' \in [Servers -> Tasks] /\ \A d \in Servers \ {s} : task'[d] = task[d]
          /\ task'[s].stage = l /\ task'[s].kind = task[s].kind
      <4>1. l \in Stages
        BY Zenon DEF Stages
      <4> QED BY <1>1, <3>1, <4>1, StageFacts, Zenon
    <3>3. TaskOK(s)'
      BY <1>6, <1>k, <2>2, <3>1, <3>2, Zenon DEF TaskOK
    <3> QED BY <3>2, <3>3, Zenon
  <2> QED BY <2>1, <2>2, Zenon
<1>8. TypeOK'
  <2>1. undo' \subseteq Tables
    BY <1>1, <1>4, Zenon DEF TypeOK
  <2> QED BY <1>1, <1>2, <1>7, <2>1, SMT DEF TypeOK
<1>9. ObjectOK'
  BY <1>1, <1>2, <1>6, Zenon DEF ObjectOK
<1>10. (\A d \in Servers : TaskOK(d)' \/ task'[d] = task[d])
       /\ \A p \in Threads : pc'[p] = pc[p] /\ todo'[p] = todo[p] /\ (mem = "Finished" => mem' = "Finished")
  BY <1>2, <1>7, Zenon
<1> QED BY <1>2, <1>6, <1>8, <1>9, <1>10, StepBy, Zenon

LEMMA TaskRecordInv == ASSUME NEW s \in Servers, TxnInv, TaskRecord(s) PROVE TxnInv'
<1>1. TypeOK /\ TaskOK(s) /\ PartsOK /\ ObjectOK /\ task[s].stage = "record"
  BY Zenon DEF TxnInv, TypeOK, TaskRecord, At
<1>2. /\ UNCHANGED <<undo, part, actions, result>> /\ UNCHANGED <<mem, prepared, active, force, owner, pc, todo, host, faults>>
      /\ UNCHANGED <<gc, reader, ddl>> /\ SetTask(s, NoTask) /\ old' = FALSE
      /\ rec' = IF task[s].kind = "abort" THEN "none" ELSE "Cleaned"
  BY Zenon DEF TaskRecord, NotByTask, object, thread
<1>3. (Committed /\ undo = {} /\ rec' = "Cleaned") \/ (Aborting /\ rec' = "none")
  <2>1. task[s].kind \in {"abort", "commit"} /\ (task[s].kind = "abort" => Aborting) /\ (task[s].kind = "commit" => Committed)
    BY <1>1, TaskKind, Zenon
  <2>2. task[s].kind = "commit" => undo = {}
    BY <1>1, Zenon DEF TaskOK
  <2> QED BY <1>2, <2>1, <2>2, Zenon
<1>4. Committed' = Committed /\ (Aborting => Aborting') /\ Kept /\ ~ Removed /\ PartsOK' /\ QueryOK'
  BY <1>2, <1>3, RecordPut, Zenon
<1>5. task' \in [Servers -> Tasks] /\ task'[s] = NoTask /\ \A d \in Servers \ {s} : task'[d] = task[d]
  BY <1>1, <1>2, NoTaskFacts, SetTaskFacts, Zenon
<1>6. TypeOK'
  <2>1. rec' \in {"none", "Cleaned"}
    BY <1>3, Zenon
  <2>2. /\ UNCHANGED <<undo, part, actions, result, mem, prepared, active, force, owner, pc, todo, host, faults, gc, reader, ddl>>
        /\ old' \in BOOLEAN
    BY <1>2, Zenon
  <2> QED BY <1>1, <1>5, <2>1, <2>2, SMT DEF TypeOK
<1>7. ObjectOK'
  BY <1>1, <1>2, <1>4, Zenon DEF ObjectOK
<1>8. (\A d \in Servers : TaskOK(d)' \/ task'[d] = task[d])
      /\ \A p \in Threads : pc'[p] = pc[p] /\ todo'[p] = todo[p] /\ (mem = "Finished" => mem' = "Finished")
  BY <1>2, <1>5, NoTaskOK, Zenon
<1> QED BY <1>2, <1>4, <1>6, <1>7, <1>8, StepBy, Zenon

(* The putCAS of a clean task is one step of ByteKV.                        *)
LEMMA NoPut == ASSUME NEW s \in Servers, Metastore = "ByteKV", TypeOK PROVE ~ At(s, "put")
<1>1. task[s].stage \in Stages
  BY DEF TypeOK, Tasks
<1> QED BY <1>1 DEF Stages, At

LEMMA TaskAbortInv == ASSUME NEW s \in Servers, Metastore = "ByteKV", TxnInv, TaskAbort(s) PROVE TxnInv'
<1>0. ~ At(s, "put")
  BY NoPut, Zenon DEF TxnInv
<1>1. TypeOK /\ TaskOK(s) /\ PartsOK /\ ObjectOK /\ QueryOK /\ task[s].stage = "cas"
  BY <1>0, Zenon DEF TxnInv, TypeOK, TaskAbort, At
<1>2. UNCHANGED <<old, undo, part>> /\ UNCHANGED <<object, thread>> /\ UNCHANGED <<host, gc, reader, ddl>> /\ faults' = faults
  BY Zenon DEF TaskAbort, NotByTask
<1>3. CASE rec' = rec /\ SetTask(s, NoTask)
  <2>1. task' \in [Servers -> Tasks] /\ task'[s] = NoTask /\ \A d \in Servers \ {s} : task'[d] = task[d]
    BY <1>1, <1>3, NoTaskFacts, SetTaskFacts, Zenon
  <2>2. TaskOK(s)' /\ UNCHANGED <<meta, object, thread>> /\ faults' \in 0 .. MaxFaults
    BY <1>1, <1>2, <1>3, <2>1, NoTaskOK, Zenon DEF meta, TypeOK
  <2> QED BY <1>2, <2>1, <2>2, TaskMoves, Zenon
<1>4. CASE rec = "Running" /\ rec' = "Aborted" /\ Stage(s, "read")
  <2>1. /\ UNCHANGED <<mem, prepared, actions, active, force, owner>> /\ UNCHANGED <<pc, todo, result>> /\ UNCHANGED <<gc, reader, ddl>>
    BY <1>2, Zenon DEF object, thread
  <2>2. ~ Committed /\ ~ Committed'
    BY <1>4, Zenon DEF Committed
  <2>3. pc["query"] # "new" /\ ~ MayCommit' /\ Aborting' /\ Kept /\ ~ Removed
    <3>1. pc["query"] # "new"
      BY <1>1, <1>4, Zenon DEF QueryOK
    <3>2. ~ MayCommit'
      BY <1>4, <2>1, <3>1, Zenon DEF MayCommit
    <3> QED BY <2>2, <3>1, <3>2, Zenon DEF Aborting, Kept, Removed
  <2>4. PartsOK'
    BY <1>1, <1>2, <2>2, Zenon DEF PartsOK
  <2>5. QueryOK'
    BY <1>1, <2>1, <2>2, <2>3, Zenon DEF QueryOK
  <2>6. ObjectOK'
    BY <1>1, <2>1, <2>2, <2>3, Zenon DEF ObjectOK
  <2>7. task[s].kind = "abort"
    BY <1>1, TaskKind, Zenon
  <2>8. /\ task' \in [Servers -> Tasks] /\ \A d \in Servers \ {s} : task'[d] = task[d]
        /\ task'[s].stage = "read" /\ task'[s].kind = "abort"
    BY <1>1, <1>4, <2>7, StageFacts, Zenon DEF Stages
  <2>9. TaskOK(s)'
    BY <2>3, <2>8, ZenonT(60) DEF TaskOK
  <2>10. TypeOK'
    BY <1>1, <1>2, <1>4, <2>1, <2>8, SMT DEF TypeOK
  <2>11. (\A d \in Servers : TaskOK(d)' \/ task'[d] = task[d])
         /\ \A p \in Threads : pc'[p] = pc[p] /\ todo'[p] = todo[p] /\ (mem = "Finished" => mem' = "Finished")
    BY <2>1, <2>8, <2>9, Zenon
  <2> QED BY <1>4, <2>1, <2>3, <2>4, <2>5, <2>6, <2>10, <2>11, StepBy, Zenon
<1> QED BY <1>0, <1>3, <1>4, Zenon DEF TaskAbort

-----------------------------------------------------------------------------
(* The daemon, the reader, crashes and moves.                               *)
Rounds == [stage : {"records", "judge", "undo", "missing"},
           saw : {"none", "Running", "Finished", "Cleaned", "Old", "Aborted", "Missing"}]

LEMMA GCToFacts ==
  ASSUME NEW l \in {"records", "judge", "undo", "missing"},
         NEW v \in {"none", "Running", "Finished", "Cleaned", "Old", "Aborted", "Missing"}, GCTo(l, v)
  PROVE  gc' \in Rounds /\ gc'.stage = l /\ gc'.saw = v
BY DEF GCTo, Rounds

(* The daemon looks, or schedules a task.                                   *)
LEMMA GCMoves ==
  ASSUME TxnInv, UNCHANGED <<meta, object, thread>>, UNCHANGED <<host, reader, ddl>>, faults' \in 0 .. MaxFaults,
         gc' \in Rounds, GCOK', gc'.saw = "Old" => rec = "Cleaned" /\ old,
         task' \in [Servers -> Tasks], \A s \in Servers : TaskOK(s)' \/ task'[s] = task[s]
  PROVE  TxnInv'
<1>1. /\ UNCHANGED <<rec, old, undo, part>> /\ UNCHANGED <<mem, prepared, actions, active, force, owner>>
      /\ UNCHANGED <<pc, todo, result>>
      /\ Kept /\ ~ Removed /\ PartsOK' /\ QueryOK' /\ ObjectOK'
  BY Frame, Zenon
<1>2. TypeOK /\ ReaderOK /\ ReadersSeeCommits /\ ddl.stage = "idle"
  BY Zenon DEF TxnInv
<1>3. TypeOK'
  <2>1. /\ UNCHANGED <<rec, old, undo, part, mem, prepared, actions, active, force, owner, pc, todo, result, host, reader, ddl>>
    BY <1>1, Zenon
  <2> QED BY <1>2, <2>1, SMT DEF TypeOK, Rounds
<1>4. ReaderOK' /\ ReadersSeeCommits'
  BY <1>1, <1>2, ReaderKept, Zenon
<1>5. \A p \in Threads : ThreadOK(p)'
  BY <1>1, ThreadKept, Zenon DEF TxnInv
<1>6. \A s \in Servers : TaskOK(s)'
  BY <1>1, TaskKept, Zenon DEF TxnInv
<1> QED BY <1>1, <1>2, <1>3, <1>4, <1>5, <1>6, Zenon DEF TxnInv

LEMMA GCLooksInv ==
  ASSUME TxnInv, GCScan \/ GCNothing \/ GCThrows \/ GCScanUndo \/ GCMissing
  PROVE  TxnInv'
<1>1. /\ TypeOK /\ PartsOK /\ QueryOK /\ task \in [Servers -> Tasks] /\ faults \in 0 .. MaxFaults
      /\ rec \in {"none", "Running", "Finished", "Cleaned", "Aborted"}
  BY Zenon DEF TxnInv, TypeOK
<1>2. UNCHANGED <<rec, task>> /\ NotByGC /\ faults' \in 0 .. MaxFaults
  BY <1>1, FaultFacts, Zenon DEF GCScan, GCNothing, GCThrows, GCScanUndo, GCMissing
<1>3. UNCHANGED <<meta, object, thread>> /\ UNCHANGED <<host, reader, ddl>> /\ task' = task
  BY <1>2, Zenon DEF NotByGC, meta
<1>4. Committed' = Committed /\ (Aborting => Aborting') /\ UNCHANGED <<rec, old, undo, part>> /\ UNCHANGED <<pc, todo, result>>
  BY <1>3, Frame, Zenon
<1>5. ASSUME NEW l \in {"records", "judge", "undo", "missing"},
             NEW v \in {"none", "Running", "Finished", "Cleaned", "Old", "Aborted", "Missing"}, GCTo(l, v),
             v = "Old" => rec = "Cleaned" /\ old, v = "Finished" => Committed, v \in {"Aborted", "Missing"} => Aborting,
             l = "missing" => pc["query"] # "new" /\ ~ (rec = "none" /\ Committed)
      PROVE  TxnInv'
  <2>1. gc' \in Rounds /\ gc'.stage = l /\ gc'.saw = v
    BY <1>5, GCToFacts, Zenon
  <2>2. rec = "Cleaned" => Committed /\ undo = {} /\ \A t \in Tables : part[t] = "committed"
    BY <1>1, Zenon DEF PartsOK, Committed
  <2>3. GCOK'
    BY <1>4, <1>5, <2>1, <2>2, Zenon DEF GCOK
  <2> QED BY <1>1, <1>2, <1>3, <1>5, <2>1, <2>3, GCMoves, Zenon
<1>6. CASE GCScan
  <2>1. CASE rec = "Cleaned" /\ old
    <3>1. GCTo("judge", "Old")
      BY <1>6, <2>1, Zenon DEF GCScan
    <3> QED BY <1>5, <2>1, <3>1, Zenon
  <2>2. CASE ~ (rec = "Cleaned" /\ old)
    <3>1. GCTo("judge", rec)
      BY <1>6, <2>2, Zenon DEF GCScan
    <3>2. rec = "Aborted" => Aborting
      BY <1>1, Zenon DEF Aborting, Committed, MayCommit, QueryOK
    <3>3. rec = "Finished" => Committed
      BY Zenon DEF Committed
    <3>4. rec \in {"none", "Running", "Finished", "Cleaned", "Old", "Aborted", "Missing"} /\ rec \notin {"Old", "Missing"}
      BY <1>1, Zenon
    <3> QED BY <1>5, <3>1, <3>2, <3>3, <3>4, Zenon
  <2> QED BY <2>1, <2>2, Zenon
<1>7. CASE GCNothing \/ GCThrows
  <2>1. GCTo("undo", "none")
    BY <1>7, Zenon DEF GCNothing, GCThrows
  <2> QED BY <1>5, <2>1, Zenon
<1>8. CASE GCScanUndo
  <2>1. CASE undo = {}
    <3>1. GCTo("records", "none")
      BY <1>8, <2>1, Zenon DEF GCScanUndo
    <3> QED BY <1>5, <3>1, Zenon
  <2>2. CASE undo # {}
    <3>1. GCTo("missing", "none")
      BY <1>8, <2>2, Zenon DEF GCScanUndo
    <3>2. pc["query"] # "new" /\ ~ (rec = "none" /\ Committed)
      BY <1>1, <2>2, Zenon DEF QueryOK, PartsOK
    <3> QED BY <1>5, <3>1, <3>2, Zenon
  <2> QED BY <2>1, <2>2, Zenon
<1>9. CASE GCMissing
  <2>1. CASE rec = "none"
    <3>1. GCTo("judge", "Missing")
      BY <1>9, <2>1, Zenon DEF GCMissing
    <3>2. Aborting
      BY <1>9, <2>1, Zenon DEF GCMissing, TxnInv, GCOK, Aborting, MayCommit
    <3> QED BY <1>5, <3>1, <3>2, Zenon
  <2>2. CASE rec # "none"
    <3>1. GCTo("records", "none")
      BY <1>9, <2>2, Zenon DEF GCMissing
    <3> QED BY <1>5, <3>1, Zenon
  <2> QED BY <2>1, <2>2, Zenon
<1> QED BY <1>6, <1>7, <1>8, <1>9, Zenon

LEMMA GCCleanInv == ASSUME NEW s \in Servers, TxnInv, GCClean(s) PROVE TxnInv'
<1> DEFINE r == [NoTask EXCEPT !.kind = IF gc.saw = "Finished" THEN "commit" ELSE "abort",
                               !.stage = IF gc.saw = "Running" THEN "active" ELSE "read"]
<1>1. TypeOK /\ GCOK /\ task \in [Servers -> Tasks] /\ faults \in 0 .. MaxFaults
  BY Zenon DEF TxnInv, TypeOK
<1>2. rec' = rec /\ NotByGC /\ faults' \in 0 .. MaxFaults
  BY <1>1, FaultFacts, Zenon DEF GCClean
<1>3. UNCHANGED <<meta, object, thread>> /\ UNCHANGED <<host, reader, ddl>>
  BY <1>2, Zenon DEF NotByGC, meta
<1>4. Committed' = Committed /\ (Aborting => Aborting')
  BY <1>3, Frame, Zenon
<1>5. gc.saw \in {"Running", "Aborted", "Finished", "Missing"}
  BY Zenon DEF GCClean, Target
<1>6. gc' \in Rounds /\ gc'.stage \in {"records", "undo"} /\ gc'.saw = "none"
  <2>1. CASE GCTo("records", "none")
    BY <2>1, GCToFacts, Zenon
  <2>2. CASE GCTo("undo", "none")
    BY <2>2, GCToFacts, Zenon
  <2> QED BY <2>1, <2>2, Zenon DEF GCClean
<1>7. GCOK'
  BY <1>6, Zenon DEF GCOK
<1>8. /\ r \in Tasks /\ r.kind = (IF gc.saw = "Finished" THEN "commit" ELSE "abort") /\ r.keys = {} /\ r.todo = {}
      /\ r.stage = IF gc.saw = "Running" THEN "active" ELSE "read"
  BY DEF NoTask, Tasks, Stages
<1>9. task' = task \/ SetTask(s, r)
  BY Zenon DEF GCClean
<1> HIDE DEF r
<1>10. CASE task' = task
  BY <1>1, <1>2, <1>3, <1>6, <1>7, <1>10, GCMoves, Zenon
<1>11. CASE SetTask(s, r)
  <2>1. task' \in [Servers -> Tasks] /\ task'[s] = r /\ \A d \in Servers \ {s} : task'[d] = task[d]
    BY <1>1, <1>8, <1>11, SetTaskFacts, Zenon
  <2>2. (r.kind = "commit" /\ r.stage = "read" /\ Committed') \/ (r.kind = "abort" /\ (r.stage = "active" \/ (r.stage = "read" /\ Aborting')))
    BY <1>1, <1>4, <1>5, <1>8, Zenon DEF GCOK
  <2>3. TaskOK(s)'
    BY <2>1, <2>2, Zenon DEF TaskOK
  <2> QED BY <1>2, <1>3, <1>6, <1>7, <2>1, <2>3, GCMoves, Zenon
<1> QED BY <1>9, <1>10, <1>11, Zenon

(* The record of a committed transaction goes last.                         *)
LEMMA GCRemoveInv == TxnInv /\ GCRemove => TxnInv'
<1> SUFFICES ASSUME TxnInv, GCRemove PROVE TxnInv'
  OBVIOUS
<1>1. TypeOK /\ PartsOK /\ QueryOK /\ ObjectOK /\ GCOK /\ ReaderOK /\ ReadersSeeCommits /\ ddl.stage = "idle"
  BY Zenon DEF TxnInv
<1>2. /\ gc.saw = "Old" /\ rec' = "none" /\ GCTo("undo", "none")
      /\ UNCHANGED <<old, undo, part>> /\ UNCHANGED <<mem, prepared, actions, active, force, owner, pc, todo, result>>
      /\ UNCHANGED <<task, faults, host, reader, ddl>>
  BY Zenon DEF GCRemove, NotByGC, object, thread
<1>3. gc' \in Rounds /\ gc'.stage = "undo" /\ gc'.saw = "none"
  BY <1>2, GCToFacts, Zenon
<1>4. undo = {} /\ Committed /\ \A t \in Tables : part[t] = "committed"
  BY <1>1, <1>2, Zenon DEF GCOK
<1>5. Committed'
  BY <1>2, <1>4, Zenon DEF Committed
<1>6. Kept /\ ~ Aborting /\ pc["query"] # "new" /\ pc["query"] \notin Early /\ pc["query"] # "rollback"
  BY <1>1, <1>2, <1>4, <1>5, Zenon DEF Kept, Aborting, QueryOK
<1>7. TypeOK'
  <2>1. UNCHANGED <<old, undo, part, mem, prepared, actions, active, force, owner, pc, todo, result, task, faults, host, reader, ddl>>
    BY <1>2, Zenon
  <2> QED BY <1>1, <1>2, <1>3, <2>1, SMT DEF TypeOK, Rounds
<1>8. PartsOK' /\ GCOK'
  BY <1>2, <1>3, <1>4, <1>5, Zenon DEF PartsOK, GCOK
<1>9. QueryOK'
  BY <1>1, <1>2, <1>5, <1>6, Zenon DEF QueryOK, Early
<1>10. ObjectOK'
  BY <1>1, <1>2, <1>4, <1>5, <1>6, Zenon DEF ObjectOK
<1>11. ReaderOK' /\ ReadersSeeCommits'
  <2>1. ReaderOK'
    BY <1>1, <1>2, <1>5, Zenon DEF ReaderOK
  <2>2. ReadersSeeCommits'
    BY <1>1, <1>2, Zenon DEF ReadersSeeCommits
  <2> QED BY <2>1, <2>2, Zenon
<1>12. \A p \in Threads : ThreadOK(p)'
  BY <1>2, <1>6, ThreadKept, Zenon DEF TxnInv
<1>13. \A s \in Servers : TaskOK(s)'
  BY <1>1, <1>2, <1>6, TaskKept, Zenon DEF TxnInv
<1> QED BY <1>1, <1>2, <1>7, <1>8, <1>9, <1>10, <1>11, <1>12, <1>13, Zenon DEF TxnInv

Queries == [stage : {"idle", "parts", "done"}, snap : [Tables -> {"none", "intermediate", "committed"}],
            acked : BOOLEAN, sees : SUBSET Tables]

(* The reader moves, or the clean time of the record grows old.             *)
LEMMA ReaderMoves ==
  ASSUME TxnInv, UNCHANGED <<rec, undo, part>>, UNCHANGED <<object, thread>>, UNCHANGED <<task, host, gc, ddl, faults>>,
         old' \in BOOLEAN, reader' \in Queries, ReaderOK', ReadersSeeCommits'
  PROVE  TxnInv'
<1>1. UNCHANGED <<rec, undo, part>> /\ UNCHANGED <<mem, prepared, actions, active, force, owner>> /\ UNCHANGED <<pc, todo, result>>
  BY Zenon DEF object, thread
<1>2. Committed' = Committed /\ (MayCommit' => MayCommit) /\ (Aborting => Aborting') /\ ~ Removed /\ Kept
  BY <1>1, SameDecision, Zenon
<1>3. TypeOK /\ PartsOK /\ QueryOK /\ ObjectOK /\ GCOK /\ ddl.stage = "idle"
  BY Zenon DEF TxnInv
<1>4. PartsOK'
  BY <1>1, <1>2, <1>3, Zenon DEF PartsOK
<1>5. QueryOK'
  BY <1>1, <1>2, <1>3, Zenon DEF QueryOK
<1>6. ObjectOK'
  BY <1>1, <1>2, <1>3, Zenon DEF ObjectOK
<1>7. GCOK'
  BY <1>1, <1>2, <1>3, GCKept, Zenon
<1>8. TypeOK'
  <2>1. UNCHANGED <<rec, undo, part, mem, prepared, actions, active, force, owner, pc, todo, result, task, faults, host, gc, ddl>>
    BY <1>1, Zenon
  <2> QED BY <1>3, <2>1, SMT DEF TypeOK, Queries
<1>9. \A p \in Threads : ThreadOK(p)'
  BY <1>1, <1>2, ThreadKept, Zenon DEF TxnInv
<1>10. \A s \in Servers : TaskOK(s)'
  BY <1>2, <1>3, TaskKept, Zenon DEF TxnInv
<1> QED BY <1>3, <1>4, <1>5, <1>6, <1>7, <1>8, <1>9, <1>10, Zenon DEF TxnInv

LEMMA ReaderInv == ASSUME TxnInv, ReadParts \/ ReadRecords \/ Age PROVE TxnInv'
<1>1. TypeOK /\ PartsOK /\ QueryOK /\ GCOK /\ ReaderOK /\ ReadersSeeCommits
  BY Zenon DEF TxnInv
<1>t. reader \in Queries /\ old \in BOOLEAN /\ part \in [Tables -> {"none", "intermediate", "committed"}]
  BY <1>1, Zenon DEF TypeOK, Queries
<1>2. UNCHANGED <<rec, undo, part>> /\ UNCHANGED <<object, thread>> /\ UNCHANGED <<task, host, gc, ddl, faults>>
  BY Zenon DEF ReadParts, ReadRecords, Age, meta
<1>3. Committed' = Committed /\ pc' = pc
  BY <1>2, SameDecision, Zenon DEF thread
<1>4. CASE ReadParts
  <2>1. reader' = [reader EXCEPT !.stage = "parts", !.snap = part, !.acked = result = "committed"] /\ old' = old
    BY <1>4, Zenon DEF ReadParts, meta
  <2>2. reader' \in Queries /\ reader'.stage = "parts" /\ reader'.snap = part /\ reader'.sees = reader.sees
    BY <1>t, <2>1 DEF Queries
  <2>3. reader'.acked <=> result = "committed"
    BY <1>t, <2>1 DEF Queries
  <2>4. Committed => \A t \in Tables : part[t] # "none"
    BY <1>1, Zenon DEF PartsOK
  <2>5. result = "committed" => Committed
    BY <1>1, Zenon DEF QueryOK
  <2>6. ASSUME NEW t \in Tables, part[t] = "intermediate" PROVE gc.saw # "Old" /\ rec # "Cleaned" /\ ~ (rec = "none" /\ Committed)
    <3>1. gc.saw # "Old"
      BY <1>1, <2>6, Zenon DEF GCOK
    <3>2. Committed => rec = "Finished"
      BY <1>1, <2>6, Zenon DEF PartsOK
    <3> QED BY <3>1, <3>2, Zenon DEF Committed
  <2>7. (\E t \in Tables : part[t] = "committed") => Committed
    BY <1>1, Zenon DEF PartsOK
  <2>8. ReaderOK'
    <3>1. reader'.acked => Committed' /\ \A t \in Tables : reader'.snap[t] # "none"
      BY <1>3, <2>2, <2>3, <2>4, <2>5, Zenon
    <3>2. (\E t \in Tables : reader'.snap[t] = "committed") => Committed'
      BY <1>3, <2>2, <2>7, Zenon
    <3>3. (\E t \in Tables : reader'.snap[t] = "intermediate") =>
            gc'.saw # "Old" /\ ~ (rec' = "Cleaned" /\ old') /\ ~ (rec' = "none" /\ Committed')
      BY <1>2, <1>3, <2>2, <2>6, Zenon
    <3>4. reader'.sees # {} => Committed'
      BY <1>1, <1>3, <2>2, Zenon DEF ReaderOK
    <3> QED BY <3>1, <3>2, <3>3, <3>4, Zenon DEF ReaderOK
  <2>9. ReadersSeeCommits'
    BY <2>2, Zenon DEF ReadersSeeCommits
  <2> QED BY <1>t, <1>2, <2>1, <2>2, <2>8, <2>9, ReaderMoves, Zenon
<1>5. CASE ReadRecords
  <2>1. reader' = [reader EXCEPT !.stage = "done", !.sees = isCommitted, !.snap = NoParts] /\ old' = old /\ reader.stage = "parts"
    BY <1>5, Zenon DEF ReadRecords, meta
  <2>2. isCommitted \in SUBSET Tables /\ NoParts \in [Tables -> {"none", "intermediate", "committed"}]
    BY Zenon DEF isCommitted, NoParts
  <2>3. reader' \in Queries /\ reader'.stage = "done" /\ reader'.sees = isCommitted /\ reader'.acked = reader.acked
    BY <1>t, <2>1, <2>2 DEF Queries
  <2>4. isCommitted # {} => Committed
    <3>1. ASSUME NEW t \in Tables, Visible(t, reader.snap) PROVE Committed
      BY <1>1, <2>1, <3>1, Zenon DEF Visible, ReaderOK, Committed
    <3> QED BY <3>1, Zenon DEF isCommitted
  <2>5. ASSUME reader.acked, NEW t \in Tables PROVE Visible(t, reader.snap)
    <3>1. Committed /\ reader.snap[t] # "none"
      BY <1>1, <2>1, <2>5, Zenon DEF ReaderOK
    <3>2. reader.snap[t] \in {"none", "intermediate", "committed"}
      BY <1>t DEF Queries
    <3>3. CASE reader.snap[t] = "intermediate"
      <4>1. ~ (rec = "none" /\ Committed)
        BY <1>1, <2>1, <3>3, Zenon DEF ReaderOK
      <4> QED BY <3>1, <3>3, <4>1, Zenon DEF Visible, Committed
    <3> QED BY <3>1, <3>2, <3>3, Zenon DEF Visible
  <2>6. ReaderOK'
    BY <1>3, <2>3, <2>4, Zenon DEF ReaderOK
  <2>7. ReadersSeeCommits'
    BY <2>3, <2>5, Zenon DEF ReadersSeeCommits, isCommitted
  <2> QED BY <1>t, <1>2, <2>1, <2>3, <2>6, <2>7, ReaderMoves, Zenon
<1>6. CASE Age
  <2>1. reader' = reader /\ reader.stage # "parts" /\ old' = TRUE
    BY <1>6, Zenon DEF Age
  <2>2. ReaderOK' /\ ReadersSeeCommits'
    BY <1>1, <1>3, <2>1, Zenon DEF ReaderOK, ReadersSeeCommits
  <2> QED BY <1>t, <1>2, <2>1, <2>2, ReaderMoves, Zenon
<1> QED BY <1>4, <1>5, <1>6, Zenon

LEMMA CrashInv == ASSUME NEW s \in Servers, TxnInv, Crash(s) PROVE TxnInv'
<1>1. TypeOK /\ PartsOK /\ QueryOK /\ ObjectOK
  BY Zenon DEF TxnInv
<1>2. UNCHANGED meta /\ UNCHANGED <<result, host>> /\ UNCHANGED <<gc, reader, ddl>> /\ faults' \in 0 .. MaxFaults
  BY <1>1, FaultFacts, Zenon DEF Crash
<1>3. task' \in [Servers -> Tasks] /\ task'[s] = NoTask /\ \A d \in Servers \ {s} : task'[d] = task[d]
  BY <1>1, NoTaskFacts, SetTaskFacts, Zenon DEF Crash
<1>4. \A d \in Servers : TaskOK(d)' \/ task'[d] = task[d]
  BY <1>3, NoTaskOK, Zenon
<1>5. CASE s # Home
  <2>1. UNCHANGED <<meta, object, thread>> /\ UNCHANGED <<host, gc, reader, ddl>>
    BY <1>2, <1>5, Zenon DEF Crash, thread
  <2> QED BY <1>2, <1>3, <1>4, <2>1, TaskMoves, Zenon
<1>6. CASE s = Home
  <2>1. /\ active' = FALSE /\ owner' = "none" /\ force' = FALSE /\ mem' = "Running" /\ prepared' = FALSE /\ actions' = {}
        /\ pc' = [p \in Threads |-> "done"] /\ todo' = [p \in Threads |-> {}]
        /\ UNCHANGED <<rec, old, undo, part>>
    BY <1>2, <1>6, Zenon DEF Crash, meta
  <2>2. (\A p \in Threads : pc'[p] = "done") /\ pc' \in [Threads -> Labels] /\ todo' \in [Threads -> SUBSET Tables]
    BY <2>1, Zenon DEF Labels
  <2>3. pc'["query"] = "done"
    BY <2>2, Zenon DEF Threads
  <2>4. Committed' = Committed /\ Kept /\ ~ Removed
    BY <2>1, <2>3, SameDecision, Zenon DEF Early
  <2>5. PartsOK'
    BY <1>1, <2>1, <2>4, Zenon DEF PartsOK
  <2>6. QueryOK'
    BY <1>1, <1>2, <2>3, <2>4, Zenon DEF QueryOK, Early
  <2>7. ObjectOK'
    BY <2>1, <2>2, Zenon DEF ObjectOK
  <2>8. \A p \in Threads : ThreadOK(p)'
    BY <2>2, ZenonT(60) DEF ThreadOK
  <2>9. TypeOK'
    <3>1. active' \in BOOLEAN /\ force' \in BOOLEAN /\ prepared' \in BOOLEAN /\ mem' \in {"Running"} /\ owner' \in {"none"} /\ actions' \subseteq Tables
      BY <2>1, Zenon
    <3>2. UNCHANGED <<rec, old, undo, part, result, host, gc, reader, ddl>>
      BY <1>2, <2>1, Zenon
    <3> QED BY <1>1, <1>2, <1>3, <2>2, <3>1, <3>2, SMT DEF TypeOK
  <2>10. rec' = "Cleaned" /\ old' => rec = "Cleaned" /\ old
    BY <2>1, Zenon
  <2> QED BY <1>2, <1>4, <2>3, <2>4, <2>5, <2>6, <2>7, <2>8, <2>9, <2>10, StepBy, Zenon
<1> QED BY <1>5, <1>6, Zenon

LEMMA MoveInv == ASSUME NEW t \in Tables, NEW s \in Servers, TxnInv, Move(t, s) PROVE TxnInv'
<1>1. /\ UNCHANGED <<rec, old, undo, part>> /\ UNCHANGED <<mem, prepared, actions, active, force, owner>>
      /\ UNCHANGED <<pc, todo, result>>
      /\ Kept /\ ~ Removed /\ PartsOK' /\ QueryOK' /\ ObjectOK'
  <2>1. UNCHANGED <<meta, object, thread>>
    BY Zenon DEF Move
  <2> QED BY <2>1, Frame, Zenon
<1>2. TypeOK /\ UNCHANGED <<task, gc, reader, ddl>> /\ UNCHANGED <<gc, reader, ddl>>
  BY ZenonT(60) DEF TxnInv, Move
<1>3. TypeOK'
  <2>1. host' \in [Tables -> Servers] /\ faults' \in 0 .. MaxFaults
    BY <1>2, FaultFacts, Zenon DEF Move, TypeOK
  <2>2. UNCHANGED <<rec, old, undo, part, mem, prepared, actions, active, force, owner, pc, todo, result, task, gc, reader, ddl>>
    BY <1>1, <1>2, Zenon
  <2> QED BY <1>2, <2>1, <2>2, SMT DEF TypeOK
<1> QED BY <1>1, <1>2, <1>3, StepBy, Zenon

-----------------------------------------------------------------------------
LEMMA TxnInit == Init => TxnInv
<1> SUFFICES ASSUME Init PROVE TxnInv
  OBVIOUS
<1>1. /\ rec = "none" /\ old = FALSE /\ undo = {} /\ part = NoParts /\ mem = "Running" /\ prepared = FALSE /\ actions = {}
      /\ active = FALSE /\ force = FALSE /\ owner = "none" /\ result = "none" /\ host \in [Tables -> Servers] /\ faults = 0
  BY Zenon DEF Init
<1>2. pc \in [Threads -> Labels] /\ todo \in [Threads -> SUBSET Tables] /\ pc["query"] = "new" /\ pc["scan"] = "idle"
  BY DEF Init, Threads, Labels
<1>3. task \in [Servers -> Tasks] /\ \A s \in Servers : task[s].kind = "none" /\ task[s].stage = "off"
  <2>1. task = [s \in Servers |-> NoTask]
    BY Zenon DEF Init
  <2> QED BY <2>1, NoTaskFacts, Zenon
<1>4. /\ NoParts \in [Tables -> {"none", "intermediate", "committed"}] /\ \A t \in Tables : NoParts[t] = "none"
  BY Zenon DEF NoParts
<1>5. gc \in Rounds /\ gc.stage = "records" /\ gc.saw = "none"
  BY DEF Init, Rounds
<1>6. reader \in Queries /\ reader.stage = "idle" /\ reader.sees = {}
  <2>1. reader = [stage |-> "idle", snap |-> NoParts, acked |-> FALSE, sees |-> {}]
    BY Zenon DEF Init
  <2> QED BY <1>4, <2>1 DEF Queries
<1>7. ddl \in [stage : {"idle", "record", "status", "rollback", "done"}, saw : {"none", "Running"}] /\ ddl.stage = "idle"
  BY DEF Init
<1>8. ~ Committed /\ \A t \in Tables : part[t] = "none"
  BY <1>1, <1>4, TxnAssumption, Zenon DEF Committed
<1>9. TypeOK
  <2>1. faults \in 0 .. MaxFaults
    BY <1>1, TxnAssumption
  <2>2. old \in BOOLEAN /\ prepared \in BOOLEAN /\ active \in BOOLEAN /\ force \in BOOLEAN
    BY <1>1, Zenon
  <2>3. rec \in {"none"} /\ mem \in {"Running"} /\ undo \subseteq Tables /\ actions \subseteq Tables
    BY <1>1, Zenon
  <2>4. part \in [Tables -> {"none", "intermediate", "committed"}]
    BY <1>1, <1>4, Zenon
  <2>5. owner \in {"none"} /\ result \in {"none"} /\ host \in [Tables -> Servers]
    BY <1>1, Zenon
  <2> QED BY <1>2, <1>3, <1>5, <1>6, <1>7, <2>1, <2>2, <2>3, <2>4, <2>5, SMT DEF TypeOK, Rounds, Queries
<1>10. PartsOK /\ QueryOK /\ ObjectOK /\ GCOK /\ ReaderOK /\ ReadersSeeCommits
  <2>1. PartsOK /\ ObjectOK
    BY <1>1, <1>8, Zenon DEF PartsOK, ObjectOK
  <2>2. QueryOK
    BY <1>1, <1>2, <1>8, Zenon DEF QueryOK, Early
  <2>3. GCOK
    BY <1>5, Zenon DEF GCOK
  <2>4. ReaderOK /\ ReadersSeeCommits
    BY <1>6, Zenon DEF ReaderOK, ReadersSeeCommits
  <2> QED BY <2>1, <2>2, <2>3, <2>4, Zenon
<1>11. \A p \in Threads : ThreadOK(p)
  BY <1>2, Zenon DEF Threads, ThreadOK
<1>12. \A s \in Servers : TaskOK(s)
  BY <1>3, Zenon DEF TaskOK
<1> QED BY <1>7, <1>9, <1>10, <1>11, <1>12, Zenon DEF TxnInv

LEMMA TxnNext == ASSUME Metastore = "ByteKV", TxnInv, [Next]_vars PROVE TxnInv'
<1>1. CASE QueryStep
  BY <1>1, CreateTxnInv, QueryMovesInv, WriteUndoInv, executeV2Inv, commitInv, abortInv, rollbackInv, Zenon DEF QueryStep
<1>2. CASE GCStep
  BY <1>2, GCLooksInv, GCRemoveInv, GCCleanInv, Zenon DEF GCStep
<1>3. ASSUME NEW p \in Threads, ThreadStep(p) PROVE TxnInv'
  BY <1>3, CleanerMovesInv, CleanAbortInv, CleanPartInv, CleanUndoRecordInv, Zenon DEF ThreadStep, Compare
<1>4. ASSUME NEW s \in Servers, TaskStep(s) PROVE TxnInv'
  BY <1>4, TaskMovesInv, TaskReadInv, TaskDispatchInv, TaskPartInv, TaskUndoInv, TaskRecordInv, TaskAbortInv, Zenon DEF TaskStep
<1>5. CASE UNCHANGED vars
  <2>1. UNCHANGED <<meta, object, thread>> /\ UNCHANGED <<host, gc, reader, ddl>> /\ task' = task /\ faults' = faults
    BY <1>5, Zenon DEF vars
  <2>2. faults \in 0 .. MaxFaults /\ task \in [Servers -> Tasks]
    BY Zenon DEF TxnInv, TypeOK
  <2> QED BY <2>1, <2>2, TaskMoves, Zenon
<1> QED BY <1>1, <1>2, <1>3, <1>4, <1>5, CancelMergeInv, ReaderInv, CrashInv, MoveInv, Zenon DEF Next, Compare, ReaderStep

(* TxnInv is inductive, for any tables, servers and number of faults, where *)
(* putCAS is atomic and no intent lock meets the transaction.               *)
THEOREM TxnInvariant == ASSUME Metastore = "ByteKV" PROVE Spec => []TxnInv
BY TxnInit, TxnNext, PTL DEF Spec

LEMMA CommittedVisible == TxnInv /\ Committed => \A t \in Tables : Visible(t, part)
BY Zenon DEF TxnInv, PartsOK, Visible

(* What commitV2 answered "committed" stays readable, whatever the clean    *)
(* tasks, the expiry, the daemon and crashes do.                            *)
THEOREM AnsweredCommitsStay == ASSUME Metastore = "ByteKV" PROVE Spec => []AckedVisible
<1>1. TxnInv => AckedVisible
  BY CommittedVisible, Zenon DEF TxnInv, QueryOK, AckedVisible
<1> QED BY <1>1, TxnInvariant, PTL

(* A query that starts after the answer sees all parts although it reads    *)
(* the parts and the record at different times.                             *)
THEOREM QueriesSeeCommits == ASSUME Metastore = "ByteKV" PROVE Spec => []ReadersSeeCommits
<1>1. TxnInv => ReadersSeeCommits
  BY Zenon DEF TxnInv
<1> QED BY <1>1, TxnInvariant, PTL

(* A transaction of which a query has seen a part is committed for good and *)
(* in all of its tables.                                                    *)
THEOREM SeenIsFinal == ASSUME Metastore = "ByteKV" PROVE Spec => []ReadsAreFinal
<1>1. TxnInv => ReadsAreFinal
  <2> SUFFICES ASSUME TxnInv, reader.sees # {} PROVE rec \notin {"Running", "Aborted"} /\ \A t \in Tables : Visible(t, part)
    BY Zenon DEF ReadsAreFinal
  <2>1. Committed
    BY Zenon DEF TxnInv, ReaderOK
  <2>2. rec \notin {"Running", "Aborted"}
    BY <2>1, Zenon DEF Committed
  <2> QED BY <2>1, <2>2, CommittedVisible, Zenon
<1> QED BY <1>1, TxnInvariant, PTL

(* A part of a committed transaction without its commit time always has its *)
(* undo buffer and a Finished record, from which a clean can finish.        *)
THEOREM CommitsCanBeFinished == ASSUME Metastore = "ByteKV" PROVE Spec => []CommitsAreRecoverable
<1>1. TxnInv => CommitsAreRecoverable
  BY Zenon DEF TxnInv, PartsOK, CommitsAreRecoverable, Committed
<1> QED BY <1>1, TxnInvariant, PTL

-----------------------------------------------------------------------------
(* What a step does to the record, to the parts and to the answer.          *)
RecordStep ==
  \/ rec' = rec
  \/ pc["query"] = "new" /\ rec = "none" /\ rec' = "Running"
  \/ rec = "Running" /\ rec' = "Finished"
  \/ ~ Committed /\ rec' = "Aborted"
  \/ Committed /\ rec' = "Cleaned"
  \/ Aborting /\ rec' = "none"
  \/ Committed /\ rec' = "none" /\ \A t \in Tables : part'[t] = "committed"
PartStep ==
  \A t \in Tables : part'[t] = part[t] \/ (Committed /\ part'[t] = "committed") \/ (~ Committed /\ part'[t] # "committed")
AnswerStep ==
  /\ result' = result \/ (result = "none" /\ result' \in {"committed", "error"})
  /\ pc'["query"] = "new" => pc["query"] = "new"

LEMMA AbortStep ==
  ASSUME NEW p, Metastore = "ByteKV", TxnInv, mem # "Finished", SetRecord(p, "Aborted") \/ SetRecordThrows(p, "Aborted")
  PROVE  RecordStep
<1>1. rec' = rec \/ (rec = mem /\ rec' = "Aborted")
  BY ZenonT(60) DEF SetRecord, SetRecordThrows, Puts
<1>2. rec = mem => ~ Committed
  BY Zenon DEF TxnInv, TypeOK, Committed
<1> QED BY <1>1, <1>2, Zenon DEF RecordStep

LEMMA QueryStepFacts == ASSUME Metastore = "ByteKV", TxnInv, QueryStep PROVE RecordStep /\ PartStep /\ AnswerStep
<1>1. TypeOK /\ QueryOK /\ ObjectOK /\ PartsOK /\ "query" \in Threads
  BY PC, Zenon DEF TxnInv
<1>g. ASSUME NEW l, Goto("query", l), l # "new" PROVE pc'["query"] # "new"
  BY <1>1, <1>g, GotoFacts, Zenon
<1>r. pc["query"] \in Early \cup {"new", "rollback", "abort"} => result = "none"
  BY <1>1, Zenon DEF QueryOK
<1>2. CASE CreateTxn
  <2>1. part' = part /\ pc["query"] = "new" /\ rec = "none" /\ result = "none"
    BY <1>1, <1>2, Zenon DEF CreateTxn, QueryOK
  <2>2. rec' \in {"none", "Running"} /\ result' \in {result, "error"}
    BY <1>2, <2>1, Zenon DEF CreateTxn
  <2> QED BY <2>1, <2>2, Zenon DEF RecordStep, PartStep, AnswerStep
<1>3. CASE Activate \/ precommit \/ ExecuteThrows \/ Prepared \/ Dedup
  <2>1. rec' = rec /\ part' = part /\ result' = result
    BY <1>3, Zenon DEF Activate, precommit, ExecuteThrows, Prepared, Dedup, meta
  <2>2. \E l \in {"write", "execute", "abort", "rollback", "dedup", "commit"} : Goto("query", l)
    BY <1>3, Zenon DEF Activate, precommit, ExecuteThrows, Prepared, Dedup
  <2>3. pc'["query"] # "new"
    BY <1>g, <2>2, Zenon
  <2> QED BY <2>1, <2>3, Zenon DEF RecordStep, PartStep, AnswerStep
<1>4. CASE QueryFails
  <2>1. rec' = rec /\ part' = part /\ result' = "error" /\ result = "none" /\ pc'["query"] # "new"
    BY <1>r, <1>g, <1>4, Zenon DEF QueryFails, meta, Early
  <2> QED BY <2>1, Zenon DEF RecordStep, PartStep, AnswerStep
<1>5. ASSUME NEW t \in Tables, WriteUndo(t) PROVE RecordStep /\ PartStep /\ AnswerStep
  <2>1. rec' = rec /\ part' = part /\ result' = result /\ pc' = pc
    BY <1>5, Zenon DEF WriteUndo, thread
  <2> QED BY <2>1, Zenon DEF RecordStep, PartStep, AnswerStep
<1>6. ASSUME NEW t \in Tables, executeV2(t) PROVE RecordStep /\ PartStep /\ AnswerStep
  <2>1. rec' = rec /\ result' = result /\ pc' = pc /\ ~ Committed
    BY <1>1, <1>6, Zenon DEF executeV2, QueryOK, Early
  <2>2. \A u \in Tables : part'[u] = part[u] \/ part'[u] = "intermediate"
    BY <1>1, <1>6, Zenon DEF executeV2, TypeOK
  <2>3. PartStep
    BY <2>1, <2>2, Zenon DEF PartStep
  <2> QED BY <2>1, <2>3, Zenon DEF RecordStep, AnswerStep
<1>7. CASE commit
  <2>1. part' = part /\ result = "none" /\ pc["query"] # "new"
    BY <1>r, <1>7, Zenon DEF commit, Early
  <2>2. rec' = rec \/ (rec = mem /\ mem = "Running" /\ rec' = "Finished")
    BY <1>7, Zenon DEF commit, SetRecord, SetRecordThrows, Puts, isPrepared
  <2>3. result' \in {result, "committed"}
    BY <1>7, Zenon DEF commit
  <2>4. RecordStep
    BY <2>2, Zenon DEF RecordStep
  <2>5. \E l \in {"finish", "abort"} : Goto("query", l)
    BY <1>7, Zenon DEF commit
  <2>6. pc'["query"] # "new"
    BY <1>g, <2>5, Zenon
  <2> QED BY <2>1, <2>3, <2>4, <2>6, Zenon DEF PartStep, AnswerStep
<1>8. CASE abort
  <2>1. part' = part /\ result = "none" /\ result' \in {"committed", "error"} /\ pc'["query"] # "new"
    BY <1>r, <1>g, <1>8, Zenon DEF abort
  <2>2. RecordStep
    <3>1. CASE rec' = rec
      BY <3>1, Zenon DEF RecordStep
    <3>2. CASE rec' # rec
      BY <1>8, <3>2, AbortStep, Zenon DEF abort
    <3> QED BY <3>1, <3>2, Zenon
  <2> QED BY <2>1, <2>2, Zenon DEF PartStep, AnswerStep
<1>9. CASE rollback
  <2>1. part' = part /\ result = "none" /\ result' = "error" /\ pc'["query"] # "new" /\ rec' \in {rec, "Aborted"} /\ ~ Committed
    BY <1>1, <1>r, <1>g, <1>9, Zenon DEF rollback, QueryOK
  <2> QED BY <2>1, Zenon DEF RecordStep, PartStep, AnswerStep
<1> QED BY <1>2, <1>3, <1>4, <1>5, <1>6, <1>7, <1>8, <1>9, Zenon DEF QueryStep

LEMMA ThreadStepFacts == ASSUME NEW p \in Threads, Metastore = "ByteKV", TxnInv, ThreadStep(p) PROVE RecordStep /\ PartStep /\ AnswerStep
<1>1. TypeOK /\ ThreadOK(p) /\ "query" \in Threads
  BY PC, Zenon DEF TxnInv
<1>2. AnswerStep
  <2>1. result' = result
    BY Zenon DEF ThreadStep, Compare, finishTransaction, CheckEnded, CleanAbort, Clean, CleanUndo, CleanRecord, CleanThrows, CleanPart
  <2>2. pc' = pc \/ \E l \in Cleaning \cup {"done"} : Goto(p, l)
    BY Zenon DEF ThreadStep, Compare, finishTransaction, CheckEnded, CleanAbort, Clean, CleanUndo, CleanRecord, CleanThrows, CleanPart, Cleaning
  <2>3. ASSUME NEW l \in Cleaning \cup {"done"}, Goto(p, l), pc'["query"] = "new" PROVE pc["query"] = "new"
    <3>1. pc'[p] = l /\ (\A q \in Threads \ {p} : pc'[q] = pc[q]) /\ l # "new"
      BY <1>1, <2>3, GotoFacts, Zenon DEF Cleaning
    <3> QED BY <1>1, <2>3, <3>1, Zenon
  <2> QED BY <2>1, <2>2, <2>3, Zenon DEF AnswerStep
<1>3. RecordStep
  <2>1. CASE rec' = rec
    BY <2>1, Zenon DEF RecordStep
  <2>2. CASE CleanAbort(p) /\ rec' # rec
    BY <2>2, AbortStep, Zenon DEF CleanAbort
  <2>3. CASE CleanRecord(p)
    BY <1>1, <2>3, Zenon DEF CleanRecord, ThreadOK, RecordStep
  <2> QED BY <2>1, <2>2, <2>3, Zenon DEF ThreadStep, Compare, finishTransaction, CheckEnded, Clean, CleanUndo, CleanThrows, CleanPart, meta
<1>4. PartStep
  <2>1. CASE part' = part
    BY <2>1, Zenon DEF PartStep
  <2>2. ASSUME NEW t \in Tables, CleanPart(p, t) PROVE PartStep
    <3>1. (Committed /\ part' = [part EXCEPT ![t] = "committed"]) \/ (Aborting /\ part' = [part EXCEPT ![t] = "none"])
      BY <1>1, <2>2, Zenon DEF CleanPart, ThreadOK
    <3>2. part \in [Tables -> {"none", "intermediate", "committed"}]
      BY <1>1, Zenon DEF TypeOK
    <3> QED BY <3>1, <3>2, Zenon DEF PartStep, Aborting
  <2> QED BY <2>1, <2>2, Zenon DEF ThreadStep, Compare, finishTransaction, CheckEnded, CleanAbort, Clean, CleanUndo, CleanRecord, CleanThrows, meta
<1> QED BY <1>2, <1>3, <1>4, Zenon

LEMMA TaskStepFacts == ASSUME NEW s \in Servers, Metastore = "ByteKV", TxnInv, TaskStep(s) PROVE RecordStep /\ PartStep /\ AnswerStep
<1>1. TypeOK /\ TaskOK(s) /\ PartsOK
  BY Zenon DEF TxnInv
<1>2. AnswerStep
  <2>1. result' = result /\ pc' = pc
    BY Zenon DEF TaskStep, TaskActive, TaskAbort, TaskRead, TaskDispatch, TaskUndo, TaskVerify, TaskRecord, TaskThrows, TaskPart, NotByTask, thread
  <2> QED BY <2>1, Zenon DEF AnswerStep
<1>3. RecordStep
  <2>1. CASE rec' = rec
    BY <2>1, Zenon DEF RecordStep
  <2>2. CASE TaskAbort(s) /\ rec' # rec
    BY <1>1, <2>2, NoPut, Zenon DEF TaskAbort, RecordStep, Committed
  <2>3. CASE TaskRecord(s)
    <3>1. task[s].stage = "record" /\ rec' = IF task[s].kind = "abort" THEN "none" ELSE "Cleaned"
      BY <2>3, Zenon DEF TaskRecord, At
    <3>2. (task[s].kind = "abort" => Aborting) /\ (task[s].kind # "abort" => Committed)
      BY <1>1, <3>1, TaskKind, Zenon
    <3> QED BY <3>1, <3>2, Zenon DEF RecordStep
  <2> QED BY <2>1, <2>2, <2>3, Zenon DEF TaskStep, TaskActive, TaskRead, TaskDispatch, TaskUndo, TaskVerify, TaskThrows, TaskPart, meta
<1>4. PartStep
  <2>1. CASE part' = part
    BY <2>1, Zenon DEF PartStep
  <2>2. ASSUME NEW t \in Tables, TaskPart(s, t) PROVE PartStep
    <3>1. task[s].stage = "parts"
      BY <2>2, Zenon DEF TaskPart, At
    <3>2. (task[s].kind = "abort" => Aborting) /\ (task[s].kind # "abort" => Committed)
      BY <1>1, <3>1, TaskKind, Zenon
    <3>3. part \in [Tables -> {"none", "intermediate", "committed"}] /\ (Committed => part[t] # "none")
      BY <1>1, Zenon DEF TypeOK, PartsOK
    <3>4. part' = [part EXCEPT ![t] = IF task[s].kind = "abort" \/ part[t] = "none" THEN "none" ELSE "committed"]
      BY <2>2, <3>3 DEF TaskPart
    <3>5. CASE task[s].kind = "abort"
      <4>1. part' = [part EXCEPT ![t] = "none"] /\ ~ Committed
        BY <3>2, <3>4, <3>5, Zenon DEF Aborting
      <4> QED BY <3>3, <4>1, Zenon DEF PartStep
    <3>6. CASE task[s].kind # "abort"
      <4>1. part' = [part EXCEPT ![t] = "committed"] /\ Committed
        BY <3>2, <3>3, <3>4, <3>6, Zenon
      <4> QED BY <3>3, <4>1, Zenon DEF PartStep
    <3> QED BY <3>5, <3>6, Zenon
  <2> QED BY <2>1, <2>2, Zenon DEF TaskStep, TaskActive, TaskAbort, TaskRead, TaskDispatch, TaskUndo, TaskVerify, TaskRecord, TaskThrows, meta
<1> QED BY <1>2, <1>3, <1>4, Zenon

LEMMA StepFacts == ASSUME Metastore = "ByteKV", TxnInv, [Next]_vars PROVE RecordStep /\ PartStep /\ AnswerStep
<1>0. ASSUME rec' = rec, part' = part, result' = result, pc' = pc PROVE RecordStep /\ PartStep /\ AnswerStep
  BY <1>0, Zenon DEF RecordStep, PartStep, AnswerStep
<1>1. CASE CancelMerge
  <2>1. part' = part /\ result' = result /\ pc' = pc /\ mem # "Finished" /\ SetRecord("cancel", "Aborted")
    BY <1>1, Zenon DEF CancelMerge, thread
  <2>2. RecordStep
    BY <2>1, AbortStep, Zenon
  <2> QED BY <2>1, <2>2, Zenon DEF PartStep, AnswerStep
<1>2. CASE GCStep
  <2>1. part' = part /\ result' = result /\ pc' = pc
    BY <1>2, Zenon DEF GCStep, GCScan, GCRemove, GCNothing, GCThrows, GCScanUndo, GCMissing, GCClean, NotByGC, thread
  <2>2. CASE rec' = rec
    BY <1>0, <2>1, <2>2, Zenon
  <2>3. CASE GCRemove
    <3>1. rec' = "none" /\ Committed /\ \A t \in Tables : part[t] = "committed"
      BY <2>3, Zenon DEF GCRemove, TxnInv, GCOK
    <3> QED BY <2>1, <3>1, Zenon DEF RecordStep, PartStep, AnswerStep
  <2> QED BY <1>2, <2>2, <2>3, Zenon DEF GCStep, GCScan, GCNothing, GCThrows, GCScanUndo, GCMissing, GCClean
<1>3. CASE ReaderStep
  BY <1>0, <1>3, Zenon DEF ReaderStep, ReadParts, ReadRecords, Age, meta, thread
<1>4. ASSUME NEW s \in Servers, Crash(s) PROVE RecordStep /\ PartStep /\ AnswerStep
  <2>1. rec' = rec /\ part' = part /\ result' = result
    BY <1>4, Zenon DEF Crash, meta
  <2>2. pc' = pc \/ pc' = [p \in Threads |-> "done"]
    BY <1>4, Zenon DEF Crash
  <2>3. pc'["query"] = "new" => pc["query"] = "new"
    BY <2>2, Zenon DEF Threads
  <2> QED BY <2>1, <2>3, Zenon DEF RecordStep, PartStep, AnswerStep
<1>5. ASSUME NEW s \in Servers, NEW t \in Tables, Move(t, s) PROVE RecordStep /\ PartStep /\ AnswerStep
  BY <1>0, <1>5, Zenon DEF Move, meta, thread
<1>6. CASE UNCHANGED vars
  BY <1>0, <1>6, Zenon DEF vars, meta, thread
<1> QED BY <1>1, <1>2, <1>3, <1>4, <1>5, <1>6, QueryStepFacts, ThreadStepFacts, TaskStepFacts, Zenon DEF Next, Compare

(* Finished and Aborted are final in the metastore.                         *)
THEOREM TheStatusIsFinal == ASSUME Metastore = "ByteKV" PROVE Spec => StatusIsFinal
<1>1. ASSUME TxnInv, [Next]_vars
      PROVE  [/\ rec = "Aborted" => rec' \in {"Aborted", "none"}
              /\ rec \in {"Finished", "Cleaned"} => rec' \in {rec, "Cleaned", "none"}]_vars
  <2>1. RecordStep
    BY <1>1, StepFacts, Zenon
  <2>2. rec = "Aborted" => rec' \in {"Aborted", "none"}
    BY <2>1, Zenon DEF RecordStep, Committed
  <2>3. rec \in {"Finished", "Cleaned"} => rec' \in {rec, "Cleaned", "none"}
    BY <2>1, Zenon DEF RecordStep, Committed
  <2> QED BY <2>2, <2>3, Zenon
<1> QED BY <1>1, TxnInvariant, PTL DEF Spec, StatusIsFinal

(* The outcome changes only while the transaction is open.                  *)
LEMMA OutcomeStep ==
  ASSUME Metastore = "ByteKV", TxnInv, TxnInv', [Next]_vars
  PROVE  Outcome' = Outcome \/ Outcome = "open"
<1>1. RecordStep /\ PartStep /\ AnswerStep /\ PartsOK /\ PartsOK' /\ QueryOK
  BY StepFacts, Zenon DEF TxnInv
<1>2. CASE Committed
  <2>0. rec \in {"none", "Finished", "Cleaned"} /\ pc["query"] # "new" /\ ~ Aborting
    BY <1>1, <1>2, Zenon DEF Committed, Aborting, QueryOK
  <2>1. rec' \in {"none", "Finished", "Cleaned"}
    BY <1>1, <1>2, <2>0, Zenon DEF RecordStep
  <2>2. rec' = "none" => \A t \in Tables : part'[t] = "committed"
    <3>1. rec' = "none" => rec = "none" \/ \A t \in Tables : part'[t] = "committed"
      BY <1>1, <1>2, Zenon DEF RecordStep, Aborting
    <3>2. rec = "none" => \A t \in Tables : part[t] = "committed"
      BY <1>2, Zenon DEF Committed
    <3> QED BY <1>1, <1>2, <3>1, <3>2, Zenon DEF PartStep
  <2>3. Committed'
    BY <2>1, <2>2, Zenon DEF Committed
  <2> QED BY <1>2, <2>3, Zenon DEF Outcome
<1>3. CASE ~ Committed /\ Outcome # "open"
  <2>1. rec # "Running" /\ ~ (rec = "none" /\ pc["query"] = "new") /\ Outcome = "aborted"
    BY <1>3, Zenon DEF Outcome
  <2>2. rec \notin {"Finished", "Cleaned"} /\ pc["query"] # "new"
    BY <1>1, <1>3, <2>1, Zenon DEF Committed, QueryOK
  <2>3. rec' \in {rec, "Aborted", "none"}
    BY <1>1, <1>3, <2>1, <2>2, Zenon DEF RecordStep
  <2>4. \A t \in Tables : part'[t] # "committed"
    BY <1>1, <1>3, Zenon DEF PartStep, PartsOK
  <2>5. ~ Committed' /\ rec' # "Running" /\ pc'["query"] # "new"
    BY <1>1, <2>1, <2>2, <2>3, <2>4, TxnAssumption, Zenon DEF Committed, AnswerStep
  <2> QED BY <2>1, <2>5, Zenon DEF Outcome
<1> QED BY <1>2, <1>3, Zenon

(* The transaction is one atomic decision that the client is told the truth *)
(* about: it implements AtomicTxn.                                          *)
THEOREM TransactionIsAtomic == ASSUME Metastore = "ByteKV" PROVE Spec => TxnIsAtomic
<1>1. Init => A!Init
  <2> SUFFICES ASSUME Init PROVE A!Init
    OBVIOUS
  <2>1. rec = "none" /\ result = "none" /\ pc["query"] = "new" /\ part = NoParts
    BY DEF Init, Threads
  <2>2. ~ Committed
    BY <2>1, TxnAssumption, Zenon DEF Committed, NoParts
  <2> QED BY <2>1, <2>2, Zenon DEF A!Init, Outcome
<1>2. ASSUME TxnInv, TxnInv', [Next]_vars PROVE [A!Next]_<<Outcome, result>>
  <2>1. Outcome' = Outcome \/ Outcome = "open"
    BY <1>2, OutcomeStep, Zenon
  <2>2. Outcome' \in {"open", "committed", "aborted"}
    BY Zenon DEF Outcome
  <2>3. result' = result \/ (result = "none" /\ result' \in {"committed", "error"})
    BY <1>2, StepFacts, Zenon DEF AnswerStep
  <2>4. result' = "committed" => Outcome' = "committed"
    BY <1>2, Zenon DEF TxnInv, QueryOK, Outcome
  <2>5. Outcome' = Outcome \/ A!Decide
    BY <2>1, <2>2, Zenon DEF A!Decide
  <2>6. result' = result \/ A!Answer
    BY <2>3, <2>4, Zenon DEF A!Answer
  <2> QED BY <2>5, <2>6, Zenon DEF A!Next
<1> QED BY <1>1, <1>2, TxnInvariant, PTL DEF Spec, TxnIsAtomic, A!AtomicSpec
=============================================================================
