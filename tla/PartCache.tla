----------------------------- MODULE PartCache ------------------------------
(***************************************************************************)
(* The cache of the parts of one partition at the host of its table:       *)
(* queries that read through it and fill it, transactions that write,      *)
(* commit and remove parts in the metastore and then tell the cache,       *)
(* eviction, and the loss of the table's entry when the topology changes.  *)
(*                                                                         *)
(* A part is 1 when it is written and 2 when it has its commit time.  The  *)
(* cached map and its load status are two things: the map is in an LRU     *)
(* cache by table and partition, the status in the CnchPartitionInfo, of   *)
(* which a new one is made whenever the partition list of the table is     *)
(* loaded again, in a new entry of the table or in place.  Threads that    *)
(* still hold an older one go on with it.  A step is one metastore call or *)
(* what is done under one hold of a lock.                                  *)
(***************************************************************************)
EXTENDS Naturals

CONSTANTS Parts,
          Readers,    \* queries; each runs once
          Nothing,    \* no map
          MaxInfos,   \* bound on CnchPartitionInfos made for the partition
          Events      \* what happens besides reads and writes: "evict",
                      \* "invalidate", "remove", "fail"

ASSUME PartCacheAssumption ==
  /\ MaxInfos \in Nat \ {0} /\ Events \subseteq {"evict", "invalidate", "remove", "fail"}
  /\ Readers \cap {"uninit", "loaded"} = {} /\ Nothing \notin [Parts -> 0 .. 2]

VARIABLES
  kv,       \* part -> 0 absent, 1 written, 2 committed
  map,      \* the cached map, Nothing when it is not in the LRU cache
  info,     \* number of the current CnchPartitionInfo
  table,    \* cache_status of the table's entry, absent from active_tables without
  late,     \* whether a thread may be about to load an entry that was removed
  live,     \* whether the partition list of the entry has an info of the partition
  status,   \* info -> part_cache_status; a reader when that is loading
  crossed,  \* whether a thread with an older info changed the map of a newer
  young,    \* queries that ran when the map was put into the cache last
  job,      \* part -> the transaction that writes and removes it
  reader    \* reader -> its query

cacheVars == <<map, crossed, young>>
tableVars == <<table, late, info, live>>
vars == <<kv, cacheVars, tableVars, status, job, reader>>

Empty == [p \in Parts |-> 0]
NoJob == [pc |-> "new", info |-> 0, same |-> FALSE, quiet |-> FALSE]
NoQuery == [pc |-> "idle", info |-> 0, alone |-> TRUE, got |-> Empty, due |-> Empty, calm |-> TRUE, whole |-> TRUE]
Later(a, b) == IF a < b THEN b ELSE a

(* A partition of the metastore without parts, or with old parts whose map  *)
(* has been evicted.                                                        *)
Init ==
  /\ \E old \in SUBSET Parts :
       /\ kv = [p \in Parts |-> IF p \in old THEN 2 ELSE 0]
       /\ job = [p \in Parts |-> [NoJob EXCEPT !.pc = IF p \in old THEN "committed" ELSE "new"]]
       /\ status = [i \in 1 .. MaxInfos |-> IF i = 1 /\ old # {} THEN "loaded" ELSE "uninit"]
  /\ map = Nothing /\ young = {} /\ crossed = FALSE
  /\ table = "loaded" /\ late = FALSE /\ info = 1 /\ live = TRUE
  /\ reader = [r \in Readers |-> NoQuery]

loading(i) == status[i] \in Readers
SetStatus(i, s) == status' = [status EXCEPT ![i] = s]

(* emplace: the info that is in the partition list, else a new one.         *)
Touched == IF live THEN info ELSE info + 1
Touch == info' = Touched /\ live' = TRUE

IsRunning(q) == q.pc \notin {"idle", "done"}
Running(r) == IsRunning(reader[r])
Loading(r) == reader[r].pc \in {"load", "merge"}

(* A map that leaves the cache is not the one a remover looked up before,   *)
(* nor the one a query found to be loaded; and the entry a query has seen   *)
(* loaded may have gone with it.                                            *)
Lost(jobs) == [p \in Parts |-> [jobs[p] EXCEPT !.same = FALSE]]
Disturbed(readers) == [r \in Readers |-> [readers[r] EXCEPT !.calm = @ /\ readers[r].pc \notin {"meta", "get"}]]
Cache(i, m) ==
  /\ map' = m
  /\ crossed' = (crossed \/ i # Touched)
  /\ young' = IF m = Nothing THEN {} ELSE {r \in Readers : Running(r)}
Drop == map' = Nothing /\ young' = {} /\ job' = Lost(job) /\ reader' = Disturbed(reader)

-----------------------------------------------------------------------------
(* How far the transaction has told the cache of its part, and whether it   *)
(* removes it.                                                              *)
Told(j) == IF j.pc \in {"written", "insert2", "lock2"} THEN 1 ELSE IF j.pc = "committed" THEN 2 ELSE 0
Removing(j) == j.pc \in {"removed", "erase", "gone"}

(* getOrSetDataInPartitions, up to the return of mayUpdateTableMeta: the    *)
(* entry is loaded, or this thread has loaded one that was removed.  due is *)
(* what the query has to see, calm whether the entry is loaded.  Whether it *)
(* reads alone (getDataInternal) or by partition depends on a flag of the   *)
(* table, set by a query of any partition that timed out and reset by the   *)
(* metrics.                                                                 *)
Begin(r) ==
  /\ reader[r].pc = "idle" /\ (table = "loaded" \/ late)
  /\ \E alone \in BOOLEAN : reader' = [reader EXCEPT ![r] =
       [@ EXCEPT !.pc = "meta", !.alone = alone, !.calm = table = "loaded",
                 !.due = [p \in Parts |-> Told(job[p])]]]
  /\ UNCHANGED <<kv, cacheVars, tableVars, status, job>>

Step(r, pc) == reader' = [reader EXCEPT ![r] = [@ EXCEPT !.pc = pc]]
Return(r, parts, calm) ==
  reader' = [reader EXCEPT ![r] = [NoQuery EXCEPT !.pc = "done",
                !.whole = calm => \A p \in Parts : Removing(job[p]) \/ parts[p] >= reader[r].due[p]]]
Throw(readers, r) == [readers EXCEPT ![r] = [NoQuery EXCEPT !.pc = "done"]]

(* getTableMeta and getPartitions: the query returns nothing when the entry *)
(* is gone, or when a thread that loads it has just cleared its list.       *)
Meta(r) ==
  /\ reader[r].pc = "meta"
  /\ IF ~ live THEN Return(r, Empty, reader[r].calm)
     ELSE reader' = [reader EXCEPT ![r] = [@ EXCEPT !.pc = "check", !.info = info, !.calm = TRUE]]
  /\ UNCHANGED <<kv, cacheVars, tableVars, status, job>>

(* The status is read without the partition lock, then the map; calm is     *)
(* whether the map is then the current one that the status is about.        *)
Found(r) == [reader EXCEPT ![r] = [@ EXCEPT !.pc = "get", !.calm = reader[r].info = Touched /\ map # Nothing]]
Check_Loading(r) ==
  /\ reader[r].pc = "check"
  /\ IF status[reader[r].info] # "uninit" THEN reader' = Found(r) ELSE Step(r, "mark")
  /\ UNCHANGED <<kv, cacheVars, tableVars, status, job>>
Check(r) ==
  /\ reader[r].pc = "check"
  /\ IF status[reader[r].info] = "loaded" THEN reader' = Found(r) ELSE Step(r, "mark")
  /\ UNCHANGED <<kv, cacheVars, tableVars, status, job>>

Get(r) ==
  /\ reader[r].pc = "get"
  /\ IF map = Nothing THEN Step(r, "mark") ELSE Return(r, map, reader[r].calm)
  /\ UNCHANGED <<kv, cacheVars, tableVars, status, job>>

(* setToLoading, unless another thread is loading; getDataInternal then     *)
(* reads the metastore for itself, getDataByPartition waits.  From the load *)
(* on the two do the same, and alone is forgotten.                          *)
Mark(r) ==
  LET i == reader[r].info
  IN  /\ reader[r].pc = "mark"
      /\ IF loading(i) THEN UNCHANGED status ELSE SetStatus(i, r)
      /\ IF loading(i) /\ ~ reader[r].alone THEN Step(r, "wait")
         ELSE reader' = [reader EXCEPT ![r] = [@ EXCEPT !.pc = "load", !.alone = TRUE]]
      /\ UNCHANGED <<kv, cacheVars, tableVars, job>>

(* fetch_cv: the loader is done, or 5000 ms are over, and perhaps also the  *)
(* time limit of the query.                                                 *)
Wait(r) ==
  /\ reader[r].pc = "wait"
  /\ IF status[reader[r].info] = "loaded" THEN Step(r, "fetched")
     ELSE Step(r, "check") \/ reader' = Throw(reader, r)
  /\ UNCHANGED <<kv, cacheVars, tableVars, status, job>>

(* "Cannot get already loaded parts from cache. Its a logic error."         *)
Fetched(r) ==
  /\ reader[r].pc = "fetched"
  /\ IF status[reader[r].info] # "loaded" THEN Step(r, "check")
     ELSE IF map = Nothing THEN reader' = Throw(reader, r)
     ELSE Return(r, map, reader[r].info = Touched)
  /\ UNCHANGED <<kv, cacheVars, tableVars, status, job>>

Load(r) ==
  /\ reader[r].pc = "load"
  /\ reader' = [reader EXCEPT ![r] = [@ EXCEPT !.pc = "merge", !.got = kv]]
  /\ UNCHANGED <<kv, cacheVars, tableVars, status, job>>

(* CacheStatusGuard.                                                        *)
LoadFails_Keep(r) ==
  /\ "fail" \in Events /\ reader[r].pc = "load"
  /\ reader' = Throw(reader, r)
  /\ UNCHANGED <<kv, cacheVars, tableVars, status, job>>
LoadFails(r) ==
  /\ "fail" \in Events /\ reader[r].pc = "load"
  /\ IF status[reader[r].info] = r
       THEN /\ SetStatus(reader[r].info, "uninit") /\ Cache(reader[r].info, Nothing)
            /\ job' = Lost(job) /\ reader' = Throw(Disturbed(reader), r)
       ELSE reader' = Throw(reader, r) /\ UNCHANGED <<status, map, crossed, young, job>>
  /\ UNCHANGED <<kv, tableVars>>

(* What was fetched goes into the map unless the map has something newer;   *)
(* not at all when this thread is not the one that loads any more.          *)
Merged(new) == IF map = Nothing THEN new ELSE [p \in Parts |-> Later(map[p], new[p])]

Merge(r) ==
  /\ reader[r].pc = "merge"
  /\ IF status[reader[r].info] = r
       THEN SetStatus(reader[r].info, "loaded") /\ Cache(reader[r].info, Merged(reader[r].got))
       ELSE UNCHANGED <<status, map, crossed, young>>
  /\ Return(r, reader[r].got, TRUE)
  /\ UNCHANGED <<kv, tableVars, job>>
-----------------------------------------------------------------------------
Move(p, from, to) == job[p].pc = from /\ job' = [job EXCEPT ![p] = [@ EXCEPT !.pc = to]]

(* writeParts and setCommitTime: the metastore, then the cache.             *)
Put(p) ==
  /\ \/ Move(p, "new", "insert1") /\ kv' = [kv EXCEPT ![p] = 1]
     \/ Move(p, "written", "insert2") /\ kv' = [kv EXCEPT ![p] = 2]
  /\ UNCHANGED <<cacheVars, tableVars, status, reader>>

(* insertDataIntoCache: mayUpdateTableMeta, after which the entry may be in *)
(* any state again, and the info of the partition.  When the entry is gone  *)
(* ("Table is not initialized before save parts into cache.") or could not  *)
(* be loaded, writeParts has failed; setCommitTime will be called again.    *)
InsertMeta(p) ==
  /\ \/ /\ table # "absent"
        /\ job[p].pc \in {"insert1", "insert2"}
        /\ Touch
        /\ job' = [job EXCEPT ![p] = [@ EXCEPT !.pc = IF job[p].pc = "insert1" THEN "lock1" ELSE "lock2", !.info = Touched]]
     \/ /\ table = "absent" \/ "fail" \in Events
        /\ Move(p, "insert1", "failed")
        /\ UNCHANGED <<info, live>>
  /\ UNCHANGED <<kv, cacheVars, table, late, status, reader>>

Insertable_Loaded(i) == status[i] = "loaded" /\ map # Nothing
Insertable(i) == loading(i) \/ (status[i] = "loaded" /\ map # Nothing)
Insert(p) ==
  LET i == job[p].info
      n == IF job[p].pc = "lock1" THEN 1 ELSE 2
  IN  /\ job[p].pc \in {"lock1", "lock2"}
      /\ IF Insertable(i) THEN Cache(i, [(IF map = Nothing THEN Empty ELSE map) EXCEPT ![p] = n])
         ELSE UNCHANGED cacheVars
      /\ IF status[i] = "loaded" /\ map = Nothing THEN SetStatus(i, "uninit") ELSE UNCHANGED status
      /\ job' = [job EXCEPT ![p] = [@ EXCEPT !.pc = IF n = 1 THEN "written" ELSE "committed", !.info = 0]]
      /\ UNCHANGED <<kv, tableVars, reader>>

(* clearParts: the metastore, then invalidDataCache, which looks the map up *)
(* before it takes the partition lock.                                      *)
Remove(p) ==
  /\ "remove" \in Events
  /\ job[p].pc \in {"written", "committed", "failed"}
  /\ job' = [job EXCEPT ![p] = [@ EXCEPT !.pc = "removed", !.quiet = \A r \in Readers : ~ Loading(r)]]
  /\ kv' = [kv EXCEPT ![p] = 0]
  /\ UNCHANGED <<cacheVars, tableVars, status, reader>>

LookUp(p) ==
  LET Gone(jobs) == [jobs EXCEPT ![p] = [@ EXCEPT !.pc = "gone"]]
  IN  /\ job[p].pc = "removed"
      /\ \/ /\ table = "absent" \/ map = Nothing
            /\ job' = Gone(job) /\ UNCHANGED <<map, young, reader>>
         \/ /\ table # "absent" /\ ~ live /\ map # Nothing
            /\ map' = Nothing /\ young' = {} /\ job' = Gone(Lost(job)) /\ reader' = Disturbed(reader)
         \/ /\ live /\ map # Nothing
            /\ job' = [job EXCEPT ![p] = [@ EXCEPT !.pc = "erase", !.info = info, !.same = TRUE]]
            /\ UNCHANGED <<map, young, reader>>
      /\ UNCHANGED <<kv, crossed, tableVars, status>>

Erase_Skip(p) ==
  /\ Move(p, "erase", "gone")
  /\ UNCHANGED <<kv, cacheVars, tableVars, status, reader>>
Erase(p) ==
  LET i == job[p].info
      Erased(jobs) == [jobs EXCEPT ![p] = [@ EXCEPT !.pc = "gone", !.info = 0, !.same = FALSE]]
  IN  /\ job[p].pc = "erase"
      /\ IF loading(i)
           THEN SetStatus(i, "uninit") /\ Cache(i, Nothing) /\ job' = Erased(Lost(job)) /\ reader' = Disturbed(reader)
           ELSE /\ map' = IF status[i] = "loaded" /\ job[p].same THEN [map EXCEPT ![p] = 0] ELSE map
                /\ job' = Erased(job) /\ UNCHANGED <<status, crossed, young, reader>>
      /\ UNCHANGED <<kv, tableVars>>
-----------------------------------------------------------------------------
(* data_cache_min_lifetime after the map was put into the cache, which is   *)
(* longer than a query.                                                     *)
Evict ==
  /\ "evict" \in Events /\ map # Nothing /\ \A r \in young : ~ Running(r)
  /\ Drop
  /\ UNCHANGED <<kv, crossed, tableVars, status>>

(* invalidCacheWithNewTopology, invalidPartCacheWithoutLock, reset: the     *)
(* entry is removed, with the map; its loads go on.                         *)
Invalidate ==
  /\ "invalidate" \in Events /\ table # "absent" /\ (live => info < MaxInfos)
  /\ table' = "absent" /\ live' = FALSE /\ late' = (late \/ table # "loaded")
  /\ Drop
  /\ UNCHANGED <<kv, crossed, info, status>>

(* mayUpdateTableMeta of any thread of the server, under cache_mutex: a new *)
(* entry, or the topology version has gone on by more than one.             *)
NewEntry ==
  /\ \/ table = "absent"
     \/ "invalidate" \in Events /\ table = "loaded" /\ info < MaxInfos
  /\ table' = "uninit"
  /\ UNCHANGED <<kv, cacheVars, late, info, live, status, job, reader>>

(* load_table_partitions, under the lock of the entry, which those that     *)
(* read the list do not take: the maps are dropped and the list is cleared, *)
(* filled again, or the fetch fails on the way.                             *)
Clear_Keep ==
  /\ table = "uninit" /\ (live => info < MaxInfos)
  /\ table' = "loading" /\ live' = FALSE
  /\ UNCHANGED <<kv, cacheVars, late, info, status, job, reader>>
Clear ==
  /\ table = "uninit" /\ (live => info < MaxInfos)
  /\ table' = "loading" /\ live' = FALSE
  /\ Drop
  /\ UNCHANGED <<kv, crossed, late, info, status>>

Fill ==
  /\ table = "loading"
  /\ \/ table' = "loaded" /\ Touch
     \/ "fail" \in Events /\ table' = "uninit" /\ (Touch \/ UNCHANGED <<info, live>>)
  /\ UNCHANGED <<kv, cacheVars, late, status, job, reader>>

(* A thread with a removed entry that is not loaded drops the maps too,     *)
(* whoever they belong to by now.                                           *)
LateDrop ==
  /\ late /\ map # Nothing
  /\ crossed' = TRUE
  /\ Drop
  /\ UNCHANGED <<kv, tableVars, status>>

ReaderStep(r) ==
  \/ Check(r) \/ Get(r) \/ Mark(r) \/ Wait(r) \/ Fetched(r) \/ Load(r) \/ LoadFails(r) \/ Merge(r)
Next ==
  \/ \E r \in Readers : Begin(r) \/ Meta(r) \/ ReaderStep(r)
  \/ \E p \in Parts : Put(p) \/ InsertMeta(p) \/ Insert(p) \/ Remove(p) \/ LookUp(p) \/ Erase(p)
  \/ Evict \/ Invalidate \/ NewEntry \/ Clear \/ Fill \/ LateDrop
Spec == Init /\ [][Next]_vars
-----------------------------------------------------------------------------
Maps == [Parts -> 0 .. 2]
Jobs == [pc : {"new", "insert1", "lock1", "failed", "written", "insert2", "lock2", "committed",
               "removed", "erase", "gone"},
         info : 0 .. MaxInfos, same : BOOLEAN, quiet : BOOLEAN]
Queries == [pc : {"idle", "meta", "check", "get", "mark", "wait", "fetched", "load", "merge", "done"},
            info : 0 .. MaxInfos, alone : BOOLEAN, got : Maps, due : Maps,
            calm : BOOLEAN, whole : BOOLEAN]

Served == status[info] = "loaded" /\ live /\ map # Nothing

(* A map that queries are served from has every part that was written, with *)
(* its commit time if it has one, whatever was evicted, invalidated, loaded *)
(* or failed meanwhile ("we need merge them to make sure the cache contains *)
(* all parts of the partition").                                            *)
MapComplete ==
  Served /\ ~ crossed => \A p \in Parts : job[p].pc \in {"written", "committed"} => map[p] >= kv[p]

(* A query returns every part that was written, or committed, before it     *)
(* began and that nobody removes: always when it reads the metastore, and   *)
(* when it gets a map, unless the entry of the table was replaced or the map*)
(* left the cache between the look at the status and the look at the map.   *)
(* It returns nothing in place of its parts only when the entry was removed *)
(* or its list cleared after mayUpdateTableMeta had found it loaded.        *)
ReadsComplete ==
  ~ crossed => \A r \in Readers : reader[r].whole

(* A part whose removal met no load stays out of the maps that queries are  *)
(* served from.                                                             *)
RemovedStaysOut ==
  Served /\ ~ crossed => \A p \in Parts : job[p].pc = "gone" /\ job[p].quiet => map[p] = 0

Owned(s, q) == \A i \in 1 .. MaxInfos, r \in Readers : s[i] = r => q[r].pc \in {"load", "merge"} /\ q[r].info = i

(* The status is loading only while the thread that set it still loads: no  *)
(* exception leaves it behind for the others to wait for (CacheStatusGuard).*)
LoadingIsOwned == Owned(status, reader)
-----------------------------------------------------------------------------
(* The invariant by which these hold, of metastore k, map m, crossed c,     *)
(* young y, info n, live l, status s, jobs j and queries q.                 *)

(* What the metastore has of a part.                                        *)
Stored(j) == IF j.pc \in {"insert1", "lock1", "failed", "written"} THEN 1
             ELSE IF j.pc \in {"insert2", "lock2", "committed"} THEN 2 ELSE 0

(* What the current map has to have of a part when it is served: insertion  *)
(* on account of an older info will not change it.                          *)
Known(j, n) == IF j.pc \in {"lock1", "lock2"} /\ j.info # n THEN Stored(j) ELSE Told(j)

InfosOK(n, l, s) ==
  /\ l \/ n < MaxInfos
  /\ \A i \in 1 .. MaxInfos : i > n => s[i] = "uninit"

(* A map looked up by a remover and not lost since is the current one, and  *)
(* what a quiet removal is through with is not in the map.                  *)
JobOK(p, v, m, c, n, l, j) ==
  /\ v = Stored(j) /\ j.info <= n
  /\ j.pc \in {"lock1", "lock2", "erase"} => j.info > 0
  /\ j.quiet => Removing(j)
  /\ j.same => j.pc = "erase" /\ j.info = n /\ l /\ m # Nothing
  /\ ~ c /\ m # Nothing /\ j.quiet /\ j.pc # "removed" => m[p] = 0 \/ j.same

(* What q has to return of p is in m.                                       *)
Full(q, m, p, j) == m[p] >= q.due[p] \/ Removing(j)

(* What a query fetched is complete for it, and so is the map it found when *)
(* it was calm.                                                             *)
QueryOK(q, m, c, n, j) ==
  /\ q.info <= n /\ (IsRunning(q) /\ q.pc # "meta" => q.info > 0)
  /\ \A p \in Parts : Told(j[p]) >= q.due[p] \/ Removing(j[p])
  /\ q.pc = "merge" => \A p \in Parts : Full(q, q.got, p, j[p]) /\ (j[p].quiet => q.got[p] = 0)
  /\ ~ c => q.whole
  /\ ~ c /\ q.pc = "get" /\ q.calm => m # Nothing /\ \A p \in Parts : Full(q, m, p, j[p])

(* The owner of the load, and whoever will mark a loaded map, keeps the map *)
(* from being evicted; what the owner fetched, together with what was       *)
(* inserted meanwhile, is complete.  A calm query finds the partition.      *)
LoaderOK(r, q, m, c, y, n, l, s, j) ==
  /\ q.pc = "meta" /\ q.calm => l
  /\ ~ c /\ m # Nothing /\ q.info = n /\ (s = r \/ (q.pc = "mark" /\ s = "loaded")) => r \in y
  /\ ~ c /\ l /\ s = r /\ q.pc = "merge" =>
       \A p \in Parts : q.got[p] >= Known(j[p], n) \/ (m # Nothing /\ m[p] >= Known(j[p], n))

MapOK(m, c, n, l, s, j) ==
  ~ c => /\ ~ l \/ s = "uninit" => m = Nothing
         /\ s = "loaded" /\ m # Nothing => \A p \in Parts : m[p] >= Known(j[p], n)

Types(k, m, c, y, n, l, s, j, q) ==
  /\ k \in Maps /\ m \in Maps \cup {Nothing} /\ c \in BOOLEAN /\ y \subseteq Readers
  /\ n \in 1 .. MaxInfos /\ l \in BOOLEAN /\ s \in [1 .. MaxInfos -> {"uninit", "loaded"} \cup Readers]
  /\ j \in [Parts -> Jobs] /\ q \in [Readers -> Queries]

Consistent(k, m, c, y, n, l, s, j, q) ==
  /\ Types(k, m, c, y, n, l, s, j, q) /\ Owned(s, q) /\ InfosOK(n, l, s) /\ MapOK(m, c, n, l, s[n], j)
  /\ \A p \in Parts : JobOK(p, k[p], m, c, n, l, j[p])
  /\ \A r \in Readers : QueryOK(q[r], m, c, n, j) /\ LoaderOK(r, q[r], m, c, y, n, l, s[n], j)

CacheOK == Consistent(kv, map, crossed, young, info, live, status, job, reader)

(* The list of a loaded entry has the partition.                            *)
TableOK ==
  /\ table \in {"absent", "uninit", "loading", "loaded"} /\ late \in BOOLEAN
  /\ (table = "absent" => ~ live) /\ (table = "loaded" => live)

(* The inductive invariant: the types, who owns a load, what the map, the   *)
(* loads and the removals under way have of every part, and when the list   *)
(* of the table has the partition.                                          *)
CacheInv == CacheOK /\ TableOK
=============================================================================
