# A TLA+ verification of ByConity's coordination core

ByConity separates compute from storage. Its servers keep no durable state: what
makes the system correct is a handful of coordination protocols on top of one
transactional key-value store (the metastore). This project models those protocols
in TLA+, checks them with TLC on small instances and proves the central facts about
them with TLAPS for every value of the constants.

Source paths below are relative to `src/src/`.

## The parts and how they interact

```
        service discovery           clients, queries, merges
               |                             |
     Topology (elected manager)       TxnCommit (one transaction)
               |                        |         |        |
     TableHost (servers, hosts) --- LockManager  PartCache  TXN_GC daemon
               |                             |
        TSO (elected server)   ------  timestamps
               |
     StorageElector (lease record)
               |
     FDBClient -> CasStore (metastore)
```

- Every protocol stores its truth in the **metastore**, most of it through
  compare-and-set writes (`putCAS`). ByteKV does them in one step, `FDBClient::Put` does
  not (finding 1); what this means for each protocol is said below.
- The **elector** keeps one lease record there; the TSO server, the topology manager
  and the resource manager are elected with it.
- The **timestamp oracle** gives transactions their start and commit times and is the
  clock of the leases of topologies.
- The elected **topology manager** writes a list of topologies with leases, from which
  every server computes the **host** of a table. The host alone writes the table's
  parts, caches them and keeps its locks.
- A **transaction** writes undo buffers and parts, is decided by a compare-and-set of
  its record, and is completed or undone by its server, by clean tasks of the servers
  or by the TXN_GC daemon.
- The **lock manager** excludes conflicting transactions on a table, its partitions and
  buckets, and evicts the locks of transactions that stopped renewing them.
- The **part cache** of the host answers queries in place of the metastore.

## Modules and code

| module | models | code |
|---|---|---|
| `CasStore` | the promise: a write takes effect in one step, in a state it expects | `Catalog/IMetastore.h` |
| `FDBClient` | `Put`, `MultiWrite`, `Delete`, `RunWithRetry`, `putCAS`, `batchWrite` | `Catalog/FDBClient.cpp`, `Catalog/MetastoreFDBImpl.cpp` |
| `StorageElector` | the background thread of every node, `isLeader()`, `yieldLeadership()` | `Common/StorageElection/StorageElector.cpp` |
| `TSO` | `syncTSO`, `updateTSO`, `GetTimestamp(s)`, the callbacks of the election | `TSO/TSOServer.cpp`, `TSO/TSOImpl.cpp` |
| `LockManager` | lock contexts, lock, unlock, waiting, timeouts, eviction, heartbeats | `Transaction/LockManager.cpp`, `LockRequest.cpp`, `LockDefines.cpp` |
| `AtomicTxn` | the promise: one decision for all tables, told truthfully | |
| `TxnCommit` | one write transaction from its record to the removal of its last trace | `Transaction/CnchServerTransaction.cpp`, `TransactionCleaner.cpp`, `TransactionCoordinatorRcCnch.cpp`, `IntentLock.cpp`, `getCommitted.h`, `DaemonManager/DaemonJobTxnGC.cpp` |
| `Topology` | the topology managers and the stored list | `MergeTreeCommon/CnchTopologyManager.cpp` |
| `TableHost` | composes `Topology` with the servers that write, cache and lock one table | `MergeTreeCommon/CnchTopologyMaster.cpp`, `Storages/PartCacheManager.cpp`, `Transaction/CnchLock.cpp` |
| `PartCache` | the cache of the parts of one partition | `Storages/PartCacheManager.cpp`, `Storages/CnchPartitionInfo.h` |

`MC_*` modules define the instances; `*_proofs`, and `TableHost_steps`, which
`TableHost_proofs` extends, hold theorems. Definitions keep the names of the code where
there is one to keep. Operators named `X_Something` are mistakes one could make in `X`:
replacing `X` by them violates the property they were written for, which shows that the
property depends on that code.

How state and steps correspond to the code:

- **FDBClient.** A transaction reads a snapshot (`seen`, `readAt`) and commits against
  `written`, the version that last wrote each key; the resolver of FoundationDB is an
  external definition (`Conflicts`). `ConflictKeys` is the set of keys read without the
  snapshot flag. An unknown commit result is a step that applies the write, or does
  not, and goes to `Retry` either way.
- **StorageElector.** One program counter per node. Every read of the clock, call of
  the metastore and write of the role is a step of its own, because other threads call
  `isLeader()` in between. `inflight` has requests whose caller got an error and which
  may still be applied. The clock of a node is the real time plus a constant skew. The
  metastore is taken by its promise, `CasStore`, which ByteKV keeps and `FDBClient` does
  not (finding 1).
- **TSO.** `epc` is the elector thread in its callbacks, `upc` the update task, `req`
  the requests between their check of the role, their load and their `fetch_add`. The
  machine clock returns any value at any read. What the environment may do beyond
  elections and crashes is the constant `Faults`. The history variable `bound` says what
  became of the bound the leader put last: it is stored, is not (the put failed), or was
  lost, with the leader or under an older one.
- **LockManager.** A step is one critical section or one call of the catalog. Requests
  of a `LockInfo` are its levels (table, partition, bucket). `ahead` is the order of
  the waiting list. `ev` and `ureqs` are the evictions under way: by a waiter, by
  `checkTxnStatus` or by `releaseLocksForTable`. The constant `Metastore` says whether
  the `putCAS` of a record is one step ("ByteKV") or a comparison and a later put
  ("FDB").
- **TxnCommit.** A step is one call of the metastore or of another server. The calls
  may throw with or without their effect (`MaxFaults`), servers crash, tables move.
  `Metastore` is as in `LockManager`; on "FDB", `Compare` and the put are two steps and
  the mutex of the transaction is held from one to the other. `Spec` has everyone but
  the intent lock of another transaction, which `DDLSpec` adds.
- **Topology, TableHost.** `now` is the physical part of a TSO timestamp. `view` is the
  list a server fetched last, however long ago. `writing` and `txn` are metastore
  writes and commits between their check of the host and their end.
- **PartCache.** The map is in an LRU cache by table and partition, its load status in
  a `CnchPartitionInfo`. `table` is the status of the table's entry (`TableMetaEntry`),
  `live` whether its partition list has an info of the partition. The entry is removed
  by a new topology (`Invalidate`), made anew or marked for a reload (`NewEntry`); a
  reload drops the maps and clears the list (`Clear`), then fills it (`Fill`), while
  queries read the list without its lock (`Meta`). Threads go on with the entry and
  the info they hold; `crossed` records that such a thread changed or dropped the map of
  a newer one. Queries take `mayUpdateTableMeta` (`Begin`) and the look at the list as
  two steps, writers as one (`InsertMeta`) that may find the entry in any state. A query
  runs once; the partition is in the partition list of the metastore, without parts or
  with old parts whose map was evicted.

## What the runs check

| run | checks | shows |
|---|---|---|
| `fdb_batch` | `CasAtomic`, `CallReturns` | the client implements `CasStore` for batches and conditional deletes; every call ends |
| `fdb_put` (violation) | `CasAtomic` | `Put` does not: see the findings |
| `elector` | `AtMostOneLeader`, `LeaderOwnsRecord`, `LeaseRespected`, `RecordNeverReused`, `ElectorInv` | the lease is exclusive up to the skew of the clocks, through crashes, lost answers and late requests |
| `tso` | `Monotonic`, `Unique`, `BoundPersisted`, `TSOInv` | timestamps are unique and respect real time, across leaders, with clocks that jump, puts that fail and puts that come late, until a leader starts after a bound was lost; none is above the stored bound when the leader's last put succeeded |
| `tso_put` (violation) | `UpperBound` | after a failed put, timestamps above the stored bound are handed out: see the findings |
| `tso_live` | `CountersRefilled` | used-up counters are renewed, also when puts fail and requests overflow |
| `lock` | `ListsMatch`, `WaitersHaveHolders`, `Exclusive`, `CommitsHoldLocks`, `LockInv` | locks exclude, nobody waits for nobody, a commit that meets its record Running has its locks, whoever evicts; with the `putCAS` of FDB |
| `txn` | `TxnInv`, `TxnIsAtomic`, `AckedVisible`, `ReadersSeeCommits`, `ReadsAreFinal`, `CommitsAreRecoverable`, `StatusIsFinal` | on a metastore with an atomic `putCAS` (ByteKV), a transaction implements `AtomicTxn`; an acknowledged commit stays readable and can be completed, also when cleaning is dispatched between two servers and the table moves |
| `txn_live` | `EventuallyCleaned` | every transaction loses its record and its undo buffer in the end, with the `putCAS` of FDB |
| `txn_ddl` (violation) | `StatusIsFinal` | an intent lock turns a Finished record into an Aborted one: see the findings |
| `table_host` | `HostInv`, `LeasesInOrder`, `VersionsIdentify`, `WritesExclude`, `CacheFresh`, `CommitWithinTopology` | one server at a time acts for a table, although servers work with old lists |
| `part_cache` | `CacheInv`, `MapComplete`, `ReadsComplete`, `RemovedStaysOut`, `LoadingIsOwned` | a served map lacks no part, a query misses nothing unless the entry, its list or the map goes away between two of its looks at them, no loading status is left behind |

`ElectorInv`, `TSOInv`, `TxnInv`, `HostInv` and `CacheInv` have the type invariant of
their module as a conjunct, and `TSOInv` also says that no timestamp is zero. The other
modules have their type invariant `TypeOK` checked by the first of their runs.

**Refinement.** `FDBClient` implements `CasStore` with the store itself as the mapping
(`CasAtomic`). `TxnCommit` implements `AtomicTxn` (`TxnIsAtomic`): the outcome is read
off the record while there is one, and off the parts once it is removed. A removal of
the record before the parts have their commit time, or an abort that overtakes a
commit, is a step the abstract specification does not allow.

**Bounds.** They are small, and chosen so that the cases that matter occur.

- `FDBClient`: two clients, two attempts each, three commits. A conflict takes two
  clients, and an unknown result with its retry two attempts.
- `StorageElector`: two nodes whose clocks differ by one, a lease of two units, time up
  to 3, one late request, one crash. A lease runs out, is taken over and a request of
  the first owner is applied afterwards.
- `TSO`: two servers, two clients, two elections, three counters per unit of time, two
  timestamps, any number of failed and late puts, and clocks from a set of three values
  that are closer and further apart than the window. The window is renewed, and a new
  leader has a clock behind the old one's. `tso_live` and `tso_put` have one client and
  more timestamps, so that the counters are used up.
- `LockManager`: a lock of a partition against a lock of the whole table, both
  exclusive, and two daemons that evict. `Overlap = FALSE` keeps two evictions from
  running at the same time; the proofs do not need it.
- `TxnCommit`: one table and one fault. `txn` has two servers, a cancelled merge and a
  reader; the scan for expired transactions is in `txn_live` and in the proofs, which
  are for any tables, servers and number of faults and for all actors at once.
- `TableHost`: one manager that is re-elected and restarts, two servers, three
  topologies with a lease of two units and a margin of one, one failing put. The
  proofs are for any number of managers.
- `PartCache`: two parts, two queries, two infos and every event. Each part may be old
  at the start, so that a query can meet a status that outlived its map. The constraint
  `MCBound` keeps the second transaction from beginning once the entry has been removed
  or reloaded; without it the same properties hold on 19 million states. The proofs need
  no such bound.

`CHECK_DEADLOCK FALSE` is set where behaviours end: time is bounded, every
transaction has ended, or every query and writer is done.

**Fairness.** Safety needs none. `fdb_batch` assumes that a client's thread runs on and
that FoundationDB answers: weak fairness of its steps. `tso_live` assumes that the task
`updateTSO` is scheduled again (it reschedules itself on every path) and that its puts
and the callback `onFollower` end. `txn_live` assumes that threads, thread pools, the
daemon (a periodic job) and the reader go on and that time passes; nothing has to
crash, move, be cancelled or expire, and the number of faults is finite. For the query
and the scan this is strong fairness: the mutex of the transaction, which they share with
a cancelled merge, is free again and again, and a mutex starves no thread for ever.

## What is proved

| theorem | statement | assumptions beyond the module's |
|---|---|---|
| `FDBClient_proofs!BatchWriteIsAtomic` | `Spec => CasAtomic` | there are requests, none is a `Put` |
| `StorageElector_proofs!LeaderIsUnique`, `LeaderOwnsTheRecord` | `[]AtMostOneLeader`, `[]LeaderOwnsRecord` | |
| `StorageElector_proofs!LeasesAreRespected`, `RecordsAreFresh` | `LeaseRespected`, `RecordNeverReused` | (all four: the module's `Cas` is one step, as on ByteKV) |
| `TSO_proofs!TimestampsRespectTime`, `TimestampsAreUnique` | `[]Monotonic`, `Unique` | `Faults \subseteq {"putError", "linger"}` |
| `TSO_proofs!TimestampsAreBounded` | `[](NeverZero /\ BoundPersisted)` | the same |
| `LockManager_proofs!ListsMatchStatuses`, `NobodyWaitsForNobody` | `[]ListsMatch`, `[]WaitersHaveHolders` | |
| `LockManager_proofs!CommitsAreLocked` | `CommitsHoldLocks` | none; on "FDB" the property speaks of commits that meet their record Running |
| `LockManager_proofs!LocksAreExclusive` | `[]Exclusive` | `NoUpgrade`: no transaction asks for two modes on an entity |
| `TxnCommit_proofs!TransactionIsAtomic`, `TheStatusIsFinal` | `TxnIsAtomic`, `StatusIsFinal` | `Metastore = "ByteKV"`; `Spec` has no intent lock |
| `TxnCommit_proofs!AnsweredCommitsStay`, `QueriesSeeCommits`, `SeenIsFinal` | `[]AckedVisible`, `[]ReadersSeeCommits`, `[]ReadsAreFinal` | the same |
| `TxnCommit_proofs!CommitsCanBeFinished` | `[]CommitsAreRecoverable` | the same |
| `TableHost_proofs!LeasesStayInOrder`, `VersionsAreIdentities` | `[]LeasesInOrder`, `[]VersionsIdentify` | |
| `TableHost_proofs!WritesAreExclusive`, `CachesAreFresh`, `CommitsStayWithinTopology` | `[]WritesExclude`, `[]CacheFresh`, `[]CommitWithinTopology` | (`TimePasses`: `writeParts` and a commit end within the margin) |
| `PartCache_proofs!MapStaysComplete`, `ReadsAreComplete` | `[]MapComplete`, `[]ReadsComplete` | |
| `PartCache_proofs!RemovedPartsStayOut`, `LoadsAreOwned` | `[]RemovedStaysOut`, `[]LoadingIsOwned` | |

Each of these modules also proves its inductive invariant (`ElectorInvariant`,
`TSOInvariant`, `LockInvariant`, `TxnInvariant`, `HostInvariant`, `CacheInvariant`) and
with it, or as `TypeCorrect`, that every variable keeps its type.

The arguments:

- **FDBClient.** Between the read and the commit, a key among the conflict keys that
  was not written after `readAt` still holds what was read (`SnapshotCurrent`). So a
  commit that passes the resolver compares current values. `Put` has no conflict keys,
  hence the assumption.
- **StorageElector.** None of the properties is inductive. `ElectorInv` adds what the
  thread knows at each label (`ThreadOK`), what every request that may still be applied
  asks for (`RequestOK`: it expects a value that is gone, or one that may be taken),
  that a node never writes two different records with one stamp (`StampOK`), and that
  a leader's record stands or its lease is over (`LeaderOK`). The middle part is what
  makes late requests harmless: a request whose expected value is gone can never
  match again, because values never come back.
- **TSO.** `TSOInv`: a request in progress is at the server that won the last election;
  as long as no bound was lost, what this server will hand out lies above all that was
  handed out, and while its last put is stored, not above the stored bound. The bound is
  needed because a new leader knows nothing else of the old one. A failed put breaks
  only the second part, and the next put that succeeds restores it.
- **LockManager.** `LockInv`: whoever unlocks for another transaction has ended its
  record first, and a transaction that has not ended holds the prefix of requests it
  has locked. On "FDB" the record may change from one end to the other, but not back to
  Running, which is all the argument needs. The first half of the module has the lemmas on lock contexts: what one
  pass over the waiting list grants, and that a holder is left for whoever waits.
- **TxnCommit.** `TxnInv` divides the states into those where the query may still commit
  (`MayCommit`), those where the transaction is committed (`Committed`: by its record, or
  by all of its parts once the record is gone) and those where it never will be
  (`Aborting`); the last two are for good. Everyone who is about to act on the
  transaction is entitled to it: the threads that clean (`ThreadOK`), the tasks of the
  servers (`TaskOK`), the daemon with the record it saw (`GCOK`). A part without its
  commit time has its undo buffer and a Finished record (`PartsOK`), and a reader that
  met such a part will still find the record (`ReaderOK`). An action changes the record,
  the parts or the undo buffers, and one lemma per kind of change (`RecordPut`,
  `AbortFacts`, `Commits`, `PartChange`, `UndoChange`) says when it keeps this; who takes
  no part in a step keeps what they rely on (`ThreadKept`, `TaskKept`, `GCKept`,
  `ReaderKept`). For the refinement, `OutcomeStep` shows that the outcome changes only
  while it is open.
- **TableHost.** `HostInv`: topologies of one term differ in their end only, and one of
  a later term begins when the earlier is over, whichever of the lists in sight (stored,
  cached by the leader, held by a server) they are in. This is what survives a failed
  put, after which the leader's list is ahead of the stored one. From it follows that a
  server which was the host at time t is the only possible one until t + `Margin`
  (`Covers`), hence the exclusion of writes and commits. A version remembered by a cache
  names its server for good (`Names`), and a write of another server comes after every
  topology up to that version is over (`Ended`): so a cache that missed a write is never
  kept. `TableHost_steps` has the steps; `TableHost_proofs` the initial state, what
  a renewal keeps of the list, and the theorems.
- **PartCache.** `CacheInv`: `Known` is what a served map has to have of a part. It is
  what was told to the cache, and already what is stored once a writer is bound to an
  older info, because that writer will not change the current map. A loaded map has
  `Known` of every part; what the owner of a load fetched has it together with what was
  inserted meanwhile, and the owner keeps the map from being evicted (`LoaderOK`). The
  list of a loaded entry has the partition (`TableOK`), so a query that returns nothing
  was overtaken by a removal or a reload. Each
  action is a composition of a few changes of the state, and one lemma per change says
  when it keeps the invariant.

**Only model-checked.** Liveness under fairness (`CallReturns`, `CountersRefilled`,
`EventuallyCleaned`) is out of the reach of the prover. Transactions that meet an intent
lock are only in the run `txn_ddl`, and transactions on a metastore whose `putCAS` is not
atomic only in `txn_live`.

## Findings

1. `fdb_put`. `FDBClient::Put` compares with a value read with `snapshot = 1`
   (`Catalog/FDBClient.cpp:149`), which takes no read conflict. Two `putCAS` that expect
   the same value can both succeed, and so can two `put` with `if_not_exists`.
   `Catalog/IMetastore.h:57` promises "Put with CAS. Return true if CAS succeed,
   otherwise return false with current value." The elector's record, the records of
   transactions (their commit, abort, the clean tasks) and the evictions of the lock
   manager are all decided by `putCAS`; the next section says what depends on it.
2. `tso_put`. `updateTSO` moves `t_last` before it stores it (`TSO/TSOServer.cpp:175`).
   When the put fails, the next update finds room below `t_last` and stores nothing, and
   timestamps above the bound in the metastore are handed out; a leader elected then may
   hand them out again. `TSO/TSOServer.h:112` calls `t_last` the "TSO physical time upper
   bound (persist in KV)".
3. `txn_ddl`. `IntentLock::writeIntents` reads the record of the transaction in its way,
   asks that transaction's server for its status, and then calls `rollbackTransaction`,
   which puts `Aborted` unconditionally (`Transaction/IntentLock.cpp:188`). A commit
   between the two answers is overwritten, although `Transaction/getCommitted.h:103`
   relies on "only cached txn record with finished or aborted status since these 2
   status are final status". The other `TxnCommit` runs leave this actor out.

### Limits of the properties

Each of the following is a behaviour of the code, or a condition on its surroundings,
that a property above leaves out or assumes. The properties are true of the code under
these conditions only.

- *`putCAS` on FoundationDB.* Everything said of the elector, and every safety property of
  `TxnCommit` with its theorem, is for a metastore whose `putCAS` is atomic, such as
  ByteKV. On FoundationDB a comparison may be out of date when the put is applied: a clean
  task, a cancelled merge, the scan or an eviction of locks can put `Aborted` over a
  `Finished` that the client was told of, and a commit can put `Finished` over an
  `Aborted`. With `Metastore = "FDB"`, TLC finds `StatusIsFinal` violated on one server
  without any fault. `CommitsHoldLocks` then covers only a commit whose put meets the
  record Running: a commit that overwrites the `Aborted` of an eviction has lost its
  locks. Everything else said of the lock manager, and `EventuallyCleaned`, hold on both.
- *Unknown commit result.* A commit whose result is unknown is retried; if the first
  attempt was applied, the retry fails its comparison and the caller is told `false`
  although its write is in the store. `CasAtomic` speaks of the store only.
- *Deposed leader.* `tryUpdateLocalRecord` renews `last_refresh_local_time` for another
  leader's record before it writes the role, so `isLeader()` of a deposed leader is true
  again for a moment (`Demoting`). With clocks that differ, two nodes are both leaders
  for at most the difference. `AtMostOneLeader` leaves these windows out.
- *TSO faults.* The safety results cover failed puts (`putError`) and puts of an old
  leader that come late (`linger`), up to the point where a bound is lost: a leader starts
  while the last put of the one before had failed, or an old leader's put lowers the bound.
  From there on `Monotonic` and `Unique` claim nothing, and `BoundPersisted` claims nothing
  while the last put of the leader is a failed one (finding 2). They also leave out an
  overflow of the logical counter, which carries into the physical part that `updateTSO`
  then may set back (`overflow`), and a request that passes its check of the role and
  answers after the lease has ended (`stall`): with either, `Monotonic` fails.
- *Lock upgrades.* A transaction that holds any lock on an entity gets every other mode
  on it at once (`LockContext::lock`), so two transactions with shared locks can both
  get the exclusive one. Hence `NoUpgrade`.
- *Locks across topologies.* A lock is checked by the version of the topology, where
  the same or consecutive versions are accepted. A delayed lock request can
  be granted by a server that has ceased to be the host, and another server that
  became it again holds the lock as well. `CommitWithinTopology` covers what the commit
  relies on: from the assertion to the end of the commit only the lock's server is host.
- *Part cache.* A part that is removed while a load is running and no map is cached
  (`PartCacheManager.cpp:760`) is put into the map by that load. The status stays loaded
  when the map is evicted. A query that finds it so, before or after the eviction, goes
  on to the map; if an insertion resets the status and another query begins to load in
  between, it gets a map with the inserted part only. This takes three threads, and came
  up when the proof of `ReadsComplete` for any number of queries failed. A query whose
  entry is removed, or whose partition list is cleared for a reload, after
  `mayUpdateTableMeta` had found the entry loaded, returns nothing
  (`PartCacheManager.cpp:1090`). A failed load of an older info removes the map of the
  newer one, and a thread that still waits to load a removed entry drops the maps of the
  newer entry (`LateDrop`), parts inserted during a load included. `RemovedStaysOut`,
  `ReadsComplete` and `MapComplete` leave these out, by `quiet`, `calm` and `crossed`.
- *Assumed of time.* The whole of `writeParts`, from its check of the host to the
  insertion into the cache, ends within the margin of a topology's lease (6000 ms in the
  code), and so does a commit after the check of its locks. The code bounds every metastore
  call but not their number: `finishCommitInBatch` (`Catalog/Catalog.cpp:2594`) writes any
  number of batches, each of up to three seconds, after one check. A call that outlives the
  margin is outside `WritesExclude`, `CacheFresh` and `CommitWithinTopology`. Further, a
  renewal of the topologies ends before the election's lease does, and no query outlives
  the minimal lifetime of a cached map.

## Not modelled

- `is_kv_down` of the TSO: it is raised for an error no metastore behind it throws.
- The lost-record abort of the elector: nothing deletes the record.
- In `TxnCommit`: the Kafka, binlog and sequential (`GlobalTxnCommitter`) branches of
  the commit, the dedup stage beyond its outcomes, read-only, secondary and proxy
  transactions, and more than one kind of action.
- Intents by priority, and the intents themselves.
- Scans, point reads outside a write and the splitting of large batches in the
  metastore client; ByteKV, an external store behind the same interface.
- The removal of outdated parts, merge selection, the background jobs of tables, global
  garbage collection and the resource manager's soft state: protocols of their own whose
  state (part versions, job states, worker load) the present models do not have.
- Query execution, the optimizer, storage formats and functions: computations of a
  single query on data. They make up nearly all of the source, are about values rather
  than protocols, and are out of the reach of a model checker.
- The RPC layer, configuration, logging and metrics.
