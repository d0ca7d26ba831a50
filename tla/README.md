# LSM-KV: specifications, model checks and proofs

TLA+ modules for LSM-KV, a key-value store built from log-structured merge trees
(`src/lsmkv`, Python) and its dashboard (`src/dashboard`, Python and TypeScript).
This file lists the parts of the system, says which module models which part, what
each run and each theorem establishes and from which assumptions, and what is not
modelled. `PROJECT.json` holds the same facts for tools: components, runs, the source
lines of every definition, hazards, findings, theorems.

| file | what it is |
|---|---|
| `Records.tla` | records, tables, log replay, the winner rule of a merge (pure operators) |
| `StorageEngine.tla` | one node's storage engine as a state machine; its properties |
| `KVStore.tla` | the abstract promise: a dictionary that names the writes it may lose |
| `StorageEngineRefinement.tla` | the refinement mapping from the engine to `KVStore` |
| `StorageEngineProofs.tla` | theorems about `StorageEngine` for all values of its constants: types, log, tables, numbers |
| `StorageEngineReadsProofs.tla` | theorems about what keys read, and that the engine is a `KVStore` until it compacts |
| `MCEngine.tla`, `engine_*.cfg` | the finite instances of it that TLC checks |
| `Operations.tla`, `operations.cfg` | the dashboard's background operations and the load generator |
| `OperationsProofs.tla` | theorems about `Operations` for all values of its constants |
| `ClusterSync.tla`, `SnapshotsPage.tla`, `RingPage.tla`, `ClusterPages.tla`, `pages_cluster.cfg` | the dashboard's store, its refreshes, and two pages that follow it; the composition |
| `ClusterPagesProofs.tla` | theorems about `ClusterPages` |
| `ClusterContext.tla`, `ClusterViews.tla`, `cluster_context.cfg`, `cluster_divergence.cfg` | the nodes and failures every page shows, and what the pages make of them |
| `ClusterContextProofs.tla`, `ClusterViewsProofs.tla` | theorems about those two |
| `PageLife.tla` | mounting, leaving and the WebSocket of a page |
| `LogStream.tla`, `MetricsPage.tla`, `StoragePage.tla`, `LiveFeed.tla`, `TaskOverlays.tla`, `KeyOperations.tla`, `DashboardControls.tla`, `Timeline.tla` | one page or overlay each |
| `Panels.tla`, `panels.cfg` | those eight side by side |
| `PanelsProofs.tla` | theorems about `Panels` |

Run `tlc -config engine_durability.cfg MCEngine` (and the other configurations with
the modules named in `PROJECT.json`), `tlapm StorageEngineProofs.tla` and so on for the
other six modules of proofs.

## 1. Inventory of the system

### Nodes (`src/lsmkv`)

| component | state | operations | what makes it correct |
|---|---|---|---|
| **Storage engine** `storage/engine.py` | MemTable, log, registry, cache, version counter, `_flushing` | `set`, `delete`, `repair_set`, `get`, `get_record`, `_flush_memtable`, `open`, `close`, `snapshot_create` | a key reads its last write; a restart changes no read; a failed flush loses nothing and blocks nothing |
| **Log** `storage/wal.py` | `wal.log` | `append`, `append_record`, `replay_records`, `truncate` | a replay rebuilds the MemTable; replay stops at the first bad entry |
| **MemTable** `storage/memtable.py` | sorted dictionary, size | put, delete, get, `clear`, `is_full`, TTL expiry | one record for a key, the last one applied |
| **SSTable, Bloom filter** `storage/sstable.py`, `bloom.py` | immutable files, sparse index, filter | write (temporary file and rename), lookup | every written key is found; no false negatives |
| **Registry and compaction** `storage/compaction.py` | live tables by level, `_seq` | `next_sequence`, `add`, `remove`, periodic loop, `_compact_level`, `_kway_merge` | live tables have their files; a merge keeps the newest record and resurrects nothing; level 0 stays short |
| **Manifest** `storage/manifest.py` | `MANIFEST.json` | `add_sstable`, `remove_sstable`, `save`, `load` | lists every live table |
| **Versions** `storage/version.py` | `_next` | `next`, `observe` | newer writes have higher versions |
| **Cache** `storage/cache.py` | LRU of values | get, put, invalidate | never older than the store |
| **Snapshots** `storage/snapshot.py` | copied directories | create, restore, list | a snapshot is one moment's state |
| **Server** `network/server.py`, `protocol.py` | connections, engine, ring | one handler task for each connection; SET, DEL, GET, MGET, FLUSH, COMPACT, REPLICATE, MIGRATE, ... | an answer says what happened; shutdown flushes once |
| **Replication** `distributed/replication.py` | one connection and lock for each target | `replicate` with two attempts and timeouts | replicas converge; no handler waits for ever |
| **Ring, routing, shards** `distributed/ring.py`, ... | virtual nodes | owner and replica list of a key | one owner; distinct replicas; few keys move |
| **Rebalance, migration** `distributed/migration*.py`, `rebalance*.py`, `cluster_manager.py` | ring, exported keys | export, MIGRATE, delete, switch the ring | no key is lost or left at the wrong node |
| **Heartbeats** `distributed/heartbeat.py` | missed pings, state of each peer | ping, callbacks | failure and recovery alternate |
| **Replica sync** `distributed/replica_sync*.py` | plan of keys | copy missing keys | not called by the server today |
| **Client** `client/sdk.py`, read repair `storage/read_repair.py` | connections to nodes | quorum read, failover, repair | a quorum read returns the newest replica |
| **Statistics** `compaction_stats.py`, `metrics/` | counters | render | no decision reads them |

### Dashboard (`src/dashboard`)

| component | state | operations | what makes it correct |
|---|---|---|---|
| **API** `api/main.py` | ring, snapshots, load task, WebSocket clients, rates | start, stop and report a load; add and remove a node; push ring, metrics, logs | the status tells whether a load runs |
| **Background operations** `store/operationsStore.ts`, `services/backgroundOps.ts` | operations, poll intervals, `sessionStorage` | start, report, complete, fail, cancel, purge, hydrate | an operation ends, once, as it ended; a reload forgets nothing |
| **Store and refresh** `store/clusterStore.ts`, `syncEngine.ts` | last answer of each endpoint | 5 s poll, `triggerRefresh` | pages converge to the backend's state |
| **Cluster context** `context/ClusterContext.tsx`, `services/simulation.ts`, `eventBus.ts` | nodes, partitions, timers, history, replay | inject and recover failures, add and remove nodes, 3 s sync, replay | a recovered node stays recovered; the list follows the ring |
| **Snapshots page** | own list, spinners, progress | create, restore, delete | shows the backend's list; no dead button |
| **Hash ring page** | ring, live flag, socket | refetch, push, offline mock | the counts are a distribution of the keys |
| **Dashboard page** | events, flashes, key panel | load, cluster, storage and key buttons | a panel follows its requests |
| **Logs page**, `store/logStore.ts`, `hooks/useLogGenerator.ts` | buffer, socket, filters | push, seed, clear, pause, export | the page shows the buffer; a pause adds nothing |
| **Metrics page**, `hooks/useMetricsWS.ts` | socket, last push | reconnect, push | live figures come from a live socket |
| **Storage page**, its diagram and live feed | socket, animation phase, requests, tokens | flush, compact, inspect | animations come to rest; arrivals are listed once |
| **Overlays** `BackgroundTasksWidget.tsx`, `ToastContainer.tsx` | open flag, toasts | open, close, dismiss | notices come and go with the operations |
| **Views** Cluster, Replication, Chaos pages, Navbar | what they derive | - | they do not contradict one another |
| **Timeline page** | playback | play, jump, exit | a replay shows the snapshot asked for |

### How the parts interact

* A node runs **one asyncio event loop**. A handler is atomic up to its next `await`.
  In the write path only one `await` leaves the loop: `_flush_memtable` writes its
  SSTable in a thread (`engine.py:386`). Reads await a thread for each file.
* **Compaction runs in a thread** (`asyncio.to_thread`), beside the loop, and calls
  the registry, the MANIFEST and the file system directly. The registry locks each
  single call; nothing locks a sequence of them. The `COMPACT` command runs a second
  compaction in its own thread, on the same tables.
* Nodes talk by request and answer over TCP. A handler that replicates or forwards
  keeps its connection's lock across the remote call.
* The disk is shared between a process and its successor after a crash; all of
  `open()` depends on which calls the predecessor had finished.
* The dashboard's API process polls the nodes and is polled by browsers.
* A **browser tab** is one thread: a handler is atomic up to its next `await`, and what
  it read before, in a variable of its render, is as old as that render (a *stale
  closure*). Between two awaits come timers, answers, pushes, and the mounting and leaving
  of pages. The operations store, the cluster store, the log buffer and the cluster
  context survive navigation; the state of a page does not, but the requests and timers
  it started do.
* Pages share state through those four, and through the API process: a button calls
  `backgroundOps`, which starts an operation and asks the API; its end calls
  `triggerRefresh`, which refills the cluster store, which the pages follow.

### What is hard here

In the nodes: records are listed before an await and cleared after it; sequence numbers
are taken when a file *starts* to be written, but order the reads; flushes overlap since
only one of their four callers looks at the guard; compactions overlap and edit MANIFEST,
registry and files in several steps; a crash falls between any two of these; versions
restart with an empty log; replication and migration are retried without identifying
what was already applied.

In the dashboard: polls overlap and are answered late, for an operation that has ended,
was cancelled or is not the one the generator works for; refreshes overtake each other;
a list is changed at once and confirmed later by an answer that may be older than the
change; failure timers meet a recovery; a handler uses the state of an earlier render; a
page is left with its requests and timers in flight; buffers are cut while something
points into them; a reload loses every timer. `PROJECT.json` lists these as hazards, each
at its line; those without a property say why.

## 2. How the modules are composed

1. **Storage engine**: `Records` (operators), `StorageEngine`, the abstract `KVStore`
   and the refinement between them.
2. **Background operations**: `Operations`, with the generator of the API process. The
   other modules see of an operation only that it runs and ends.
3. **Store and its readers**: `ClusterSync` has the store and the refreshes;
   `SnapshotsPage` and `RingPage` extend it with one page each, and `ClusterPages`
   composes all three: landing a refresh is one step of the store and of the page that
   is mounted.
4. **Cluster context**: `ClusterContext`, extended by `ClusterViews` with what the pages
   derive from it and the rows of the Replication page.
5. **Panels**: pages and overlays that share no state with each other, each over
   `PageLife`; `Panels` is their sum: a behaviour watches one *scene*.

What one module takes from another is abstracted where they meet: `TaskOverlays` and
`StoragePage` see operations start and end in any order, `ClusterViews` takes a refresh
as one step, `Timeline` sees labels of snapshots. These are over-approximations: they
allow every order the detailed module has.

Worth doing next, in this order: the **read path** of a node (each file one await, with
cache and TTL, beside flush and compaction); **replication** and **rebalancing** between
two or three nodes with `KVStore` as each node's store; **snapshots** and the MANIFEST
race; what reads of a node *with* compaction can be promised after a restart.

## 3. The model of the storage engine

### State

| variable | code |
|---|---|
| `wal`, `torn` | entries of `wal.log` that a replay reaches; a torn entry behind them |
| `files` | `sst_<seq>.dat` files: sequence number to set of records |
| `manifest` | `MANIFEST.json`: sequence number to level |
| `memtable`, `registry`, `seq`, `nextVersion`, `flushing` | `_memtable`, the registry's table, `_seq`, `VersionManager._next`, `_flushing` |
| `flush[c]` | where handler `c` is in `_flush_memtable` and the records it listed |
| `job[t]` | where compaction thread `t` is in `_compact_level`, its level, inputs, output |
| `clock` | `time.time()`, and the count of writes |
| `failures`, `crashes` | how often each happened (bounded) |
| `latest`, `atRisk` | history: the last record written at a key; keys whose last write was accepted during a flush or behind a torn tail. No action reads them in a guard |

`flush[c].pc`: *write* - records listed, thread running; *written* - file renamed into
place; *publish* - back on the loop, MANIFEST saved and table registered; then the
MemTable is cleared and the log truncated. There is no await between *publish* and the
clear, so no other handler moves meanwhile (`LoopBusy`), but a compaction thread and a
crash may.

### Actions

| action | code |
|---|---|
| `Set`, `Delete`, `RepairSet` | `set`, `delete`, `repair_set`: version, log append, MemTable, and a flush begun if the table is full and `_flushing` is not set |
| `FlushCommand` | FLUSH, `snapshot_create`, `close`: flush regardless of `_flushing` |
| `FlushWrite`, `FlushPublish`, `FlushClear`, `FlushFail` | the parts of `_flush_memtable` |
| `TakeLevel` | the test of `_run_if_needed`, and COMPACT's of each level |
| `Merge`, `MergeFail` | `next_sequence`, `_kway_merge`, the writer; an input deleted by another thread |
| `CompactManifest`, `CompactPublish`, `CompactRemove`, `CompactDelete` | the four steps after the merge |
| `CrashRestart` | a kill between any two steps, and `open()` |

### Abstractions

* A record is `[key, value, version, timestamp, tombstone]`. Each set brings a value of its
  own; a tombstone's is empty. Clocks only advance.
* One write has **two timestamps**. `_create_record` reads the time for the record that the
  MemTable gets (`RecordTime`), `WriteAheadLog.append` reads it again for the log entry
  (`EntryTime`, later), and a replay restores the entry's (`wal.py:77`, `record.py:166`). So
  a restart advances the timestamp of a key that was not flushed, which a GET shows
  (`server.py:409`). `append_record`, which `repair_set` calls, keeps the record's. The
  properties that compare what was written with what a replay or a read gives compare key,
  value, version and tombstone (`Content`); `MemtableIsWalReplay` and `RestartChangesNoRead` say
  besides that no timestamp is set back (`Restamped`).
* A table is a set of records, one for a key; sizes are counted in records. Key order,
  encoding, checksums, Bloom filter and sparse index do not appear.
* A torn log entry is a flag. Replay ends at it, and what is appended behind it is
  acknowledged but never replayed, so `wal` does not grow while it is set.
* The MANIFEST edit of one flush or compaction (add, remove, save) is one step, and so
  is the loop of `registry.remove` and the loop that deletes the input files. The race
  of two threads inside the MANIFEST is not modelled. A failing MANIFEST
  save or log append is not modelled.
* `FlushFail` stands for an I/O error of the writing thread and for a handler that is
  cancelled at the await. Its file may exist or not; a file that the thread of a
  cancelled handler finishes later is listed nowhere, like one finished before.
* A merge takes its number and writes its file in one step: its inputs are immutable
  files and its output is referred to by nothing until the MANIFEST lists it, so what
  happens during the merge is the same before or after it.
* After a failed merge the sequence number may have been taken or not: `MergeFail`
  chooses.
* `close` is `FlushCommand` followed by `CrashRestart`.
* The cache, TTL and the steps of a read are not modelled. `Visible` is
  `get_record`'s rule, evaluated in one moment.

## 4. The model of the dashboard

All of it is one browser tab and one API process. Time is left out: an interval may
tick, a sleep end and a timer strike at any moment, except where timers of one delay end
in the order they were set. A request is on its way, is handled by the API process in one
step (an `async def` without an await inside is one), and its answer is received, or it
fails, at any later moment; requests overtake each other.

### Operations

`status`, `progress`, `kind` are the entries of the store's map (an operation is its
number: ids carry `Date.now()`), `saved` is `sessionStorage`, `timer` the poll intervals,
`polls` the `load-status` requests in flight, `post` the `generate-load` request of a
load, `step` how far a scripted operation has come, `gen` the generator of `main.py`.

| action | code |
|---|---|
| `StartLoad`, `LoadAccepted`, `LoadRefused`, `PostLost` | `startLoadGeneration`: start, POST, then the poll or `fail` |
| `PollTick`, `LoadStatus`, `PollFails`, `PollShowsProgress`, `PollShowsEnd`, `PollOrphaned` | `startLoadPoll` and the resumed poll of `_hydrate`: ticks do not wait for each other's answers |
| `StopLoad`, `StopHandled`, `StopLost`, `StopReturns` | `stopLoadGeneration`, `cancelLoadOp` |
| `StartScripted`, `ScriptReports`, `ScriptEnds` | flush, compact, snapshot, restore, add and remove node: reports around a call, whose failure is shown as "simulated" |
| `Purge`, `Reload` | the 30 s purge; a page reload and `_hydrate` |
| `GenerateLoad`, `GenWorks`, `GenEnds`, `ApiRestarts` | `demo_generate_load`, `_run_load`, a restart of the process |

A restored operation other than a load has no script any more and runs for ever: the
code polls for loads only. The properties name it (`Abandoned`).

### Store, snapshots page, hash ring page

A refresh is five requests that land together; of the answers the node list and the
snapshots are kept, as no page relates two of the others. `SnapshotsPage` has the list
the page shows, its optimistic changes, and both POSTs of a creation (the page's own and
that of the operation it starts, `Snapshots.tsx:113`). The merge
ignores a refresh that lists no snapshot, so the last one deleted can stay in the page's
list, and `ListConverges` says so. `RingPage` has the ring the page draws, by its number of nodes
and whether it was served, so that the angle and the owner of a key are computed as the
code does and a count over mixed rings shows.

### Cluster context and views

`nodes` is the list with the state and the failure of each, `timers` how many of each kind
of `setTimeout` are set for a node, `ops` the Add and Remove Node operations with the
`nodes.length` their click saw, `syncs` the requests of the 3 s sync, `backend` the nodes
of the API's ring. A node that crashes after it was recovered stays recovering
until a later timer heals it; a healthy node can keep its old `activeFailure`
(`simulation.ts:171`). `ClusterViews` derives what each page says of the same nodes: counts,
verdicts, the quorum, and the rows of the Replication page twice: its table looks a row's node
up by the row's id (`Found(rows[r])`), its diagram takes the row's *place* for the id
(`PacketFlow.tsx:44-49`, `Blocked`). On a list whose ids have gaps or repeat, which two quick
clicks leave behind, the diagram draws another node's state; when the store lands, the rows
are numbered from 0 and the two agree, which is what `DiagramAgrees` asks for. The cards of
single nodes draw the node they are given and are left out. It takes the lag the backend reports as small. Recovering
everything clears partitions on the page only.

### Panels

`PageLife` gives each page `away`, `rendered` (state initialised, effects to run) and
`mounted`; leaving runs the cleanups. What the modules say of the code, and a reader may
not expect:

* `LogStream`: the generator of the layout always runs (`DashboardLayout.tsx` passes no
  flag, though `useLogGenerator.ts:10` speaks of one); `seed` does nothing in a buffer
  that is not empty; after Clear a second visit can seed entries whose ids are in use; a
  change of `paused` closes the socket and opens another.
* `MetricsPage`: the figures of a lost connection stay on the page without the mark.
* `StoragePage`: a click on Flush or Compact posts twice, once from the diagram and once
  from the operation; a failure reads "(simulated)"; the page's socket does not take back
  its `onclose`, so that a reconnection outlives the page (`leaked`); snapshot events are
  found by counting and can be spurious or missed. The animations that start by
  themselves are left out, for the backend reports no queue and a fill that never
  reaches their threshold.
* `LiveFeed`: `slice(-20)` and one more are 21 tokens. In development `StrictMode` calls
  updaters twice and lists an arrival twice; the model is the production build.
* `KeyOperations`: Enter does not look at the loading flag; an answer clears what was
  typed after it, and a late one replaces the result of a newer request.
  `PanelFollowsRequests` is about the flag and the blank panel only.
* `DashboardControls`: the timer of an earlier flash can clear a later one.
* `Timeline`: starting playback leaves `replayPos` as it was; a replay survives leaving the
  page. **When the history is full, each snapshot that is recorded moves a replay on to the
  next one**: the history is cut in front and `replayIndex` stays (`ClusterContext.tsx:98`), though
  `Timeline.tsx:407` promises "the cluster state at that point in time". `chosen` is a ghost that
  follows the snapshot asked for; `ReplayShowsChosen` says exactly that: the replay shows it
  until the recorder is full, and afterwards it or a later one. The stronger
  `replay = chosen` is false: TLC refutes it with a playback under a full recorder.

The Timeline and Chaos pages have no route in `router.tsx`; they are modelled as they would
run. Of `LogStream` what is drawn from the entries is left out (list, tiles, sidebar, chips of the
components), of
`StoragePage` the messages beside the buttons.

## 5. What the runs check

Passing runs (distinct states, time with two workers):

| run | instance | question and answer |
|---|---|---|
| `durability` | 2 keys, 2 handlers, MemTable of 2, 3 writes, 1 foreign record, 2 crashes, torn tails; 442 000 states, 50 s | `MemtableIsWalReplay`: the log and the MemTable never drift apart but in timestamps, of which the log has the later. `RestartChangesNoRead`: a crash at any moment of a write or flush, and `open()`, leave the value, version and tombstone of every read as they were, and set no timestamp back. `ImplementsKVStore`: every step is a step of the dictionary - only keys written during a flush or behind a torn tail fall back |
| `compaction` | 2 keys, 1 handler, periodic loop and COMPACT, MemTable of 1, trigger 2, 3 writes; 2.8 million states, 60 s | `LiveNeverVanishes`: however flushes and two compactions of the same tables overlap, a key whose last write was a set reads *some* value. `TypeOK`: also that no table goes below level 3 |
| `recovery` | 1 key, 1 handler, both compactions, 1 failed flush, 1 crash, fairness; 105 000 states, 20 s | `RegisteredTablesAreDurable`, `SequenceNumbersAreFresh`: live tables have files and MANIFEST entries, and file names are never shared. `FlushGuardIsReleased`, `LevelZeroIsCompacted`: liveness |
| `operations` | 2 operations among loads, compactions and added nodes, 2 polls in flight, 1 reload, a load of one batch, fairness; 154 000 states, 50 s | `SavedIsRunning`, `RunningIsAttended`: a reload at any moment brings back exactly what runs, and nothing that runs is forgotten. `FullMeansCompleted`, `CompletedIsFinal`: late polls, refusals and Stop clicks neither move nor un-complete an operation that ended. `CompletedLoadIsOver`: one generator and overlapping polls never show a load completed that is still at work. `OperationsEnd` |
| `cluster_pages` | 2 refreshes and 2 requests in flight, 2 snapshots, a ring of 3 or 4, a socket update, 1 failure, 4 keys around the seam of the ring, fairness; 225 000 states, 150 s | `BusyIsAttended`: what is shown in progress has a request that ends it. `OfflineFollowsStore`, `KeysCountedOnce`: the ring page, with answers, pushes and the mock in any order. `ActionsEnd`, `ListConverges`: actions end, and the page ends up with the backend's snapshots |
| `cluster_context` | 2 nodes that fail (one in the initial ring, one that is added), 3 clicks, 2 syncs, 1 failed request, fairness; 294 000 states, 95 s | `RecoveringIsAttended`, `RecoverySucceeds`: old failure timers against recoveries. `SyncKeepsNodes`, `CountConverges`: syncs against optimistic changes. `PagesAgree`: the pages do not contradict one another. `RowsConverge`, `DiagramAgrees`: the Replication page ends up with a row for each node, and its diagram breaks the lines of the rows its table calls down or suspect and of no synced one |
| `panels` | 5 visits, clicks, failures or pushes for the scene watched; buffers of 2 to 5; fairness; 113 000 states, 75 s | one to three properties of each page or overlay, see `PROJECT.json`: buffers and copies (`ShownIsLog`, `LogKeepsEntries`, `TerminalListsArrivals`, `ReplayShowsChosen`), sockets (`PausedAddsNothing`, `LogsReconnect`, `LiveMeansConnected`), animations and timers (`PhasesInOrder`, `StorageRests`, `PanelStaysForTasks`, `NoticesEnd`, `PlaybackEnds`), requests (`PanelFollowsRequests`) |

Violation runs, each a statement of the repository's documentation that the code does
not keep:

| run | statement | what happens |
|---|---|---|
| `lost_write` | "No acknowledged write is lost." (`docs/design_decisions.md`) | a SET accepted while another handler's flush awaits its thread is cleared with the MemTable and truncated from the log |
| `resurrection` | tombstones are kept "so older SSTables don't ghost-resurrect deleted keys" (`compaction.py`) | compacting level 0 drops a tombstone while level 1 or 2 holds an older value |
| `stale_read` | "Return the newest Record for a key." (`engine.py`) | a flush takes number n, a compaction of older tables then takes n+1; both finish, and reads prefer n+1 |
| `old_version` | "always keeps the record with the highest sequence number during reads and compaction" (`docs/design_decisions.md`) | after a flush and a restart versions start at 1 again, and the merge, which compares versions first, keeps the older record |
| `cluster_divergence` | "Sync with backend nodes", "Re-sync with backend after 500ms to confirm" (`ClusterContext.tsx`) | a late answer cuts the node that a click has added, the next click appends node4, a sync that compares lengths appends another node4: node3 is never shown |

The dictionary of `KVStore` has, besides `store`, what was last `written` at each key and the
keys `atRisk`. The mapping of `StorageEngineRefinement` gives `store` as what a GET answers
(`Named(Visible(k))`: the value of a live record, else not found; `ValuesAssumption` says
which values are set), `written` as the answer the
last record written would give, and `atRisk` as the engine's history variable. Every step of
the engine has to be a `Put`, a `FallBack` or a stutter of it.

The first four are why the passing properties of the engine are worded as they are: `KVStore` has a
`FallBack` step for keys at risk, `LiveNeverVanishes` promises some value and not the
newest, and `ImplementsKVStore` and `RestartChangesNoRead` are checked without
compaction threads. With compaction `RestartChangesNoRead` is false: a merge whose
output is empty (only tombstones) leaves its inputs in the MANIFEST
(`compaction.py:278`), and a later restart can find a file that a failed flush left
behind under one of these numbers and register its old records.
`LiveNeverVanishes` is stated up to the first restart for the same reason.

Every property of a passing run has a mutant in `PROJECT.json`: a `Faulty...` operator
of `StorageEngine`, next to the definition it spoils, with which TLC finds the property
violated; those of the dashboard are next to the definition they spoil too, under the
comment "Mutant" or "What if ...". These operators are not part of any specification.

### Bounds, and why they are enough

`MaxWrites`, `MaxSequence`, `MaxFailures`, `MaxCrashes` bound behaviours; guards of
client steps, `FlushFail` and `CrashRestart` use them and no others. `MaxSequence`
bounds FLUSH and COMPACT commands only: a flush or merge under way is never cut off.
Two handlers give overlapping flushes, the only interaction handlers have in the write
path (a third flush adds no new pair). MemTable of 2 lets a key be overwritten and a
second key join; of 1 makes each write a table, so three writes fill level 0 past its
trigger of 2 while a compaction runs. Two compaction threads give the same-input races.
Three writes are a value, its successor (or tombstone) and one more during a flush. Two
crashes are needed for what is appended behind a torn tail to be missed. Handlers are
symmetric in `durability`, which checks no liveness. All instances stop when their bounds
are used up, hence `CHECK_DEADLOCK FALSE`.

In the dashboard, two of everything that is in flight gives every overtaking of a pair:
two polls for two loads, two refreshes, two requests of a page, two syncs. Two operations
let a load follow another, or a script run beside one; which kinds run does not matter to
the store, so `operations` has the shortest and the longest script. One reload is followed
by everything a page can do; two were checked without liveness. Three clicks are what the
divergence of the cluster context needs, and what two adds and a remove need. Keys are
chosen on both sides of node angles and of 0. In `panels` the five acts are a visit,
three events and a leave or a second visit; buffers are as small as their cut allows,
and counts (`MaxLog`, `MaxTokens`, `MaxHistory`, `MaxRecent`) stand for 500, 21, 200 and 12.
`MaxActs`, `MaxClicks`, `MaxTroubles`, `MaxReloads` bound what the user and the network may
do, never an answer, a timer or an effect. In `operations` and `panels` a page that was
left, or whose acts are used up, stops: `CHECK_DEADLOCK FALSE`.

### Fairness

`FairSpec` has weak fairness of each handler's flush steps and of each compaction
thread's steps: the event loop runs every ready callback and the operating system
every thread; the loop of `CompactionEngine` catches its exceptions and goes on
(`compaction.py:228-234`). Nothing is assumed of clients, failures or crashes. For the
COMPACT thread fairness means that a command once given is carried out and that, while
the bound lasts, commands keep arriving; `LevelZeroIsCompacted` does not need it, the
periodic loop alone suffices.

In the browser a timer that is set strikes, an effect runs after its render, and a fetch
settles: it is answered or rejects. This is weak fairness of those actions, each for itself
(`Operations`, `ClusterPages`, `ClusterContext`) or, in `Panels`, where a behaviour has one
scene and every act is bounded, of their disjunction. `OperationsEnd` needs more in two
places: an interval ticks again and again although all requests may be in flight (strong
fairness of `PollTick`), and of the polls sent for ever some are answered (strong
fairness of `PollAnswered`: a backend that never answers leaves a load running for ever,
which is what the code does). A load of the generator ends. Nothing is assumed of clicks,
visits, pushes, failures, reloads or restarts.

## 6. What is proved

`StorageEngineProofs.tla`, checked by TLAPS for any finite or infinite set of keys,
handlers, compaction threads, foreign records, any trigger, MemTable size and bounds, from
`ConstantsAssumption` alone (trigger and MemTable size positive, bounds natural numbers,
foreign records are records).

* **`TypeCorrect`**: `Spec => []TypeOK`. `TypeOK` is strengthened to `TypeInv`: no
  thread's level exceeds its `LastLevel`, without which an output could land below
  level 3.
* **`LogRebuildsMemtable`**: `Spec => []MemtableIsWalReplay`. Inductive given the types. The records
  of the log are those of the MemTable under their own, later timestamps (`EntryRestamps`,
  `UpsertRestamped`), and after a restart the MemTable is the replay itself (`RestampedSelf`).
  Its core is `ReplayAppend`: replaying a log with one entry more is an `Upsert` into the
  replay of the log, which is exactly what a write does to both halves.
* **`LiveTablesAreDurable`** and **`SequenceNumbersStayFresh`**. Neither is inductive alone.
  The invariant `IInv` conjoins with `TypeInv`:
  `KnownInv` (every number in use, live or an input, is at most `seq`), `FreshInv` (the
  numbers of unpublished tables are at most `seq`, pairwise distinct and not in use),
  `UnpublishedInv` (what is about to be published has its file and, at *publish*, its
  MANIFEST entry), `RetiredInv` (a thread that deletes files has already taken its inputs
  out of the registry) and `RegisteredTablesAreDurable`. The argument: numbers are
  fresh, so no write of a new table touches a live one; files and MANIFEST entries precede
  registration; inputs leave the registry before their files go. A restart establishes
  every part anew from `Loadable`, whatever state it finds. There is one lemma for each
  action (`...Keeps`), then `InitTables`, `StepTables` and `Invariance`.

`StorageEngineReadsProofs.tla` builds on it, for the same constants and, for the refinement,
`ValuesAssumption`. It says what a read returns, in two settings.

*Until a compaction begins.* The theorems have `[]Resting` as their hypothesis: no thread is
past looking at a level. Below `l0_compaction_trigger`, and without a COMPACT command, that is
what the code does, and since `Spec` lets a behaviour stop anywhere they hold of every node up to
its first compaction. Beyond it all three statements are false, as section 5 shows:
`stale_read` and `old_version` are counterexamples of the second.

* **`RestartKeepsReads`**: `Spec /\ []Resting => []RestartChangesNoRead`. The MANIFEST and the registry list
  the same tables (`ListedInv`), and the log rebuilds the MemTable up to timestamps, which a read
  passes on and does not look at (`ReadRestamped`).
* **`ReadsAreNewest`**: `Spec /\ []Resting => []GetReturnsNewest`. A key whose last write was a set
  reads the value and version of that set, unless the key is at risk.
* **`EngineIsDictionary`**: `Spec /\ []Resting => ImplementsKVStore`, the refinement. A write is a `Put`
  (`WriteIsPut`); every other step keeps the reads of the keys that are not at risk, so it is a
  `FallBack` of the others (`OtherIsFallBack`), whose answers are values (`ValueInv`).

None of them is inductive. `WindowInv` says why the window of a flush is all that is lost: for a
key outside it the MemTable has at most the last record, a replay agrees with the MemTable
even behind a torn tail, and what a flush in flight has listed includes what the MemTable has
of the key, since a key leaves `atRisk` only by a write no flush overlaps. `WindowInv` needs
no hypothesis on compaction; `PlainInvariance` does. `PlainInv` adds `ListedInv`, `PublishedInv` and `NewerInv`: tables
with the number of a flush in flight, or a higher one, have of a key its last record or
none, so that clearing the MemTable after publishing changes no read, though overlapping
flushes publish in any order. `HighestOf` (of finitely many tables one is the newest) and
`ReadCases` make a read a case distinction.

*A node that compacts, until its first restart*, and is handed no records of other nodes
(`ForeignRecords = {}`).

* **`LiveStaysVisible`**: `Spec => []LiveNeverVanishes`, for any number of compaction threads. The
  record of the last set has the highest version of its key (`VersionInv`; this is where
  another node's record, which carries that node's version, would break the argument), so a
  merge that reads it writes it (`HighestWins`), and merges write no tombstones (`PureInv`). `KeptInv`
  says the record is in the MemTable or a live table at every moment: a thread removes its
  inputs only after its output is live one level lower (`LevelInv`: inputs are at the level
  compacted, so another thread with the same inputs cannot have that output among them), a
  flush clears the MemTable only after its table is live. And every live tombstone of the key is
  in a table numbered *below* all tables with the record, so the newest table that has the key
  has a value of it. Which value is open: an older one can be read (`stale_read`).

`OperationsProofs.tla`, for any number of operations and overlapping polls, any set of
scripted kinds, any size of a load and batch and any number of reloads, from
`ScriptedAssumption` (the kinds are those the code has), `BoundsAssumption` (bounds are
natural numbers) and `LoadAssumption` (a load and a batch are not empty). All safety
properties of the `operations` run are theorems: `TypeCorrect`, `ReloadRestoresRunning`,
`NothingForgotten`, `FullIsCompleted`, `CompletedIsOver` (invariants) and `CompletedStays` (an
action property). None but the first is inductive alone; `IInv` adds:

* `PollsName`, `Untouched`, `KindsApart`: requests in flight are about loads that were
  started, nothing is known of an operation that was not, scripts and polls do not mix;
* `NotPolledYet`, the heart of it: a load whose request awaits its answer has no interval,
  no poll in flight, and has not completed. So a late refusal (`LoadRefused`, which fails an
  operation whatever its status) never meets a completed one, and the generator cannot
  start for a load that is already shown as completed;
* `OrphansGone`: the request of a page that was reloaded belongs to an operation that was
  restored, or to none, so its arrival does not revive a completed one;
* `IdleAnswers`: between the moment a poll has found the generator idle and the moment its
  answer is looked at, the generator does not start for that operation again.

`CancelEffect`, `CompleteEffect` and `FailEffect` say once what the store's mutations do;
`SavedEntries` that the saved percentage `_hydrate` picks is the one shown; `FirstOf` that
the `find` of `cancelLoadOp` has an answer. Then there is a lemma for each part of `IInv` with
a step for each action that touches its variables, and `InitInv`, `StepInv`, `Invariance`.

`ClusterContextProofs.tla`, for any set of nodes that fail and any number of clicks, syncs
and lost requests, from `TargetsAssumption` (identifiers are numbers) and
`BoundsAssumption`. `IInv` conjoins the types with `DownAreTargets` (a node that is not
healthy is one that was made to fail, so it has timers) and `RecoveringIsAttended` itself.

* **`RecoveringAttended`**: a node becomes RECOVERING only in the step that sets its heal
  timer, and a heal timer that strikes makes every node of its id healthy. Nothing cancels
  the timers of an earlier failure, so they can strike a recovering node, but none of them
  makes a node RECOVERING; `UpdateEffect` and `TimerEffect` say
  what a strike and a set timer change.
* **`NodesKept`**: an answer cuts the list or appends to it (`ResizeEffect`).

`ClusterViewsProofs.tla`, with the same assumptions. **`PagesAlwaysAgree`** states that the
six conditions by which pages and badges judge the cluster are consistent. Each page counts
for itself; `CountType` and `AllHealthyMeans` reduce the counts to which states occur at
all, and `Verdicts` compares what is left. The types it needs come from
`ClusterContextProofs`, since `ViewIsContext` shows `ViewSpec => Spec`: the views add
variables and steps of their own, and otherwise step as the context does.

`ClusterPagesProofs.tla`, for any number of refreshes and requests in flight, snapshots, keys
and pushes, from `BoundsAssumption` and `KeysAssumption` (keys are angles).

* **`BusyAttended`**: every mark of progress is set in the step that sends its request in a
  free slot (`SendBusy`), a request that moves on keeps attending (`AdvanceBusy`), and one
  that ends takes the mark of its kind with it, be it its own or a later one's (two
  deletions): a mark may go too early, it never stays.
* **`OfflineFollows`**: the sizes the backend can report are 3 to 6, and `MockRing`, which the
  page draws offline, has that many nodes (`SettledCount`), so the invariant needs the range
  of every answer in flight (`SyncTypes`).
* **`KeysCounted`**: what is drawn is a ring of 3 to 6 nodes whatever came last, an answer, a
  push, the mock or a refresh (`RingTypes`), so some node that is up stands first from any angle
  (`FirstNode`) and each key has one owner among those that are up (`OwnerAmong`); a node more
  adds just the keys counted beside it (`KeysOfOneMore`). The sum is a recursive function of at
  most six steps: it exists since the counted sets are one (`TotalExists`).

`PanelsProofs.tla`, for any bounds and buffer sizes, from the assumptions of the pages. `IInv` is
a conjunction of one invariant for each panel with a theorem; since a step of one panel
leaves the variables of the others alone and no step changes the scene (`Life`), each is
shown on its own (`LogKept`, `MetricKept`, `StorageKept`, `FeedKept`, `OverlayKept`, `KeyKept`,
`TimelineKept`).

* **`LogIsShown`**, **`PausedIsDeaf`**: `LinkIsCurrent` ties the socket to the render whose
  handler it has: a page that is not mounted has no link, and the handler of an open one is
  deaf exactly if the page is paused *now*, which is not obvious for a handler that reads
  `paused` of an earlier render.
* **`LiveIsConnected`**: only the opening of the socket and a push over it set the mark, and
  every way for the socket to go takes it back.
* **`PhasesAreInOrder`**: at most one chain of timers runs, and its position is the phase
  (`StorageInv`).
* **`PanelStays`**: while the closing timer runs nothing is listed, because the effect of
  every render that lists something clears it (`RenderedInv`).
* **`PanelFollows`**: by its own induction, over the requests in the order of their arrival.
* **`LogIsKept`**: whoever writes to a buffer that holds something, but for the Clear button,
  appends one entry, and the cut keeps the newest that fit (`PushFits`, `NewestFits`,
  `LogKeeps`); leaving and visiting the page change nothing.
* **`TerminalLists`**: tokens fall one behind the other (`InOrder`: a later id is not further down)
  and all by the same step, so those that arrive in one frame are in order among themselves and
  after all that arrived before. The lines stay strictly decreasing, each token that arrived
  is listed or older than all lines of a full terminal (`Accounted`, `CutLines`), and a spawn
  drops the oldest tokens at most and adds one that is listed nowhere (`SpawnInv`).
* **`ReplayIsChosen`**: a replay is a position, which the recorder leaves alone while the
  snapshots move under it; the cut never makes the history shorter than it was, and there is
  none before it is full (`RecordKeeps`); an event the page asks for is a position of the
  history (`Listing`, `ReplayKeeps`).

The feed and the timeline filter their lists. `Picked` (`PageLife`) is that filter as a
recursive function on positions; `PickedInOrder` says what it returns, for every length, and is
proved by the least counterexample: `WFMin` gives the least element of a set of numbers
(`Least`), which takes the place of the induction theorems.

### Only model-checked

Every safety property of a passing run is a theorem, with the two hypotheses named above: the
`durability` and the `compaction` run have instances of them (no compaction thread; no foreign
record): with `Compactors = {}` every state is at rest. Liveness stays with TLC, since fairness is out of TLAPS's reach: `FlushGuardIsReleased`,
`LevelZeroIsCompacted`, `OperationsEnd`, `ActionsEnd`, `ListConverges`, `CountConverges`,
`RecoverySucceeds`, `RowsConverge`, `DiagramAgrees`, `LogsReconnect`, `StorageRests`, `NoticesEnd`, `PlaybackEnds`. So do the
counterexamples of the violation runs.

## 7. What is not modelled

* **Nodes**: the steps of a read, the cache and TTL; the copy and the restore of
  snapshots; the race of two threads inside the MANIFEST; replication, heartbeats, the
  client's failover and quorum reads; rebalancing and migration. Each is a model of its
  own, of the size of the storage engine's; section 2 gives the order.
* **Encodings and arithmetic**: hashes of the Bloom filter and of the nodes' ring,
  checksums, file formats, the API's rates (`main.py` stores the previous timestamp before
  it computes the compaction rate, which is therefore always 0: a line to read, not a
  behaviour to model).
* **Presentation**: layout, colours, drawing, drag and zoom; components nothing imports
  (`BloomFilterViz`, `CompactionAnimator`, `ReadPathAnimator`, `QueryTrace`, `ProgressPanel`,
  `NodeDistribution`, `CompressionCard`, `StatusBadge`, `metricsGenerator`); the Rebalancing page, which has no route; `scaleKeys` and
  `stepReplay`, which have no caller.
* Command line, benchmarks, examples, deployment, statistics that no decision reads.
