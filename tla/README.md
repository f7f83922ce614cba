# Verification of blaze-db

TLA+ models of the BlazeDB server, checked with TLC, and theorems about them
proved with TLAPS. Paths below are relative to the repository (`src/` is its Rust
source directory).

## The system

BlazeDB is an HTTP server for vector databases. A *source* groups databases; a
database is a directory with an HNSW index and some metadata.

| Component | Code | State | Operations |
| --- | --- | --- | --- |
| Index store | `src/server/service/indexer.rs`, `src/utils/storage.rs` | `HNSW_INDEX.bin`, `HNSW_INDEX_TEMP.bin`, `HNSW_INDEX.replica`, `metadata.json` of each database | `insert_run`, `embed_run`, `load_index_from_database` (with recovery from the replica) |
| Read handlers | `src/server/service/queries.rs`, `page.rs` | `INDEX_CACHE` (LRU, 128), `CHECKSUM_CACHE` | `query_vector`, `query_search`, `get_index_by_page` |
| Global locks | `src/server/controller.rs` | `DB_WRITE_LOCKS`, `LOADING_LOCKS` (LRU, 4096 each) | get or insert, acquire, drop |
| Backup | `src/server/service/backup.rs`, `src/utils/storage.rs` | archives, the table of operation locks | trigger, restore, delete, list, clean up |
| Backup scheduler | `src/server/service/backup.rs` | interval per database | scheduled runs |
| Catalog | `src/core/config.rs`, `src/utils/storage.rs` | `SERVER_DATA.json` behind `SERVER_FILE` | add and remove sources and databases, node counts, access times |
| Creation | `src/server/service/database.rs`, `source.rs` | directories and catalog entries | create source, create database |
| HNSW graph | `src/core/hnsw.rs`, `src/core/search.rs` | nodes, layers, links, tombstones, entry point | insert, delete, search, reindex |
| Embedder | `src/utils/embedder.rs` | none (remote service) | fetch embeddings |
| Ingestor | `src/utils/ingestor.rs` | none | split a text into chunks |
| Server shell | `src/server/controller.rs`, `src/cli.rs`, `src/args`, `src/utils/log.rs` | monitor samples, log | routing, monitoring, shutdown, command line |

How they interact. Each request is a tokio task of its own. Writers and readers
meet on the files of a database, ordered by the database's lock in
`DB_WRITE_LOCKS`, and readers meet each other on the loading lock and the two
caches. Backup and restore touch the same files and `CHECKSUM_CACHE`, ordered
among themselves by the operation lock, and ordered with writers by nothing.
Writers, readers, restores and creation all update the catalog, each under the
lock of `SERVER_FILE`.

What is hard in it, and what makes each component correct:

* **Index store.** A write takes nine steps that other tasks, crashes and failing
  file operations may separate. It is correct when a successful answer means
  the vectors are in the database for good, when a failed or lost write leaves
  the old or the new index and nothing else, and when recovery never puts an old
  index over a newer one.
* **Read handlers.** A cache entry pairs an index with metadata from two
  unordered reads. Correct when no answer shows an unfinished or failed write,
  answers do not go back in time, and an entry that passes the checksum
  comparison is the current index.
* **Locks.** Correct when a request never waits for itself, every request ends,
  and one database never has two locks: the two LRU tables evict, the table of
  operation locks is cleaned up beside look-ups and the scheduler's probes.
* **Backup scheduler.** Correct when a database whose backup is due gets one,
  whatever skips it for a round, and never two at the same time.
* **Backup and restore.** Correct when operations on a database exclude each
  other, an archive holds one index that was current, and a restore is
  all-or-nothing and visible to the next query.
* **Catalog and creation.** A creation is a check, an entry, a save, a directory
  and, for a source, another save, with awaits, failures and crashes in between.
  Restores remove the directory of a database and make it again beside all that.
  Correct when what was acknowledged keeps its entry, and its directory but for what
  a restore of that database does, requests undo nothing another has done, and no
  directory comes before its entry.
* **HNSW graph.** Loops over heaps and lists of indices. Correct when, at every turn
  of them and after any sequence of insertions, deletions and reindexing, indices
  are in bounds, links go both ways and are no more than allowed, the entry point is
  on top, and searches end and answer with live ids only.

## Modules

| Module | What it is |
| --- | --- |
| `IndexStore` | one database's files, caches, locks, writers and readers |
| `DurableIndex` | what a database promises clients that write one at a time |
| `Backup` | backups, restores and deletions of archives, beside the requests of `IndexStore` |
| `LockTables` | how a lock is found: the LRU tables, the table of operation locks, the backup scheduler |
| `Catalog` | sources and databases: the map, its file, the directories, and the requests that change them |
| `HnswGraph` | the index in memory: insert, search, delete, reindex, pages |
| `VectorIndex` | what an index promises its callers |
| `MCIndexStore`, `MCBackup`, `MCLockTables`, `MCCatalog`, `MCHnswGraph` | these modules with constants for TLC |
| `IndexStore_proofs` | theorems that hold of every `IndexStore` |
| `IndexStoreDurable_proofs` | theorems for clients that write one at a time; `IndexStore` then implements `DurableIndex` |
| `Backup_proofs` | theorems that hold of every `Backup` |
| `BackupPromise_proofs` | until the first restore, `Backup` still implements `DurableIndex` |
| `LockTables_proofs` | theorems that hold of every `LockTables` |
| `Catalog_proofs` | theorems that hold of every `Catalog` |
| `HnswGraph_proofs` | theorems that hold of every `HnswGraph` |
| `HnswGraphRefinement_proofs` | its degrees, its answers, and that it implements `VectorIndex` |

`IndexStore` is the files and caches of one database; `Backup` composes it with the
operations on its archives. `LockTables` justifies that those two have one lock per
database (`RoomForAll`), `Catalog` that the database they speak of exists, and `HnswGraph` is the
index they read and write as one value.

### IndexStore

The variables are the files (`bin`, `temp`, `replica`, `meta`), the catalog's node
count (`counted`), the caches (`sumCache`, `indexCache`), the guards (`lockWriter`,
`lockReaders`, `loader`), and for each request a control point `pc`, the index in
its hands `local` and, for readers, the metadata it read `seen`. `committed` and
`served` are history variables.

| Action | Code |
| --- | --- |
| `LoadLock`, `LoadRead` | `load_index_from_database` up to the load; a `.bin` that cannot be read gives no index, the replica is tried only when there is no `.bin` |
| `RecoverLock`, `RecoverMeta`, `RecoverWrite`, `RecoverFlush`, `RecoverFails` | the write back of `.bin` from the replica |
| `Begin` | validation of a write request: refused, or goes on |
| `AcquireWrite`, `Apply`, `FetchFails` | the write guard, `HNSW::insert` with its check for ids already there, a failing embedding provider |
| `WriteMeta`, `FlushTemp`, `Rename`, `CopyReplica`, `SnapReplica`, `UpdateCount` | `write_to_disk`, `CHECKSUM_CACHE.insert`, the rename, the replica copy and end of the guard, the node count and the answer |
| `WriteFails`, `ReplicaFails`, `CountFails` | an error of a file operation: returned, or only logged |
| `CheckCache`, `RecheckCache` | the two looks into `INDEX_CACHE`, without and with the loading lock |
| `ReadMeta`, `PutSum`, `PutIndex` | the read of `metadata.json` after the load, the insertions in the two caches, the answer |
| `Evict` | the LRU cache drops the entry |
| `Crash` | the process stops and starts again |

An action runs from one await of the code to the next, or to the point where a
crash can be told apart. A file being written is `Torn` from its truncation to
its last byte. `metadata.json` is written through a temporary file and a rename,
so it is replaced in one step. Initially the database is *new* (no file),
*existing* (all files agree) or *restored* (replica and metadata from an archive,
no `.bin`), as `Origins` allows.

Abstractions. An index is the set of the batches in it; a batch is the id set of
a request. A checksum is the image it was computed from. What a reader computes
from an index (search, page) is not modelled, nor its access time in the catalog,
so the three read handlers run the same protocol. A write carries at least one
vector. `Crash` is a crash of the process: what was written is kept by the kernel
(there is no fsync of these files in the code). A client that
disconnects, and so cancels its handler, is not modelled here (`Catalog` and
`LockTables` have it), neither for a write nor, in `Backup`, for an operation.

### DurableIndex

A growing set of batches. `Commit` is the instant a write takes effect, `Ack` its
answer; `Refuse` has no effect; `Restart` leaves pending writes unanswered, taken
effect or not; `Query` answers from a state no older than that of the previous
answer. `IndexStore` maps `Contents` (what the next load finds or recovers) to
`index` and the control points to `status`; a write takes effect at `Rename`.

### Backup

`Backup` extends `IndexStore` with the archives of one database (`archives`), the
operation lock (`opHolder`), for each operation a control point `opPc` and the
archive it writes or reads (`hand`), the existence of the database's directory
(`dir`), and who has the replica open since it was created (`copiers`). The clock
gives archives their names. `latest`, `expected` and `clean` are history.

| Action | Code |
| --- | --- |
| `Start` | `try_acquire_op_lock`: an operation that finds the lock taken fails at once |
| `BackupCheck`, `BackupCopied`, `BackupMeta` | `execute_backup` up to the name of the archive, with the replica made from `.bin` when it is missing |
| `BackupReplica`, `BackupMetaFile`, `BackupRename` | `create_multi_file_backup`: the two files are read one after the other, the archive appears by a rename |
| `BackupClean`, `CleanFails` | `cleanup_old_backups`; its failure is only logged |
| `RestoreCheck` | what `restore_backup` checks before it touches the files |
| `RestoreRemove`, `RestoreRmdir`, `RestoreMkdir` | `remove_dir_all`, file by file in any order, and `create_dir_all` |
| `RestoreReplica`, `RestoreFill`, `RestoreMeta` | `tar_archive.unpack`: a file is created empty, then filled |
| `RestoreReload` | the checksum under a key nobody else uses, the node count |
| `DeleteArchive` | `delete_backup` |
| `OperationFails` | any other failing file operation |
| `BackupCrash`, `Tick` | the process stops and starts again; a second passes |

Neither operation takes the lock of the database (`is_write_in_progress` always
answers false), so a restore removes files under running requests. `Request`
therefore takes a step of `IndexStore` when the files it needs are there
(`RequestUndisturbed`), and one of `LoadNothing`, `RecoverRefused`,
`RecoverUnseen`, `FlushUnseen`, `WriteRefused`, `CopyNothing`, `ReadTornMeta` when
they are not: the code's error path, or a write that goes on into a file that is
no longer in the directory. `OpenCopy` and `CloseCopy` stand in for the replica
copy of `IndexStore`, because a restore or a backup may write the replica at the
same time: who opened it before it was removed writes unseen, and two who have
it open at once may leave it torn.

Abstractions. The temporary file of an archive is not modelled; it is never read.
Reading the replica for an archive is instantaneous and gives an image or `Torn` (an
archive of a replica that is being copied is one that cannot be loaded). A backup
triggered by a client and a scheduled one are the same operation. The schedule times
that a backup stores in the catalog are in `Catalog` and `LockTables`, and what happens
when that update fails is left out, as is a failing update of the node count in
`restore_backup`. The client's choice of an archive is any there is; a name that does
not exist is refused. A handler that is dropped while it backs up or restores gives the
operation lock back at once, while the packing (`create_multi_file_backup`) or unpacking
(`restore_database_backup`, `src/utils/storage.rs:1180`) that it has handed to
`spawn_blocking` goes on, so that the next operation meets it on the same files: `Drop`
of `LockTables` and `LateChange` of `Catalog` have the lock and the directory, what
becomes of the files is not modelled.

### LockTables

A behaviour is about one `table`: the operation locks of backup, restore and deletion
(`op_locks`), or an LRU table (`DB_WRITE_LOCKS`; `LOADING_LOCKS` is the same with
exclusive users only). `lockOf` is its content, `newer` the order of its LRU list.
Each task has a control point `pc`, the database `db`, the lock it cloned `clone`, and
`since`, a history variable: the other keys looked up since its own lookup. The
scheduler has the `queue` of databases of the round, the one it is testing (`probed`),
and `due`.

| Action | Code |
| --- | --- |
| `LookUp` | `get_or_insert_mut` with its eviction of the least recent key |
| `Get`, `Create` | `get_or_create_lock`: a look under the read lock, a second one under the write lock |
| `Take`, `Refuse` | waiting for the lock, or `try_acquire_op_lock` that finds it taken |
| `Release`, `Drop` | the end of a request, with the guard and the clone; a client that goes away, while its handler waits for the lock or works under it |
| `Tick` | a round of `run_scheduled_backups`: the databases that are due and not turned off |
| `Probe`, `Schedule` | `is_operation_in_progress`, which takes the lock for an instant, and the spawned task |
| `Cleanup` | `cleanup_unused_locks`, in any round instead of every hundredth |
| `FallDue` | hours pass |

Locks are addresses and a freed one is used again, the lowest first. Time is abstract,
with one assumption on it: rounds are five minutes apart, so a task spawned in one has
made its only attempt at the lock by the next. `Workers` bounds the scheduled backups
that run at once.

### Catalog

`mem` is the map in `SERVER_FILE`, `lock` its writer, `disk` and `stored` the file
`SERVER_DATA.json`, `dirs` the directories, `process` what is running. Each request has
a control point, what it asks for, the clone of a source it works on (`copy`) and its
answer; `late` holds the directories still being made or removed for requests that
were dropped.

| Action | Code |
| --- | --- |
| `Submit` | the handlers up to the lock; an interval below -1 is refused |
| `Lock`, `Read` | the write lock; the checks for duplicates and validity, and the clone |
| `Insert`, `Write` | `DataStore::insert`: the map, then the file, truncated and written; each half may fail |
| `Mkdir` | `create_dir_all` under the lock; for a source a second `Insert` and `Write` with its interval |
| `Find` | `restore_backup` up to its first change: refused beside another restore (`Operated`), without the directory, or for a reason of `Backup` |
| `Remove`, `Remake` | `remove_dir_all` and `create_dir_all` of `restore_database_backup`, the unpacking, and what follows it: an error, nothing, or the node count, for which it asks for the lock |
| `Drop`, `LateChange` | a handler dropped where it awaits, and the `create_dir_all` or `remove_dir_all` that goes on |
| `StartInit`, `StartServing` | `init_run_server`, `serve_run`: the file is loaded, or does not parse |
| `Exit`, `Crash` | the process ends, in order or not |

Requests are creations of sources and databases, the three updates of an entry (the node
count after a write, the time of the last use, the schedule after a backup) and
restores, which take a directory away before they update theirs (`Kinds` is what a run
has of these four). Which of the requests not yet sent is the next one makes no
difference, so it is one of them (`Unsent`). The model shows three things the code does
and no document speaks of: a source whose directory could not be made is neither valid
nor can it be created again; a crash while the file is written leaves one that no
process starts with; and a restore that fails, is dropped or crashes between the removal
of the directory and its making (`src/utils/storage.rs:1162`, `1171`) leaves an entry
without directory, which nothing repairs: to create the database again is a conflict,
and another restore does not find it on disk. `AckedUsable` therefore speaks of the
directory only where no restore of the database is between the two or was cut short
(`CutShort`). A failed removal, which may leave some of the files, is one that leaves
the directory. A bad interval is answered with 400 by `create_database` and with 500 by
`create_src` (`Refusal`). One process at a time uses the file; nothing in the code stops
a second.

Abstractions. Times and ids are the requests that set them. `vector_bases` is a set.
Functions of the catalog without a caller are left out: removing sources and databases,
`sync_sources`, `reload`, `batch_insert`, `clear`.

### HnswGraph

The graph is `nodes` (id, top layer, tombstone), `links`, `entry` and `mapper`. An
operation under way has a `phase` and the variables of its loops: `layer`, `cur`, the
heaps `open` and `found`, `visited`, the neighbours still to look at (`frontier`), the
neighbours still to connect (`todo`).

| Action | Code |
| --- | --- |
| `InsertFirst`, `InsertNext` | `insert` up to the search for neighbours: the node and its mapping come first |
| `GreedyMove`, `GreedyDone` | a round of `search_layer_greedy` |
| `BeginLayer`, `Pop`, `Look` | `search_layer_knn`: a candidate is popped, a neighbour is looked at |
| `Select`, `Connect`, `NextLayer`, `FinishInsert` | the links of the new node, one neighbour at a time, with `prune_connections` |
| `Search`, `SearchEmpty`, `Answer`, `Widen` | `search` and its loop that widens `ef` and starts again |
| `SearchAll` | `brute_force_search`, which the handlers use for small indexes |
| `Delete`, `Reindex` | `delete_node_by_id` with `set_new_entry_point`, `reindex` |
| `Served`, `TotalPages`, `Page` | `compute_page` and the pages of `get_index_by_page`, read in every state |

Distances are data: `Similarity` is any function to integers, and where the code orders
equals by accident, any order is allowed. The random level of a node is any level.
`ef` grows by 1.57575 as the code's does, in integers. The server inserts and searches;
`delete_node_by_id` and `reindex` are public functions of the library that no endpoint
calls. Callers never pass an `ef`, so `search` starts from its default.

What is not claimed: that a search finds every live node. Pruning drops links in both
directions and may cut live nodes off. `ShortAnswerComplete` says what remains true of
a short answer, and `ExactWhenSmall` that nothing is missed while there is nothing to
prune.

### VectorIndex

A set of members and a set of spent ids. `Insert`, `Delete`, `Compact` change them, a
search answers with members, at most as many as asked for and one at least if there is
any. `HnswGraph` maps its live nodes, without the one being inserted, to the members.

## Runs

| Run | Instance | Checks |
| --- | --- | --- |
| `index_serial` | an insert and an embed, one after the other, one reader of each kind, all origins, no crash or fault | `TypeOK`, `QuietDiskAgrees`, `MonotonicReads`, `ImplementsPromise` |
| `index_crash` | two inserts with the same ids, an embed, a reader, new and existing database, 2 crashes, 1 fault | `AckedDurable`, `NothingLost`, `AckedOnce`, `CommittedReads`, `ImplementsPromise` |
| `index_live` | an insert and two readers at the same time, new and restored database, 1 crash, 1 fault | `RequestsEnd` |
| `index_lost_update` | an insert and an embed at the same time | `AckedDurable` is violated |
| `index_stale_cache` | an insert and a query | `QuietCacheFresh` is violated |
| `index_torn_recovery` | a restored database, an insert, a query, 1 crash | `NothingLost` is violated |
| `backup_race` | an insert, two backups, a restore, a deletion, new and existing database, two seconds, one archive kept, 1 crash, 1 fault | `BackupTypeOK`, `ArchivesCommitted`, `RetentionKeeps`, `KeepsPromise` |
| `backup_read` | an insert, a query, two backups, a restore, one archive kept, 1 crash | `CommittedReads`, `ArchivesAgree`, `RestoredExactly` |
| `backup_stale_cache` | an insert, a query, a backup, a restore | `RestoreServed` is violated |
| `locks` | three databases, room for two, two writers, two loaders, two operations, two scheduled backups, one failing backup | `TypeOK`, `OneLock`, `Exclusive`, `DueBackedUp`, `CallsEnd` |
| `catalog` | two sources, one name, three requests (creations, schedules, restores), a new or a used installation, 1 crash, 1 fault | `TypeOK`, `AckedUsable`, `AckedDurable`, `OneOwner`, `DirsListed`, `FileCurrent`, `FieldsKept`, `RequestsEnd` |
| `graph` | four ids on a line, one query, three configurations, pages of two | `TypeOK`, `LinksSound`, `DegreeBounded`, `EntryTop`, `MapperAgrees`, `ShortAnswerComplete`, `ExactWhenSmall`, `PagesComplete`, `OperationEnds`, `ImplementsIndex` |

*What they show.* For clients that write one at a time, and as long as no restored
database crashes before its first load is done, the store keeps its promise: it
is a refinement of `DurableIndex`. Each of the three violations drops one of the
conditions or asks for more:

* `index_lost_update`: two clients write at once. The index is loaded before the
  write guard is taken (`src/server/service/indexer.rs:117`, `137`), so the guard
  orders the file writes but not the updates, and an acknowledged batch goes.
* `index_torn_recovery`: `.bin` is written back in place
  (`src/server/service/indexer.rs:534`). After a crash there the torn `.bin` exists,
  so the replica is never looked at again.
* `index_stale_cache`: a reader caches the index it loaded before a write under the
  metadata it read after it (`src/server/service/queries.rs:269`, `272`). The entry
  passes every later comparison. `MonotonicReads` still holds: such an entry hides
  a new write but never takes back an answer.

For backups and restores: until the first restore gets hold of an archive, backups and
deletions do not show; the database keeps the promise of `DurableIndex` beside them
(`KeepsPromise`; a restore takes back what was answered, so nothing of the kind can hold
after one, and `RestoredExactly` takes over). An archive never holds an unfinished or failed write,
answers neither, whatever overlaps or crashes. What depends on the absence of
overlap says so (`clean`): a backup beside a write may archive a torn replica, or
pair an old index with new metadata, although the comment at
`src/server/service/backup.rs:316` to `320` promises a consistent snapshot beside
writes, and a restore beside a write, or one that
crashes or fails, may end with an empty database or a mixture. The comments at
`src/server/service/backup.rs:478` to `485` call the replacement atomic; it is not,
and `RestoredExactly` claims nothing there. Without overlap a restore gives exactly
the archive, except for one thing:

* `backup_stale_cache`: `restore_backup` handles the checksum under
  `source:database` (`src/server/service/backup.rs:547`, `557`), all others under
  `source_database`. The old checksum stays and validates the cached index of
  before the restore, which goes on being served.

For the locks: a miss, a clean-up or a probe never leads to two locks for one database,
and an LRU table leads to one only after as many other databases as it has room for
were looked up while a lock was in use (`Lasting` states this, and the code gives no
more). A database whose backup is due gets it although rounds skip it, requests take
its lock first and backups fail. For the catalog: what was acknowledged keeps its entry,
through racing, failing and dropped requests, crashes and restarts; its directory stays
too, unless a restore of that very database has removed it and has yet to make it again,
or was cut short. For the graph: it is sound
at every turn of every loop, whatever was inserted, deleted and reindexed before.

*Bounds.* Two writers are what a lost update, a stale load and a recovery race
need; the third request in `index_crash` is the retry. Two readers are needed for
the loading lock, and the run has three. Two crashes let one interrupt the
recovery from the other. For backups, two of them with one archive kept make
retention delete, two seconds let them have one name or two, and a restore needs a
backup before it and meets another one, the write and the query. Three databases with
room for two locks are what an eviction needs, two users of each kind what exclusion
needs; of the three, one inherits its interval, one has it turned off by its source and
one by itself. Three requests on a catalog are two that race for a name and one that
changes what they made, or a creation and two restores; two sources keep a lost update
apart from one that has nothing to lose; the node count after a write and the time of the last use alone are left
out of `Kinds`, because a restore ends with setting both (the theorems include them). Four nodes let a new one be connected to several that prune, two layers let
an entry point above others be deleted; the three configurations are one neighbour on
two layers, two neighbours, and nothing to prune; `EfMultiplier` is 1 so that the
search has to widen. `MaxCrashes`, `MaxFaults`, in `Backup` `MaxClock` and in
`LockTables` `Locks` and `Workers` are the only bounds on behaviours: requests are sent
once and readers ask again and again, and the graph runs on for ever over its ids.

*Fairness* (`FairSpec`). A task that can take a step takes one: weak fairness,
since the tokio runtime polls every woken task. Locks: strong fairness, since
tokio's `RwLock` and `Mutex` queue their waiters in order of arrival, so one that
waits for a lock that is freed again and again gets it. Nothing is assumed of
clients, eviction, faults and crashes. In `HnswGraph` an operation that was called runs
on (weak fairness of `Step`). In `LockTables` the scheduler's rounds take place, tasks
run, and a task that waits to write under the table's lock is served in turn with its
readers (strong fairness of `Create`); no request's lock needs more than weak fairness,
because requests are sent once.

*Deadlock* is checked in all passing runs; readers can always ask again, so in
`index_live` a deadlock among some requests is found by `RequestsEnd` instead.
`IndexLostUpdate.cfg` and `BackupRace.cfg` have no reader and so may stop;
`BackupStaleCache.cfg` looks for one violation only; in `Catalog.cfg` and
`LockTables.cfg` requests are sent once, and that those under way end is
`RequestsEnd` and `CallsEnd`.

## Proofs

The theorems about `IndexStore` and `Backup` hold for every set of requests and
batches and every value of the bounds, from `RequestAssumption` (request kinds are disjoint), `ImageAssumption`
(markers are no images) and `BoundAssumption`.

* `Typing`: `Spec => []TypeOK`, by way of `BaseInv`. Types alone are not inductive:
  what a request writes has a type because of where the request is (`CarryInv`),
  and that nobody else moves it follows from the guards (`LockInv`).
* `ReadsAreCommitted`: `Spec => []CommittedReads`, with **no** condition on clients,
  crashes or origins. `HistoryInv` follows an image from `.bin` or the replica
  through hands and caches to the answer. The replica needs care: it may be torn or
  old, but when it is used there is no `.bin`, and then it is an image that was
  current.
* `AckedWritesAreDurable`, `NothingIsLost`, `WritesTakeEffectOnce`: `AckedDurable`,
  `NothingLost` and `AckedOnce` under `OneAtATime` (clients write one at a time; if
  the files may be restored ones, no crashes and faults: the conditions the
  violations above show to be needed). The inductive invariant `DurableInv` says
  that the one writer carries exactly what the database holds (`HandInv`), and
  that `.bin` is torn or missing only while the replica, which equals what the
  recovering request carries, stands in for it (`RecoverInv`). The lemmas of the
  first section of `IndexStoreDurable_proofs` single out `Rename` as the only step
  that changes `Contents`.
* `QuietAlwaysAgrees`: `QuietDiskAgrees`, for all clients. `CalmInv` says how the files
  stand at every point of the guard's holder (`FilesInv`), that a recovery writes back
  what the replica holds (`BackInv`) and, when clients write one at a time, how what
  the writer carries counts against what the database holds (`CountInv`).
* `NoCircle` and `RequestsGoOn`, for all clients, crashes and faults: what `RequestsEnd`
  comes down to beside fairness. A request waits only for `Blockers`; the holder of a
  guard of the database lock waits for nobody, and the holder of the loading guard at
  most for such a one (from `LockInv`), so there is no circle, in particular none of a
  recovery with its own read guard. And no step sends a request back to a point it has
  passed (`Ahead`).
* `ReadsAreMonotonic`: `MonotonicReads` under `OneAtATime`. `OrderInv` orders answer,
  cache entry, load in progress and database by inclusion.
* `StoreImplementsPromise`: `ImplementsPromise` under `OneAtATime`. Each action is
  `Submit`, `Commit`, `Ack`, `Refuse`, `Restart` or `Query` of `DurableIndex`, or
  invisible.

* `BackupTyping`, `BackupCommittedReads`, `BackupArchivesCommitted`:
  `BackupSpec => []P` for `BackupTypeOK`, `CommittedReads` and `ArchivesCommitted`,
  for any number of requests, operations, crashes and faults, with the additional
  assumptions `OperationAssumption` (operations are disjoint from each other and
  from requests) and `ArchiveAssumption` (the marker for no archive is no archive).
  `FrameInv` adds to the types who holds which guard, what a request carries, and that
  a backup finds the files it checked for, because only a restore removes files and the
  operation lock keeps it away (`ArchivableInv`).
  `StoredInv` follows images that were current through files, hands, copies of the
  replica, archives and caches; it needs `HandsInv` at `Rename`: TEMP, if a restore
  did not remove it, is what the request wrote.
* `RetentionAlwaysKeeps`: `RetentionKeeps` in all behaviours. No archive is younger than
  the one being made (`NamesInv`), so sorting by name puts it first; `FewKept` counts
  what the clean-up leaves.
* `ArchivesAlwaysAgree` and `RestoresAreExact`: `ArchivesAgree` always, `RestoredExactly`
  under `SerialClients` (two writers at once lose an update, as `index_lost_update`
  shows, and the database then misses something written since the restore).
  Both speak of runs in which nothing crashed, failed or ran beside an operation;
  `CleanInv` describes these. Beside an operation that has the database to itself nobody writes (`NobodyWrites`); `GuardedFiles` and
  `OperatedFiles` say how the files stand at each point of a request and of an
  operation, `ExpectedInv` how what a writer carries and what is expected of the
  database stand to the files.

* `BackupsKeepPromise`: `KeepsPromise` under `OneAtATime`, and `BackupsLoseNothing`, that
  `AckedDurable`, `NothingLost` and `AckedOnce` hold as long. Backups share no lock
  with the requests, so this is no consequence of mutual exclusion. The proof composes
  the two modules: until the first restore every step of `BackupNext` is a step of
  `IndexStore`, or writes the replica while `.bin` is whole (`Beside`), or ends a copy
  of `.bin` to a replica that somebody else writes as well (`CopyEnds`); the last two
  are invisible to clients and keep the invariants of `IndexStore`. The inductive
  invariant `KeptInv` is those invariants and what the files look like to operations
  (`UntouchedInv`): the directory and TEMP stay, `.bin` is whole while a backup copies
  it, and no archive has a torn `metadata.json`, by which the proof tells a restore that
  has its archive from one that has not. `WholeBin` is the crux: a backup makes a replica
  only where there is none, and a `.bin` without a replica is whole, because
  `load_index_from_database` writes `.bin` back only from a replica.

* `TypesAlways`, `OneLockAlways`, `ExclusiveAlways` of `LockTables_proofs`: `TypeOK`,
  `OneLock` and `Exclusive` for any number of tasks, databases and any capacity, from
  `TaskAssumption` and `TableAssumption`. `OneLock` alone is not inductive: an eviction
  keeps it because the keys more recent than a task's key were all looked up since its
  own lookup (`AgeInv`), so a key that is the least recent of too many no longer lasts.
  `ApartInv` says that a lock has one holder, or holders that share it; with `OneLock`
  it gives `Exclusive`.
* `RoomForAll`: `Exclusive` without its condition when there are no more databases than
  `Capacity`. What was looked up since a task's lookup are other databases than its own
  (`OwnInv`), so there are fewer of them than the table has room for.
* `TypesAlways`, `AckedAlwaysUsable`, `AckedAlwaysDurable`, `OneOwnerAlways`,
  `DirsAlwaysListed`, `FileAlwaysCurrent`, `FieldsAlwaysKept` of `Catalog_proofs`, for
  any number of sources, names, requests, crashes and faults, from `NameAssumption` and
  `CatalogBounds`. `CatalogAlways` is the inductive invariant: `FrameInv` adds to the types
  who holds `SERVER_FILE` and which requests get where, `LateInv` that a removal still to
  come is one of a restore that was dropped, `WorkInv` says how the holder's
  clone, the map and the file stand to each other at each of its points, `ListInv` that
  every directory there is, is being made or is being restored (`Places`) is listed in map
  and file, `BareInv` that an unknown source has no databases. `SettledInv` adds
  the agreement of file and map between requests. For `AckedUsable` directories need an
  argument of their own: a step takes one only for a restore that is then between its
  removal and its making, or was dropped (`DirsGo`); a restore leaves the first of these
  with the directory made or cut short (`RemakeEnds`), and the answer of one that was cut short is
  final (`PastStays`), so what excuses a missing directory goes on to do so
  (`DirStaysKept`). A source's directory is never excused (`RootsStay`).
* `LockAlwaysHeld` and `RequestsGoOn` of `Catalog_proofs`: what the catalog's `RequestsEnd`
  comes down to beside fairness. A locked `SERVER_FILE` has a holder that waits for
  nothing (from `GuardInv`), and no step sends a request back or changes its answer.
* `TypesAlways`, `LinksAlwaysSound`, `EntryAlwaysTop`, `MapperAlwaysAgrees` of
  `HnswGraph_proofs`, for any ids, similarity and parameters, from `VectorAssumption`
  and `ParameterAssumption`. The invariant `BaseInv` carries, beside the four, what each
  loop has in hand (`ControlInv`: the nodes in the heaps and lists are live and not the
  one being inserted) and that the new node has links only on layers already connected
  (`FreshInv`).
* `DegreeAlwaysBounded`: while a new node is being connected, its own links and those
  still to be made are together no more than allowed, because the neighbours selected
  are. `GraphImplementsIndex`: `ImplementsIndex`, with `AnswerInv` for what a search has
  found when it answers.
* `PagesAlwaysComplete`: the arithmetic of pages leaves out no node and shows none twice.
* `ShortAnswersComplete`: `ShortAnswerComplete`. An answer is short only if
  the search was widened to the number of nodes. Then no result was dropped, and the
  neighbours of every node explored were looked at (`SweepInv`, with the widths in
  `WidthInv`).
* `SmallAlwaysExact`: `ExactWhenSmall`, for a finite set of ids. As long as no list of
  links had to be pruned all nodes are linked with each other on the bottom layer
  (`DenseInv`), so the walk there sees every node; `BestOfBest` is why keeping the best
  at each step keeps the best of all.
* `EveryTurnCounts` and `NeverStuck`: what `OperationEnds` comes down to beside fairness.
  Each `Step` lowers `Remaining`, six natural numbers in the order of dictionaries: a
  search that starts again has less to widen (`Slack`), a layer or a loop is left for the
  next, the descent has fewer nodes above it, the exploration fewer it has not visited,
  or fewer candidates. A search that starts again does get wider, although a width of one
  times 1.57575 is one again: it found fewer than it was asked for, but never nothing,
  so it was asked for two or more (`WidenFacts`).
  `NeverStuck` says that the guards of `Step` leave no point out (`CanTurn`): finitely many
  nodes have a nearest and a furthest (`Extremes`), and a list can be cut to any length
  (`BestExists`).

Every invariant, action property and refinement that a passing run checks is thus a
theorem. Only model-checked are `RequestsEnd` (of the index and of the catalog),
`DueBackedUp`, `CallsEnd` and `OperationEnds`, because liveness is out of the prover's
reach; of both `RequestsEnd` and of `OperationEnds` all but the use of fairness is
proved. The invariants of the proofs were run through TLC as invariants of the
instances of the passing runs before they were proved.

## Plan

Done, in this order: `IndexStore` and `DurableIndex`, `Backup`, `LockTables`, `Catalog`,
`HnswGraph` and `VectorIndex`, each with its proofs.

Left:

1. `AbandonedWrite`: a cancelled write handler whose `fs::write` of `HNSW_INDEX_TEMP.bin`
   goes on beside the next writer's, over the files of `IndexStore`.
2. Crashes that lose what was not synced.
3. Two databases whose names make one cache key.

## Not modelled

* HTTP routing, the translation of results to status codes (but for the creation
  handlers), logging, the command line and the benchmarks: they hold no state the
  databases depend on. The system monitor samples into a map of its own.
* The text ingestor: a function of the lengths of words and lines that only the
  command line client uses.
* The embedding provider, an external service: that it fails is `FetchFails`; how its
  answer is cut into vectors is data.
* Distances, vectors, embeddings, metadata texts and their matching in `query_search`.
* A crash that loses what was not synced, a client that goes away during a write of the
  index and, as far as files go, during a backup or a restore, two processes with one catalog, two databases with one cache key: see the
  hazards in `PROJECT.json`.
* Functions without a caller: `remove_source`, `remove_vector_base`,
  `update_vector_base`, `sync_sources`, `reload` and the like of the catalog,
  `create_directory_backup`.
* The sandbox directory, which is not part of the server.

## Running

    tlc -config IndexSerial.cfg MCIndexStore.tla     # each cfg names its run
    tlapm IndexStore_proofs.tla
    tlapm IndexStoreDurable_proofs.tla
    tlc -config BackupRace.cfg MCBackup.tla
    tlapm Backup_proofs.tla
    tlapm BackupPromise_proofs.tla
    tlc -config LockTables.cfg MCLockTables.tla
    tlapm LockTables_proofs.tla
    tlc -config Catalog.cfg MCCatalog.tla
    tlapm Catalog_proofs.tla
    tlc -config HnswGraph.cfg MCHnswGraph.tla        # about two minutes
    tlapm HnswGraph_proofs.tla
    tlapm HnswGraphRefinement_proofs.tla
