------------------------------ MODULE IndexStore ------------------------------
(***************************************************************************)
(* The stored index of ONE database of the server: its four files, the two *)
(* in-memory caches in front of them, the locks that order access to them, *)
(* and the requests that read and write them.                              *)
(*                                                                         *)
(*   HNSW_INDEX.bin, HNSW_INDEX_TEMP.bin, HNSW_INDEX.replica, metadata.json *)
(*   INDEX_CACHE, CHECKSUM_CACHE                  (server/controller.rs)   *)
(*   DB_WRITE_LOCKS[db], LOADING_LOCKS[db]        (server/controller.rs)   *)
(*   insert_run, embed_run, load_index_from_database  (service/indexer.rs) *)
(*   query_vector, query_search                       (service/queries.rs) *)
(*   get_index_by_page                                (service/page.rs)    *)
(*                                                                         *)
(* An action runs from one await of the Rust task to the next.  A crash of *)
(* the server may come between any two actions.                            *)
(*                                                                         *)
(* Data abstraction.  An index image is the set of batches inserted into   *)
(* it; a batch stands for the vector ids one request carries, so two       *)
(* requests with one batch carry the same ids.  The SHA-256 checksum of an *)
(* image is the image (no collisions), and metadata.json is the image its  *)
(* checksum was computed from.                                             *)
(***************************************************************************)
EXTENDS Naturals, FiniteSets

CONSTANTS
    Inserts,        \* POST /insert requests (insert_run)
    Embeds,         \* POST /embed requests (embed_run)
    Queries,        \* clients of query_vector
    Searches,       \* clients of query_search
    Pages,          \* clients of get_index_by_page
    Batch,          \* the id sets requests carry
    BatchOf,        \* the batch each write request carries
    Seed,           \* what the index holds at the start, unless it is new
    Origins,        \* how the files may look at the start, see Init
    SerialClients,  \* TRUE: clients send a write only when none is pending
    MaxCrashes,     \* bound on server crashes
    MaxFaults,      \* bound on failing file operations
    Absent,         \* no file, no cache entry, nothing loaded
    Torn,           \* a file whose contents were only partly written
    NoOne           \* a lock's holder when nobody holds it

Writer == Inserts \cup Embeds
Reader == Queries \cup Searches \cup Pages
Proc   == Writer \cup Reader
Image  == SUBSET Batch

\* A file that is there and complete.
Intact(file) == file \notin {Absent, Torn}

ASSUME RequestAssumption ==
    /\ Inserts \cap Embeds = {}
    /\ Writer \cap Reader = {}
    /\ NoOne \notin Proc
    /\ BatchOf \in [Writer -> Batch]

ASSUME ImageAssumption ==
    /\ Seed \in Image
    /\ \A i \in Image : i \notin {Absent, Torn}
    /\ Absent # Torn

ASSUME BoundAssumption ==
    /\ Origins \subseteq {"new", "existing", "restored"}
    /\ SerialClients \in BOOLEAN
    /\ MaxCrashes \in Nat
    /\ MaxFaults \in Nat

VARIABLES
    \* On disk
    bin,         \* HNSW_INDEX.bin
    temp,        \* HNSW_INDEX_TEMP.bin
    replica,     \* HNSW_INDEX.replica
    meta,        \* metadata.json
    counted,     \* the image the catalog's node_count was taken from
    \* In memory
    sumCache,    \* CHECKSUM_CACHE[db]
    indexCache,  \* INDEX_CACHE[db]: metadata and index store, or Absent
    lockWriter,  \* who holds the write guard of DB_WRITE_LOCKS[db]
    lockReaders, \* who holds a read guard of DB_WRITE_LOCKS[db]
    loader,      \* who holds the guard of LOADING_LOCKS[db]
    pc,          \* where each request is
    local,       \* the index each request has in its hands
    seen,        \* the metadata a read request got from disk
    \* Bounds
    crashes,
    faults,
    \* History
    committed,   \* every image that .bin has held as the current index
    served       \* the index the latest answer was computed from

diskVars  == <<bin, temp, replica, meta>>
cacheVars == <<sumCache, indexCache>>
lockVars  == <<lockWriter, lockReaders>>
boundVars == <<crashes, faults>>
histVars  == <<committed, served>>
vars == <<diskVars, counted, cacheVars, lockVars, loader, pc, local, seen,
          boundVars, histVars>>

-----------------------------------------------------------------------------
(* Control points.                                                         *)

LoadPoints    == {"ld_lock", "ld_read"}
RecoverPoints == {"rc_lock", "rc_meta", "rc_write", "rc_flush"}
InsertPoints  == {"lock", "apply", "meta", "flush", "rename", "copy", "snap",
                  "count"}
EndPoints     == {"acked", "failed", "lost"}
WriterPoints  == {"new"} \cup LoadPoints \cup RecoverPoints \cup InsertPoints
                   \cup EndPoints
ReaderPoints  == {"idle", "loading"} \cup LoadPoints \cup RecoverPoints
                   \cup {"readmeta", "putsum", "put"}

\* The points at which a request holds the database's write guard.
WriteGuarded == {"apply", "meta", "flush", "rename", "copy", "snap",
                 "rc_meta", "rc_write", "rc_flush"}

Cached == [meta : Image, store : Image]

TypeOK ==
    /\ bin \in {Absent, Torn} \cup Image
    /\ temp \in {Absent, Torn} \cup Image
    /\ replica \in {Absent, Torn} \cup Image
    /\ meta \in {Absent} \cup Image
    /\ counted \in Image
    /\ sumCache \in {Absent} \cup Image
    /\ indexCache \in {Absent} \cup Cached
    /\ lockWriter \in Proc \cup {NoOne}
    /\ lockReaders \in SUBSET Proc
    /\ loader \in Reader \cup {NoOne}
    /\ pc \in [Proc -> WriterPoints \cup ReaderPoints]
    /\ \A w \in Writer : pc[w] \in WriterPoints
    /\ \A r \in Reader : pc[r] \in ReaderPoints
    /\ local \in [Proc -> {Absent} \cup Image]
    /\ seen \in [Reader -> {Absent} \cup Image]
    /\ crashes \in 0..MaxCrashes
    /\ faults \in 0..MaxFaults
    /\ committed \in SUBSET Image
    /\ served \in {Absent} \cup Image

(***************************************************************************)
(* A database directory is empty until the first insert ("new"), holds all *)
(* files after one ("existing"), and holds only what the backup archive    *)
(* carried, replica and metadata, after a restore ("restored").            *)
(***************************************************************************)
Files(origin) ==
    CASE origin = "new" ->
           [bin |-> Absent, replica |-> Absent, meta |-> Absent,
            counted |-> {}]
      [] origin = "existing" ->
           [bin |-> Seed, replica |-> Seed, meta |-> Seed, counted |-> Seed]
      [] origin = "restored" ->
           [bin |-> Absent, replica |-> Seed, meta |-> Seed, counted |-> Seed]

Init ==
    /\ \E o \in Origins :
         /\ bin = Files(o).bin
         /\ replica = Files(o).replica
         /\ meta = Files(o).meta
         /\ counted = Files(o).counted
         /\ committed = IF o = "new" THEN {} ELSE {Seed}
    /\ temp = Absent
    /\ sumCache = Absent
    /\ indexCache = Absent
    /\ lockWriter = NoOne
    /\ lockReaders = {}
    /\ loader = NoOne
    /\ pc = [p \in Proc |-> IF p \in Writer THEN "new" ELSE "idle"]
    /\ local = [p \in Proc |-> Absent]
    /\ seen = [r \in Reader |-> Absent]
    /\ crashes = 0
    /\ faults = 0
    /\ served = Absent

-----------------------------------------------------------------------------
(* load_index_from_database: run by writers before they take the write     *)
(* guard, and by readers while they hold the loading lock.                 *)

\* Mutant of AfterLoad: whoever recovered the index goes on as a read request.
AfterLoadToRead(p) == "readmeta"

AfterLoad(p) == IF p \in Writer THEN "lock" ELSE "readmeta"

LoadLock(p) ==
    /\ pc[p] = "ld_lock"
    /\ lockWriter = NoOne
    /\ lockReaders' = lockReaders \cup {p}
    /\ pc' = [pc EXCEPT ![p] = "ld_read"]
    /\ UNCHANGED <<diskVars, counted, cacheVars, lockWriter, loader, local,
                   seen, boundVars, histVars>>

\* Mutant of LoadRead: the replica is preferred to .bin.
LoadReplicaFirst(p) ==
    LET found == IF Intact(replica) THEN replica ELSE bin IN
    /\ pc[p] = "ld_read"
    /\ lockReaders' = lockReaders \ {p}
    /\ local' = [local EXCEPT ![p] = IF Intact(found) THEN found ELSE Absent]
    /\ pc' = [pc EXCEPT ![p] = AfterLoad(p)]
    /\ UNCHANGED <<diskVars, counted, cacheVars, lockWriter, loader, seen,
                   boundVars, histVars>>

\* Mutant of LoadRead: the read guard is still held when recovery starts.
LoadKeepsGuard(p) ==
    LET found == IF bin # Absent THEN bin ELSE replica IN
    /\ pc[p] = "ld_read"
    /\ local' = [local EXCEPT ![p] = IF Intact(found) THEN found ELSE Absent]
    /\ IF bin = Absent /\ Intact(found)
         THEN /\ pc' = [pc EXCEPT ![p] = "rc_lock"]
              /\ UNCHANGED lockReaders
         ELSE /\ pc' = [pc EXCEPT ![p] = AfterLoad(p)]
              /\ lockReaders' = lockReaders \ {p}
    /\ UNCHANGED <<diskVars, counted, cacheVars, lockWriter, loader, seen,
                   boundVars, histVars>>

\* .bin is read when it exists; the replica is read only when .bin does not
\* exist, never when .bin cannot be deserialised.
LoadRead(p) ==
    LET found == IF bin # Absent THEN bin ELSE replica IN
    /\ pc[p] = "ld_read"
    /\ lockReaders' = lockReaders \ {p}
    /\ local' = [local EXCEPT ![p] = IF Intact(found) THEN found ELSE Absent]
    /\ pc' = [pc EXCEPT ![p] = IF bin = Absent /\ Intact(found)
                                 THEN "rc_lock" ELSE AfterLoad(p)]
    /\ UNCHANGED <<diskVars, counted, cacheVars, lockWriter, loader, seen,
                   boundVars, histVars>>

\* Mutant of RecoverLock: .bin is not looked for again under the guard.
RecoverWithoutRecheck(p) ==
    /\ pc[p] = "rc_lock"
    /\ lockWriter = NoOne
    /\ lockReaders = {}
    /\ lockWriter' = p
    /\ pc' = [pc EXCEPT ![p] = "rc_meta"]
    /\ UNCHANGED <<diskVars, counted, cacheVars, lockReaders, loader, local,
                   seen, boundVars, histVars>>

\* The index came from the replica: take the write guard, and write .bin
\* back unless somebody else did meanwhile.
RecoverLock(p) ==
    /\ pc[p] = "rc_lock"
    /\ lockWriter = NoOne
    /\ lockReaders = {}
    /\ IF bin # Absent
         THEN /\ pc' = [pc EXCEPT ![p] = AfterLoad(p)]
              /\ UNCHANGED lockWriter
         ELSE /\ pc' = [pc EXCEPT ![p] = "rc_meta"]
              /\ lockWriter' = p
    /\ UNCHANGED <<diskVars, counted, cacheVars, lockReaders, loader, local,
                   seen, boundVars, histVars>>

RecoverMeta(p) ==
    /\ pc[p] = "rc_meta"
    /\ meta' = local[p]
    /\ pc' = [pc EXCEPT ![p] = "rc_write"]
    /\ UNCHANGED <<bin, temp, replica, counted, cacheVars, lockVars, loader,
                   local, seen, boundVars, histVars>>

\* fs::write goes straight to .bin, not through a temporary file.
RecoverWrite(p) ==
    /\ pc[p] = "rc_write"
    /\ bin' = Torn
    /\ pc' = [pc EXCEPT ![p] = "rc_flush"]
    /\ UNCHANGED <<temp, replica, meta, counted, cacheVars, lockVars, loader,
                   local, seen, boundVars, histVars>>

RecoverFlush(p) ==
    /\ pc[p] = "rc_flush"
    /\ bin' = local[p]
    /\ sumCache' = local[p]
    /\ lockWriter' = NoOne
    /\ pc' = [pc EXCEPT ![p] = AfterLoad(p)]
    /\ UNCHANGED <<temp, replica, meta, counted, indexCache, lockReaders,
                   loader, local, seen, boundVars, histVars>>

\* A failed write back is logged, and the loaded index is used all the same.
RecoverFails(p) ==
    /\ pc[p] \in {"rc_meta", "rc_write", "rc_flush"}
    /\ faults < MaxFaults
    /\ faults' = faults + 1
    /\ lockWriter' = NoOne
    /\ pc' = [pc EXCEPT ![p] = AfterLoad(p)]
    /\ UNCHANGED <<diskVars, counted, cacheVars, lockReaders, loader, local,
                   seen, crashes, histVars>>

LoadIndex(p) ==
    \/ LoadLock(p)
    \/ LoadRead(p)
    \/ RecoverLock(p)
    \/ RecoverMeta(p)
    \/ RecoverWrite(p)
    \/ RecoverFlush(p)
    \/ RecoverFails(p)

-----------------------------------------------------------------------------
(* insert_run and embed_run.                                               *)

InFlight(w) == pc[w] \notin {"new"} \cup EndPoints

\* The request is validated against the catalog and refused, or goes on to
\* load the index.
Begin(w) ==
    /\ pc[w] = "new"
    /\ SerialClients => \A v \in Writer : ~InFlight(v)
    /\ \E next \in {"ld_lock", "failed"} : pc' = [pc EXCEPT ![w] = next]
    /\ UNCHANGED <<diskVars, counted, cacheVars, lockVars, loader, local,
                   seen, boundVars, histVars>>

AcquireWrite(w) ==
    /\ pc[w] = "lock"
    /\ lockWriter = NoOne
    /\ lockReaders = {}
    /\ lockWriter' = w
    /\ pc' = [pc EXCEPT ![w] = "apply"]
    /\ UNCHANGED <<diskVars, counted, cacheVars, lockReaders, loader, local,
                   seen, boundVars, histVars>>

\* The request ends in an error and its guard is dropped.
GiveUp(w) ==
    /\ lockWriter' = NoOne
    /\ pc' = [pc EXCEPT ![w] = "failed"]
    /\ local' = [local EXCEPT ![w] = Absent]

\* With nothing loaded the request starts from an empty index, HNSW::new.
BaseOf(w) == IF local[w] = Absent THEN {} ELSE local[w]

\* Mutant of Apply: an id that is there already is overwritten.
ApplyAnyId(w) ==
    /\ pc[w] = "apply"
    /\ local' = [local EXCEPT ![w] = BaseOf(w) \cup {BatchOf[w]}]
    /\ pc' = [pc EXCEPT ![w] = "meta"]
    /\ UNCHANGED <<diskVars, counted, cacheVars, lockVars, loader, seen,
                   boundVars, histVars>>

\* HNSW::insert refuses an id the index already holds.
Apply(w) ==
    /\ pc[w] = "apply"
    /\ IF BatchOf[w] \in BaseOf(w)
         THEN GiveUp(w)
         ELSE /\ local' = [local EXCEPT ![w] = BaseOf(w) \cup {BatchOf[w]}]
              /\ pc' = [pc EXCEPT ![w] = "meta"]
              /\ UNCHANGED lockWriter
    /\ UNCHANGED <<diskVars, counted, cacheVars, lockReaders, loader, seen,
                   boundVars, histVars>>

\* embed_run asks the embedding provider for the vectors under the guard.
FetchFails(w) ==
    /\ pc[w] = "apply"
    /\ GiveUp(w)
    /\ UNCHANGED <<diskVars, counted, cacheVars, lockReaders, loader, seen,
                   boundVars, histVars>>

\* write_to_disk: metadata.json is replaced, then TEMP is opened truncated.
WriteMeta(w) ==
    /\ pc[w] = "meta"
    /\ meta' = local[w]
    /\ temp' = Torn
    /\ pc' = [pc EXCEPT ![w] = "flush"]
    /\ UNCHANGED <<bin, replica, counted, cacheVars, lockVars, loader, local,
                   seen, boundVars, histVars>>

\* Mutant of FlushTemp: .bin is opened for writing before TEMP is complete.
FlushInPlace(w) ==
    /\ pc[w] = "flush"
    /\ temp' = local[w]
    /\ bin' = Torn
    /\ sumCache' = local[w]
    /\ pc' = [pc EXCEPT ![w] = "rename"]
    /\ UNCHANGED <<replica, meta, counted, indexCache, lockVars, loader,
                   local, seen, boundVars, histVars>>

\* Mutant of FlushTemp: INDEX_CACHE is filled before the rename.
FlushIntoCache(w) ==
    /\ pc[w] = "flush"
    /\ temp' = local[w]
    /\ sumCache' = local[w]
    /\ indexCache' = [meta |-> local[w], store |-> local[w]]
    /\ pc' = [pc EXCEPT ![w] = "rename"]
    /\ UNCHANGED <<bin, replica, meta, counted, lockVars, loader, local, seen,
                   boundVars, histVars>>

\* TEMP is complete; CHECKSUM_CACHE gets the checksum of the new index.
FlushTemp(w) ==
    /\ pc[w] = "flush"
    /\ temp' = local[w]
    /\ sumCache' = local[w]
    /\ pc' = [pc EXCEPT ![w] = "rename"]
    /\ UNCHANGED <<bin, replica, meta, counted, indexCache, lockVars, loader,
                   local, seen, boundVars, histVars>>

\* Mutant of Rename: no replica is made of the new index.
RenameWithoutReplica(w) ==
    /\ pc[w] = "rename"
    /\ bin' = temp
    /\ temp' = Absent
    /\ committed' = committed \cup {temp}
    /\ lockWriter' = NoOne
    /\ pc' = [pc EXCEPT ![w] = "count"]
    /\ UNCHANGED <<replica, meta, counted, cacheVars, lockReaders, loader,
                   local, seen, boundVars, served>>

Rename(w) ==
    /\ pc[w] = "rename"
    /\ bin' = temp
    /\ temp' = Absent
    /\ committed' = committed \cup {temp}
    /\ pc' = [pc EXCEPT ![w] = "copy"]
    /\ UNCHANGED <<replica, meta, counted, cacheVars, lockVars, loader, local,
                   seen, boundVars, served>>

\* fs::copy truncates the replica first and fills it from .bin.
CopyReplica(w) ==
    /\ pc[w] = "copy"
    /\ replica' = Torn
    /\ pc' = [pc EXCEPT ![w] = "snap"]
    /\ UNCHANGED <<bin, temp, meta, counted, cacheVars, lockVars, loader,
                   local, seen, boundVars, histVars>>

SnapReplica(w) ==
    /\ pc[w] = "snap"
    /\ replica' = bin
    /\ lockWriter' = NoOne
    /\ pc' = [pc EXCEPT ![w] = "count"]
    /\ UNCHANGED <<bin, temp, meta, counted, cacheVars, lockReaders, loader,
                   local, seen, boundVars, histVars>>

UpdateCount(w) ==
    /\ pc[w] = "count"
    /\ counted' = local[w]
    /\ pc' = [pc EXCEPT ![w] = "acked"]
    /\ local' = [local EXCEPT ![w] = Absent]
    /\ UNCHANGED <<diskVars, cacheVars, lockVars, loader, seen, boundVars,
                   histVars>>

\* Writing the index fails: the error is returned, the files stay as they are.
WriteFails(w) ==
    /\ pc[w] \in {"meta", "flush", "rename"}
    /\ faults < MaxFaults
    /\ faults' = faults + 1
    /\ GiveUp(w)
    /\ UNCHANGED <<diskVars, counted, cacheVars, lockReaders, loader, seen,
                   crashes, histVars>>

\* A failed replica copy is only logged.
ReplicaFails(w) ==
    /\ pc[w] \in {"copy", "snap"}
    /\ faults < MaxFaults
    /\ faults' = faults + 1
    /\ lockWriter' = NoOne
    /\ pc' = [pc EXCEPT ![w] = "count"]
    /\ UNCHANGED <<diskVars, counted, cacheVars, lockReaders, loader, local,
                   seen, crashes, histVars>>

\* So is a failed node_count update; the request succeeds.
CountFails(w) ==
    /\ pc[w] = "count"
    /\ faults < MaxFaults
    /\ faults' = faults + 1
    /\ pc' = [pc EXCEPT ![w] = "acked"]
    /\ local' = [local EXCEPT ![w] = Absent]
    /\ UNCHANGED <<diskVars, counted, cacheVars, lockVars, loader, seen,
                   crashes, histVars>>

Persist(w) ==
    \/ WriteMeta(w)
    \/ FlushTemp(w)
    \/ Rename(w)
    \/ CopyReplica(w)
    \/ SnapReplica(w)
    \/ UpdateCount(w)
    \/ WriteFails(w)
    \/ ReplicaFails(w)
    \/ CountFails(w)

InsertRun(w) ==
    \/ Begin(w)
    \/ LoadIndex(w)
    \/ AcquireWrite(w)
    \/ Apply(w)
    \/ Persist(w)

EmbedRun(w) ==
    \/ Begin(w)
    \/ LoadIndex(w)
    \/ AcquireWrite(w)
    \/ Apply(w)
    \/ FetchFails(w)
    \/ Persist(w)

-----------------------------------------------------------------------------
(* query_vector, query_search and get_index_by_page.                       *)

\* The checksum a cache entry is compared with: the one in memory, or the
\* one in metadata.json when none is in memory.
ChecksumOnDisk == IF sumCache # Absent THEN sumCache ELSE meta

CacheValid == indexCache # Absent /\ indexCache.meta = ChecksumOnDisk

Answer(image) == served' = image

\* First look into INDEX_CACHE: answer from a valid entry, or go and load.
CheckCache(r) ==
    /\ pc[r] = "idle"
    /\ IF CacheValid
         THEN /\ Answer(indexCache.store)
              /\ UNCHANGED pc
         ELSE /\ pc' = [pc EXCEPT ![r] = "loading"]
              /\ UNCHANGED served
    /\ UNCHANGED <<diskVars, counted, cacheVars, lockVars, loader, local,
                   seen, boundVars, committed>>

\* Mutant of RecheckCache: several requests load at the same time.
RecheckWithoutLoader(r) ==
    /\ pc[r] = "loading"
    /\ IF CacheValid
         THEN /\ Answer(indexCache.store)
              /\ pc' = [pc EXCEPT ![r] = "idle"]
         ELSE /\ pc' = [pc EXCEPT ![r] = "ld_lock"]
              /\ UNCHANGED served
    /\ UNCHANGED <<diskVars, counted, cacheVars, lockVars, loader, local,
                   seen, boundVars, committed>>

\* Second look, under the loading lock: another request may have loaded it.
RecheckCache(r) ==
    /\ pc[r] = "loading"
    /\ loader = NoOne
    /\ IF CacheValid
         THEN /\ Answer(indexCache.store)
              /\ pc' = [pc EXCEPT ![r] = "idle"]
              /\ UNCHANGED loader
         ELSE /\ pc' = [pc EXCEPT ![r] = "ld_lock"]
              /\ loader' = r
              /\ UNCHANGED served
    /\ UNCHANGED <<diskVars, counted, cacheVars, lockVars, local, seen,
                   boundVars, committed>>

\* The request is over: the loading guard and what it loaded are dropped.
Finish(r) ==
    /\ loader' = NoOne
    /\ pc' = [pc EXCEPT ![r] = "idle"]
    /\ local' = [local EXCEPT ![r] = Absent]
    /\ seen' = [seen EXCEPT ![r] = Absent]

\* metadata.json is read after the read guard of the load was dropped.
ReadMeta(r) ==
    /\ pc[r] = "readmeta"
    /\ IF meta = Absent
         THEN Finish(r)
         ELSE /\ seen' = [seen EXCEPT ![r] = meta]
              /\ pc' = [pc EXCEPT ![r] = "putsum"]
              /\ UNCHANGED <<loader, local>>
    /\ UNCHANGED <<diskVars, counted, cacheVars, lockVars, boundVars,
                   histVars>>

PutSum(r) ==
    /\ pc[r] = "putsum"
    /\ sumCache' = seen[r]
    /\ pc' = [pc EXCEPT ![r] = "put"]
    /\ UNCHANGED <<diskVars, counted, indexCache, lockVars, loader, local,
                   seen, boundVars, histVars>>

\* The answer is IndexNotFound if nothing was loaded; otherwise the pair of
\* metadata and index enters INDEX_CACHE and the answer comes from it.
PutIndex(r) ==
    /\ pc[r] = "put"
    /\ IF local[r] = Absent
         THEN UNCHANGED <<indexCache, served>>
         ELSE /\ indexCache' = [meta |-> seen[r], store |-> local[r]]
              /\ Answer(local[r])
    /\ Finish(r)
    /\ UNCHANGED <<diskVars, counted, sumCache, lockVars, boundVars,
                   committed>>

ReadIndex(r) ==
    \/ CheckCache(r)
    \/ RecheckCache(r)
    \/ LoadIndex(r)
    \/ ReadMeta(r)
    \/ PutSum(r)
    \/ PutIndex(r)

\* The three read handlers run the same protocol on the same caches, locks
\* and files; they differ in what they compute from the index.
QueryVector(r) == ReadIndex(r)
QuerySearch(r) == ReadIndex(r)
IndexByPage(r) == ReadIndex(r)

\* INDEX_CACHE is an LRU cache: entries for other databases push this one out.
Evict ==
    /\ indexCache # Absent
    /\ indexCache' = Absent
    /\ UNCHANGED <<diskVars, counted, sumCache, lockVars, loader, pc, local,
                   seen, boundVars, histVars>>

-----------------------------------------------------------------------------
(* The server process stops and is started again: memory is lost, files    *)
(* stay as they are, and no pending request is ever answered.              *)

Crash ==
    /\ crashes < MaxCrashes
    /\ crashes' = crashes + 1
    /\ sumCache' = Absent
    /\ indexCache' = Absent
    /\ lockWriter' = NoOne
    /\ lockReaders' = {}
    /\ loader' = NoOne
    /\ pc' = [p \in Proc |->
                IF p \in Reader THEN "idle"
                ELSE IF InFlight(p) THEN "lost" ELSE pc[p]]
    /\ local' = [p \in Proc |-> Absent]
    /\ seen' = [r \in Reader |-> Absent]
    /\ UNCHANGED <<diskVars, counted, faults, histVars>>

Next ==
    \/ \E w \in Inserts : InsertRun(w)
    \/ \E w \in Embeds : EmbedRun(w)
    \/ \E r \in Queries : QueryVector(r)
    \/ \E r \in Searches : QuerySearch(r)
    \/ \E r \in Pages : IndexByPage(r)
    \/ Evict
    \/ Crash

Spec == Init /\ [][Next]_vars

(***************************************************************************)
(* Fairness: the runtime polls every task that can make progress, so a     *)
(* pending request takes its next step (weak fairness), and tokio's locks  *)
(* serve their waiters in order, so a request that waits for one that is   *)
(* released again and again gets it (strong fairness).  Clients, failing   *)
(* file operations, eviction and crashes are under no obligation.          *)
(***************************************************************************)
TakesLock(p) ==
    \/ LoadLock(p)
    \/ RecoverLock(p)
    \/ p \in Writer /\ AcquireWrite(p)
    \/ p \in Reader /\ RecheckCache(p)

Proceeds(p) ==
    \/ LoadRead(p)
    \/ RecoverMeta(p)
    \/ RecoverWrite(p)
    \/ RecoverFlush(p)
    \/ p \in Writer /\ (Apply(p) \/ WriteMeta(p) \/ FlushTemp(p) \/ Rename(p)
                          \/ CopyReplica(p) \/ SnapReplica(p) \/ UpdateCount(p))
    \/ p \in Reader /\ (ReadMeta(p) \/ PutSum(p) \/ PutIndex(p))

FairSpec ==
    /\ Spec
    /\ \A p \in Proc : SF_vars(TakesLock(p)) /\ WF_vars(Proceeds(p))

-----------------------------------------------------------------------------
(* Properties.                                                             *)

Quiet == \A p \in Proc : pc[p] \in {"new", "idle"} \cup EndPoints

Recovering == \E p \in Proc : pc[p] = "rc_flush"

\* What the database holds: the index that the next load finds, or finds once
\* the replica has been written back.
Contents ==
    IF Intact(bin) THEN bin
    ELSE IF (bin = Absent \/ Recovering) /\ Intact(replica) THEN replica
    ELSE {}

\* A write that was answered with success is in the database from then on:
\* no later write, recovery, failed write or restart takes it out.
AckedDurable ==
    \A w \in Writer : pc[w] = "acked" => BatchOf[w] \in Contents

\* No index that was ever current is lost: what .bin (or the archive the files
\* were restored from) held is still in the database.
NothingLost == \A i \in committed : i \subseteq Contents

\* Ids are unique across requests, also when a client repeats a request whose
\* answer it never got: two requests with one batch are never both answered
\* with success.
AckedOnce ==
    \A v, w \in Writer :
        v # w /\ pc[v] = "acked" /\ pc[w] = "acked" => BatchOf[v] # BatchOf[w]

\* Every answer is computed from an index that was current at some time, never
\* from one that is being written or whose write failed.
CommittedReads == served # Absent => served \in committed

\* Answers never go back in time: what one answer was computed from is also in
\* every later one, whichever client asks, across evictions and restarts.
MonotonicReads ==
    [][served # Absent => served \subseteq served']_served

\* When no request is pending and no file operation failed, the files agree:
\* the replica the backups archive and the metadata describe the current
\* index, and no temporary file is left.
QuietDiskAgrees ==
    Quiet /\ crashes = 0 /\ faults = 0 =>
        /\ meta = replica
        /\ bin # Absent => bin = replica
        /\ temp = Absent
        /\ SerialClients => counted = Contents

\* When no request is pending, an index cache entry that passes the checksum
\* comparison holds the current index.
QuietCacheFresh ==
    Quiet /\ CacheValid => indexCache.store = Contents

\* Every request the server started on is answered.
RequestsEnd ==
    /\ \A w \in Writer : InFlight(w) ~> ~InFlight(w)
    /\ \A r \in Reader : pc[r] # "idle" ~> pc[r] = "idle"

-----------------------------------------------------------------------------
(* With clients that write one at a time, the files, caches and locks      *)
(* above implement the database their clients are promised.                *)

StatusOf(w) ==
    IF pc[w] \in {"copy", "snap", "count"} THEN "done"
    ELSE IF InFlight(w) THEN "pending" ELSE pc[w]

Promise == INSTANCE DurableIndex WITH
    Start      <- {{}, Seed},
    Unanswered <- Absent,
    index      <- Contents,
    status     <- [w \in Writer |-> StatusOf(w)]

\* Every behaviour of the server is one of the promised database: a write
\* takes effect at the rename of TEMP to .bin and at no other step, a refused
\* write has no effect, and every answer comes from the database no earlier
\* than the previous one did.
ImplementsPromise == Promise!Spec

===============================================================================
