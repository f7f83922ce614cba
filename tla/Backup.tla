-------------------------------- MODULE Backup --------------------------------
(***************************************************************************)
(* Backups of one database, restores from them and their deletion          *)
(* (server/service/backup.rs), on top of the files, caches and requests of *)
(* IndexStore.  Operations exclude each other through the database's       *)
(* operation lock, but share no lock with the requests, whose files a      *)
(* restore removes under them: every step of a request is the one of       *)
(* IndexStore if the files it needs are still there, and the matching      *)
(* action of the section "Requests whose files are gone" if not.           *)
(*                                                                         *)
(* A file that is removed while it is written is written on, unseen, by    *)
(* the one who has it open.  Archives are named for the second they were   *)
(* begun in, so their names order them by age.                             *)
(***************************************************************************)
EXTENDS IndexStore

CONSTANTS
    Backups,        \* backups, triggered by a client or by the scheduler
    Restores,       \* restores
    Deletes,        \* deletions of one archive
    MaxBackups,     \* max_backups_per_database
    MaxClock        \* bound on the seconds that pass

Op == Backups \cup Restores \cup Deletes

ASSUME OperationAssumption ==
    /\ Backups \cap Restores = {}
    /\ Backups \cap Deletes = {}
    /\ Restores \cap Deletes = {}
    /\ Op \cap Proc = {}
    /\ NoOne \notin Op
    /\ MaxBackups \in Nat \ {0}
    /\ MaxClock \in Nat

VARIABLES
    dir,            \* the database's directory is there
    archives,       \* the archive of each name in backup_dir, or Absent
    opHolder,       \* who holds the operation lock
    opPc,           \* where each operation is
    hand,           \* the archive each operation writes or reads
    copiers,        \* who opened the replica, to write it, since it was created
    clock,
    \* History
    latest,         \* the name of the latest backup answered with success
    expected,       \* what the database may hold since a restore; {}: no claim
    clean           \* no crash, no fault, no operation beside a write

\* What IndexStore has beside the files.
serverVars == <<counted, cacheVars, lockVars, loader, pc, local, seen,
                boundVars, histVars>>
opVars == <<archives, opHolder, opPc, hand, clock, latest>>
vars_b == <<vars, dir, opVars, copiers, expected, clean>>

-----------------------------------------------------------------------------

Name == 0..MaxClock
Archive == [name : Name, replica : {Torn} \cup Image, meta : {Torn} \cup Image]
NoArchive == [name |-> 0, replica |-> Torn, meta |-> Torn]

ASSUME ArchiveAssumption == Absent \notin Archive

Archived == {n \in Name : archives[n] # Absent}

\* The index of an archive, if it is whole.
Whole(a) == {image \in {a.replica} : Intact(image)}

BackupPoints  == {"b_check", "b_copy", "b_meta", "b_replica", "b_metafile",
                  "b_rename", "b_clean"}
RestorePoints == {"r_check", "r_remove", "r_mkdir", "r_replica", "r_fill",
                  "r_meta", "r_metafill", "r_reload"}
Running(o) == opPc[o] \in BackupPoints \cup RestorePoints \cup {"d_remove"}
OpPoints == BackupPoints \cup RestorePoints
              \cup {"d_remove", "new", "done", "failed", "lost"}

BackupTypeOK ==
    /\ bin \in {Absent, Torn} \cup Image
    /\ temp \in {Absent, Torn} \cup Image
    /\ replica \in {Absent, Torn} \cup Image
    /\ meta \in {Absent, Torn} \cup Image
    /\ ~dir => \A file \in {bin, temp, replica, meta} : file = Absent
    /\ sumCache \in {Absent} \cup Image
    /\ indexCache \in {Absent} \cup Cached
    /\ lockWriter \in Proc \cup {NoOne}
    /\ lockReaders \in SUBSET Proc
    /\ pc \in [Proc -> WriterPoints \cup ReaderPoints]
    /\ \A w \in Writer : pc[w] \in WriterPoints
    /\ \A r \in Reader : pc[r] \in ReaderPoints
    /\ local \in [Proc -> {Absent} \cup Image]
    /\ seen \in [Reader -> {Absent} \cup Image]
    /\ dir \in BOOLEAN
    /\ archives \in [Name -> {Absent} \cup Archive]
    /\ opHolder \in Op \cup {NoOne}
    /\ opPc \in [Op -> OpPoints]
    /\ \A o \in Op : Running(o) <=> opHolder = o
    /\ hand \in [Op -> Archive]
    /\ copiers \in SUBSET (Proc \cup Op)
    /\ clock \in Name
    /\ latest \in {Absent} \cup Name

BackupInit ==
    /\ Init
    /\ dir = TRUE
    /\ archives = [n \in Name |-> Absent]
    /\ opHolder = NoOne
    /\ opPc = [o \in Op |-> "new"]
    /\ hand = [o \in Op |-> NoArchive]
    /\ copiers = {}
    /\ clock = 0
    /\ latest = Absent
    /\ expected = {}
    /\ clean = TRUE

-----------------------------------------------------------------------------
(* Writing the replica: fs::copy by a write, fs::copy by a backup, or the  *)
(* archive unpacked by a restore.                                          *)

\* Who still has the replica open.
Copying == {x \in copiers : IF x \in Proc THEN pc[x] = "snap"
                            ELSE opPc[x] \in {"b_copy", "r_fill"}}

OpenReplica(x) ==
    /\ replica' = Torn
    /\ copiers' = Copying \cup {x}

\* The bytes of two that wrote it at the same time may be mixed.
CloseReplica(x, image) ==
    /\ IF x \notin copiers THEN UNCHANGED replica
       ELSE replica' \in IF copiers = {x} THEN {image} ELSE {image, Torn}
    /\ copiers' = IF copiers = {x} THEN {} ELSE copiers

-----------------------------------------------------------------------------
(* Operations.                                                             *)

\* Mutant of Start: operations take the lock as readers do.
StartShared(o, next) ==
    /\ opPc[o] = "new"
    /\ opHolder' = o
    /\ opPc' = [opPc EXCEPT ![o] = next]
    /\ UNCHANGED <<vars, dir, archives, hand, copiers, clock, latest, expected>>

\* try_acquire_op_lock: an operation never waits for another one.
Start(o, next) ==
    /\ opPc[o] = "new"
    /\ IF opHolder = NoOne
         THEN /\ opHolder' = o
              /\ opPc' = [opPc EXCEPT ![o] = next]
         ELSE /\ opPc' = [opPc EXCEPT ![o] = "failed"]
              /\ UNCHANGED opHolder
    /\ UNCHANGED <<vars, dir, archives, hand, copiers, clock, latest, expected>>

Goto(o, next) ==
    /\ opPc' = [opPc EXCEPT ![o] = next]
    /\ UNCHANGED opHolder

End(o, result) ==
    /\ opPc' = [opPc EXCEPT ![o] = result]
    /\ opHolder' = NoOne

\* Mutant of BackupCheck: .bin is moved to the replica, not copied.
BackupMoves(o) ==
    /\ opPc[o] = "b_check"
    /\ \/ /\ replica # Absent
          /\ Goto(o, "b_meta")
          /\ UNCHANGED <<bin, replica, hand, copiers>>
       \/ /\ replica = Absent
          /\ bin # Absent
          /\ OpenReplica(o)
          /\ bin' = Absent
          /\ hand' = [hand EXCEPT ![o].replica = bin]
          /\ Goto(o, "b_copy")
       \/ /\ replica = Absent
          /\ bin = Absent
          /\ End(o, "failed")
          /\ UNCHANGED <<bin, replica, hand, copiers>>
    /\ UNCHANGED <<temp, meta, serverVars, dir, archives, clock, latest,
                   expected>>

\* A missing replica is made from .bin; with neither there is nothing to back
\* up.
BackupCheck(o) ==
    /\ opPc[o] = "b_check"
    /\ \/ /\ replica # Absent
          /\ Goto(o, "b_meta")
          /\ UNCHANGED <<replica, hand, copiers>>
       \/ /\ replica = Absent
          /\ bin # Absent
          /\ OpenReplica(o)
          /\ hand' = [hand EXCEPT ![o].replica = bin]
          /\ Goto(o, "b_copy")
       \/ /\ replica = Absent
          /\ bin = Absent
          /\ End(o, "failed")
          /\ UNCHANGED <<replica, hand, copiers>>
    /\ UNCHANGED <<bin, temp, meta, serverVars, dir, archives, clock, latest,
                   expected>>

BackupCopied(o) ==
    /\ opPc[o] = "b_copy"
    /\ CloseReplica(o, hand[o].replica)
    /\ Goto(o, "b_meta")
    /\ UNCHANGED <<bin, temp, meta, serverVars, dir, archives, hand, clock,
                   latest, expected>>

\* The name of the archive is the second at which it is begun.
BackupMeta(o) ==
    /\ opPc[o] = "b_meta"
    /\ IF meta = Absent
         THEN End(o, "failed") /\ UNCHANGED hand
         ELSE /\ hand' = [hand EXCEPT ![o].name = clock]
              /\ Goto(o, "b_replica")
    /\ UNCHANGED <<vars, dir, archives, copiers, clock, latest, expected>>

\* Mutant of BackupReplica: the archive gets the index file that is in the
\* making.
BackupTemp(o) ==
    /\ opPc[o] = "b_replica"
    /\ hand' = [hand EXCEPT ![o].replica = IF temp = Absent THEN replica
                                           ELSE temp]
    /\ Goto(o, "b_metafile")
    /\ UNCHANGED <<vars, dir, archives, copiers, clock, latest, expected>>

\* The blocking task appends the replica, then metadata.json, each as it is
\* then.
BackupReplica(o) ==
    /\ opPc[o] = "b_replica"
    /\ hand' = [hand EXCEPT ![o].replica = replica]
    /\ Goto(o, "b_metafile")
    /\ UNCHANGED <<vars, dir, archives, copiers, clock, latest, expected>>

BackupMetaFile(o) ==
    /\ opPc[o] = "b_metafile"
    /\ hand' = [hand EXCEPT ![o].meta = meta]
    /\ Goto(o, "b_rename")
    /\ UNCHANGED <<vars, dir, archives, copiers, clock, latest, expected>>

\* An archive of the same second is replaced.
BackupRename(o) ==
    /\ opPc[o] = "b_rename"
    /\ archives' = [archives EXCEPT ![hand[o].name] = hand[o]]
    /\ Goto(o, "b_clean")
    /\ UNCHANGED <<vars, dir, hand, copiers, clock, latest, expected>>

\* Mutant of BackupClean: the backups are sorted from the oldest.
CleanNewest(o) ==
    LET Surplus(n) == Cardinality({m \in Archived : m < n}) >= MaxBackups IN
    /\ opPc[o] = "b_clean"
    /\ archives' = [n \in Name |-> IF Surplus(n) THEN Absent ELSE archives[n]]
    /\ latest' = hand[o].name
    /\ End(o, "done")
    /\ UNCHANGED <<vars, dir, hand, copiers, clock, expected>>

\* cleanup_old_backups keeps the newest MaxBackups; the backup is answered.
BackupClean(o) ==
    LET Surplus(n) == Cardinality({m \in Archived : m > n}) >= MaxBackups IN
    /\ opPc[o] = "b_clean"
    /\ archives' = [n \in Name |-> IF Surplus(n) THEN Absent ELSE archives[n]]
    /\ latest' = hand[o].name
    /\ End(o, "done")
    /\ UNCHANGED <<vars, dir, hand, copiers, clock, expected>>

\* A failed clean-up is only logged.
CleanFails(o) ==
    /\ opPc[o] = "b_clean"
    /\ faults < MaxFaults
    /\ faults' = faults + 1
    /\ latest' = hand[o].name
    /\ End(o, "done")
    /\ UNCHANGED <<diskVars, counted, cacheVars, lockVars, loader, pc, local,
                   seen, crashes, histVars, dir, archives, hand, copiers,
                   clock, expected>>

\* Any other file operation that fails ends the operation, a removal also
\* because a request made a file meanwhile: what is written stays written, and
\* what a restore removed stays removed.
OperationFails(o) ==
    /\ opPc[o] \in {"b_copy", "b_replica", "b_metafile", "b_rename", "r_remove",
                    "r_mkdir", "r_replica", "r_fill", "r_meta", "r_metafill"}
    /\ faults < MaxFaults
    /\ faults' = faults + 1
    /\ End(o, "failed")
    /\ UNCHANGED <<diskVars, counted, cacheVars, lockVars, loader, pc, local,
                   seen, crashes, histVars, dir, archives, hand, copiers,
                   clock, latest, expected>>

BackupRun(o) ==
    \/ Start(o, "b_check")
    \/ BackupCheck(o)
    \/ BackupCopied(o)
    \/ BackupMeta(o)
    \/ BackupReplica(o)
    \/ BackupMetaFile(o)
    \/ BackupRename(o)
    \/ BackupClean(o)
    \/ CleanFails(o)
    \/ OperationFails(o)

\* The directory and the archive that the client names must be there.
RestoreCheck(o) ==
    /\ opPc[o] = "r_check"
    /\ \/ /\ dir
          /\ \E n \in Archived :
               /\ hand' = [hand EXCEPT ![o] = archives[n]]
               /\ expected' = {Contents} \cup Whole(archives[n])
          /\ Goto(o, "r_remove")
       \/ /\ End(o, "failed")
          /\ UNCHANGED <<hand, expected>>
    /\ UNCHANGED <<vars, dir, archives, copiers, clock, latest>>

\* Mutant of RestoreRemove: what the archive does not hold stays.
RemoveArchived(o) ==
    /\ opPc[o] = "r_remove"
    /\ \/ /\ replica # Absent
          /\ replica' = Absent
          /\ copiers' = {}
          /\ UNCHANGED <<meta, opHolder, opPc>>
       \/ /\ meta # Absent
          /\ meta' = Absent
          /\ UNCHANGED <<replica, copiers, opHolder, opPc>>
       \/ /\ replica = Absent /\ meta = Absent
          /\ Goto(o, "r_replica")
          /\ UNCHANGED <<replica, meta, copiers>>
    /\ UNCHANGED <<bin, temp, serverVars, dir, archives, hand, clock, latest,
                   expected>>

\* remove_dir_all: the files go one by one, in no known order.
RestoreRemove(o) ==
    /\ opPc[o] = "r_remove"
    /\ \/ /\ bin # Absent
          /\ bin' = Absent
          /\ UNCHANGED <<temp, replica, meta, copiers>>
       \/ /\ temp # Absent
          /\ temp' = Absent
          /\ UNCHANGED <<bin, replica, meta, copiers>>
       \/ /\ replica # Absent
          /\ replica' = Absent
          /\ copiers' = {}
          /\ UNCHANGED <<bin, temp, meta>>
       \/ /\ meta # Absent
          /\ meta' = Absent
          /\ UNCHANGED <<bin, temp, replica, copiers>>
    /\ UNCHANGED <<serverVars, dir, opVars, expected>>

RestoreRmdir(o) ==
    /\ opPc[o] = "r_remove"
    /\ \A file \in {bin, temp, replica, meta} : file = Absent
    /\ dir' = FALSE
    /\ Goto(o, "r_mkdir")
    /\ UNCHANGED <<vars, archives, hand, copiers, clock, latest, expected>>

RestoreMkdir(o) ==
    /\ opPc[o] = "r_mkdir"
    /\ dir' = TRUE
    /\ Goto(o, "r_replica")
    /\ UNCHANGED <<vars, archives, hand, copiers, clock, latest, expected>>

\* The archive is unpacked: each file is created, then filled.
RestoreReplica(o) ==
    /\ opPc[o] = "r_replica"
    /\ OpenReplica(o)
    /\ Goto(o, "r_fill")
    /\ UNCHANGED <<bin, temp, meta, serverVars, dir, archives, hand, clock,
                   latest, expected>>

RestoreFill(o) ==
    /\ opPc[o] = "r_fill"
    /\ CloseReplica(o, hand[o].replica)
    /\ Goto(o, "r_meta")
    /\ UNCHANGED <<bin, temp, meta, serverVars, dir, archives, hand, clock,
                   latest, expected>>

RestoreMeta(o) ==
    /\ \/ /\ opPc[o] = "r_meta"
          /\ meta' = Torn
          /\ Goto(o, "r_metafill")
       \/ /\ opPc[o] = "r_metafill"
          /\ meta' = hand[o].meta
          /\ Goto(o, "r_reload")
    /\ UNCHANGED <<bin, temp, replica, serverVars, dir, archives, hand, copiers,
                   clock, latest, expected>>

\* The checksum is removed and put back under "source:database", a key nobody
\* else uses: the entry of CHECKSUM_CACHE stays what it was.
RestoreReload(o) ==
    /\ opPc[o] = "r_reload"
    /\ counted' = IF Intact(meta) THEN meta ELSE counted
    /\ expected' = Whole(hand[o])
    /\ End(o, "done")
    /\ UNCHANGED <<diskVars, cacheVars, lockVars, loader, pc, local, seen,
                   boundVars, histVars, dir, archives, hand, copiers, clock,
                   latest>>

RestoreRun(o) ==
    \/ Start(o, "r_check")
    \/ RestoreCheck(o)
    \/ RestoreRemove(o)
    \/ RestoreRmdir(o)
    \/ RestoreMkdir(o)
    \/ RestoreReplica(o)
    \/ RestoreFill(o)
    \/ RestoreMeta(o)
    \/ RestoreReload(o)
    \/ OperationFails(o)

DeleteArchive(o) ==
    /\ opPc[o] = "d_remove"
    /\ \/ /\ \E n \in Archived :
               /\ archives' = [archives EXCEPT ![n] = Absent]
               /\ latest' = IF latest = n THEN Absent ELSE latest
          /\ End(o, "done")
       \/ /\ End(o, "failed")
          /\ UNCHANGED <<archives, latest>>
    /\ UNCHANGED <<vars, dir, hand, copiers, clock, expected>>

DeleteRun(o) == Start(o, "d_remove") \/ DeleteArchive(o)

-----------------------------------------------------------------------------
(* Requests whose files are gone.                                          *)

\* search_database_on_disk finds no directory: nothing is loaded.
LoadNothing(p) ==
    /\ pc[p] = "ld_lock"
    /\ ~dir
    /\ pc' = [pc EXCEPT ![p] = AfterLoad(p)]
    /\ UNCHANGED <<diskVars, counted, cacheVars, lockVars, loader, local, seen,
                   boundVars, histVars>>

\* metadata.json cannot be parsed, or .bin cannot be created: only logged.
RecoverRefused(p) ==
    /\ \/ pc[p] = "rc_meta" /\ meta = Torn
       \/ pc[p] = "rc_write" /\ ~dir
    /\ lockWriter' = NoOne
    /\ pc' = [pc EXCEPT ![p] = AfterLoad(p)]
    /\ UNCHANGED <<diskVars, counted, cacheVars, lockReaders, loader, local,
                   seen, boundVars, histVars>>

\* The .bin that was being written back is removed: it is written to the end
\* all the same.
RecoverUnseen(p) ==
    /\ pc[p] = "rc_flush"
    /\ bin = Absent
    /\ sumCache' = local[p]
    /\ lockWriter' = NoOne
    /\ pc' = [pc EXCEPT ![p] = AfterLoad(p)]
    /\ UNCHANGED <<diskVars, counted, indexCache, lockReaders, loader, local,
                   seen, boundVars, histVars>>

\* So is TEMP; the rename then finds no TEMP.
FlushUnseen(w) ==
    /\ pc[w] = "flush"
    /\ temp = Absent
    /\ sumCache' = local[w]
    /\ pc' = [pc EXCEPT ![w] = "rename"]
    /\ UNCHANGED <<diskVars, counted, indexCache, lockVars, loader, local, seen,
                   boundVars, histVars>>

WriteRefused(w) ==
    /\ \/ pc[w] = "meta" /\ meta = Torn
       \/ pc[w] = "rename" /\ temp = Absent
    /\ GiveUp(w)
    /\ UNCHANGED <<diskVars, counted, cacheVars, lockReaders, loader, seen,
                   boundVars, histVars>>

\* There is no .bin to copy: only logged.
CopyNothing(w) ==
    /\ pc[w] = "copy"
    /\ bin = Absent
    /\ lockWriter' = NoOne
    /\ pc' = [pc EXCEPT ![w] = "count"]
    /\ UNCHANGED <<diskVars, counted, cacheVars, lockReaders, loader, local,
                   seen, boundVars, histVars>>

\* metadata.json cannot be parsed.
ReadTornMeta(r) ==
    /\ pc[r] = "readmeta"
    /\ meta = Torn
    /\ Finish(r)
    /\ UNCHANGED <<diskVars, counted, cacheVars, lockVars, boundVars, histVars>>

RequestDisturbed(p) ==
    \/ LoadNothing(p)
    \/ RecoverRefused(p)
    \/ RecoverUnseen(p)
    \/ p \in Writer /\ (FlushUnseen(p) \/ WriteRefused(p) \/ CopyNothing(p))
    \/ p \in Reader /\ ReadTornMeta(p)

-----------------------------------------------------------------------------
(* Requests.                                                               *)

\* Mutant of CloseCopy: nobody waits for the copy to end.
ForgetCopy(w) ==
    /\ pc[w] = "snap"
    /\ lockWriter' = NoOne
    /\ pc' = [pc EXCEPT ![w] = "count"]
    /\ UNCHANGED <<diskVars, counted, cacheVars, lockReaders, loader, local,
                   seen, boundVars, histVars, copiers>>

\* fs::copy opened .bin and the replica when it began, and writes the image it
\* opened to the replica it opened.
CloseCopy(w) ==
    /\ pc[w] = "snap"
    /\ CloseReplica(w, local[w])
    /\ lockWriter' = NoOne
    /\ pc' = [pc EXCEPT ![w] = "count"]
    /\ UNCHANGED <<bin, temp, meta, counted, cacheVars, lockReaders, loader,
                   local, seen, boundVars, histVars>>

OpenCopy(w) ==
    /\ CopyReplica(w)
    /\ bin # Absent
    /\ OpenReplica(w)

\* What a step of IndexStore needs to find.
FilesThere(p) ==
    /\ pc[p] \in {"ld_lock", "rc_write"} => dir
    /\ pc[p] = "new" => dir \/ pc'[p] = "failed"
    /\ pc[p] \in {"meta", "rc_meta", "readmeta"} => meta # Torn
    /\ pc[p] = "flush" => temp # Absent
    /\ pc[p] = "rename" => temp # Absent
    /\ pc[p] = "rc_flush" => bin # Absent

RequestUndisturbed(p) ==
    /\ \/ p \in Inserts /\ InsertRun(p)
       \/ p \in Embeds /\ EmbedRun(p)
       \/ p \in Queries /\ QueryVector(p)
       \/ p \in Searches /\ QuerySearch(p)
       \/ p \in Pages /\ IndexByPage(p)
    /\ pc[p] \in {"copy", "snap"} => faults' # faults
    /\ FilesThere(p)

\* write_metadata creates the directory if it has to.
MakesDir(p) == pc[p] \in {"meta", "rc_meta"} /\ meta' # meta

Request(p) ==
    /\ \/ RequestUndisturbed(p) /\ UNCHANGED copiers
       \/ RequestDisturbed(p) /\ UNCHANGED copiers
       \/ p \in Writer /\ (OpenCopy(p) \/ CloseCopy(p))
    /\ dir' = (dir \/ MakesDir(p))
    /\ expected' = IF pc[p] = "rename" /\ pc'[p] = "copy"
                     THEN {i \cup {BatchOf[p]} : i \in expected}
                     ELSE expected
    /\ UNCHANGED opVars

BackupCrash ==
    /\ Crash
    /\ opHolder' = NoOne
    /\ opPc' = [o \in Op |-> IF Running(o) THEN "lost" ELSE opPc[o]]
    /\ copiers' = {}
    /\ UNCHANGED <<dir, archives, hand, clock, latest, expected>>

Tick ==
    /\ clock < MaxClock
    /\ clock' = clock + 1
    /\ UNCHANGED <<vars, dir, archives, opHolder, opPc, hand, copiers, latest,
                   expected>>

\* A write, or the recovery by a read, runs while an operation runs.
Overlap ==
    /\ \E o \in Op : Running(o)
    /\ \E p \in Proc : \/ p \in Writer /\ InFlight(p)
                       \/ pc[p] \in RecoverPoints

BackupNext ==
    /\ \/ \E p \in Proc : Request(p)
       \/ \E o \in Backups : BackupRun(o)
       \/ \E o \in Restores : RestoreRun(o)
       \/ \E o \in Deletes : DeleteRun(o)
       \/ Evict /\ UNCHANGED <<dir, opVars, copiers, expected>>
       \/ BackupCrash
       \/ Tick
    /\ clean' = (clean /\ ~Overlap' /\ crashes' = 0 /\ faults' = 0)

BackupSpec == BackupInit /\ [][BackupNext]_vars_b

-----------------------------------------------------------------------------
(* Properties, beside CommittedReads of IndexStore.                        *)

\* What an archive holds was the current index at some time, or is recognisably
\* broken: never an index in the making, nor the index of a failed write.
ArchivesCommitted ==
    \A n \in Archived :
        archives[n].replica # Torn => archives[n].replica \in committed

\* Unless something ran beside an operation, crashed or failed, an archive holds
\* one whole index and the metadata of that index.
ArchivesAgree ==
    clean => \A n \in Archived : /\ archives[n].replica # Torn
                                 /\ archives[n].meta = archives[n].replica

\* Retention never removes the latest backup that was answered with success,
\* and leaves no more archives than configured.
RetentionKeeps ==
    /\ latest # Absent => latest \in Archived
    /\ crashes = 0 /\ faults = 0 /\ (\A o \in Op : opPc[o] # "b_clean") =>
          Cardinality(Archived) <= MaxBackups

Restoring == \E o \in Restores : Running(o)

\* After a restore, and until the next one, the database holds the archive's
\* index and what was written since: a refused restore changes nothing, and
\* nothing of before it comes back through a file, a load or a recovery.
RestoredExactly ==
    clean /\ ~Restoring /\ expected # {} => Contents \in expected

\* No restore has got hold of an archive yet.
Unrestored == \A o \in Restores : hand[o] = NoArchive

\* Backups and deletions, which share no lock with the requests, do not show:
\* until the first restore, the database keeps the promise of DurableIndex to
\* its clients while operations run beside their writes, reads and recoveries,
\* fail and crash.
KeepsPromise ==
    /\ Promise!Init
    /\ [][Unrestored' => Promise!Next \/ UNCHANGED Promise!vars]_vars_b

\* What a restore took away is not answered from any more once it is done: no
\* cache entry that passes the checksum comparison holds it.
RestoreServed ==
    clean /\ Quiet /\ ~Restoring /\ expected # {} /\ CacheValid =>
        \E i \in expected : indexCache.store \subseteq i

===============================================================================
