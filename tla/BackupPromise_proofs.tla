------------------------- MODULE BackupPromise_proofs -------------------------
(***************************************************************************)
(* Backups and deletions keep what an IndexStore promises its clients,     *)
(* though they share no lock with the requests: until the first restore    *)
(* gets hold of an archive, every step of the server is a step of          *)
(* IndexStore, or one that writes only the replica, beside a .bin that is  *)
(* whole (Beside), or the end of a copy of .bin (CopyEnds).                *)
(*                                                                         *)
(* KeptInv   until the first restore, the invariants of IndexStore, and    *)
(*           the files are where its steps look for them                   *)
(***************************************************************************)
EXTENDS Backup_proofs, IndexStoreDurable_proofs

USE RequestAssumption, ImageAssumption, BoundAssumption, OperationAssumption

-----------------------------------------------------------------------------
(* The invariants.                                                         *)

\* What a restore has in its hands before it looks for its archive.
CheckedInv ==
    \A o \in Restores : opPc[o] \in {"new", "r_check"} => hand[o] = NoArchive

\* The directory, the files and the archives while no restore has begun.  Only
\* a restore tears metadata.json.
UntouchedInv ==
    /\ dir
    /\ \A w \in Writer : pc[w] = "flush" => temp # Absent
    /\ \A o \in Backups : opPc[o] = "b_copy" => Intact(bin)
    /\ \A o \in Restores : opPc[o] \notin RestorePoints \ {"r_check"}
    /\ \A o \in Backups : opPc[o] = "b_rename" => hand[o].meta # Torn
    /\ \A n \in Archived : archives[n].meta # Torn

StoreInv == BaseInv /\ DurableInv /\ OrderInv

KeptInv == CheckedInv /\ (Unrestored => StoreInv /\ UntouchedInv)

-----------------------------------------------------------------------------
(* Steps that IndexStore does not have.                                    *)

\* An operation writes nothing but the replica, and that beside a whole .bin.
Beside ==
    /\ UNCHANGED <<bin, temp, meta, counted, cacheVars, lockVars, loader, pc,
                   local, seen, crashes, histVars>>
    /\ faults' \in 0..MaxFaults
    /\ replica' \in {Absent, Torn} \cup Image
    /\ replica' # replica => Intact(bin)

\* A write has copied .bin, perhaps to a replica somebody else writes as well.
CopyEnds(w) ==
    /\ pc[w] = "snap"
    /\ replica' \in {Absent, Torn} \cup Image
    /\ lockWriter' = NoOne
    /\ pc' = [pc EXCEPT ![w] = "count"]
    /\ UNCHANGED <<bin, temp, meta, counted, cacheVars, lockReaders, loader,
                   local, seen, boundVars, histVars>>

LEMMA BesideKeepsStore ==
    ASSUME StoreInv, Beside
    PROVE  StoreInv' /\ Invisible
  <1> USE DEF StoreInv, Beside, cacheVars, lockVars, histVars
  <1>1. Contents' = Contents
    BY DEF Contents, Recovering, Intact
  <1>2. BaseInv'
    BY DEF BaseInv, TypeOK, LockInv, CarryInv
  <1>3. DurableInv'
    <2>1. SerialInv' /\ NothingLost' /\ AckedDurable' /\ OnceInv'
      BY <1>1 DEF DurableInv, SerialInv, NothingLost, AckedDurable, OnceInv, InFlight
    <2>2. RecoverInv'
      BY DEF DurableInv, RecoverInv, Recovering, Intact
    <2>3. HandInv'
      BY <1>1 DEF DurableInv, HandInv, BaseOf
    <2> QED BY <2>1, <2>2, <2>3 DEF DurableInv
  <1>4. OrderInv'
    BY <1>1 DEF OrderInv
  <1>5. Invisible
    BY <1>1 DEF Invisible, Progress, StatusOf, InFlight
  <1> QED BY <1>2, <1>3, <1>4, <1>5

LEMMA CopyKeepsStore ==
    ASSUME StoreInv, NEW w \in Writer, CopyEnds(w)
    PROVE  StoreInv' /\ Invisible
  <1> USE DEF StoreInv, CopyEnds, cacheVars, lockVars, boundVars, histVars, Proc
  <1>0. /\ bin = local[w] /\ Intact(bin) /\ lockWriter = w
        /\ pc \in [Proc -> WriterPoints \cup ReaderPoints]
    BY DEF BaseInv, TypeOK, LockInv, CarryInv, DurableInv, HandInv, WriteGuarded, Intact
  <1>1. Contents' = Contents /\ Contents = bin
    BY <1>0 DEF Contents, Intact
  <1>2. BaseInv'
    <2>1. TypeOK'
      BY <1>0 DEF BaseInv, TypeOK, WriterPoints, InsertPoints
    <2>2. LockInv'
      BY <1>0 DEF BaseInv, LockInv, WriteGuarded
    <2>3. CarryInv'
      BY <1>0 DEF BaseInv, CarryInv, RecoverPoints
    <2> QED BY <2>1, <2>2, <2>3 DEF BaseInv
  <1>3. DurableInv'
    <2>1. SerialInv'
      BY <1>0 DEF DurableInv, SerialInv, InFlight, EndPoints
    <2>2. NothingLost'
      BY <1>1 DEF DurableInv, NothingLost
    <2>3. AckedDurable'
      BY <1>0, <1>1 DEF DurableInv, AckedDurable
    <2>4. OnceInv'
      BY <1>0 DEF DurableInv, OnceInv
    <2>5. RecoverInv'
      BY <1>0 DEF DurableInv, RecoverInv, Recovering, RecoverPoints, Intact
    <2>6. HandInv'
      BY <1>0, <1>1 DEF DurableInv, HandInv, BaseOf, RecoverPoints
    <2> QED BY <2>1, <2>2, <2>3, <2>4, <2>5, <2>6 DEF DurableInv
  <1>4. OrderInv'
    BY <1>1 DEF OrderInv
  <1>5. Progress' = Progress
    BY <1>0 DEF Progress, StatusOf, InFlight, EndPoints
  <1> QED BY <1>1, <1>2, <1>3, <1>4, <1>5 DEF Invisible

-----------------------------------------------------------------------------
(* Every step is one of IndexStore, or one of those.                       *)

\* What a step of the server is to the store, and what it leaves as it was.
StoreStep == [Next]_vars \/ Beside \/ \E w \in Writer : CopyEnds(w)

\* As long as no restore has begun every request finds its files.
LEMMA NothingDisturbed ==
    ASSUME FrameInv, StoreInv, UntouchedInv, NEW p \in Proc
    PROVE  ~RequestDisturbed(p)
  <1> USE DEF StoreInv, BaseInv, TypeOK
  <1>1. ~LoadNothing(p)
    BY DEF LoadNothing, UntouchedInv
  <1>2. ~RecoverRefused(p)
    BY DEF RecoverRefused, UntouchedInv
  <1>3. ~RecoverUnseen(p)
    BY DEF RecoverUnseen, DurableInv, RecoverInv
  <1>4. p \in Writer => ~FlushUnseen(p)
    BY DEF FlushUnseen, UntouchedInv
  <1>5. p \in Writer => ~WriteRefused(p)
    BY DEF WriteRefused, CarryInv
  <1>6. p \in Writer => ~CopyNothing(p)
    BY DEF CopyNothing, DurableInv, HandInv, CarryInv
  <1>7. p \in Reader => ~ReadTornMeta(p)
    BY DEF ReadTornMeta
  <1> QED BY <1>1, <1>2, <1>3, <1>4, <1>5, <1>6, <1>7 DEF RequestDisturbed

LEMMA RequestSteps ==
    ASSUME FrameInv, StoreInv, UntouchedInv, NEW p \in Proc, Request(p)
    PROVE  StoreStep
  <1>1. CASE RequestUndisturbed(p)
    BY <1>1 DEF RequestUndisturbed, Next, StoreStep
  <1>2. CASE p \in Writer /\ OpenCopy(p)
    BY <1>2 DEF OpenCopy, StoreStep, Next, InsertRun, EmbedRun, Persist, Writer
  <1>3. CASE p \in Writer /\ CloseCopy(p)
    <2>1. local[p] \in Image /\ replica \in {Absent, Torn} \cup Image
      BY <1>3 DEF CloseCopy, StoreInv, BaseInv, CarryInv, TypeOK
    <2>2. replica' \in {Absent, Torn} \cup Image
      BY <1>3, <2>1 DEF CloseCopy, CloseReplica
    <2> QED BY <1>3, <2>2 DEF CloseCopy, CopyEnds, StoreStep
  <1> QED BY <1>1, <1>2, <1>3, NothingDisturbed DEF Request

\* A .bin that is not there is not what a replica is made of.
LEMMA WholeBin ==
    ASSUME StoreInv, bin # Absent, replica = Absent
    PROVE  Intact(bin)
  <1>1. bin = Torn => \E p \in Proc : pc[p] = "rc_flush"
    BY DEF StoreInv, DurableInv, RecoverInv, Recovering
  <1>2. ASSUME NEW p \in Proc, pc[p] = "rc_flush", bin = Torn PROVE FALSE
    BY <1>2 DEF StoreInv, BaseInv, CarryInv, DurableInv, RecoverInv, RecoverPoints, Intact
  <1> QED BY <1>1, <1>2 DEF Intact

LEMMA OperationSteps ==
    ASSUME FrameInv, StoreInv, UntouchedInv,
           \/ \E o \in Backups : BackupRun(o)
           \/ \E o \in Restores : RestoreRun(o)
           \/ \E o \in Deletes : DeleteRun(o)
    PROVE  StoreStep
  <1> USE DEF Beside, serverVars, boundVars
  <1>0. /\ faults \in 0..MaxFaults
        /\ replica \in {Absent, Torn} \cup Image
    BY DEF StoreInv, BaseInv, TypeOK
  <1>1. ASSUME NEW o \in Op, UNCHANGED vars PROVE StoreStep
    BY <1>1 DEF StoreStep
  <1>2. ASSUME NEW o \in Backups, BackupCheck(o) PROVE StoreStep
    <2>1. replica' # replica => replica' = Torn /\ Intact(bin)
      BY <1>2, WholeBin DEF BackupCheck, OpenReplica
    <2> QED BY <1>0, <1>2, <2>1 DEF BackupCheck, StoreStep
  <1>3. ASSUME NEW o \in Backups, BackupCopied(o) PROVE StoreStep
    <2>1. hand[o].replica \in {Torn} \cup Image
      BY DEF FrameInv, BackupTypeOK, Archive, Op
    <2>2. replica' \in {Absent, Torn} \cup Image
      BY <1>0, <1>3, <2>1 DEF BackupCopied, CloseReplica
    <2>3. Intact(bin)
      BY <1>3 DEF BackupCopied, UntouchedInv
    <2> QED BY <1>0, <1>3, <2>2, <2>3 DEF BackupCopied, StoreStep
  <1>4. ASSUME NEW o \in Op, CleanFails(o) \/ OperationFails(o) PROVE StoreStep
    <2>1. faults' \in 0..MaxFaults
      BY <1>0, <1>4 DEF CleanFails, OperationFails
    <2> QED BY <1>0, <1>4, <2>1 DEF CleanFails, OperationFails, StoreStep, diskVars
  <1>5. ASSUME NEW o \in Backups, BackupRun(o) PROVE StoreStep
    BY <1>1, <1>2, <1>3, <1>4, <1>5
       DEF BackupRun, Op, Start, BackupMeta, BackupReplica, BackupMetaFile,
           BackupRename, BackupClean
  <1>6. ASSUME NEW o \in Restores, RestoreRun(o) PROVE StoreStep
    <2>1. opPc[o] \notin RestorePoints \ {"r_check"}
      BY DEF UntouchedInv
    <2>2. Start(o, "r_check") \/ RestoreCheck(o) \/ OperationFails(o)
      BY <1>6, <2>1 DEF RestoreRun, RestoreRemove, RestoreRmdir, RestoreMkdir,
                        RestoreReplica, RestoreFill, RestoreMeta, RestoreReload, RestorePoints
    <2> QED BY <1>1, <1>4, <2>2 DEF Start, RestoreCheck, Op
  <1>7. ASSUME NEW o \in Deletes, DeleteRun(o) PROVE StoreStep
    BY <1>1, <1>7 DEF DeleteRun, Start, DeleteArchive, Op
  <1> QED BY <1>5, <1>6, <1>7

LEMMA ServerSteps ==
    ASSUME FrameInv, StoreInv, UntouchedInv, [BackupNext]_vars_b
    PROVE  StoreStep
  <1>1. CASE Evict \/ BackupCrash \/ Tick \/ UNCHANGED vars_b
    BY <1>1 DEF BackupCrash, Tick, vars_b, StoreStep, Next
  <1> QED BY <1>1, RequestSteps, OperationSteps DEF BackupNext

LEMMA StoreKept ==
    ASSUME OneAtATime, StoreInv, StoreStep
    PROVE  /\ StoreInv'
           /\ Promise!Next \/ UNCHANGED Promise!vars
  <1>1. CASE [Next]_vars
    <2>1. BaseInv' /\ DurableInv' /\ OrderInv'
      BY <1>1, BaseInductive, DurableInductive, OrderInductive DEF StoreInv
    <2>2. [Promise!Next]_(Promise!vars)
      BY <1>1, StepImplements DEF StoreInv, Invs
    <2> QED BY <2>1, <2>2 DEF StoreInv
  <1> QED BY <1>1, BesideKeepsStore, CopyKeepsStore, InvisibleStutters DEF StoreStep

-----------------------------------------------------------------------------
(* Nothing but a restore disturbs the files.                               *)

\* No request takes away the TEMP of a write, or the .bin of a copy.
LEMMA RequestKeepsFiles ==
    ASSUME FrameInv, StoreInv, UntouchedInv, NEW p \in Proc, Request(p)
    PROVE  /\ \A w \in Writer : pc'[w] = "flush" => temp' # Absent
           /\ Intact(bin) => Intact(bin')
  <1> USE DEF diskVars, WriteGuarded, Intact
  <1>1. /\ \A w \in Writer : pc[w] = "flush" => temp # Absent
        /\ \A q \in Proc : pc[q] \in WriteGuarded => lockWriter = q
        /\ \A q \in Proc : pc[q] \in RecoverPoints => local[q] \in Image
        /\ \A w \in Writer : pc[w] \in {"flush", "rename"} => local[w] \in Image
        /\ \A w \in Writer : pc[w] = "rename" => temp \in {Absent, local[w]}
        /\ \A q \in Proc : pc[q] = "rc_write" => bin = Absent
        /\ pc \in [Proc -> WriterPoints \cup ReaderPoints]
        /\ Writer \subseteq Proc
    BY DEF UntouchedInv, FrameInv, GuardInv, HandsInv, StoreInv, DurableInv,
           RecoverInv, BackupTypeOK, Proc
  <1>2. CASE RequestUndisturbed(p) /\ LoadIndex(p)
    <2>1. temp' = temp /\ \A w \in Writer : pc'[w] = "flush" => pc[w] = "flush"
      BY <1>1, <1>2 DEF LoadIndex, LoadLock, LoadRead, RecoverLock, RecoverMeta,
                        RecoverWrite, RecoverFlush, RecoverFails, AfterLoad
    <2>2. bin' = bin \/ pc[p] = "rc_write" \/ (bin' = local[p] /\ pc[p] = "rc_flush")
      BY <1>2 DEF LoadIndex, LoadLock, LoadRead, RecoverLock, RecoverMeta,
                  RecoverWrite, RecoverFlush, RecoverFails
    <2> QED BY <1>1, <2>1, <2>2 DEF RecoverPoints
  <1>3. CASE p \in Writer /\ RequestUndisturbed(p)
             /\ (Begin(p) \/ AcquireWrite(p) \/ Apply(p) \/ FetchFails(p)
                   \/ WriteFails(p) \/ ReplicaFails(p) \/ CountFails(p)
                   \/ CopyReplica(p) \/ SnapReplica(p) \/ UpdateCount(p))
    <2>1. bin' = bin /\ temp' = temp
      BY <1>3 DEF Begin, AcquireWrite, Apply, FetchFails, WriteFails, ReplicaFails,
                  CountFails, CopyReplica, SnapReplica, UpdateCount
    <2>2. \A w \in Writer : pc'[w] = "flush" => pc[w] = "flush"
      BY <1>1, <1>3 DEF Begin, AcquireWrite, Apply, FetchFails, WriteFails,
                        ReplicaFails, CountFails, CopyReplica, SnapReplica,
                        UpdateCount, GiveUp
    <2> QED BY <1>1, <2>1, <2>2
  <1>4. CASE p \in Writer /\ WriteMeta(p)
    BY <1>1, <1>4 DEF WriteMeta
  <1>5. CASE p \in Writer /\ FlushTemp(p)
    BY <1>1, <1>5 DEF FlushTemp
  <1>6. CASE p \in Writer /\ Rename(p) /\ temp # Absent
    BY <1>1, <1>6 DEF Rename
  <1>7. CASE p \in Reader /\ RequestUndisturbed(p) /\ ReadIndex(p) /\ ~LoadIndex(p)
    <2>1. bin' = bin /\ temp' = temp
      BY <1>7 DEF ReadIndex, CheckCache, RecheckCache, ReadMeta, PutSum, PutIndex
    <2>2. \A w \in Writer : pc'[w] = "flush" => pc[w] = "flush"
      BY <1>1, <1>7 DEF ReadIndex, CheckCache, RecheckCache, ReadMeta, PutSum,
                        PutIndex, Finish
    <2> QED BY <1>1, <2>1, <2>2
  <1>8. CASE p \in Writer /\ (OpenCopy(p) \/ CloseCopy(p))
    BY <1>1, <1>8 DEF OpenCopy, CopyReplica, CloseCopy
  <1>9. CASE RequestUndisturbed(p)
    BY <1>2, <1>3, <1>4, <1>5, <1>6, <1>7, <1>9
       DEF RequestUndisturbed, FilesThere, InsertRun, EmbedRun, Persist,
           QueryVector, QuerySearch, IndexByPage, Writer, Reader, Rename
  <1> QED BY <1>8, <1>9, NothingDisturbed DEF Request

LEMMA OperationKeepsUntouched ==
    ASSUME FrameInv, StoreInv, UntouchedInv, Unrestored',
           \/ \E o \in Backups : BackupRun(o)
           \/ \E o \in Restores : RestoreRun(o)
           \/ \E o \in Deletes : DeleteRun(o)
    PROVE  UntouchedInv'
  <1> USE DEF Op
  <1>0. /\ meta # Torn
        /\ archives \in [Name -> {Absent} \cup Archive]
        /\ hand \in [Op -> Archive]
        /\ opPc \in [Op -> OpPoints]
        /\ \A o \in Op : opPc[o] \in RestorePoints => o \in Restores
    BY DEF StoreInv, BaseInv, TypeOK, FrameInv, BackupTypeOK, ArchivableInv
  <1> DEFINE Filed == /\ dir
                      /\ \A w \in Writer : pc[w] = "flush" => temp # Absent
             Copied == \A o \in Backups : opPc[o] = "b_copy" => Intact(bin)
             Outside == \A o \in Restores : opPc[o] \notin RestorePoints \ {"r_check"}
             Packed == \A o \in Backups : opPc[o] = "b_rename" => hand[o].meta # Torn
             Stored == \A n \in Archived : archives[n].meta # Torn
  <1>1. Filed /\ Copied /\ Outside /\ Packed /\ Stored
    BY DEF UntouchedInv
  <1>2. ASSUME NEW o \in Backups, BackupRun(o)
        PROVE  Filed' /\ Copied' /\ Outside' /\ Packed' /\ Stored'
    <2>1. Filed' /\ bin' = bin
      BY <1>1, <1>2 DEF BackupRun, Start, BackupCheck, BackupCopied, BackupMeta,
           BackupReplica, BackupMetaFile, BackupRename, BackupClean, CleanFails,
           OperationFails, vars, diskVars, serverVars
    <2>2. /\ \A q \in Op \ {o} : opPc'[q] = opPc[q] /\ hand'[q] = hand[q]
          /\ opPc'[o] \in BackupPoints \cup {"done", "failed"}
      BY <1>0, <1>2 DEF BackupRun, Start, BackupCheck, BackupCopied, BackupMeta,
           BackupReplica, BackupMetaFile, BackupRename, BackupClean, CleanFails,
           OperationFails, Goto, End, BackupPoints
    <2>3. opPc'[o] = "b_copy" => Intact(bin)
      BY <1>0, <1>2, WholeBin
         DEF BackupRun, Start, BackupCheck, BackupCopied, BackupMeta,
           BackupReplica, BackupMetaFile, BackupRename, BackupClean, CleanFails,
           OperationFails, Goto, End
    <2>4. opPc'[o] = "b_rename" => hand'[o].meta # Torn
      BY <1>0, <1>2
         DEF BackupRun, Start, BackupCheck, BackupCopied, BackupMeta,
           BackupReplica, BackupMetaFile, BackupRename, BackupClean, CleanFails,
           OperationFails, Goto, End, Archive
    <2>5. Stored'
      <3>1. CASE BackupRename(o)
        BY <1>0, <1>1, <3>1 DEF BackupRename, Archived
      <3>2. CASE BackupClean(o)
        BY <1>0, <1>1, <3>2 DEF BackupClean, Archived
      <3>3. CASE archives' = archives
        BY <1>1, <3>3 DEF Archived
      <3> QED
        BY <1>2, <3>1, <3>2, <3>3
           DEF BackupRun, Start, BackupCheck, BackupCopied, BackupMeta,
               BackupReplica, BackupMetaFile, CleanFails, OperationFails
    <2>6. Copied'
      BY <1>1, <2>1, <2>2, <2>3 DEF Intact
    <2>7. Outside'
      BY <1>1, <2>2
    <2>8. Packed'
      BY <1>1, <2>2, <2>4
    <2> QED BY <2>1, <2>5, <2>6, <2>7, <2>8
  <1>3. ASSUME NEW o \in Restores, RestoreRun(o)
        PROVE  Filed' /\ Copied' /\ Outside' /\ Packed' /\ Stored'
    <2>1. Start(o, "r_check") \/ RestoreCheck(o) \/ OperationFails(o)
      BY <1>1, <1>3 DEF RestoreRun, RestoreRemove, RestoreRmdir, RestoreMkdir,
                        RestoreReplica, RestoreFill, RestoreMeta, RestoreReload,
                        RestorePoints
    <2>2. UNCHANGED <<dir, temp, bin, pc, archives>>
      BY <2>1 DEF Start, RestoreCheck, OperationFails, vars, diskVars
    <2>3. \A q \in Op \ {o} : opPc'[q] = opPc[q] /\ hand'[q] = hand[q]
      BY <1>0, <2>1 DEF Start, RestoreCheck, OperationFails, Goto, End
    <2>4. opPc'[o] \in {"r_check", "r_remove", "failed"}
      BY <1>0, <2>1 DEF Start, RestoreCheck, OperationFails, Goto, End
    <2>5. opPc'[o] # "r_remove"
      <3>1. CASE RestoreCheck(o) /\ hand' # hand
        <4>1. PICK n \in Archived : hand' = [hand EXCEPT ![o] = archives[n]]
          BY <3>1 DEF RestoreCheck
        <4>2. hand'[o].meta # Torn
          BY <1>0, <1>1, <4>1
        <4> QED BY <1>3, <4>2 DEF Unrestored, NoArchive
      <3>2. CASE RestoreCheck(o) /\ hand' = hand
        <4>1. hand[o] = NoArchive
          BY <1>3, <3>2 DEF Unrestored
        <4>2. \A n \in Archived : [hand EXCEPT ![o] = archives[n]] # hand
          BY <1>0, <1>1, <4>1 DEF NoArchive
        <4> QED BY <1>0, <3>2, <4>2 DEF RestoreCheck, End
      <3> QED BY <1>0, <2>1, <3>1, <3>2 DEF Start, OperationFails, End
    <2>6. Outside'
      BY <1>1, <2>3, <2>4, <2>5 DEF RestorePoints
    <2>7. \A q \in Backups : opPc'[q] = opPc[q] /\ hand'[q] = hand[q]
      BY <1>3, <2>3
    <2> QED BY <1>1, <2>2, <2>6, <2>7 DEF Intact, Archived
  <1>4. ASSUME NEW o \in Deletes, DeleteRun(o)
        PROVE  Filed' /\ Copied' /\ Outside' /\ Packed' /\ Stored'
    <2>1. UNCHANGED <<dir, temp, bin, pc, hand>>
      BY <1>4 DEF DeleteRun, Start, DeleteArchive, vars, diskVars
    <2>2. \A q \in Op \ {o} : opPc'[q] = opPc[q]
      BY <1>0, <1>4 DEF DeleteRun, Start, DeleteArchive, End
    <2>3. \A n \in Name : archives'[n] \in {archives[n], Absent}
      BY <1>0, <1>4 DEF DeleteRun, Start, DeleteArchive, End
    <2>4. Stored'
      BY <1>1, <2>3 DEF Archived
    <2> QED BY <1>1, <2>1, <2>2, <2>4 DEF Intact
  <1> QED BY <1>2, <1>3, <1>4 DEF UntouchedInv

LEMMA UntouchedKept ==
    ASSUME FrameInv, StoreInv, UntouchedInv, Unrestored', [BackupNext]_vars_b
    PROVE  UntouchedInv'
  <1>1. ASSUME NEW p \in Proc, Request(p) PROVE UntouchedInv'
    <2>1. UNCHANGED opVars /\ dir'
      BY <1>1, RequestFrame DEF UntouchedInv
    <2> QED BY <1>1, <2>1, RequestKeepsFiles DEF UntouchedInv, opVars, Archived
  <1>2. CASE Evict /\ UNCHANGED <<dir, opVars, copiers, expected>>
    BY <1>2 DEF UntouchedInv, opVars, Archived, Evict, diskVars, Intact
  <1>3. CASE BackupCrash
    <2>1. \A o \in Op : opPc'[o] = opPc[o] \/ opPc'[o] = "lost"
      BY <1>3 DEF BackupCrash
    <2>2. \A w \in Writer : pc'[w] # "flush"
      BY <1>3 DEF BackupCrash, Crash, InFlight, EndPoints, Proc
    <2>3. UNCHANGED <<dir, bin, temp, archives, hand>>
      BY <1>3 DEF BackupCrash, Crash, diskVars
    <2> QED BY <2>1, <2>2, <2>3 DEF UntouchedInv, Archived, Intact, RestorePoints, Op
  <1>4. CASE Tick
    BY <1>4 DEF UntouchedInv, Tick, vars, diskVars, Archived, Intact
  <1>5. CASE UNCHANGED vars_b
    BY <1>5 DEF UntouchedInv, vars_b, opVars, vars, diskVars, Archived, Intact
  <1> QED BY <1>1, <1>2, <1>3, <1>4, <1>5, OperationKeepsUntouched DEF BackupNext

-----------------------------------------------------------------------------
(* A restore has begun once and for all.                                   *)

LEMMA HandsOfRestores ==
    ASSUME FrameInv, CheckedInv, [BackupNext]_vars_b, NEW o \in Restores
    PROVE  /\ hand'[o] = hand[o] \/ hand[o] = NoArchive
           /\ opPc'[o] \in {"new", "r_check"} =>
                opPc[o] \in {"new", "r_check"} /\ hand'[o] = hand[o]
  <1> USE DEF Op
  <1>0. /\ hand \in [Op -> Archive]
        /\ opPc \in [Op -> OpPoints]
    BY DEF FrameInv, BackupTypeOK
  <1>1. ASSUME NEW p \in Proc, Request(p) PROVE UNCHANGED <<hand, opPc>>
    BY <1>1, RequestFrame DEF opVars
  <1>2. ASSUME NEW q \in Backups, BackupRun(q)
        PROVE  hand'[o] = hand[o] /\ opPc'[o] = opPc[o]
    BY <1>0, <1>2 DEF BackupRun, Start, BackupCheck, BackupCopied, BackupMeta,
           BackupReplica, BackupMetaFile, BackupRename, BackupClean, CleanFails,
           OperationFails, Goto, End
  <1>3. ASSUME NEW q \in Deletes, DeleteRun(q)
        PROVE  hand'[o] = hand[o] /\ opPc'[o] = opPc[o]
    BY <1>0, <1>3 DEF DeleteRun, Start, DeleteArchive, End
  <1>4. ASSUME NEW q \in Restores, RestoreRun(q), q # o
        PROVE  hand'[o] = hand[o] /\ opPc'[o] = opPc[o]
    BY <1>0, <1>4 DEF RestoreRun, Start, RestoreCheck, RestoreRemove, RestoreRmdir,
           RestoreMkdir, RestoreReplica, RestoreFill, RestoreMeta, RestoreReload,
           OperationFails, Goto, End, opVars
  <1>5. CASE RestoreCheck(o)
    BY <1>0, <1>5 DEF RestoreCheck, CheckedInv, Goto, End
  <1>6. CASE RestoreRun(o) /\ ~RestoreCheck(o)
    BY <1>0, <1>6 DEF RestoreRun, Start, RestoreRemove, RestoreRmdir,
           RestoreMkdir, RestoreReplica, RestoreFill, RestoreMeta, RestoreReload,
           OperationFails, Goto, End, opVars
  <1>7. CASE Evict /\ UNCHANGED <<dir, opVars, copiers, expected>>
    BY <1>7 DEF opVars
  <1>8. CASE BackupCrash
    BY <1>0, <1>8 DEF BackupCrash
  <1>9. CASE Tick \/ UNCHANGED vars_b
    BY <1>9 DEF Tick, vars_b, opVars
  <1> QED BY <1>1, <1>2, <1>3, <1>4, <1>5, <1>6, <1>7, <1>8, <1>9 DEF BackupNext

LEMMA KeptInitially == BackupInit => KeptInv
  <1> SUFFICES ASSUME BackupInit PROVE KeptInv
    OBVIOUS
  <1>1. StoreInv
    BY BaseInitially, DurableInitially, OrderInitially DEF BackupInit, StoreInv
  <1>2. CheckedInv
    BY DEF BackupInit, CheckedInv, Op
  <1>3. UntouchedInv
    BY DEF BackupInit, UntouchedInv, Init, Op, Archived, RestorePoints, Proc
  <1> QED BY <1>1, <1>2, <1>3 DEF KeptInv

LEMMA KeptInductive ==
    ASSUME OneAtATime, FrameInv, KeptInv, [BackupNext]_vars_b
    PROVE  /\ KeptInv'
           /\ Unrestored' => Promise!Next \/ UNCHANGED Promise!vars
  <1>1. CheckedInv'
    BY HandsOfRestores DEF KeptInv, CheckedInv
  <1>2. Unrestored' => Unrestored
    BY HandsOfRestores DEF KeptInv, Unrestored
  <1>3. ASSUME Unrestored'
        PROVE  StoreInv' /\ UntouchedInv' /\ (Promise!Next \/ UNCHANGED Promise!vars)
    <2>1. StoreInv /\ UntouchedInv
      BY <1>2, <1>3 DEF KeptInv
    <2> QED BY <1>3, <2>1, ServerSteps, StoreKept, UntouchedKept
  <1> QED BY <1>1, <1>3 DEF KeptInv

THEOREM KeptAlways == OneAtATime => (BackupSpec => []KeptInv)
  <1> SUFFICES ASSUME OneAtATime PROVE BackupSpec => []KeptInv
    OBVIOUS
  <1>1. FrameInv /\ KeptInv /\ [BackupNext]_vars_b => KeptInv'
    BY KeptInductive
  <1> QED BY <1>1, BackupFrame, KeptInitially, PTL DEF BackupSpec

-----------------------------------------------------------------------------
(* What clients are promised, beside backups.                              *)

\* When clients write one at a time, backups and deletions of archives do not
\* show: until a restore gets hold of an archive, insert_run, embed_run and the
\* read handlers implement the promised database beside every operation of
\* backup.rs, whose files they share and whose lock they do not take.
THEOREM BackupsKeepPromise == OneAtATime => (BackupSpec => KeepsPromise)
  <1> SUFFICES ASSUME OneAtATime PROVE BackupSpec => KeepsPromise
    OBVIOUS
  <1>1. FrameInv /\ KeptInv /\ [BackupNext]_vars_b
          => [Unrestored' => Promise!Next \/ UNCHANGED Promise!vars]_vars_b
    BY KeptInductive
  <1>2. BackupInit => Promise!Init
    BY InitImplements DEF BackupInit
  <1> QED BY <1>1, <1>2, BackupFrame, KeptAlways, PTL DEF BackupSpec, KeepsPromise

\* Until the first restore, a backup that copies .bin to the replica while a
\* write replaces the one and writes the other loses no answered write, no
\* index that was current, and lets no write take effect twice.
THEOREM BackupsLoseNothing ==
    OneAtATime =>
      (BackupSpec => [](Unrestored => AckedDurable /\ NothingLost /\ AckedOnce))
  <1> SUFFICES ASSUME OneAtATime
               PROVE  BackupSpec =>
                        [](Unrestored => AckedDurable /\ NothingLost /\ AckedOnce)
    OBVIOUS
  <1>1. KeptInv => (Unrestored => AckedDurable /\ NothingLost /\ AckedOnce)
    BY DEF KeptInv, StoreInv, DurableInv, OnceInv, AckedOnce
  <1> QED BY <1>1, KeptAlways, PTL

===============================================================================
