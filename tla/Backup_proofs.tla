---------------------------- MODULE Backup_proofs ----------------------------
(***************************************************************************)
(* What holds of every Backup: any set of requests, batches and            *)
(* operations, any interleaving of them, any number of crashes and failing *)
(* file operations, any origin of the files.                               *)
(*                                                                         *)
(* FrameInv   types, who holds which guard, what requests carry            *)
(* StoredInv  what is stored, cached or archived was current at some time  *)
(* NamesInv   how the names of archives stand to the clock and the archive *)
(*            in the making                                                *)
(* CleanInv   how the files stand to each other and to the archives, as    *)
(*            long as nothing failed and no write ran beside an operation  *)
(***************************************************************************)
EXTENDS Backup, FiniteSetTheorems, WellFoundedInduction, TLAPS

USE RequestAssumption, ImageAssumption, BoundAssumption, OperationAssumption

-----------------------------------------------------------------------------
(* The invariants.                                                         *)

\* Guards of the database lock against control points.
GuardInv ==
    /\ \A p \in Proc : pc[p] \in WriteGuarded <=> lockWriter = p
    /\ \A p \in Proc : pc[p] = "ld_read" <=> p \in lockReaders
    /\ lockWriter # NoOne => lockReaders = {}

\* What a request has in its hands where it is.  TEMP, if it is still there
\* when it is renamed, is what the request wrote.
HandsInv ==
    /\ \A p \in Proc : pc[p] \in RecoverPoints => local[p] \in Image
    /\ \A w \in Writer :
         pc[w] \in {"meta", "flush", "rename", "copy", "snap", "count"} =>
            local[w] \in Image
    /\ \A w \in Writer : pc[w] = "rename" => temp \in {Absent, local[w]}
    /\ \A r \in Reader : pc[r] \in {"putsum", "put"} => seen[r] \in Image

\* A backup finds the files it checked for: only a restore removes files, and
\* none runs.  Who has the replica open still sees it.
ArchivableInv ==
    /\ copiers # {} => replica # Absent
    /\ \A o \in Backups :
         opPc[o] \in {"b_copy", "b_meta", "b_replica"} => replica # Absent
    /\ \A o \in Backups :
         opPc[o] \in {"b_replica", "b_metafile"} => meta # Absent
    /\ \A o \in Op : opPc[o] \in RestorePoints => o \in Restores
    /\ \A o \in Op :
         opPc[o] \in {"r_replica", "r_fill", "r_meta", "r_metafill"} => dir

FrameInv == BackupTypeOK /\ GuardInv /\ HandsInv /\ ArchivableInv

\* What is written back, copied or answered from was current when it was read.
FilesCommitted ==
    /\ Intact(bin) => bin \in committed
    /\ Intact(replica) => replica \in committed

HeldCommitted ==
    /\ \A p \in Proc : pc[p] \in RecoverPoints => local[p] \in committed
    /\ \A w \in Writer : pc[w] \in {"copy", "snap"} => local[w] \in committed
    /\ \A r \in Reader : local[r] # Absent => local[r] \in committed

CarriedCommitted ==
    \A o \in Op : hand[o].replica # Torn => hand[o].replica \in committed

AnswersCommitted ==
    /\ indexCache # Absent => indexCache.store \in committed
    /\ CommittedReads

StoredInv ==
    /\ FilesCommitted
    /\ HeldCommitted
    /\ CarriedCommitted
    /\ AnswersCommitted
    /\ ArchivesCommitted

-----------------------------------------------------------------------------
(* Types, guards and what requests carry.                                  *)

\* What every step of a request leaves alone.
LEMMA RequestFrame ==
    ASSUME FrameInv, NEW p \in Proc, Request(p)
    PROVE  /\ UNCHANGED opVars
           /\ dir' = (dir \/ MakesDir(p))
           /\ copiers' \in SUBSET (Proc \cup Op)
  BY DEF Request, OpenCopy, CloseCopy, OpenReplica, CloseReplica, Copying,
         FrameInv, BackupTypeOK

\* Metadata is written into a directory that is there or is made.
LEMMA MetaMakesDir ==
    ASSUME FrameInv, NEW p \in Proc, Request(p),
           pc[p] \in {"meta", "rc_meta"}, meta' # Absent
    PROVE  dir'
  <1>1. dir' = (dir \/ meta' # meta)
    BY RequestFrame DEF MakesDir
  <1>2. meta # Absent => dir
    BY DEF FrameInv, BackupTypeOK
  <1> QED BY <1>1, <1>2

LEMMA LoadKeepsFrame ==
    ASSUME FrameInv, NEW p \in Proc, Request(p), LoadIndex(p), FilesThere(p),
           UNCHANGED copiers
    PROVE  FrameInv'
  <1> USE DEF FrameInv, BackupTypeOK, GuardInv, HandsInv, ArchivableInv,
              WriterPoints, ReaderPoints, LoadPoints, RecoverPoints,
              InsertPoints, EndPoints, WriteGuarded, Proc, Writer, Reader,
              Intact, Cached, diskVars, cacheVars, lockVars, boundVars,
              histVars, opVars, Running
  <1>0. /\ UNCHANGED opVars
        /\ dir' = (dir \/ MakesDir(p))
        /\ copiers' \in SUBSET (Proc \cup Op)
    BY RequestFrame
  <1>1. CASE LoadLock(p)
    BY <1>0, <1>1 DEF LoadLock, MakesDir
  <1>2. CASE LoadRead(p)
    BY <1>0, <1>2 DEF LoadRead, MakesDir, AfterLoad
  <1>3. CASE RecoverLock(p)
    BY <1>0, <1>3 DEF RecoverLock, MakesDir, AfterLoad
  <1>4. CASE RecoverMeta(p)
    <2>a. meta # Torn
      BY <1>4 DEF RecoverMeta, FilesThere
    <2>b. meta' # Absent /\ pc[p] \in {"meta", "rc_meta"}
      BY <1>4 DEF RecoverMeta
    <2>0. dir'
      BY <2>b, MetaMakesDir
    <2>1. BackupTypeOK'
      BY <1>0, <1>4, <2>a, <2>0 DEF RecoverMeta, MakesDir
    <2>2. GuardInv'
      BY <1>0, <1>4, <2>a, <2>0 DEF RecoverMeta, MakesDir
    <2>3. HandsInv'
      BY <1>0, <1>4, <2>a, <2>0 DEF RecoverMeta, MakesDir
    <2>4. ArchivableInv'
      BY <1>0, <1>4, <2>a, <2>0 DEF RecoverMeta, MakesDir
    <2> QED BY <2>1, <2>2, <2>3, <2>4
  <1>5. CASE RecoverWrite(p)
    <2>0. dir'
      BY <1>0, <1>5 DEF RecoverWrite, MakesDir, FilesThere
    <2>1. BackupTypeOK'
      BY <1>0, <1>5, <2>0 DEF RecoverWrite, MakesDir
    <2>2. GuardInv'
      BY <1>0, <1>5, <2>0 DEF RecoverWrite, MakesDir
    <2>3. HandsInv'
      BY <1>0, <1>5, <2>0 DEF RecoverWrite, MakesDir
    <2>4. ArchivableInv'
      BY <1>0, <1>5, <2>0 DEF RecoverWrite, MakesDir
    <2> QED BY <2>1, <2>2, <2>3, <2>4
  <1>6. CASE RecoverFlush(p)
    <2>0. dir'
      BY <1>0, <1>6 DEF RecoverFlush, FilesThere
    <2>1. BackupTypeOK'
      BY <1>0, <1>6, <2>0 DEF RecoverFlush, MakesDir, AfterLoad
    <2>2. GuardInv'
      BY <1>0, <1>6, <2>0 DEF RecoverFlush, MakesDir, AfterLoad
    <2>3. HandsInv'
      BY <1>0, <1>6, <2>0 DEF RecoverFlush, MakesDir, AfterLoad
    <2>4. ArchivableInv'
      BY <1>0, <1>6, <2>0 DEF RecoverFlush, MakesDir, AfterLoad
    <2> QED BY <2>1, <2>2, <2>3, <2>4
  <1>7. CASE RecoverFails(p)
    <2>0. UNCHANGED <<replica, meta, dir>>
      BY <1>0, <1>7 DEF RecoverFails, MakesDir
    <2>1. BackupTypeOK'
      BY <1>0, <1>7, <2>0 DEF RecoverFails, MakesDir, AfterLoad
    <2>2. GuardInv'
      BY <1>0, <1>7, <2>0 DEF RecoverFails, MakesDir, AfterLoad
    <2>3. HandsInv'
      BY <1>0, <1>7, <2>0 DEF RecoverFails, MakesDir, AfterLoad
    <2>4. ArchivableInv'
      BY <1>0, <1>7, <2>0, SMTT(30) DEF RecoverFails, MakesDir, AfterLoad
    <2> QED BY <2>1, <2>2, <2>3, <2>4
  <1> QED BY <1>0, <1>1, <1>2, <1>3, <1>4, <1>5, <1>6, <1>7
          DEF LoadIndex

LEMMA WriteKeepsFrame ==
    ASSUME FrameInv, NEW p \in Writer, Request(p), FilesThere(p),
           UNCHANGED copiers,
           \/ Begin(p)
           \/ AcquireWrite(p)
           \/ FetchFails(p)
           \/ WriteMeta(p)
           \/ FlushTemp(p)
           \/ Rename(p)
           \/ UpdateCount(p)
           \/ WriteFails(p)
           \/ ReplicaFails(p)
           \/ CountFails(p)
    PROVE  FrameInv'
  <1> USE DEF FrameInv, BackupTypeOK, GuardInv, HandsInv, ArchivableInv,
              WriterPoints, ReaderPoints, LoadPoints, RecoverPoints,
              InsertPoints, EndPoints, WriteGuarded, Proc, Writer, Reader,
              Intact, Cached, diskVars, cacheVars, lockVars, boundVars,
              histVars, opVars, Running
  <1>0. /\ UNCHANGED opVars
        /\ dir' = (dir \/ MakesDir(p))
        /\ copiers' \in SUBSET (Proc \cup Op)
    BY RequestFrame
  <1>1. CASE Begin(p)
    BY <1>0, <1>1 DEF Begin, MakesDir
  <1>2. CASE AcquireWrite(p)
    BY <1>0, <1>2 DEF AcquireWrite, MakesDir
  <1>3. CASE FetchFails(p)
    BY <1>0, <1>3 DEF FetchFails, MakesDir, GiveUp
  <1>4. CASE WriteMeta(p)
    <2>a. meta # Torn
      BY <1>4 DEF WriteMeta, FilesThere
    <2>b. meta' # Absent /\ pc[p] \in {"meta", "rc_meta"}
      BY <1>4 DEF WriteMeta
    <2>0. dir'
      BY <2>b, MetaMakesDir
    <2>1. BackupTypeOK'
      BY <1>0, <1>4, <2>a, <2>0 DEF WriteMeta, MakesDir
    <2>2. GuardInv'
      BY <1>0, <1>4, <2>a, <2>0 DEF WriteMeta, MakesDir
    <2>3. HandsInv'
      BY <1>0, <1>4, <2>a, <2>0 DEF WriteMeta, MakesDir
    <2>4. ArchivableInv'
      BY <1>0, <1>4, <2>a, <2>0 DEF WriteMeta, MakesDir
    <2> QED BY <2>1, <2>2, <2>3, <2>4
  <1>5. CASE FlushTemp(p)
    <2>0. dir'
      BY <1>0, <1>5 DEF FlushTemp, FilesThere
    <2>1. BackupTypeOK'
      BY <1>0, <1>5, <2>0 DEF FlushTemp, MakesDir
    <2>2. GuardInv'
      BY <1>0, <1>5, <2>0 DEF FlushTemp, MakesDir
    <2>3. HandsInv'
      BY <1>0, <1>5, <2>0 DEF FlushTemp, MakesDir
    <2>4. ArchivableInv'
      BY <1>0, <1>5, <2>0 DEF FlushTemp, MakesDir
    <2> QED BY <2>1, <2>2, <2>3, <2>4
  <1>6. CASE Rename(p)
    <2>0. dir' /\ temp # Absent
      BY <1>0, <1>6 DEF Rename, FilesThere
    <2>1. BackupTypeOK'
      BY <1>0, <1>6, <2>0 DEF Rename, MakesDir
    <2>2. GuardInv'
      BY <1>0, <1>6, <2>0 DEF Rename, MakesDir
    <2>3. HandsInv'
      BY <1>0, <1>6, <2>0 DEF Rename, MakesDir
    <2>4. ArchivableInv'
      BY <1>0, <1>6, <2>0 DEF Rename, MakesDir
    <2> QED BY <2>1, <2>2, <2>3, <2>4
  <1>7. CASE UpdateCount(p)
    BY <1>0, <1>7 DEF UpdateCount, MakesDir
  <1>8. CASE WriteFails(p)
    BY <1>0, <1>8 DEF WriteFails, MakesDir, GiveUp
  <1>9. CASE ReplicaFails(p)
    BY <1>0, <1>9 DEF ReplicaFails, MakesDir
  <1>10. CASE CountFails(p)
    BY <1>0, <1>10 DEF CountFails, MakesDir
  <1> QED BY <1>0, <1>1, <1>2, <1>3, <1>4, <1>5, <1>6, <1>7, <1>8,
             <1>9, <1>10
          DEF Proc

LEMMA ApplyKeepsFrame ==
    ASSUME FrameInv, NEW p \in Writer, Request(p), Apply(p),
           UNCHANGED copiers
    PROVE  FrameInv'
  <1> USE DEF FrameInv, BackupTypeOK, GuardInv, HandsInv, ArchivableInv,
              WriterPoints, ReaderPoints, LoadPoints, RecoverPoints,
              InsertPoints, EndPoints, WriteGuarded, Proc, Writer, Reader,
              Intact, Cached, diskVars, cacheVars, lockVars, boundVars,
              histVars, opVars, Running
  <1>0. /\ UNCHANGED opVars
        /\ dir' = (dir \/ MakesDir(p))
        /\ copiers' \in SUBSET (Proc \cup Op)
    BY RequestFrame
  <1> DEFINE new == BaseOf(p) \cup {BatchOf[p]}
  <1>1. new \in Image
    <2>1. BaseOf(p) \in Image
      BY DEF Apply, BaseOf, Image
    <2>2. BatchOf[p] \in Batch
      OBVIOUS
    <2> QED BY <2>1, <2>2 DEF Image
  <1>2. dir' = dir
    BY <1>0 DEF Apply, MakesDir
  <1>3. CASE BatchOf[p] \in BaseOf(p)
    <2>0. /\ GiveUp(p)
          /\ pc[p] = "apply"
          /\ UNCHANGED <<diskVars, counted, cacheVars, lockReaders, loader,
                         seen, boundVars, histVars>>
      BY <1>3 DEF Apply
    <2>1. BackupTypeOK'
      BY <1>0, <1>2, <2>0 DEF GiveUp
    <2>2. GuardInv'
      BY <1>0, <1>2, <2>0 DEF GiveUp
    <2>3. HandsInv'
      BY <1>0, <1>2, <2>0 DEF GiveUp
    <2>4. ArchivableInv'
      BY <1>0, <1>2, <2>0 DEF GiveUp
    <2> QED BY <2>1, <2>2, <2>3, <2>4
  <1>4. CASE BatchOf[p] \notin BaseOf(p)
    <2>0. /\ local' = [local EXCEPT ![p] = new]
          /\ pc[p] = "apply"
          /\ pc' = [pc EXCEPT ![p] = "meta"]
          /\ UNCHANGED <<lockWriter, diskVars, counted, cacheVars, lockReaders,
                         loader, seen, boundVars, histVars>>
      BY <1>4 DEF Apply
    <2> HIDE DEF new
    <2>1. BackupTypeOK'
      BY <1>0, <1>1, <1>2, <2>0
    <2>2. GuardInv'
      BY <1>0, <1>2, <2>0
    <2>3. HandsInv'
      BY <1>0, <1>1, <1>2, <2>0
    <2>4. ArchivableInv'
      BY <1>0, <1>2, <2>0
    <2> QED BY <2>1, <2>2, <2>3, <2>4
  <1> QED BY <1>3, <1>4

LEMMA ReadKeepsFrame ==
    ASSUME FrameInv, NEW p \in Reader, Request(p), FilesThere(p),
           UNCHANGED copiers,
           \/ CheckCache(p)
           \/ RecheckCache(p)
           \/ ReadMeta(p)
           \/ PutSum(p)
           \/ PutIndex(p)
    PROVE  FrameInv'
  <1> USE DEF FrameInv, BackupTypeOK, GuardInv, HandsInv, ArchivableInv,
              WriterPoints, ReaderPoints, LoadPoints, RecoverPoints,
              InsertPoints, EndPoints, WriteGuarded, Proc, Writer, Reader,
              Intact, Cached, diskVars, cacheVars, lockVars, boundVars,
              histVars, opVars, Running
  <1>0. /\ UNCHANGED opVars
        /\ dir' = (dir \/ MakesDir(p))
        /\ copiers' \in SUBSET (Proc \cup Op)
    BY RequestFrame
  <1>1. CASE CheckCache(p)
    BY <1>0, <1>1 DEF CheckCache, MakesDir, CacheValid, Answer
  <1>2. CASE RecheckCache(p)
    BY <1>0, <1>2 DEF RecheckCache, MakesDir, CacheValid, Answer
  <1>3. CASE ReadMeta(p)
    BY <1>0, <1>3 DEF ReadMeta, MakesDir, Finish, FilesThere
  <1>4. CASE PutSum(p)
    BY <1>0, <1>4 DEF PutSum, MakesDir
  <1>5. CASE PutIndex(p)
    <2>1. BackupTypeOK'
      BY <1>0, <1>5 DEF PutIndex, MakesDir, Finish, Answer
    <2>2. GuardInv'
      BY <1>0, <1>5 DEF PutIndex, MakesDir, Finish, Answer
    <2>3. HandsInv'
      BY <1>0, <1>5 DEF PutIndex, MakesDir, Finish, Answer
    <2>4. ArchivableInv'
      BY <1>0, <1>5, SMTT(30) DEF PutIndex, MakesDir, Finish, Answer
    <2> QED BY <2>1, <2>2, <2>3, <2>4
  <1> QED BY <1>0, <1>1, <1>2, <1>3, <1>4, <1>5
          DEF Proc

LEMMA DisturbedKeepsFrame ==
    ASSUME FrameInv, NEW p \in Proc, Request(p), RequestDisturbed(p),
           UNCHANGED copiers
    PROVE  FrameInv'
  <1> USE DEF FrameInv, BackupTypeOK, GuardInv, HandsInv, ArchivableInv,
              WriterPoints, ReaderPoints, LoadPoints, RecoverPoints,
              InsertPoints, EndPoints, WriteGuarded, Proc, Writer, Reader,
              Intact, Cached, diskVars, cacheVars, lockVars, boundVars,
              histVars, opVars, Running
  <1>0. /\ UNCHANGED opVars
        /\ dir' = (dir \/ MakesDir(p))
        /\ copiers' \in SUBSET (Proc \cup Op)
    BY RequestFrame
  <1>1. CASE LoadNothing(p)
    BY <1>0, <1>1 DEF LoadNothing, MakesDir, AfterLoad
  <1>2. CASE RecoverRefused(p)
    BY <1>0, <1>2 DEF RecoverRefused, MakesDir, AfterLoad
  <1>3. CASE RecoverUnseen(p)
    BY <1>0, <1>3 DEF RecoverUnseen, MakesDir, AfterLoad
  <1>4. CASE p \in Writer /\ FlushUnseen(p)
    BY <1>0, <1>4 DEF FlushUnseen, MakesDir, GiveUp
  <1>5. CASE p \in Writer /\ WriteRefused(p)
    BY <1>0, <1>5 DEF WriteRefused, MakesDir, GiveUp
  <1>6. CASE p \in Writer /\ CopyNothing(p)
    BY <1>0, <1>6 DEF CopyNothing, MakesDir, GiveUp
  <1>7. CASE p \in Reader /\ ReadTornMeta(p)
    BY <1>0, <1>7 DEF ReadTornMeta, MakesDir, Finish
  <1> QED BY <1>0, <1>1, <1>2, <1>3, <1>4, <1>5, <1>6, <1>7
          DEF RequestDisturbed

LEMMA CopyKeepsFrame ==
    ASSUME FrameInv, NEW p \in Writer, Request(p),
           OpenCopy(p) \/ CloseCopy(p)
    PROVE  FrameInv'
  <1> USE DEF FrameInv, BackupTypeOK, GuardInv, HandsInv, ArchivableInv,
              WriterPoints, ReaderPoints, LoadPoints, RecoverPoints,
              InsertPoints, EndPoints, WriteGuarded, Proc, Writer, Reader,
              Intact, Cached, diskVars, cacheVars, lockVars, boundVars,
              histVars, opVars, Running
  <1>0. /\ UNCHANGED opVars
        /\ dir' = (dir \/ MakesDir(p))
        /\ copiers' \in SUBSET (Proc \cup Op)
    BY RequestFrame
  <1>1. CASE OpenCopy(p)
    <2>0. dir'
      BY <1>0, <1>1 DEF OpenCopy, CopyReplica
    <2>1. BackupTypeOK'
      BY <1>0, <1>1, <2>0 DEF OpenCopy, CopyReplica, OpenReplica, MakesDir
    <2>2. GuardInv'
      BY <1>0, <1>1, <2>0 DEF OpenCopy, CopyReplica, OpenReplica, MakesDir
    <2>3. HandsInv'
      BY <1>0, <1>1, <2>0 DEF OpenCopy, CopyReplica, OpenReplica, MakesDir
    <2>4. ArchivableInv'
      BY <1>0, <1>1, <2>0 DEF OpenCopy, CopyReplica, OpenReplica, MakesDir
    <2> QED BY <2>1, <2>2, <2>3, <2>4
  <1>2. CASE CloseCopy(p)
    BY <1>0, <1>2 DEF CloseCopy, CloseReplica, MakesDir
  <1> QED BY <1>0, <1>1, <1>2
          DEF Proc

\* The operations and who holds the operation lock.
OpsOK ==
    /\ opPc \in [Op -> OpPoints]
    /\ opHolder \in Op \cup {NoOne}
    /\ \A o \in Op : Running(o) <=> opHolder = o

LEMMA StartKeepsOps ==
    ASSUME OpsOK, NEW o \in Op,
           NEW next \in {"b_check", "r_check", "d_remove"}, Start(o, next)
    PROVE  OpsOK'
  <1> USE DEF OpsOK, Start, Running, OpPoints, BackupPoints, RestorePoints
  <1>1. CASE opHolder = NoOne
    <2>1. opHolder' = o /\ opPc' = [opPc EXCEPT ![o] = next]
      BY <1>1
    <2>2. \A x \in Op : Running(x)' <=> opHolder' = x
      BY <1>1, <2>1
    <2> QED BY <2>1, <2>2
  <1>2. CASE opHolder # NoOne
    <2>1. opHolder' = opHolder /\ opPc' = [opPc EXCEPT ![o] = "failed"]
      BY <1>2
    <2> QED BY <2>1
  <1> QED BY <1>1, <1>2

LEMMA GotoKeepsOps ==
    ASSUME OpsOK, NEW o \in Op, Running(o),
           NEW next \in BackupPoints \cup RestorePoints, Goto(o, next)
    PROVE  OpsOK'
  BY DEF OpsOK, Goto, Running, OpPoints, BackupPoints, RestorePoints

LEMMA EndKeepsOps ==
    ASSUME OpsOK, NEW o \in Op, Running(o), NEW result \in {"done", "failed"},
           End(o, result)
    PROVE  OpsOK'
  BY DEF OpsOK, End, Running, OpPoints, BackupPoints, RestorePoints

LEMMA HandSet ==
    ASSUME hand \in [Op -> Archive], NEW o \in Op
    PROVE  /\ \A n \in Name : [hand EXCEPT ![o].name = n] \in [Op -> Archive]
           /\ \A a \in {Torn} \cup Image :
                /\ [hand EXCEPT ![o].replica = a] \in [Op -> Archive]
                /\ [hand EXCEPT ![o].meta = a] \in [Op -> Archive]
  <1>1. \A a \in Archive : [hand EXCEPT ![o] = a] \in [Op -> Archive]
    OBVIOUS
  <1>2. hand[o] \in Archive
    OBVIOUS
  <1>3. \A n \in Name : [hand[o] EXCEPT !.name = n] \in Archive
    BY <1>2 DEF Archive
  <1>4. \A a \in {Torn} \cup Image :
          /\ [hand[o] EXCEPT !.replica = a] \in Archive
          /\ [hand[o] EXCEPT !.meta = a] \in Archive
    BY <1>2 DEF Archive
  <1> QED BY <1>1, <1>3, <1>4

LEMMA BackupKeepsOps ==
    ASSUME FrameInv, NEW o \in Backups, BackupRun(o)
    PROVE  OpsOK'
  <1>0. OpsOK /\ o \in Op
    BY DEF OpsOK, FrameInv, BackupTypeOK, Op
  <1>1. CASE Start(o, "b_check")
    BY <1>1, <1>0, StartKeepsOps DEF Start, Running, BackupPoints,
             RestorePoints
  <1>2. CASE BackupCheck(o)
    <2>1. CASE Goto(o, "b_meta")
      BY <1>2, <2>1, <1>0, GotoKeepsOps DEF BackupCheck, Running, BackupPoints,
             RestorePoints
    <2>2. CASE Goto(o, "b_copy")
      BY <1>2, <2>2, <1>0, GotoKeepsOps DEF BackupCheck, Running, BackupPoints,
             RestorePoints
    <2>3. CASE End(o, "failed")
      BY <1>2, <2>3, <1>0, EndKeepsOps DEF BackupCheck, Running, BackupPoints,
             RestorePoints
    <2> QED BY <1>2, <2>1, <2>2, <2>3 DEF BackupCheck
  <1>3. CASE BackupCopied(o)
    BY <1>3, <1>0, GotoKeepsOps DEF BackupCopied, Running, BackupPoints,
             RestorePoints
  <1>4. CASE BackupMeta(o)
    <2>1. CASE meta = Absent
      BY <1>4, <2>1, <1>0, EndKeepsOps DEF BackupMeta, Running, BackupPoints,
             RestorePoints
    <2>2. CASE meta # Absent
      BY <1>4, <2>2, <1>0, GotoKeepsOps DEF BackupMeta, Running, BackupPoints,
             RestorePoints
    <2> QED BY <1>4, <2>1, <2>2 DEF BackupMeta
  <1>5. CASE BackupReplica(o)
    BY <1>5, <1>0, GotoKeepsOps DEF BackupReplica, Running, BackupPoints,
             RestorePoints
  <1>6. CASE BackupMetaFile(o)
    BY <1>6, <1>0, GotoKeepsOps DEF BackupMetaFile, Running, BackupPoints,
             RestorePoints
  <1>7. CASE BackupRename(o)
    BY <1>7, <1>0, GotoKeepsOps DEF BackupRename, Running, BackupPoints,
             RestorePoints
  <1>8. CASE BackupClean(o)
    BY <1>8, <1>0, EndKeepsOps DEF BackupClean, Running, BackupPoints,
             RestorePoints
  <1>9. CASE CleanFails(o)
    BY <1>9, <1>0, EndKeepsOps DEF CleanFails, Running, BackupPoints,
             RestorePoints
  <1>10. CASE OperationFails(o)
    BY <1>10, <1>0, EndKeepsOps DEF OperationFails, Running, BackupPoints,
             RestorePoints
  <1> QED BY <1>1, <1>2, <1>3, <1>4, <1>5, <1>6, <1>7, <1>8,
             <1>9, <1>10 DEF BackupRun

LEMMA RestoreKeepsOps ==
    ASSUME FrameInv, NEW o \in Restores, RestoreRun(o)
    PROVE  OpsOK'
  <1>0. OpsOK /\ o \in Op
    BY DEF OpsOK, FrameInv, BackupTypeOK, Op
  <1>1. CASE Start(o, "r_check")
    BY <1>1, <1>0, StartKeepsOps DEF Start, Running, BackupPoints,
             RestorePoints
  <1>2. CASE RestoreCheck(o)
    <2>1. CASE Goto(o, "r_remove")
      BY <1>2, <2>1, <1>0, GotoKeepsOps
      DEF RestoreCheck, Running, BackupPoints,
             RestorePoints
    <2>2. CASE End(o, "failed")
      BY <1>2, <2>2, <1>0, EndKeepsOps DEF RestoreCheck, Running, BackupPoints,
             RestorePoints
    <2> QED BY <1>2, <2>1, <2>2 DEF RestoreCheck
  <1>3. CASE RestoreRemove(o)
    BY <1>3, <1>0 DEF RestoreRemove, Running, BackupPoints,
             RestorePoints, OpsOK, opVars
  <1>4. CASE RestoreRmdir(o)
    BY <1>4, <1>0, GotoKeepsOps DEF RestoreRmdir, Running, BackupPoints,
             RestorePoints
  <1>5. CASE RestoreMkdir(o)
    BY <1>5, <1>0, GotoKeepsOps DEF RestoreMkdir, Running, BackupPoints,
             RestorePoints
  <1>6. CASE RestoreReplica(o)
    BY <1>6, <1>0, GotoKeepsOps DEF RestoreReplica, Running, BackupPoints,
             RestorePoints
  <1>7. CASE RestoreFill(o)
    BY <1>7, <1>0, GotoKeepsOps DEF RestoreFill, Running, BackupPoints,
             RestorePoints
  <1>8. CASE RestoreMeta(o)
    <2>1. CASE opPc[o] = "r_meta"
      BY <1>8, <2>1, <1>0, GotoKeepsOps DEF RestoreMeta, Running, BackupPoints,
             RestorePoints
    <2>2. CASE opPc[o] = "r_metafill"
      BY <1>8, <2>2, <1>0, GotoKeepsOps DEF RestoreMeta, Running, BackupPoints,
             RestorePoints
    <2> QED BY <1>8, <2>1, <2>2 DEF RestoreMeta
  <1>9. CASE RestoreReload(o)
    BY <1>9, <1>0, EndKeepsOps DEF RestoreReload, Running, BackupPoints,
             RestorePoints
  <1>10. CASE OperationFails(o)
    BY <1>10, <1>0, EndKeepsOps DEF OperationFails, Running, BackupPoints,
             RestorePoints
  <1> QED BY <1>1, <1>2, <1>3, <1>4, <1>5, <1>6, <1>7, <1>8,
             <1>9, <1>10 DEF RestoreRun

LEMMA DeleteKeepsOps ==
    ASSUME FrameInv, NEW o \in Deletes, DeleteRun(o)
    PROVE  OpsOK'
  <1>0. OpsOK /\ o \in Op
    BY DEF OpsOK, FrameInv, BackupTypeOK, Op
  <1>1. CASE Start(o, "d_remove")
    BY <1>1, <1>0, StartKeepsOps DEF Start, Running, BackupPoints,
             RestorePoints
  <1>2. CASE DeleteArchive(o)
    BY <1>2, <1>0, EndKeepsOps DEF DeleteArchive, Running, BackupPoints,
             RestorePoints
  <1> QED BY <1>1, <1>2 DEF DeleteRun

LEMMA DeleteKeepsArchives ==
    ASSUME FrameInv, NEW o \in Deletes, DeleteArchive(o)
    PROVE  /\ archives' \in [Name -> {Absent} \cup Archive]
           /\ latest' \in {Absent} \cup Name
  <1>1. \/ UNCHANGED <<archives, latest>>
        \/ \E n \in Archived :
             /\ archives' = [archives EXCEPT ![n] = Absent]
             /\ latest' = IF latest = n THEN Absent ELSE latest
    BY DEF DeleteArchive
  <1>2. /\ archives \in [Name -> {Absent} \cup Archive]
        /\ latest \in {Absent} \cup Name
    BY DEF FrameInv, BackupTypeOK
  <1>3. \A n \in Archived :
          [archives EXCEPT ![n] = Absent] \in [Name -> {Absent} \cup Archive]
    BY <1>2 DEF Archived
  <1> QED BY <1>1, <1>2, <1>3

LEMMA OperationKeepsHand ==
    ASSUME FrameInv,
           \/ \E o \in Backups : BackupRun(o)
           \/ \E o \in Restores : RestoreRun(o)
           \/ \E o \in Deletes : DeleteRun(o)
    PROVE  hand' \in [Op -> Archive]
  <1>0. hand \in [Op -> Archive]
    BY DEF FrameInv, BackupTypeOK
  <1>1. ASSUME NEW o \in Backups, BackupCheck(o)
        PROVE  hand' \in [Op -> Archive]
    <2>1. \/ UNCHANGED hand
          \/ bin # Absent /\ hand' = [hand EXCEPT ![o].replica = bin]
      BY <1>1 DEF BackupCheck
    <2>2. bin # Absent => bin \in {Torn} \cup Image
      BY DEF FrameInv, BackupTypeOK
    <2>3. ASSUME bin # Absent
          PROVE  [hand EXCEPT ![o].replica = bin] \in [Op -> Archive]
      BY <1>0, <2>2, <2>3, HandSet DEF Op
    <2> QED BY <1>0, <2>1, <2>3
  <1>2. ASSUME NEW o \in Backups, BackupMeta(o)
        PROVE  hand' \in [Op -> Archive]
    <2>1. UNCHANGED hand \/ hand' = [hand EXCEPT ![o].name = clock]
      BY <1>2 DEF BackupMeta
    <2>2. clock \in Name
      BY DEF FrameInv, BackupTypeOK
    <2>3. [hand EXCEPT ![o].name = clock] \in [Op -> Archive]
      BY <1>0, <2>2, HandSet DEF Op
    <2> QED BY <1>0, <2>1, <2>3
  <1>3. ASSUME NEW o \in Backups, BackupReplica(o)
        PROVE  hand' \in [Op -> Archive]
    <2>1. replica \in {Torn} \cup Image
      BY <1>3 DEF BackupReplica, FrameInv, BackupTypeOK, ArchivableInv
    <2> QED BY <1>0, <1>3, <2>1, HandSet DEF BackupReplica, Op
  <1>4. ASSUME NEW o \in Backups, BackupMetaFile(o)
        PROVE  hand' \in [Op -> Archive]
    <2>1. meta \in {Torn} \cup Image
      BY <1>4 DEF BackupMetaFile, FrameInv, BackupTypeOK, ArchivableInv
    <2> QED BY <1>0, <1>4, <2>1, HandSet DEF BackupMetaFile, Op
  <1>5. ASSUME NEW o \in Restores, RestoreCheck(o)
        PROVE  hand' \in [Op -> Archive]
    <2>1. \/ UNCHANGED hand
          \/ \E n \in Archived : hand' = [hand EXCEPT ![o] = archives[n]]
      BY <1>5 DEF RestoreCheck
    <2>2. \A n \in Archived : archives[n] \in Archive
      BY DEF FrameInv, BackupTypeOK, Archived
    <2> QED BY <1>0, <2>1, <2>2 DEF Op
  <1>6. ASSUME NEW o \in Op,
               \/ \E next \in {"b_check", "r_check", "d_remove"} :
                    Start(o, next)
               \/ DeleteArchive(o)
        PROVE  hand' = hand
    BY <1>6, Zenon DEF Start, DeleteArchive
  <1>9. ASSUME NEW o \in Op,
               \/ BackupCopied(o)
               \/ BackupRename(o)
               \/ BackupClean(o)
               \/ CleanFails(o)
               \/ OperationFails(o)
        PROVE  hand' = hand
    BY <1>9, ZenonT(30) DEF BackupCopied, BackupRename, BackupClean,
                             CleanFails, OperationFails
  <1>7. ASSUME NEW o \in Op,
               \/ RestoreRemove(o)
               \/ RestoreRmdir(o)
               \/ RestoreMkdir(o)
        PROVE  hand' = hand
    BY <1>7, Zenon DEF RestoreRemove, RestoreRmdir, RestoreMkdir, opVars
  <1>8. ASSUME NEW o \in Op,
               \/ RestoreReplica(o)
               \/ RestoreFill(o)
               \/ RestoreMeta(o)
               \/ RestoreReload(o)
        PROVE  hand' = hand
    BY <1>8, Zenon DEF RestoreReplica, RestoreFill, RestoreMeta, RestoreReload
  <1> QED BY <1>0, <1>1, <1>2, <1>3, <1>4, <1>5, <1>6, <1>7, <1>8, <1>9
          DEF BackupRun, RestoreRun, DeleteRun, Op

LEMMA BackupKeepsFrame ==
    ASSUME FrameInv, NEW o \in Backups, BackupRun(o)
    PROVE  FrameInv'
  <1>0. OpsOK' /\ hand' \in [Op -> Archive]
    BY BackupKeepsOps, OperationKeepsHand
  <1> USE DEF FrameInv, BackupTypeOK, GuardInv, HandsInv, ArchivableInv,
              WriterPoints, ReaderPoints, LoadPoints, RecoverPoints,
              InsertPoints, EndPoints, WriteGuarded, Proc, Writer, Reader,
              Intact, Cached, diskVars, cacheVars, lockVars, boundVars,
              histVars, opVars, Running, Op, BackupPoints,
              RestorePoints, OpPoints, Goto, End, vars, serverVars, Archive,
              NoArchive, Name
  <1>1. CASE Start(o, "b_check")
    BY <1>1, <1>0 DEF Start, OpsOK
  <1>2. CASE BackupCheck(o)
    BY <1>2, <1>0 DEF BackupCheck, OpenReplica, Copying, OpsOK
  <1>3. CASE BackupCopied(o)
    BY <1>3, <1>0 DEF BackupCopied, CloseReplica, OpsOK
  <1>4. CASE BackupMeta(o)
    BY <1>4, <1>0 DEF BackupMeta, OpsOK
  <1>5. CASE BackupReplica(o)
    BY <1>5, <1>0 DEF BackupReplica, OpsOK
  <1>6. CASE BackupMetaFile(o)
    BY <1>6, <1>0 DEF BackupMetaFile, OpsOK
  <1>7. CASE BackupRename(o)
    BY <1>7, <1>0 DEF BackupRename, OpsOK
  <1>8. CASE BackupClean(o)
    BY <1>8, <1>0 DEF BackupClean, OpsOK
  <1>9. CASE CleanFails(o)
    BY <1>9, <1>0 DEF CleanFails, OpsOK
  <1>10. CASE OperationFails(o)
    <2>0. UNCHANGED <<replica, meta, dir, copiers>>
      BY <1>10 DEF OperationFails
    <2>1. BackupTypeOK'
      BY <1>10, <1>0 DEF OperationFails, OpsOK
    <2>2. GuardInv'
      BY <1>10, <2>0 DEF OperationFails
    <2>3. HandsInv'
      BY <1>10, <2>0 DEF OperationFails
    <2>4. ArchivableInv'
      BY <1>10, <2>0, SMTT(30) DEF OperationFails
    <2> QED BY <2>1, <2>2, <2>3, <2>4
  <1> QED BY <1>1, <1>2, <1>3, <1>4, <1>5, <1>6, <1>7, <1>8,
             <1>9, <1>10 DEF BackupRun

LEMMA RestoreKeepsFrame ==
    ASSUME FrameInv, NEW o \in Restores, RestoreRun(o)
    PROVE  FrameInv'
  <1>0. OpsOK' /\ hand' \in [Op -> Archive]
    BY RestoreKeepsOps, OperationKeepsHand
  <1> USE DEF FrameInv, BackupTypeOK, GuardInv, HandsInv, ArchivableInv,
              WriterPoints, ReaderPoints, LoadPoints, RecoverPoints,
              InsertPoints, EndPoints, WriteGuarded, Proc, Writer, Reader,
              Intact, Cached, diskVars, cacheVars, lockVars, boundVars,
              histVars, opVars, Running, Op, BackupPoints,
              RestorePoints, OpPoints, Goto, End, vars, serverVars, Archive,
              NoArchive, Name
  <1>1. CASE Start(o, "r_check")
    BY <1>1, <1>0 DEF Start, OpsOK
  <1>2. CASE RestoreCheck(o)
    BY <1>2, <1>0 DEF RestoreCheck, Archived, OpsOK
  <1>3. CASE RestoreRemove(o)
    BY <1>3, <1>0 DEF RestoreRemove, OpsOK
  <1>4. CASE RestoreRmdir(o)
    <2>0. /\ \A file \in {bin', temp', replica', meta'} : file = Absent
          /\ dir' \in BOOLEAN
      BY <1>4 DEF RestoreRmdir
    <2>1. BackupTypeOK'
      BY <1>4, <1>0, <2>0 DEF RestoreRmdir, OpsOK
    <2>2. GuardInv'
      BY <1>4, <2>0 DEF RestoreRmdir
    <2>3. HandsInv'
      BY <1>4, <2>0 DEF RestoreRmdir
    <2>4. ArchivableInv'
      BY <1>4, <2>0 DEF RestoreRmdir
    <2> QED BY <2>1, <2>2, <2>3, <2>4
  <1>5. CASE RestoreMkdir(o)
    BY <1>5, <1>0 DEF RestoreMkdir, OpsOK
  <1>6. CASE RestoreReplica(o)
    <2>0. dir' /\ replica' = Torn
      BY <1>6 DEF RestoreReplica, OpenReplica, Copying
    <2>1. BackupTypeOK'
      BY <1>6, <1>0, <2>0 DEF RestoreReplica, OpenReplica, Copying, OpsOK
    <2>2. GuardInv'
      BY <1>6, <2>0 DEF RestoreReplica, OpenReplica, Copying
    <2>3. HandsInv'
      BY <1>6, <2>0 DEF RestoreReplica, OpenReplica, Copying
    <2>4. ArchivableInv'
      BY <1>6, <2>0 DEF RestoreReplica, OpenReplica, Copying
    <2> QED BY <2>1, <2>2, <2>3, <2>4
  <1>7. CASE RestoreFill(o)
    BY <1>7, <1>0 DEF RestoreFill, CloseReplica, OpsOK
  <1>8. CASE RestoreMeta(o)
    <2>0. dir' /\ meta' \in {Torn} \cup Image
      BY <1>8 DEF RestoreMeta
    <2>1. BackupTypeOK'
      BY <1>8, <1>0, <2>0 DEF RestoreMeta, OpsOK
    <2>2. GuardInv'
      BY <1>8, <2>0 DEF RestoreMeta
    <2>3. HandsInv'
      BY <1>8, <2>0 DEF RestoreMeta
    <2>4. ArchivableInv'
      BY <1>8, <2>0 DEF RestoreMeta
    <2> QED BY <2>1, <2>2, <2>3, <2>4
  <1>9. CASE RestoreReload(o)
    BY <1>9, <1>0 DEF RestoreReload, OpsOK
  <1>10. CASE OperationFails(o)
    <2>0. UNCHANGED <<replica, meta, dir, copiers>>
      BY <1>10 DEF OperationFails
    <2>1. BackupTypeOK'
      BY <1>10, <1>0 DEF OperationFails, OpsOK
    <2>2. GuardInv'
      BY <1>10, <2>0 DEF OperationFails
    <2>3. HandsInv'
      BY <1>10, <2>0 DEF OperationFails
    <2>4. ArchivableInv'
      BY <1>10, <2>0, SMTT(30) DEF OperationFails
    <2> QED BY <2>1, <2>2, <2>3, <2>4
  <1> QED BY <1>1, <1>2, <1>3, <1>4, <1>5, <1>6, <1>7, <1>8,
             <1>9, <1>10 DEF RestoreRun

LEMMA DeleteKeepsFrame ==
    ASSUME FrameInv, NEW o \in Deletes, DeleteRun(o)
    PROVE  FrameInv'
  <1>0. OpsOK' /\ hand' \in [Op -> Archive]
    BY DeleteKeepsOps, OperationKeepsHand
  <1> USE DEF FrameInv, BackupTypeOK, GuardInv, HandsInv, ArchivableInv,
              WriterPoints, ReaderPoints, LoadPoints, RecoverPoints,
              InsertPoints, EndPoints, WriteGuarded, Proc, Writer, Reader,
              Intact, Cached, diskVars, cacheVars, lockVars, boundVars,
              histVars, opVars, Running, Op, BackupPoints,
              RestorePoints, OpPoints, Goto, End, vars, serverVars, Archive,
              NoArchive, Name
  <1>1. CASE Start(o, "d_remove")
    BY <1>1, <1>0 DEF Start, OpsOK
  <1>2. CASE DeleteArchive(o)
    <2>0. /\ archives' \in [Name -> {Absent} \cup Archive]
          /\ latest' \in {Absent} \cup Name
      BY <1>2, DeleteKeepsArchives
    <2>1. BackupTypeOK'
      BY <1>2, <1>0, <2>0 DEF DeleteArchive, Archived, OpsOK
    <2>2. GuardInv'
      BY <1>2, <2>0 DEF DeleteArchive, Archived
    <2>3. HandsInv'
      BY <1>2, <2>0 DEF DeleteArchive, Archived
    <2>4. ArchivableInv'
      BY <1>2, <2>0 DEF DeleteArchive, Archived
    <2> QED BY <2>1, <2>2, <2>3, <2>4
  <1> QED BY <1>1, <1>2 DEF DeleteRun

LEMMA RequestKeepsFrame ==
    ASSUME FrameInv, NEW p \in Proc, Request(p)
    PROVE  FrameInv'
  <1>1. CASE RequestUndisturbed(p) /\ UNCHANGED copiers
    <2>0. /\ FilesThere(p)
          /\ pc[p] \in {"copy", "snap"} => faults' # faults
          /\ UNCHANGED copiers
      BY <1>1 DEF RequestUndisturbed
    <2>1. CASE LoadIndex(p)
      BY <2>0, <2>1, LoadKeepsFrame
    <2>2. CASE p \in Writer /\ ~LoadIndex(p)
      <3>1. InsertRun(p) \/ EmbedRun(p)
        BY <1>1, <2>2 DEF RequestUndisturbed, Writer, Reader
      <3>2. ~CopyReplica(p) /\ ~SnapReplica(p)
        BY <2>0 DEF CopyReplica, SnapReplica, boundVars
      <3>3. CASE Apply(p)
        BY <2>0, <2>2, <3>3, ApplyKeepsFrame
      <3> QED
        BY <2>0, <2>2, <3>1, <3>2, <3>3, WriteKeepsFrame
        DEF InsertRun, EmbedRun, Persist
    <2>3. CASE p \in Reader /\ ~LoadIndex(p)
      <3>1. ReadIndex(p)
        BY <1>1, <2>3
        DEF RequestUndisturbed, Writer, Reader, QueryVector, QuerySearch,
            IndexByPage
      <3> QED BY <2>0, <2>3, <3>1, ReadKeepsFrame DEF ReadIndex
    <2> QED BY <2>1, <2>2, <2>3 DEF Proc
  <1>2. CASE RequestDisturbed(p) /\ UNCHANGED copiers
    BY <1>2, DisturbedKeepsFrame
  <1>3. CASE p \in Writer /\ (OpenCopy(p) \/ CloseCopy(p))
    BY <1>3, CopyKeepsFrame
  <1> QED BY <1>1, <1>2, <1>3 DEF Request

LEMMA OthersKeepFrame ==
    ASSUME FrameInv,
           \/ Evict /\ UNCHANGED <<dir, opVars, copiers, expected>>
           \/ BackupCrash
           \/ Tick
           \/ UNCHANGED vars_b
    PROVE  FrameInv'
  <1> USE DEF FrameInv, BackupTypeOK, GuardInv, HandsInv, ArchivableInv,
              WriterPoints, ReaderPoints, LoadPoints, RecoverPoints,
              InsertPoints, EndPoints, WriteGuarded, Proc, Writer, Reader,
              Intact, Cached, diskVars, cacheVars, lockVars, boundVars,
              histVars, opVars, Running, Op, BackupPoints,
              RestorePoints, OpPoints, Goto, End, vars, serverVars, Archive,
              NoArchive, Name
  <1>1. CASE Evict /\ UNCHANGED <<dir, opVars, copiers, expected>>
    <2>1. BackupTypeOK'
      BY <1>1 DEF Evict
    <2>2. GuardInv'
      BY <1>1 DEF Evict
    <2>3. HandsInv'
      BY <1>1 DEF Evict
    <2>4. ArchivableInv'
      BY <1>1 DEF Evict
    <2> QED BY <2>1, <2>2, <2>3, <2>4
  <1>2. CASE BackupCrash
    <2>1. BackupTypeOK'
      BY <1>2 DEF BackupCrash, Crash, InFlight
    <2>2. GuardInv'
      BY <1>2 DEF BackupCrash, Crash, InFlight
    <2>3. HandsInv'
      BY <1>2 DEF BackupCrash, Crash, InFlight
    <2>4. ArchivableInv'
      BY <1>2 DEF BackupCrash, Crash, InFlight
    <2> QED BY <2>1, <2>2, <2>3, <2>4
  <1>3. CASE Tick
    BY <1>3 DEF Tick
  <1>4. CASE UNCHANGED vars_b
    BY <1>4 DEF vars_b
  <1> QED BY <1>1, <1>2, <1>3, <1>4

LEMMA FrameInitially ==
    ASSUME BackupInit
    PROVE  FrameInv
  <1> USE DEF BackupInit, Init, Files, WriterPoints, ReaderPoints, LoadPoints,
              RecoverPoints, InsertPoints, EndPoints, WriteGuarded, Proc,
              Writer, Reader, Intact, Cached, Running, Op, BackupPoints,
              RestorePoints, OpPoints, Archive, NoArchive, Name
  <1>1. BackupTypeOK
    BY DEF BackupTypeOK
  <1>2. GuardInv
    BY DEF GuardInv
  <1>3. HandsInv
    BY DEF HandsInv
  <1>4. ArchivableInv
    BY DEF ArchivableInv
  <1> QED BY <1>1, <1>2, <1>3, <1>4 DEF FrameInv

LEMMA FrameInductive == FrameInv /\ [BackupNext]_vars_b => FrameInv'
  <1> SUFFICES ASSUME FrameInv, [BackupNext]_vars_b
               PROVE  FrameInv'
    OBVIOUS
  <1> QED
    BY RequestKeepsFrame, BackupKeepsFrame, RestoreKeepsFrame,
       DeleteKeepsFrame, OthersKeepFrame
    DEF BackupNext

THEOREM BackupFrame == BackupSpec => []FrameInv
  BY FrameInitially, FrameInductive, PTL DEF BackupSpec

\* Files, caches, locks, requests and operations only take the values that
\* the code has for them, and at most one operation runs at a time, the one
\* that holds the operation lock.
THEOREM BackupTyping == BackupSpec => []BackupTypeOK
  BY BackupFrame, PTL DEF FrameInv

-----------------------------------------------------------------------------
(* What is stored, cached or archived was current at some time.            *)

LEMMA LoadKeepsStored ==
    ASSUME FrameInv, StoredInv, NEW p \in Proc, Request(p), LoadIndex(p)
    PROVE  StoredInv'
  <1> USE DEF FrameInv, BackupTypeOK, GuardInv, HandsInv, StoredInv,
              FilesCommitted, HeldCommitted, CarriedCommitted,
              AnswersCommitted, CommittedReads, ArchivesCommitted, Archived,
              WriterPoints, ReaderPoints, LoadPoints, RecoverPoints,
              InsertPoints, EndPoints, WriteGuarded, Proc, Writer, Reader,
              Intact, Cached, diskVars, cacheVars, lockVars, boundVars,
              histVars, opVars
  <1>0. UNCHANGED opVars
    BY RequestFrame
  <1>1. CASE LoadLock(p)
    BY <1>1, <1>0 DEF LoadLock
  <1>2. CASE LoadRead(p)
    BY <1>2, <1>0 DEF LoadRead, AfterLoad
  <1>3. CASE RecoverLock(p)
    BY <1>3, <1>0 DEF RecoverLock, AfterLoad
  <1>4. CASE RecoverMeta(p)
    BY <1>4, <1>0 DEF RecoverMeta
  <1>5. CASE RecoverWrite(p)
    BY <1>5, <1>0 DEF RecoverWrite
  <1>6. CASE RecoverFlush(p)
    BY <1>6, <1>0 DEF RecoverFlush, AfterLoad
  <1>7. CASE RecoverFails(p)
    <2>1. FilesCommitted'
      BY <1>7, <1>0 DEF RecoverFails, AfterLoad
    <2>2. HeldCommitted'
      BY <1>7, <1>0 DEF RecoverFails, AfterLoad
    <2>3. CarriedCommitted'
      BY <1>7, <1>0 DEF RecoverFails, AfterLoad
    <2>4. AnswersCommitted'
      BY <1>7, <1>0 DEF RecoverFails, AfterLoad
    <2>5. ArchivesCommitted'
      BY <1>7, <1>0 DEF RecoverFails, AfterLoad
    <2> QED BY <2>1, <2>2, <2>3, <2>4, <2>5
  <1> QED BY <1>1, <1>2, <1>3, <1>4, <1>5, <1>6, <1>7 DEF LoadIndex

LEMMA WriteKeepsStored ==
    ASSUME FrameInv, StoredInv, NEW p \in Writer, Request(p), FilesThere(p),
           \/ Begin(p)
           \/ AcquireWrite(p)
           \/ Apply(p)
           \/ FetchFails(p)
           \/ WriteMeta(p)
           \/ FlushTemp(p)
           \/ Rename(p)
           \/ UpdateCount(p)
           \/ WriteFails(p)
           \/ ReplicaFails(p)
           \/ CountFails(p)
    PROVE  StoredInv'
  <1> USE DEF FrameInv, BackupTypeOK, GuardInv, HandsInv, StoredInv,
              FilesCommitted, HeldCommitted, CarriedCommitted,
              AnswersCommitted, CommittedReads, ArchivesCommitted, Archived,
              WriterPoints, ReaderPoints, LoadPoints, RecoverPoints,
              InsertPoints, EndPoints, WriteGuarded, Proc, Writer, Reader,
              Intact, Cached, diskVars, cacheVars, lockVars, boundVars,
              histVars, opVars
  <1>0. UNCHANGED opVars
    BY RequestFrame
  <1>1. CASE Begin(p)
    BY <1>1, <1>0 DEF Begin
  <1>2. CASE AcquireWrite(p)
    BY <1>2, <1>0 DEF AcquireWrite
  <1>3. CASE Apply(p)
    BY <1>3, <1>0 DEF Apply, GiveUp
  <1>4. CASE FetchFails(p)
    BY <1>4, <1>0 DEF FetchFails, GiveUp
  <1>5. CASE WriteMeta(p)
    BY <1>5, <1>0 DEF WriteMeta
  <1>6. CASE FlushTemp(p)
    BY <1>6, <1>0 DEF FlushTemp
  <1>7. CASE Rename(p)
    BY <1>7, <1>0 DEF Rename, FilesThere
  <1>8. CASE UpdateCount(p)
    BY <1>8, <1>0 DEF UpdateCount
  <1>9. CASE WriteFails(p)
    BY <1>9, <1>0 DEF WriteFails, GiveUp
  <1>10. CASE ReplicaFails(p)
    BY <1>10, <1>0 DEF ReplicaFails
  <1>11. CASE CountFails(p)
    BY <1>11, <1>0 DEF CountFails
  <1> QED BY <1>1, <1>2, <1>3, <1>4, <1>5, <1>6, <1>7, <1>8,
             <1>9, <1>10, <1>11

LEMMA ReadKeepsStored ==
    ASSUME FrameInv, StoredInv, NEW p \in Reader, Request(p),
           \/ CheckCache(p)
           \/ RecheckCache(p)
           \/ ReadMeta(p)
           \/ PutSum(p)
           \/ PutIndex(p)
    PROVE  StoredInv'
  <1> USE DEF FrameInv, BackupTypeOK, GuardInv, HandsInv, StoredInv,
              FilesCommitted, HeldCommitted, CarriedCommitted,
              AnswersCommitted, CommittedReads, ArchivesCommitted, Archived,
              WriterPoints, ReaderPoints, LoadPoints, RecoverPoints,
              InsertPoints, EndPoints, WriteGuarded, Proc, Writer, Reader,
              Intact, Cached, diskVars, cacheVars, lockVars, boundVars,
              histVars, opVars
  <1>0. UNCHANGED opVars
    BY RequestFrame
  <1>1. CASE CheckCache(p)
    BY <1>1, <1>0 DEF CheckCache, CacheValid, Answer
  <1>2. CASE RecheckCache(p)
    BY <1>2, <1>0 DEF RecheckCache, CacheValid, Answer
  <1>3. CASE ReadMeta(p)
    BY <1>3, <1>0 DEF ReadMeta, Finish
  <1>4. CASE PutSum(p)
    BY <1>4, <1>0 DEF PutSum
  <1>5. CASE PutIndex(p)
    <2>1. FilesCommitted'
      BY <1>5, <1>0 DEF PutIndex, Finish, Answer
    <2>2. HeldCommitted'
      BY <1>5, <1>0 DEF PutIndex, Finish, Answer
    <2>3. CarriedCommitted'
      BY <1>5, <1>0 DEF PutIndex, Finish, Answer
    <2>4. AnswersCommitted'
      BY <1>5, <1>0 DEF PutIndex, Finish, Answer
    <2>5. ArchivesCommitted'
      BY <1>5, <1>0 DEF PutIndex, Finish, Answer
    <2> QED BY <2>1, <2>2, <2>3, <2>4, <2>5
  <1> QED BY <1>1, <1>2, <1>3, <1>4, <1>5

LEMMA DisturbedKeepsStored ==
    ASSUME FrameInv, StoredInv, NEW p \in Proc, Request(p), RequestDisturbed(p)
    PROVE  StoredInv'
  <1> USE DEF FrameInv, BackupTypeOK, GuardInv, HandsInv, StoredInv,
              FilesCommitted, HeldCommitted, CarriedCommitted,
              AnswersCommitted, CommittedReads, ArchivesCommitted, Archived,
              WriterPoints, ReaderPoints, LoadPoints, RecoverPoints,
              InsertPoints, EndPoints, WriteGuarded, Proc, Writer, Reader,
              Intact, Cached, diskVars, cacheVars, lockVars, boundVars,
              histVars, opVars
  <1>0. UNCHANGED opVars
    BY RequestFrame
  <1>1. CASE LoadNothing(p)
    BY <1>1, <1>0 DEF LoadNothing, AfterLoad
  <1>2. CASE RecoverRefused(p)
    BY <1>2, <1>0 DEF RecoverRefused, AfterLoad
  <1>3. CASE RecoverUnseen(p)
    BY <1>3, <1>0 DEF RecoverUnseen, AfterLoad
  <1>4. CASE p \in Writer /\ FlushUnseen(p)
    BY <1>4, <1>0 DEF FlushUnseen, GiveUp
  <1>5. CASE p \in Writer /\ WriteRefused(p)
    BY <1>5, <1>0 DEF WriteRefused, GiveUp
  <1>6. CASE p \in Writer /\ CopyNothing(p)
    BY <1>6, <1>0 DEF CopyNothing, GiveUp
  <1>7. CASE p \in Reader /\ ReadTornMeta(p)
    BY <1>7, <1>0 DEF ReadTornMeta, Finish
  <1> QED BY <1>1, <1>2, <1>3, <1>4, <1>5, <1>6, <1>7 DEF RequestDisturbed

LEMMA CopyKeepsStored ==
    ASSUME FrameInv, StoredInv, NEW p \in Writer, Request(p),
           OpenCopy(p) \/ CloseCopy(p)
    PROVE  StoredInv'
  <1> USE DEF FrameInv, BackupTypeOK, GuardInv, HandsInv, StoredInv,
              FilesCommitted, HeldCommitted, CarriedCommitted,
              AnswersCommitted, CommittedReads, ArchivesCommitted, Archived,
              WriterPoints, ReaderPoints, LoadPoints, RecoverPoints,
              InsertPoints, EndPoints, WriteGuarded, Proc, Writer, Reader,
              Intact, Cached, diskVars, cacheVars, lockVars, boundVars,
              histVars, opVars
  <1>0. UNCHANGED opVars
    BY RequestFrame
  <1>1. CASE OpenCopy(p)
    BY <1>1, <1>0 DEF OpenCopy, CopyReplica, OpenReplica
  <1>2. CASE CloseCopy(p)
    BY <1>2, <1>0 DEF CloseCopy, CloseReplica
  <1> QED BY <1>1, <1>2

LEMMA BackupKeepsStored ==
    ASSUME FrameInv, StoredInv, NEW o \in Backups, BackupRun(o)
    PROVE  StoredInv'
  <1> USE DEF FrameInv, BackupTypeOK, GuardInv, HandsInv, StoredInv,
              FilesCommitted, HeldCommitted, CarriedCommitted,
              AnswersCommitted, CommittedReads, ArchivesCommitted, Archived,
              WriterPoints, ReaderPoints, LoadPoints, RecoverPoints,
              InsertPoints, EndPoints, WriteGuarded, Proc, Writer, Reader,
              Intact, Cached, diskVars, cacheVars, lockVars, boundVars,
              histVars, opVars, Op, Archive,
              Goto, End, vars, serverVars, Running
  <1>1. CASE Start(o, "b_check")
    BY <1>1 DEF Start
  <1>2. CASE BackupCheck(o)
    BY <1>2 DEF BackupCheck, OpenReplica
  <1>3. CASE BackupCopied(o)
    BY <1>3 DEF BackupCopied, CloseReplica
  <1>4. CASE BackupMeta(o)
    BY <1>4 DEF BackupMeta
  <1>5. CASE BackupReplica(o)
    BY <1>5 DEF BackupReplica, ArchivableInv
  <1>6. CASE BackupMetaFile(o)
    BY <1>6 DEF BackupMetaFile
  <1>7. CASE BackupRename(o)
    BY <1>7 DEF BackupRename
  <1>8. CASE BackupClean(o)
    BY <1>8 DEF BackupClean
  <1>9. CASE CleanFails(o)
    BY <1>9 DEF CleanFails
  <1>10. CASE OperationFails(o)
    <2>1. FilesCommitted'
      BY <1>10 DEF OperationFails
    <2>2. HeldCommitted'
      BY <1>10 DEF OperationFails
    <2>3. CarriedCommitted'
      BY <1>10 DEF OperationFails
    <2>4. AnswersCommitted'
      BY <1>10 DEF OperationFails
    <2>5. ArchivesCommitted'
      BY <1>10 DEF OperationFails
    <2> QED BY <2>1, <2>2, <2>3, <2>4, <2>5
  <1> QED BY <1>1, <1>2, <1>3, <1>4, <1>5, <1>6, <1>7, <1>8,
             <1>9, <1>10 DEF BackupRun

LEMMA RestoreKeepsStored ==
    ASSUME FrameInv, StoredInv, NEW o \in Restores, RestoreRun(o)
    PROVE  StoredInv'
  <1> USE DEF FrameInv, BackupTypeOK, GuardInv, HandsInv, StoredInv,
              FilesCommitted, HeldCommitted, CarriedCommitted,
              AnswersCommitted, CommittedReads, ArchivesCommitted, Archived,
              WriterPoints, ReaderPoints, LoadPoints, RecoverPoints,
              InsertPoints, EndPoints, WriteGuarded, Proc, Writer, Reader,
              Intact, Cached, diskVars, cacheVars, lockVars, boundVars,
              histVars, opVars, Op, Archive,
              Goto, End, vars, serverVars, Running
  <1>1. CASE Start(o, "r_check")
    BY <1>1 DEF Start
  <1>2. CASE RestoreCheck(o)
    BY <1>2 DEF RestoreCheck
  <1>3. CASE RestoreRemove(o)
    BY <1>3 DEF RestoreRemove
  <1>4. CASE RestoreRmdir(o)
    BY <1>4 DEF RestoreRmdir
  <1>5. CASE RestoreMkdir(o)
    BY <1>5 DEF RestoreMkdir
  <1>6. CASE RestoreReplica(o)
    BY <1>6 DEF RestoreReplica, OpenReplica
  <1>7. CASE RestoreFill(o)
    BY <1>7 DEF RestoreFill, CloseReplica
  <1>8. CASE RestoreMeta(o)
    BY <1>8 DEF RestoreMeta
  <1>9. CASE RestoreReload(o)
    BY <1>9 DEF RestoreReload
  <1>10. CASE OperationFails(o)
    <2>1. FilesCommitted'
      BY <1>10 DEF OperationFails
    <2>2. HeldCommitted'
      BY <1>10 DEF OperationFails
    <2>3. CarriedCommitted'
      BY <1>10 DEF OperationFails
    <2>4. AnswersCommitted'
      BY <1>10 DEF OperationFails
    <2>5. ArchivesCommitted'
      BY <1>10 DEF OperationFails
    <2> QED BY <2>1, <2>2, <2>3, <2>4, <2>5
  <1> QED BY <1>1, <1>2, <1>3, <1>4, <1>5, <1>6, <1>7, <1>8,
             <1>9, <1>10 DEF RestoreRun

LEMMA DeleteKeepsStored ==
    ASSUME FrameInv, StoredInv, NEW o \in Deletes, DeleteRun(o)
    PROVE  StoredInv'
  <1> USE DEF FrameInv, BackupTypeOK, GuardInv, HandsInv, StoredInv,
              FilesCommitted, HeldCommitted, CarriedCommitted,
              AnswersCommitted, CommittedReads, ArchivesCommitted, Archived,
              WriterPoints, ReaderPoints, LoadPoints, RecoverPoints,
              InsertPoints, EndPoints, WriteGuarded, Proc, Writer, Reader,
              Intact, Cached, diskVars, cacheVars, lockVars, boundVars,
              histVars, opVars, Op, Archive,
              Goto, End, vars, serverVars, Running
  <1>1. CASE Start(o, "d_remove")
    BY <1>1 DEF Start
  <1>2. CASE DeleteArchive(o)
    BY <1>2 DEF DeleteArchive
  <1> QED BY <1>1, <1>2 DEF DeleteRun

LEMMA OthersKeepStored ==
    ASSUME FrameInv, StoredInv,
           \/ Evict /\ UNCHANGED <<dir, opVars, copiers, expected>>
           \/ BackupCrash
           \/ Tick
           \/ UNCHANGED vars_b
    PROVE  StoredInv'
  <1> USE DEF FrameInv, BackupTypeOK, GuardInv, HandsInv, StoredInv,
              FilesCommitted, HeldCommitted, CarriedCommitted,
              AnswersCommitted, CommittedReads, ArchivesCommitted, Archived,
              WriterPoints, ReaderPoints, LoadPoints, RecoverPoints,
              InsertPoints, EndPoints, WriteGuarded, Proc, Writer, Reader,
              Intact, Cached, diskVars, cacheVars, lockVars, boundVars,
              histVars, opVars, Op, Archive,
              Goto, End, vars, serverVars, Running
  <1>1. CASE Evict /\ UNCHANGED <<dir, opVars, copiers, expected>>
    <2>1. FilesCommitted'
      BY <1>1 DEF Evict
    <2>2. HeldCommitted'
      BY <1>1 DEF Evict
    <2>3. CarriedCommitted'
      BY <1>1 DEF Evict
    <2>4. AnswersCommitted'
      BY <1>1 DEF Evict
    <2>5. ArchivesCommitted'
      BY <1>1 DEF Evict
    <2> QED BY <2>1, <2>2, <2>3, <2>4, <2>5
  <1>2. CASE BackupCrash
    <2>1. FilesCommitted'
      BY <1>2 DEF BackupCrash, Crash, InFlight
    <2>2. HeldCommitted'
      BY <1>2 DEF BackupCrash, Crash, InFlight
    <2>3. CarriedCommitted'
      BY <1>2 DEF BackupCrash, Crash, InFlight
    <2>4. AnswersCommitted'
      BY <1>2 DEF BackupCrash, Crash, InFlight
    <2>5. ArchivesCommitted'
      BY <1>2 DEF BackupCrash, Crash, InFlight
    <2> QED BY <2>1, <2>2, <2>3, <2>4, <2>5
  <1>3. CASE Tick
    BY <1>3 DEF Tick
  <1>4. CASE UNCHANGED vars_b
    BY <1>4 DEF vars_b
  <1> QED BY <1>1, <1>2, <1>3, <1>4

LEMMA RequestKeepsStored ==
    ASSUME FrameInv, StoredInv, NEW p \in Proc, Request(p)
    PROVE  StoredInv'
  <1>1. CASE RequestUndisturbed(p)
    <2>0. /\ FilesThere(p)
          /\ pc[p] \in {"copy", "snap"} => faults' # faults
      BY <1>1 DEF RequestUndisturbed
    <2>1. CASE LoadIndex(p)
      BY <2>1, LoadKeepsStored
    <2>2. CASE p \in Writer /\ ~LoadIndex(p)
      <3>1. InsertRun(p) \/ EmbedRun(p)
        BY <1>1, <2>2 DEF RequestUndisturbed, Writer, Reader
      <3>2. ~CopyReplica(p) /\ ~SnapReplica(p)
        BY <2>0 DEF CopyReplica, SnapReplica, boundVars
      <3> QED
        BY <2>0, <2>2, <3>1, <3>2, WriteKeepsStored
        DEF InsertRun, EmbedRun, Persist
    <2>3. CASE p \in Reader /\ ~LoadIndex(p)
      <3>1. ReadIndex(p)
        BY <1>1, <2>3
        DEF RequestUndisturbed, Writer, Reader, QueryVector, QuerySearch,
            IndexByPage
      <3> QED BY <2>3, <3>1, ReadKeepsStored DEF ReadIndex
    <2> QED BY <2>1, <2>2, <2>3 DEF Proc
  <1>2. CASE RequestDisturbed(p)
    BY <1>2, DisturbedKeepsStored
  <1>3. CASE p \in Writer /\ (OpenCopy(p) \/ CloseCopy(p))
    BY <1>3, CopyKeepsStored
  <1> QED BY <1>1, <1>2, <1>3 DEF Request

LEMMA StoredInitially ==
    ASSUME BackupInit
    PROVE  StoredInv
  BY DEF BackupInit, Init, Files, WriterPoints, ReaderPoints, LoadPoints,
         RecoverPoints, InsertPoints, EndPoints, Proc, Writer, Reader, Intact,
         StoredInv, FilesCommitted, HeldCommitted, CarriedCommitted,
         AnswersCommitted, CommittedReads, ArchivesCommitted, Archived,
         NoArchive, Op

LEMMA StoredInductive ==
    FrameInv /\ StoredInv /\ [BackupNext]_vars_b => StoredInv'
  <1> SUFFICES ASSUME FrameInv, StoredInv, [BackupNext]_vars_b
               PROVE  StoredInv'
    OBVIOUS
  <1> QED
    BY RequestKeepsStored, BackupKeepsStored, RestoreKeepsStored,
       DeleteKeepsStored, OthersKeepStored
    DEF BackupNext

THEOREM BackupStored == BackupSpec => []StoredInv
  BY BackupFrame, StoredInitially, StoredInductive, PTL DEF BackupSpec

\* Whatever a restore, a backup or a crash does to the files under a request,
\* no answer is computed from an index that never was the current one.
THEOREM BackupCommittedReads == BackupSpec => []CommittedReads
  BY BackupStored, PTL DEF StoredInv, AnswersCommitted

\* The index in an archive was the current one at some time, or is seen to be
\* broken: the index of a failed or unfinished write is never backed up.
THEOREM BackupArchivesCommitted == BackupSpec => []ArchivesCommitted
  BY BackupStored, PTL DEF StoredInv

-----------------------------------------------------------------------------
(* Retention.                                                              *)

\* A backup has chosen the name of its archive.
Named == {"b_replica", "b_metafile", "b_rename", "b_clean"}

\* No archive is younger than the one in the making, which is there once it is
\* renamed.
NamesInv ==
    /\ \A n \in Archived : n =< clock
    /\ \A o \in Op : opPc[o] \in Named =>
          /\ hand[o].name =< clock
          /\ \A n \in Archived : n =< hand[o].name
    /\ \A o \in Op : opPc[o] = "b_clean" => hand[o].name \in Archived

CountersInv == crashes \in Nat /\ faults \in Nat

RetentionInv == CountersInv /\ NamesInv /\ RetentionKeeps

Cleaning == \E o \in Op : opPc[o] = "b_clean"

\* A step that leaves archives, clock and names alone.
LEMMA AsideKeepsRetention ==
    ASSUME RetentionInv, CountersInv', UNCHANGED <<archives, latest, clock>>,
           \A x \in Op : opPc'[x] \in Named =>
              opPc[x] \in Named /\ hand'[x].name = hand[x].name,
           \A x \in Op : opPc'[x] = "b_clean" => opPc[x] = "b_clean",
           crashes' = 0 /\ faults' = 0 /\ ~Cleaning' =>
              crashes = 0 /\ faults = 0 /\ ~Cleaning
    PROVE  RetentionInv'
  <1>1. Archived' = Archived
    BY DEF Archived
  <1>2. NamesInv'
    <2>1. \A x \in Op : opPc[x] \in Named =>
             /\ hand[x].name =< clock
             /\ \A n \in Archived : n =< hand[x].name
      BY DEF RetentionInv, NamesInv
    <2>2. \A x \in Op : opPc'[x] = "b_clean" =>
             hand'[x].name = hand[x].name /\ hand[x].name \in Archived
      BY DEF RetentionInv, NamesInv, Named
    <2> QED BY <1>1, <2>1, <2>2 DEF RetentionInv, NamesInv
  <1>3. RetentionKeeps'
    BY <1>1 DEF RetentionInv, RetentionKeeps, Cleaning
  <1> QED BY <1>2, <1>3 DEF RetentionInv

\* Requests count their failures up, and touch nothing of the operations.
LEMMA LoadCounts ==
    ASSUME NEW p \in Proc, LoadIndex(p), CountersInv
    PROVE  crashes' = crashes /\ faults' \in {faults, faults + 1}
  <1> USE DEF boundVars
  <1>1. CASE LoadLock(p) \/ LoadRead(p) \/ RecoverLock(p)
    BY <1>1 DEF LoadLock, LoadRead, RecoverLock
  <1>2. CASE RecoverMeta(p) \/ RecoverWrite(p) \/ RecoverFlush(p) \/ RecoverFails(p)
    BY <1>2 DEF RecoverMeta, RecoverWrite, RecoverFlush, RecoverFails
  <1> QED BY <1>1, <1>2 DEF LoadIndex

LEMMA PersistCounts ==
    ASSUME NEW w \in Proc, Persist(w), CountersInv
    PROVE  crashes' = crashes /\ faults' \in {faults, faults + 1}
  <1> USE DEF boundVars
  <1>1. CASE WriteMeta(w) \/ FlushTemp(w) \/ Rename(w)
    BY <1>1 DEF WriteMeta, FlushTemp, Rename
  <1>2. CASE CopyReplica(w) \/ SnapReplica(w) \/ UpdateCount(w)
    BY <1>2 DEF CopyReplica, SnapReplica, UpdateCount
  <1>3. CASE WriteFails(w) \/ ReplicaFails(w) \/ CountFails(w)
    BY <1>3 DEF WriteFails, ReplicaFails, CountFails
  <1> QED BY <1>1, <1>2, <1>3 DEF Persist

LEMMA RequestCounts ==
    ASSUME NEW p \in Proc, Request(p), CountersInv
    PROVE  crashes' = crashes /\ faults' \in {faults, faults + 1}
  <1> USE DEF boundVars
  <1>1. CASE InsertRun(p) \/ EmbedRun(p)
    <2>1. CASE LoadIndex(p) \/ Persist(p)
      BY <2>1, LoadCounts, PersistCounts
    <2>2. CASE Begin(p) \/ AcquireWrite(p) \/ Apply(p) \/ FetchFails(p)
      BY <2>2 DEF Begin, AcquireWrite, Apply, FetchFails
    <2> QED BY <1>1, <2>1, <2>2 DEF InsertRun, EmbedRun
  <1>2. CASE ReadIndex(p)
    <2>1. CASE LoadIndex(p)
      BY <2>1, LoadCounts
    <2>2. CASE CheckCache(p) \/ RecheckCache(p) \/ ReadMeta(p) \/ PutSum(p) \/ PutIndex(p)
      BY <2>2 DEF CheckCache, RecheckCache, ReadMeta, PutSum, PutIndex
    <2> QED BY <1>2, <2>1, <2>2 DEF ReadIndex
  <1>3. CASE RequestDisturbed(p)
    BY <1>3 DEF RequestDisturbed, LoadNothing, RecoverRefused, RecoverUnseen, FlushUnseen,
                WriteRefused, CopyNothing, ReadTornMeta
  <1>4. CASE OpenCopy(p) \/ CloseCopy(p)
    BY <1>4 DEF OpenCopy, CopyReplica, CloseCopy
  <1> QED BY <1>1, <1>2, <1>3, <1>4
          DEF Request, RequestUndisturbed, QueryVector, QuerySearch, IndexByPage

LEMMA RequestKeepsRetention ==
    ASSUME RetentionInv, NEW p \in Proc, Request(p)
    PROVE  RetentionInv'
  <1>1. crashes' = crashes /\ faults' \in {faults, faults + 1} /\ crashes \in Nat /\ faults \in Nat
    BY RequestCounts DEF RetentionInv, CountersInv
  <1>2. UNCHANGED <<archives, latest, clock, opPc, hand>>
    BY DEF Request, opVars
  <1>3. CountersInv'
    BY <1>1 DEF CountersInv
  <1>4. faults' = 0 => faults = 0
    BY <1>1
  <1> QED BY <1>1, <1>2, <1>3, <1>4, AsideKeepsRetention DEF Cleaning

\* An operation that is not cleaning up, and not about to, makes no difference.
LEMMA OtherOps ==
    ASSUME OpsOK, NEW o \in Op, Running(o)
    PROVE  \A x \in Op : x # o => ~Running(x)
  BY DEF OpsOK

LEMMA NamedRuns ==
    ASSUME NEW o \in Op, opPc[o] \in Named
    PROVE  Running(o)
  BY DEF Named, Running, BackupPoints

\* Steps of operations that end, or go on before the archive has a name.
LEMMA UnnamedKeepsRetention ==
    ASSUME FrameInv, RetentionInv, NEW o \in Op, NEW next, next \notin Named,
           opPc' = [opPc EXCEPT ![o] = next], opPc[o] # "b_clean",
           \A x \in Op : x # o => hand'[x] = hand[x],
           UNCHANGED <<archives, latest, clock, crashes>>,
           faults' \in {faults, faults + 1}
    PROVE  RetentionInv'
  <1>1. opPc \in [Op -> OpPoints] /\ crashes \in Nat /\ faults \in Nat
    BY DEF FrameInv, BackupTypeOK, RetentionInv, CountersInv
  <1>2. \A x \in Op : opPc'[x] = IF x = o THEN next ELSE opPc[x]
    BY <1>1
  <1>3. \A x \in Op : opPc'[x] \in Named => opPc[x] \in Named /\ hand'[x].name = hand[x].name
    BY <1>2
  <1>4. \A x \in Op : opPc'[x] = "b_clean" => opPc[x] = "b_clean"
    BY <1>2 DEF Named
  <1>5. ~Cleaning' => ~Cleaning
    BY <1>2 DEF Cleaning
  <1>6. CountersInv' /\ (faults' = 0 => faults = 0)
    BY <1>1 DEF CountersInv
  <1> QED BY <1>3, <1>4, <1>5, <1>6, AsideKeepsRetention

LEMMA StartKeepsRetention ==
    ASSUME FrameInv, RetentionInv, NEW o \in Op,
           NEW next \in {"b_check", "r_check", "d_remove"}, Start(o, next)
    PROVE  RetentionInv'
  <1>1. /\ UNCHANGED <<archives, latest, clock, crashes, faults, hand>> /\ opPc[o] = "new"
        /\ \E to \in {next, "failed"} : opPc' = [opPc EXCEPT ![o] = to]
    BY DEF Start, vars, boundVars
  <1>2. PICK to \in {next, "failed"} : opPc' = [opPc EXCEPT ![o] = to]
    BY <1>1
  <1>3. to \notin Named
    BY DEF Named
  <1> QED BY <1>1, <1>2, <1>3, UnnamedKeepsRetention

LEMMA RestoreKeepsRetention ==
    ASSUME FrameInv, RetentionInv, NEW o \in Restores, RestoreRun(o)
    PROVE  RetentionInv'
  <1> USE DEF Op
  <1>1. CASE Start(o, "r_check")
    BY <1>1, StartKeepsRetention
  <1>2. CASE RestoreRemove(o)
    <2>1. /\ UNCHANGED <<archives, latest, clock, crashes, faults, opPc, hand>>
      BY <1>2 DEF RestoreRemove, opVars, serverVars, boundVars
    <2> QED BY <2>1, AsideKeepsRetention DEF RetentionInv, CountersInv, Cleaning
  <1>3. ASSUME ~Start(o, "r_check"), ~RestoreRemove(o)
        PROVE  /\ opPc[o] # "b_clean"
               /\ \E next \in RestorePoints \cup {"done", "failed"} :
                     opPc' = [opPc EXCEPT ![o] = next]
               /\ UNCHANGED <<archives, latest, clock, crashes>>
               /\ faults' \in {faults, faults + 1}
    <2> USE DEF Goto, End, RestorePoints, vars, boundVars, serverVars
    <2>1. CASE RestoreCheck(o) \/ RestoreRmdir(o) \/ RestoreMkdir(o)
      BY <2>1 DEF RestoreCheck, RestoreRmdir, RestoreMkdir
    <2>2. CASE RestoreReplica(o) \/ RestoreFill(o)
      BY <2>2 DEF RestoreReplica, RestoreFill
    <2>3. CASE RestoreMeta(o) \/ RestoreReload(o) \/ OperationFails(o)
      BY <2>3 DEF RestoreMeta, RestoreReload, OperationFails
    <2> QED BY <1>3, <2>1, <2>2, <2>3 DEF RestoreRun
  <1>4. \A x \in Op : x # o => hand'[x] = hand[x]
    <2>1. hand \in [Op -> Archive]
      BY DEF FrameInv, BackupTypeOK
    <2>2. CASE RestoreCheck(o)
      BY <2>1, <2>2 DEF RestoreCheck
    <2>3. CASE ~RestoreCheck(o)
      BY <2>3 DEF RestoreRun, Start, RestoreRemove, RestoreRmdir, RestoreMkdir, RestoreReplica,
                  RestoreFill, RestoreMeta, RestoreReload, OperationFails, opVars
    <2> QED BY <2>2, <2>3
  <1>5. ASSUME ~Start(o, "r_check"), ~RestoreRemove(o)
        PROVE  RetentionInv'
    <2>1. PICK next \in RestorePoints \cup {"done", "failed"} : opPc' = [opPc EXCEPT ![o] = next]
      BY <1>3, <1>5
    <2>2. next \notin Named
      BY DEF Named, RestorePoints
    <2> QED BY <1>3, <1>4, <1>5, <2>1, <2>2, UnnamedKeepsRetention
  <1> QED BY <1>1, <1>2, <1>5

LEMMA ArchivedFinite ==
    /\ Archived \subseteq Nat
    /\ IsFiniteSet(Archived)
    /\ Cardinality(Archived) \in Nat
  <1>1. Archived \subseteq 0 .. MaxClock /\ MaxClock \in Int /\ 0 \in Int
    BY DEF Archived, Name
  <1>2. IsFiniteSet(0 .. MaxClock)
    BY <1>1, FS_Interval
  <1>3. IsFiniteSet(Archived)
    BY <1>1, <1>2, FS_Subset
  <1>4. Archived \subseteq Nat
    BY <1>1
  <1> QED BY <1>3, <1>4, FS_CardinalityType

LEMMA DeleteKeepsRetention ==
    ASSUME FrameInv, RetentionInv, NEW o \in Deletes, DeleteRun(o)
    PROVE  RetentionInv'
  <1> USE DEF Op
  <1>1. CASE Start(o, "d_remove")
    BY <1>1, StartKeepsRetention
  <1>2. CASE DeleteArchive(o)
    <2>1. /\ UNCHANGED <<hand, clock, crashes, faults>> /\ opPc[o] = "d_remove"
          /\ \E to \in {"done", "failed"} : opPc' = [opPc EXCEPT ![o] = to]
      BY <1>2 DEF DeleteArchive, End, vars, boundVars
    <2>2. OpsOK /\ Running(o)
      BY <2>1 DEF FrameInv, BackupTypeOK, OpsOK, Running
    <2>3. \A x \in Op : opPc[x] \notin Named
      <3>1. opPc[o] \notin Named
        BY <2>1 DEF Named
      <3>2. \A x \in Op : x # o => ~Running(x)
        BY <2>2, OtherOps
      <3> QED BY <3>1, <3>2, NamedRuns
    <2>4. \A x \in Op : opPc'[x] \notin Named
      BY <2>1, <2>3 DEF Named, FrameInv, BackupTypeOK
    <2>5. ~Cleaning /\ ~Cleaning'
      BY <2>3, <2>4 DEF Cleaning, Named
    <2>6. CountersInv'
      BY <2>1 DEF RetentionInv, CountersInv
    <2>7. CASE UNCHANGED <<archives, latest>>
      BY <2>1, <2>4, <2>5, <2>6, <2>7, AsideKeepsRetention DEF Named
    <2>8. CASE \E n \in Archived : /\ archives' = [archives EXCEPT ![n] = Absent]
                                   /\ latest' = IF latest = n THEN Absent ELSE latest
      <3>1. PICK n \in Archived : /\ archives' = [archives EXCEPT ![n] = Absent]
                                  /\ latest' = IF latest = n THEN Absent ELSE latest
        BY <2>8
      <3>2. archives \in [Name -> {Absent} \cup Archive]
        BY DEF FrameInv, BackupTypeOK
      <3>3. Archived' = Archived \ {n}
        BY <3>1, <3>2 DEF Archived
      <3>4. NamesInv'
        BY <2>1, <2>4, <3>3 DEF RetentionInv, NamesInv, Named
      <3>5. Cardinality(Archived') =< Cardinality(Archived) /\ Cardinality(Archived') \in Nat
        BY <3>3, ArchivedFinite, FS_Subset, FS_CardinalityType
      <3>6. RetentionKeeps'
        <4>1. latest' # Absent => latest' \in Archived'
          BY <3>1, <3>3 DEF RetentionInv, RetentionKeeps
        <4>2. crashes' = 0 /\ faults' = 0 => Cardinality(Archived) =< MaxBackups
          BY <2>1, <2>5 DEF RetentionInv, RetentionKeeps, Cleaning
        <4>3. crashes' = 0 /\ faults' = 0 => Cardinality(Archived') =< MaxBackups
          BY <3>5, <4>2, ArchivedFinite
        <4> QED BY <4>1, <4>3 DEF RetentionKeeps
      <3> QED BY <2>6, <3>4, <3>6 DEF RetentionInv
    <2> QED BY <1>2, <2>7, <2>8 DEF DeleteArchive
  <1> QED BY <1>1, <1>2 DEF DeleteRun

\* A set of numbers has a least one.
LEMMA Least ==
    ASSUME NEW X \in SUBSET Nat, X # {}
    PROVE  \E x \in X : \A y \in X : x =< y
  <1>1. PICK x \in X : \A y \in X : <<y, x>> \notin OpToRel(<, Nat)
    BY NatLessThanWellFounded, WFMin
  <1>2. \A y \in X : ~ y < x
    BY <1>1 DEF OpToRel
  <1> QED BY <1>2

\* The elements with fewer than k above them are no more than k.
LEMMA FewKept ==
    ASSUME NEW A \in SUBSET Nat, IsFiniteSet(A), NEW k \in Nat \ {0}
    PROVE  LET B == {n \in A : ~ Cardinality({m \in A : m > n}) >= k}
           IN  IsFiniteSet(B) /\ Cardinality(B) =< k
  <1> DEFINE Younger(n) == {m \in A : m > n}
             B == {n \in A : ~ Cardinality(Younger(n)) >= k}
  <1>1. IsFiniteSet(B) /\ Cardinality(B) \in Nat /\ B \subseteq A
    BY FS_Subset, FS_CardinalityType
  <1>2. CASE B = {}
    <2>1. Cardinality(B) = 0
      BY <1>2, FS_EmptySet
    <2> HIDE DEF B
    <2>2. Cardinality(B) =< k
      BY <2>1
    <2> QED BY <1>1, <2>2 DEF B
  <1>3. CASE B # {}
    <2>1. PICK b \in B : \A n \in B : b =< n
      BY <1>1, <1>3, Least
    <2>2. B \ {b} \subseteq Younger(b)
      <3>1. ASSUME NEW n \in B, n # b PROVE n \in A /\ n > b
        <4>1. n \in Nat /\ b \in Nat /\ n \in A /\ b =< n
          BY <2>1
        <4> QED BY <3>1, <4>1
      <3> QED BY <3>1
    <2>3. IsFiniteSet(Younger(b)) /\ Cardinality(Younger(b)) \in Nat
      BY FS_Subset, FS_CardinalityType
    <2>4. Cardinality(B \ {b}) =< Cardinality(Younger(b))
      BY <2>2, <2>3, FS_Subset
    <2>5. Cardinality(B \ {b}) = Cardinality(B) - 1
      <3>1. b \in B
        BY <2>1
      <3> HIDE DEF B
      <3> QED BY <1>1, <3>1, FS_RemoveElement
    <2>6. Cardinality(Younger(b)) < k
      BY <2>1, <2>3
    <2> QED BY <1>1, <2>3, <2>4, <2>5, <2>6
  <1> QED BY <1>1, <1>2, <1>3

LEMMA CleanKeepsRetention ==
    ASSUME FrameInv, RetentionInv, NEW o \in Op, BackupClean(o)
    PROVE  RetentionInv'
  <1> DEFINE Kept == {n \in Archived : ~ Cardinality({m \in Archived : m > n}) >= MaxBackups}
             name == hand[o].name
  <1>1. /\ opPc[o] = "b_clean" /\ opPc' = [opPc EXCEPT ![o] = "done"]
        /\ UNCHANGED <<hand, clock, crashes, faults>> /\ latest' = name
    BY DEF BackupClean, End, vars, boundVars
  <1>2. Archived' = Kept
    BY DEF BackupClean, Archived
  <1>3. OpsOK /\ Running(o) /\ opPc \in [Op -> OpPoints]
    BY <1>1 DEF FrameInv, BackupTypeOK, OpsOK, Running, BackupPoints
  <1>4. \A x \in Op : opPc'[x] \notin Named
    <2>1. \A x \in Op : x # o => ~Running(x)
      BY <1>3, OtherOps
    <2> QED BY <1>1, <1>3, <2>1, NamedRuns DEF Named
  <1>5. NamesInv'
    BY <1>1, <1>2, <1>4 DEF RetentionInv, NamesInv, Named
  <1>6. name \in Archived /\ \A n \in Archived : n =< name
    BY <1>1 DEF RetentionInv, NamesInv, Named
  <1>7. name \in Kept
    <2>1. {m \in Archived : m > name} = {}
      <3>1. \A m \in Archived : m \in Nat /\ name \in Nat /\ m =< name
        BY <1>6, ArchivedFinite
      <3> HIDE DEF name
      <3> QED BY <3>1
    <2>2. Cardinality({m \in Archived : m > name}) = 0
      BY <2>1, FS_EmptySet
    <2> HIDE DEF name
    <2>3. ~ Cardinality({m \in Archived : m > name}) >= MaxBackups
      BY <2>2
    <2> QED BY <1>6, <2>3
  <1>8. Cardinality(Kept) =< MaxBackups
    BY ArchivedFinite, FewKept
  <1>9. RetentionKeeps'
    BY <1>1, <1>2, <1>7, <1>8 DEF RetentionKeeps
  <1>10. CountersInv'
    BY <1>1 DEF RetentionInv, CountersInv
  <1> QED BY <1>5, <1>9, <1>10 DEF RetentionInv

LEMMA RenameKeepsRetention ==
    ASSUME FrameInv, RetentionInv, NEW o \in Op, BackupRename(o)
    PROVE  RetentionInv'
  <1> DEFINE name == hand[o].name
  <1>1. /\ opPc[o] = "b_rename" /\ opPc' = [opPc EXCEPT ![o] = "b_clean"]
        /\ UNCHANGED <<hand, clock, latest, crashes, faults>>
        /\ archives' = [archives EXCEPT ![name] = hand[o]]
    BY DEF BackupRename, Goto, vars, boundVars
  <1>2. /\ archives \in [Name -> {Absent} \cup Archive] /\ hand[o] \in Archive
        /\ opPc \in [Op -> OpPoints]
    BY DEF FrameInv, BackupTypeOK
  <1>3. name \in Name /\ hand[o] # Absent
    <2>1. name \in Name
      BY <1>2 DEF Archive
    <2>2. hand[o] # Absent
      BY <1>2, ArchiveAssumption
    <2> QED BY <2>1, <2>2
  <1>4. Archived' = Archived \cup {name}
    BY <1>1, <1>2, <1>3 DEF Archived
  <1>5. OpsOK /\ Running(o)
    BY <1>1 DEF FrameInv, BackupTypeOK, OpsOK, Running, BackupPoints
  <1>6. \A x \in Op : x # o => opPc[x] \notin Named
    BY <1>5, OtherOps, NamedRuns
  <1>7. name =< clock /\ \A n \in Archived : n =< name
    BY <1>1 DEF RetentionInv, NamesInv, Named
  <1>8. \A x \in Op : opPc'[x] \in Named => x = o
    BY <1>1, <1>2, <1>6
  <1>9. NamesInv'
    <2>1. name =< name
      BY <1>3 DEF Name
    <2>2. \A n \in Archived' : n =< clock /\ n =< name
      BY <1>4, <1>7, <2>1 DEF RetentionInv, NamesInv
    <2>3. \A x \in Op : opPc'[x] = "b_clean" => x = o
      BY <1>8 DEF Named
    <2> QED BY <1>1, <1>4, <1>7, <1>8, <2>2, <2>3 DEF NamesInv
  <1>10. RetentionKeeps'
    <2>1. Cleaning'
      BY <1>1, <1>2 DEF Cleaning
    <2> QED BY <1>1, <1>4, <2>1 DEF RetentionInv, RetentionKeeps, Cleaning
  <1>11. CountersInv'
    BY <1>1 DEF RetentionInv, CountersInv
  <1> QED BY <1>9, <1>10, <1>11 DEF RetentionInv

LEMMA BackupKeepsRetention ==
    ASSUME FrameInv, RetentionInv, NEW o \in Backups, BackupRun(o)
    PROVE  RetentionInv'
  <1> USE DEF Op
  <1>0. /\ opPc \in [Op -> OpPoints] /\ hand \in [Op -> Archive] /\ clock \in Name
        /\ crashes \in Nat /\ faults \in Nat
    BY DEF FrameInv, BackupTypeOK, RetentionInv, CountersInv
  <1>1. CASE Start(o, "b_check")
    BY <1>1, StartKeepsRetention
  <1>2. CASE BackupCheck(o) \/ BackupCopied(o) \/ (BackupMeta(o) /\ meta = Absent)
             \/ OperationFails(o)
    <2> USE DEF Goto, End, vars, serverVars, boundVars
    <2>1. /\ opPc[o] # "b_clean"
          /\ \E next \in {"b_meta", "b_copy", "failed"} : opPc' = [opPc EXCEPT ![o] = next]
          /\ UNCHANGED <<archives, latest, clock, crashes>>
          /\ faults' \in {faults, faults + 1}
      <3>1. CASE BackupCheck(o)
        BY <3>1 DEF BackupCheck
      <3>2. CASE BackupCopied(o) \/ OperationFails(o)
        BY <3>2 DEF BackupCopied, OperationFails
      <3>3. CASE BackupMeta(o) /\ meta = Absent
        BY <3>3 DEF BackupMeta
      <3> QED BY <1>2, <3>1, <3>2, <3>3
    <2>2. \A x \in Op : x # o => hand'[x] = hand[x]
      <3>1. \/ UNCHANGED hand
            \/ hand' = [hand EXCEPT ![o].replica = bin]
        BY <1>2 DEF BackupCheck, BackupCopied, BackupMeta, OperationFails
      <3> QED BY <1>0, <3>1
    <2>3. PICK next \in {"b_meta", "b_copy", "failed"} : opPc' = [opPc EXCEPT ![o] = next]
      BY <2>1
    <2>4. next \notin Named
      BY DEF Named
    <2> QED BY <2>1, <2>2, <2>3, <2>4, UnnamedKeepsRetention
  <1>3. CASE BackupMeta(o) /\ meta # Absent
    <2>1. /\ opPc[o] = "b_meta" /\ opPc' = [opPc EXCEPT ![o] = "b_replica"]
          /\ hand' = [hand EXCEPT ![o].name = clock]
          /\ UNCHANGED <<archives, latest, clock, crashes, faults>>
      BY <1>3 DEF BackupMeta, Goto, vars, boundVars
    <2>2. \A x \in Op : /\ opPc'[x] = IF x = o THEN "b_replica" ELSE opPc[x]
                        /\ hand'[x].name = IF x = o THEN clock ELSE hand[x].name
      BY <1>0, <2>1 DEF Archive
    <2>3. Archived' = Archived
      BY <2>1 DEF Archived
    <2>4. clock =< clock
      BY <1>0 DEF Name
    <2>5. NamesInv'
      BY <2>1, <2>2, <2>3, <2>4 DEF RetentionInv, NamesInv
    <2>6. RetentionKeeps'
      BY <2>1, <2>2, <2>3 DEF RetentionInv, RetentionKeeps
    <2> QED BY <2>1, <2>5, <2>6 DEF RetentionInv, CountersInv
  <1>4. CASE BackupReplica(o) \/ BackupMetaFile(o)
    <2>1. /\ opPc[o] \in {"b_replica", "b_metafile"}
          /\ \E next \in {"b_metafile", "b_rename"} : opPc' = [opPc EXCEPT ![o] = next]
          /\ UNCHANGED <<archives, latest, clock, crashes, faults>>
      BY <1>4 DEF BackupReplica, BackupMetaFile, Goto, vars, boundVars
    <2>2. \A x \in Op : hand'[x].name = hand[x].name
      BY <1>0, <1>4 DEF BackupReplica, BackupMetaFile, Archive
    <2>3. \A x \in Op : /\ opPc'[x] \in Named => opPc[x] \in Named
                        /\ opPc'[x] = "b_clean" <=> opPc[x] = "b_clean"
      BY <1>0, <2>1 DEF Named
    <2> QED BY <2>1, <2>2, <2>3, AsideKeepsRetention DEF RetentionInv, CountersInv, Cleaning
  <1>5. CASE BackupRename(o)
    BY <1>5, RenameKeepsRetention
  <1>6. CASE BackupClean(o)
    BY <1>6, CleanKeepsRetention
  <1>7. CASE CleanFails(o)
    <2>1. /\ opPc[o] = "b_clean" /\ opPc' = [opPc EXCEPT ![o] = "done"]
          /\ UNCHANGED <<archives, hand, clock, crashes>> /\ latest' = hand[o].name
          /\ faults' = faults + 1
      BY <1>7 DEF CleanFails, End
    <2>2. \A x \in Op : opPc'[x] = IF x = o THEN "done" ELSE opPc[x]
      BY <1>0, <2>1
    <2>3. Archived' = Archived /\ hand[o].name \in Archived
      BY <2>1 DEF Archived, RetentionInv, NamesInv
    <2>4. NamesInv'
      BY <2>1, <2>2, <2>3 DEF RetentionInv, NamesInv, Named
    <2>5. RetentionKeeps' /\ CountersInv'
      BY <1>0, <2>1, <2>3 DEF RetentionKeeps, CountersInv
    <2> QED BY <2>4, <2>5 DEF RetentionInv
  <1> QED BY <1>1, <1>2, <1>3, <1>4, <1>5, <1>6, <1>7 DEF BackupRun

LEMMA OthersKeepRetention ==
    ASSUME FrameInv, RetentionInv,
           \/ Evict /\ UNCHANGED <<dir, opVars, copiers, expected>>
           \/ BackupCrash
           \/ Tick
           \/ UNCHANGED vars_b
    PROVE  RetentionInv'
  <1>1. CASE \/ Evict /\ UNCHANGED <<dir, opVars, copiers, expected>>
             \/ UNCHANGED vars_b
    <2>1. UNCHANGED <<archives, latest, clock, opPc, hand, crashes, faults>>
      BY <1>1 DEF Evict, opVars, vars_b, vars, boundVars
    <2> QED BY <2>1, AsideKeepsRetention DEF RetentionInv, CountersInv, Cleaning
  <1>2. CASE BackupCrash
    <2>1. /\ UNCHANGED <<archives, latest, clock, hand, faults>> /\ crashes' = crashes + 1
          /\ opPc' = [o \in Op |-> IF Running(o) THEN "lost" ELSE opPc[o]]
      BY <1>2 DEF BackupCrash, Crash
    <2>2. CountersInv' /\ crashes' # 0
      BY <2>1 DEF RetentionInv, CountersInv
    <2>3. \A x \in Op : opPc'[x] \notin Named
      BY <2>1, NamedRuns DEF Named
    <2> QED BY <2>1, <2>2, <2>3, AsideKeepsRetention DEF Named
  <1>3. CASE Tick
    <2>1. /\ UNCHANGED <<archives, latest, hand, opPc, crashes, faults>> /\ clock' = clock + 1
      BY <1>3 DEF Tick, vars, boundVars
    <2>2. clock \in Nat /\ hand \in [Op -> Archive]
      BY DEF FrameInv, BackupTypeOK, Name
    <2>3. Archived' = Archived /\ Archived \subseteq Nat
      BY <2>1, ArchivedFinite DEF Archived
    <2>4. \A o \in Op : hand[o].name \in Nat
      BY <2>2 DEF Archive, Name
    <2>5. \A n \in Nat : n =< clock => n =< clock'
      BY <2>1, <2>2
    <2>6. NamesInv'
      BY <2>1, <2>3, <2>4, <2>5 DEF RetentionInv, NamesInv
    <2>7. RetentionKeeps'
      BY <2>1, <2>3 DEF RetentionInv, RetentionKeeps
    <2> QED BY <2>1, <2>6, <2>7 DEF RetentionInv, CountersInv
  <1> QED BY <1>1, <1>2, <1>3

LEMMA RetentionInitially ==
    ASSUME BackupInit
    PROVE  RetentionInv
  <1>1. Archived = {}
    BY DEF BackupInit, Archived
  <1>2. Cardinality(Archived) = 0
    BY <1>1, FS_EmptySet
  <1> QED BY <1>1, <1>2 DEF BackupInit, Init, RetentionInv, CountersInv, NamesInv, RetentionKeeps,
                            Named

LEMMA RetentionInductive ==
    FrameInv /\ RetentionInv /\ [BackupNext]_vars_b => RetentionInv'
  <1> SUFFICES ASSUME FrameInv, RetentionInv, [BackupNext]_vars_b
               PROVE  RetentionInv'
    OBVIOUS
  <1> QED
    BY RequestKeepsRetention, BackupKeepsRetention, RestoreKeepsRetention,
       DeleteKeepsRetention, OthersKeepRetention
    DEF BackupNext

\* Retention never takes the latest backup that was answered with success, and
\* leaves no more archives than configured, for any clock, any number of
\* operations and crashes between any two of their steps.
THEOREM RetentionAlwaysKeeps == BackupSpec => []RetentionKeeps
  BY BackupFrame, RetentionInitially, RetentionInductive, PTL
  DEF BackupSpec, RetentionInv

-----------------------------------------------------------------------------
(* Clean runs: no crash, no fault, and no write beside an operation.       *)

\* The files while nobody writes them.
AtRest ==
    /\ meta = replica
    /\ replica # Torn
    /\ temp = Absent
    /\ bin \in {Absent, replica}
    /\ copiers = {}

\* A restore is at work on the files.
Rewrites(o) == opPc[o] \in RestorePoints \ {"r_check"}
Rewriting == \E o \in Op : Rewrites(o)

\* The files while the holder of the write guard is at work on them.
GuardedFiles ==
    /\ ~Rewriting /\ lockWriter = NoOne => AtRest
    /\ \A p \in Proc :
         /\ pc[p] \in {"apply", "meta", "rc_meta", "rc_write"} => AtRest
         /\ pc[p] \in {"rc_meta", "rc_write"} => bin = Absent
         /\ pc[p] = "rc_flush" => /\ bin = Torn /\ meta = replica /\ replica # Torn
                                  /\ temp = Absent /\ copiers = {}
         /\ pc[p] \in {"flush", "rename"} =>
              /\ meta = local[p] /\ bin \in {Absent, replica} /\ replica # Torn
              /\ temp # Absent /\ copiers = {}
         /\ pc[p] \in {"copy", "snap"} =>
              meta = local[p] /\ bin = local[p] /\ temp = Absent
         /\ pc[p] = "copy" => copiers = {}
         /\ pc[p] = "snap" => copiers = {p}
         /\ pc[p] \in RecoverPoints /\ ~Intact(bin) => local[p] = replica

\* One whole index and its metadata.
Agreed(a) == a.replica # Torn /\ a.meta = a.replica

\* The files, and the archive in hand, while an operation is at work on them.
OperatedFiles ==
    /\ dir \/ \E o \in Op : opPc[o] = "r_mkdir"
    /\ \A o \in Op :
         /\ opPc[o] # "b_copy"
         /\ opPc[o] = "b_metafile" => hand[o].replica = replica
         /\ opPc[o] = "b_rename" \/ Rewrites(o) => Agreed(hand[o])
         /\ Rewrites(o) => copiers = IF opPc[o] = "r_fill" THEN {o} ELSE {}
         /\ Rewrites(o) /\ opPc[o] # "r_remove" => bin = Absent /\ temp = Absent
         /\ opPc[o] \in {"r_mkdir", "r_replica", "r_fill", "r_meta"} => meta = Absent
         /\ opPc[o] \in {"r_mkdir", "r_replica"} => replica = Absent
         /\ opPc[o] \in {"r_meta", "r_metafill", "r_reload"} =>
              replica = hand[o].replica
         /\ opPc[o] = "r_reload" => meta = replica

Tidy ==
    /\ ~Overlap
    /\ GuardedFiles
    /\ OperatedFiles
    /\ \A n \in Archived : Agreed(archives[n])

\* What the database holds, as the files alone say it.
OnFile ==
    IF Intact(bin) THEN bin ELSE IF Intact(replica) THEN replica ELSE {}

\* What a write request carries, and what is expected, against what is held.
ExpectedInv ==
    /\ \A v, w \in Writer : InFlight(v) /\ InFlight(w) => v = w
    /\ \A w \in Writer :
         /\ pc[w] \in RecoverPoints => local[w] = OnFile
         /\ pc[w] \in {"lock", "apply"} => BaseOf(w) = OnFile
         /\ pc[w] \in {"meta", "flush", "rename"} =>
              local[w] = OnFile \cup {BatchOf[w]}
         /\ pc[w] \in {"new", "ld_lock", "ld_read"} => local[w] = Absent
    /\ ~Rewriting /\ expected # {} => OnFile \in expected

-----------------------------------------------------------------------------
(* Clean runs: requests while no operation runs.                           *)

Alone == \A o \in Op : ~Running(o)

\* A step of a request when nothing fails.
Unfailing(p) == Request(p) /\ faults \in Nat /\ faults' = faults

LEMMA AloneFacts ==
    ASSUME FrameInv, Tidy, Alone, NEW p \in Proc, Request(p)
    PROVE  /\ dir /\ ~Rewriting /\ ~Rewriting'
           /\ UNCHANGED <<opPc, hand, archives>>
           /\ pc[p] # "rename" => expected' = expected
  <1>1. \A o \in Op : opPc[o] # "r_mkdir" /\ ~Rewrites(o)
    BY DEF Alone, Running, RestorePoints, Rewrites
  <1>2. UNCHANGED <<opPc, hand, archives>>
    BY DEF Request, opVars
  <1>3. dir
    BY <1>1 DEF Tidy, OperatedFiles
  <1>4. pc[p] # "rename" => expected' = expected
    BY DEF Request
  <1> QED BY <1>1, <1>2, <1>3, <1>4 DEF Rewriting, Rewrites

LEMMA LoadKeepsClean ==
    ASSUME FrameInv, Tidy, Alone, NEW p \in Proc, Unfailing(p), LoadIndex(p),
           FilesThere(p), UNCHANGED copiers
    PROVE  GuardedFiles' /\ (SerialClients /\ ExpectedInv => ExpectedInv')
  <1> USE DEF FrameInv, BackupTypeOK, GuardInv, HandsInv, WriterPoints, ReaderPoints,
              LoadPoints, RecoverPoints, InsertPoints, EndPoints, WriteGuarded,
              Proc, Writer, Reader, Intact, diskVars, cacheVars, lockVars,
              boundVars, histVars, AtRest, GuardedFiles
  <1>0. /\ dir /\ ~Rewriting /\ ~Rewriting' /\ FrameInv /\ GuardedFiles
        /\ pc[p] # "rename" => expected' = expected
        /\ faults \in Nat /\ faults' = faults
    BY AloneFacts DEF Tidy, Unfailing
  <1>1. CASE LoadLock(p)
    <2>1. GuardedFiles'
      BY <1>0, <1>1 DEF LoadLock, AfterLoad, FilesThere
    <2>2. SerialClients /\ ExpectedInv => ExpectedInv'
      BY <1>0, <1>1 DEF LoadLock, AfterLoad, FilesThere, ExpectedInv, OnFile, InFlight, BaseOf
    <2> QED BY <2>1, <2>2
  <1>2. CASE LoadRead(p)
    <2>1. GuardedFiles'
      BY <1>0, <1>2 DEF LoadRead, AfterLoad, FilesThere
    <2>2. SerialClients /\ ExpectedInv => ExpectedInv'
      BY <1>0, <1>2 DEF LoadRead, AfterLoad, FilesThere, ExpectedInv, OnFile, InFlight, BaseOf
    <2> QED BY <2>1, <2>2
  <1>3. CASE RecoverLock(p)
    <2>1. GuardedFiles'
      BY <1>0, <1>3 DEF RecoverLock, AfterLoad, FilesThere
    <2>2. SerialClients /\ ExpectedInv => ExpectedInv'
      BY <1>0, <1>3 DEF RecoverLock, AfterLoad, FilesThere, ExpectedInv, OnFile, InFlight,
                        BaseOf
    <2> QED BY <2>1, <2>2
  <1>4. CASE RecoverMeta(p)
    <2>1. GuardedFiles'
      BY <1>0, <1>4 DEF RecoverMeta, AfterLoad, FilesThere
    <2>2. SerialClients /\ ExpectedInv => ExpectedInv'
      BY <1>0, <1>4 DEF RecoverMeta, AfterLoad, FilesThere, ExpectedInv, OnFile, InFlight,
                        BaseOf
    <2> QED BY <2>1, <2>2
  <1>5. CASE RecoverWrite(p)
    <2>1. GuardedFiles'
      BY <1>0, <1>5 DEF RecoverWrite, AfterLoad, FilesThere
    <2>2. SerialClients /\ ExpectedInv => ExpectedInv'
      BY <1>0, <1>5 DEF RecoverWrite, AfterLoad, FilesThere, ExpectedInv, OnFile,
                        InFlight, BaseOf
    <2> QED BY <2>1, <2>2
  <1>6. CASE RecoverFlush(p)
    <2>1. GuardedFiles'
      BY <1>0, <1>6 DEF RecoverFlush, AfterLoad, FilesThere
    <2>2. SerialClients /\ ExpectedInv => ExpectedInv'
      BY <1>0, <1>6 DEF RecoverFlush, AfterLoad, FilesThere, ExpectedInv, OnFile,
                        InFlight, BaseOf
    <2> QED BY <2>1, <2>2
  <1>7. CASE RecoverFails(p)
    BY <1>0, <1>7 DEF RecoverFails
  <1> QED BY <1>1, <1>2, <1>3, <1>4, <1>5, <1>6, <1>7 DEF LoadIndex

LEMMA WriteKeepsClean ==
    ASSUME FrameInv, Tidy, Alone, NEW p \in Writer, Unfailing(p), FilesThere(p), UNCHANGED copiers,
           \/ Begin(p) \/ AcquireWrite(p) \/ Apply(p) \/ FetchFails(p)
           \/ WriteMeta(p) \/ FlushTemp(p) \/ Rename(p) \/ UpdateCount(p)
           \/ WriteFails(p) \/ ReplicaFails(p) \/ CountFails(p)
    PROVE  GuardedFiles' /\ (SerialClients /\ ExpectedInv => ExpectedInv')
  <1> USE DEF FrameInv, BackupTypeOK, GuardInv, HandsInv, WriterPoints, ReaderPoints,
              LoadPoints, RecoverPoints, InsertPoints, EndPoints, WriteGuarded,
              Proc, Writer, Reader, Intact, diskVars, cacheVars, lockVars,
              boundVars, histVars, AtRest, GuardedFiles
  <1>0. /\ dir /\ ~Rewriting /\ ~Rewriting' /\ FrameInv /\ GuardedFiles
        /\ pc[p] # "rename" => expected' = expected
        /\ faults \in Nat /\ faults' = faults
    BY AloneFacts DEF Tidy, Unfailing
  <1>1. CASE Begin(p)
    <2>1. GuardedFiles'
      BY <1>0, <1>1 DEF Begin, FilesThere, GiveUp
    <2>2. SerialClients /\ ExpectedInv => ExpectedInv'
      BY <1>0, <1>1 DEF Begin, FilesThere, GiveUp, ExpectedInv, OnFile, InFlight, BaseOf
    <2> QED BY <2>1, <2>2
  <1>2. CASE AcquireWrite(p)
    <2>1. GuardedFiles'
      BY <1>0, <1>2 DEF AcquireWrite, FilesThere, GiveUp
    <2>2. SerialClients /\ ExpectedInv => ExpectedInv'
      BY <1>0, <1>2 DEF AcquireWrite, FilesThere, GiveUp, ExpectedInv, OnFile, InFlight,
                        BaseOf
    <2> QED BY <2>1, <2>2
  <1>3. CASE FetchFails(p)
    <2>1. GuardedFiles'
      BY <1>0, <1>3 DEF FetchFails, FilesThere, GiveUp
    <2>2. SerialClients /\ ExpectedInv => ExpectedInv'
      BY <1>0, <1>3 DEF FetchFails, FilesThere, GiveUp, ExpectedInv, OnFile, InFlight, BaseOf
    <2> QED BY <2>1, <2>2
  <1>4. CASE WriteMeta(p)
    <2>1. GuardedFiles'
      BY <1>0, <1>4 DEF WriteMeta, FilesThere, GiveUp
    <2>2. SerialClients /\ ExpectedInv => ExpectedInv'
      BY <1>0, <1>4 DEF WriteMeta, FilesThere, GiveUp, ExpectedInv, OnFile, InFlight, BaseOf
    <2> QED BY <2>1, <2>2
  <1>5. CASE FlushTemp(p)
    <2>1. GuardedFiles'
      BY <1>0, <1>5 DEF FlushTemp, FilesThere, GiveUp
    <2>2. SerialClients /\ ExpectedInv => ExpectedInv'
      BY <1>0, <1>5 DEF FlushTemp, FilesThere, GiveUp, ExpectedInv, OnFile, InFlight, BaseOf
    <2> QED BY <2>1, <2>2
  <1>6. CASE Rename(p)
    <2>1. GuardedFiles'
      BY <1>0, <1>6 DEF Rename, FilesThere, GiveUp, Request
    <2>2. ASSUME ExpectedInv PROVE ExpectedInv'
      <3>1. /\ pc[p] = "rename" /\ pc' = [pc EXCEPT ![p] = "copy"] /\ bin' = temp
            /\ UNCHANGED <<replica, local>>
        BY <1>6 DEF Rename
      <3>2. temp = local[p] /\ local[p] = OnFile \cup {BatchOf[p]} /\ local[p] \in Image
        BY <1>0, <2>2, <3>1 DEF ExpectedInv
      <3>3. OnFile' = OnFile \cup {BatchOf[p]}
        BY <3>1, <3>2 DEF OnFile
      <3>4. \A w \in Writer : InFlight(w)' <=> InFlight(w)
        BY <1>0, <3>1 DEF InFlight
      <3>5. \A w \in Writer : w # p => ~InFlight(w)
        BY <2>2, <3>1 DEF ExpectedInv, InFlight
      <3>6. \A w \in Writer : pc'[w] \in {"new", "copy"} \cup EndPoints
        BY <1>0, <3>1, <3>5 DEF InFlight
      <3>7. expected' = {i \cup {BatchOf[p]} : i \in expected}
        BY <1>0, <3>1 DEF Unfailing, Request
      <3>8. expected' # {} => OnFile' \in expected'
        BY <1>0, <2>2, <3>3, <3>7 DEF ExpectedInv
      <3>9. \A w \in Writer : pc'[w] = "new" => local'[w] = Absent
        BY <1>0, <2>2, <3>1 DEF ExpectedInv
      <3> HIDE DEF OnFile
      <3> QED BY <2>2, <3>4, <3>6, <3>8, <3>9 DEF ExpectedInv
    <2> QED BY <2>1, <2>2
  <1>7. CASE UpdateCount(p)
    <2>1. GuardedFiles'
      BY <1>0, <1>7 DEF UpdateCount, FilesThere, GiveUp
    <2>2. SerialClients /\ ExpectedInv => ExpectedInv'
      BY <1>0, <1>7 DEF UpdateCount, FilesThere, GiveUp, ExpectedInv, OnFile, InFlight, BaseOf
    <2> QED BY <2>1, <2>2
  <1>8. CASE Apply(p)
    <2>1. GuardedFiles'
      BY <1>0, <1>8 DEF Apply, FilesThere, GiveUp
    <2>2. SerialClients /\ ExpectedInv => ExpectedInv'
      BY <1>0, <1>8 DEF Apply, FilesThere, GiveUp, ExpectedInv, OnFile, InFlight, BaseOf
    <2> QED BY <2>1, <2>2
  <1>9. CASE WriteFails(p)
    BY <1>0, <1>9 DEF WriteFails
  <1>10. CASE ReplicaFails(p)
    BY <1>0, <1>10 DEF ReplicaFails
  <1>11. CASE CountFails(p)
    BY <1>0, <1>11 DEF CountFails
  <1> QED BY <1>1, <1>2, <1>3, <1>4, <1>5, <1>6, <1>7, <1>8, <1>9, <1>10, <1>11

LEMMA ReadKeepsClean ==
    ASSUME FrameInv, Tidy, Alone, NEW p \in Reader, Unfailing(p), FilesThere(p), UNCHANGED copiers,
           \/ CheckCache(p) \/ RecheckCache(p) \/ ReadMeta(p) \/ PutSum(p)
           \/ PutIndex(p)
    PROVE  GuardedFiles' /\ (SerialClients /\ ExpectedInv => ExpectedInv')
  <1> USE DEF FrameInv, BackupTypeOK, GuardInv, HandsInv, WriterPoints, ReaderPoints,
              LoadPoints, RecoverPoints, InsertPoints, EndPoints, WriteGuarded,
              Proc, Writer, Reader, Intact, diskVars, cacheVars, lockVars,
              boundVars, histVars, AtRest, GuardedFiles
  <1>0. /\ dir /\ ~Rewriting /\ ~Rewriting' /\ FrameInv /\ GuardedFiles
        /\ pc[p] # "rename" => expected' = expected
        /\ faults \in Nat /\ faults' = faults
    BY AloneFacts DEF Tidy, Unfailing
  <1>1. CASE CheckCache(p)
    <2>1. GuardedFiles'
      BY <1>0, <1>1 DEF CheckCache, Finish, Answer
    <2>2. SerialClients /\ ExpectedInv => ExpectedInv'
      BY <1>0, <1>1 DEF CheckCache, Finish, Answer, ExpectedInv, OnFile, InFlight, BaseOf
    <2> QED BY <2>1, <2>2
  <1>2. CASE RecheckCache(p)
    <2>1. GuardedFiles'
      BY <1>0, <1>2 DEF RecheckCache, Finish, Answer
    <2>2. SerialClients /\ ExpectedInv => ExpectedInv'
      BY <1>0, <1>2 DEF RecheckCache, Finish, Answer, ExpectedInv, OnFile, InFlight, BaseOf
    <2> QED BY <2>1, <2>2
  <1>3. CASE ReadMeta(p)
    <2>1. GuardedFiles'
      BY <1>0, <1>3 DEF ReadMeta, Finish, Answer
    <2>2. SerialClients /\ ExpectedInv => ExpectedInv'
      BY <1>0, <1>3 DEF ReadMeta, Finish, Answer, ExpectedInv, OnFile, InFlight, BaseOf
    <2> QED BY <2>1, <2>2
  <1>4. CASE PutSum(p)
    <2>1. GuardedFiles'
      BY <1>0, <1>4 DEF PutSum, Finish, Answer
    <2>2. SerialClients /\ ExpectedInv => ExpectedInv'
      BY <1>0, <1>4 DEF PutSum, Finish, Answer, ExpectedInv, OnFile, InFlight, BaseOf
    <2> QED BY <2>1, <2>2
  <1>5. CASE PutIndex(p)
    <2>1. GuardedFiles'
      BY <1>0, <1>5 DEF PutIndex, Finish, Answer
    <2>2. SerialClients /\ ExpectedInv => ExpectedInv'
      BY <1>0, <1>5 DEF PutIndex, Finish, Answer, ExpectedInv, OnFile, InFlight, BaseOf
    <2> QED BY <2>1, <2>2
  <1> QED BY <1>1, <1>2, <1>3, <1>4, <1>5

LEMMA DisturbedKeepsClean ==
    ASSUME FrameInv, Tidy, Alone, NEW p \in Proc, Unfailing(p),
           RequestDisturbed(p), UNCHANGED copiers
    PROVE  GuardedFiles' /\ (SerialClients /\ ExpectedInv => ExpectedInv')
  <1> USE DEF FrameInv, BackupTypeOK, GuardInv, HandsInv, WriterPoints, ReaderPoints,
              LoadPoints, RecoverPoints, InsertPoints, EndPoints, WriteGuarded,
              Proc, Writer, Reader, Intact, diskVars, cacheVars, lockVars,
              boundVars, histVars, AtRest, GuardedFiles
  <1>0. /\ dir /\ ~Rewriting /\ ~Rewriting' /\ FrameInv /\ GuardedFiles
        /\ pc[p] # "rename" => expected' = expected
        /\ faults \in Nat /\ faults' = faults
    BY AloneFacts DEF Tidy, Unfailing
  <1>1. CASE LoadNothing(p)
    BY <1>0, <1>1 DEF LoadNothing
  <1>2. CASE RecoverRefused(p)
    BY <1>0, <1>2 DEF RecoverRefused
  <1>3. CASE RecoverUnseen(p)
    BY <1>0, <1>3 DEF RecoverUnseen
  <1>4. CASE p \in Writer /\ FlushUnseen(p)
    BY <1>0, <1>4 DEF FlushUnseen
  <1>5. CASE p \in Writer /\ WriteRefused(p)
    BY <1>0, <1>5 DEF WriteRefused
  <1>6. CASE p \in Writer /\ CopyNothing(p)
    BY <1>0, <1>6 DEF CopyNothing
  <1>7. CASE p \in Reader /\ ReadTornMeta(p)
    <2>1. GuardedFiles'
      BY <1>0, <1>7 DEF ReadTornMeta, Finish
    <2>2. SerialClients /\ ExpectedInv => ExpectedInv'
      BY <1>0, <1>7 DEF ReadTornMeta, Finish, ExpectedInv, OnFile, InFlight, BaseOf
    <2> QED BY <2>1, <2>2
  <1> QED BY <1>1, <1>2, <1>3, <1>4, <1>5, <1>6, <1>7 DEF RequestDisturbed

LEMMA CopyKeepsClean ==
    ASSUME FrameInv, Tidy, Alone, NEW p \in Writer, Unfailing(p), OpenCopy(p) \/ CloseCopy(p)
    PROVE  GuardedFiles' /\ (SerialClients /\ ExpectedInv => ExpectedInv')
  <1> USE DEF FrameInv, BackupTypeOK, GuardInv, HandsInv, WriterPoints, ReaderPoints,
              LoadPoints, RecoverPoints, InsertPoints, EndPoints, WriteGuarded,
              Proc, Writer, Reader, Intact, diskVars, cacheVars, lockVars,
              boundVars, histVars, AtRest, GuardedFiles
  <1>0. /\ dir /\ ~Rewriting /\ ~Rewriting' /\ FrameInv /\ GuardedFiles
        /\ pc[p] # "rename" => expected' = expected
        /\ faults \in Nat /\ faults' = faults
    BY AloneFacts DEF Tidy, Unfailing
  <1>1. CASE OpenCopy(p)
    <2>1. GuardedFiles'
      BY <1>0, <1>1 DEF OpenCopy, CopyReplica, OpenReplica, Copying
    <2>2. SerialClients /\ ExpectedInv => ExpectedInv'
      BY <1>0, <1>1 DEF OpenCopy, CopyReplica, OpenReplica, Copying, ExpectedInv, OnFile,
                        InFlight, BaseOf
    <2> QED BY <2>1, <2>2
  <1>2. CASE CloseCopy(p)
    <2>1. GuardedFiles'
      BY <1>0, <1>2 DEF CloseCopy, CloseReplica
    <2>2. SerialClients /\ ExpectedInv => ExpectedInv'
      BY <1>0, <1>2 DEF CloseCopy, CloseReplica, ExpectedInv, OnFile, InFlight, BaseOf
    <2> QED BY <2>1, <2>2
  <1> QED BY <1>1, <1>2

LEMMA AloneKeepsClean ==
    ASSUME FrameInv, Tidy, Alone, NEW p \in Proc, Unfailing(p)
    PROVE  GuardedFiles' /\ (SerialClients /\ ExpectedInv => ExpectedInv')
  <1>0. Request(p) /\ faults \in Nat /\ faults' = faults
    BY DEF Unfailing
  <1>1. CASE RequestUndisturbed(p) /\ UNCHANGED copiers
    <2>0. /\ FilesThere(p)
          /\ pc[p] \notin {"copy", "snap"}
          /\ UNCHANGED copiers
      BY <1>0, <1>1 DEF RequestUndisturbed
    <2>1. CASE LoadIndex(p)
      BY <2>0, <2>1, LoadKeepsClean
    <2>2. CASE p \in Writer /\ ~LoadIndex(p)
      <3>1. InsertRun(p) \/ EmbedRun(p)
        BY <1>1, <2>2 DEF RequestUndisturbed, Writer, Reader
      <3>2. ~CopyReplica(p) /\ ~SnapReplica(p)
        BY <2>0 DEF CopyReplica, SnapReplica
      <3> QED
        BY <2>0, <2>2, <3>1, <3>2, WriteKeepsClean DEF InsertRun, EmbedRun, Persist
    <2>3. CASE p \in Reader /\ ~LoadIndex(p)
      <3>1. ReadIndex(p)
        BY <1>1, <2>3
        DEF RequestUndisturbed, Writer, Reader, QueryVector, QuerySearch,
            IndexByPage
      <3> QED BY <2>0, <2>3, <3>1, ReadKeepsClean DEF ReadIndex
    <2> QED BY <2>1, <2>2, <2>3 DEF Proc
  <1>2. CASE RequestDisturbed(p) /\ UNCHANGED copiers
    BY <1>2, DisturbedKeepsClean
  <1>3. CASE p \in Writer /\ (OpenCopy(p) \/ CloseCopy(p))
    BY <1>3, CopyKeepsClean
  <1> QED BY <1>0, <1>1, <1>2, <1>3 DEF Request

-----------------------------------------------------------------------------
(* Clean runs: requests beside an operation, and the operations.           *)

Busy == \E o \in Op : Running(o)

NobodyWrites ==
    /\ lockWriter = NoOne
    /\ \A w \in Writer : ~InFlight(w)
    /\ \A p \in Proc : pc[p] \notin RecoverPoints \cup WriteGuarded \cup {"copy", "snap"}

\* Beside an operation nobody writes, and nobody is about to.
LEMMA BesideNobodyWrites == FrameInv /\ ~Overlap /\ Busy => NobodyWrites
  <1> SUFFICES ASSUME FrameInv, ~Overlap, Busy PROVE NobodyWrites
    OBVIOUS
  <1>1. /\ \A w \in Writer : ~InFlight(w)
        /\ \A p \in Proc : pc[p] \notin RecoverPoints
    BY DEF Overlap, Busy, Proc
  <1>2. \A p \in Proc : pc[p] \notin RecoverPoints \cup WriteGuarded \cup {"copy", "snap"}
    BY <1>1 DEF FrameInv, BackupTypeOK, Proc, InFlight, EndPoints, ReaderPoints, LoadPoints,
                RecoverPoints, WriteGuarded
  <1>3. lockWriter = NoOne
    BY <1>2 DEF FrameInv, BackupTypeOK, GuardInv
  <1> QED BY <1>1, <1>2, <1>3 DEF NobodyWrites

\* So no request changes a file.
LEMMA BesideNothingChanges ==
    ASSUME FrameInv, NobodyWrites, NobodyWrites', NEW p \in Proc, Unfailing(p)
    PROVE  /\ UNCHANGED <<diskVars, copiers, dir, expected, opPc, hand, archives>>
           /\ \A w \in Writer : local'[w] = local[w]
           /\ \A w \in Writer : pc'[w] = "new" => pc[w] = "new"
  <1>1. /\ \A w \in Writer : ~InFlight(w)
        /\ \A x \in Proc : pc[x] \notin RecoverPoints \cup WriteGuarded \cup {"copy", "snap"}
        /\ \A x \in Proc : pc'[x] \notin RecoverPoints
    BY DEF NobodyWrites
  <1>2. /\ Request(p) /\ UNCHANGED <<opPc, hand, archives>>
        /\ dir' = (dir \/ MakesDir(p))
        /\ pc[p] # "rename" => expected' = expected
    BY DEF Unfailing, Request, opVars
  <1>3. UNCHANGED <<dir, expected>>
    BY <1>1, <1>2 DEF MakesDir, WriteGuarded, FrameInv, BackupTypeOK
  <1> USE DEF diskVars, cacheVars, lockVars, boundVars, histVars, RecoverPoints,
              WriteGuarded, FrameInv, BackupTypeOK, Proc, Writer, Reader, InFlight
  <1>4. CASE LoadIndex(p)
    <2>1. p \in Reader
      BY <1>1, <1>4 DEF LoadIndex, LoadLock, LoadRead, RecoverLock, RecoverMeta,
                        RecoverWrite,
                        RecoverFlush, RecoverFails, EndPoints
    <2>2. LoadLock(p) \/ LoadRead(p)
      BY <1>1, <1>4 DEF LoadIndex, RecoverLock, RecoverMeta, RecoverWrite, RecoverFlush,
                        RecoverFails
    <2>3. UNCHANGED diskVars /\ \A w \in Writer : local'[w] = local[w] /\ pc'[w] = pc[w]
      BY <2>1, <2>2 DEF LoadLock, LoadRead
    <2>4. UNCHANGED copiers
      BY <1>1, <1>2, <2>1 DEF Request
    <2> QED BY <1>2, <1>3, <2>3, <2>4
  <1>5. CASE p \in Writer /\ ~LoadIndex(p)
    <2>1. pc[p] \in {"new"} \cup EndPoints
      BY <1>1, <1>5
    <2>2. Begin(p) /\ UNCHANGED copiers
      <3>1. ~OpenCopy(p) /\ ~CloseCopy(p) /\ ~RequestDisturbed(p)
        BY <1>5, <2>1 DEF OpenCopy, CopyReplica, CloseCopy, RequestDisturbed, LoadNothing,
                          RecoverRefused, RecoverUnseen, FlushUnseen, WriteRefused,
                          CopyNothing, EndPoints
      <3>2. InsertRun(p) \/ EmbedRun(p)
        BY <1>2, <1>5, <3>1 DEF Request, RequestUndisturbed
      <3>3. ~Persist(p)
        BY <2>1 DEF Persist, WriteMeta, FlushTemp, Rename, CopyReplica, SnapReplica,
                    UpdateCount, WriteFails, ReplicaFails, CountFails, EndPoints
      <3>4. ~AcquireWrite(p) /\ ~Apply(p) /\ ~FetchFails(p)
        BY <2>1 DEF AcquireWrite, Apply, FetchFails, EndPoints
      <3> QED BY <1>2, <1>5, <3>1, <3>2, <3>3, <3>4 DEF Request, InsertRun, EmbedRun
    <2>3. UNCHANGED <<diskVars, local>> /\ \A w \in Writer : pc'[w] = "new" => pc[w] = "new"
      BY <1>5, <2>2 DEF Begin
    <2> QED BY <1>2, <1>3, <2>2, <2>3
  <1>6. CASE p \in Reader /\ ~LoadIndex(p)
    <2>1. UNCHANGED copiers
      BY <1>2, <1>6 DEF Request
    <2>2. UNCHANGED diskVars /\ \A w \in Writer : local'[w] = local[w] /\ pc'[w] = pc[w]
      <3>1. CASE RequestDisturbed(p)
        BY <1>1, <1>6, <3>1 DEF RequestDisturbed, LoadNothing, RecoverRefused,
                                RecoverUnseen,
                                ReadTornMeta, Finish
      <3>2. CASE ~RequestDisturbed(p)
        <4>1. ReadIndex(p)
          BY <1>2, <1>6, <3>2 DEF Request, RequestUndisturbed, QueryVector, QuerySearch,
                                  IndexByPage
        <4> QED BY <1>6, <4>1 DEF ReadIndex, CheckCache, RecheckCache, ReadMeta, PutSum,
                                  PutIndex, Finish
      <3> QED BY <3>1, <3>2
    <2> QED BY <1>2, <1>3, <2>1, <2>2
  <1> QED BY <1>4, <1>5, <1>6

\* A step that leaves the files alone keeps how they stand, if nobody writes.
LEMMA BesideKeepsClean ==
    ASSUME FrameInv, FrameInv', Tidy, ~Overlap', Busy, NEW p \in Proc, Unfailing(p)
    PROVE  Tidy' /\ (SerialClients /\ ExpectedInv => ExpectedInv')
  <1>1. UNCHANGED opPc
    BY DEF Unfailing, Request, opVars
  <1>2. Busy'
    BY <1>1 DEF Busy, Running
  <1>3. NobodyWrites /\ NobodyWrites'
    <2>1. (FrameInv /\ ~Overlap /\ Busy => NobodyWrites)'
      BY BesideNobodyWrites, PTL
    <2> QED BY <1>2, <2>1, BesideNobodyWrites DEF Tidy
  <1>10. /\ UNCHANGED <<diskVars, copiers, dir, expected, opPc, hand, archives>>
         /\ \A w \in Writer : local'[w] = local[w]
         /\ \A w \in Writer : pc'[w] = "new" => pc[w] = "new"
    BY <1>3, BesideNothingChanges
  <1> USE DEF NobodyWrites
  <1>4. /\ (Rewriting' <=> Rewriting) /\ (AtRest' <=> AtRest)
        /\ OnFile' = OnFile /\ Archived' = Archived
    BY <1>10 DEF Rewriting, Rewrites, OnFile, AtRest, diskVars, Archived
  <1>5. GuardedFiles'
    <2>1. ~Rewriting => AtRest
      BY <1>3 DEF Tidy, GuardedFiles
    <2>2. ~Rewriting' => AtRest'
      BY <1>4, <2>1
    <2> HIDE DEF NobodyWrites
    <2>3. \A x \in Proc : pc'[x] \notin RecoverPoints \cup WriteGuarded \cup {"copy", "snap"}
      BY <1>3 DEF NobodyWrites
    <2> QED BY <2>2, <2>3 DEF GuardedFiles, WriteGuarded
  <1>6. OperatedFiles'
    BY <1>10 DEF Tidy, OperatedFiles, Rewrites, Agreed, diskVars
  <1>7. \A n \in Archived' : Agreed(archives'[n])
    BY <1>10, <1>4 DEF Tidy
  <1>8. ASSUME ExpectedInv PROVE ExpectedInv'
    BY <1>10, <1>3, <1>4, <1>8 DEF ExpectedInv, InFlight, EndPoints, RecoverPoints
  <1> QED BY <1>5, <1>6, <1>7, <1>8 DEF Tidy, Agreed

\* Steps of an operation that change no file but archives.
LEMMA AsideKeepsClean ==
    ASSUME FrameInv, Tidy, ~Overlap', NEW o \in Op, NEW to,
           opPc' = [opPc EXCEPT ![o] = to], ~Rewrites(o),
           to \notin (RestorePoints \ {"r_check"}) \cup {"b_copy"},
           UNCHANGED <<pc, local, lockWriter, diskVars, copiers, dir, expected>>,
           \A x \in Op : x # o => hand'[x] = hand[x],
           to = "b_metafile" => hand'[o].replica = replica,
           to = "b_rename" => Agreed(hand'[o]),
           \A n \in Archived' : Agreed(archives'[n])
    PROVE  Tidy' /\ (SerialClients /\ ExpectedInv => ExpectedInv')
  <1>1. opPc \in [Op -> OpPoints]
    BY DEF FrameInv, BackupTypeOK
  <1>2. \A x \in Op : opPc'[x] = IF x = o THEN to ELSE opPc[x]
    BY <1>1
  <1>3. \A x \in Op : Rewrites(x)' <=> Rewrites(x)
    BY <1>2 DEF Rewrites
  <1>4. /\ (Rewriting' <=> Rewriting) /\ (AtRest' <=> AtRest)
        /\ OnFile' = OnFile
    BY <1>3 DEF Rewriting, OnFile, AtRest, diskVars
  <1>5. GuardedFiles'
    BY <1>4 DEF Tidy, GuardedFiles, diskVars, Intact
  <1>6. OperatedFiles'
    <2>1. dir' \/ \E x \in Op : opPc'[x] = "r_mkdir"
      BY <1>2 DEF Tidy, OperatedFiles, Rewrites, RestorePoints
    <2>2. ASSUME NEW x \in Op, x # o
          PROVE  opPc'[x] = opPc[x] /\ hand'[x] = hand[x] /\ (Rewrites(x)' <=> Rewrites(x))
      BY <1>2, <1>3, <2>2
    <2>3. ~Rewrites(o)' /\ opPc'[o] = to /\ to \notin RestorePoints \ {"r_check"}
      BY <1>2, <1>3
    <2> QED BY <2>1, <2>2, <2>3 DEF Tidy, OperatedFiles, Agreed, diskVars, RestorePoints
  <1>8. ASSUME ExpectedInv PROVE ExpectedInv'
    BY <1>4, <1>8 DEF ExpectedInv, InFlight, BaseOf
  <1> QED BY <1>5, <1>6, <1>8 DEF Tidy, Agreed

\* How the files are when an operation runs that has not removed any.
LEMMA OperationFacts ==
    ASSUME FrameInv, Tidy, NEW o \in Op, Running(o)
    PROVE  /\ NobodyWrites
           /\ \A x \in Op : x # o => ~Running(x) /\ ~Rewrites(x) /\ opPc[x] # "r_mkdir"
           /\ ~Rewrites(o) => AtRest /\ ~Rewriting
  <1>1. NobodyWrites
    BY BesideNobodyWrites DEF Busy, Tidy
  <1>2. \A x \in Op : x # o => ~Running(x)
    BY OtherOps DEF OpsOK, FrameInv, BackupTypeOK
  <1>3. \A x \in Op : x # o => ~Rewrites(x) /\ opPc[x] # "r_mkdir"
    BY <1>2 DEF Running, Rewrites, RestorePoints
  <1> QED BY <1>1, <1>2, <1>3 DEF Rewriting, Tidy, GuardedFiles, NobodyWrites

LEMMA StartKeepsClean ==
    ASSUME FrameInv, Tidy, ~Overlap', NEW o \in Op,
           NEW next \in {"b_check", "r_check", "d_remove"}, Start(o, next)
    PROVE  Tidy' /\ (SerialClients /\ ExpectedInv => ExpectedInv')
  <1>1. /\ opPc[o] = "new"
        /\ UNCHANGED <<pc, local, lockWriter, diskVars, copiers, dir, expected, archives, hand>>
        /\ \E to \in {next, "failed"} : opPc' = [opPc EXCEPT ![o] = to]
    BY DEF Start, vars, lockVars
  <1>2. PICK to \in {next, "failed"} : opPc' = [opPc EXCEPT ![o] = to]
    BY <1>1
  <1>3. ~Rewrites(o) /\ to \notin (RestorePoints \ {"r_check"}) \cup {"b_copy", "b_metafile",
                                                                       "b_rename"}
    BY <1>1 DEF Rewrites, RestorePoints
  <1>4. \A n \in Archived' : Agreed(archives'[n])
    BY <1>1 DEF Tidy, Archived
  <1> QED BY <1>1, <1>2, <1>3, <1>4, AsideKeepsClean

LEMMA BackupKeepsClean ==
    ASSUME FrameInv, Tidy, ~Overlap', NEW o \in Backups, BackupRun(o),
           faults \in Nat, faults' = faults
    PROVE  Tidy' /\ (SerialClients /\ ExpectedInv => ExpectedInv')
  <1> USE DEF Op
  <1>0. /\ opPc \in [Op -> OpPoints] /\ hand \in [Op -> Archive]
        /\ archives \in [Name -> {Absent} \cup Archive]
        /\ \A n \in Archived : Agreed(archives[n])
    BY DEF FrameInv, BackupTypeOK, Tidy
  <1>1. CASE Start(o, "b_check")
    BY <1>1, StartKeepsClean
  <1>2. ASSUME opPc[o] \in BackupPoints
        PROVE  ~Rewrites(o) /\ AtRest /\ ~Rewriting
    <2>1. Running(o) /\ ~Rewrites(o)
      BY <1>2 DEF Running, Rewrites, BackupPoints, RestorePoints
    <2> QED BY <2>1, OperationFacts
  <1>3. CASE BackupCheck(o) \/ BackupMeta(o) \/ BackupReplica(o)
    <2>1. opPc[o] \in {"b_check", "b_meta", "b_replica"}
      BY <1>3 DEF BackupCheck, BackupMeta, BackupReplica
    <2>2. ~Rewrites(o) /\ AtRest
      BY <1>2, <2>1 DEF BackupPoints
    <2>3. /\ UNCHANGED <<pc, local, lockWriter, diskVars, copiers, dir, expected, archives>>
          /\ \E to \in {"b_meta", "failed", "b_replica", "b_metafile"} :
               /\ opPc' = [opPc EXCEPT ![o] = to]
               /\ to = "b_metafile" => hand' = [hand EXCEPT ![o].replica = replica]
          /\ \A x \in Op : x # o => hand'[x] = hand[x]
      <3>1. CASE BackupCheck(o)
        BY <2>2, <3>1 DEF BackupCheck, AtRest, Goto, End, serverVars, lockVars, diskVars
      <3>2. CASE BackupMeta(o)
        BY <1>0, <3>2 DEF BackupMeta, Goto, End, vars, lockVars, diskVars
      <3>3. CASE BackupReplica(o)
        BY <1>0, <3>3 DEF BackupReplica, Goto, End, vars, lockVars, diskVars
      <3> QED BY <1>3, <3>1, <3>2, <3>3
    <2>4. PICK to \in {"b_meta", "failed", "b_replica", "b_metafile"} :
            /\ opPc' = [opPc EXCEPT ![o] = to]
            /\ to = "b_metafile" => hand' = [hand EXCEPT ![o].replica = replica]
      BY <2>3
    <2>5. to = "b_metafile" => hand'[o].replica = replica
      BY <1>0, <2>4 DEF Archive
    <2>6. to \notin (RestorePoints \ {"r_check"}) \cup {"b_copy", "b_rename"}
      BY DEF RestorePoints
    <2>7. \A n \in Archived' : Agreed(archives'[n])
      BY <1>0, <2>3 DEF Archived
    <2> QED BY <2>2, <2>3, <2>4, <2>5, <2>6, <2>7, AsideKeepsClean
  <1>4. CASE BackupMetaFile(o)
    <2>1. /\ opPc[o] = "b_metafile" /\ opPc' = [opPc EXCEPT ![o] = "b_rename"]
          /\ UNCHANGED <<pc, local, lockWriter, diskVars, copiers, dir, expected, archives>>
          /\ hand' = [hand EXCEPT ![o].meta = meta]
      BY <1>4 DEF BackupMetaFile, Goto, vars, lockVars
    <2>2. ~Rewrites(o) /\ AtRest
      BY <1>2, <2>1 DEF BackupPoints
    <2>3. hand[o].replica = replica
      BY <2>1 DEF Tidy, OperatedFiles
    <2>4. Agreed(hand'[o]) /\ \A x \in Op : x # o => hand'[x] = hand[x]
      BY <1>0, <2>1, <2>2, <2>3 DEF Agreed, AtRest, Archive
    <2>5. \A n \in Archived' : Agreed(archives'[n])
      BY <1>0, <2>1 DEF Archived
    <2>6. "b_rename" \notin (RestorePoints \ {"r_check"}) \cup {"b_copy"}
      BY DEF RestorePoints
    <2> QED BY <2>1, <2>2, <2>4, <2>5, <2>6, AsideKeepsClean
  <1>5. CASE BackupRename(o)
    <2>1. /\ opPc[o] = "b_rename" /\ opPc' = [opPc EXCEPT ![o] = "b_clean"]
          /\ UNCHANGED <<pc, local, lockWriter, diskVars, copiers, dir, expected, hand>>
          /\ archives' = [archives EXCEPT ![hand[o].name] = hand[o]]
      BY <1>5 DEF BackupRename, Goto, vars, lockVars
    <2>2. ~Rewrites(o)
      BY <1>2, <2>1 DEF BackupPoints
    <2>3. Agreed(hand[o])
      BY <2>1 DEF Tidy, OperatedFiles
    <2>4. \A n \in Archived' : Agreed(archives'[n])
      BY <1>0, <2>1, <2>3 DEF Archived
    <2>5. "b_clean" \notin (RestorePoints \ {"r_check"}) \cup {"b_copy"}
      BY DEF RestorePoints
    <2> QED BY <2>1, <2>2, <2>4, <2>5, AsideKeepsClean
  <1>6. CASE BackupClean(o)
    <2>1. /\ opPc[o] = "b_clean" /\ opPc' = [opPc EXCEPT ![o] = "done"]
          /\ UNCHANGED <<pc, local, lockWriter, diskVars, copiers, dir, expected, hand>>
          /\ \A n \in Name : archives'[n] \in {Absent, archives[n]}
      BY <1>6 DEF BackupClean, End, vars, lockVars
    <2>2. ~Rewrites(o)
      BY <1>2, <2>1 DEF BackupPoints
    <2>3. \A n \in Archived' : Agreed(archives'[n])
      BY <1>0, <2>1 DEF Archived
    <2>4. "done" \notin (RestorePoints \ {"r_check"}) \cup {"b_copy"}
      BY DEF RestorePoints
    <2> QED BY <2>1, <2>2, <2>3, <2>4, AsideKeepsClean
  <1>7. ~BackupCopied(o)
    BY DEF BackupCopied, Tidy, OperatedFiles
  <1>8. ~CleanFails(o) /\ ~OperationFails(o)
    BY DEF CleanFails, OperationFails
  <1> QED BY <1>1, <1>3, <1>4, <1>5, <1>6, <1>7, <1>8 DEF BackupRun

LEMMA DeleteKeepsClean ==
    ASSUME FrameInv, Tidy, ~Overlap', NEW o \in Deletes, DeleteRun(o)
    PROVE  Tidy' /\ (SerialClients /\ ExpectedInv => ExpectedInv')
  <1> USE DEF Op
  <1>1. CASE Start(o, "d_remove")
    BY <1>1, StartKeepsClean
  <1>2. CASE DeleteArchive(o)
    <2>0. archives \in [Name -> {Absent} \cup Archive]
      BY DEF FrameInv, BackupTypeOK
    <2>1. /\ opPc[o] = "d_remove"
          /\ \E to \in {"done", "failed"} : opPc' = [opPc EXCEPT ![o] = to]
          /\ UNCHANGED <<pc, local, lockWriter, diskVars, copiers, dir, expected, hand>>
          /\ \A n \in Name : archives'[n] \in {Absent, archives[n]}
      BY <1>2, <2>0 DEF DeleteArchive, End, vars, lockVars
    <2>2. ~Rewrites(o)
      BY <2>1 DEF Rewrites, RestorePoints
    <2>3. \A n \in Archived' : Agreed(archives'[n])
      BY <2>1 DEF Archived, Tidy
    <2>4. PICK to \in {"done", "failed"} : opPc' = [opPc EXCEPT ![o] = to]
      BY <2>1
    <2>5. to \notin (RestorePoints \ {"r_check"}) \cup {"b_copy", "b_metafile", "b_rename"}
      BY DEF RestorePoints
    <2> QED BY <2>1, <2>2, <2>3, <2>4, <2>5, AsideKeepsClean
  <1> QED BY <1>1, <1>2 DEF DeleteRun

\* Steps of a restore once it has begun to change files.
LEMMA RewriteKeepsClean ==
    ASSUME FrameInv, Tidy, ~Overlap', NEW o \in Op, Running(o), NEW to,
           to \in RestorePoints \ {"r_check"},
           opPc' = [opPc EXCEPT ![o] = to],
           UNCHANGED <<pc, local, lockWriter, archives>>,
           \A x \in Op : x # o => hand'[x] = hand[x],
           dir' \/ to = "r_mkdir",
           Agreed(hand'[o]),
           copiers' = IF to = "r_fill" THEN {o} ELSE {},
           to # "r_remove" => bin' = Absent /\ temp' = Absent,
           to \in {"r_mkdir", "r_replica", "r_fill", "r_meta"} => meta' = Absent,
           to \in {"r_mkdir", "r_replica"} => replica' = Absent,
           to \in {"r_meta", "r_metafill", "r_reload"} => replica' = hand'[o].replica,
           to = "r_reload" => meta' = replica'
    PROVE  Tidy' /\ (ExpectedInv => ExpectedInv')
  <1>1. opPc \in [Op -> OpPoints]
    BY DEF FrameInv, BackupTypeOK
  <1>2. \A x \in Op : opPc'[x] = IF x = o THEN to ELSE opPc[x]
    BY <1>1
  <1>3. NobodyWrites /\ \A x \in Op : x # o => ~Running(x)
    BY OperationFacts
  <1>4. Rewriting'
    BY <1>2 DEF Rewriting, Rewrites
  <1>5. GuardedFiles'
    BY <1>3, <1>4 DEF GuardedFiles, NobodyWrites, WriteGuarded
  <1>6. OperatedFiles'
    <2>1. dir' \/ \E x \in Op : opPc'[x] = "r_mkdir"
      BY <1>2
    <2>2. ASSUME NEW x \in Op, x # o
          PROVE  opPc'[x] \notin BackupPoints \cup RestorePoints
      BY <1>2, <1>3, <2>2 DEF Running
    <2>3. opPc'[o] = to /\ to \in RestorePoints /\ to # "r_check" /\ Rewrites(o)'
      BY <1>2 DEF Rewrites
    <2> QED BY <2>1, <2>2, <2>3 DEF OperatedFiles, Rewrites, RestorePoints, BackupPoints
  <1>7. \A n \in Archived' : Agreed(archives'[n])
    BY DEF Tidy, Archived
  <1>8. ASSUME ExpectedInv PROVE ExpectedInv'
    BY <1>3, <1>4, <1>8 DEF ExpectedInv, NobodyWrites, InFlight, EndPoints, RecoverPoints
  <1> QED BY <1>5, <1>6, <1>7, <1>8 DEF Tidy, Agreed

LEMMA RestoreKeepsClean ==
    ASSUME FrameInv, Tidy, ~Overlap', NEW o \in Restores, RestoreRun(o),
           faults \in Nat, faults' = faults
    PROVE  Tidy' /\ (SerialClients /\ ExpectedInv => ExpectedInv')
  <1> USE DEF Op
  <1>0. /\ opPc \in [Op -> OpPoints] /\ hand \in [Op -> Archive]
        /\ archives \in [Name -> {Absent} \cup Archive]
        /\ \A n \in Archived : Agreed(archives[n])
    BY DEF FrameInv, BackupTypeOK, Tidy
  <1>1. CASE Start(o, "r_check")
    BY <1>1, StartKeepsClean
  <1>2. CASE RestoreCheck(o)
    <2>1. /\ opPc[o] = "r_check" /\ ~Rewrites(o) /\ Running(o)
          /\ UNCHANGED <<pc, local, lockWriter, diskVars, copiers, dir, archives>>
      BY <1>2 DEF RestoreCheck, Rewrites, Running, RestorePoints, vars, lockVars
    <2>2. AtRest
      BY <2>1, OperationFacts
    <2>3. CASE /\ opPc' = [opPc EXCEPT ![o] = "r_remove"] /\ dir
               /\ \E n \in Archived : hand' = [hand EXCEPT ![o] = archives[n]]
      <3>1. Agreed(hand'[o]) /\ \A x \in Op : x # o => hand'[x] = hand[x]
        BY <1>0, <2>3
      <3>2. "r_remove" \in RestorePoints \ {"r_check"}
        BY DEF RestorePoints
      <3>3. copiers' = {} /\ dir'
        BY <2>1, <2>2, <2>3 DEF AtRest
      <3> QED BY <2>1, <2>3, <3>1, <3>2, <3>3, RewriteKeepsClean
    <2>4. CASE opPc' = [opPc EXCEPT ![o] = "failed"] /\ UNCHANGED <<hand, expected>>
      <3>1. "failed" \notin (RestorePoints \ {"r_check"}) \cup {"b_copy", "b_metafile", "b_rename"}
        BY DEF RestorePoints
      <3>2. \A n \in Archived' : Agreed(archives'[n])
        BY <1>0, <2>1 DEF Archived
      <3> QED BY <2>1, <2>4, <3>1, <3>2, AsideKeepsClean
    <2> QED BY <1>2, <2>3, <2>4 DEF RestoreCheck, Goto, End
  <1>3. ASSUME opPc[o] \in RestorePoints \ {"r_check"}
        PROVE  /\ Rewrites(o) /\ Running(o) /\ Agreed(hand[o]) /\ hand[o] \in Archive
               /\ opPc[o] # "r_fill" => copiers = {}
               /\ opPc[o] = "r_fill" => copiers = {o}
               /\ opPc[o] # "r_mkdir" => dir
               /\ opPc[o] # "r_remove" => bin = Absent /\ temp = Absent
               /\ opPc[o] \in {"r_mkdir", "r_replica", "r_fill", "r_meta"} => meta = Absent
               /\ opPc[o] \in {"r_mkdir", "r_replica"} => replica = Absent
               /\ opPc[o] \in {"r_meta", "r_metafill", "r_reload"} =>
                     replica = hand[o].replica
               /\ opPc[o] = "r_reload" => meta = replica
    <2>1. Rewrites(o) /\ Running(o)
      BY <1>3 DEF Rewrites, Running
    <2>2. \A x \in Op : x # o => opPc[x] # "r_mkdir"
      BY <2>1, OperationFacts
    <2> QED BY <1>0, <2>1, <2>2 DEF Tidy, OperatedFiles
  <1> USE DEF RestorePoints
  <1>4. CASE RestoreRemove(o)
    <2>1. /\ opPc[o] = "r_remove" /\ opPc' = [opPc EXCEPT ![o] = "r_remove"]
          /\ UNCHANGED <<pc, local, lockWriter, archives, dir, hand>>
          /\ copiers' \in {copiers, {}}
      BY <1>0, <1>4 DEF RestoreRemove, serverVars, lockVars, opVars
    <2> QED BY <1>3, <2>1, RewriteKeepsClean
  <1>5. CASE RestoreRmdir(o)
    <2>1. /\ opPc[o] = "r_remove" /\ opPc' = [opPc EXCEPT ![o] = "r_mkdir"]
          /\ UNCHANGED <<pc, local, lockWriter, archives, hand, copiers>>
          /\ bin' = Absent /\ temp' = Absent /\ replica' = Absent /\ meta' = Absent
      BY <1>5 DEF RestoreRmdir, Goto, vars, diskVars, lockVars
    <2> QED BY <1>3, <2>1, RewriteKeepsClean
  <1>6. CASE RestoreMkdir(o)
    <2>1. /\ opPc[o] = "r_mkdir" /\ opPc' = [opPc EXCEPT ![o] = "r_replica"] /\ dir'
          /\ UNCHANGED <<pc, local, lockWriter, archives, hand, copiers, bin, temp, replica, meta>>
      BY <1>6 DEF RestoreMkdir, Goto, vars, diskVars, lockVars
    <2> QED BY <1>3, <2>1, RewriteKeepsClean
  <1>7. CASE RestoreReplica(o)
    <2>1. /\ opPc[o] = "r_replica" /\ opPc' = [opPc EXCEPT ![o] = "r_fill"]
          /\ UNCHANGED <<pc, local, lockWriter, archives, hand, bin, temp, meta, dir>>
          /\ copiers' = Copying \cup {o}
      BY <1>7 DEF RestoreReplica, OpenReplica, Goto, serverVars, lockVars
    <2>2. Copying = {}
      BY <1>3, <2>1 DEF Copying
    <2> QED BY <1>3, <2>1, <2>2, RewriteKeepsClean
  <1>8. CASE RestoreFill(o)
    <2>1. /\ opPc[o] = "r_fill" /\ opPc' = [opPc EXCEPT ![o] = "r_meta"]
          /\ UNCHANGED <<pc, local, lockWriter, archives, hand, bin, temp, meta, dir>>
          /\ CloseReplica(o, hand[o].replica)
      BY <1>8 DEF RestoreFill, Goto, serverVars, lockVars
    <2>2. replica' = hand[o].replica /\ copiers' = {}
      BY <1>3, <2>1 DEF CloseReplica
    <2> QED BY <1>3, <2>1, <2>2, RewriteKeepsClean
  <1>9. CASE RestoreMeta(o)
    <2>1. /\ UNCHANGED <<pc, local, lockWriter, archives, hand, bin, temp, replica, dir, copiers>>
          /\ \/ opPc[o] = "r_meta" /\ opPc' = [opPc EXCEPT ![o] = "r_metafill"]
             \/ /\ opPc[o] = "r_metafill" /\ opPc' = [opPc EXCEPT ![o] = "r_reload"]
                /\ meta' = hand[o].meta
      BY <1>9 DEF RestoreMeta, Goto, serverVars, lockVars
    <2>2. CASE opPc[o] = "r_meta"
      <3>1. opPc' = [opPc EXCEPT ![o] = "r_metafill"]
        BY <2>1, <2>2
      <3> QED BY <1>3, <2>1, <2>2, <3>1, RewriteKeepsClean
    <2>3. CASE opPc[o] = "r_metafill"
      <3>1. opPc' = [opPc EXCEPT ![o] = "r_reload"] /\ meta' = hand[o].meta
        BY <2>1, <2>3
      <3>2. replica = hand[o].replica /\ hand[o].meta = hand[o].replica
        BY <1>3, <2>3 DEF Agreed
      <3> QED BY <1>3, <2>1, <2>3, <3>1, <3>2, RewriteKeepsClean
    <2> QED BY <2>1, <2>2, <2>3
  <1>10. CASE RestoreReload(o)
    <2>1. /\ opPc[o] = "r_reload" /\ opPc' = [opPc EXCEPT ![o] = "done"]
          /\ UNCHANGED <<pc, local, lockWriter, archives, hand, bin, temp, replica, meta, dir,
                         copiers>>
          /\ expected' = Whole(hand[o])
      BY <1>10 DEF RestoreReload, End, diskVars, lockVars
    <2>2. /\ bin = Absent /\ temp = Absent /\ replica = hand[o].replica /\ meta = replica
          /\ copiers = {} /\ replica \in Image /\ dir /\ Running(o) /\ Rewrites(o)
      BY <1>3, <2>1 DEF Agreed, Archive
    <2>3. AtRest' /\ OnFile' = replica /\ expected' = {replica}
      BY <2>1, <2>2 DEF AtRest, OnFile, Whole, Intact
    <2>4. NobodyWrites /\ \A x \in Op : x # o => ~Running(x)
      BY <2>2, OperationFacts
    <2>5. \A x \in Op : opPc'[x] \notin BackupPoints \cup RestorePoints
      BY <1>0, <2>1, <2>4 DEF Running, BackupPoints
    <2>6. ~Rewriting'
      BY <2>5 DEF Rewriting, Rewrites
    <2>7. GuardedFiles'
      BY <2>1, <2>3, <2>4 DEF GuardedFiles, NobodyWrites, WriteGuarded
    <2>8. OperatedFiles'
      BY <2>1, <2>2, <2>5 DEF OperatedFiles, Rewrites, BackupPoints
    <2>9. \A n \in Archived' : Agreed(archives'[n])
      BY <1>0, <2>1 DEF Archived
    <2>10. ASSUME ExpectedInv PROVE ExpectedInv'
      BY <2>1, <2>3, <2>4, <2>10 DEF ExpectedInv, NobodyWrites, InFlight, EndPoints,
                                     RecoverPoints
    <2> QED BY <2>7, <2>8, <2>9, <2>10 DEF Tidy, Agreed
  <1>11. ~OperationFails(o)
    BY DEF OperationFails
  <1> QED BY <1>1, <1>2, <1>4, <1>5, <1>6, <1>7, <1>8, <1>9, <1>10, <1>11 DEF RestoreRun

-----------------------------------------------------------------------------
(* Clean runs: all steps.                                                  *)

LEMMA RequestKeepsClean ==
    ASSUME FrameInv, Tidy, ~Overlap', NEW p \in Proc, Unfailing(p)
    PROVE  Tidy' /\ (SerialClients /\ ExpectedInv => ExpectedInv')
  <1>1. CASE Busy
    <2>1. FrameInv'
      BY RequestKeepsFrame DEF Unfailing
    <2> QED BY <1>1, <2>1, BesideKeepsClean
  <1>2. CASE ~Busy
    <2>1. Alone
      BY <1>2 DEF Busy, Alone
    <2>2. GuardedFiles' /\ (SerialClients /\ ExpectedInv => ExpectedInv')
      BY <2>1, AloneKeepsClean
    <2>3. /\ dir /\ UNCHANGED <<opPc, hand, archives>> /\ dir' = (dir \/ MakesDir(p))
      BY <2>1, AloneFacts DEF Unfailing, Request
    <2>4. \A o \in Op : opPc'[o] \notin BackupPoints \cup RestorePoints
      BY <2>1, <2>3 DEF Alone, Running
    <2>5. OperatedFiles'
      BY <2>3, <2>4 DEF OperatedFiles, Rewrites, BackupPoints, RestorePoints
    <2>6. \A n \in Archived' : Agreed(archives'[n])
      BY <2>3 DEF Tidy, Archived
    <2> QED BY <2>2, <2>5, <2>6 DEF Tidy, Agreed
  <1> QED BY <1>1, <1>2

LEMMA OthersKeepClean ==
    ASSUME FrameInv, Tidy, ~Overlap',
           UNCHANGED <<pc, local, lockWriter, diskVars, copiers, dir, expected, archives, opPc,
                       hand>>
    PROVE  Tidy' /\ (ExpectedInv => ExpectedInv')
  BY DEF Tidy, GuardedFiles, OperatedFiles, ExpectedInv, AtRest, Rewriting, Rewrites, OnFile,
         Archived, InFlight, BaseOf, Intact, Agreed, diskVars

\* Unless the run is clean, nothing is claimed.
CleanInv == clean => Tidy /\ (SerialClients => ExpectedInv)

LEMMA CleanInitially ==
    ASSUME BackupInit
    PROVE  CleanInv
  <1>1. PICK o \in Origins : /\ bin = Files(o).bin /\ replica = Files(o).replica
                             /\ meta = Files(o).meta
    BY DEF BackupInit, Init
  <1>2. /\ temp = Absent /\ lockWriter = NoOne /\ copiers = {} /\ dir /\ expected = {}
        /\ \A p \in Proc : pc[p] = IF p \in Writer THEN "new" ELSE "idle"
        /\ \A p \in Proc : local[p] = Absent
        /\ \A x \in Op : opPc[x] = "new"
        /\ \A n \in Name : archives[n] = Absent
    BY DEF BackupInit, Init
  <1>3. AtRest
    BY <1>1, <1>2 DEF Files, AtRest, Image
  <1>4. GuardedFiles
    BY <1>2, <1>3 DEF GuardedFiles, RecoverPoints
  <1>5. OperatedFiles /\ ~Overlap
    BY <1>2 DEF OperatedFiles, Overlap, Running, Rewrites, RestorePoints, BackupPoints
  <1>6. Archived = {}
    BY <1>2 DEF Archived
  <1>7. ExpectedInv
    BY <1>2 DEF ExpectedInv, InFlight, Proc, RecoverPoints
  <1> QED BY <1>4, <1>5, <1>6, <1>7 DEF CleanInv, Tidy

LEMMA CleanInductive ==
    FrameInv /\ RetentionInv /\ CleanInv /\ [BackupNext]_vars_b => CleanInv'
  <1> SUFFICES ASSUME FrameInv, RetentionInv, CleanInv, [BackupNext]_vars_b, clean'
               PROVE  Tidy' /\ (SerialClients => ExpectedInv')
    BY DEF CleanInv
  <1>1. CASE UNCHANGED vars_b
    <2>1. /\ UNCHANGED <<pc, local, lockWriter, diskVars, copiers, dir, expected, archives, opPc,
                        hand, clean>>
      BY <1>1 DEF vars_b, vars, opVars, lockVars
    <2>2. ~Overlap'
      BY <2>1 DEF CleanInv, Tidy, Overlap, Running, InFlight
    <2> QED BY <2>1, <2>2, OthersKeepClean DEF CleanInv
  <1>2. CASE BackupNext
    <2>1. /\ Tidy /\ (SerialClients => ExpectedInv) /\ ~Overlap'
          /\ crashes' = 0 /\ faults' = 0 /\ crashes \in Nat /\ faults \in Nat
      BY <1>2 DEF BackupNext, CleanInv, RetentionInv, CountersInv
    <2>2. ASSUME NEW p \in Proc, Request(p)
          PROVE  Tidy' /\ (SerialClients => ExpectedInv')
      <3>1. Unfailing(p)
        BY <2>1, <2>2, RequestCounts DEF Unfailing, RetentionInv
      <3> QED BY <2>1, <3>1, RequestKeepsClean
    <2>3. ASSUME NEW o \in Op,
                 \/ o \in Backups /\ BackupRun(o)
                 \/ o \in Restores /\ RestoreRun(o)
          PROVE  Tidy' /\ (SerialClients => ExpectedInv')
      <3>1. faults' \in {faults, faults + 1}
        <4>1. CASE \E next \in {"b_check", "r_check"} : Start(o, next)
          BY <4>1 DEF Start, vars, boundVars
        <4>2. CASE \/ BackupCheck(o) \/ BackupCopied(o) \/ BackupMeta(o) \/ BackupReplica(o)
                   \/ BackupMetaFile(o) \/ BackupRename(o) \/ BackupClean(o)
          BY <4>2 DEF BackupCheck, BackupCopied, BackupMeta, BackupReplica, BackupMetaFile,
                      BackupRename, BackupClean, vars, serverVars, boundVars
        <4>3. CASE \/ RestoreCheck(o) \/ RestoreRemove(o) \/ RestoreRmdir(o) \/ RestoreMkdir(o)
                   \/ RestoreReplica(o) \/ RestoreFill(o) \/ RestoreMeta(o) \/ RestoreReload(o)
          BY <4>3 DEF RestoreCheck, RestoreRemove, RestoreRmdir, RestoreMkdir,
                      RestoreReplica,
                      RestoreFill, RestoreMeta, RestoreReload, vars, serverVars, boundVars
        <4>4. CASE CleanFails(o) \/ OperationFails(o)
          BY <4>4 DEF CleanFails, OperationFails
        <4> QED BY <2>3, <4>1, <4>2, <4>3, <4>4 DEF BackupRun, RestoreRun
      <3>2. faults' = faults
        BY <2>1, <3>1
      <3> QED BY <2>1, <2>3, <3>2, BackupKeepsClean, RestoreKeepsClean
    <2>4. ASSUME NEW o \in Deletes, DeleteRun(o)
          PROVE  Tidy' /\ (SerialClients => ExpectedInv')
      BY <2>1, <2>4, DeleteKeepsClean
    <2>5. CASE Tick \/ (Evict /\ UNCHANGED <<dir, opVars, copiers, expected>>)
      <3>1. UNCHANGED <<pc, local, lockWriter, diskVars, copiers, dir, expected, archives, opPc,
                        hand>>
        BY <2>5 DEF Tick, Evict, vars, opVars, lockVars
      <3> QED BY <2>1, <3>1, OthersKeepClean
    <2>6. ~BackupCrash
      BY <2>1 DEF BackupCrash, Crash
    <2> QED BY <1>2, <2>2, <2>3, <2>4, <2>5, <2>6 DEF BackupNext, Op
  <1> QED BY <1>1, <1>2

THEOREM CleanAlways == BackupSpec => []CleanInv
  BY BackupFrame, RetentionInitially, RetentionInductive, CleanInitially, CleanInductive, PTL
  DEF BackupSpec

\* As long as nothing crashed or failed and no write ran beside an operation,
\* every archive holds one whole index and its metadata, for any number of
\* requests, backups, restores and deletions.
THEOREM ArchivesAlwaysAgree == BackupSpec => []ArchivesAgree
  <1>1. CleanInv => ArchivesAgree
    BY DEF CleanInv, Tidy, ArchivesAgree, Agreed
  <1> QED BY <1>1, CleanAlways, PTL

\* What the database holds is what its files hold.
LEMMA ContentsHeld ==
    ASSUME FrameInv, Tidy, ~Rewriting
    PROVE  Contents = OnFile
  <1>1. CASE lockWriter = NoOne
    <2>1. AtRest
      BY <1>1 DEF Tidy, GuardedFiles
    <2> QED BY <2>1 DEF AtRest, Contents, OnFile, Intact
  <1>2. CASE lockWriter # NoOne
    <2>1. PICK p \in Proc : pc[p] \in WriteGuarded
      BY <1>2 DEF FrameInv, BackupTypeOK, GuardInv
    <2>2. CASE pc[p] = "rc_flush"
      <3>1. Recovering /\ bin = Torn
        BY <2>2 DEF Recovering, Tidy, GuardedFiles
      <3> QED BY <3>1 DEF Contents, OnFile, Intact
    <2>3. CASE pc[p] # "rc_flush"
      <3>1. bin # Torn
        BY <2>1, <2>3 DEF Tidy, GuardedFiles, AtRest, WriteGuarded, FrameInv, HandsInv,
                          BackupTypeOK, Proc, ReaderPoints, LoadPoints, RecoverPoints
      <3> QED BY <3>1 DEF Contents, OnFile, Intact
    <2> QED BY <2>2, <2>3
  <1> QED BY <1>1, <1>2

\* For clients that write one at a time: after a restore, and until the next
\* one, the database holds the archive's index and what was written since.
THEOREM RestoresAreExact == SerialClients => (BackupSpec => []RestoredExactly)
  <1> SUFFICES ASSUME SerialClients PROVE BackupSpec => []RestoredExactly
    OBVIOUS
  <1>1. FrameInv /\ CleanInv => RestoredExactly
    <2> SUFFICES ASSUME FrameInv, CleanInv, clean, ~Restoring, expected # {}
                 PROVE  Contents \in expected
      BY DEF RestoredExactly
    <2>1. ~Rewriting
      BY DEF Restoring, Rewriting, Rewrites, Running, FrameInv, ArchivableInv
    <2> QED BY <2>1, ContentsHeld DEF CleanInv, ExpectedInv
  <1> QED BY <1>1, BackupFrame, CleanAlways, PTL

===============================================================================
