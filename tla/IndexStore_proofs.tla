-------------------------- MODULE IndexStore_proofs --------------------------
(***************************************************************************)
(* What holds of every IndexStore: any set of requests and batches, any    *)
(* interleaving, any number of crashes and failing file operations, and    *)
(* any origin of the files.                                                *)
(*                                                                         *)
(* BaseInv      types, who holds which guard, what each request carries    *)
(* HistoryInv   what is stored or cached was current at some time          *)
(* CalmInv      how the files stand to each other, as long as nothing      *)
(*              failed                                                     *)
(***************************************************************************)
EXTENDS IndexStore, TLAPS

USE RequestAssumption, ImageAssumption, BoundAssumption

-----------------------------------------------------------------------------
(* The invariants.                                                         *)

\* Guards of the database lock and of the loading lock, against control points.
LockInv ==
    /\ \A p \in Proc : pc[p] \in WriteGuarded <=> lockWriter = p
    /\ \A p \in Proc : pc[p] = "ld_read" <=> p \in lockReaders
    /\ lockWriter # NoOne => lockReaders = {}
    /\ \A r \in Reader : pc[r] \notin {"idle", "loading"} <=> loader = r

\* What a request has in its hands where it is.
CarryInv ==
    /\ \A p \in Proc : pc[p] \in RecoverPoints => local[p] \in Image
    /\ \A w \in Writer :
         pc[w] \in {"meta", "flush", "rename", "copy", "snap", "count"} =>
            local[w] \in Image /\ BatchOf[w] \in local[w]
    /\ \A w \in Writer : pc[w] = "rename" => temp = local[w]
    /\ \A r \in Reader : pc[r] \in {"putsum", "put"} => seen[r] \in Image

BaseInv == TypeOK /\ LockInv /\ CarryInv

HistoryInv ==
    /\ Intact(bin) => bin \in committed
    /\ bin = Absent /\ Intact(replica) => replica \in committed
    /\ \A p \in Proc : pc[p] \in RecoverPoints => local[p] \in committed
    /\ \A r \in Reader : local[r] # Absent => local[r] \in committed
    /\ indexCache # Absent => indexCache.store \in committed
    /\ CommittedReads

-----------------------------------------------------------------------------
(* Types, guards and what requests carry.                                  *)

LEMMA BaseInitially == Init => BaseInv
  <1> SUFFICES ASSUME Init PROVE BaseInv
    OBVIOUS
  <1> USE DEF Init, Files, Proc, Reader, Writer
  <1>1. TypeOK
    BY DEF TypeOK, Image, WriterPoints, ReaderPoints
  <1>2. LockInv
    BY DEF LockInv, WriteGuarded
  <1>3. CarryInv
    BY DEF CarryInv, RecoverPoints
  <1> QED BY <1>1, <1>2, <1>3 DEF BaseInv

LEMMA LoadKeepsBase ==
    ASSUME BaseInv, NEW p \in Proc, LoadIndex(p)
    PROVE  BaseInv'
  <1> USE DEF BaseInv, TypeOK, LockInv, CarryInv, WriterPoints, ReaderPoints,
              LoadPoints, RecoverPoints, InsertPoints, EndPoints, WriteGuarded,
              Proc, Writer, Reader, Intact, Cached, diskVars, cacheVars,
              lockVars, boundVars, histVars, AfterLoad
  <1>1. CASE LoadLock(p)
    <2>1. TypeOK'
      BY <1>1 DEF LoadLock
    <2>2. LockInv'
      BY <1>1 DEF LoadLock
    <2>3. CarryInv'
      BY <1>1 DEF LoadLock
    <2> QED BY <2>1, <2>2, <2>3
  <1>2. CASE LoadRead(p)
    <2>1. TypeOK'
      BY <1>2 DEF LoadRead
    <2>2. LockInv'
      BY <1>2 DEF LoadRead
    <2>3. CarryInv'
      BY <1>2 DEF LoadRead
    <2> QED BY <2>1, <2>2, <2>3
  <1>3. CASE RecoverLock(p)
    <2>1. TypeOK'
      BY <1>3 DEF RecoverLock
    <2>2. LockInv'
      BY <1>3 DEF RecoverLock
    <2>3. CarryInv'
      BY <1>3 DEF RecoverLock
    <2> QED BY <2>1, <2>2, <2>3
  <1>4. CASE RecoverMeta(p)
    <2>1. TypeOK'
      BY <1>4 DEF RecoverMeta
    <2>2. LockInv'
      BY <1>4 DEF RecoverMeta
    <2>3. CarryInv'
      BY <1>4 DEF RecoverMeta
    <2> QED BY <2>1, <2>2, <2>3
  <1>5. CASE RecoverWrite(p)
    <2>1. TypeOK'
      BY <1>5 DEF RecoverWrite
    <2>2. LockInv'
      BY <1>5 DEF RecoverWrite
    <2>3. CarryInv'
      BY <1>5 DEF RecoverWrite
    <2> QED BY <2>1, <2>2, <2>3
  <1>6. CASE RecoverFlush(p)
    <2>1. TypeOK'
      BY <1>6 DEF RecoverFlush
    <2>2. LockInv'
      BY <1>6 DEF RecoverFlush
    <2>3. CarryInv'
      BY <1>6 DEF RecoverFlush
    <2> QED BY <2>1, <2>2, <2>3
  <1>7. CASE RecoverFails(p)
    <2>1. TypeOK'
      BY <1>7 DEF RecoverFails
    <2>2. LockInv'
      BY <1>7 DEF RecoverFails
    <2>3. CarryInv'
      BY <1>7 DEF RecoverFails
    <2> QED BY <2>1, <2>2, <2>3
  <1> QED BY <1>1, <1>2, <1>3, <1>4, <1>5, <1>6, <1>7 DEF LoadIndex

LEMMA PersistKeepsBase ==
    ASSUME BaseInv, NEW w \in Writer, Persist(w)
    PROVE  BaseInv'
  <1> USE DEF BaseInv, TypeOK, LockInv, CarryInv, WriterPoints, ReaderPoints,
              LoadPoints, RecoverPoints, InsertPoints, EndPoints, WriteGuarded,
              Proc, Writer, Reader, Intact, Cached, diskVars, cacheVars,
              lockVars, boundVars, histVars, GiveUp
  <1>1. CASE WriteMeta(w)
    <2>1. TypeOK'
      BY <1>1 DEF WriteMeta
    <2>2. LockInv'
      BY <1>1 DEF WriteMeta
    <2>3. CarryInv'
      BY <1>1 DEF WriteMeta
    <2> QED BY <2>1, <2>2, <2>3
  <1>2. CASE FlushTemp(w)
    <2>1. TypeOK'
      BY <1>2 DEF FlushTemp
    <2>2. LockInv'
      BY <1>2 DEF FlushTemp
    <2>3. CarryInv'
      BY <1>2 DEF FlushTemp
    <2> QED BY <2>1, <2>2, <2>3
  <1>3. CASE Rename(w)
    <2>1. TypeOK'
      BY <1>3 DEF Rename
    <2>2. LockInv'
      BY <1>3 DEF Rename
    <2>3. CarryInv'
      BY <1>3 DEF Rename
    <2> QED BY <2>1, <2>2, <2>3
  <1>4. CASE CopyReplica(w)
    <2>1. TypeOK'
      BY <1>4 DEF CopyReplica
    <2>2. LockInv'
      BY <1>4 DEF CopyReplica
    <2>3. CarryInv'
      BY <1>4 DEF CopyReplica
    <2> QED BY <2>1, <2>2, <2>3
  <1>5. CASE SnapReplica(w)
    <2>1. TypeOK'
      BY <1>5 DEF SnapReplica
    <2>2. LockInv'
      BY <1>5 DEF SnapReplica
    <2>3. CarryInv'
      BY <1>5 DEF SnapReplica
    <2> QED BY <2>1, <2>2, <2>3
  <1>6. CASE UpdateCount(w)
    <2>1. TypeOK'
      BY <1>6 DEF UpdateCount
    <2>2. LockInv'
      BY <1>6 DEF UpdateCount
    <2>3. CarryInv'
      BY <1>6 DEF UpdateCount
    <2> QED BY <2>1, <2>2, <2>3
  <1>7. CASE WriteFails(w)
    <2>1. TypeOK'
      BY <1>7 DEF WriteFails
    <2>2. LockInv'
      BY <1>7 DEF WriteFails
    <2>3. CarryInv'
      BY <1>7 DEF WriteFails
    <2> QED BY <2>1, <2>2, <2>3
  <1>8. CASE ReplicaFails(w)
    <2>1. TypeOK'
      BY <1>8 DEF ReplicaFails
    <2>2. LockInv'
      BY <1>8 DEF ReplicaFails
    <2>3. CarryInv'
      BY <1>8 DEF ReplicaFails
    <2> QED BY <2>1, <2>2, <2>3
  <1>9. CASE CountFails(w)
    <2>1. TypeOK'
      BY <1>9 DEF CountFails
    <2>2. LockInv'
      BY <1>9 DEF CountFails
    <2>3. CarryInv'
      BY <1>9 DEF CountFails
    <2> QED BY <2>1, <2>2, <2>3
  <1> QED BY <1>1, <1>2, <1>3, <1>4, <1>5, <1>6, <1>7, <1>8, <1>9 DEF Persist

LEMMA WriteKeepsBase ==
    ASSUME BaseInv, NEW w \in Writer, InsertRun(w) \/ EmbedRun(w)
    PROVE  BaseInv'
  <1> USE DEF BaseInv, TypeOK, LockInv, CarryInv, WriterPoints, ReaderPoints,
              LoadPoints, RecoverPoints, InsertPoints, EndPoints, WriteGuarded,
              Proc, Writer, Reader, Intact, Cached, diskVars, cacheVars,
              lockVars, boundVars, histVars, GiveUp
  <1>1. CASE Begin(w)
    <2>1. TypeOK'
      BY <1>1 DEF Begin
    <2>2. LockInv'
      BY <1>1 DEF Begin
    <2>3. CarryInv'
      BY <1>1 DEF Begin
    <2> QED BY <2>1, <2>2, <2>3
  <1>2. CASE AcquireWrite(w)
    <2>1. TypeOK'
      BY <1>2 DEF AcquireWrite
    <2>2. LockInv'
      BY <1>2 DEF AcquireWrite
    <2>3. CarryInv'
      BY <1>2 DEF AcquireWrite
    <2> QED BY <2>1, <2>2, <2>3
  <1>3. CASE Apply(w)
    <2> DEFINE new == BaseOf(w) \cup {BatchOf[w]}
    <2>1. new \in Image /\ BatchOf[w] \in new
      <3>1. BaseOf(w) \in Image
        BY <1>3 DEF BaseOf, Image
      <3>2. BatchOf[w] \in Batch
        BY DEF Writer
      <3> QED BY <3>1, <3>2 DEF Image
    <2>2. CASE BatchOf[w] \in BaseOf(w)
      BY <1>3, <2>2 DEF Apply
    <2>3. CASE BatchOf[w] \notin BaseOf(w)
      <3>1. /\ local' = [local EXCEPT ![w] = new]
            /\ pc[w] = "apply"
            /\ pc' = [pc EXCEPT ![w] = "meta"]
            /\ UNCHANGED <<lockWriter, diskVars, counted, cacheVars, lockReaders,
                           loader, seen, boundVars, histVars>>
        BY <1>3, <2>3 DEF Apply
      <3> HIDE DEF new
      <3>2. TypeOK'
        BY <2>1, <3>1
      <3>3. LockInv'
        BY <3>1
      <3>4. CarryInv'
        BY <2>1, <3>1
      <3> QED BY <3>2, <3>3, <3>4
    <2> QED BY <2>2, <2>3
  <1>4. CASE FetchFails(w)
    <2>1. TypeOK'
      BY <1>4 DEF FetchFails
    <2>2. LockInv'
      BY <1>4 DEF FetchFails
    <2>3. CarryInv'
      BY <1>4 DEF FetchFails
    <2> QED BY <2>1, <2>2, <2>3
  <1>5. CASE LoadIndex(w)
    BY <1>5, LoadKeepsBase
  <1>6. CASE Persist(w)
    BY <1>6, PersistKeepsBase
  <1> QED BY <1>1, <1>2, <1>3, <1>4, <1>5, <1>6 DEF InsertRun, EmbedRun

LEMMA ReadKeepsBase ==
    ASSUME BaseInv, NEW r \in Reader, ReadIndex(r)
    PROVE  BaseInv'
  <1> USE DEF BaseInv, TypeOK, LockInv, CarryInv, WriterPoints, ReaderPoints,
              LoadPoints, RecoverPoints, InsertPoints, EndPoints, WriteGuarded,
              Proc, Writer, Reader, Intact, Cached, diskVars, cacheVars,
              lockVars, boundVars, histVars,
              Answer, Finish
  <1>1. CASE CheckCache(r)
    <2>1. TypeOK'
      BY <1>1 DEF CheckCache, CacheValid
    <2>2. LockInv'
      BY <1>1 DEF CheckCache, CacheValid
    <2>3. CarryInv'
      BY <1>1 DEF CheckCache, CacheValid
    <2> QED BY <2>1, <2>2, <2>3
  <1>2. CASE RecheckCache(r)
    <2>1. TypeOK'
      BY <1>2 DEF RecheckCache, CacheValid
    <2>2. LockInv'
      BY <1>2 DEF RecheckCache, CacheValid
    <2>3. CarryInv'
      BY <1>2 DEF RecheckCache, CacheValid
    <2> QED BY <2>1, <2>2, <2>3
  <1>3. CASE ReadMeta(r)
    <2>1. TypeOK'
      BY <1>3 DEF ReadMeta
    <2>2. LockInv'
      BY <1>3 DEF ReadMeta
    <2>3. CarryInv'
      BY <1>3 DEF ReadMeta
    <2> QED BY <2>1, <2>2, <2>3
  <1>4. CASE PutSum(r)
    <2>1. TypeOK'
      BY <1>4 DEF PutSum
    <2>2. LockInv'
      BY <1>4 DEF PutSum
    <2>3. CarryInv'
      BY <1>4 DEF PutSum
    <2> QED BY <2>1, <2>2, <2>3
  <1>5. CASE PutIndex(r)
    <2>1. TypeOK'
      BY <1>5 DEF PutIndex
    <2>2. LockInv'
      BY <1>5 DEF PutIndex
    <2>3. CarryInv'
      BY <1>5 DEF PutIndex
    <2> QED BY <2>1, <2>2, <2>3
  <1>6. CASE LoadIndex(r)
    BY <1>6, LoadKeepsBase
  <1> QED BY <1>1, <1>2, <1>3, <1>4, <1>5, <1>6 DEF ReadIndex

LEMMA BaseInductive == BaseInv /\ [Next]_vars => BaseInv'
  <1> SUFFICES ASSUME BaseInv, [Next]_vars PROVE BaseInv'
    OBVIOUS
  <1> USE DEF BaseInv, TypeOK, LockInv, CarryInv, WriterPoints, ReaderPoints,
              LoadPoints, RecoverPoints, InsertPoints, EndPoints, WriteGuarded,
              Proc, Writer, Reader, Intact, Cached, diskVars, cacheVars,
              lockVars, boundVars, histVars
  <1>1. ASSUME NEW w \in Writer, InsertRun(w) \/ EmbedRun(w) PROVE BaseInv'
    BY <1>1, WriteKeepsBase
  <1>2. ASSUME NEW r \in Reader, ReadIndex(r) PROVE BaseInv'
    BY <1>2, ReadKeepsBase
  <1>3. CASE Evict
    <2>1. TypeOK'
      BY <1>3 DEF Evict
    <2>2. LockInv'
      BY <1>3 DEF Evict
    <2>3. CarryInv'
      BY <1>3 DEF Evict
    <2> QED BY <2>1, <2>2, <2>3
  <1>4. CASE Crash
    <2>1. TypeOK'
      BY <1>4 DEF Crash, InFlight
    <2>2. LockInv'
      BY <1>4 DEF Crash, InFlight
    <2>3. CarryInv'
      BY <1>4 DEF Crash, InFlight
    <2> QED BY <2>1, <2>2, <2>3
  <1>5. CASE UNCHANGED vars
    <2>1. TypeOK'
      BY <1>5 DEF vars
    <2>2. LockInv'
      BY <1>5 DEF vars
    <2>3. CarryInv'
      BY <1>5 DEF vars
    <2> QED BY <2>1, <2>2, <2>3
  <1> QED BY <1>1, <1>2, <1>3, <1>4, <1>5
          DEF Next, QueryVector, QuerySearch, IndexByPage

THEOREM BaseAlways == Spec => []BaseInv
  <1> QED BY BaseInitially, BaseInductive, PTL DEF Spec

\* Every variable keeps its type.
THEOREM Typing == Spec => []TypeOK
  <1>1. BaseInv => TypeOK
    BY DEF BaseInv
  <1> QED BY <1>1, BaseAlways, PTL

-----------------------------------------------------------------------------
(* What is served was current at some time.                                *)

LEMMA HistoryInitially == Init => HistoryInv
  <1> SUFFICES ASSUME Init PROVE HistoryInv
    OBVIOUS
  <1>1. ASSUME NEW o \in Origins, committed = (IF o = "new" THEN {} ELSE {Seed}),
               bin = Files(o).bin, replica = Files(o).replica
        PROVE  /\ Intact(bin) => bin \in committed
               /\ bin = Absent /\ Intact(replica) => replica \in committed
    BY <1>1 DEF Files, Intact
  <1>2. \A p \in Proc : pc[p] \notin RecoverPoints /\ local[p] = Absent
    BY DEF Init, RecoverPoints
  <1>3. indexCache = Absent /\ served = Absent
    BY DEF Init
  <1> QED BY <1>1, <1>2, <1>3 DEF Init, HistoryInv, CommittedReads, Proc

LEMMA LoadKeepsHistory ==
    ASSUME BaseInv, HistoryInv, NEW p \in Proc, LoadIndex(p)
    PROVE  HistoryInv'
  <1> USE DEF BaseInv, TypeOK, LockInv, CarryInv, HistoryInv, CommittedReads,
              RecoverPoints, Intact, Proc, Writer, Reader, diskVars, cacheVars,
              lockVars, boundVars, histVars, AfterLoad
  <1>1. CASE LoadLock(p)
    BY <1>1 DEF LoadLock
  <1>2. CASE LoadRead(p)
    BY <1>2 DEF LoadRead
  <1>3. CASE RecoverLock(p)
    BY <1>3 DEF RecoverLock
  <1>4. CASE RecoverMeta(p)
    BY <1>4 DEF RecoverMeta
  <1>5. CASE RecoverWrite(p)
    BY <1>5 DEF RecoverWrite
  <1>6. CASE RecoverFlush(p)
    BY <1>6 DEF RecoverFlush
  <1>7. CASE RecoverFails(p)
    BY <1>7 DEF RecoverFails
  <1> QED BY <1>1, <1>2, <1>3, <1>4, <1>5, <1>6, <1>7 DEF LoadIndex

LEMMA WriteKeepsHistory ==
    ASSUME BaseInv, HistoryInv, NEW w \in Writer, InsertRun(w) \/ EmbedRun(w)
    PROVE  HistoryInv'
  <1> USE DEF BaseInv, TypeOK, LockInv, CarryInv, HistoryInv, CommittedReads,
              RecoverPoints, Intact, Proc, Writer, Reader, diskVars, cacheVars,
              lockVars, boundVars, histVars, GiveUp
  <1>1. CASE Begin(w)
    BY <1>1 DEF Begin
  <1>2. CASE AcquireWrite(w)
    BY <1>2 DEF AcquireWrite
  <1>3. CASE Apply(w)
    BY <1>3 DEF Apply
  <1>4. CASE FetchFails(w)
    BY <1>4 DEF FetchFails
  <1>5. CASE WriteMeta(w)
    BY <1>5 DEF WriteMeta
  <1>6. CASE FlushTemp(w)
    BY <1>6 DEF FlushTemp
  <1>7. CASE Rename(w)
    BY <1>7 DEF Rename
  <1>8. CASE CopyReplica(w)
    BY <1>8 DEF CopyReplica
  <1>9. CASE SnapReplica(w)
    BY <1>9 DEF SnapReplica
  <1>10. CASE UpdateCount(w)
    BY <1>10 DEF UpdateCount
  <1>11. CASE WriteFails(w)
    BY <1>11 DEF WriteFails
  <1>12. CASE ReplicaFails(w)
    BY <1>12 DEF ReplicaFails
  <1>13. CASE CountFails(w)
    BY <1>13 DEF CountFails
  <1>14. CASE LoadIndex(w)
    BY <1>14, LoadKeepsHistory
  <1> QED BY <1>1, <1>2, <1>3, <1>4, <1>5, <1>6, <1>7, <1>8, <1>9, <1>10, <1>11,
             <1>12, <1>13, <1>14 DEF InsertRun, EmbedRun, Persist

LEMMA ReadKeepsHistory ==
    ASSUME BaseInv, HistoryInv, NEW r \in Reader, ReadIndex(r)
    PROVE  HistoryInv'
  <1> USE DEF BaseInv, TypeOK, LockInv, CarryInv, HistoryInv, CommittedReads,
              RecoverPoints, Intact, Proc, Writer, Reader, diskVars, cacheVars,
              lockVars, boundVars, histVars,
              Answer, Finish, Cached
  <1>1. CASE CheckCache(r)
    BY <1>1 DEF CheckCache, CacheValid
  <1>2. CASE RecheckCache(r)
    BY <1>2 DEF RecheckCache, CacheValid
  <1>3. CASE ReadMeta(r)
    BY <1>3 DEF ReadMeta
  <1>4. CASE PutSum(r)
    BY <1>4 DEF PutSum
  <1>5. CASE PutIndex(r)
    BY <1>5 DEF PutIndex
  <1>6. CASE LoadIndex(r)
    BY <1>6, LoadKeepsHistory
  <1> QED BY <1>1, <1>2, <1>3, <1>4, <1>5, <1>6 DEF ReadIndex

LEMMA HistoryInductive == BaseInv /\ HistoryInv /\ [Next]_vars => HistoryInv'
  <1> SUFFICES ASSUME BaseInv, HistoryInv, [Next]_vars PROVE HistoryInv'
    OBVIOUS
  <1> USE DEF BaseInv, TypeOK, LockInv, CarryInv, HistoryInv, CommittedReads,
              RecoverPoints, Intact, Proc, Writer, Reader, diskVars, cacheVars,
              lockVars, boundVars, histVars
  <1>1. ASSUME NEW w \in Writer, InsertRun(w) \/ EmbedRun(w) PROVE HistoryInv'
    BY <1>1, WriteKeepsHistory
  <1>2. ASSUME NEW r \in Reader, ReadIndex(r) PROVE HistoryInv'
    BY <1>2, ReadKeepsHistory
  <1>3. CASE Evict
    BY <1>3 DEF Evict
  <1>4. CASE Crash
    BY <1>4 DEF Crash, InFlight, EndPoints
  <1>5. CASE UNCHANGED vars
    BY <1>5 DEF vars
  <1> QED BY <1>1, <1>2, <1>3, <1>4, <1>5
          DEF Next, QueryVector, QuerySearch, IndexByPage

THEOREM HistoryAlways == Spec => []HistoryInv
  <1> QED BY BaseAlways, HistoryInitially, HistoryInductive, PTL DEF Spec

\* Whatever the interleaving, with any number of crashes and failing file
\* operations, no answer is computed from an index that was never current.
THEOREM ReadsAreCommitted == Spec => []CommittedReads
  <1>1. HistoryInv => CommittedReads
    BY DEF HistoryInv
  <1> QED BY <1>1, HistoryAlways, PTL

-----------------------------------------------------------------------------
(* Without crashes and failing file operations the files agree.            *)

Calm == crashes = 0 /\ faults = 0

\* The files while nobody writes them.
Settled ==
    /\ meta = replica
    /\ temp = Absent
    /\ bin \in {Absent, replica}

\* The files while the holder of the write guard is at work on them.
FilesInv ==
    /\ lockWriter = NoOne => Settled
    /\ \A p \in Proc :
         /\ pc[p] \in {"apply", "meta", "rc_meta", "rc_write"} => Settled
         /\ pc[p] \in {"rc_meta", "rc_write"} => bin = Absent
         /\ pc[p] = "rc_flush" => bin = Torn /\ meta = replica /\ temp = Absent
         /\ pc[p] \in {"flush", "rename"} =>
              meta = local[p] /\ bin \in {Absent, replica}
         /\ pc[p] \in {"copy", "snap"} =>
              meta = local[p] /\ bin = local[p] /\ temp = Absent

\* While .bin is not there, what is to be written back is the replica.
BackInv ==
    \A p \in Proc : pc[p] \in RecoverPoints /\ ~Intact(bin) => local[p] = replica

SerialInv ==
    \A v, w \in Writer : InFlight(v) /\ InFlight(w) => v = w

\* A writer from its rename on, until it counted.
Counting == {"copy", "snap", "count"}

\* What the database holds, as the files alone say it.
Held ==
    IF Intact(bin) THEN bin ELSE IF Intact(replica) THEN replica ELSE {}

CountInv ==
    /\ SerialInv
    /\ \A w \in Writer : pc[w] \in Counting => bin = local[w]
    /\ (\A w \in Writer : pc[w] \notin Counting) => counted = Held

CalmInv == Calm => FilesInv /\ BackInv /\ (SerialClients => CountInv)

LEMMA CalmInitially == Init => CalmInv
  <1> SUFFICES ASSUME Init PROVE CalmInv
    OBVIOUS
  <1>1. PICK o \in Origins : /\ bin = Files(o).bin /\ replica = Files(o).replica
                             /\ meta = Files(o).meta /\ counted = Files(o).counted
    BY DEF Init
  <1>2. /\ temp = Absent /\ lockWriter = NoOne
        /\ \A p \in Proc : pc[p] \in {"new", "idle"}
    BY DEF Init
  <1>3. Settled /\ counted = Held
    BY <1>1, <1>2 DEF Files, Settled, Held, Intact
  <1>4. FilesInv /\ BackInv
    BY <1>2, <1>3 DEF FilesInv, BackInv, RecoverPoints
  <1>5. \A w \in Writer : pc[w] = "new"
    BY DEF Init, Proc
  <1>6. CountInv
    BY <1>3, <1>5 DEF CountInv, SerialInv, InFlight, Counting
  <1> QED BY <1>4, <1>6 DEF CalmInv

LEMMA LoadKeepsCalm ==
    ASSUME BaseInv, CalmInv, NEW p \in Proc, LoadIndex(p)
    PROVE  CalmInv'
  <1> SUFFICES ASSUME Calm' PROVE FilesInv' /\ BackInv' /\ (SerialClients => CountInv')
    BY DEF CalmInv
  <1> USE DEF TypeOK, LockInv, CarryInv, Settled, FilesInv, BackInv, RecoverPoints,
              WriteGuarded, Counting, Intact, Proc, Writer, Reader, diskVars,
              cacheVars, lockVars, boundVars, histVars, AfterLoad
  <1>0. TypeOK /\ LockInv /\ CarryInv /\ (Calm => FilesInv /\ BackInv /\ (SerialClients => CountInv))
    BY DEF BaseInv, CalmInv
  <1>1. CASE LoadLock(p)
    <2>1. FilesInv /\ BackInv /\ (SerialClients => CountInv)
      BY <1>0, <1>1 DEF LoadLock, Calm
    <2>2. FilesInv'
      BY <1>0, <1>1, <2>1 DEF LoadLock
    <2>3. BackInv'
      BY <1>0, <1>1, <2>1 DEF LoadLock
    <2>4. SerialClients => CountInv'
      BY <1>0, <1>1, <2>1 DEF LoadLock, CountInv, SerialInv, InFlight, EndPoints, Held
    <2> QED BY <2>2, <2>3, <2>4
  <1>2. CASE LoadRead(p)
    <2>1. FilesInv /\ BackInv /\ (SerialClients => CountInv)
      BY <1>0, <1>2 DEF LoadRead, Calm
    <2>2. FilesInv'
      BY <1>0, <1>2, <2>1 DEF LoadRead
    <2>3. BackInv'
      BY <1>0, <1>2, <2>1 DEF LoadRead
    <2>4. SerialClients => CountInv'
      BY <1>0, <1>2, <2>1 DEF LoadRead, CountInv, SerialInv, InFlight, EndPoints, Held
    <2> QED BY <2>2, <2>3, <2>4
  <1>3. CASE RecoverLock(p)
    <2>1. FilesInv /\ BackInv /\ (SerialClients => CountInv)
      BY <1>0, <1>3 DEF RecoverLock, Calm
    <2>2. FilesInv'
      BY <1>0, <1>3, <2>1 DEF RecoverLock
    <2>3. BackInv'
      BY <1>0, <1>3, <2>1 DEF RecoverLock
    <2>4. SerialClients => CountInv'
      BY <1>0, <1>3, <2>1 DEF RecoverLock, CountInv, SerialInv, InFlight, EndPoints, Held
    <2> QED BY <2>2, <2>3, <2>4
  <1>4. CASE RecoverMeta(p)
    <2>1. FilesInv /\ BackInv /\ (SerialClients => CountInv)
      BY <1>0, <1>4 DEF RecoverMeta, Calm
    <2>2. FilesInv'
      BY <1>0, <1>4, <2>1 DEF RecoverMeta
    <2>3. BackInv'
      BY <1>0, <1>4, <2>1 DEF RecoverMeta
    <2>4. SerialClients => CountInv'
      BY <1>0, <1>4, <2>1 DEF RecoverMeta, CountInv, SerialInv, InFlight, EndPoints, Held
    <2> QED BY <2>2, <2>3, <2>4
  <1>5. CASE RecoverWrite(p)
    <2>1. FilesInv /\ BackInv /\ (SerialClients => CountInv)
      BY <1>0, <1>5 DEF RecoverWrite, Calm
    <2>2. FilesInv'
      BY <1>0, <1>5, <2>1 DEF RecoverWrite
    <2>3. BackInv'
      BY <1>0, <1>5, <2>1 DEF RecoverWrite
    <2>4. SerialClients => CountInv'
      BY <1>0, <1>5, <2>1 DEF RecoverWrite, CountInv, SerialInv, InFlight, EndPoints, Held
    <2> QED BY <2>2, <2>3, <2>4
  <1>6. CASE RecoverFlush(p)
    <2>1. FilesInv /\ BackInv /\ (SerialClients => CountInv)
      BY <1>0, <1>6 DEF RecoverFlush, Calm
    <2>2. FilesInv'
      BY <1>0, <1>6, <2>1 DEF RecoverFlush
    <2>3. BackInv'
      BY <1>0, <1>6, <2>1 DEF RecoverFlush
    <2>4. SerialClients => CountInv'
      BY <1>0, <1>6, <2>1 DEF RecoverFlush, CountInv, SerialInv, InFlight, EndPoints, Held
    <2> QED BY <2>2, <2>3, <2>4
  <1>7. CASE RecoverFails(p)
    BY <1>0, <1>7 DEF RecoverFails, Calm
  <1> QED BY <1>1, <1>2, <1>3, <1>4, <1>5, <1>6, <1>7 DEF LoadIndex

LEMMA PersistKeepsCalm ==
    ASSUME BaseInv, CalmInv, NEW w \in Writer, Persist(w)
    PROVE  CalmInv'
  <1> SUFFICES ASSUME Calm' PROVE FilesInv' /\ BackInv' /\ (SerialClients => CountInv')
    BY DEF CalmInv
  <1> USE DEF TypeOK, LockInv, CarryInv, Settled, FilesInv, BackInv, RecoverPoints,
              WriteGuarded, Counting, Intact, Proc, Writer, Reader, diskVars,
              cacheVars, lockVars, boundVars, histVars, GiveUp
  <1>0. TypeOK /\ LockInv /\ CarryInv /\ (Calm => FilesInv /\ BackInv /\ (SerialClients => CountInv))
    BY DEF BaseInv, CalmInv
  <1>1. CASE WriteMeta(w)
    <2>1. FilesInv /\ BackInv /\ (SerialClients => CountInv)
      BY <1>0, <1>1 DEF WriteMeta, Calm
    <2>2. FilesInv'
      BY <1>0, <1>1, <2>1 DEF WriteMeta
    <2>3. BackInv'
      BY <1>0, <1>1, <2>1 DEF WriteMeta
    <2>4. SerialClients => CountInv'
      BY <1>0, <1>1, <2>1 DEF WriteMeta, CountInv, SerialInv, InFlight, EndPoints, Held
    <2> QED BY <2>2, <2>3, <2>4
  <1>2. CASE FlushTemp(w)
    <2>1. FilesInv /\ BackInv /\ (SerialClients => CountInv)
      BY <1>0, <1>2 DEF FlushTemp, Calm
    <2>2. FilesInv'
      BY <1>0, <1>2, <2>1 DEF FlushTemp
    <2>3. BackInv'
      BY <1>0, <1>2, <2>1 DEF FlushTemp
    <2>4. SerialClients => CountInv'
      BY <1>0, <1>2, <2>1 DEF FlushTemp, CountInv, SerialInv, InFlight, EndPoints, Held
    <2> QED BY <2>2, <2>3, <2>4
  <1>3. CASE Rename(w)
    <2>1. FilesInv /\ BackInv /\ (SerialClients => CountInv)
      BY <1>0, <1>3 DEF Rename, Calm
    <2>2. FilesInv'
      BY <1>0, <1>3, <2>1 DEF Rename
    <2>3. BackInv'
      BY <1>0, <1>3, <2>1 DEF Rename
    <2>4. SerialClients => CountInv'
      BY <1>0, <1>3, <2>1 DEF Rename, CountInv, SerialInv, InFlight, EndPoints, Held
    <2> QED BY <2>2, <2>3, <2>4
  <1>4. CASE CopyReplica(w)
    <2>1. FilesInv /\ BackInv /\ (SerialClients => CountInv)
      BY <1>0, <1>4 DEF CopyReplica, Calm
    <2>2. FilesInv'
      BY <1>0, <1>4, <2>1 DEF CopyReplica
    <2>3. BackInv'
      BY <1>0, <1>4, <2>1 DEF CopyReplica
    <2>4. SerialClients => CountInv'
      BY <1>0, <1>4, <2>1 DEF CopyReplica, CountInv, SerialInv, InFlight, EndPoints, Held
    <2> QED BY <2>2, <2>3, <2>4
  <1>5. CASE SnapReplica(w)
    <2>1. FilesInv /\ BackInv /\ (SerialClients => CountInv)
      BY <1>0, <1>5 DEF SnapReplica, Calm
    <2>2. FilesInv'
      BY <1>0, <1>5, <2>1 DEF SnapReplica
    <2>3. BackInv'
      BY <1>0, <1>5, <2>1 DEF SnapReplica
    <2>4. SerialClients => CountInv'
      BY <1>0, <1>5, <2>1 DEF SnapReplica, CountInv, SerialInv, InFlight, EndPoints, Held
    <2> QED BY <2>2, <2>3, <2>4
  <1>6. CASE UpdateCount(w)
    <2>1. FilesInv /\ BackInv /\ (SerialClients => CountInv)
      BY <1>0, <1>6 DEF UpdateCount, Calm
    <2>2. FilesInv'
      BY <1>0, <1>6, <2>1 DEF UpdateCount
    <2>3. BackInv'
      BY <1>0, <1>6, <2>1 DEF UpdateCount
    <2>4. SerialClients => CountInv'
      BY <1>0, <1>6, <2>1 DEF UpdateCount, CountInv, SerialInv, InFlight, EndPoints, Held
    <2> QED BY <2>2, <2>3, <2>4
  <1>7. CASE WriteFails(w)
    BY <1>0, <1>7 DEF WriteFails, Calm
  <1>8. CASE ReplicaFails(w)
    BY <1>0, <1>8 DEF ReplicaFails, Calm
  <1>9. CASE CountFails(w)
    BY <1>0, <1>9 DEF CountFails, Calm
  <1> QED BY <1>1, <1>2, <1>3, <1>4, <1>5, <1>6, <1>7, <1>8, <1>9 DEF Persist

LEMMA WriteKeepsCalm ==
    ASSUME BaseInv, CalmInv, NEW w \in Writer, InsertRun(w) \/ EmbedRun(w)
    PROVE  CalmInv'
  <1> SUFFICES ASSUME Calm' PROVE FilesInv' /\ BackInv' /\ (SerialClients => CountInv')
    BY DEF CalmInv
  <1> USE DEF TypeOK, LockInv, CarryInv, Settled, FilesInv, BackInv, RecoverPoints,
              WriteGuarded, Counting, Intact, Proc, Writer, Reader, diskVars,
              cacheVars, lockVars, boundVars, histVars, GiveUp
  <1>0. TypeOK /\ LockInv /\ CarryInv /\ (Calm => FilesInv /\ BackInv /\ (SerialClients => CountInv))
    BY DEF BaseInv, CalmInv
  <1>1. CASE Begin(w)
    <2>1. FilesInv /\ BackInv /\ (SerialClients => CountInv)
      BY <1>0, <1>1 DEF Begin, Calm
    <2>2. FilesInv'
      BY <1>0, <1>1, <2>1 DEF Begin
    <2>3. BackInv'
      BY <1>0, <1>1, <2>1 DEF Begin
    <2>4. SerialClients => CountInv'
      BY <1>0, <1>1, <2>1 DEF Begin, CountInv, SerialInv, InFlight, EndPoints, Held
    <2> QED BY <2>2, <2>3, <2>4
  <1>2. CASE AcquireWrite(w)
    <2>1. FilesInv /\ BackInv /\ (SerialClients => CountInv)
      BY <1>0, <1>2 DEF AcquireWrite, Calm
    <2>2. FilesInv'
      BY <1>0, <1>2, <2>1 DEF AcquireWrite
    <2>3. BackInv'
      BY <1>0, <1>2, <2>1 DEF AcquireWrite
    <2>4. SerialClients => CountInv'
      BY <1>0, <1>2, <2>1 DEF AcquireWrite, CountInv, SerialInv, InFlight, EndPoints, Held
    <2> QED BY <2>2, <2>3, <2>4
  <1>3. CASE Apply(w)
    <2>1. FilesInv /\ BackInv /\ (SerialClients => CountInv)
      BY <1>0, <1>3 DEF Apply, Calm
    <2>2. FilesInv'
      BY <1>0, <1>3, <2>1 DEF Apply
    <2>3. BackInv'
      BY <1>0, <1>3, <2>1 DEF Apply
    <2>4. SerialClients => CountInv'
      BY <1>0, <1>3, <2>1 DEF Apply, CountInv, SerialInv, InFlight, EndPoints, Held
    <2> QED BY <2>2, <2>3, <2>4
  <1>4. CASE FetchFails(w)
    <2>1. FilesInv /\ BackInv /\ (SerialClients => CountInv)
      BY <1>0, <1>4 DEF FetchFails, Calm
    <2>2. FilesInv'
      BY <1>0, <1>4, <2>1 DEF FetchFails
    <2>3. BackInv'
      BY <1>0, <1>4, <2>1 DEF FetchFails
    <2>4. SerialClients => CountInv'
      BY <1>0, <1>4, <2>1 DEF FetchFails, CountInv, SerialInv, InFlight, EndPoints, Held
    <2> QED BY <2>2, <2>3, <2>4
  <1>5. CASE LoadIndex(w)
    BY <1>5, LoadKeepsCalm DEF CalmInv
  <1>6. CASE Persist(w)
    BY <1>6, PersistKeepsCalm DEF CalmInv
  <1> QED BY <1>1, <1>2, <1>3, <1>4, <1>5, <1>6 DEF InsertRun, EmbedRun

LEMMA ReadKeepsCalm ==
    ASSUME BaseInv, CalmInv, NEW r \in Reader, ReadIndex(r)
    PROVE  CalmInv'
  <1> SUFFICES ASSUME Calm' PROVE FilesInv' /\ BackInv' /\ (SerialClients => CountInv')
    BY DEF CalmInv
  <1> USE DEF TypeOK, LockInv, CarryInv, Settled, FilesInv, BackInv, RecoverPoints,
              WriteGuarded, Counting, Intact, Proc, Writer, Reader, diskVars,
              cacheVars, lockVars, boundVars, histVars, Answer, Finish
  <1>0. TypeOK /\ LockInv /\ CarryInv /\ (Calm => FilesInv /\ BackInv /\ (SerialClients => CountInv))
    BY DEF BaseInv, CalmInv
  <1>1. CASE CheckCache(r)
    <2>1. FilesInv /\ BackInv /\ (SerialClients => CountInv)
      BY <1>0, <1>1 DEF CheckCache, Calm
    <2>2. FilesInv'
      BY <1>0, <1>1, <2>1 DEF CheckCache
    <2>3. BackInv'
      BY <1>0, <1>1, <2>1 DEF CheckCache
    <2>4. SerialClients => CountInv'
      BY <1>0, <1>1, <2>1 DEF CheckCache, CountInv, SerialInv, InFlight, EndPoints, Held
    <2> QED BY <2>2, <2>3, <2>4
  <1>2. CASE RecheckCache(r)
    <2>1. FilesInv /\ BackInv /\ (SerialClients => CountInv)
      BY <1>0, <1>2 DEF RecheckCache, Calm
    <2>2. FilesInv'
      BY <1>0, <1>2, <2>1 DEF RecheckCache
    <2>3. BackInv'
      BY <1>0, <1>2, <2>1 DEF RecheckCache
    <2>4. SerialClients => CountInv'
      BY <1>0, <1>2, <2>1 DEF RecheckCache, CountInv, SerialInv, InFlight, EndPoints, Held
    <2> QED BY <2>2, <2>3, <2>4
  <1>3. CASE ReadMeta(r)
    <2>1. FilesInv /\ BackInv /\ (SerialClients => CountInv)
      BY <1>0, <1>3 DEF ReadMeta, Calm
    <2>2. FilesInv'
      BY <1>0, <1>3, <2>1 DEF ReadMeta
    <2>3. BackInv'
      BY <1>0, <1>3, <2>1 DEF ReadMeta
    <2>4. SerialClients => CountInv'
      BY <1>0, <1>3, <2>1 DEF ReadMeta, CountInv, SerialInv, InFlight, EndPoints, Held
    <2> QED BY <2>2, <2>3, <2>4
  <1>4. CASE PutSum(r)
    <2>1. FilesInv /\ BackInv /\ (SerialClients => CountInv)
      BY <1>0, <1>4 DEF PutSum, Calm
    <2>2. FilesInv'
      BY <1>0, <1>4, <2>1 DEF PutSum
    <2>3. BackInv'
      BY <1>0, <1>4, <2>1 DEF PutSum
    <2>4. SerialClients => CountInv'
      BY <1>0, <1>4, <2>1 DEF PutSum, CountInv, SerialInv, InFlight, EndPoints, Held
    <2> QED BY <2>2, <2>3, <2>4
  <1>5. CASE PutIndex(r)
    <2>1. FilesInv /\ BackInv /\ (SerialClients => CountInv)
      BY <1>0, <1>5 DEF PutIndex, Calm
    <2>2. FilesInv'
      BY <1>0, <1>5, <2>1 DEF PutIndex
    <2>3. BackInv'
      BY <1>0, <1>5, <2>1 DEF PutIndex
    <2>4. SerialClients => CountInv'
      BY <1>0, <1>5, <2>1 DEF PutIndex, CountInv, SerialInv, InFlight, EndPoints, Held
    <2> QED BY <2>2, <2>3, <2>4
  <1>6. CASE LoadIndex(r)
    BY <1>6, LoadKeepsCalm DEF CalmInv
  <1> QED BY <1>1, <1>2, <1>3, <1>4, <1>5, <1>6 DEF ReadIndex

LEMMA CalmInductive == BaseInv /\ CalmInv /\ [Next]_vars => CalmInv'
  <1> SUFFICES ASSUME BaseInv, CalmInv, [Next]_vars PROVE CalmInv'
    OBVIOUS
  <1>1. ASSUME NEW w \in Writer, InsertRun(w) \/ EmbedRun(w) PROVE CalmInv'
    BY <1>1, WriteKeepsCalm
  <1>2. ASSUME NEW r \in Reader, ReadIndex(r) PROVE CalmInv'
    BY <1>2, ReadKeepsCalm
  <1> USE DEF CalmInv, FilesInv, BackInv, CountInv, SerialInv, Calm, Settled, Held,
              Intact, InFlight, Counting, diskVars, cacheVars, lockVars, boundVars,
              histVars
  <1>3. CASE Evict
    BY <1>3 DEF Evict
  <1>4. CASE Crash
    BY <1>4 DEF Crash, BaseInv, TypeOK
  <1>5. CASE UNCHANGED vars
    BY <1>5 DEF vars
  <1> QED BY <1>1, <1>2, <1>3, <1>4, <1>5
          DEF Next, QueryVector, QuerySearch, IndexByPage, Writer, Reader

LEMMA QuietHeld ==
    ASSUME BaseInv, CalmInv, Quiet, Calm
    PROVE  Settled /\ (SerialClients => counted = Contents)
  <1>1. \A p \in Proc : pc[p] \notin WriteGuarded \cup Counting
    BY DEF Quiet, EndPoints, WriteGuarded, Counting
  <1>2. lockWriter = NoOne
    BY <1>1 DEF BaseInv, TypeOK, LockInv
  <1>3. Settled
    BY <1>2 DEF CalmInv, FilesInv
  <1>4. meta # Torn
    BY DEF BaseInv, TypeOK
  <1>5. Contents = Held
    BY <1>3, <1>4 DEF Settled, Contents, Held, Intact
  <1>6. SerialClients => counted = Held
    BY <1>1 DEF CalmInv, CountInv, Proc
  <1> QED BY <1>3, <1>5, <1>6

\* While nothing fails and nobody is at work, replica, metadata, .bin and the
\* catalog's node count describe one index, for any number of requests that
\* wrote, read and recovered before.
THEOREM QuietAlwaysAgrees == Spec => []QuietDiskAgrees
  <1>1. BaseInv /\ CalmInv => QuietDiskAgrees
    BY QuietHeld DEF QuietDiskAgrees, Calm, Settled
  <1> QED BY <1>1, BaseAlways, CalmInitially, CalmInductive, PTL DEF Spec


-----------------------------------------------------------------------------
(* Requests end, but for what fairness adds.  RequestsEnd is beyond the      *)
(* prover; proved are the two facts it comes down to, that requests never    *)
(* wait for each other in a circle, and that no request goes back.           *)

\* The points where a request waits for nobody.
GoingOn == {"ld_read", "readmeta", "putsum", "put", "count"} \cup WriteGuarded

\* Those a request waits for: a lock is free for it exactly when there are none.
Blockers(p) ==
    (CASE pc[p] = "ld_lock"           -> {lockWriter}
       [] pc[p] \in {"rc_lock", "lock"} -> {lockWriter} \cup lockReaders
       [] pc[p] = "loading"           -> {loader}
       [] OTHER                       -> {}) \ {NoOne}

\* Who holds the guard of the database lock runs; who holds the loading guard
\* runs, or waits for one who does.
NobodyInACircle ==
    \A p \in Proc : \A q \in Blockers(p) :
        \/ pc[q] \in GoingOn
        \/ pc[p] = "loading" /\ \A r \in Blockers(q) : pc[r] \in GoingOn

\* load_index_from_database has dropped its read guard where it takes the write
\* guard (indexer.rs:515), nobody asks for the loading lock with a guard of the
\* database lock in hand, and no point in between waits for anything else: some
\* request can always go on, whatever crashed, failed or was written back.
THEOREM NoCircle == Spec => []NobodyInACircle
  <1>1. ASSUME BaseInv
        PROVE  NobodyInACircle
    <2> USE <1>1 DEF BaseInv, LockInv, TypeOK, GoingOn, WriteGuarded
    <2>1. ASSUME NEW p \in Proc, NEW q \in Blockers(p), pc[p] # "loading"
          PROVE  pc[q] \in GoingOn
      <3>1. (q = lockWriter /\ q # NoOne) \/ q \in lockReaders
        BY <2>1 DEF Blockers
      <3>2. q \in Proc
        BY <3>1
      <3> QED BY <3>1, <3>2
    <2>2. ASSUME NEW p \in Proc, NEW q \in Blockers(p), pc[p] = "loading"
          PROVE  pc[q] \in GoingOn \/ \A r \in Blockers(q) : pc[r] \in GoingOn
      <3>1. q = loader /\ q \in Reader /\ q \in Proc
        BY <2>2 DEF Blockers, Proc
      <3>2. pc[q] # "loading"
        BY <3>1
      <3> QED BY <2>1, <3>1, <3>2
    <2> QED BY <2>1, <2>2 DEF NobodyInACircle
  <1> QED BY <1>1, BaseAlways, PTL

\* How many points a request has before it at most.
Ahead(point) ==
    CASE point = "loading"  -> 16
      [] point = "ld_lock"  -> 15
      [] point = "ld_read"  -> 14
      [] point = "rc_lock"  -> 13
      [] point = "rc_meta"  -> 12
      [] point = "rc_write" -> 11
      [] point = "rc_flush" -> 10
      [] point = "lock"     -> 9
      [] point = "apply"    -> 8
      [] point = "meta"     -> 7
      [] point = "flush"    -> 6
      [] point = "rename"   -> 5
      [] point = "copy"     -> 4
      [] point = "snap"     -> 3
      [] point = "count"    -> 1
      [] point = "readmeta" -> 3
      [] point = "putsum"   -> 2
      [] point = "put"      -> 1
      [] OTHER              -> 0

\* A request under way is never sent back to a point it has passed.
OnlyForward ==
    \A p \in Proc : Ahead(pc[p]) # 0 =>
        pc'[p] = pc[p] \/ Ahead(pc'[p]) < Ahead(pc[p])

LEMMA ForwardOf ==
    ASSUME BaseInv, NEW p \in Proc, NEW point, pc' = [pc EXCEPT ![p] = point],
           Ahead(pc[p]) = 0 \/ point = pc[p] \/ Ahead(point) < Ahead(pc[p])
    PROVE  OnlyForward
  <1>1. pc' \in [Proc -> {pc[q] : q \in Proc} \cup {point}] /\ pc'[p] = point
        /\ \A q \in Proc \ {p} : pc'[q] = pc[q]
    BY DEF BaseInv, TypeOK
  <1> QED BY <1>1 DEF OnlyForward

LEMMA LoadForward ==
    ASSUME BaseInv, NEW p \in Proc, LoadIndex(p)
    PROVE  OnlyForward
  <1>1. PICK point : /\ pc' = [pc EXCEPT ![p] = point]
                     /\ \/ pc[p] = "ld_lock" /\ point = "ld_read"
                        \/ pc[p] = "ld_read" /\ point = "rc_lock"
                        \/ pc[p] = "rc_lock" /\ point = "rc_meta"
                        \/ pc[p] = "rc_meta" /\ point = "rc_write"
                        \/ pc[p] = "rc_write" /\ point = "rc_flush"
                        \/ pc[p] \in {"ld_read"} \cup RecoverPoints /\ point = AfterLoad(p)
    BY DEF LoadIndex, LoadLock, LoadRead, RecoverLock, RecoverMeta, RecoverWrite,
           RecoverFlush, RecoverFails, RecoverPoints
  <1>2. AfterLoad(p) \in {"lock", "readmeta"}
    BY DEF AfterLoad
  <1>3. Ahead(point) < Ahead(pc[p])
    BY <1>1, <1>2 DEF Ahead, RecoverPoints
  <1> QED BY <1>1, <1>3, ForwardOf

LEMMA WriteForward ==
    ASSUME BaseInv, NEW w \in Writer, InsertRun(w) \/ EmbedRun(w)
    PROVE  OnlyForward
  <1>0. w \in Proc
    BY DEF Proc
  <1>1. CASE LoadIndex(w)
    BY <1>0, <1>1, LoadForward
  <1>2. CASE Begin(w)
    BY <1>0, <1>2, ForwardOf DEF Begin, Ahead
  <1>3. CASE AcquireWrite(w)
    <2>1. Ahead("apply") < Ahead("lock")
      BY DEF Ahead
    <2> QED BY <1>0, <1>3, <2>1, ForwardOf DEF AcquireWrite
  <1>4. CASE Apply(w) \/ FetchFails(w) \/ Persist(w)
    <2>1. PICK point : /\ pc' = [pc EXCEPT ![w] = point]
                       /\ \/ pc[w] = "apply" /\ point \in {"meta", "failed"}
                          \/ pc[w] = "meta" /\ point \in {"flush", "failed"}
                          \/ pc[w] = "flush" /\ point \in {"rename", "failed"}
                          \/ pc[w] = "rename" /\ point \in {"copy", "failed"}
                          \/ pc[w] = "copy" /\ point \in {"snap", "count"}
                          \/ pc[w] = "snap" /\ point = "count"
                          \/ pc[w] = "count" /\ point = "acked"
      BY <1>4 DEF Apply, FetchFails, GiveUp, Persist, WriteMeta, FlushTemp, Rename,
                  CopyReplica, SnapReplica, UpdateCount, WriteFails, ReplicaFails,
                  CountFails
    <2>2. Ahead(point) < Ahead(pc[w])
      BY <2>1 DEF Ahead
    <2> QED BY <1>0, <2>1, <2>2, ForwardOf
  <1> QED BY <1>1, <1>2, <1>3, <1>4 DEF InsertRun, EmbedRun

LEMMA ReadForward ==
    ASSUME BaseInv, NEW r \in Reader, ReadIndex(r)
    PROVE  OnlyForward
  <1>0. r \in Proc
    BY DEF Proc
  <1>1. CASE LoadIndex(r)
    BY <1>0, <1>1, LoadForward
  <1>2. CASE CheckCache(r)
    <2>1. CASE UNCHANGED pc
      BY <2>1 DEF OnlyForward
    <2>2. CASE pc' = [pc EXCEPT ![r] = "loading"] /\ pc[r] = "idle"
      BY <1>0, <2>2, ForwardOf DEF Ahead
    <2> QED BY <1>2, <2>1, <2>2 DEF CheckCache
  <1>3. CASE RecheckCache(r) \/ ReadMeta(r) \/ PutSum(r) \/ PutIndex(r)
    <2>1. PICK point : /\ pc' = [pc EXCEPT ![r] = point]
                       /\ \/ pc[r] = "loading" /\ point \in {"ld_lock", "idle"}
                          \/ pc[r] = "readmeta" /\ point \in {"putsum", "idle"}
                          \/ pc[r] = "putsum" /\ point = "put"
                          \/ pc[r] = "put" /\ point = "idle"
      BY <1>3 DEF RecheckCache, ReadMeta, PutSum, PutIndex, Finish
    <2>2. Ahead(point) < Ahead(pc[r])
      BY <2>1 DEF Ahead
    <2> QED BY <1>0, <2>1, <2>2, ForwardOf
  <1> QED BY <1>1, <1>2, <1>3 DEF ReadIndex

LEMMA NextForward == BaseInv /\ [Next]_vars => OnlyForward
  <1> SUFFICES ASSUME BaseInv, [Next]_vars PROVE OnlyForward
    OBVIOUS
  <1>1. ASSUME NEW w \in Writer, InsertRun(w) \/ EmbedRun(w) PROVE OnlyForward
    BY <1>1, WriteForward
  <1>2. ASSUME NEW r \in Reader, ReadIndex(r) PROVE OnlyForward
    BY <1>2, ReadForward
  <1>3. CASE Crash
    <2>1. ASSUME NEW p \in Proc, Ahead(pc[p]) # 0
          PROVE  Ahead(pc'[p]) < Ahead(pc[p])
      <3>1. pc[p] \notin {"new"} \cup EndPoints
        BY <2>1 DEF Ahead, EndPoints
      <3>2. pc'[p] \in {"idle", "lost"}
        BY <1>3, <2>1, <3>1 DEF Crash, InFlight
      <3>3. Ahead(pc'[p]) = 0 /\ Ahead(pc[p]) > 0
        BY <2>1, <3>2 DEF Ahead
      <3> QED BY <3>3
    <2> QED BY <2>1 DEF OnlyForward
  <1>4. CASE Evict \/ UNCHANGED vars
    BY <1>4 DEF Evict, vars, OnlyForward
  <1> QED BY <1>1, <1>2, <1>3, <1>4
          DEF Next, QueryVector, QuerySearch, IndexByPage, Writer, Reader

\* Between its arrival and its answer a request passes no await twice, whether its
\* index is loaded, recovered by it or by somebody else meanwhile, or written, and
\* whichever file operation fails (insert_run, embed_run, load_index_from_database
\* and the read handlers have no loop).
THEOREM RequestsGoOn == Spec => [][OnlyForward]_vars
  <1>1. BaseInv /\ [Next]_vars => [OnlyForward]_vars
    BY NextForward
  <1> QED BY <1>1, BaseAlways, PTL DEF Spec

===============================================================================
