---------------------- MODULE IndexStoreDurable_proofs ----------------------
(***************************************************************************)
(* What holds of an IndexStore whose clients write one at a time: nothing  *)
(* that was answered with success, or that was ever current, is lost, and  *)
(* answers never go back.  It implements the database DurableIndex         *)
(* promises: every step of a request, of the caches and of a crash is a    *)
(* step of the promised database, or changes nothing its clients can see.  *)
(*                                                                         *)
(* DurableInv   a write request carries exactly what the database holds,   *)
(*              and .bin is torn only while it is written back             *)
(* OrderInv     caches and loads never fall behind an answer               *)
(***************************************************************************)
EXTENDS IndexStore_proofs

USE RequestAssumption, ImageAssumption, BoundAssumption

-----------------------------------------------------------------------------
(* The invariants.                                                         *)

\* Under what the database is durable: clients send one write at a time, and no
\* file operation fails and no crash happens if the files may be restored ones.
OneAtATime ==
    /\ SerialClients
    /\ "restored" \in Origins => MaxCrashes = 0 /\ MaxFaults = 0

\* .bin is torn only while somebody writes it back, and what is written back is
\* what the database holds.
RecoverInv ==
    /\ "restored" \notin Origins =>
         /\ bin # Torn
         /\ bin = Absent => replica = Absent
         /\ \A p \in Proc : pc[p] \notin RecoverPoints
    /\ bin = Torn => Recovering
    /\ \A p \in Proc : pc[p] \in {"rc_meta", "rc_write"} => bin = Absent
    /\ \A p \in Proc : pc[p] = "rc_flush" => bin = Torn
    /\ \A p \in Proc : pc[p] \in RecoverPoints /\ ~Intact(bin) =>
                         replica = local[p]

\* What a write request carries, against what the database holds.
HandInv ==
    \A w \in Writer :
        /\ pc[w] \in RecoverPoints => local[w] = Contents
        /\ pc[w] \in {"lock", "apply"} => BaseOf(w) = Contents
        /\ pc[w] \in {"meta", "flush", "rename"} =>
             local[w] = Contents \cup {BatchOf[w]} /\ BatchOf[w] \notin Contents
        /\ pc[w] \in {"copy", "snap", "count"} => bin = local[w]

\* No two writes of the same ids have taken effect, unless one was lost.
OnceInv ==
    \A v, w \in Writer :
        /\ v # w
        /\ pc[v] \in {"copy", "snap", "count", "acked"}
        /\ pc[w] \in {"copy", "snap", "count", "acked"}
        => BatchOf[v] # BatchOf[w]

DurableInv ==
    /\ SerialInv
    /\ RecoverInv
    /\ HandInv
    /\ NothingLost
    /\ AckedDurable
    /\ OnceInv

\* Nobody, no cache and no load is behind the latest answer.
OrderInv ==
    /\ served # Absent => served \subseteq Contents
    /\ indexCache # Absent => indexCache.store \subseteq Contents
    /\ served # Absent /\ indexCache # Absent => served \subseteq indexCache.store
    /\ \A r \in Reader : local[r] # Absent =>
         /\ loader = r
         /\ local[r] \subseteq Contents
         /\ served # Absent => served \subseteq local[r]
         /\ indexCache # Absent => indexCache.store \subseteq local[r]

-----------------------------------------------------------------------------
(* Which steps change what the database holds.                             *)

LEMMA LoadKeepsContents ==
    ASSUME OneAtATime, BaseInv, DurableInv, NEW p \in Proc, LoadIndex(p)
    PROVE  Contents' = Contents
  <1> USE OneAtATime DEF BaseInv, TypeOK, LockInv, CarryInv, DurableInv, Intact,
              WriteGuarded, RecoverPoints, Proc, Contents, Recovering,
              RecoverInv, HandInv, diskVars, cacheVars, lockVars, boundVars,
              AfterLoad
  <1>1. CASE LoadLock(p)
    BY <1>1 DEF LoadLock
  <1>2. CASE LoadRead(p)
    BY <1>2 DEF LoadRead
  <1>3. CASE RecoverLock(p)
    BY <1>3 DEF RecoverLock
  <1>4. CASE RecoverMeta(p)
    BY <1>4 DEF RecoverMeta
  <1>5. CASE RecoverWrite(p)
    BY <1>5 DEF RecoverWrite
  <1>6. CASE RecoverFlush(p)
    BY <1>6 DEF RecoverFlush
  <1>7. CASE RecoverFails(p)
    BY <1>7 DEF RecoverFails, OneAtATime
  <1> QED BY <1>1, <1>2, <1>3, <1>4, <1>5, <1>6, <1>7 DEF LoadIndex

LEMMA WriteKeepsContents ==
    ASSUME OneAtATime, BaseInv, DurableInv, NEW w \in Writer,
           InsertRun(w) \/ EmbedRun(w), ~Rename(w)
    PROVE  Contents' = Contents
  <1> USE OneAtATime DEF BaseInv, TypeOK, LockInv, CarryInv, DurableInv, Intact,
              WriteGuarded, RecoverPoints, Proc, Contents, Recovering,
              RecoverInv, HandInv, diskVars, cacheVars, lockVars, boundVars,
              GiveUp
  <1>1. CASE Begin(w)
    BY <1>1 DEF Begin
  <1>2. CASE AcquireWrite(w)
    BY <1>2 DEF AcquireWrite
  <1>3. CASE Apply(w)
    BY <1>3 DEF Apply
  <1>4. CASE FetchFails(w)
    BY <1>4 DEF FetchFails
  <1>5. CASE WriteMeta(w)
    BY <1>5 DEF WriteMeta
  <1>6. CASE FlushTemp(w)
    BY <1>6 DEF FlushTemp
  <1>7. CASE CopyReplica(w)
    BY <1>7 DEF CopyReplica
  <1>8. CASE SnapReplica(w)
    BY <1>8 DEF SnapReplica
  <1>9. CASE UpdateCount(w)
    BY <1>9 DEF UpdateCount
  <1>10. CASE WriteFails(w)
    BY <1>10 DEF WriteFails
  <1>11. CASE ReplicaFails(w)
    BY <1>11 DEF ReplicaFails
  <1>12. CASE CountFails(w)
    BY <1>12 DEF CountFails
  <1>13. CASE LoadIndex(w)
    BY <1>13, LoadKeepsContents
  <1> QED BY <1>1, <1>2, <1>3, <1>4, <1>5, <1>6, <1>7, <1>8, <1>9, <1>10, <1>11,
             <1>12, <1>13 DEF InsertRun, EmbedRun, Persist

\* A write takes effect at the rename.
LEMMA RenameAddsBatch ==
    ASSUME OneAtATime, BaseInv, DurableInv, NEW w \in Writer, Rename(w)
    PROVE  /\ Contents' = Contents \cup {BatchOf[w]}
           /\ Contents' = local[w]
           /\ BatchOf[w] \notin Contents
  <1> QED BY DEF Rename, BaseInv, CarryInv, DurableInv, HandInv, Contents, Intact

LEMMA ReadKeepsContents ==
    ASSUME OneAtATime, BaseInv, DurableInv, NEW r \in Reader, ReadIndex(r)
    PROVE  Contents' = Contents
  <1> USE OneAtATime DEF BaseInv, TypeOK, LockInv, CarryInv, DurableInv, Intact,
              WriteGuarded, RecoverPoints, Proc, Contents, Recovering,
              RecoverInv, HandInv, diskVars, cacheVars, lockVars, boundVars,
              Finish
  <1>1. CASE CheckCache(r)
    BY <1>1 DEF CheckCache
  <1>2. CASE RecheckCache(r)
    BY <1>2 DEF RecheckCache
  <1>3. CASE ReadMeta(r)
    BY <1>3 DEF ReadMeta
  <1>4. CASE PutSum(r)
    BY <1>4 DEF PutSum
  <1>5. CASE PutIndex(r)
    BY <1>5 DEF PutIndex
  <1>6. CASE LoadIndex(r)
    BY <1>6, LoadKeepsContents DEF Reader
  <1> QED BY <1>1, <1>2, <1>3, <1>4, <1>5, <1>6 DEF ReadIndex

LEMMA CrashKeepsContents ==
    ASSUME OneAtATime, BaseInv, DurableInv, Crash
    PROVE  Contents' = Contents
  <1>1. "restored" \notin Origins
    BY DEF OneAtATime, Crash, BaseInv, TypeOK
  <1> QED BY <1>1 DEF Crash, DurableInv, RecoverInv, Contents, Recovering,
                     RecoverPoints, InFlight, EndPoints, diskVars

-----------------------------------------------------------------------------
(* What the database holds is never lost.                                  *)

LEMMA LoadKeepsDurable ==
    ASSUME OneAtATime, BaseInv, DurableInv, NEW p \in Proc, LoadIndex(p)
    PROVE  DurableInv'
  <1> USE OneAtATime DEF BaseInv, TypeOK, LockInv, CarryInv, DurableInv, Intact,
              WriteGuarded, RecoverPoints, EndPoints, InFlight, Proc, Writer,
              Reader, diskVars, cacheVars, lockVars, boundVars, histVars,
              AfterLoad
  <1>0. Contents' = Contents
    BY LoadKeepsContents
  <1>1. CASE LoadLock(p)
    <2>2. SerialInv'
      BY <1>1, <1>0 DEF LoadLock, SerialInv
    <2>3. RecoverInv'
      BY <1>1, <1>0 DEF LoadLock, RecoverInv, Recovering, HandInv
    <2>4. HandInv'
      BY <1>1, <1>0 DEF LoadLock, HandInv, BaseOf, RecoverInv
    <2>5. NothingLost'
      BY <1>1, <1>0 DEF LoadLock, NothingLost
    <2>6. AckedDurable'
      BY <1>1, <1>0 DEF LoadLock, AckedDurable
    <2>7. OnceInv'
      BY <1>1, <1>0 DEF LoadLock, OnceInv
    <2> QED BY <2>2, <2>3, <2>4, <2>5, <2>6, <2>7
  <1>2. CASE LoadRead(p)
    <2>2. SerialInv'
      BY <1>2, <1>0 DEF LoadRead, SerialInv
    <2>3. RecoverInv'
      BY <1>2, <1>0 DEF LoadRead, RecoverInv, Recovering, HandInv
    <2>4. HandInv'
      <3>1. bin # Torn
        BY <1>2 DEF LoadRead, RecoverInv, Recovering
      <3>2. /\ pc'[p] = "rc_lock" => local'[p] = Contents
            /\ pc'[p] = "lock" => BaseOf(p)' = Contents
            /\ pc'[p] \in {"rc_lock", "lock", "readmeta"}
        BY <1>2, <3>1 DEF LoadRead, Contents, Recovering, BaseOf
      <3>3. \A q \in Proc : q # p => pc'[q] = pc[q] /\ local'[q] = local[q]
        BY <1>2 DEF LoadRead
      <3> QED BY <1>2, <1>0, <3>2, <3>3 DEF LoadRead, HandInv, BaseOf
    <2>5. NothingLost'
      BY <1>2, <1>0 DEF LoadRead, NothingLost
    <2>6. AckedDurable'
      BY <1>2, <1>0 DEF LoadRead, AckedDurable
    <2>7. OnceInv'
      BY <1>2, <1>0 DEF LoadRead, OnceInv
    <2> QED BY <2>2, <2>3, <2>4, <2>5, <2>6, <2>7
  <1>3. CASE RecoverLock(p)
    <2>2. SerialInv'
      BY <1>3, <1>0 DEF RecoverLock, SerialInv
    <2>3. RecoverInv'
      BY <1>3, <1>0 DEF RecoverLock, RecoverInv, Recovering, HandInv
    <2>4. HandInv'
      BY <1>3, <1>0 DEF RecoverLock, HandInv, BaseOf, RecoverInv
    <2>5. NothingLost'
      BY <1>3, <1>0 DEF RecoverLock, NothingLost
    <2>6. AckedDurable'
      BY <1>3, <1>0 DEF RecoverLock, AckedDurable
    <2>7. OnceInv'
      BY <1>3, <1>0 DEF RecoverLock, OnceInv
    <2> QED BY <2>2, <2>3, <2>4, <2>5, <2>6, <2>7
  <1>4. CASE RecoverMeta(p)
    <2>2. SerialInv'
      BY <1>4, <1>0 DEF RecoverMeta, SerialInv
    <2>3. RecoverInv'
      BY <1>4, <1>0 DEF RecoverMeta, RecoverInv, Recovering, HandInv
    <2>4. HandInv'
      BY <1>4, <1>0 DEF RecoverMeta, HandInv, BaseOf, RecoverInv
    <2>5. NothingLost'
      BY <1>4, <1>0 DEF RecoverMeta, NothingLost
    <2>6. AckedDurable'
      BY <1>4, <1>0 DEF RecoverMeta, AckedDurable
    <2>7. OnceInv'
      BY <1>4, <1>0 DEF RecoverMeta, OnceInv
    <2> QED BY <2>2, <2>3, <2>4, <2>5, <2>6, <2>7
  <1>5. CASE RecoverWrite(p)
    <2>2. SerialInv'
      BY <1>5, <1>0 DEF RecoverWrite, SerialInv
    <2>3. RecoverInv'
      BY <1>5, <1>0 DEF RecoverWrite, RecoverInv, Recovering, HandInv
    <2>4. HandInv'
      BY <1>5, <1>0 DEF RecoverWrite, HandInv, BaseOf, RecoverInv
    <2>5. NothingLost'
      BY <1>5, <1>0 DEF RecoverWrite, NothingLost
    <2>6. AckedDurable'
      BY <1>5, <1>0 DEF RecoverWrite, AckedDurable
    <2>7. OnceInv'
      BY <1>5, <1>0 DEF RecoverWrite, OnceInv
    <2> QED BY <2>2, <2>3, <2>4, <2>5, <2>6, <2>7
  <1>6. CASE RecoverFlush(p)
    <2>2. SerialInv'
      BY <1>6, <1>0 DEF RecoverFlush, SerialInv
    <2>3. RecoverInv'
      BY <1>6, <1>0 DEF RecoverFlush, RecoverInv, Recovering, HandInv
    <2>4. HandInv'
      BY <1>6, <1>0 DEF RecoverFlush, HandInv, BaseOf, RecoverInv
    <2>5. NothingLost'
      BY <1>6, <1>0 DEF RecoverFlush, NothingLost
    <2>6. AckedDurable'
      BY <1>6, <1>0 DEF RecoverFlush, AckedDurable
    <2>7. OnceInv'
      BY <1>6, <1>0 DEF RecoverFlush, OnceInv
    <2> QED BY <2>2, <2>3, <2>4, <2>5, <2>6, <2>7
  <1>7. CASE RecoverFails(p)
    BY <1>7 DEF RecoverFails, RecoverInv, OneAtATime
  <1> QED BY <1>1, <1>2, <1>3, <1>4, <1>5, <1>6, <1>7 DEF LoadIndex

LEMMA WriteKeepsDurable ==
    ASSUME OneAtATime, BaseInv, DurableInv, NEW w \in Writer,
           InsertRun(w) \/ EmbedRun(w)
    PROVE  DurableInv'
  <1> USE OneAtATime DEF BaseInv, TypeOK, LockInv, CarryInv, DurableInv, Intact,
              WriteGuarded, RecoverPoints, EndPoints, InFlight, Proc, Writer,
              Reader, diskVars, cacheVars, lockVars, boundVars, histVars, GiveUp
  <1>0. ~Rename(w) => Contents' = Contents
    BY WriteKeepsContents
  <1>1. CASE Begin(w)
    <2>1. Contents' = Contents
      BY <1>0, <1>1 DEF Begin, Rename
    <2>2. SerialInv'
      BY <1>1, <2>1 DEF Begin, OneAtATime, SerialInv
    <2>3. RecoverInv'
      BY <1>1, <2>1 DEF Begin, OneAtATime, RecoverInv, Recovering, HandInv
    <2>4. HandInv'
      BY <1>1, <2>1 DEF Begin, OneAtATime, HandInv, BaseOf, RecoverInv
    <2>5. NothingLost'
      BY <1>1, <2>1 DEF Begin, OneAtATime, NothingLost
    <2>6. AckedDurable'
      BY <1>1, <2>1 DEF Begin, OneAtATime, AckedDurable
    <2>7. OnceInv'
      BY <1>1, <2>1 DEF Begin, OneAtATime, OnceInv
    <2> QED BY <2>2, <2>3, <2>4, <2>5, <2>6, <2>7
  <1>2. CASE AcquireWrite(w)
    <2>1. Contents' = Contents
      BY <1>0, <1>2 DEF AcquireWrite, Rename
    <2>2. SerialInv'
      BY <1>2, <2>1 DEF AcquireWrite, SerialInv
    <2>3. RecoverInv'
      BY <1>2, <2>1 DEF AcquireWrite, RecoverInv, Recovering, HandInv
    <2>4. HandInv'
      BY <1>2, <2>1 DEF AcquireWrite, HandInv, BaseOf, RecoverInv
    <2>5. NothingLost'
      BY <1>2, <2>1 DEF AcquireWrite, NothingLost
    <2>6. AckedDurable'
      BY <1>2, <2>1 DEF AcquireWrite, AckedDurable
    <2>7. OnceInv'
      BY <1>2, <2>1 DEF AcquireWrite, OnceInv
    <2> QED BY <2>2, <2>3, <2>4, <2>5, <2>6, <2>7
  <1>3. CASE Apply(w)
    <2>1. Contents' = Contents
      BY <1>0, <1>3 DEF Apply, Rename
    <2>2. SerialInv'
      BY <1>3, <2>1 DEF Apply, SerialInv
    <2>3. RecoverInv'
      BY <1>3, <2>1 DEF Apply, RecoverInv, Recovering, HandInv
    <2>4. HandInv'
      BY <1>3, <2>1 DEF Apply, HandInv, BaseOf, RecoverInv
    <2>5. NothingLost'
      BY <1>3, <2>1 DEF Apply, NothingLost
    <2>6. AckedDurable'
      BY <1>3, <2>1 DEF Apply, AckedDurable
    <2>7. OnceInv'
      BY <1>3, <2>1 DEF Apply, OnceInv
    <2> QED BY <2>2, <2>3, <2>4, <2>5, <2>6, <2>7
  <1>4. CASE FetchFails(w)
    <2>1. Contents' = Contents
      BY <1>0, <1>4 DEF FetchFails, Rename
    <2>2. SerialInv'
      BY <1>4, <2>1 DEF FetchFails, SerialInv
    <2>3. RecoverInv'
      BY <1>4, <2>1 DEF FetchFails, RecoverInv, Recovering, HandInv
    <2>4. HandInv'
      BY <1>4, <2>1 DEF FetchFails, HandInv, BaseOf, RecoverInv
    <2>5. NothingLost'
      BY <1>4, <2>1 DEF FetchFails, NothingLost
    <2>6. AckedDurable'
      BY <1>4, <2>1 DEF FetchFails, AckedDurable
    <2>7. OnceInv'
      BY <1>4, <2>1 DEF FetchFails, OnceInv
    <2> QED BY <2>2, <2>3, <2>4, <2>5, <2>6, <2>7
  <1>5. CASE WriteMeta(w)
    <2>1. Contents' = Contents
      BY <1>0, <1>5 DEF WriteMeta, Rename
    <2>2. SerialInv'
      BY <1>5, <2>1 DEF WriteMeta, SerialInv
    <2>3. RecoverInv'
      BY <1>5, <2>1 DEF WriteMeta, RecoverInv, Recovering, HandInv
    <2>4. HandInv'
      BY <1>5, <2>1 DEF WriteMeta, HandInv, BaseOf, RecoverInv
    <2>5. NothingLost'
      BY <1>5, <2>1 DEF WriteMeta, NothingLost
    <2>6. AckedDurable'
      BY <1>5, <2>1 DEF WriteMeta, AckedDurable
    <2>7. OnceInv'
      BY <1>5, <2>1 DEF WriteMeta, OnceInv
    <2> QED BY <2>2, <2>3, <2>4, <2>5, <2>6, <2>7
  <1>6. CASE FlushTemp(w)
    <2>1. Contents' = Contents
      BY <1>0, <1>6 DEF FlushTemp, Rename
    <2>2. SerialInv'
      BY <1>6, <2>1 DEF FlushTemp, SerialInv
    <2>3. RecoverInv'
      BY <1>6, <2>1 DEF FlushTemp, RecoverInv, Recovering, HandInv
    <2>4. HandInv'
      BY <1>6, <2>1 DEF FlushTemp, HandInv, BaseOf, RecoverInv
    <2>5. NothingLost'
      BY <1>6, <2>1 DEF FlushTemp, NothingLost
    <2>6. AckedDurable'
      BY <1>6, <2>1 DEF FlushTemp, AckedDurable
    <2>7. OnceInv'
      BY <1>6, <2>1 DEF FlushTemp, OnceInv
    <2> QED BY <2>2, <2>3, <2>4, <2>5, <2>6, <2>7
  <1>7. CASE CopyReplica(w)
    <2>1. Contents' = Contents
      BY <1>0, <1>7 DEF CopyReplica, Rename
    <2>2. SerialInv'
      BY <1>7, <2>1 DEF CopyReplica, SerialInv
    <2>3. RecoverInv'
      BY <1>7, <2>1 DEF CopyReplica, RecoverInv, Recovering, HandInv
    <2>4. HandInv'
      BY <1>7, <2>1 DEF CopyReplica, HandInv, BaseOf, RecoverInv
    <2>5. NothingLost'
      BY <1>7, <2>1 DEF CopyReplica, NothingLost
    <2>6. AckedDurable'
      BY <1>7, <2>1 DEF CopyReplica, AckedDurable
    <2>7. OnceInv'
      BY <1>7, <2>1 DEF CopyReplica, OnceInv
    <2> QED BY <2>2, <2>3, <2>4, <2>5, <2>6, <2>7
  <1>8. CASE SnapReplica(w)
    <2>1. Contents' = Contents
      BY <1>0, <1>8 DEF SnapReplica, Rename
    <2>2. SerialInv'
      BY <1>8, <2>1 DEF SnapReplica, SerialInv
    <2>3. RecoverInv'
      BY <1>8, <2>1 DEF SnapReplica, RecoverInv, Recovering, HandInv
    <2>4. HandInv'
      BY <1>8, <2>1 DEF SnapReplica, HandInv, BaseOf, RecoverInv
    <2>5. NothingLost'
      BY <1>8, <2>1 DEF SnapReplica, NothingLost
    <2>6. AckedDurable'
      BY <1>8, <2>1 DEF SnapReplica, AckedDurable
    <2>7. OnceInv'
      BY <1>8, <2>1 DEF SnapReplica, OnceInv
    <2> QED BY <2>2, <2>3, <2>4, <2>5, <2>6, <2>7
  <1>9. CASE UpdateCount(w)
    <2>1. Contents' = Contents
      BY <1>0, <1>9 DEF UpdateCount, Rename
    <2>2. SerialInv'
      BY <1>9, <2>1 DEF UpdateCount, SerialInv
    <2>3. RecoverInv'
      BY <1>9, <2>1 DEF UpdateCount, RecoverInv, Recovering, HandInv
    <2>4. HandInv'
      BY <1>9, <2>1 DEF UpdateCount, HandInv, BaseOf, RecoverInv
    <2>5. NothingLost'
      BY <1>9, <2>1 DEF UpdateCount, NothingLost
    <2>6. AckedDurable'
      <3>1. BatchOf[w] \in Contents
        BY <1>9 DEF UpdateCount, HandInv, Contents
      <3> QED BY <1>9, <2>1, <3>1 DEF UpdateCount, AckedDurable
    <2>7. OnceInv'
      BY <1>9, <2>1 DEF UpdateCount, OnceInv
    <2> QED BY <2>2, <2>3, <2>4, <2>5, <2>6, <2>7
  <1>10. CASE WriteFails(w)
    <2>1. Contents' = Contents
      BY <1>0, <1>10 DEF WriteFails, Rename
    <2>2. SerialInv'
      BY <1>10, <2>1 DEF WriteFails, SerialInv
    <2>3. RecoverInv'
      BY <1>10, <2>1 DEF WriteFails, RecoverInv, Recovering, HandInv
    <2>4. HandInv'
      BY <1>10, <2>1 DEF WriteFails, HandInv, BaseOf, RecoverInv
    <2>5. NothingLost'
      BY <1>10, <2>1 DEF WriteFails, NothingLost
    <2>6. AckedDurable'
      BY <1>10, <2>1 DEF WriteFails, AckedDurable
    <2>7. OnceInv'
      BY <1>10, <2>1 DEF WriteFails, OnceInv
    <2> QED BY <2>2, <2>3, <2>4, <2>5, <2>6, <2>7
  <1>11. CASE ReplicaFails(w)
    <2>1. Contents' = Contents
      BY <1>0, <1>11 DEF ReplicaFails, Rename
    <2>2. SerialInv'
      BY <1>11, <2>1 DEF ReplicaFails, SerialInv
    <2>3. RecoverInv'
      BY <1>11, <2>1 DEF ReplicaFails, RecoverInv, Recovering, HandInv
    <2>4. HandInv'
      BY <1>11, <2>1 DEF ReplicaFails, HandInv, BaseOf, RecoverInv
    <2>5. NothingLost'
      BY <1>11, <2>1 DEF ReplicaFails, NothingLost
    <2>6. AckedDurable'
      BY <1>11, <2>1 DEF ReplicaFails, AckedDurable
    <2>7. OnceInv'
      BY <1>11, <2>1 DEF ReplicaFails, OnceInv
    <2> QED BY <2>2, <2>3, <2>4, <2>5, <2>6, <2>7
  <1>12. CASE CountFails(w)
    <2>1. Contents' = Contents
      BY <1>0, <1>12 DEF CountFails, Rename
    <2>2. SerialInv'
      BY <1>12, <2>1 DEF CountFails, SerialInv
    <2>3. RecoverInv'
      BY <1>12, <2>1 DEF CountFails, RecoverInv, Recovering, HandInv
    <2>4. HandInv'
      BY <1>12, <2>1 DEF CountFails, HandInv, BaseOf, RecoverInv
    <2>5. NothingLost'
      BY <1>12, <2>1 DEF CountFails, NothingLost
    <2>6. AckedDurable'
      <3>1. BatchOf[w] \in Contents
        BY <1>12 DEF CountFails, HandInv, Contents
      <3> QED BY <1>12, <2>1, <3>1 DEF CountFails, AckedDurable
    <2>7. OnceInv'
      BY <1>12, <2>1 DEF CountFails, OnceInv
    <2> QED BY <2>2, <2>3, <2>4, <2>5, <2>6, <2>7
  <1>13. CASE Rename(w)
    <2>1. /\ Contents' = Contents \cup {BatchOf[w]}
          /\ BatchOf[w] \notin Contents
      BY <1>13, RenameAddsBatch
    <2>2. SerialInv'
      BY <1>13 DEF Rename, SerialInv
    <2>3. RecoverInv'
      BY <1>13 DEF Rename, RecoverInv, Recovering
    <2>4. HandInv'
      <3>1. \A v \in Writer : v # w => ~InFlight(v)'
        BY <1>13 DEF Rename, SerialInv
      <3>2. bin' = local'[w] /\ pc'[w] = "copy"
        BY <1>13 DEF Rename
      <3> QED BY <3>1, <3>2 DEF HandInv
    <2>5. NothingLost'
      <3>1. Contents' = local[w]
        BY <1>13, RenameAddsBatch
      <3> QED BY <1>13, <2>1, <3>1 DEF Rename, NothingLost
    <2>6. AckedDurable'
      BY <1>13, <2>1 DEF Rename, AckedDurable
    <2>7. OnceInv'
      BY <1>13, <2>1 DEF Rename, OnceInv, SerialInv, AckedDurable
    <2> QED BY <2>2, <2>3, <2>4, <2>5, <2>6, <2>7
  <1>14. CASE LoadIndex(w)
    BY <1>14, LoadKeepsDurable
  <1> QED BY <1>1, <1>2, <1>3, <1>4, <1>5, <1>6, <1>7, <1>8, <1>9, <1>10, <1>11,
             <1>12, <1>13, <1>14 DEF InsertRun, EmbedRun, Persist

LEMMA ReadKeepsDurable ==
    ASSUME OneAtATime, BaseInv, DurableInv, NEW r \in Reader, ReadIndex(r)
    PROVE  DurableInv'
  <1> USE OneAtATime DEF BaseInv, TypeOK, LockInv, CarryInv, DurableInv, Intact,
              WriteGuarded, RecoverPoints, EndPoints, InFlight, Proc, Writer,
              Reader, diskVars, cacheVars, lockVars, boundVars, histVars,
              Answer, Finish
  <1>0. Contents' = Contents
    BY ReadKeepsContents
  <1>1. CASE CheckCache(r)
    <2>2. SerialInv'
      BY <1>1, <1>0 DEF CheckCache, SerialInv
    <2>3. RecoverInv'
      BY <1>1, <1>0 DEF CheckCache, RecoverInv, Recovering, HandInv
    <2>4. HandInv'
      BY <1>1, <1>0 DEF CheckCache, HandInv, BaseOf, RecoverInv
    <2>5. NothingLost'
      BY <1>1, <1>0 DEF CheckCache, NothingLost
    <2>6. AckedDurable'
      BY <1>1, <1>0 DEF CheckCache, AckedDurable
    <2>7. OnceInv'
      BY <1>1, <1>0 DEF CheckCache, OnceInv
    <2> QED BY <2>2, <2>3, <2>4, <2>5, <2>6, <2>7
  <1>2. CASE RecheckCache(r)
    <2>2. SerialInv'
      BY <1>2, <1>0 DEF RecheckCache, SerialInv
    <2>3. RecoverInv'
      BY <1>2, <1>0 DEF RecheckCache, RecoverInv, Recovering, HandInv
    <2>4. HandInv'
      BY <1>2, <1>0 DEF RecheckCache, HandInv, BaseOf, RecoverInv
    <2>5. NothingLost'
      BY <1>2, <1>0 DEF RecheckCache, NothingLost
    <2>6. AckedDurable'
      BY <1>2, <1>0 DEF RecheckCache, AckedDurable
    <2>7. OnceInv'
      BY <1>2, <1>0 DEF RecheckCache, OnceInv
    <2> QED BY <2>2, <2>3, <2>4, <2>5, <2>6, <2>7
  <1>3. CASE ReadMeta(r)
    <2>2. SerialInv'
      BY <1>3, <1>0 DEF ReadMeta, SerialInv
    <2>3. RecoverInv'
      BY <1>3, <1>0 DEF ReadMeta, RecoverInv, Recovering, HandInv
    <2>4. HandInv'
      BY <1>3, <1>0 DEF ReadMeta, HandInv, BaseOf, RecoverInv
    <2>5. NothingLost'
      BY <1>3, <1>0 DEF ReadMeta, NothingLost
    <2>6. AckedDurable'
      BY <1>3, <1>0 DEF ReadMeta, AckedDurable
    <2>7. OnceInv'
      BY <1>3, <1>0 DEF ReadMeta, OnceInv
    <2> QED BY <2>2, <2>3, <2>4, <2>5, <2>6, <2>7
  <1>4. CASE PutSum(r)
    <2>2. SerialInv'
      BY <1>4, <1>0 DEF PutSum, SerialInv
    <2>3. RecoverInv'
      BY <1>4, <1>0 DEF PutSum, RecoverInv, Recovering, HandInv
    <2>4. HandInv'
      BY <1>4, <1>0 DEF PutSum, HandInv, BaseOf, RecoverInv
    <2>5. NothingLost'
      BY <1>4, <1>0 DEF PutSum, NothingLost
    <2>6. AckedDurable'
      BY <1>4, <1>0 DEF PutSum, AckedDurable
    <2>7. OnceInv'
      BY <1>4, <1>0 DEF PutSum, OnceInv
    <2> QED BY <2>2, <2>3, <2>4, <2>5, <2>6, <2>7
  <1>5. CASE PutIndex(r)
    <2>2. SerialInv'
      BY <1>5, <1>0 DEF PutIndex, SerialInv
    <2>3. RecoverInv'
      BY <1>5, <1>0 DEF PutIndex, RecoverInv, Recovering, HandInv
    <2>4. HandInv'
      BY <1>5, <1>0 DEF PutIndex, HandInv, BaseOf, RecoverInv
    <2>5. NothingLost'
      BY <1>5, <1>0 DEF PutIndex, NothingLost
    <2>6. AckedDurable'
      BY <1>5, <1>0 DEF PutIndex, AckedDurable
    <2>7. OnceInv'
      BY <1>5, <1>0 DEF PutIndex, OnceInv
    <2> QED BY <2>2, <2>3, <2>4, <2>5, <2>6, <2>7
  <1>6. CASE LoadIndex(r)
    BY <1>6, LoadKeepsDurable
  <1> QED BY <1>1, <1>2, <1>3, <1>4, <1>5, <1>6 DEF ReadIndex

LEMMA DurableInductive ==
    OneAtATime /\ BaseInv /\ DurableInv /\ [Next]_vars => DurableInv'
  <1> SUFFICES ASSUME OneAtATime, BaseInv, DurableInv, [Next]_vars
               PROVE  DurableInv'
    OBVIOUS
  <1> USE OneAtATime DEF BaseInv, TypeOK, LockInv, CarryInv, DurableInv, Intact,
              WriteGuarded, RecoverPoints, EndPoints, InFlight, Proc, Writer,
              Reader, diskVars, cacheVars, lockVars, boundVars, histVars
  <1>1. ASSUME NEW w \in Writer, InsertRun(w) \/ EmbedRun(w) PROVE DurableInv'
    BY <1>1, WriteKeepsDurable
  <1>2. ASSUME NEW r \in Reader, ReadIndex(r) PROVE DurableInv'
    BY <1>2, ReadKeepsDurable
  <1>3. CASE Evict
    <2>1. Contents' = Contents
      BY <1>3 DEF Evict, Contents, Recovering
    <2>2. SerialInv'
      BY <1>3, <2>1 DEF Evict, SerialInv
    <2>3. RecoverInv'
      BY <1>3, <2>1 DEF Evict, RecoverInv, Recovering, HandInv
    <2>4. HandInv'
      BY <1>3, <2>1 DEF Evict, HandInv, BaseOf, RecoverInv
    <2>5. NothingLost'
      BY <1>3, <2>1 DEF Evict, NothingLost
    <2>6. AckedDurable'
      BY <1>3, <2>1 DEF Evict, AckedDurable
    <2>7. OnceInv'
      BY <1>3, <2>1 DEF Evict, OnceInv
    <2> QED BY <2>2, <2>3, <2>4, <2>5, <2>6, <2>7
  <1>4. CASE Crash
    <2>1. Contents' = Contents
      BY <1>4, CrashKeepsContents
    <2>2. SerialInv'
      BY <1>4, <2>1 DEF Crash, OneAtATime, SerialInv
    <2>3. RecoverInv'
      BY <1>4, <2>1 DEF Crash, OneAtATime, RecoverInv, Recovering, HandInv
    <2>4. HandInv'
      BY <1>4, <2>1 DEF Crash, OneAtATime, HandInv, BaseOf, RecoverInv
    <2>5. NothingLost'
      BY <1>4, <2>1 DEF Crash, OneAtATime, NothingLost
    <2>6. AckedDurable'
      BY <1>4, <2>1 DEF Crash, OneAtATime, AckedDurable
    <2>7. OnceInv'
      BY <1>4, <2>1 DEF Crash, OneAtATime, OnceInv
    <2> QED BY <2>2, <2>3, <2>4, <2>5, <2>6, <2>7
  <1>5. CASE UNCHANGED vars
    <2>1. Contents' = Contents
      BY <1>5 DEF vars, Contents, Recovering
    <2>2. SerialInv'
      BY <1>5, <2>1 DEF vars, SerialInv
    <2>3. RecoverInv'
      BY <1>5, <2>1 DEF vars, RecoverInv, Recovering, HandInv
    <2>4. HandInv'
      BY <1>5, <2>1 DEF vars, HandInv, BaseOf, RecoverInv
    <2>5. NothingLost'
      BY <1>5, <2>1 DEF vars, NothingLost
    <2>6. AckedDurable'
      BY <1>5, <2>1 DEF vars, AckedDurable
    <2>7. OnceInv'
      BY <1>5, <2>1 DEF vars, OnceInv
    <2> QED BY <2>2, <2>3, <2>4, <2>5, <2>6, <2>7
  <1> QED BY <1>1, <1>2, <1>3, <1>4, <1>5
          DEF Next, QueryVector, QuerySearch, IndexByPage

LEMMA DurableInitially == Init => DurableInv
  <1> SUFFICES ASSUME Init PROVE DurableInv
    OBVIOUS
  <1>1. \A p \in Proc : pc[p] \in {"new", "idle"}
    BY DEF Init
  <1>2. PICK o \in Origins : /\ bin = Files(o).bin
                            /\ replica = Files(o).replica
                            /\ committed = IF o = "new" THEN {} ELSE {Seed}
    BY DEF Init
  <1>3. o \in {"new", "existing", "restored"}
    OBVIOUS
  <1>4. SerialInv /\ HandInv /\ AckedDurable /\ OnceInv
    <2>1. \A w \in Writer : pc[w] = "new"
      BY DEF Init, Proc
    <2> QED BY <2>1 DEF SerialInv, HandInv, AckedDurable, OnceInv, InFlight,
                        RecoverPoints
  <1>5. RecoverInv
    BY <1>1, <1>2, <1>3 DEF RecoverInv, Files, RecoverPoints
  <1>6. NothingLost
    BY <1>1, <1>2, <1>3
       DEF NothingLost, Files, Contents, Intact, Recovering
  <1> QED BY <1>4, <1>5, <1>6 DEF DurableInv

THEOREM DurableAlways == OneAtATime => (Spec => []DurableInv)
  <1> SUFFICES ASSUME OneAtATime PROVE Spec => []DurableInv
    OBVIOUS
  <1>1. BaseInv /\ DurableInv /\ [Next]_vars => DurableInv'
    BY DurableInductive
  <1> QED BY <1>1, BaseAlways, DurableInitially, PTL DEF Spec

\* When clients write one at a time, a write answered with success is in the
\* database ever after, whatever crashes, retries and failing file operations
\* come in between.
THEOREM AckedWritesAreDurable == OneAtATime => (Spec => []AckedDurable)
  <1> SUFFICES ASSUME OneAtATime PROVE Spec => []AckedDurable
    OBVIOUS
  <1>1. DurableInv => AckedDurable
    BY DEF DurableInv
  <1> QED BY <1>1, DurableAlways, PTL

\* Under the same conditions nothing that was ever current is lost, be its
\* writer answered or not.
THEOREM NothingIsLost == OneAtATime => (Spec => []NothingLost)
  <1> SUFFICES ASSUME OneAtATime PROVE Spec => []NothingLost
    OBVIOUS
  <1>1. DurableInv => NothingLost
    BY DEF DurableInv
  <1> QED BY <1>1, DurableAlways, PTL

\* Under the same conditions a write that is repeated, because its answer was
\* lost in a crash or for any other reason, is answered with success once.
THEOREM WritesTakeEffectOnce == OneAtATime => (Spec => []AckedOnce)
  <1> SUFFICES ASSUME OneAtATime PROVE Spec => []AckedOnce
    OBVIOUS
  <1>1. DurableInv => AckedOnce
    BY DEF DurableInv, OnceInv, AckedOnce
  <1> QED BY <1>1, DurableAlways, PTL

-----------------------------------------------------------------------------
(* Answers never go back.                                                  *)

LEMMA LoadKeepsOrder ==
    ASSUME OneAtATime, BaseInv, DurableInv, OrderInv, NEW p \in Proc, LoadIndex(p)
    PROVE  OrderInv'
  <1> USE DEF BaseInv, TypeOK, LockInv, CarryInv, OrderInv, Intact, Proc, Reader,
              diskVars, cacheVars, lockVars, boundVars, histVars, AfterLoad
  <1>0. Contents' = Contents
    BY LoadKeepsContents
  <1>1. CASE LoadLock(p)
    BY <1>0, <1>1 DEF LoadLock
  <1>2. CASE RecoverLock(p)
    BY <1>0, <1>2 DEF RecoverLock
  <1>3. CASE RecoverMeta(p)
    BY <1>0, <1>3 DEF RecoverMeta
  <1>4. CASE RecoverWrite(p)
    BY <1>0, <1>4 DEF RecoverWrite
  <1>5. CASE RecoverFlush(p)
    BY <1>0, <1>5 DEF RecoverFlush
  <1>6. CASE RecoverFails(p)
    BY <1>0, <1>6 DEF RecoverFails
  <1>7. CASE LoadRead(p)
    <2>1. local'[p] \in {Absent, Contents}
      BY <1>7 DEF LoadRead, DurableInv, RecoverInv, Recovering, Contents,
                  WriteGuarded
    <2>2. p \in Reader => loader = p
      BY <1>7 DEF LoadRead
    <2>3. \A r \in Reader : r # p => local'[r] = local[r]
      BY <1>7 DEF LoadRead
    <2> QED BY <1>0, <1>7, <2>1, <2>2, <2>3 DEF LoadRead
  <1> QED BY <1>1, <1>2, <1>3, <1>4, <1>5, <1>6, <1>7 DEF LoadIndex

LEMMA WriteKeepsOrder ==
    ASSUME OneAtATime, BaseInv, DurableInv, OrderInv, NEW w \in Writer,
           InsertRun(w) \/ EmbedRun(w)
    PROVE  OrderInv'
  <1> USE DEF BaseInv, TypeOK, LockInv, CarryInv, OrderInv, Intact, Proc, Reader,
              diskVars, cacheVars, lockVars, boundVars, histVars, GiveUp
  <1>1. CASE LoadIndex(w)
    BY <1>1, LoadKeepsOrder
  <1>2. CASE ~LoadIndex(w)
    <2>1. Contents \subseteq Contents'
      BY WriteKeepsContents, RenameAddsBatch
    <2>2. UNCHANGED <<served, indexCache, loader>>
      BY <1>2 DEF InsertRun, EmbedRun, Persist, Begin, AcquireWrite, Apply,
                  FetchFails, WriteMeta, FlushTemp, Rename, CopyReplica,
                  SnapReplica, UpdateCount, WriteFails, ReplicaFails,
                  CountFails
    <2>3. \A r \in Reader : local'[r] = local[r]
      BY <1>2 DEF InsertRun, EmbedRun, Persist, Begin, AcquireWrite, Apply,
                  FetchFails, WriteMeta, FlushTemp, Rename, CopyReplica,
                  SnapReplica, UpdateCount, WriteFails, ReplicaFails,
                  CountFails
    <2> QED BY <2>1, <2>2, <2>3
  <1> QED BY <1>1, <1>2

LEMMA ReadKeepsOrder ==
    ASSUME OneAtATime, BaseInv, DurableInv, OrderInv, NEW r \in Reader,
           ReadIndex(r)
    PROVE  OrderInv' /\ (served # Absent => served \subseteq served')
  <1> USE DEF BaseInv, TypeOK, LockInv, CarryInv, OrderInv, Intact, Proc, Reader,
              diskVars, cacheVars, lockVars, boundVars, histVars, Cached, Answer,
              Finish
  <1>0. Contents' = Contents
    BY ReadKeepsContents
  <1>1. CASE CheckCache(r)
    BY <1>0, <1>1 DEF CheckCache, CacheValid
  <1>2. CASE RecheckCache(r)
    BY <1>0, <1>2 DEF RecheckCache, CacheValid
  <1>3. CASE ReadMeta(r)
    BY <1>0, <1>3 DEF ReadMeta
  <1>4. CASE PutSum(r)
    BY <1>0, <1>4 DEF PutSum
  <1>5. CASE PutIndex(r)
    BY <1>0, <1>5 DEF PutIndex
  <1>6. CASE LoadIndex(r)
    <2>1. UNCHANGED served
      BY <1>6 DEF LoadIndex, LoadLock, LoadRead, RecoverLock, RecoverMeta,
                  RecoverWrite, RecoverFlush, RecoverFails
    <2> QED BY <1>6, <2>1, LoadKeepsOrder
  <1> QED BY <1>1, <1>2, <1>3, <1>4, <1>5, <1>6 DEF ReadIndex

LEMMA OrderInductive ==
    OneAtATime /\ BaseInv /\ DurableInv /\ OrderInv /\ [Next]_vars
      => OrderInv' /\ (served # Absent => served \subseteq served')
  <1> SUFFICES ASSUME OneAtATime, BaseInv, DurableInv, OrderInv, [Next]_vars
               PROVE  OrderInv' /\ (served # Absent => served \subseteq served')
    OBVIOUS
  <1> USE DEF BaseInv, TypeOK, LockInv, CarryInv, OrderInv, Intact, Proc, Reader,
              diskVars, cacheVars, lockVars, boundVars, histVars
  <1>1. ASSUME NEW w \in Writer, InsertRun(w) \/ EmbedRun(w)
        PROVE  OrderInv' /\ (served # Absent => served \subseteq served')
    <2>1. OrderInv'
      BY <1>1, WriteKeepsOrder
    <2>2. UNCHANGED served
      BY <1>1 DEF InsertRun, EmbedRun, Persist, LoadIndex, Begin, AcquireWrite,
                  Apply, FetchFails, WriteMeta, FlushTemp, Rename, CopyReplica,
                  SnapReplica, UpdateCount, WriteFails, ReplicaFails,
                  CountFails, LoadLock, LoadRead, RecoverLock, RecoverMeta,
                  RecoverWrite, RecoverFlush, RecoverFails
    <2> QED BY <2>1, <2>2
  <1>2. ASSUME NEW r \in Reader, ReadIndex(r)
        PROVE  OrderInv' /\ (served # Absent => served \subseteq served')
    BY <1>2, ReadKeepsOrder
  <1>3. CASE Evict
    BY <1>3 DEF Evict, Contents, Recovering
  <1>4. CASE Crash
    BY <1>4, CrashKeepsContents DEF Crash
  <1>5. CASE UNCHANGED vars
    BY <1>5 DEF vars, Contents, Recovering
  <1> QED BY <1>1, <1>2, <1>3, <1>4, <1>5
          DEF Next, QueryVector, QuerySearch, IndexByPage, Writer

LEMMA OrderInitially == Init => OrderInv
  <1> QED BY DEF Init, OrderInv, Proc, Reader

THEOREM OrderAlways == OneAtATime => (Spec => []OrderInv)
  <1> SUFFICES ASSUME OneAtATime PROVE Spec => []OrderInv
    OBVIOUS
  <1>1. BaseInv /\ DurableInv /\ OrderInv /\ [Next]_vars => OrderInv'
    BY OrderInductive
  <1> QED BY <1>1, BaseAlways, DurableAlways, OrderInitially, PTL DEF Spec

\* When clients write one at a time, what one answer was computed from is also
\* in every later one, whichever client asks, across evictions and restarts.
THEOREM ReadsAreMonotonic == OneAtATime => (Spec => MonotonicReads)
  <1> SUFFICES ASSUME OneAtATime PROVE Spec => MonotonicReads
    OBVIOUS
  <1>1. BaseInv /\ DurableInv /\ OrderInv /\ [Next]_vars
          => [served # Absent => served \subseteq served']_served
    BY OrderInductive
  <1> QED BY <1>1, BaseAlways, DurableAlways, OrderAlways, PTL
          DEF Spec, MonotonicReads

-----------------------------------------------------------------------------
(* What a client sees.                                                     *)

Progress == [w \in Writer |-> StatusOf(w)]

Invisible == UNCHANGED <<Contents, Progress, served>>

Invs == OneAtATime /\ BaseInv /\ DurableInv /\ OrderInv

LEMMA InvisibleStutters == Invisible => UNCHANGED Promise!vars
  <1> QED BY DEF Invisible, Progress, Promise!vars

-----------------------------------------------------------------------------
(* The steps.                                                              *)

LEMMA LoadIsInvisible ==
    ASSUME Invs, NEW p \in Proc, LoadIndex(p)
    PROVE  Invisible
  <1> USE DEF Invs, BaseInv, TypeOK
  <1>1. Contents' = Contents
    BY LoadKeepsContents
  <1>2. UNCHANGED served
    BY DEF LoadIndex, LoadLock, LoadRead, RecoverLock, RecoverMeta,
           RecoverWrite, RecoverFlush, RecoverFails, histVars
  <1>3. /\ \A q \in Proc : q # p => pc'[q] = pc[q]
        /\ pc[p] \in LoadPoints \cup RecoverPoints
        /\ pc'[p] \in LoadPoints \cup RecoverPoints \cup {AfterLoad(p)}
    BY DEF LoadIndex, LoadLock, LoadRead, RecoverLock, RecoverMeta,
           RecoverWrite, RecoverFlush, RecoverFails, LoadPoints, RecoverPoints
  <1>4. ASSUME NEW w \in Writer PROVE StatusOf(w)' = StatusOf(w)
    <2>1. CASE w = p
      BY <1>3, <2>1 DEF StatusOf, InFlight, EndPoints, LoadPoints,
                        RecoverPoints, AfterLoad
    <2>2. CASE w # p
      BY <1>3, <2>2 DEF StatusOf, InFlight, Proc
    <2> QED BY <2>1, <2>2
  <1> QED BY <1>1, <1>2, <1>4 DEF Invisible, Progress

\* A step of a write request moves no other request.
LEMMA ProgressOfOne ==
    ASSUME Invs, NEW w \in Writer, NEW to \in WriterPoints,
           pc' = [pc EXCEPT ![w] = to]
    PROVE  Progress' = [Progress EXCEPT ![w] = StatusOf(w)']
  <1>1. ASSUME NEW v \in Writer, v # w PROVE StatusOf(v)' = StatusOf(v)
    BY <1>1 DEF StatusOf, InFlight, Invs, BaseInv, TypeOK, Proc
  <1> QED BY <1>1 DEF Progress

LEMMA WriteImplements ==
    ASSUME Invs, NEW w \in Writer, InsertRun(w) \/ EmbedRun(w)
    PROVE  Promise!Next \/ Invisible
  <1> USE DEF Invs, BaseInv, TypeOK, StatusOf, InFlight, EndPoints, WriterPoints,
              LoadPoints, RecoverPoints, InsertPoints, Proc, histVars, GiveUp
  <1>1. CASE AcquireWrite(w)
    <2>1. Contents' = Contents
      BY <1>1, WriteKeepsContents
         DEF AcquireWrite, Rename, InsertRun, EmbedRun, Persist
    <2>2. pc' = [pc EXCEPT ![w] = "apply"] /\ UNCHANGED served
      BY <1>1 DEF AcquireWrite
    <2>3. StatusOf(w)' = StatusOf(w)
      BY <1>1, <2>2 DEF AcquireWrite
    <2> QED BY <2>1, <2>2, <2>3, ProgressOfOne DEF Invisible, Progress
  <1>2. CASE WriteMeta(w)
    <2>1. Contents' = Contents
      BY <1>2, WriteKeepsContents
         DEF WriteMeta, Rename, InsertRun, EmbedRun, Persist
    <2>2. pc' = [pc EXCEPT ![w] = "flush"] /\ UNCHANGED served
      BY <1>2 DEF WriteMeta
    <2>3. StatusOf(w)' = StatusOf(w)
      BY <1>2, <2>2 DEF WriteMeta
    <2> QED BY <2>1, <2>2, <2>3, ProgressOfOne DEF Invisible, Progress
  <1>3. CASE FlushTemp(w)
    <2>1. Contents' = Contents
      BY <1>3, WriteKeepsContents
         DEF FlushTemp, Rename, InsertRun, EmbedRun, Persist
    <2>2. pc' = [pc EXCEPT ![w] = "rename"] /\ UNCHANGED served
      BY <1>3 DEF FlushTemp
    <2>3. StatusOf(w)' = StatusOf(w)
      BY <1>3, <2>2 DEF FlushTemp
    <2> QED BY <2>1, <2>2, <2>3, ProgressOfOne DEF Invisible, Progress
  <1>4. CASE CopyReplica(w)
    <2>1. Contents' = Contents
      BY <1>4, WriteKeepsContents
         DEF CopyReplica, Rename, InsertRun, EmbedRun, Persist
    <2>2. pc' = [pc EXCEPT ![w] = "snap"] /\ UNCHANGED served
      BY <1>4 DEF CopyReplica
    <2>3. StatusOf(w)' = StatusOf(w)
      BY <1>4, <2>2 DEF CopyReplica
    <2> QED BY <2>1, <2>2, <2>3, ProgressOfOne DEF Invisible, Progress
  <1>5. CASE SnapReplica(w)
    <2>1. Contents' = Contents
      BY <1>5, WriteKeepsContents
         DEF SnapReplica, Rename, InsertRun, EmbedRun, Persist
    <2>2. pc' = [pc EXCEPT ![w] = "count"] /\ UNCHANGED served
      BY <1>5 DEF SnapReplica
    <2>3. StatusOf(w)' = StatusOf(w)
      BY <1>5, <2>2 DEF SnapReplica
    <2> QED BY <2>1, <2>2, <2>3, ProgressOfOne DEF Invisible, Progress
  <1>6. CASE ReplicaFails(w)
    <2>1. Contents' = Contents
      BY <1>6, WriteKeepsContents
         DEF ReplicaFails, Rename, InsertRun, EmbedRun, Persist
    <2>2. pc' = [pc EXCEPT ![w] = "count"] /\ UNCHANGED served
      BY <1>6 DEF ReplicaFails
    <2>3. StatusOf(w)' = StatusOf(w)
      BY <1>6, <2>2 DEF ReplicaFails
    <2> QED BY <2>1, <2>2, <2>3, ProgressOfOne DEF Invisible, Progress
  <1>7. CASE FetchFails(w)
    <2>1. Contents' = Contents
      BY <1>7, WriteKeepsContents
         DEF FetchFails, Rename, InsertRun, EmbedRun, Persist
    <2>2. pc' = [pc EXCEPT ![w] = "failed"] /\ UNCHANGED served
      BY <1>7 DEF FetchFails
    <2>3. StatusOf(w) = "pending" /\ StatusOf(w)' = "failed"
      BY <1>7, <2>2 DEF FetchFails
    <2>4. Promise!Refuse(w)
      BY <2>1, <2>2, <2>3, ProgressOfOne DEF Promise!Refuse, Progress
    <2> QED BY <2>4 DEF Promise!Next
  <1>8. CASE WriteFails(w)
    <2>1. Contents' = Contents
      BY <1>8, WriteKeepsContents
         DEF WriteFails, Rename, InsertRun, EmbedRun, Persist
    <2>2. pc' = [pc EXCEPT ![w] = "failed"] /\ UNCHANGED served
      BY <1>8 DEF WriteFails
    <2>3. StatusOf(w) = "pending" /\ StatusOf(w)' = "failed"
      BY <1>8, <2>2 DEF WriteFails
    <2>4. Promise!Refuse(w)
      BY <2>1, <2>2, <2>3, ProgressOfOne DEF Promise!Refuse, Progress
    <2> QED BY <2>4 DEF Promise!Next
  <1>9. CASE UpdateCount(w)
    <2>1. Contents' = Contents
      BY <1>9, WriteKeepsContents
         DEF UpdateCount, Rename, InsertRun, EmbedRun, Persist
    <2>2. pc' = [pc EXCEPT ![w] = "acked"] /\ UNCHANGED served
      BY <1>9 DEF UpdateCount
    <2>3. StatusOf(w) = "done" /\ StatusOf(w)' = "acked"
      BY <1>9, <2>2 DEF UpdateCount
    <2>4. Promise!Ack(w)
      BY <2>1, <2>2, <2>3, ProgressOfOne DEF Promise!Ack, Progress
    <2> QED BY <2>4 DEF Promise!Next
  <1>10. CASE CountFails(w)
    <2>1. Contents' = Contents
      BY <1>10, WriteKeepsContents
         DEF CountFails, Rename, InsertRun, EmbedRun, Persist
    <2>2. pc' = [pc EXCEPT ![w] = "acked"] /\ UNCHANGED served
      BY <1>10 DEF CountFails
    <2>3. StatusOf(w) = "done" /\ StatusOf(w)' = "acked"
      BY <1>10, <2>2 DEF CountFails
    <2>4. Promise!Ack(w)
      BY <2>1, <2>2, <2>3, ProgressOfOne DEF Promise!Ack, Progress
    <2> QED BY <2>4 DEF Promise!Next
  <1>11. CASE Begin(w)
    <2>1. Contents' = Contents
      BY <1>11, WriteKeepsContents DEF Begin, Rename, InsertRun, EmbedRun
    <2>2. PICK to \in {"ld_lock", "failed"} :
             pc' = [pc EXCEPT ![w] = to] /\ UNCHANGED served
      BY <1>11 DEF Begin
    <2>3. CASE to = "ld_lock"
      <3>1. \A v \in Writer : StatusOf(v) \notin Promise!Pending
        BY <1>11 DEF Begin, OneAtATime, Promise!Pending
      <3>2. StatusOf(w) = "new" /\ StatusOf(w)' = "pending"
        BY <1>11, <2>2, <2>3 DEF Begin
      <3>3. Promise!Submit(w)
        BY <2>1, <2>2, <2>3, <3>1, <3>2, ProgressOfOne
           DEF Promise!Submit, Progress
      <3> QED BY <3>3 DEF Promise!Next
    <2>4. CASE to = "failed"
      <3>1. StatusOf(w) = "new" /\ StatusOf(w)' = "failed"
        BY <1>11, <2>2, <2>4 DEF Begin
      <3>2. Promise!Refuse(w)
        BY <2>1, <2>2, <2>4, <3>1, ProgressOfOne DEF Promise!Refuse, Progress
      <3> QED BY <3>2 DEF Promise!Next
    <2> QED BY <2>2, <2>3, <2>4
  <1>12. CASE Apply(w)
    <2>1. Contents' = Contents
      BY <1>12, WriteKeepsContents DEF Apply, Rename, InsertRun, EmbedRun
    <2>2. PICK to \in {"meta", "failed"} :
             pc' = [pc EXCEPT ![w] = to] /\ UNCHANGED served
      BY <1>12 DEF Apply
    <2>3. CASE to = "meta"
      <3>1. StatusOf(w)' = StatusOf(w)
        BY <1>12, <2>2, <2>3 DEF Apply
      <3> QED BY <2>1, <2>2, <2>3, <3>1, ProgressOfOne DEF Invisible, Progress
    <2>4. CASE to = "failed"
      <3>1. StatusOf(w) = "pending" /\ StatusOf(w)' = "failed"
        BY <1>12, <2>2, <2>4 DEF Apply
      <3>2. Promise!Refuse(w)
        BY <2>1, <2>2, <2>4, <3>1, ProgressOfOne DEF Promise!Refuse, Progress
      <3> QED BY <3>2 DEF Promise!Next
    <2> QED BY <2>2, <2>3, <2>4
  <1>13. CASE Rename(w)
    <2>1. Contents' = Contents \cup {BatchOf[w]} /\ BatchOf[w] \notin Contents
      BY <1>13, RenameAddsBatch
    <2>2. pc' = [pc EXCEPT ![w] = "copy"] /\ UNCHANGED served
      BY <1>13 DEF Rename
    <2>3. StatusOf(w) = "pending" /\ StatusOf(w)' = "done"
      BY <1>13, <2>2 DEF Rename
    <2>4. Promise!Commit(w)
      BY <2>1, <2>2, <2>3, ProgressOfOne DEF Promise!Commit, Progress
    <2> QED BY <2>4 DEF Promise!Next
  <1>14. CASE LoadIndex(w)
    BY <1>14, LoadIsInvisible
  <1> QED BY <1>1, <1>2, <1>3, <1>4, <1>5, <1>6, <1>7, <1>8, <1>9, <1>10, <1>11,
             <1>12, <1>13, <1>14 DEF InsertRun, EmbedRun, Persist

LEMMA ReadImplements ==
    ASSUME Invs, NEW r \in Reader, ReadIndex(r)
    PROVE  Promise!Next \/ Invisible
  <1>1. Contents' = Contents
    BY ReadKeepsContents DEF Invs
  <1>2. CASE LoadIndex(r)
    BY <1>2, LoadIsInvisible DEF Proc
  <1>3. CASE ~LoadIndex(r)
    <2>1. PICK to \in ReaderPoints : pc' = [pc EXCEPT ![r] = to]
      BY <1>3 DEF ReadIndex, CheckCache, RecheckCache, ReadMeta, PutSum,
                  PutIndex, Finish, ReaderPoints, LoadPoints, Invs, BaseInv,
                  TypeOK, Proc
    <2>2. Progress' = Progress
      <3>1. ASSUME NEW w \in Writer PROVE StatusOf(w)' = StatusOf(w)
        BY <2>1 DEF StatusOf, InFlight, Invs, BaseInv, TypeOK, Proc
      <3> QED BY <3>1 DEF Progress
    <2>3. served' = served \/ served' \in SUBSET Contents
      BY <1>3 DEF ReadIndex, CheckCache, RecheckCache, ReadMeta, PutSum,
                  PutIndex, CacheValid, Answer, Finish, histVars, Invs,
                  BaseInv, TypeOK, OrderInv, Proc
    <2>4. served # Absent => served \subseteq served'
      BY ReadKeepsOrder DEF Invs
    <2>5. CASE served' = served
      BY <1>1, <2>2, <2>5 DEF Invisible
    <2>6. CASE served' \in SUBSET Contents
      <3>1. Promise!Query
        BY <1>1, <2>2, <2>4, <2>6 DEF Promise!Query, Progress
      <3> QED BY <3>1 DEF Promise!Next
    <2> QED BY <2>3, <2>5, <2>6
  <1> QED BY <1>2, <1>3

LEMMA CrashImplements ==
    ASSUME Invs, Crash
    PROVE  Promise!Restart
  <1>1. Contents' = Contents
    BY CrashKeepsContents DEF Invs
  <1>2. ASSUME NEW w \in Writer
        PROVE  StatusOf(w)' = IF StatusOf(w) \in Promise!Pending
                                THEN "lost" ELSE StatusOf(w)
    <2>1. pc'[w] = IF InFlight(w) THEN "lost" ELSE pc[w]
      BY DEF Crash, Proc
    <2>2. pc[w] \in {"copy", "snap", "count"} => InFlight(w)
      BY DEF InFlight, EndPoints
    <2> QED BY <2>1, <2>2 DEF StatusOf, InFlight, EndPoints, Promise!Pending
  <1>3. UNCHANGED served
    BY DEF Crash, histVars
  <1> QED BY <1>1, <1>2, <1>3 DEF Promise!Restart

LEMMA StepImplements ==
    Invs /\ [Next]_vars => [Promise!Next]_(Promise!vars)
  <1> SUFFICES ASSUME Invs, [Next]_vars
               PROVE  Promise!Next \/ Invisible
    BY InvisibleStutters
  <1>1. ASSUME NEW w \in Writer, InsertRun(w) \/ EmbedRun(w)
        PROVE  Promise!Next \/ Invisible
    BY <1>1, WriteImplements
  <1>2. ASSUME NEW r \in Reader, ReadIndex(r)
        PROVE  Promise!Next \/ Invisible
    BY <1>2, ReadImplements
  <1>3. CASE Evict
    BY <1>3 DEF Evict, Invisible, Progress, StatusOf, InFlight, Contents,
                Recovering, diskVars, histVars
  <1>4. CASE Crash
    BY <1>4, CrashImplements DEF Promise!Next
  <1>5. CASE UNCHANGED vars
    BY <1>5 DEF vars, Invisible, Progress, StatusOf, InFlight, Contents,
                Recovering, diskVars, histVars
  <1> QED BY <1>1, <1>2, <1>3, <1>4, <1>5
          DEF Next, QueryVector, QuerySearch, IndexByPage, Writer, Reader

LEMMA InitImplements == Init => Promise!Init
  <1> SUFFICES ASSUME Init PROVE Promise!Init
    OBVIOUS
  <1>1. PICK o \in Origins : bin = Files(o).bin /\ replica = Files(o).replica
    BY DEF Init
  <1>2. o \in {"new", "existing", "restored"}
    OBVIOUS
  <1>3. \A p \in Proc : pc[p] \in {"new", "idle"}
    BY DEF Init
  <1>4. Contents \in {{}, Seed}
    BY <1>1, <1>2, <1>3 DEF Files, Contents, Intact, Recovering
  <1>5. \A w \in Writer : StatusOf(w) = "new"
    BY DEF Init, StatusOf, InFlight, Proc
  <1>6. served = Absent
    BY DEF Init
  <1> QED BY <1>4, <1>5, <1>6 DEF Promise!Init

\* When clients write one at a time, the files, the caches, the locks and the
\* recovery of insert_run, embed_run and the three read handlers together
\* implement the promised database.
THEOREM StoreImplementsPromise == OneAtATime => (Spec => ImplementsPromise)
  <1> SUFFICES ASSUME OneAtATime PROVE Spec => ImplementsPromise
    OBVIOUS
  <1>1. BaseInv /\ DurableInv /\ OrderInv /\ [Next]_vars
          => [Promise!Next]_(Promise!vars)
    BY StepImplements DEF Invs
  <1> QED BY <1>1, InitImplements, BaseAlways, DurableAlways, OrderAlways, PTL
          DEF Spec, ImplementsPromise, Promise!Spec

===============================================================================
