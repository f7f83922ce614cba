-------------------------- MODULE LockTables_proofs --------------------------
(***************************************************************************)
(* What holds of both kinds of lock table, with any databases, requests,   *)
(* slots of the scheduler, capacity and intervals.                         *)
(*                                                                         *)
(* TaskInv   what a task knows where it is                                 *)
(* AgeInv    the keys newer than a task's have all been looked up since    *)
(* ApartInv  a lock is held by one task or by loaders                      *)
(***************************************************************************)
EXTENDS LockTables, FiniteSetTheorems, TLAPS

USE TaskAssumption, TableAssumption, IntervalAssumption

TaskInv ==
    /\ \A t \in Tasks : clone[t] # None \/ pc[t] \in {"call", "missed"} => db[t] \in Databases
    /\ \A t \in Tasks : pc[t] = "missed" => ~Evicts

AgeInv == Evicts => \A t \in Tasks : clone[t] # None => newer[db[t]] \subseteq since[t]

ApartInv ==
    \A t, u \in Tasks :
        t # u /\ pc[t] = "held" /\ pc[u] = "held" /\ clone[t] = clone[u]
        => t \in Loaders /\ u \in Loaders

TableInv == TypeOK /\ TaskInv /\ AgeInv /\ OneLock /\ ApartInv

-----------------------------------------------------------------------------
(* Types.                                                                   *)

LEMMA EntryType ==
    ASSUME TypeOK, NEW k \in Databases
    PROVE  Entry(k) \subseteq Locks
  BY DEF Entry, Fresh, TypeOK

LEMMA InitTable == Init => TableInv
  BY DEF Init, TableInv, TypeOK, TaskInv, AgeInv, OneLock, ApartInv

LEMMA LeftType ==
    ASSUME TypeOK, NEW t \in Tasks, Left(t)
    PROVE  /\ pc' \in [Tasks -> {"idle", "call", "missed", "found", "held", "end"}]
           /\ db' \in [Tasks -> Databases \cup {None}]
           /\ clone' \in [Tasks -> Locks \cup {None}]
           /\ since' \in [Tasks -> SUBSET Databases]
           /\ \A u \in Tasks : pc'[u] \in {"found", "held"} <=> clone'[u] # None
  BY DEF TypeOK, Left, Ended

LEMMA StepTypes == TypeOK /\ TaskInv /\ [Next]_vars => TypeOK'
  <1> SUFFICES ASSUME TypeOK, TaskInv, [Next]_vars PROVE TypeOK'
    OBVIOUS
  <1>1. ASSUME NEW t \in Tasks, NEW k \in Databases, LookUp(t, k) PROVE TypeOK'
    <2>1. PICK l \in Entry(k) :
            /\ Cloned(t, l)
            /\ lockOf' = [d \in Databases |->
                            IF d \in Oldest(Keys \cup {k}) THEN None
                            ELSE IF d = k THEN l ELSE lockOf[d]]
      BY <1>1 DEF LookUp
    <2>2. l \in Locks
      BY EntryType
    <2>3. lockOf' \in [Databases -> Locks \cup {None}]
      BY <2>1, <2>2 DEF TypeOK
    <2>4. newer' \in [Databases -> SUBSET Databases]
      BY <1>1 DEF LookUp, Promoted, TypeOK
    <2>5. since' \in [Tasks -> SUBSET Databases]
      BY <1>1 DEF LookUp, Aged, TypeOK
    <2>6. /\ pc' \in [Tasks -> {"idle", "call", "missed", "found", "held", "end"}]
          /\ clone' \in [Tasks -> Locks \cup {None}]
          /\ \A u \in Tasks : pc'[u] \in {"found", "held"} <=> clone'[u] # None
      BY <2>1, <2>2 DEF Cloned, TypeOK
    <2>7. db' \in [Tasks -> Databases \cup {None}]
      BY <1>1 DEF LookUp, TypeOK
    <2> QED
      BY <1>1, <2>3, <2>4, <2>5, <2>6, <2>7 DEF LookUp, scheduler, TypeOK, Tables
  <1>2. ASSUME NEW t \in Tasks, NEW k \in Databases, Get(t, k) PROVE TypeOK'
    <2>1. CASE lockOf[k] # None
      BY <1>2, <2>1 DEF Get, Cloned, content, scheduler, TypeOK
    <2>2. CASE lockOf[k] = None
      BY <1>2, <2>2 DEF Get, Call, content, scheduler, TypeOK
    <2> QED BY <2>1, <2>2
  <1>3. ASSUME NEW t \in Tasks, Create(t) PROVE TypeOK'
    <2>1. db[t] \in Databases
      BY <1>3 DEF Create, TaskInv
    <2>2. PICK l \in Entry(db[t]) : Cloned(t, l) /\ lockOf' = [lockOf EXCEPT ![db[t]] = l]
      BY <1>3 DEF Create
    <2>3. l \in Locks
      BY <2>1, EntryType
    <2> QED BY <1>3, <2>1, <2>2, <2>3 DEF Create, Cloned, scheduler, TypeOK
  <1>4. ASSUME NEW t \in Tasks, Take(t) PROVE TypeOK'
    BY <1>4 DEF Take, content, scheduler, TypeOK
  <1>5. ASSUME NEW t \in Tasks, Refuse(t) \/ Drop(t) PROVE TypeOK'
    <2>1. Left(t) /\ UNCHANGED <<table, content, scheduler, due, faults>>
      BY <1>5 DEF Refuse, Drop
    <2> QED BY <2>1, LeftType DEF content, scheduler, TypeOK
  <1>6. ASSUME NEW t \in Tasks, Release(t) PROVE TypeOK'
    <2>1. Left(t) /\ UNCHANGED <<table, content, scheduler>>
      BY <1>6 DEF Release
    <2>2. due' \in [Databases -> BOOLEAN] /\ faults' \in 0 .. MaxFaults
      <3>1. CASE BackedUp(db[t]) /\ UNCHANGED faults
        <4> DEFINE none == Interval(db[t]) < 0
        <4>1. none \in BOOLEAN
          OBVIOUS
        <4>2. due' = [due EXCEPT ![db[t]] = none]
          BY <3>1 DEF BackedUp
        <4> HIDE DEF none
        <4>3. due' \in [Databases -> BOOLEAN]
          BY <4>1, <4>2, ZenonT(30) DEF TypeOK
        <4> QED BY <3>1, <4>3 DEF TypeOK
      <3>2. CASE UNCHANGED <<due, faults>>
        BY <3>2 DEF TypeOK
      <3>3. CASE faults < MaxFaults /\ faults' = faults + 1 /\ UNCHANGED due
        BY <3>3 DEF TypeOK
      <3> QED BY <1>6, <3>1, <3>2, <3>3 DEF Release
    <2> QED BY <2>1, <2>2, LeftType DEF content, scheduler, TypeOK
  <1>7. CASE Tick
    BY <1>7 DEF Tick, content, task, TypeOK
  <1>8. CASE Cleanup
    <2>1. lockOf' \in [Databases -> Locks \cup {None}]
      BY <1>8 DEF Cleanup, TypeOK
    <2> QED BY <1>8, <2>1 DEF Cleanup, task, scheduler, TypeOK
  <1>9. ASSUME NEW d \in Databases, Probe(d) PROVE TypeOK'
    BY <1>9 DEF Probe, content, task, TypeOK
  <1>10. ASSUME NEW d \in Databases, Schedule(d) PROVE TypeOK'
    <2>1. PICK w \in Workers :
            /\ pc[w] = "idle"
            /\ pc' = [pc EXCEPT ![w] = "call"]
            /\ db' = [db EXCEPT ![w] = d]
            /\ UNCHANGED <<clone, since>>
      BY <1>10 DEF Schedule, Spawn
    <2>2. w \in Tasks
      BY DEF Tasks
    <2>3. /\ pc' \in [Tasks -> {"idle", "call", "missed", "found", "held", "end"}]
          /\ db' \in [Tasks -> Databases \cup {None}]
          /\ \A u \in Tasks : pc'[u] \in {"found", "held"} <=> clone'[u] # None
      BY <2>1, <2>2 DEF TypeOK
    <2> QED BY <1>10, <2>1, <2>3 DEF Schedule, content, TypeOK
  <1>11. ASSUME NEW d \in Databases, FallDue(d) PROVE TypeOK'
    BY <1>11 DEF FallDue, content, task, scheduler, TypeOK
  <1>12. CASE UNCHANGED vars
    BY <1>12 DEF vars, content, task, scheduler, TypeOK
  <1> QED
    BY <1>1, <1>2, <1>3, <1>4, <1>5, <1>6, <1>7, <1>8, <1>9, <1>10, <1>11, <1>12
       DEF Next, Step, Arrive, Round, Tasks

-----------------------------------------------------------------------------
(* What a step does to the tables' users.  Every step is of one of a few    *)
(* kinds; only two of them give a task a lock.                              *)

\* A task is over: it forgets its lock, and the table and the others keep theirs.
Leaves(t) == Left(t) /\ UNCHANGED <<table, content>>

\* Nothing about the table or a task with a lock changes, except that a task
\* without a lock may be set to work.
Rests ==
    /\ UNCHANGED <<table, content, clone, since>>
    /\ \A t \in Tasks :
        \/ pc'[t] = pc[t] /\ db'[t] = db[t]
        \/ clone[t] = None /\ pc'[t] = "call" /\ db'[t] \in Databases

Kinds ==
    \/ \E t \in Tasks, k \in Databases : LookUp(t, k) \/ Get(t, k)
    \/ \E t \in Tasks : Create(t) \/ Take(t) \/ Leaves(t)
    \/ Cleanup
    \/ Rests

LEMMA StepKinds == TypeOK /\ [Next]_vars => Kinds
  <1> SUFFICES ASSUME TypeOK, [Next]_vars PROVE Kinds
    OBVIOUS
  <1>1. ASSUME NEW t \in Tasks, Refuse(t) \/ Drop(t) \/ Release(t) PROVE Leaves(t)
    BY <1>1 DEF Refuse, Drop, Release, Leaves
  <1>2. ASSUME NEW d \in Databases, Schedule(d) PROVE Rests
    <2>1. PICK w \in Workers :
            /\ pc[w] = "idle"
            /\ pc' = [pc EXCEPT ![w] = "call"]
            /\ db' = [db EXCEPT ![w] = d]
            /\ UNCHANGED <<clone, since>>
      BY <1>2 DEF Schedule, Spawn
    <2>2. w \in Tasks /\ clone[w] = None
      BY <2>1 DEF TypeOK, Tasks
    <2> QED BY <1>2, <2>1, <2>2 DEF Schedule, content, Rests, TypeOK
  <1>3. Tick \/ (\E d \in Databases : Probe(d) \/ FallDue(d)) \/ UNCHANGED vars => Rests
    BY DEF Tick, Probe, FallDue, vars, content, task, Rests
  <1> QED
    BY <1>1, <1>2, <1>3 DEF Next, Step, Arrive, Round, Kinds, Tasks

-----------------------------------------------------------------------------
(* The invariants.                                                          *)

\* A key whose users have seen fewer others than the table has room for is not
\* the one that is forgotten.
LEMMA NotForgotten ==
    ASSUME TypeOK', NEW keys \in SUBSET Databases, NEW j \in Databases,
           NEW s \in SUBSET Databases, newer'[j] \subseteq s, Cardinality(s) < Capacity
    PROVE  j \notin Oldest(keys)
  <1> SUFFICES ASSUME j \in Oldest(keys) PROVE FALSE
    OBVIOUS
  <1>1. j \in keys /\ keys \ {j} \subseteq s /\ ~(Cardinality(keys) =< Capacity)
    BY DEF Oldest
  <1>2. IsFiniteSet(keys) /\ IsFiniteSet(s)
    BY FS_Subset
  <1>3. Cardinality(keys \ {j}) = Cardinality(keys) - 1
    BY <1>1, <1>2, FS_RemoveElement
  <1>4. Cardinality(keys \ {j}) =< Cardinality(s)
    BY <1>1, <1>2, FS_Subset
  <1>5. Cardinality(keys) \in Nat /\ Cardinality(s) \in Nat
    BY <1>2, FS_CardinalityType
  <1> QED BY <1>1, <1>3, <1>4, <1>5

LEMMA StepTask == TableInv /\ Kinds => TaskInv'
  <1> SUFFICES ASSUME TypeOK, TaskInv, Kinds PROVE TaskInv'
    BY DEF TableInv
  <1>1. ASSUME NEW t \in Tasks, NEW k \in Databases, LookUp(t, k) PROVE TaskInv'
    BY <1>1 DEF LookUp, Cloned, TaskInv, TypeOK, Evicts
  <1>2. ASSUME NEW t \in Tasks, NEW k \in Databases, Get(t, k) PROVE TaskInv'
    BY <1>2 DEF Get, Cloned, TaskInv, TypeOK, Evicts
  <1>3. ASSUME NEW t \in Tasks, Create(t) PROVE TaskInv'
    BY <1>3 DEF Create, Cloned, TaskInv, TypeOK, Evicts
  <1>4. ASSUME NEW t \in Tasks, Take(t) PROVE TaskInv'
    BY <1>4 DEF Take, TaskInv, TypeOK, Evicts
  <1>5. ASSUME NEW t \in Tasks, Leaves(t) PROVE TaskInv'
    BY <1>5 DEF Leaves, Left, Ended, content, TaskInv, TypeOK, Evicts
  <1>6. CASE Cleanup
    BY <1>6 DEF Cleanup, task, TaskInv, Evicts
  <1>7. CASE Rests
    BY <1>7 DEF Rests, TaskInv, Evicts
  <1> QED BY <1>1, <1>2, <1>3, <1>4, <1>5, <1>6, <1>7 DEF Kinds

LEMMA StepAge == TableInv /\ Kinds => AgeInv'
  <1> SUFFICES ASSUME TypeOK, TaskInv, AgeInv, Kinds PROVE AgeInv'
    BY DEF TableInv
  <1>1. ASSUME NEW t \in Tasks, NEW k \in Databases, LookUp(t, k) PROVE AgeInv'
    <2> SUFFICES ASSUME NEW u \in Tasks, clone'[u] # None
                 PROVE  newer'[db'[u]] \subseteq since'[u]
      BY DEF AgeInv
    <2>1. newer' = Promoted(k) /\ since' = Aged(t, k) /\ db' = [db EXCEPT ![t] = k]
      BY <1>1 DEF LookUp
    <2>2. u # t => clone[u] # None
      BY <1>1 DEF LookUp, Cloned, TypeOK
    <2>3. CASE db'[u] = k
      BY <2>1, <2>3 DEF Promoted
    <2>4. CASE db'[u] # k
      <3>1. u # t /\ db'[u] = db[u] /\ clone[u] # None
        BY <2>1, <2>2, <2>4 DEF TypeOK
      <3>2. db[u] \in Databases /\ newer[db[u]] \subseteq since[u]
        BY <1>1, <3>1 DEF TaskInv, AgeInv, LookUp
      <3>3. newer'[db[u]] = newer[db[u]] \cup {k} /\ since'[u] = since[u] \cup {k}
        BY <2>1, <2>4, <3>1, <3>2 DEF Promoted, Aged
      <3> QED BY <3>1, <3>2, <3>3
    <2> QED BY <2>3, <2>4
  <1>2. ASSUME NEW t \in Tasks, NEW k \in Databases, Get(t, k) PROVE AgeInv'
    BY <1>2 DEF Get, AgeInv, Evicts
  <1>3. ASSUME NEW t \in Tasks, Create(t) PROVE AgeInv'
    BY <1>3 DEF Create, TaskInv, AgeInv, Evicts
  <1>4. ASSUME NEW t \in Tasks, Take(t) PROVE AgeInv'
    BY <1>4 DEF Take, content, AgeInv, Evicts
  <1>5. ASSUME NEW t \in Tasks, Leaves(t) PROVE AgeInv'
    BY <1>5 DEF Leaves, Left, Ended, content, AgeInv, TypeOK, Evicts
  <1>6. CASE Cleanup
    BY <1>6 DEF Cleanup, task, AgeInv, Evicts
  <1>7. CASE Rests
    BY <1>7 DEF Rests, content, AgeInv, Evicts
  <1> QED BY <1>1, <1>2, <1>3, <1>4, <1>5, <1>6, <1>7 DEF Kinds

LEMMA StepApart == TableInv /\ Kinds => ApartInv'
  <1> SUFFICES ASSUME TypeOK, ApartInv, Kinds PROVE ApartInv'
    BY DEF TableInv
  <1>1. ASSUME NEW t \in Tasks, NEW k \in Databases, LookUp(t, k) PROVE ApartInv'
    BY <1>1 DEF LookUp, Cloned, ApartInv, TypeOK
  <1>2. ASSUME NEW t \in Tasks, NEW k \in Databases, Get(t, k) PROVE ApartInv'
    BY <1>2 DEF Get, Cloned, ApartInv, TypeOK
  <1>3. ASSUME NEW t \in Tasks, Create(t) PROVE ApartInv'
    BY <1>3 DEF Create, Cloned, ApartInv, TypeOK
  <1>4. ASSUME NEW t \in Tasks, Take(t) PROVE ApartInv'
    BY <1>4 DEF Take, Free, Holds, ApartInv, TypeOK
  <1>5. ASSUME NEW t \in Tasks, Leaves(t) PROVE ApartInv'
    BY <1>5 DEF Leaves, Left, Ended, ApartInv, TypeOK
  <1>6. CASE Cleanup
    BY <1>6 DEF Cleanup, task, ApartInv
  <1>7. CASE Rests
    BY <1>7 DEF Rests, ApartInv
  <1> QED BY <1>1, <1>2, <1>3, <1>4, <1>5, <1>6, <1>7 DEF Kinds

LEMMA StepOneLock == TableInv /\ TypeOK' /\ AgeInv' /\ Kinds => OneLock'
  <1> SUFFICES ASSUME TypeOK, TypeOK', TaskInv, AgeInv', OneLock, Kinds PROVE OneLock'
    BY DEF TableInv
  <1>1. ASSUME NEW t \in Tasks, NEW k \in Databases, LookUp(t, k) PROVE OneLock'
    <2> SUFFICES ASSUME NEW u \in Tasks, clone'[u] # None, Lasting(u)'
                 PROVE  lockOf'[db'[u]] = clone'[u]
      BY DEF OneLock
    <2> USE DEF Lasting
    <2>1. PICK l \in Entry(k) :
            /\ Cloned(t, l)
            /\ lockOf' = [d \in Databases |->
                            IF d \in Oldest(Keys \cup {k}) THEN None
                            ELSE IF d = k THEN l ELSE lockOf[d]]
      BY <1>1 DEF LookUp
    <2>2. /\ Evicts /\ Evicts' /\ db' = [db EXCEPT ![t] = k]
          /\ since' = Aged(t, k)
      BY <1>1 DEF LookUp, Evicts
    <2>3. clone' = [clone EXCEPT ![t] = l]
      BY <2>1 DEF Cloned
    <2>4. db'[u] \in Databases
      BY <2>2, <2>3 DEF TaskInv, TypeOK
    <2>5. since'[u] \in SUBSET Databases /\ newer'[db'[u]] \subseteq since'[u]
      BY <2>2 DEF AgeInv, TypeOK
    <2>6. Cardinality(since'[u]) < Capacity
      BY <2>2
    <2>7. db'[u] \notin Oldest(Keys \cup {k})
      BY <2>4, <2>5, <2>6, NotForgotten DEF Keys
    <2>8. lockOf'[db'[u]] = IF db'[u] = k THEN l ELSE lockOf[db'[u]]
      BY <2>1, <2>4, <2>7
    <2>9. u # t => clone[u] # None /\ clone'[u] = clone[u] /\ db'[u] = db[u] /\ Lasting(u)
      <3> SUFFICES ASSUME u # t PROVE clone[u] # None /\ clone'[u] = clone[u] /\ db'[u] = db[u] /\ Lasting(u)
        OBVIOUS
      <3>1. clone[u] # None /\ clone'[u] = clone[u] /\ db'[u] = db[u]
        BY <2>2, <2>3 DEF TypeOK
      <3>2. since[u] \subseteq since'[u]
        BY <2>2 DEF Aged
      <3>3. IsFiniteSet(since'[u])
        BY <2>5, FS_Subset
      <3>4. IsFiniteSet(since[u]) /\ Cardinality(since[u]) =< Cardinality(since'[u])
        BY <3>2, <3>3, FS_Subset
      <3>5. Cardinality(since[u]) \in Nat /\ Cardinality(since'[u]) \in Nat
        BY <3>3, <3>4, FS_CardinalityType
      <3> QED BY <2>6, <3>1, <3>4, <3>5
    <2>10. u # t => lockOf[db[u]] = clone[u]
      BY <2>9 DEF OneLock
    <2>11. CASE u = t
      BY <2>2, <2>3, <2>8, <2>11 DEF TypeOK
    <2>12. CASE u # t
      BY <2>8, <2>9, <2>10, <2>12 DEF Entry
    <2> QED BY <2>11, <2>12
  <1>2. ASSUME NEW t \in Tasks, NEW k \in Databases, Get(t, k) PROVE OneLock'
    BY <1>2 DEF Get, Cloned, content, OneLock, Lasting, Evicts, TypeOK
  <1>3. ASSUME NEW t \in Tasks, Create(t) PROVE OneLock'
    <2>1. PICK l \in Entry(db[t]) : Cloned(t, l) /\ lockOf' = [lockOf EXCEPT ![db[t]] = l]
      BY <1>3 DEF Create
    <2>2. db[t] \in Databases /\ ~Evicts /\ UNCHANGED <<table, db, since>>
      BY <1>3 DEF Create, TaskInv
    <2> QED BY <2>1, <2>2 DEF Cloned, Entry, OneLock, Lasting, Evicts, TaskInv, TypeOK
  <1>4. ASSUME NEW t \in Tasks, Take(t) PROVE OneLock'
    BY <1>4 DEF Take, content, OneLock, Lasting, Evicts
  <1>5. ASSUME NEW t \in Tasks, Leaves(t) PROVE OneLock'
    BY <1>5 DEF Leaves, Left, Ended, content, OneLock, Lasting, Evicts, TypeOK
  <1>6. CASE Cleanup
    BY <1>6 DEF Cleanup, Unused, task, TaskInv, OneLock, Lasting, Evicts, TypeOK
  <1>7. CASE Rests
    BY <1>7 DEF Rests, content, OneLock, Lasting, Evicts
  <1> QED BY <1>1, <1>2, <1>3, <1>4, <1>5, <1>6, <1>7 DEF Kinds

LEMMA TableInductive == TableInv /\ [Next]_vars => TableInv'
  <1> SUFFICES ASSUME TableInv, [Next]_vars PROVE TableInv'
    OBVIOUS
  <1>1. TypeOK /\ TaskInv
    BY DEF TableInv
  <1>2. Kinds /\ TypeOK'
    BY <1>1, StepKinds, StepTypes
  <1>3. AgeInv'
    BY <1>2, StepAge
  <1> QED BY <1>2, <1>3, StepTask, StepApart, StepOneLock DEF TableInv

-----------------------------------------------------------------------------
(* The theorems.                                                            *)

\* The inductive invariant holds of every behaviour.
THEOREM TableAlways == Spec => []TableInv
  BY InitTable, TableInductive, PTL DEF Spec

\* Every variable keeps its type; a task has a lock from its lookup to its end.
THEOREM TypesAlways == Spec => []TypeOK
  <1>1. TableInv => TypeOK
    BY DEF TableInv
  <1> QED BY <1>1, TableAlways, PTL

\* Whatever was created, cleaned up and forgotten meanwhile, a task's lock is the
\* one its table has for its database (get_or_create_lock,
\* cleanup_unused_locks, get_db_write_lock); in an LRU table as long as fewer
\* other databases were looked up than it has room for.
THEOREM OneLockAlways == Spec => []OneLock
  <1>1. TableInv => OneLock
    BY DEF TableInv
  <1> QED BY <1>1, TableAlways, PTL

\* So a database has one writer at a time, one load at a time, and one of
\* backup, restore and deletion at a time: two tasks that hold its lock hold the
\* same lock.
THEOREM ExclusiveAlways == Spec => []Exclusive
  <1>1. TableInv => Exclusive
    <2> SUFFICES ASSUME TypeOK, OneLock, ApartInv, NEW t \in Tasks, NEW u \in Tasks,
                        t # u, pc[t] = "held", pc[u] = "held", db[t] = db[u],
                        Lasting(t), Lasting(u)
                 PROVE  t \in Loaders /\ u \in Loaders
      BY DEF TableInv, Exclusive
    <2>1. clone[t] # None /\ clone[u] # None
      BY DEF TypeOK
    <2>2. clone[t] = clone[u]
      BY <2>1 DEF OneLock
    <2> QED BY <2>2 DEF ApartInv
  <1> QED BY <1>1, TableAlways, PTL


-----------------------------------------------------------------------------
(* A table with room for every database.                                    *)

\* What was looked up since a task's lookup is other databases.
OwnInv ==
    \A t \in Tasks : IF clone[t] = None THEN since[t] = {} ELSE db[t] \notin since[t]

LEMMA StepOwn == TableInv /\ OwnInv /\ [Next]_vars => OwnInv'
  <1> SUFFICES ASSUME TypeOK, TaskInv, OwnInv, Kinds PROVE OwnInv'
    BY StepKinds DEF TableInv
  <1>1. ASSUME NEW t \in Tasks, NEW k \in Databases, LookUp(t, k) PROVE OwnInv'
    <2>1. PICK l \in Entry(k) : clone' = [clone EXCEPT ![t] = l]
      BY <1>1 DEF LookUp, Cloned
    <2>2. since' = Aged(t, k) /\ db' = [db EXCEPT ![t] = k] /\ clone[t] = None
      BY <1>1 DEF LookUp, Call, TypeOK
    <2>3. ASSUME NEW u \in Tasks, u # t
          PROVE  IF clone'[u] = None THEN since'[u] = {} ELSE db'[u] \notin since'[u]
      BY <2>1, <2>2, <2>3 DEF Aged, OwnInv, TypeOK
    <2>4. since'[t] = {}
      BY <2>2 DEF Aged, OwnInv
    <2> QED BY <2>3, <2>4 DEF OwnInv
  <1>2. ASSUME NEW t \in Tasks, NEW k \in Databases, Get(t, k) PROVE OwnInv'
    <2>1. clone[t] = None
      BY <1>2 DEF Get, Call, TypeOK
    <2> QED BY <1>2, <2>1 DEF Get, Cloned, OwnInv, TypeOK
  <1>3. ASSUME NEW t \in Tasks, Create(t) PROVE OwnInv'
    <2>1. clone[t] = None
      BY <1>3 DEF Create, TypeOK
    <2> QED BY <1>3, <2>1 DEF Create, Cloned, OwnInv, TypeOK
  <1>4. ASSUME NEW t \in Tasks, Take(t) PROVE OwnInv'
    BY <1>4 DEF Take, OwnInv
  <1>5. ASSUME NEW t \in Tasks, Leaves(t) PROVE OwnInv'
    BY <1>5 DEF Leaves, Left, Ended, OwnInv, TypeOK
  <1>6. CASE Cleanup
    BY <1>6 DEF Cleanup, task, OwnInv
  <1>7. CASE Rests
    BY <1>7 DEF Rests, OwnInv, TypeOK
  <1> QED BY <1>1, <1>2, <1>3, <1>4, <1>5, <1>6, <1>7 DEF Kinds

\* A server with no more databases than an LRU table has room for (4096,
\* controller.rs) excludes without a condition: a task's own key leaves the table
\* only when more others than that were looked up.  One lock for a database, as
\* IndexStore has it, is then all there is to DB_WRITE_LOCKS and LOADING_LOCKS.
THEOREM RoomForAll ==
    Cardinality(Databases) =< Capacity =>
      (Spec => [](\A t, u \in Tasks :
                    /\ t # u /\ pc[t] = "held" /\ pc[u] = "held" /\ db[t] = db[u]
                    => t \in Loaders /\ u \in Loaders))
  <1> DEFINE Plain == \A t, u \in Tasks :
                        /\ t # u /\ pc[t] = "held" /\ pc[u] = "held" /\ db[t] = db[u]
                        => t \in Loaders /\ u \in Loaders
  <1> SUFFICES ASSUME Cardinality(Databases) =< Capacity
               PROVE  Spec => []Plain
    OBVIOUS
  <1>1. ASSUME TypeOK, TaskInv, OwnInv, NEW t \in Tasks, pc[t] = "held"
        PROVE  Lasting(t)
    <2>1. db[t] \in Databases /\ since[t] \subseteq Databases /\ db[t] \notin since[t]
      BY <1>1 DEF TypeOK, TaskInv, OwnInv
    <2>2. IsFiniteSet(since[t]) /\ Cardinality(since[t]) =< Cardinality(Databases)
          /\ (Cardinality(since[t]) = Cardinality(Databases) => since[t] = Databases)
      BY <2>1, FS_Subset
    <2>3. Cardinality(since[t]) \in Nat /\ Cardinality(Databases) \in Nat
      BY <2>2, FS_CardinalityType
    <2> QED BY <2>1, <2>2, <2>3 DEF Lasting
  <1>2. TableInv /\ Exclusive /\ OwnInv => Plain
    BY <1>1 DEF TableInv, Exclusive
  <1>3. Init => OwnInv
    BY DEF Init, OwnInv
  <1> HIDE DEF Plain
  <1> QED BY <1>2, <1>3, StepOwn, TableAlways, ExclusiveAlways, PTL DEF Spec

===============================================================================
