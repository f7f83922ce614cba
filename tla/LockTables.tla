------------------------------ MODULE LockTables ------------------------------
(***************************************************************************)
(* How a lock is found: the tables that map a database to its lock, and    *)
(* the tasks that look their lock up, take it and give it back.            *)
(*                                                                         *)
(*   DB_WRITE_LOCKS, LOADING_LOCKS              (server/controller.rs)     *)
(*   BackupState, run_scheduled_backups         (service/backup.rs)        *)
(*                                                                         *)
(* The locks of DB_WRITE_LOCKS and LOADING_LOCKS are waited for.  Those    *)
(* tables forget the key that was looked up least recently, also when its  *)
(* lock is in use.  The locks of op_locks are tried once; the table grows  *)
(* until the backup scheduler removes what nobody uses.                    *)
(*                                                                         *)
(* The tables share nothing, so a behaviour is about one of them, and      *)
(* LOADING_LOCKS is DB_WRITE_LOCKS without readers.  A task holds a clone  *)
(* of the Arc from its lookup to its end.  Time is abstract: a backup      *)
(* falls due some time after the last one.                                 *)
(***************************************************************************)
EXTENDS Integers, FiniteSets

CONSTANTS
    Databases,  \* the keys
    Writers,    \* requests that take a lock of an LRU table, each sent once
    Loaders,    \* requests that share one (load_index_from_database)
    Operators,  \* backup, restore and delete requests, each sent once
    Workers,    \* slots for the backup tasks the scheduler spawns
    Locks,      \* the locks' addresses; a freed one is used again
    Capacity,   \* of the two LRU tables: 4096
    SourceInterval, BaseInterval,  \* backup_interval_hours, of the source and
                                   \* of the database: 0 inherits, -1 is never
    DefaultInterval,               \* default_interval_hours
    MaxFaults,  \* bound on failing backups
    None

Clients == Writers \cup Loaders \cup Operators
Tasks   == Clients \cup Workers

ASSUME TaskAssumption ==
    /\ Clients \cap Workers = {}
    /\ Operators \cap (Writers \cup Loaders) = {} /\ Writers \cap Loaders = {}
    /\ Locks \subseteq Nat /\ None \notin Locks

ASSUME TableAssumption ==
    /\ IsFiniteSet(Databases) /\ None \notin Databases
    /\ Capacity \in Nat \ {0}
    /\ MaxFaults \in Nat

ASSUME IntervalAssumption ==
    /\ SourceInterval \in [Databases -> Int] /\ BaseInterval \in [Databases -> Int]
    /\ DefaultInterval \in Nat \ {0}

VARIABLES
    table,   \* the table this behaviour is about
    lockOf,  \* the lock of each key it has
    newer,   \* the keys looked up since each key last was
    pc,      \* where each task is
    db,      \* the database it wants the lock of
    clone,   \* the lock it looked up
    since,   \* the other keys looked up since its own lookup
    \* The backup scheduler
    queue,   \* databases of the current round it has yet to look at
    probed,  \* the database whose lock it is testing
    due,     \* will_backup_at is past, or not set
    faults   \* failed backups so far

content   == <<lockOf, newer>>
task      == <<pc, db, clone, since>>
scheduler == <<queue, probed>>
vars      == <<table, content, task, scheduler, due, faults>>

Tables  == {"op_locks", "DB_WRITE_LOCKS"}
Evicts  == table # "op_locks"
Keys    == {d \in Databases : lockOf[d] # None}

Init ==
    /\ table \in Tables
    /\ lockOf = [d \in Databases |-> None]
    /\ newer = [d \in Databases |-> {}]
    /\ pc = [t \in Tasks |-> "idle"]
    /\ db = [t \in Tasks |-> None]
    /\ clone = [t \in Tasks |-> None]
    /\ since = [t \in Tasks |-> {}]
    /\ queue = {} /\ probed = None
    /\ due = [d \in Databases |-> TRUE]
    /\ faults = 0

\* A new Arc: the allocator takes the lowest address that is free.
InUse == {lockOf[d] : d \in Keys} \cup {clone[t] : t \in Tasks}
Fresh == {l \in Locks \ InUse : \A m \in Locks \ InUse : l =< m}

-----------------------------------------------------------------------------
(* A request begins with the lookup.                                        *)

Callers == IF Evicts THEN Writers \cup Loaders ELSE Operators

Call(t, k) ==
    \/ t \in Callers /\ pc[t] = "idle"
    \/ t \in Workers /\ pc[t] = "call" /\ k = db[t]

Cloned(t, l) ==
    /\ clone' = [clone EXCEPT ![t] = l]
    /\ pc' = [pc EXCEPT ![t] = "found"]

-----------------------------------------------------------------------------
(* get_or_insert_mut of the LRU tables, with the table locked.              *)

\* Mutant of Entry: a key that is there gets a new lock.
EntryReplaced(d) == Fresh

Entry(d) == IF lockOf[d] # None THEN {lockOf[d]} ELSE Fresh

\* Mutant of Promoted: a hit does not make the key the most recent one.
PromotedOnce(k) ==
    IF lockOf[k] # None THEN newer
    ELSE [j \in Databases |-> IF j = k THEN {} ELSE newer[j] \cup {k}]

Promoted(k) ==
    [j \in Databases |-> IF j = k THEN {} ELSE newer[j] \cup {k}]

\* The least recent of the keys, once there are too many of them.
Oldest(keys) ==
    IF Cardinality(keys) =< Capacity THEN {}
    ELSE {k \in keys : keys \ {k} \subseteq newer'[k]}

\* The task's key is looked up, and the others grow older for their users.
Aged(t, k) ==
    [u \in Tasks |-> IF u # t /\ clone[u] # None /\ db[u] # k THEN since[u] \cup {k}
                     ELSE since[u]]

LookUp(t, k) ==
    /\ Evicts /\ Call(t, k)
    /\ db' = [db EXCEPT ![t] = k]
    /\ newer' = Promoted(k)
    /\ since' = Aged(t, k)
    /\ \E l \in Entry(k) :
        /\ Cloned(t, l)
        /\ lockOf' = [d \in Databases |->
                        IF d \in Oldest(Keys \cup {k}) THEN None
                        ELSE IF d = k THEN l ELSE lockOf[d]]
    /\ UNCHANGED <<table, scheduler, due, faults>>

-----------------------------------------------------------------------------
(* get_or_create_lock: a look under the table's read lock, then another     *)
(* under its write lock.  The scheduler's test holds the read lock.         *)

Get(t, k) ==
    /\ ~Evicts /\ Call(t, k)
    /\ db' = [db EXCEPT ![t] = k]
    /\ IF lockOf[k] # None THEN Cloned(t, lockOf[k])
       ELSE pc' = [pc EXCEPT ![t] = "missed"] /\ UNCHANGED clone
    /\ UNCHANGED <<table, content, since, scheduler, due, faults>>

Create(t) ==
    /\ pc[t] = "missed" /\ probed = None
    /\ \E l \in Entry(db[t]) :
        /\ Cloned(t, l)
        /\ lockOf' = [lockOf EXCEPT ![db[t]] = l]
    /\ UNCHANGED <<table, newer, db, since, scheduler, due, faults>>

-----------------------------------------------------------------------------
(* Taking the lock and giving it back.                                      *)

Holds(t, l) == pc[t] = "held" /\ clone[t] = l

\* The lock admits one writer, or any number of readers.
Free(l, sharing) ==
    /\ \A t \in Tasks : Holds(t, l) => sharing /\ t \in Loaders
    /\ probed # None => lockOf[probed] # l

Take(t) ==
    /\ pc[t] = "found" /\ Free(clone[t], t \in Loaders)
    /\ pc' = [pc EXCEPT ![t] = "held"]
    /\ UNCHANGED <<table, content, db, clone, since, scheduler, due, faults>>

\* Mutant of Ended: the guard outlives the operation.
EndedLocked(t) ==
    /\ pc' = [pc EXCEPT ![t] = IF pc[t] = "held" THEN "held" ELSE "end"]
    /\ UNCHANGED <<clone, since>>

\* Mutant of Ended: the clone outlives the operation.
EndedWithClone(t) ==
    /\ pc' = [pc EXCEPT ![t] = IF t \in Workers THEN "idle" ELSE "end"]
    /\ UNCHANGED <<clone, since>>

\* Its guard and its clone are dropped; a worker's slot can be used again.
Ended(t) ==
    /\ pc' = [pc EXCEPT ![t] = IF t \in Workers THEN "idle" ELSE "end"]
    /\ clone' = [clone EXCEPT ![t] = None]
    /\ since' = [since EXCEPT ![t] = {}]

Left(t) == Ended(t) /\ db' = [db EXCEPT ![t] = None]

\* try_acquire_op_lock finds the lock taken, perhaps by the scheduler's test.
Refuse(t) ==
    /\ ~Evicts /\ pc[t] = "found" /\ ~Free(clone[t], t \in Loaders)
    /\ Left(t)
    /\ UNCHANGED <<table, content, scheduler, due, faults>>

\* The client of a handler that awaits something goes away: the lock, or, with the
\* lock held, its work.  The guard goes with the handler; blocking work it has
\* spawned does not (create_multi_file_backup, restore_database_backup).
Drop(t) ==
    /\ t \in Clients /\ pc[t] \in {"missed", "found", "held"} /\ (pc[t] = "found" => Evicts)
    /\ Left(t)
    /\ UNCHANGED <<table, content, scheduler, due, faults>>

\* get_effective_interval_hours
Interval(d) ==
    LET source == IF SourceInterval[d] = 0 THEN DefaultInterval ELSE SourceInterval[d]
    IN  IF BaseInterval[d] = 0 THEN source ELSE BaseInterval[d]

\* A backup is done: the next is due in as many hours as the interval says, and
\* where there is to be none, an hour ago.
BackedUp(d) == due' = [due EXCEPT ![d] = Interval(d) < 0]

\* A backup that fails leaves its database due.  Other operations and users of
\* the other tables do not touch the schedule.
Release(t) ==
    /\ pc[t] = "held"
    /\ \/ ~Evicts /\ BackedUp(db[t]) /\ UNCHANGED faults
       \/ t \in Clients /\ UNCHANGED <<due, faults>>
       \/ t \in Workers /\ faults < MaxFaults /\ faults' = faults + 1 /\ UNCHANGED due
    /\ Left(t)
    /\ UNCHANGED <<table, content, scheduler>>

-----------------------------------------------------------------------------
(* The scheduler.  Rounds are five minutes apart: a task it spawns has made *)
(* its one attempt at the lock by the next round.                           *)

Resting == ~Evicts /\ queue = {} /\ probed = None

Tick ==
    /\ Resting
    /\ \A w \in Workers : pc[w] \in {"idle", "held"}
    /\ queue' = {d \in Databases : Interval(d) # -1 /\ due[d]}
    /\ UNCHANGED <<table, content, task, probed, due, faults>>

\* Mutant of Unused: a clone a task holds outside the table is not counted.
UnusedHere(l) == \A t \in Tasks : ~Holds(t, l)

\* Its strong_count is 1, and then nobody can have it locked.
Unused(l) == \A t \in Tasks : clone[t] # l

\* cleanup_unused_locks, before every hundredth round.
Cleanup ==
    /\ Resting
    /\ lockOf' = [d \in Databases |-> IF Unused(lockOf[d]) THEN None ELSE lockOf[d]]
    /\ UNCHANGED <<table, newer, task, scheduler, due, faults>>

Spawn(d) ==
    \E w \in Workers :
        /\ pc[w] = "idle"
        /\ pc' = [pc EXCEPT ![w] = "call"]
        /\ db' = [db EXCEPT ![w] = d]
        /\ UNCHANGED <<clone, since>>

\* is_operation_in_progress: the test takes the lock for an instant.
Probe(d) ==
    /\ d \in queue /\ probed = None /\ lockOf[d] # None
    /\ IF Free(lockOf[d], FALSE) THEN probed' = d /\ UNCHANGED queue
       ELSE queue' = queue \ {d} /\ UNCHANGED probed
    /\ UNCHANGED <<table, content, task, due, faults>>

\* Not in progress: without a lock, or with one the test could take.
Schedule(d) ==
    /\ d \in queue
    /\ probed = d \/ (probed = None /\ lockOf[d] = None)
    /\ Spawn(d)
    /\ queue' = queue \ {d} /\ probed' = None
    /\ UNCHANGED <<table, content, due, faults>>

\* Hours pass.
FallDue(d) ==
    /\ ~Evicts /\ ~due[d]
    /\ due' = [due EXCEPT ![d] = TRUE]
    /\ UNCHANGED <<table, content, task, scheduler, faults>>

Step(t) ==
    \/ t \in Workers /\ \E d \in Databases : Get(t, d)
    \/ Create(t) \/ Take(t) \/ Refuse(t) \/ Release(t)

Arrive(t) == \E d \in Databases : LookUp(t, d) \/ Get(t, d)

Round == Tick \/ \E d \in Databases : Probe(d) \/ Schedule(d)

Next ==
    \/ \E t \in Tasks : Step(t) \/ Drop(t)
    \/ \E t \in Clients : Arrive(t)
    \/ Round
    \/ Cleanup
    \/ \E d \in Databases : FallDue(d)

Spec == Init /\ [][Next]_vars

\* Tasks that can run are run, the scheduler ticks, and who waits to write under
\* the table's lock is served in turn with its readers: tokio's lock is fair.
FairSpec ==
    /\ Spec
    /\ WF_vars(Round)
    /\ \A t \in Tasks : WF_vars(Step(t))
    /\ \A t \in Operators : SF_vars(Create(t))

-----------------------------------------------------------------------------
(* Properties.                                                              *)

\* Every variable has its type, and a task that has looked its lock up has one.
TypeOK ==
    /\ table \in Tables
    /\ lockOf \in [Databases -> Locks \cup {None}]
    /\ newer \in [Databases -> SUBSET Databases]
    /\ pc \in [Tasks -> {"idle", "call", "missed", "found", "held", "end"}]
    /\ db \in [Tasks -> Databases \cup {None}]
    /\ clone \in [Tasks -> Locks \cup {None}]
    /\ since \in [Tasks -> SUBSET Databases]
    /\ queue \subseteq Databases /\ probed \in Databases \cup {None}
    /\ due \in [Databases -> BOOLEAN]
    /\ faults \in 0 .. MaxFaults
    /\ \A t \in Tasks : pc[t] \in {"found", "held"} <=> clone[t] # None

\* Whether the table can be relied on: an LRU table keeps a key until as many
\* others as it has room for have been looked up.
Lasting(t) == Evicts => Cardinality(since[t]) < Capacity

\* A task's clone is the lock its table has for its database: no other task can
\* find another one, neither after a miss (get_or_create_lock) nor after a
\* cleanup (cleanup_unused_locks), nor while the LRU table has had room.
OneLock ==
    \A t \in Tasks : clone[t] # None /\ Lasting(t) => lockOf[db[t]] = clone[t]

\* A database has one backup, restore or deletion at a time, one write at a time
\* ("this ensures only one write operation per database at a time",
\* service/indexer.rs:133), and one load at a time; the LRU tables see to it only
\* while fewer other databases than their capacity are looked up meanwhile.
Exclusive ==
    \A t, u \in Tasks :
        /\ t # u /\ pc[t] = "held" /\ pc[u] = "held" /\ db[t] = db[u]
        /\ Lasting(t) /\ Lasting(u)
        => t \in Loaders /\ u \in Loaders

\* A database whose backup is due gets one in the end, however often rounds skip
\* it because an operation runs, requests take its lock first, and backups fail.
DueBackedUp ==
    ~Evicts => \A d \in Databases : Interval(d) > 0 => []<> ~due[d]

\* Time and again no request is under way: nobody waits forever for the lock it
\* has looked up.
CallsEnd == []<>(\A t \in Clients : pc[t] \in {"idle", "end"})

===============================================================================
