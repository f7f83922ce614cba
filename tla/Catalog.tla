------------------------------- MODULE Catalog -------------------------------
(***************************************************************************)
(* The catalog of sources and databases: the map in memory, the file it is *)
(* kept in, the directories it speaks of, and the requests that change it. *)
(*                                                                         *)
(*   SERVER_FILE, Catalog                        (core/config.rs)          *)
(*   DataStore                                   (utils/storage.rs)        *)
(*   create_new_source, create_new_database      (server/service)          *)
(*   update_node_count, touch_vector_base, the schedule after a backup     *)
(*   restore_backup, restore_database_backup     (server/service, utils)   *)
(*   init_run_server, serve_run                  (args)                    *)
(*                                                                         *)
(* SERVER_FILE is locked for writing from a request's checks to its last   *)
(* change.  A restore removes a database's directory and makes it again    *)
(* without that lock, and changes the catalog only then.  A handler whose  *)
(* client goes away is dropped where it awaits: at the lock, or while a    *)
(* directory is made or removed, which then goes on without it.  A crash   *)
(* comes between any two actions.                                          *)
(*                                                                         *)
(* Data abstraction.  A database's uuid is the request that made it; its   *)
(* node count, last use and next backup are the requests that set them,    *)
(* or None.  vector_bases is a set: the code looks entries up by name.     *)
(* One process at a time uses the file.                                    *)
(***************************************************************************)
EXTENDS Integers, FiniteSets

CONSTANTS
    Sources,      \* names of sources
    Names,        \* names of databases
    Requests,     \* the requests and commands, each sent at most once
    Intervals,    \* the backup intervals, in hours, clients ask for
    Kinds,        \* what else they do that changes the catalog
    Default,      \* default_src
    MaxCrashes,   \* bound on crashes
    MaxFaults,    \* bound on failing file operations
    None          \* no request, no database

Maker   == Requests \cup {None}
Updates == {"count", "touch", "schedule", "restore"}
Creates == {"init", "source", "database"}

\* A VectorBase, a Source, and the map of the DataStore.
Base  == [id : Maker, name : Names, count : Maker, last : Maker, next : Maker]
Entry == [known : BOOLEAN, interval : Int, bases : SUBSET Base]
Map   == [Sources -> Entry]

Unknown == [known |-> FALSE, interval |-> 0, bases |-> {}]
Empty   == [s \in Sources |-> Unknown]

Command == [kind : Creates \cup Updates, source : Sources,
            name : Names \cup {None}, interval : Int]
Answers == {"none", "created", "conflict", "nosource", "invalid", "done",
            "refused", "failed", "dropped", "lost"}

\* The directories: <<source, None>> and <<source, database>>.  What a dropped
\* handler waited for and the runtime's blocking pool has yet to do.
Dir    == Sources \X (Names \cup {None})
OnDisk == {"mkdir", "remove", "remake"}
Task   == [point : OnDisk, dir : Dir, by : Requests]

ASSUME NameAssumption ==
    /\ Default \in Sources
    /\ None \notin Names \cup Requests
    /\ Intervals \subseteq Int
    /\ Kinds \subseteq Updates

ASSUME CatalogBounds == MaxCrashes \in Nat /\ MaxFaults \in Nat

VARIABLES
    process,   \* "down", or what the process that is up was started for
    mem,       \* SERVER_FILE: the DataStore's map
    lock,      \* who holds SERVER_FILE for writing, or None
    disk,      \* SERVER_DATA.json: "absent", "whole" or "torn"
    stored,    \* what it holds when it is whole
    dirs,      \* the directories there are
    late,      \* those still being made or removed for dropped requests
    pc,        \* where each request is
    req,       \* what it asks for
    copy,      \* the clone of the source it works on
    answer,    \* what it was answered
    crashes,   \* crashes so far
    faults     \* failing file operations so far

store  == <<mem, disk, stored>>
client == <<pc, req, copy, answer>>
vars   == <<process, mem, lock, disk, stored, dirs, late, pc, req, copy,
            answer, crashes, faults>>

Path(r)      == <<req[r].source, req[r].name>>
Parents(p)   == {p, <<p[1], None>>}
Has(e, n)    == \E b \in e.bases : b.name = n

\* Where a request is while it holds SERVER_FILE, and where a restore is before
\* it asks for it.
Holding   == {"read", "insert", "write", "mkdir", "update", "rewrite"}
Restoring == {"find", "remove", "remake"}
Active    == Holding \cup Restoring \cup {"lock"}

-----------------------------------------------------------------------------
(* An installation that is new, or one an earlier process left behind.      *)

Past(n) == [id |-> None, name |-> n, count |-> None, last |-> None, next |-> None]

Left(old) == [Empty EXCEPT ![Default] =
    [known |-> TRUE, interval |-> 0, bases |-> {Past(n) : n \in old}]]

New == disk = "absent" /\ stored = Empty /\ dirs = {}

Used == \E old \in SUBSET Names :
    /\ disk = "whole"
    /\ stored = Left(old)
    /\ dirs = {<<Default, n>> : n \in old \cup {None}}

Init ==
    /\ New \/ Used
    /\ process = "down" /\ mem = Empty /\ lock = None /\ late = {}
    /\ pc = [r \in Requests |-> "idle"]
    /\ req = [r \in Requests |-> [kind |-> "init", source |-> Default,
                                  name |-> None, interval |-> 0]]
    /\ copy = [r \in Requests |-> Unknown]
    /\ answer = [r \in Requests |-> "none"]
    /\ crashes = 0 /\ faults = 0

-----------------------------------------------------------------------------
(* Requests arrive.  An interval below -1 is refused before the catalog is  *)
(* looked at; create_src has no case for that error and answers it as a     *)
(* failure of the server.                                                   *)

Commands ==
    [kind : {"source"}, source : Sources, name : {None}, interval : Intervals]
    \cup [kind : {"database"}, source : Sources, name : Names, interval : Intervals]
    \cup [kind : Kinds, source : Sources, name : Names, interval : {0}]

Refusal(c) == IF c.kind = "database" THEN "invalid" ELSE "failed"

\* A request that was not sent yet: which one it is makes no difference.
Unsent == CHOOSE r \in Requests : pc[r] = "idle"

Submit(r) ==
    /\ process = "serving" /\ pc[r] = "idle" /\ r = Unsent
    /\ \E c \in Commands :
        /\ req' = [req EXCEPT ![r] = c]
        /\ IF c.interval < -1
           THEN pc' = [pc EXCEPT ![r] = "end"] /\ answer' = [answer EXCEPT ![r] = Refusal(c)]
           ELSE /\ pc' = [pc EXCEPT ![r] = IF c.kind = "restore" THEN "find" ELSE "lock"]
                /\ UNCHANGED answer
    /\ UNCHANGED <<process, store, lock, dirs, late, copy, crashes, faults>>

\* Mutant of Free: SERVER_FILE is locked for reading where it is written.
FreeToShare == TRUE

Free == lock = None

Lock(r) ==
    /\ pc[r] = "lock" /\ Free
    /\ lock' = r
    /\ pc' = [pc EXCEPT ![r] = "read"]
    /\ UNCHANGED <<process, store, dirs, late, req, copy, answer, crashes, faults>>

\* Mutant of Released: a dropped handler leaves SERVER_FILE locked.
ReleasedByAnswer(r) == IF pc[r] = "mkdir" /\ answer'[r] = "dropped" THEN lock ELSE
                       IF lock = r THEN None ELSE lock

Released(r) == IF lock = r THEN None ELSE lock

\* The request is answered; its guard, if it has one, and its clone are dropped.
Reply(r, a) ==
    /\ pc' = [pc EXCEPT ![r] = "end"]
    /\ answer' = [answer EXCEPT ![r] = a]
    /\ copy' = [copy EXCEPT ![r] = Unknown]
    /\ lock' = Released(r)

-----------------------------------------------------------------------------
(* Under the lock: look at the catalog and clone the source to be changed.  *)

Made(r) == [id |-> r, name |-> req[r].name, count |-> None, last |-> None, next |-> None]

Known(s) == mem[s].known

\* is_source_valid
Valid(s) == mem[s].known /\ <<s, None>> \in dirs

\* Mutant of Updated: the entry is made anew instead of changed in place.
UpdatedAnew(b, r) ==
    IF req[r].kind \in {"count", "restore"}
    THEN [b EXCEPT !.count = r, !.last = r, !.next = None]
    ELSE IF req[r].kind = "touch" THEN [b EXCEPT !.last = r] ELSE [b EXCEPT !.next = r]

\* set_node_count also touches; a backup notes itself and the next one.
Updated(b, r) ==
    CASE req[r].kind \in {"count", "restore"} -> [b EXCEPT !.count = r, !.last = r]
      [] req[r].kind = "touch"               -> [b EXCEPT !.last = r]
      [] req[r].kind = "schedule"            -> [b EXCEPT !.next = r]

Changed(e, r) ==
    [e EXCEPT !.bases = {IF b.name = req[r].name THEN Updated(b, r) ELSE b : b \in @}]

Clone(r, e) ==
    /\ copy' = [copy EXCEPT ![r] = e]
    /\ pc' = [pc EXCEPT ![r] = "insert"]
    /\ UNCHANGED <<lock, answer>>

\* Source::new
NewSource == [known |-> TRUE, interval |-> 0, bases |-> {}]

ReadSource(r) ==
    /\ req[r].kind \in {"init", "source"}
    /\ IF Known(req[r].source)
       THEN Reply(r, IF req[r].kind = "init" THEN "done" ELSE "conflict")
       ELSE Clone(r, NewSource)

ReadDatabase(r) ==
    LET e == mem[req[r].source]
    IN  /\ req[r].kind = "database"
        /\ IF ~Valid(req[r].source) THEN Reply(r, "nosource")
           ELSE IF Has(e, req[r].name) THEN Reply(r, "conflict")
           ELSE Clone(r, [e EXCEPT !.bases = @ \cup {Made(r)}])

\* An entry that is not there is warned about, and that is all.
ReadUpdate(r) ==
    LET e == mem[req[r].source]
    IN  /\ req[r].kind \in Updates
        /\ IF Has(e, req[r].name) THEN Clone(r, Changed(e, r)) ELSE Reply(r, "done")

Read(r) ==
    /\ pc[r] = "read"
    /\ ReadSource(r) \/ ReadDatabase(r) \/ ReadUpdate(r)
    /\ UNCHANGED <<process, store, dirs, late, req, crashes, faults>>

-----------------------------------------------------------------------------
(* DataStore::insert: the map is changed, then the whole file is truncated  *)
(* and written again.  Either half of the writing may fail; the request     *)
(* then does, but the map keeps the change.  Those for whom the catalog is  *)
(* not the point of the request only warn.                                  *)

Fault == faults < MaxFaults /\ faults' = faults + 1

\* Mutant of SaveFailed: the error of save_to_disk is dropped.
SaveIgnored(r) ==
    /\ pc' = [pc EXCEPT ![r] = IF req[r].kind \in Creates THEN "mkdir" ELSE "end"]
    /\ UNCHANGED <<answer, lock, copy>>

Warns == {"count", "touch", "restore"}

SaveFailed(r) == Reply(r, IF req[r].kind \in Warns THEN "done" ELSE "failed")

Insert(r) ==
    /\ pc[r] \in {"insert", "update"}
    /\ mem' = [mem EXCEPT ![req[r].source] = copy[r]]
    /\ \/ /\ disk' = "torn" /\ stored' = Empty
          /\ pc' = [pc EXCEPT ![r] = IF pc[r] = "insert" THEN "write" ELSE "rewrite"]
          /\ UNCHANGED <<lock, answer, copy, faults>>
       \/ /\ Fault /\ SaveFailed(r)
          /\ UNCHANGED <<disk, stored>>
    /\ UNCHANGED <<process, dirs, late, req, crashes>>

\* Mutant of Contents: only the entry that changed is written.
ContentsOf(r) == [Empty EXCEPT ![req[r].source] = mem[req[r].source]]

Contents(r) == mem

Written(r) ==
    /\ disk' = "whole"
    /\ stored' = Contents(r)
    /\ IF pc[r] = "rewrite" THEN Reply(r, "created")
       ELSE IF req[r].kind \in Updates THEN Reply(r, "done")
       ELSE pc' = [pc EXCEPT ![r] = "mkdir"] /\ UNCHANGED <<lock, answer, copy>>
    /\ UNCHANGED faults

Write(r) ==
    /\ pc[r] \in {"write", "rewrite"}
    /\ Written(r) \/ (Fault /\ SaveFailed(r) /\ UNCHANGED <<disk, stored>>)
    /\ UNCHANGED <<process, mem, dirs, late, req, crashes>>

-----------------------------------------------------------------------------
(* create_dir_all, with the lock held.  A source's interval is set in its   *)
(* entry only after that, and saved again.                                  *)

MadeDir(r) ==
    /\ dirs' = dirs \cup Parents(Path(r))
    /\ IF req[r].kind = "database" THEN Reply(r, "created")
       ELSE /\ copy' = [copy EXCEPT ![r].interval = req[r].interval]
            /\ pc' = [pc EXCEPT ![r] = "update"]
            /\ UNCHANGED <<lock, answer>>
    /\ UNCHANGED faults

Mkdir(r) ==
    /\ pc[r] = "mkdir"
    /\ MadeDir(r) \/ (Fault /\ Reply(r, "failed") /\ UNCHANGED dirs)
    /\ UNCHANGED <<process, store, late, req, crashes>>

-----------------------------------------------------------------------------
(* restore_backup, without SERVER_FILE.  It is refused beside another one   *)
(* of its database, and where the directory is not there; beside a backup,  *)
(* too, or for want of the archive.                                         *)

\* The database's operation lock is held by a restore.
Operated(p) ==
    \E q \in Requests : /\ req[q].kind = "restore" /\ Path(q) = p
                        /\ pc[q] \in Active \ {"find"}

Find(r) ==
    /\ pc[r] = "find"
    /\ \/ /\ Path(r) \in dirs /\ ~Operated(Path(r))
          /\ pc' = [pc EXCEPT ![r] = "remove"]
          /\ UNCHANGED <<lock, copy, answer>>
       \/ Reply(r, "refused")
    /\ UNCHANGED <<process, store, dirs, late, req, crashes, faults>>

\* remove_dir_all
Remove(r) ==
    /\ pc[r] = "remove"
    /\ \/ /\ dirs' = dirs \ {Path(r)}
          /\ pc' = [pc EXCEPT ![r] = "remake"]
          /\ UNCHANGED <<lock, copy, answer, faults>>
       \/ Fault /\ Reply(r, "failed") /\ UNCHANGED dirs
    /\ UNCHANGED <<process, store, late, req, crashes>>

\* Mutant of Remade: only the directory's parent is made.
RemadeParent(r) == Parents(Path(r)) \ {Path(r)}

Remade(r) == Parents(Path(r))

\* create_dir_all, and the unpacking into it.  An archive that cannot be unpacked
\* is an error; without metadata in it, or with metadata that cannot be read, the
\* restore is done and the catalog is left alone.
Remake(r) ==
    /\ pc[r] = "remake"
    /\ \/ /\ dirs' = dirs \cup Remade(r) /\ UNCHANGED faults
          /\ \/ pc' = [pc EXCEPT ![r] = "lock"] /\ UNCHANGED <<lock, copy, answer>>
             \/ \E a \in {"done", "failed"} : Reply(r, a)
       \/ Fault /\ Reply(r, "failed") /\ UNCHANGED dirs
    /\ UNCHANGED <<process, store, late, req, crashes>>

-----------------------------------------------------------------------------
(* Handlers that are dropped.                                               *)

\* Mutant of Awaiting: the saving of the catalog becomes an await of its own.
AwaitingSave == {"lock", "find", "write"} \cup OnDisk

Awaiting == {"lock", "find"} \cup OnDisk

\* The client goes away; what the handler waited for on disk goes on.
Drop(r) ==
    /\ process = "serving" /\ pc[r] \in Awaiting
    /\ Reply(r, "dropped")
    /\ late' = IF pc[r] \in OnDisk
               THEN late \cup {[point |-> pc[r], dir |-> Path(r), by |-> r]} ELSE late
    /\ UNCHANGED <<process, store, dirs, req, crashes, faults>>

LateChange ==
    /\ \E w \in late :
        /\ late' = late \ {w}
        /\ \/ /\ dirs' = IF w.point = "remove" THEN dirs \ {w.dir}
                         ELSE dirs \cup Parents(w.dir)
             /\ UNCHANGED faults
           \/ Fault /\ UNCHANGED dirs
    /\ UNCHANGED <<process, store, lock, client, crashes>>

-----------------------------------------------------------------------------
(* Processes.  The catalog is loaded at its first use; a file that does not *)
(* parse ends the process at once.                                          *)

\* Mutant of Loaded: the file is parsed without a look whether it is there.
LoadedBlindly == IF disk = "absent" THEN [s \in {} |-> Unknown] ELSE stored

Loaded == IF disk = "absent" THEN Empty ELSE stored

Load == process = "down" /\ disk # "torn" /\ mem' = Loaded

\* The init command.
StartInit(r) ==
    /\ Load /\ pc[r] = "idle" /\ r = Unsent
    /\ process' = "init"
    /\ req' = [req EXCEPT ![r] = [kind |-> "init", source |-> Default,
                                  name |-> None, interval |-> 0]]
    /\ pc' = [pc EXCEPT ![r] = "lock"]
    /\ UNCHANGED <<lock, disk, stored, dirs, late, copy, answer, crashes, faults>>

\* The serve command: only with a source that is valid.
StartServing ==
    /\ Load
    /\ \E s \in Sources : Loaded[s].known /\ <<s, None>> \in dirs
    /\ process' = "serving"
    /\ UNCHANGED <<lock, disk, stored, dirs, late, client, crashes, faults>>

\* The command is over, or the server has drained its connections.
Exit ==
    /\ process # "down"
    /\ \A r \in Requests : pc[r] \notin Active
    /\ process' = "down" /\ mem' = Empty /\ late' = {}
    /\ UNCHANGED <<lock, disk, stored, dirs, client, crashes, faults>>

Crash ==
    /\ process # "down" /\ crashes < MaxCrashes
    /\ crashes' = crashes + 1
    /\ process' = "down" /\ mem' = Empty /\ lock' = None /\ late' = {}
    /\ pc' = [r \in Requests |-> IF pc[r] \in Active THEN "end" ELSE pc[r]]
    /\ answer' = [r \in Requests |-> IF pc[r] \in Active THEN "lost" ELSE answer[r]]
    /\ copy' = [r \in Requests |-> Unknown]
    /\ UNCHANGED <<disk, stored, dirs, req, faults>>

Step(r) ==
    \/ Lock(r) \/ Read(r) \/ Insert(r) \/ Write(r) \/ Mkdir(r)
    \/ Find(r) \/ Remove(r) \/ Remake(r)

Next ==
    \/ \E r \in Requests : Submit(r) \/ Step(r) \/ Drop(r) \/ StartInit(r)
    \/ LateChange \/ StartServing \/ Exit \/ Crash

Spec == Init /\ [][Next]_vars

\* The runtime polls a task that can go on, and tokio's lock is fair.
FairSpec == Spec /\ \A r \in Requests : WF_vars(Step(r))

-----------------------------------------------------------------------------
(* Properties.                                                              *)

\* Every variable has its type.
TypeOK ==
    /\ process \in {"down", "init", "serving"}
    /\ mem \in Map /\ stored \in Map
    /\ lock \in Maker
    /\ disk \in {"absent", "whole", "torn"}
    /\ dirs \subseteq Dir /\ late \subseteq Task
    /\ pc \in [Requests -> {"idle", "end"} \cup Active]
    /\ req \in [Requests -> Command]
    /\ copy \in [Requests -> Entry]
    /\ answer \in [Requests -> Answers]
    /\ crashes \in 0 .. MaxCrashes /\ faults \in 0 .. MaxFaults

\* The map has what r was told is there.
Kept(map, r) ==
    LET e == map[req[r].source]
    IN  /\ e.known
        /\ IF req[r].kind = "database"
           THEN \E b \in e.bases : b.id = r /\ b.name = req[r].name
           ELSE e.interval = req[r].interval

\* A restore that has removed its directory and is to make it again, or that did
\* not get to its end: it failed, was dropped or was lost in a crash.
CutShort(q) ==
    /\ req[q].kind = "restore"
    /\ pc[q] = "remake" \/ answer[q] \in {"failed", "dropped", "lost"}

DirKept(p) == p \in dirs \/ \E q \in Requests : Path(q) = p /\ CutShort(q)

\* What was acknowledged as created stays, through later requests that race with
\* it, fail or are dropped, and through crashes and restarts: its entry is in
\* memory as it was asked for while a process is up, and its directory is there,
\* unless a restore of this database is under way or was cut short
\* (restore_database_backup).  Nothing else takes a directory, and a restore that
\* ends leaves it there.
AckedUsable ==
    \A r \in Requests : answer[r] = "created" =>
        /\ DirKept(Path(r))
        /\ process # "down" => Kept(mem, r)

\* What was acknowledged is in SERVER_DATA.json whenever that file is whole,
\* also when an earlier save failed and a later one repaired the file.
AckedDurable ==
    \A r \in Requests : answer[r] = "created" /\ disk = "whole" => Kept(stored, r)

\* Of the requests that create one database, or one source, at most one is told
\* that it did: the check for a duplicate and the entry are one step to the
\* others (create_new_database, create_new_source).
OneOwner ==
    \A r, q \in Requests :
        /\ answer[r] = "created" /\ answer[q] = "created"
        /\ req[r].kind \in {"source", "database"} /\ req[q].kind = req[r].kind
        /\ Path(r) = Path(q)
        => r = q

\* A directory never comes before its catalog entry is saved, so no index can be
\* written that the catalog does not know after a restart.
DirsListed ==
    disk = "whole" => \A p \in dirs :
        stored[p[1]].known /\ (p[2] # None => Has(stored[p[1]], p[2]))

\* As long as no file operation has failed, the file holds what memory holds
\* whenever nobody has SERVER_FILE locked: being dropped leaves no difference.
FileCurrent ==
    (faults = 0 /\ lock = None /\ process # "down") => mem = Loaded

\* Who may have set a field last.
Setter(b, field) ==
    CASE field = "count" -> {"count", "restore"}
      [] field = "last"  -> {"count", "touch", "restore"}
      [] field = "next"  -> {"schedule"}

\* While a process is up no entry is lost, and a field of one changes only to
\* what the holder of the lock set it to: the clones that requests write back
\* undo nothing another request has done.
FieldsKept ==
    [][(process # "down" /\ process' # "down") =>
        \A s \in Sources : \A b \in mem[s].bases : \E c \in mem'[s].bases :
            /\ c.id = b.id /\ c.name = b.name
            /\ \A f \in {"count", "last", "next"} :
                c[f] # b[f] => c[f] = lock /\ req[lock].kind \in Setter(b, f)]_vars

\* Time and again no request is under way: each is answered, one way or the
\* other, for SERVER_FILE is given back on every path out of a request.
RequestsEnd == []<>(\A r \in Requests : pc[r] \notin Active)

===============================================================================
