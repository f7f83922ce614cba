---------------------------- MODULE Catalog_proofs ----------------------------
(***************************************************************************)
(* What holds of every catalog: any sources, databases and requests, any   *)
(* interleaving of them, any number of crashes and failing file            *)
(* operations, any databases an earlier process left behind.               *)
(*                                                                         *)
(* FrameInv   types, who holds SERVER_FILE, what a request is for          *)
(* LateInv    what is still removed is so for a restore that was dropped   *)
(* WorkInv    what the request that holds it has found and done so far     *)
(* ListInv    what has a directory has an entry, in memory and in the file *)
(***************************************************************************)
EXTENDS Catalog, TLAPS

USE NameAssumption, CatalogBounds

Sourcely(r) == req[r].kind \in {"init", "source"}

\* A request names a database unless it makes a source.
RequestInv ==
    \A r \in Requests : IF Sourcely(r) THEN req[r].name = None ELSE req[r].name \in Names

\* The lock is held by the request that is where locks are held, and nothing is
\* under way while no process is up.
GuardInv ==
    /\ \A r \in Requests : pc[r] \in Holding <=> lock = r
    /\ process = "down" =>
          lock = None /\ late = {} /\ \A r \in Requests : pc[r] \notin Active

\* Which requests get where, and which are answered so.
PlaceInv ==
    \A r \in Requests :
        /\ pc[r] \in {"mkdir", "update", "rewrite"} => req[r].kind \in Creates
        /\ pc[r] \in {"update", "rewrite"} => Sourcely(r)
        /\ pc[r] \in Restoring => req[r].kind = "restore"
        /\ answer[r] # "none" => pc[r] = "end"
        /\ answer[r] = "created" => req[r].kind \in Creates

FrameInv == TypeOK /\ RequestInv /\ GuardInv /\ PlaceInv

\* A directory that is still being removed is that of a restore that was dropped.
LateInv ==
    \A w \in late : w.point = "remove" =>
        req[w.by].kind = "restore" /\ Path(w.by) = w.dir /\ answer[w.by] = "dropped"

\* The directories there are, and those that a handler or what is left of one is
\* to make, or has removed and is to make again.
Underway == {r \in Requests : pc[r] \in {"remove", "remake"}}

Places == dirs \cup {w.dir : w \in late} \cup {Path(r) : r \in Underway}

\* Past its checks, where its entry is changed and saved.
Changing == Holding \ {"read"}

Acked == {r \in Requests : answer[r] = "created"}

\* The entry c follows b by what q changes in it.
Follows(b, c, q) ==
    /\ c.id = b.id /\ c.name = b.name
    /\ \A f \in {"count", "last", "next"} :
        c[f] # b[f] => c[f] = q /\ req[q].kind \in Setter(b, f)

\* A source in the making: nobody was told of it, and its directory comes first.
SourceWork(q) ==
    LET s == req[q].source
    IN  /\ copy[q].bases = {} /\ mem[s].bases = {}
        /\ \A r \in Acked : req[r].source # s
        /\ \A p \in Places :
              p[1] = s => pc[q] \in {"update", "rewrite"} /\ p[2] = None
        /\ pc[q] \in {"update", "rewrite"} =>
              Path(q) \in dirs /\ copy[q].interval = req[q].interval

\* A database in the making: it is in the clone, and nobody was told of it.
DatabaseWork(q) ==
    /\ \E b \in copy[q].bases : b.id = q /\ b.name = req[q].name
    /\ \A r \in Acked : req[r].kind = "database" => Path(r) # Path(q)

\* The clone is what memory and the file are made to hold.
CloneWork(q) ==
    LET s == req[q].source
    IN  /\ copy[q].known
        /\ pc[q] \in {"write", "mkdir", "rewrite"} => mem[s] = copy[q]
        /\ pc[q] \in {"mkdir", "update"} => disk = "whole" /\ stored = mem
        /\ pc[q] \in {"write", "rewrite"} => disk = "torn"
        /\ pc[q] = "insert" /\ ~Sourcely(q) =>
              /\ copy[q].interval = mem[s].interval
              /\ \A b \in mem[s].bases : \E c \in copy[q].bases : Follows(b, c, q)

Work(q) ==
    /\ CloneWork(q)
    /\ Sourcely(q) => SourceWork(q)
    /\ req[q].kind = "database" => DatabaseWork(q)

WorkInv == \A q \in Requests : pc[q] \in Changing => Work(q)

Listed(map, p) == map[p[1]].known /\ (p[2] # None => Has(map[p[1]], p[2]))

ListInv ==
    /\ disk = "absent" => Acked = {} /\ Places = {}
    /\ disk = "whole" => \A p \in Places : Listed(stored, p)
    /\ process # "down" => \A p \in Places : Listed(mem, p)

\* A source the map does not have has no databases.
BareInv ==
    \A s \in Sources : /\ ~mem[s].known => mem[s].bases = {}
                       /\ ~stored[s].known => stored[s].bases = {}

CatalogInv ==
    FrameInv /\ LateInv /\ WorkInv /\ ListInv /\ BareInv /\ AckedUsable /\ AckedDurable /\ OneOwner

-----------------------------------------------------------------------------
(* Types.                                                                   *)

\* A request that is done for leaves types as they are.
LEMMA ReplyType ==
    ASSUME TypeOK, NEW r \in Requests, NEW a \in Answers, Reply(r, a)
    PROVE  /\ pc' \in [Requests -> {"idle", "end"} \cup Active]
           /\ answer' \in [Requests -> Answers]
           /\ copy' \in [Requests -> Entry]
           /\ lock' \in Maker
  <1>1. Unknown \in Entry
    BY DEF Unknown, Entry
  <1> QED BY <1>1 DEF Reply, Released, TypeOK, Maker

LEMMA UpdatedType ==
    ASSUME TypeOK, NEW r \in Requests, NEW b \in Base, req[r].kind \in Updates
    PROVE  Updated(b, r) \in Base
  <1>1. r \in Maker
    BY DEF Maker
  <1>2. CASE req[r].kind \in {"count", "restore"}
    BY <1>1, <1>2 DEF Updated, Base
  <1>3. CASE req[r].kind = "touch"
    BY <1>1, <1>3 DEF Updated, Base
  <1>4. CASE req[r].kind = "schedule"
    BY <1>1, <1>4 DEF Updated, Base
  <1> QED BY <1>2, <1>3, <1>4 DEF Updates

LEMMA ChangedType ==
    ASSUME TypeOK, NEW r \in Requests, NEW e \in Entry, req[r].kind \in Updates
    PROVE  Changed(e, r) \in Entry
  <1> DEFINE bases == {IF b.name = req[r].name THEN Updated(b, r) ELSE b : b \in e.bases}
  <1>1. \A b \in e.bases : b \in Base
    BY DEF Entry
  <1>2. bases \subseteq Base
    BY <1>1, UpdatedType
  <1>3. Changed(e, r) = [e EXCEPT !.bases = bases]
    BY DEF Changed
  <1> HIDE DEF bases
  <1> QED BY <1>2, <1>3 DEF Entry

LEMMA LoadedType ==
    ASSUME TypeOK
    PROVE  Empty \in Map /\ Loaded \in Map
  BY DEF TypeOK, Loaded, Empty, Unknown, Map, Entry

LEMMA InitTypes == Init => TypeOK
  <1> SUFFICES ASSUME Init PROVE TypeOK
    OBVIOUS
  <1>1. Unknown \in Entry /\ Empty \in Map
    BY DEF Unknown, Entry, Empty, Map
  <1>2. \A n \in Names : Past(n) \in Base
    BY DEF Past, Base, Maker
  <1>3. stored \in Map /\ disk \in {"absent", "whole", "torn"}
        /\ dirs \subseteq Dir
    <2>1. CASE New
      BY <1>1, <2>1 DEF New
    <2>2. CASE Used
      <3>1. PICK old \in SUBSET Names :
              /\ disk = "whole"
              /\ stored = Left(old)
              /\ dirs = {<<Default, n>> : n \in old \cup {None}}
        BY <2>2 DEF Used
      <3>2. [known |-> TRUE, interval |-> 0, bases |-> {Past(n) : n \in old}] \in Entry
        BY <1>2 DEF Entry
      <3>3. stored \in Map
        BY <1>1, <3>1, <3>2 DEF Left, Map
      <3> QED BY <3>1, <3>3 DEF Dir
    <2> QED BY <2>1, <2>2 DEF Init
  <1>4. req \in [Requests -> Command]
    BY DEF Init, Command, Creates
  <1> QED BY <1>1, <1>3, <1>4 DEF Init, TypeOK, Maker, Answers

\* The next state's request is a command, and names what it should.
LEMMA SubmitFrame ==
    ASSUME FrameInv, NEW r \in Requests, Submit(r)
    PROVE  TypeOK' /\ RequestInv' /\ PlaceInv'
  <1>1. PICK c \in Commands :
          /\ req' = [req EXCEPT ![r] = c]
          /\ IF c.interval < -1
             THEN pc' = [pc EXCEPT ![r] = "end"] /\ answer' = [answer EXCEPT ![r] = Refusal(c)]
             ELSE /\ pc' = [pc EXCEPT ![r] = IF c.kind = "restore" THEN "find" ELSE "lock"]
                  /\ UNCHANGED answer
    BY DEF Submit
  <1>2. /\ c \in Command
        /\ IF c.kind \in {"init", "source"} THEN c.name = None ELSE c.name \in Names
    <2>1. CASE c \in [kind : {"source"}, source : Sources, name : {None}, interval : Intervals]
      BY <2>1 DEF Command, Creates
    <2>2. CASE c \in [kind : {"database"}, source : Sources, name : Names, interval : Intervals]
      BY <2>2 DEF Command, Creates
    <2>3. CASE c \in [kind : Kinds, source : Sources, name : Names, interval : {0}]
      <3>1. c.kind \in Updates /\ c.source \in Sources /\ c.name \in Names /\ c.interval = 0
        BY <2>3
      <3>2. c = [kind |-> c.kind, source |-> c.source, name |-> c.name, interval |-> c.interval]
        BY <2>3
      <3>3. c.kind \notin {"init", "source"}
        BY <3>1 DEF Updates
      <3> QED BY <3>1, <3>2, <3>3 DEF Command
    <2> QED BY <2>1, <2>2, <2>3 DEF Commands
  <1>3. Refusal(c) \in Answers \ {"created", "none"}
    BY DEF Refusal, Answers
  <1>4. TypeOK'
    <2>1. req' \in [Requests -> Command]
      BY <1>1, <1>2 DEF FrameInv, TypeOK
    <2>2. pc' \in [Requests -> {"idle", "end"} \cup Active] /\ answer' \in [Requests -> Answers]
      BY <1>1, <1>3 DEF FrameInv, TypeOK, Active, Restoring
    <2>3. UNCHANGED <<process, store, lock, dirs, late, copy, crashes, faults>>
      BY DEF Submit
    <2> QED BY <2>1, <2>2, <2>3 DEF store, FrameInv, TypeOK
  <1>5. RequestInv'
    BY <1>1, <1>2 DEF FrameInv, TypeOK, RequestInv, Sourcely
  <1>6. PlaceInv'
    <2> SUFFICES ASSUME NEW q \in Requests
                 PROVE  /\ pc'[q] \in {"mkdir", "update", "rewrite"} => req'[q].kind \in Creates
                        /\ pc'[q] \in {"update", "rewrite"} => Sourcely(q)'
                        /\ pc'[q] \in Restoring => req'[q].kind = "restore"
                        /\ answer'[q] # "none" => pc'[q] = "end"
                        /\ answer'[q] = "created" => req'[q].kind \in Creates
      BY DEF PlaceInv
    <2>1. pc[r] = "idle"
      BY DEF Submit
    <2>2. answer[r] = "none"
      BY <2>1 DEF FrameInv, PlaceInv
    <2>3. CASE q = r
      BY <1>1, <1>3, <2>2, <2>3 DEF FrameInv, TypeOK, Restoring
    <2>4. CASE q # r
      BY <1>1, <2>4 DEF FrameInv, TypeOK, PlaceInv, Sourcely
    <2> QED BY <2>3, <2>4
  <1> QED BY <1>4, <1>5, <1>6

\* A reply that is not that something was created, or that comes from a request
\* for its creation.
LEMMA ReplyPlace ==
    ASSUME FrameInv, NEW r \in Requests, NEW a \in Answers, Reply(r, a), UNCHANGED req,
           a = "created" => req[r].kind \in Creates
    PROVE  PlaceInv'
  BY DEF Reply, FrameInv, TypeOK, PlaceInv, Sourcely, Restoring

\* Going on to another place.
LEMMA GoPlace ==
    ASSUME FrameInv, NEW r \in Requests, NEW p \in Active, pc[r] # "end",
           pc' = [pc EXCEPT ![r] = p], UNCHANGED <<req, answer>>,
           p \in Restoring => req[r].kind = "restore",
           p \in {"mkdir", "update", "rewrite"} => req[r].kind \in Creates,
           p \in {"update", "rewrite"} => Sourcely(r)
    PROVE  PlaceInv'
  BY DEF FrameInv, TypeOK, PlaceInv, Sourcely

LEMMA ReadFrame ==
    ASSUME FrameInv, NEW r \in Requests, Read(r)
    PROVE  TypeOK' /\ PlaceInv'
  <1>1. /\ pc[r] = "read"
        /\ UNCHANGED <<process, store, dirs, late, req, crashes, faults>>
    BY DEF Read
  <1>2. ASSUME NEW a \in Answers, Reply(r, a), a # "created"
        PROVE  TypeOK' /\ PlaceInv'
    <2>1. TypeOK'
      BY <1>1, <1>2, ReplyType DEF FrameInv, store, TypeOK
    <2> QED BY <1>1, <1>2, <2>1, ReplyPlace
  <1>3. ASSUME NEW e \in Entry, Clone(r, e)
        PROVE  TypeOK' /\ PlaceInv'
    <2>1. TypeOK'
      BY <1>1, <1>3 DEF Clone, store, FrameInv, TypeOK, Active, Holding
    <2> QED BY <1>1, <1>3, <2>1, GoPlace DEF Clone, Active, Holding, Restoring
  <1>4. req[r].source \in Sources /\ mem[req[r].source] \in Entry
    BY DEF FrameInv, TypeOK, Command, Map
  <1>5. CASE ReadSource(r)
    <2>1. NewSource \in Entry
      BY DEF NewSource, Entry
    <2> QED BY <1>2, <1>3, <1>5, <2>1 DEF ReadSource, Answers
  <1>6. CASE ReadDatabase(r)
    <2>1. Made(r) \in Base
      BY <1>6 DEF ReadDatabase, FrameInv, RequestInv, Sourcely, Made, Base, Maker
    <2>2. [mem[req[r].source] EXCEPT !.bases = @ \cup {Made(r)}] \in Entry
      BY <1>4, <2>1 DEF Entry
    <2> QED BY <1>2, <1>3, <1>6, <2>2 DEF ReadDatabase, Answers
  <1>7. CASE ReadUpdate(r)
    <2>1. Changed(mem[req[r].source], r) \in Entry
      BY <1>4, <1>7, ChangedType DEF ReadUpdate, FrameInv
    <2> QED BY <1>2, <1>3, <1>7, <2>1 DEF ReadUpdate, Answers
  <1> QED BY <1>5, <1>6, <1>7 DEF Read

LEMMA InsertFrame ==
    ASSUME FrameInv, NEW r \in Requests, Insert(r)
    PROVE  TypeOK' /\ PlaceInv'
  <1>1. /\ pc[r] \in {"insert", "update"}
        /\ mem' = [mem EXCEPT ![req[r].source] = copy[r]]
        /\ UNCHANGED <<process, dirs, late, req, crashes>>
    BY DEF Insert
  <1>2. mem' \in Map
    BY <1>1 DEF FrameInv, TypeOK, Map
  <1>3. ASSUME disk' = "torn", stored' = Empty,
               pc' = [pc EXCEPT ![r] = IF pc[r] = "insert" THEN "write" ELSE "rewrite"],
               UNCHANGED <<lock, answer, copy, faults>>
        PROVE  TypeOK' /\ PlaceInv'
    <2>1. TypeOK'
      BY <1>1, <1>2, <1>3, LoadedType DEF FrameInv, TypeOK, Active, Holding
    <2>2. PlaceInv'
      BY <1>1, <1>3 DEF FrameInv, TypeOK, PlaceInv, Sourcely, Restoring
    <2> QED BY <2>1, <2>2
  <1>4. ASSUME Fault, SaveFailed(r), UNCHANGED <<disk, stored>>
        PROVE  TypeOK' /\ PlaceInv'
    <2>1. PICK a \in {"done", "failed"} : Reply(r, a)
      BY <1>4 DEF SaveFailed
    <2>2. a \in Answers /\ a # "created" /\ faults' \in 0 .. MaxFaults
      BY <1>4 DEF Answers, Fault, FrameInv, TypeOK
    <2>3. TypeOK'
      BY <1>1, <1>2, <1>4, <2>1, <2>2, ReplyType DEF FrameInv, TypeOK
    <2> QED BY <1>1, <2>1, <2>2, <2>3, ReplyPlace
  <1> QED BY <1>3, <1>4 DEF Insert

LEMMA WriteFrame ==
    ASSUME FrameInv, NEW r \in Requests, Write(r)
    PROVE  TypeOK' /\ PlaceInv'
  <1>1. /\ pc[r] \in {"write", "rewrite"}
        /\ UNCHANGED <<process, mem, dirs, late, req, crashes>>
    BY DEF Write
  <1>2. faults' \in 0 .. MaxFaults
    BY DEF Write, Written, Fault, FrameInv, TypeOK
  <1>3. stored' \in Map /\ disk' \in {"absent", "whole", "torn"}
    BY DEF Write, Written, Contents, FrameInv, TypeOK
  <1>4. ASSUME NEW a \in Answers, Reply(r, a), a = "created" => pc[r] = "rewrite"
        PROVE  TypeOK' /\ PlaceInv'
    <2>1. TypeOK'
      BY <1>1, <1>2, <1>3, <1>4, ReplyType DEF FrameInv, TypeOK
    <2>2. a = "created" => req[r].kind \in Creates
      BY <1>4 DEF FrameInv, PlaceInv
    <2> QED BY <1>1, <1>4, <2>1, <2>2, ReplyPlace
  <1>5. ASSUME pc' = [pc EXCEPT ![r] = "mkdir"], UNCHANGED <<lock, answer, copy>>,
               req[r].kind \notin Updates
        PROVE  TypeOK' /\ PlaceInv'
    <2>1. req[r].kind \in Creates
      BY <1>5 DEF FrameInv, TypeOK, Command
    <2>2. TypeOK'
      BY <1>1, <1>2, <1>3, <1>5 DEF FrameInv, TypeOK, Active, Holding
    <2> QED BY <1>1, <1>5, <2>1, <2>2, GoPlace DEF Active, Holding, Restoring
  <1>6. "created" \in Answers /\ "done" \in Answers /\ "failed" \in Answers
    BY DEF Answers
  <1>7. CASE Written(r)
    BY <1>4, <1>5, <1>6, <1>7 DEF Written
  <1>8. CASE SaveFailed(r)
    BY <1>4, <1>6, <1>8 DEF SaveFailed
  <1> QED BY <1>7, <1>8 DEF Write

\* The directories of requests, and their parents, are of sources and databases.
LEMMA PathType ==
    ASSUME FrameInv, NEW r \in Requests
    PROVE  Path(r) \in Dir
  BY DEF FrameInv, TypeOK, Command, RequestInv, Sourcely, Path, Dir

LEMMA ParentsType ==
    ASSUME NEW p \in Dir
    PROVE  Parents(p) \subseteq Dir
  BY DEF Parents, Dir

LEMMA MkdirFrame ==
    ASSUME FrameInv, NEW r \in Requests, Mkdir(r)
    PROVE  TypeOK' /\ PlaceInv'
  <1>1. pc[r] = "mkdir" /\ UNCHANGED <<process, store, late, req, crashes>>
    BY DEF Mkdir
  <1>2. faults' \in 0 .. MaxFaults
    BY DEF Mkdir, MadeDir, Fault, FrameInv, TypeOK
  <1>3. dirs' \subseteq Dir
    <2>1. Parents(Path(r)) \subseteq Dir
      BY PathType, ParentsType
    <2> QED BY <2>1 DEF Mkdir, MadeDir, FrameInv, TypeOK
  <1>4. ASSUME NEW a \in Answers, Reply(r, a)
        PROVE  TypeOK' /\ PlaceInv'
    <2>1. TypeOK'
      BY <1>1, <1>2, <1>3, <1>4, ReplyType DEF FrameInv, store, TypeOK
    <2>2. req[r].kind \in Creates
      BY <1>1 DEF FrameInv, PlaceInv
    <2> QED BY <1>1, <1>4, <2>1, <2>2, ReplyPlace
  <1>5. ASSUME copy' = [copy EXCEPT ![r].interval = req[r].interval],
               pc' = [pc EXCEPT ![r] = "update"], UNCHANGED <<lock, answer>>,
               req[r].kind # "database"
        PROVE  TypeOK' /\ PlaceInv'
    <2>1. req[r].kind \in Creates
      BY <1>1 DEF FrameInv, PlaceInv
    <2>2. Sourcely(r)
      BY <1>5, <2>1 DEF Creates, Sourcely
    <2>3. copy' \in [Requests -> Entry]
      <3>1. copy[r] \in Entry /\ req[r].interval \in Int
        BY DEF FrameInv, TypeOK, Command
      <3>2. [copy[r] EXCEPT !.interval = req[r].interval] \in Entry
        BY <3>1 DEF Entry
      <3>3. copy' = [copy EXCEPT ![r] = [copy[r] EXCEPT !.interval = req[r].interval]]
        BY <1>5 DEF FrameInv, TypeOK
      <3> QED BY <3>2, <3>3 DEF FrameInv, TypeOK
    <2>4. TypeOK'
      BY <1>1, <1>2, <1>3, <1>5, <2>3 DEF FrameInv, store, TypeOK, Active, Holding
    <2> QED BY <1>1, <1>5, <2>1, <2>2, <2>4, GoPlace DEF Active, Holding, Restoring
  <1>6. "created" \in Answers /\ "failed" \in Answers
    BY DEF Answers
  <1> QED BY <1>4, <1>5, <1>6 DEF Mkdir, MadeDir

LEMMA RestoreFrame ==
    ASSUME FrameInv, NEW r \in Requests, Find(r) \/ Remove(r) \/ Remake(r)
    PROVE  TypeOK' /\ PlaceInv'
  <1>1. /\ pc[r] \in Restoring /\ pc[r] # "end" /\ req[r].kind = "restore"
        /\ UNCHANGED <<process, store, late, req, crashes>>
    BY DEF Find, Remove, Remake, Restoring, FrameInv, PlaceInv
  <1>2. Parents(Path(r)) \subseteq Dir
    BY PathType, ParentsType
  <1>3. dirs' \subseteq Dir /\ faults' \in 0 .. MaxFaults
    BY <1>2 DEF Find, Remove, Remake, Remade, Fault, FrameInv, TypeOK
  <1>4. ASSUME NEW a \in {"refused", "done", "failed"}, Reply(r, a)
        PROVE  TypeOK' /\ PlaceInv'
    <2>1. a \in Answers /\ a # "created"
      BY DEF Answers
    <2>2. TypeOK'
      BY <1>1, <1>3, <1>4, <2>1, ReplyType DEF FrameInv, store, TypeOK
    <2> QED BY <1>1, <1>4, <2>1, <2>2, ReplyPlace
  <1>5. ASSUME NEW p \in {"remove", "remake", "lock"}, pc' = [pc EXCEPT ![r] = p],
               UNCHANGED <<lock, copy, answer>>
        PROVE  TypeOK' /\ PlaceInv'
    <2>1. TypeOK'
      BY <1>1, <1>3, <1>5 DEF FrameInv, store, TypeOK, Active, Restoring
    <2> QED BY <1>1, <1>5, <2>1, GoPlace DEF Active, Restoring
  <1> QED BY <1>4, <1>5 DEF Find, Remove, Remake

LEMMA DropFrame ==
    ASSUME FrameInv, NEW r \in Requests, Drop(r)
    PROVE  TypeOK' /\ PlaceInv'
  <1>1. "dropped" \in Answers
    BY DEF Answers
  <1>2. Reply(r, "dropped") /\ UNCHANGED <<process, store, dirs, req, crashes, faults>>
    BY DEF Drop
  <1>3. late' \subseteq Task
    BY PathType DEF Drop, FrameInv, TypeOK, Task
  <1>4. TypeOK'
    BY <1>1, <1>2, <1>3, ReplyType DEF store, FrameInv, TypeOK
  <1> QED BY <1>1, <1>2, <1>4, ReplyPlace

\* Processes that start, end or crash.
LEMMA ProcessFrame ==
    ASSUME FrameInv,
           StartServing \/ Exit \/ Crash \/ \E r \in Requests : StartInit(r)
    PROVE  TypeOK' /\ RequestInv' /\ PlaceInv'
  <1>1. ASSUME NEW r \in Requests, StartInit(r)
        PROVE  TypeOK' /\ RequestInv' /\ PlaceInv'
    <2>1. mem' \in Map
      BY <1>1, LoadedType DEF StartInit, Load, FrameInv
    <2>2. [kind |-> "init", source |-> Default, name |-> None, interval |-> 0] \in Command
      BY DEF Command, Creates
    <2>3. req' \in [Requests -> Command]
      BY <1>1, <2>2 DEF StartInit, FrameInv, TypeOK
    <2>4. TypeOK'
      BY <1>1, <2>1, <2>3 DEF StartInit, FrameInv, TypeOK, Active
    <2>5. RequestInv'
      BY <1>1 DEF StartInit, FrameInv, TypeOK, RequestInv, Sourcely
    <2>6. PlaceInv'
      BY <1>1 DEF StartInit, FrameInv, TypeOK, PlaceInv, Sourcely, Restoring
    <2> QED BY <2>4, <2>5, <2>6
  <1>2. CASE StartServing
    BY <1>2, LoadedType DEF StartServing, Load, client, FrameInv, TypeOK,
                            RequestInv, PlaceInv, Sourcely
  <1>3. CASE Exit
    BY <1>3, LoadedType DEF Exit, client, FrameInv, TypeOK, RequestInv, PlaceInv, Sourcely
  <1>4. CASE Crash
    <2>1. Unknown \in Entry
      BY DEF Unknown, Entry
    <2>2. TypeOK'
      BY <1>4, <2>1, LoadedType DEF Crash, FrameInv, TypeOK, Maker, Answers
    <2>3. RequestInv' /\ PlaceInv'
      BY <1>4 DEF Crash, FrameInv, TypeOK, RequestInv, PlaceInv, Sourcely, Active, Holding,
                        Restoring
    <2> QED BY <2>2, <2>3
  <1> QED BY <1>1, <1>2, <1>3, <1>4

LEMMA LateFrame ==
    ASSUME FrameInv, LateChange
    PROVE  TypeOK' /\ RequestInv' /\ PlaceInv'
  <1>1. PICK w \in late :
          /\ late' = late \ {w}
          /\ \/ /\ dirs' = IF w.point = "remove" THEN dirs \ {w.dir}
                           ELSE dirs \cup Parents(w.dir)
                /\ UNCHANGED faults
             \/ Fault /\ UNCHANGED dirs
    BY DEF LateChange
  <1>2. Parents(w.dir) \subseteq Dir
    BY ParentsType DEF FrameInv, TypeOK, Task
  <1> QED BY <1>1, <1>2 DEF LateChange, store, client, Fault, FrameInv, TypeOK,
                            RequestInv, PlaceInv, Sourcely

-----------------------------------------------------------------------------
(* Who holds the lock.                                                      *)

\* A reply gives the lock back, if its request has it.
LEMMA ReplyGuard ==
    ASSUME FrameInv, NEW r \in Requests, NEW a, Reply(r, a), process' = process, process # "down"
    PROVE  GuardInv'
  BY DEF Reply, Released, FrameInv, TypeOK, GuardInv, Holding, Active

LEMMA GoGuard ==
    ASSUME FrameInv, NEW r \in Requests, NEW p, pc[r] \in Holding <=> p \in Holding,
           pc' = [pc EXCEPT ![r] = p], UNCHANGED <<lock, process>>, process # "down"
    PROVE  GuardInv'
  BY DEF FrameInv, TypeOK, GuardInv

\* Requests go on, and answer, only while a process is up.
LEMMA Up ==
    ASSUME FrameInv, NEW r \in Requests, pc[r] \in Active
    PROVE  process # "down"
  BY DEF FrameInv, GuardInv

LEMMA StepGuard == FrameInv /\ [Next]_vars => GuardInv'
  <1> SUFFICES ASSUME FrameInv, [Next]_vars PROVE GuardInv'
    OBVIOUS
  <1>1. ASSUME NEW r \in Requests, Submit(r) PROVE GuardInv'
    <2>1. /\ process = "serving" /\ pc[r] = "idle" /\ UNCHANGED <<process, lock, late>>
          /\ \E p \in {"end", "lock", "find"} : pc' = [pc EXCEPT ![r] = p]
      BY <1>1 DEF Submit
    <2> QED BY <2>1 DEF FrameInv, TypeOK, GuardInv, Holding
  <1>2. ASSUME NEW r \in Requests, Lock(r) PROVE GuardInv'
    <2>1. process # "down"
      BY <1>2, Up DEF Lock, Active
    <2> QED BY <1>2, <2>1 DEF Lock, Free, FrameInv, TypeOK, GuardInv, Holding
  <1>3. ASSUME NEW r \in Requests, pc[r] \in Holding, process' = process,
               \/ \E a \in Answers : Reply(r, a)
               \/ \E p \in Holding : pc' = [pc EXCEPT ![r] = p] /\ UNCHANGED lock
        PROVE  GuardInv'
    <2>1. process # "down"
      BY <1>3, Up DEF Active
    <2> QED BY <1>3, <2>1, ReplyGuard, GoGuard
  <1>4. ASSUME NEW r \in Requests, Read(r) \/ Insert(r) \/ Write(r) \/ Mkdir(r)
        PROVE  GuardInv'
    <2>1. pc[r] \in Holding /\ process' = process
      BY <1>4 DEF Read, Insert, Write, Mkdir, Holding
    <2>2. \/ \E a \in Answers : Reply(r, a)
          \/ \E p \in Holding : pc' = [pc EXCEPT ![r] = p] /\ UNCHANGED lock
      <3>1. CASE Read(r)
        BY <3>1 DEF Read, ReadSource, ReadDatabase, ReadUpdate, Clone, Answers, Holding
      <3>2. CASE Insert(r)
        BY <3>2 DEF Insert, SaveFailed, Answers, Holding
      <3>3. CASE Write(r)
        BY <3>3 DEF Write, Written, SaveFailed, Answers, Holding
      <3>4. CASE Mkdir(r)
        BY <3>4 DEF Mkdir, MadeDir, Answers, Holding
      <3> QED BY <1>4, <3>1, <3>2, <3>3, <3>4
    <2> QED BY <1>3, <2>1, <2>2
  <1>5. ASSUME NEW r \in Requests, Drop(r) \/ Find(r) \/ Remove(r) \/ Remake(r)
        PROVE  GuardInv'
    <2>1. process # "down" /\ process' = process
      BY <1>5, Up DEF Drop, Find, Remove, Remake, Active, Restoring
    <2>2. CASE \E a : Reply(r, a)
      BY <2>1, <2>2, ReplyGuard
    <2>3. CASE \E p \in {"remove", "remake", "lock"} :
                 pc' = [pc EXCEPT ![r] = p] /\ UNCHANGED lock /\ pc[r] \in Restoring
      BY <2>1, <2>3, GoGuard DEF Restoring, Holding
    <2> QED BY <1>5, <2>2, <2>3 DEF Drop, Find, Remove, Remake, Restoring
  <1>6. ASSUME NEW r \in Requests, StartInit(r) PROVE GuardInv'
    BY <1>6 DEF StartInit, Load, FrameInv, TypeOK, GuardInv, Holding
  <1>7. CASE LateChange
    BY <1>7 DEF LateChange, client, FrameInv, GuardInv
  <1>8. CASE StartServing
    BY <1>8 DEF StartServing, client, FrameInv, GuardInv
  <1>9. CASE Exit
    BY <1>9 DEF Exit, client, FrameInv, TypeOK, GuardInv, Active, Maker
  <1>10. CASE Crash
    BY <1>10 DEF Crash, FrameInv, TypeOK, GuardInv, Active, Holding, Restoring
  <1>11. CASE UNCHANGED vars
    BY <1>11 DEF vars, client, FrameInv, GuardInv
  <1> QED
    BY <1>1, <1>2, <1>4, <1>5, <1>6, <1>7, <1>8, <1>9, <1>10, <1>11 DEF Next, Step

LEMMA FrameInductive == FrameInv /\ [Next]_vars => FrameInv'
  <1> SUFFICES ASSUME FrameInv, [Next]_vars PROVE TypeOK' /\ RequestInv' /\ PlaceInv'
    BY StepGuard DEF FrameInv
  <1>1. UNCHANGED req => RequestInv'
    BY DEF FrameInv, RequestInv, Sourcely
  <1>2. ASSUME NEW r \in Requests, Lock(r) PROVE TypeOK' /\ PlaceInv'
    BY <1>2 DEF Lock, store, FrameInv, TypeOK, Maker, Active, Holding, Restoring,
                PlaceInv, Sourcely
  <1>3. ASSUME NEW r \in Requests, Step(r) \/ Drop(r)
        PROVE  TypeOK' /\ PlaceInv' /\ UNCHANGED req
    <2>1. TypeOK' /\ PlaceInv'
      BY <1>2, <1>3, ReadFrame, InsertFrame, WriteFrame, MkdirFrame, RestoreFrame, DropFrame
         DEF Step
    <2>2. UNCHANGED req
      BY <1>3 DEF Step, Lock, Read, Insert, Write, Mkdir, Find, Remove, Remake, Drop
    <2> QED BY <2>1, <2>2
  <1>4. CASE UNCHANGED vars
    BY <1>4 DEF vars, store, client, FrameInv, TypeOK, RequestInv, PlaceInv, Sourcely
  <1> QED BY <1>1, <1>3, <1>4, SubmitFrame, ProcessFrame, LateFrame DEF Next

LEMMA FrameInitially == Init => FrameInv
  BY InitTypes DEF Init, FrameInv, RequestInv, GuardInv, PlaceInv, Sourcely, Active, Holding,
                   Restoring

-----------------------------------------------------------------------------
(* Requests go on.                                                          *)

\* How many points a request under way has before it at most.
Ahead(point) ==
    CASE point = "find"    -> 10
      [] point = "remove"  -> 9
      [] point = "remake"  -> 8
      [] point = "lock"    -> 7
      [] point = "read"    -> 6
      [] point = "insert"  -> 5
      [] point = "write"   -> 4
      [] point = "mkdir"   -> 3
      [] point = "update"  -> 2
      [] point = "rewrite" -> 1
      [] OTHER             -> 0

\* A request under way is never sent back to a point it has passed, and one that
\* was answered stays answered, and so.
OnlyForward ==
    \A r \in Requests :
        /\ pc[r] \in Active => pc'[r] = pc[r] \/ Ahead(pc'[r]) < Ahead(pc[r])
        /\ pc[r] = "end" => pc'[r] = "end" /\ answer'[r] = answer[r]

LEMMA ReplyForward ==
    ASSUME TypeOK, NEW r \in Requests, NEW a, pc[r] # "end", Reply(r, a)
    PROVE  OnlyForward
  <1>1. Ahead("end") = 0 /\ \A p \in Active : Ahead(p) > 0
    BY DEF Ahead, Active, Holding, Restoring
  <1> QED BY <1>1 DEF Reply, OnlyForward, TypeOK

LEMMA GoForward ==
    ASSUME TypeOK, NEW r \in Requests, NEW point, pc[r] # "end",
           pc' = [pc EXCEPT ![r] = point], answer' = answer,
           pc[r] \in Active => Ahead(point) < Ahead(pc[r])
    PROVE  OnlyForward
  BY DEF OnlyForward, TypeOK

LEMMA HandlerForward ==
    ASSUME FrameInv, NEW r \in Requests, Step(r) \/ Drop(r)
    PROVE  OnlyForward
  <1>0. TypeOK
    BY DEF FrameInv
  <1>1. PICK point \in Active :
            \/ /\ pc' = [pc EXCEPT ![r] = point] /\ answer' = answer
               /\ \/ pc[r] = "lock" /\ point = "read"
                  \/ pc[r] = "read" /\ point = "insert"
                  \/ pc[r] = "insert" /\ point = "write"
                  \/ pc[r] = "write" /\ point = "mkdir"
                  \/ pc[r] = "mkdir" /\ point = "update"
                  \/ pc[r] = "update" /\ point = "rewrite"
                  \/ pc[r] = "find" /\ point = "remove"
                  \/ pc[r] = "remove" /\ point = "remake"
                  \/ pc[r] = "remake" /\ point = "lock"
            \/ pc[r] \in Active /\ \E a \in Answers : Reply(r, a)
    <2>1. CASE Lock(r)
      BY <2>1 DEF Lock, Active, Holding
    <2>2. CASE Read(r)
      <3>1. pc[r] = "read" /\ pc[r] \in Active /\ "insert" \in Active
        BY <2>2 DEF Read, Active, Holding
      <3>2. CASE ReadSource(r)
        BY <3>1, <3>2 DEF ReadSource, Clone, Answers
      <3>3. CASE ReadDatabase(r)
        BY <3>1, <3>3 DEF ReadDatabase, Clone, Answers
      <3>4. CASE ReadUpdate(r)
        BY <3>1, <3>4 DEF ReadUpdate, Clone, Answers
      <3> QED BY <2>2, <3>2, <3>3, <3>4 DEF Read
    <2>3. CASE Insert(r)
      BY <2>3 DEF Insert, SaveFailed, Answers, Active, Holding, Restoring
    <2>4. CASE Write(r)
      <3>1. pc[r] = "rewrite" => req[r].kind \notin Updates
        BY DEF FrameInv, PlaceInv, Sourcely, Updates
      <3> QED BY <2>4, <3>1 DEF Write, Written, SaveFailed, Answers, Active, Holding, Restoring
    <2>5. CASE Mkdir(r)
      BY <2>5 DEF Mkdir, MadeDir, Answers, Active, Holding, Restoring
    <2>6. CASE Drop(r)
      BY <2>6 DEF Drop, Awaiting, OnDisk, Answers, Active, Holding, Restoring
    <2>7. CASE Find(r) \/ Remove(r) \/ Remake(r)
      BY <2>7 DEF Find, Remove, Remake, Answers, Active, Restoring
    <2> QED BY <2>1, <2>2, <2>3, <2>4, <2>5, <2>6, <2>7 DEF Step
  <1>2. CASE pc[r] \in Active /\ \E a \in Answers : Reply(r, a)
    BY <1>0, <1>2, ReplyForward DEF Active, Holding, Restoring
  <1>3. CASE ~ (pc[r] \in Active /\ \E a \in Answers : Reply(r, a))
    <2>1. Ahead(point) < Ahead(pc[r]) /\ pc[r] # "end"
      BY <1>1, <1>3 DEF Ahead
    <2> QED BY <1>0, <1>1, <1>3, <2>1, GoForward
  <1> QED BY <1>2, <1>3

LEMMA NextForward == FrameInv /\ [Next]_vars => OnlyForward
  <1> SUFFICES ASSUME FrameInv, [Next]_vars PROVE OnlyForward
    OBVIOUS
  <1>1. ASSUME NEW r \in Requests, Step(r) \/ Drop(r) PROVE OnlyForward
    BY <1>1, HandlerForward
  <1>2. ASSUME NEW r \in Requests, Submit(r) \/ StartInit(r) PROVE OnlyForward
    BY <1>2 DEF FrameInv, TypeOK, Submit, StartInit, OnlyForward, Active, Holding, Restoring
  <1>3. CASE Crash
    <2>1. Ahead("end") = 0 /\ \A p \in Active : Ahead(p) > 0 /\ p # "end"
      BY DEF Ahead, Active, Holding, Restoring
    <2> QED BY <1>3, <2>1 DEF Crash, OnlyForward
  <1>4. CASE LateChange \/ StartServing \/ Exit \/ UNCHANGED vars
    BY <1>4 DEF LateChange, StartServing, Exit, client, vars, OnlyForward
  <1> QED BY <1>1, <1>2, <1>3, <1>4 DEF Next

\* What a request was asked and has answered stays.
LEMMA PastStays ==
    ASSUME FrameInv, [Next]_vars, NEW q \in Requests, pc[q] # "idle"
    PROVE  /\ req'[q] = req[q]
           /\ answer[q] # "none" => answer'[q] = answer[q]
  <1>1. req'[q] = req[q]
    <2>1. ASSUME NEW r \in Requests, Submit(r) \/ StartInit(r) PROVE req'[q] = req[q]
      <3>1. pc[r] = "idle" /\ \E c : req' = [req EXCEPT ![r] = c]
        BY <2>1 DEF Submit, StartInit
      <3> QED BY <3>1 DEF FrameInv, TypeOK
    <2>2. ASSUME NEW r \in Requests, Step(r) \/ Drop(r) PROVE UNCHANGED req
      BY <2>2 DEF Step, Lock, Read, Insert, Write, Mkdir, Find, Remove, Remake, Drop
    <2>3. LateChange \/ StartServing \/ Exit \/ Crash \/ UNCHANGED vars => UNCHANGED req
      BY DEF LateChange, StartServing, Exit, Crash, client, vars
    <2> QED BY <2>1, <2>2, <2>3 DEF Next
  <1>2. answer[q] # "none" => answer'[q] = answer[q]
    BY NextForward DEF OnlyForward, FrameInv, PlaceInv
  <1> QED BY <1>1, <1>2

-----------------------------------------------------------------------------
(* Directories.                                                             *)

LEMMA StepLate == FrameInv /\ LateInv /\ [Next]_vars => LateInv'
  <1> SUFFICES ASSUME FrameInv, LateInv, [Next]_vars, NEW w \in late', w.point = "remove"
               PROVE  /\ req'[w.by].kind = "restore" /\ Path(w.by)' = w.dir
                      /\ answer'[w.by] = "dropped"
    BY DEF LateInv
  <1>1. CASE w \in late
    <2>1. /\ w.by \in Requests /\ req[w.by].kind = "restore" /\ Path(w.by) = w.dir
          /\ answer[w.by] = "dropped" /\ pc[w.by] = "end"
      BY <1>1 DEF FrameInv, TypeOK, PlaceInv, LateInv, Task
    <2> QED BY <2>1, PastStays DEF Path
  <1>2. ASSUME NEW r \in Requests, Drop(r), w \notin late
        PROVE  /\ req'[w.by].kind = "restore" /\ Path(w.by)' = w.dir
               /\ answer'[w.by] = "dropped"
    <2>1. w = [point |-> pc[r], dir |-> Path(r), by |-> r] /\ UNCHANGED req
      BY <1>2 DEF Drop
    <2>2. pc[r] = "remove" /\ req[r].kind = "restore"
      BY <2>1 DEF FrameInv, PlaceInv, Restoring
    <2> QED BY <1>2, <2>1, <2>2 DEF Drop, Reply, FrameInv, TypeOK, Path
  <1>3. ASSUME NEW r \in Requests, Step(r) PROVE late' = late
    BY <1>3 DEF Step, Lock, Read, Insert, Write, Mkdir, Find, Remove, Remake
  <1>4. ASSUME NEW r \in Requests, Submit(r) \/ StartInit(r) PROVE late' = late
    BY <1>4 DEF Submit, StartInit
  <1>5. LateChange \/ StartServing \/ Exit \/ Crash \/ UNCHANGED vars => late' \subseteq late
    BY DEF LateChange, StartServing, Exit, Crash, vars
  <1> QED BY <1>1, <1>2, <1>3, <1>4, <1>5 DEF Next

\* Only what makes directories adds to them, and only what removes one takes one.
LEMMA DirsGo ==
    ASSUME FrameInv, LateInv, [Next]_vars, NEW p \in dirs, p \notin dirs'
    PROVE  \E q \in Requests : /\ Path(q) = p /\ req[q].kind = "restore" /\ pc[q] # "idle"
                               /\ pc'[q] = "remake" \/ answer[q] = "dropped"
  <1>1. ASSUME NEW r \in Requests, Remove(r)
        PROVE  Path(r) = p /\ req[r].kind = "restore" /\ pc[r] # "idle" /\ pc'[r] = "remake"
    BY <1>1 DEF Remove, FrameInv, TypeOK, PlaceInv, Restoring
  <1>2. CASE LateChange
    <2>1. PICK w \in late : w.point = "remove" /\ w.dir = p
      BY <1>2 DEF LateChange
    <2>2. /\ w.by \in Requests /\ Path(w.by) = p /\ req[w.by].kind = "restore"
          /\ answer[w.by] = "dropped" /\ pc[w.by] = "end"
      BY <2>1 DEF FrameInv, TypeOK, PlaceInv, LateInv, Task
    <2> QED BY <2>2
  <1>3. ASSUME NEW r \in Requests, Step(r) \/ Drop(r), ~Remove(r) PROVE dirs \subseteq dirs'
    BY <1>3 DEF Step, Lock, Read, Insert, Write, Mkdir, MadeDir, Find, Remake, Drop
  <1>4. ASSUME NEW r \in Requests, Submit(r) \/ StartInit(r) PROVE dirs \subseteq dirs'
    BY <1>4 DEF Submit, StartInit
  <1>5. StartServing \/ Exit \/ Crash \/ UNCHANGED vars => dirs \subseteq dirs'
    BY DEF StartServing, Exit, Crash, vars
  <1> QED BY <1>1, <1>2, <1>3, <1>4, <1>5 DEF Next

\* A directory of a source is never removed.
LEMMA RootsStay ==
    ASSUME FrameInv, LateInv, [Next]_vars, NEW p \in dirs, p[2] = None
    PROVE  p \in dirs'
  BY DirsGo DEF FrameInv, RequestInv, Sourcely, Path

\* A restore leaves the point where its directory is gone with the directory made
\* again, or cut short.
LEMMA RemakeEnds ==
    ASSUME FrameInv, [Next]_vars, NEW q \in Requests, pc[q] = "remake"
    PROVE  \/ pc'[q] = "remake" \/ Path(q) \in dirs'
           \/ answer'[q] \in {"failed", "dropped", "lost"}
  <1>1. ASSUME NEW r \in Requests, r # q, Step(r) \/ Drop(r) \/ Submit(r) \/ StartInit(r)
        PROVE  pc'[q] = "remake"
    <2>1. \E a : pc' = [pc EXCEPT ![r] = a]
      BY <1>1 DEF Step, Lock, Read, ReadSource, ReadDatabase, ReadUpdate, Clone, Insert,
                  Write, Written, SaveFailed, Mkdir, MadeDir, Find, Remove, Remake, Drop,
                  Submit, StartInit, Reply
    <2> QED BY <1>1, <2>1 DEF FrameInv, TypeOK
  <1>2. CASE Remake(q)
    <2>1. Path(q) \in Parents(Path(q))
      BY DEF Parents
    <2> QED BY <1>2, <2>1 DEF Remake, Remade, Reply, FrameInv, TypeOK
  <1>3. CASE Drop(q)
    BY <1>3 DEF Drop, Reply, FrameInv, TypeOK
  <1>4. CASE Crash
    BY <1>4 DEF Crash, Active, Restoring
  <1>5. CASE LateChange \/ StartServing \/ Exit \/ UNCHANGED vars
    BY <1>5 DEF LateChange, StartServing, Exit, client, vars
  <1>6. ~Submit(q) /\ ~StartInit(q) /\ (Step(q) => Remake(q))
    BY DEF Submit, StartInit, Step, Lock, Read, Insert, Write, Mkdir, Find, Remove
  <1> QED BY <1>1, <1>2, <1>3, <1>4, <1>5, <1>6 DEF Next

\* What can excuse that a directory is not there goes on to excuse it.
LEMMA DirStaysKept ==
    ASSUME FrameInv, LateInv, [Next]_vars, NEW r \in Requests, pc[r] # "idle",
           DirKept(Path(r))
    PROVE  DirKept(Path(r))'
  <1>1. Path(r)' = Path(r)
    BY PastStays DEF Path
  <1>2. ASSUME NEW q \in Requests, Path(q) = Path(r), CutShort(q)
        PROVE  DirKept(Path(r))'
    <2>1. pc[q] # "idle"
      BY <1>2 DEF CutShort, FrameInv, PlaceInv
    <2>2. Path(q)' = Path(r)' /\ req'[q].kind = "restore"
      BY <1>1, <1>2, <2>1, PastStays DEF Path, CutShort
    <2>3. CASE answer[q] \in {"failed", "dropped", "lost"}
      BY <2>1, <2>2, <2>3, PastStays DEF DirKept, CutShort
    <2>4. CASE pc[q] = "remake"
      BY <1>1, <1>2, <2>2, <2>4, RemakeEnds DEF DirKept, CutShort
    <2> QED BY <1>2, <2>3, <2>4 DEF CutShort
  <1>3. CASE Path(r) \in dirs /\ Path(r) \notin dirs'
    <2>1. PICK q \in Requests : /\ Path(q) = Path(r) /\ req[q].kind = "restore" /\ pc[q] # "idle"
                                /\ pc'[q] = "remake" \/ answer[q] = "dropped"
      BY <1>3, DirsGo
    <2>2. Path(q)' = Path(r)' /\ req'[q].kind = "restore"
          /\ (answer[q] = "dropped" => answer'[q] = "dropped")
      BY <1>1, <2>1, PastStays DEF Path
    <2> QED BY <2>1, <2>2 DEF DirKept, CutShort
  <1>4. CASE Path(r) \in dirs'
    BY <1>1, <1>4 DEF DirKept
  <1> QED BY <1>2, <1>3, <1>4 DEF DirKept

\* Where neither directories nor restores move, the places are what they were.
LEMMA StillPlaces ==
    ASSUME UNCHANGED <<dirs, late>>,
           \A q \in Requests : pc'[q] \in {"remove", "remake"} =>
               pc[q] \in {"remove", "remake"} /\ req'[q] = req[q]
    PROVE  Places' \subseteq Places
  BY DEF Places, Underway, Path

LEMMA GoPlaces ==
    ASSUME FrameInv, NEW r \in Requests, NEW p, p \notin {"remove", "remake"},
           pc' = [pc EXCEPT ![r] = p], UNCHANGED req
    PROVE  /\ Underway' \subseteq Underway
           /\ UNCHANGED <<dirs, late>> => Places' \subseteq Places
  BY DEF FrameInv, TypeOK, Places, Underway, Path

\* What a step that makes nothing of its own adds to them is made in their midst.
Spread == \A p \in Places' : p \in Places \/ \E o \in Places : p \in Parents(o)

LEMMA PlacesType == FrameInv => Places \subseteq Dir
  BY PathType DEF FrameInv, TypeOK, Task, Places, Underway

\* Requests that arrive, and those that look at the catalog and save it.
LEMMA SubmitPlaces ==
    ASSUME FrameInv, NEW r \in Requests, Submit(r) \/ StartInit(r)
    PROVE  Places' \subseteq Places
  <1>1. /\ UNCHANGED <<dirs, late>> /\ pc[r] = "idle"
        /\ \E p \in {"end", "lock", "find"} : pc' = [pc EXCEPT ![r] = p]
        /\ \E c : req' = [req EXCEPT ![r] = c]
    BY DEF Submit, StartInit
  <1> QED BY <1>1, StillPlaces DEF FrameInv, TypeOK

LEMMA HolderPlaces ==
    ASSUME FrameInv, NEW r \in Requests, Lock(r) \/ Read(r) \/ Insert(r) \/ Write(r)
    PROVE  Places' \subseteq Places
  <1>1. UNCHANGED <<dirs, late, req>>
    BY DEF Lock, Read, Insert, Write
  <1>2. \E p : p \notin {"remove", "remake"} /\ pc' = [pc EXCEPT ![r] = p]
    BY DEF Lock, Read, ReadSource, ReadDatabase, ReadUpdate, Clone, Insert, Write, Written,
           SaveFailed, Reply
  <1> QED BY <1>1, <1>2, GoPlaces

\* A handler that makes a directory, or is dropped meanwhile.
LEMMA MkdirPlaces ==
    ASSUME FrameInv, NEW r \in Requests, Mkdir(r)
    PROVE  /\ Places' \subseteq Places \cup Parents(Path(r))
           /\ UNCHANGED dirs => Places' \subseteq Places
  <1>1. /\ UNCHANGED <<late, req>>
        /\ dirs' = dirs \/ dirs' = dirs \cup Parents(Path(r))
    BY DEF Mkdir, MadeDir
  <1>2. \E p : p \notin {"remove", "remake"} /\ pc' = [pc EXCEPT ![r] = p]
    BY DEF Mkdir, MadeDir, Reply
  <1>3. Underway' \subseteq Underway
    BY <1>1, <1>2, GoPlaces
  <1> QED BY <1>1, <1>3 DEF Places, Path

LEMMA DropPlaces ==
    ASSUME FrameInv, NEW r \in Requests, Drop(r)
    PROVE  Places' \subseteq IF pc[r] = "mkdir" THEN Places \cup {Path(r)} ELSE Places
  <1>1. /\ UNCHANGED <<dirs, req>> /\ pc' = [pc EXCEPT ![r] = "end"]
        /\ \/ late' = late
           \/ /\ pc[r] \in OnDisk
              /\ late' = late \cup {[point |-> pc[r], dir |-> Path(r), by |-> r]}
    BY DEF Drop, Reply
  <1>2. Underway' \subseteq Underway
    BY <1>1, GoPlaces
  <1>3. pc[r] \in OnDisk \ {"mkdir"} => Path(r) \in Places
    BY DEF OnDisk, Places, Underway
  <1>4. {w.dir : w \in late'} \subseteq
          {w.dir : w \in late} \cup IF pc[r] \in OnDisk THEN {Path(r)} ELSE {}
    BY <1>1
  <1>5. \A q \in Underway' : Path(q)' = Path(q)
    BY <1>1 DEF Path
  <1> QED BY <1>1, <1>2, <1>3, <1>4, <1>5 DEF Places, OnDisk

\* A restore, and what is left of dropped handlers.
LEMMA RestoreSpread ==
    ASSUME FrameInv, NEW r \in Requests, Find(r) \/ Remove(r) \/ Remake(r)
    PROVE  Spread
  <1>1. /\ UNCHANGED <<late, req>>
        /\ \E p : pc' = [pc EXCEPT ![r] = p] /\ (p \in {"remove", "remake"} => Path(r) \in Places)
    BY DEF Find, Remove, Remake, Reply, Places, Underway
  <1>2. \A q \in Underway' : Path(q)' \in Places
    BY <1>1 DEF FrameInv, TypeOK, Places, Underway, Path
  <1>3. \A p \in dirs' : p \in dirs \/ (Path(r) \in Places /\ p \in Parents(Path(r)))
    BY DEF Find, Remove, Remake, Remade, Places, Underway
  <1> QED BY <1>1, <1>2, <1>3 DEF Spread, Places

LEMMA LateSpread ==
    ASSUME FrameInv, LateChange
    PROVE  Spread
  <1>1. PICK w \in late :
          /\ late' = late \ {w}
          /\ dirs' \subseteq dirs \cup Parents(w.dir)
    BY DEF LateChange
  <1>2. w.dir \in Places /\ UNCHANGED <<pc, req>>
    BY DEF Places, LateChange, client
  <1>3. Underway' = Underway /\ \A q \in Underway : Path(q)' = Path(q)
    BY <1>2 DEF Underway, Path
  <1> QED BY <1>1, <1>2, <1>3 DEF Spread, Places

\* Processes that start and end.
LEMMA ProcessPlaces ==
    ASSUME FrameInv, StartServing \/ Exit \/ Crash \/ UNCHANGED vars
    PROVE  Places' \subseteq Places
  <1>1. UNCHANGED <<dirs, req>> /\ late' \subseteq late
    BY DEF StartServing, Exit, Crash, client, vars
  <1>2. Underway' \subseteq Underway
    BY DEF StartServing, Exit, Crash, client, vars, Underway, Active, Restoring
  <1> QED BY <1>1, <1>2 DEF Places, Path

-----------------------------------------------------------------------------
(* What the request that holds the lock has done.                           *)

LEMMA Alone ==
    ASSUME FrameInv, NEW r \in Requests, pc[r] \in Holding, NEW q \in Requests, q # r
    PROVE  pc[q] \notin Holding
  BY DEF FrameInv, GuardInv

\* When the holder replies, nobody is left that holds the lock.
LEMMA ReplyWork ==
    ASSUME FrameInv, NEW r \in Requests, pc[r] \in Holding, NEW a, Reply(r, a)
    PROVE  WorkInv'
  BY Alone DEF Reply, FrameInv, TypeOK, WorkInv, Changing, Holding

\* When it goes on, its work is all there is to look at.
LEMMA GoWork ==
    ASSUME FrameInv, NEW r \in Requests, pc[r] \in Holding, NEW p,
           pc' = [pc EXCEPT ![r] = p], Work(r)'
    PROVE  WorkInv'
  BY Alone DEF FrameInv, TypeOK, WorkInv, Changing

LEMMA ReadWork ==
    ASSUME CatalogInv, NEW r \in Requests, Read(r)
    PROVE  WorkInv'
  <1>1. pc[r] = "read" /\ UNCHANGED <<process, store, dirs, late, req, crashes, faults>>
    BY DEF Read
  <1> DEFINE s == req[r].source
             e == mem[s]
  <1>2. s \in Sources /\ e \in Entry /\ process # "down" /\ FrameInv
    BY <1>1, Up DEF CatalogInv, FrameInv, TypeOK, Command, Map, Active, Holding
  <1>3. ASSUME NEW a, Reply(r, a) PROVE WorkInv'
    BY <1>1, <1>2, <1>3, ReplyWork DEF Holding
  <1>4. ASSUME NEW c \in Entry, Clone(r, c), c.known,
               ~Sourcely(r) =>
                  /\ c.interval = e.interval
                  /\ \A b \in e.bases : \E d \in c.bases : Follows(b, d, r),
               Sourcely(r) =>
                  /\ c.bases = {} /\ e.bases = {}
                  /\ \A q \in Acked : req[q].source # s
                  /\ \A p \in Places : p[1] # s,
               req[r].kind = "database" =>
                  /\ \E b \in c.bases : b.id = r /\ b.name = req[r].name
                  /\ \A q \in Acked : req[q].kind = "database" => Path(q) # Path(r)
        PROVE  WorkInv'
    <2>1. pc' = [pc EXCEPT ![r] = "insert"] /\ copy' = [copy EXCEPT ![r] = c] /\ UNCHANGED answer
      BY <1>4 DEF Clone
    <2>2. pc'[r] = "insert" /\ copy'[r] = c /\ Acked' = Acked
      BY <1>2, <2>1 DEF FrameInv, TypeOK, Acked
    <2>3. CloneWork(r)'
      BY <1>1, <1>4, <2>2 DEF CloneWork, store, Sourcely, Follows
    <2>4. Sourcely(r)' => SourceWork(r)'
      <3>1. Places' \subseteq Places
        BY <1>2, HolderPlaces
      <3> QED BY <1>1, <1>4, <2>2, <3>1 DEF SourceWork, store, Sourcely
    <2>5. (req[r].kind = "database")' => DatabaseWork(r)'
      BY <1>1, <1>4, <2>2 DEF DatabaseWork, Path
    <2>6. Work(r)'
      BY <2>3, <2>4, <2>5 DEF Work
    <2> QED BY <1>1, <1>2, <2>1, <2>6, GoWork DEF Holding
  <1>5. \A q \in Acked : Kept(mem, q)
    BY <1>2 DEF CatalogInv, AckedUsable, Acked
  <1>6. CASE ReadSource(r)
    <2> DEFINE c == NewSource
    <2>1. CASE e.known
      BY <1>3, <1>6, <2>1 DEF ReadSource, Known
    <2>2. CASE ~e.known
      <3>1. Clone(r, c) /\ c \in Entry /\ c.known /\ c.bases = {} /\ Sourcely(r)
        BY <1>6, <2>2 DEF ReadSource, NewSource, Known, Entry, Sourcely
      <3>2. e.bases = {}
        BY <1>2, <2>2 DEF CatalogInv, BareInv
      <3>3. \A q \in Acked : req[q].source # s
        BY <1>5, <2>2 DEF Kept
      <3>4. \A p \in Places : p[1] # s
        BY <1>2, <2>2 DEF CatalogInv, ListInv, Listed
      <3>5. req[r].kind # "database"
        BY <3>1 DEF Sourcely
      <3> HIDE DEF c
      <3> QED BY <1>4, <3>1, <3>2, <3>3, <3>4, <3>5
    <2> QED BY <2>1, <2>2
  <1>7. CASE ReadDatabase(r)
    <2> DEFINE c == [e EXCEPT !.bases = @ \cup {Made(r)}]
    <2>1. CASE ~Valid(s) \/ Has(e, req[r].name)
      BY <1>3, <1>7, <2>1 DEF ReadDatabase
    <2>2. CASE Valid(s) /\ ~Has(e, req[r].name)
      <3>1. Clone(r, c) /\ req[r].kind = "database" /\ ~Sourcely(r)
        BY <1>7, <2>2 DEF ReadDatabase, Sourcely
      <3>2. Made(r) \in Base /\ Made(r).id = r /\ Made(r).name = req[r].name
        BY <1>2, <3>1 DEF FrameInv, RequestInv, Made, Base, Maker
      <3>3. /\ c \in Entry /\ c.known = e.known /\ c.interval = e.interval
            /\ c.bases = e.bases \cup {Made(r)}
        BY <1>2, <3>2 DEF Entry
      <3>4. c.known
        BY <2>2, <3>3 DEF Valid
      <3> HIDE DEF c
      <3>5. \A b \in e.bases : \E d \in c.bases : Follows(b, d, r)
        BY <3>3 DEF Follows
      <3>6. \A q \in Acked : req[q].kind = "database" => Path(q) # Path(r)
        BY <1>5, <2>2 DEF Kept, Path, Has
      <3>7. \E b \in c.bases : b.id = r /\ b.name = req[r].name
        BY <3>2, <3>3
      <3> QED BY <1>4, <3>1, <3>3, <3>4, <3>5, <3>6, <3>7
    <2> QED BY <2>1, <2>2
  <1>8. CASE ReadUpdate(r)
    <2> DEFINE c == Changed(e, r)
    <2>1. CASE ~Has(e, req[r].name)
      BY <1>3, <1>8, <2>1 DEF ReadUpdate
    <2>2. CASE Has(e, req[r].name)
      <3>1. Clone(r, c) /\ req[r].kind \in Updates
        BY <1>8, <2>2 DEF ReadUpdate
      <3>2. req[r].kind # "database" /\ ~Sourcely(r)
        BY <3>1 DEF Updates, Sourcely
      <3>3. e.known
        BY <1>2, <2>2 DEF CatalogInv, BareInv, Has
      <3>4. c \in Entry
        BY <1>2, <3>1, ChangedType DEF FrameInv
      <3>5. /\ c.known = e.known /\ c.interval = e.interval
            /\ c.bases = {IF b.name = req[r].name THEN Updated(b, r) ELSE b : b \in e.bases}
        BY <1>2 DEF Changed, Entry
      <3> HIDE DEF c
      <3>6. ASSUME NEW b \in e.bases PROVE Follows(b, Updated(b, r), r)
        <4>1. b \in Base
          BY <1>2 DEF Entry
        <4>2. CASE req[r].kind \in {"count", "restore"}
          BY <4>1, <4>2 DEF Follows, Updated, Base, Setter
        <4>3. CASE req[r].kind = "touch"
          BY <4>1, <4>3 DEF Follows, Updated, Base, Setter
        <4>4. CASE req[r].kind = "schedule"
          BY <4>1, <4>4 DEF Follows, Updated, Base, Setter
        <4> QED BY <3>1, <4>2, <4>3, <4>4 DEF Updates
      <3>7. \A b \in e.bases : Follows(b, b, r)
        BY DEF Follows
      <3>8. \A b \in e.bases : \E d \in c.bases : Follows(b, d, r)
        BY <3>5, <3>6, <3>7
      <3> QED BY <1>4, <3>1, <3>2, <3>3, <3>4, <3>5, <3>8
    <2> QED BY <2>1, <2>2
  <1> QED BY <1>1, <1>6, <1>7, <1>8 DEF Read

LEMMA InsertWork ==
    ASSUME CatalogInv, NEW r \in Requests, Insert(r)
    PROVE  WorkInv'
  <1>1. /\ pc[r] \in {"insert", "update"}
        /\ mem' = [mem EXCEPT ![req[r].source] = copy[r]]
        /\ UNCHANGED <<process, dirs, late, req, crashes>>
    BY DEF Insert
  <1>2. /\ FrameInv /\ pc[r] \in Holding /\ Work(r)
        /\ (pc[r] = "update" => Sourcely(r))
    BY <1>1 DEF CatalogInv, WorkInv, FrameInv, PlaceInv, Holding, Changing
  <1>3. CASE SaveFailed(r)
    BY <1>2, <1>3, ReplyWork DEF SaveFailed
  <1>4. ASSUME disk' = "torn",
               pc' = [pc EXCEPT ![r] = IF pc[r] = "insert" THEN "write" ELSE "rewrite"],
               UNCHANGED <<lock, answer, copy, faults>>
        PROVE  WorkInv'
    <2>1. /\ pc[r] = "insert" => pc'[r] = "write"
          /\ pc[r] = "update" => pc'[r] = "rewrite"
          /\ copy'[r] = copy[r] /\ Acked' = Acked
          /\ mem'[req[r].source] = copy[r]
      BY <1>1, <1>2, <1>4 DEF FrameInv, TypeOK, Acked, Command, Map
    <2>2. CloneWork(r)'
      BY <1>1, <1>2, <1>4, <2>1 DEF Work, CloneWork, Sourcely
    <2>3. Sourcely(r)' => SourceWork(r)'
      <3>1. Places' \subseteq Places
        BY <1>2, HolderPlaces
      <3> QED BY <1>1, <1>2, <2>1, <3>1 DEF Work, SourceWork, Sourcely, Path
    <2>4. (req[r].kind = "database")' => DatabaseWork(r)'
      BY <1>1, <1>2, <2>1 DEF Work, DatabaseWork, Path
    <2>5. Work(r)'
      BY <2>2, <2>3, <2>4 DEF Work
    <2> QED BY <1>2, <1>4, <2>5, GoWork
  <1> QED BY <1>3, <1>4 DEF Insert

LEMMA WriteWork ==
    ASSUME CatalogInv, NEW r \in Requests, Write(r)
    PROVE  WorkInv'
  <1>1. pc[r] \in {"write", "rewrite"} /\ UNCHANGED <<process, mem, dirs, late, req, crashes>>
    BY DEF Write
  <1>2. FrameInv /\ pc[r] \in Holding /\ Work(r)
    BY <1>1 DEF CatalogInv, WorkInv, Holding, Changing
  <1>3. ASSUME NEW a, Reply(r, a) PROVE WorkInv'
    BY <1>2, <1>3, ReplyWork
  <1>4. ASSUME disk' = "whole", stored' = mem, pc[r] # "rewrite",
               pc' = [pc EXCEPT ![r] = "mkdir"], UNCHANGED <<lock, answer, copy>>
        PROVE  WorkInv'
    <2>1. pc[r] = "write" /\ pc'[r] = "mkdir" /\ copy'[r] = copy[r] /\ Acked' = Acked
      BY <1>1, <1>2, <1>4 DEF FrameInv, TypeOK, Acked
    <2>2. CloneWork(r)'
      BY <1>1, <1>2, <1>4, <2>1 DEF Work, CloneWork
    <2>3. Sourcely(r)' => SourceWork(r)'
      <3>1. Places' \subseteq Places
        BY <1>2, HolderPlaces
      <3> QED BY <1>1, <1>2, <2>1, <3>1 DEF Work, SourceWork, Sourcely, Path
    <2>4. (req[r].kind = "database")' => DatabaseWork(r)'
      BY <1>1, <1>2, <2>1 DEF Work, DatabaseWork, Path
    <2>5. Work(r)'
      BY <2>2, <2>3, <2>4 DEF Work
    <2> QED BY <1>2, <1>4, <2>5, GoWork
  <1> QED BY <1>3, <1>4 DEF Write, Written, Contents, SaveFailed

LEMMA MkdirWork ==
    ASSUME CatalogInv, NEW r \in Requests, Mkdir(r)
    PROVE  WorkInv'
  <1>1. pc[r] = "mkdir" /\ UNCHANGED <<process, store, late, req, crashes>>
    BY DEF Mkdir
  <1>2. FrameInv /\ pc[r] \in Holding /\ Work(r) /\ req[r].kind \in Creates
    BY <1>1 DEF CatalogInv, FrameInv, PlaceInv, WorkInv, Holding, Changing
  <1>3. ASSUME NEW a, Reply(r, a) PROVE WorkInv'
    BY <1>2, <1>3, ReplyWork
  <1>4. ASSUME dirs' = dirs \cup Parents(Path(r)), req[r].kind # "database",
               copy' = [copy EXCEPT ![r].interval = req[r].interval],
               pc' = [pc EXCEPT ![r] = "update"], UNCHANGED <<lock, answer>>
        PROVE  WorkInv'
    <2>1. Sourcely(r)
      BY <1>2, <1>4 DEF Creates, Sourcely
    <2>2. /\ pc'[r] = "update" /\ Acked' = Acked
          /\ copy'[r].known = copy[r].known /\ copy'[r].bases = copy[r].bases
          /\ copy'[r].interval = req[r].interval
      BY <1>2, <1>4 DEF FrameInv, TypeOK, Acked, Entry
    <2>3. CloneWork(r)'
      BY <1>1, <1>2, <2>2 DEF Work, CloneWork, store
    <2>4. Path(r) = <<req[r].source, None>> /\ Parents(Path(r)) = {Path(r)}
      BY <1>2, <2>1 DEF FrameInv, RequestInv, Path, Parents
    <2>5. SourceWork(r)'
      <3>1. \A p \in Places' : p \in Places \/ p = Path(r)
        BY <1>2, <2>4, MkdirPlaces
      <3> QED BY <1>1, <1>2, <1>4, <2>1, <2>2, <2>4, <3>1 DEF Work, SourceWork, store, Path
    <2>6. Work(r)'
      BY <1>1, <1>4, <2>3, <2>5 DEF Work
    <2> QED BY <1>2, <1>4, <2>6, GoWork
  <1> QED BY <1>3, <1>4 DEF Mkdir, MadeDir

\* Requests that arrive or wait, restores, and what is left of dropped handlers
\* leave alone the work of the one that holds the lock.
LEMMA AsideWork ==
    ASSUME CatalogInv, NEW q \in Requests, pc[q] \in Changing,
           UNCHANGED <<mem, disk, stored>>, Acked' = Acked,
           pc'[q] = pc[q], req'[q] = req[q], copy'[q] = copy[q],
           \A r \in Acked : req'[r] = req[r],
           \A p \in dirs : p[2] = None => p \in dirs',
           Spread
    PROVE  Work(q)'
  <1>1. Work(q) /\ FrameInv
    BY DEF CatalogInv, WorkInv
  <1>2. CloneWork(q)'
    BY <1>1 DEF Work, CloneWork, Sourcely, Follows
  <1>3. ASSUME Sourcely(q) PROVE SourceWork(q)'
    <2>1. SourceWork(q)
      BY <1>1, <1>3 DEF Work
    <2>2. ASSUME NEW p \in Places', p[1] = req[q].source
          PROVE  pc[q] \in {"update", "rewrite"} /\ p[2] = None
      <3>1. CASE p \in Places
        BY <2>1, <2>2, <3>1 DEF SourceWork
      <3>2. ASSUME NEW o \in Places, p \in Parents(o)
            PROVE  pc[q] \in {"update", "rewrite"} /\ p[2] = None
        <4>1. o[1] = req[q].source
          BY <2>2, <3>2 DEF Parents
        <4>2. pc[q] \in {"update", "rewrite"} /\ o[2] = None
          BY <2>1, <4>1 DEF SourceWork
        <4> QED BY <3>2, <4>2 DEF Parents
      <3> QED BY <2>2, <3>1, <3>2 DEF Spread
    <2>3. Path(q)[2] = None
      BY <1>1, <1>3 DEF FrameInv, RequestInv, Path
    <2> QED BY <2>1, <2>2, <2>3 DEF SourceWork, Path
  <1>4. ASSUME req[q].kind = "database" PROVE DatabaseWork(q)'
    BY <1>1, <1>4 DEF Work, DatabaseWork, Path, Acked
  <1> QED BY <1>2, <1>3, <1>4 DEF Work, Sourcely

LEMMA StepWork == CatalogInv /\ [Next]_vars => WorkInv'
  <1> SUFFICES ASSUME CatalogInv, [Next]_vars PROVE WorkInv'
    OBVIOUS
  <1>1. FrameInv /\ LateInv /\ WorkInv
    BY DEF CatalogInv
  <1>2. \A p \in dirs : p[2] = None => p \in dirs'
    BY <1>1, RootsStay
  <1>3. Places' \subseteq Places => Spread
    BY DEF Spread
  <1>4. ASSUME NEW r \in Requests, Submit(r) PROVE WorkInv'
    <2>1. /\ pc[r] = "idle" /\ UNCHANGED <<process, store, lock, copy>>
          /\ \E c : req' = [req EXCEPT ![r] = c]
          /\ \/ \E p \in {"lock", "find"} : pc' = [pc EXCEPT ![r] = p] /\ UNCHANGED answer
             \/ /\ pc' = [pc EXCEPT ![r] = "end"]
                /\ \E a : answer' = [answer EXCEPT ![r] = a] /\ a # "created"
      <3>1. \A c : Refusal(c) # "created"
        BY DEF Refusal
      <3> QED BY <1>4, <3>1 DEF Submit
    <2>2. r \notin Acked /\ Acked' = Acked
      BY <1>1, <2>1 DEF FrameInv, PlaceInv, TypeOK, Acked
    <2> SUFFICES ASSUME NEW q \in Requests, pc'[q] \in Changing PROVE Work(q)'
      BY DEF WorkInv
    <2>3. q # r /\ pc'[q] = pc[q] /\ req'[q] = req[q]
      BY <1>1, <2>1 DEF FrameInv, TypeOK, Changing, Holding
    <2>4. \A u \in Acked : req'[u] = req[u]
      BY <1>1, <2>1, <2>2 DEF FrameInv, TypeOK, Acked
    <2>5. Spread
      BY <1>1, <1>3, <1>4, SubmitPlaces
    <2> QED BY <1>2, <2>1, <2>2, <2>3, <2>4, <2>5, AsideWork DEF store
  <1>5. ASSUME NEW r \in Requests, Lock(r) PROVE WorkInv'
    BY <1>1, <1>5 DEF Lock, Free, FrameInv, TypeOK, GuardInv, WorkInv, Changing, Holding
  <1>6. ASSUME NEW r \in Requests, pc[r] \in Restoring \cup {"lock"},
               UNCHANGED <<store, req>>, Spread,
               \/ \E p \in {"remove", "remake", "lock"} :
                     pc' = [pc EXCEPT ![r] = p] /\ UNCHANGED <<copy, answer>>
               \/ \E a : Reply(r, a) /\ a # "created"
        PROVE  WorkInv'
    <2>1. r \notin Acked /\ Acked' = Acked
      BY <1>1, <1>6 DEF Reply, FrameInv, PlaceInv, TypeOK, Acked, Restoring
    <2> SUFFICES ASSUME NEW q \in Requests, pc'[q] \in Changing PROVE Work(q)'
      BY DEF WorkInv
    <2>2. q # r /\ pc'[q] = pc[q] /\ copy'[q] = copy[q]
      BY <1>1, <1>6 DEF Reply, FrameInv, TypeOK, Changing, Holding
    <2> QED BY <1>2, <1>6, <2>1, <2>2, AsideWork DEF store
  <1>7. ASSUME NEW r \in Requests, Drop(r) PROVE WorkInv'
    <2>1. Reply(r, "dropped") /\ UNCHANGED <<store, req>> /\ pc[r] \in Awaiting
      BY <1>7 DEF Drop
    <2>2. CASE pc[r] = "mkdir"
      BY <1>1, <2>1, <2>2, ReplyWork DEF Holding
    <2>3. CASE pc[r] # "mkdir"
      <3>1. Spread
        BY <1>1, <1>3, <1>7, <2>3, DropPlaces
      <3> QED BY <1>6, <2>1, <2>3, <3>1 DEF Awaiting, OnDisk, Restoring
    <2> QED BY <2>2, <2>3
  <1>8. ASSUME NEW r \in Requests, Find(r) \/ Remove(r) \/ Remake(r) PROVE WorkInv'
    <2>1. Spread
      BY <1>1, <1>8, RestoreSpread
    <2>2. pc[r] \in Restoring /\ UNCHANGED <<store, req>>
      BY <1>8 DEF Find, Remove, Remake, Restoring
    <2>3. \/ \E p \in {"remove", "remake", "lock"} :
                pc' = [pc EXCEPT ![r] = p] /\ UNCHANGED <<copy, answer>>
          \/ \E a : Reply(r, a) /\ a # "created"
      BY <1>8 DEF Find, Remove, Remake
    <2> QED BY <1>6, <2>1, <2>2, <2>3
  <1>9. CASE LateChange
    <2>1. UNCHANGED <<process, store, lock, client>> /\ Acked' = Acked
      BY <1>9 DEF LateChange, client, Acked
    <2>2. Spread
      BY <1>1, <1>9, LateSpread
    <2> QED BY <1>1, <1>2, <2>1, <2>2, AsideWork DEF store, client, WorkInv
  <1>10. ASSUME NEW r \in Requests, StartInit(r) PROVE WorkInv'
    BY <1>1, <1>10 DEF StartInit, Load, FrameInv, TypeOK, GuardInv, WorkInv, Changing,
                       Holding, Active
  <1>11. CASE StartServing \/ Exit \/ Crash
    <2>1. \A q \in Requests : pc'[q] \notin Active
      <3>1. CASE StartServing
        BY <1>1, <3>1 DEF StartServing, Load, client, FrameInv, GuardInv
      <3>2. CASE Exit
        BY <3>2 DEF Exit, client
      <3>3. CASE Crash
        BY <1>1, <3>3 DEF Crash, FrameInv, TypeOK, Active, Holding, Restoring
      <3> QED BY <1>11, <3>1, <3>2, <3>3
    <2> QED BY <2>1 DEF WorkInv, Changing, Active
  <1>12. CASE UNCHANGED vars
    <2>1. /\ UNCHANGED <<process, store, lock, client>> /\ Acked' = Acked
          /\ Places' \subseteq Places
      BY <1>1, <1>12, ProcessPlaces DEF vars, store, client, Acked
    <2> QED BY <1>1, <1>2, <1>3, <2>1, AsideWork DEF store, client, WorkInv
  <1> QED
    BY <1>4, <1>5, <1>7, <1>8, <1>9, <1>10, <1>11, <1>12, ReadWork, InsertWork, WriteWork,
       MkdirWork
       DEF Next, Step

-----------------------------------------------------------------------------
(* What a step can do to what was acknowledged, to memory, to the file and  *)
(* to the directories.                                                      *)

\* Who is told that what they asked for is created: nobody, or r only.
NobodyTold == Acked' = Acked /\ \A q \in Acked : req'[q] = req[q]

OnlyTold(r) == Acked' = Acked \cup {r} /\ req' = req

Quiet == UNCHANGED <<process, mem, disk, stored>> /\ NobodyTold /\ Spread

Changes(r) ==
    /\ pc[r] \in {"insert", "update"}
    /\ mem' = [mem EXCEPT ![req[r].source] = copy[r]]
    /\ (disk' = "torn" /\ stored' = Empty) \/ UNCHANGED <<disk, stored>>
    /\ process' = process /\ Places' \subseteq Places
    /\ NobodyTold

Saves(r) ==
    /\ pc[r] \in {"write", "rewrite"}
    /\ disk' = "whole" /\ stored' = mem
    /\ UNCHANGED <<process, mem, dirs>> /\ Places' \subseteq Places
    /\ IF pc[r] = "rewrite" THEN OnlyTold(r) ELSE NobodyTold

Makes(r) ==
    /\ pc[r] = "mkdir"
    /\ dirs' = dirs \cup Parents(Path(r)) /\ Places' \subseteq Places \cup Parents(Path(r))
    /\ UNCHANGED <<process, mem, disk, stored>>
    /\ IF req[r].kind = "database" THEN OnlyTold(r) ELSE NobodyTold

Abandons(r) ==
    /\ pc[r] = "mkdir"
    /\ Places' \subseteq Places \cup {Path(r)}
    /\ UNCHANGED <<process, mem, disk, stored>>
    /\ NobodyTold

Starts ==
    /\ process = "down" /\ process' # "down" /\ disk # "torn"
    /\ mem' = Loaded
    /\ UNCHANGED <<disk, stored>> /\ Places' \subseteq Places
    /\ NobodyTold

Stops ==
    /\ process' = "down"
    /\ mem' = Empty
    /\ UNCHANGED <<disk, stored>> /\ Places' \subseteq Places
    /\ NobodyTold

Effects ==
    \/ Quiet
    \/ \E r \in Requests : Changes(r) \/ Saves(r) \/ Makes(r) \/ Abandons(r)
    \/ Starts \/ Stops

LEMMA ReplyTold ==
    ASSUME FrameInv, NEW r \in Requests, pc[r] \in Active, NEW a, Reply(r, a), UNCHANGED req
    PROVE  IF a = "created" THEN OnlyTold(r) ELSE NobodyTold
  <1>1. r \notin Acked
    BY DEF FrameInv, PlaceInv, Acked, Active, Holding, Restoring
  <1>2. answer' = [answer EXCEPT ![r] = a]
    BY DEF Reply
  <1> QED BY <1>1, <1>2 DEF NobodyTold, OnlyTold, Acked, FrameInv, TypeOK

LEMMA ToldNothing ==
    ASSUME UNCHANGED <<answer, req>>
    PROVE  NobodyTold
  BY DEF NobodyTold, OnlyTold, Acked

LEMMA StepEffect == FrameInv /\ [Next]_vars => Effects
  <1> SUFFICES ASSUME FrameInv, [Next]_vars PROVE Effects
    OBVIOUS
  <1>0. Places' \subseteq Places => Spread
    BY DEF Spread
  <1>1. ASSUME NEW r \in Requests, Submit(r) PROVE Quiet
    <2>1. /\ pc[r] = "idle" /\ UNCHANGED <<process, mem, disk, stored>>
          /\ \E c : req' = [req EXCEPT ![r] = c]
          /\ UNCHANGED answer \/ \E a : answer' = [answer EXCEPT ![r] = a] /\ a # "created"
      <3>1. \A c : Refusal(c) # "created"
        BY DEF Refusal
      <3> QED BY <1>1, <3>1 DEF Submit, store
    <2>2. r \notin Acked
      BY <2>1 DEF FrameInv, PlaceInv, Acked
    <2>3. Spread
      BY <1>0, <1>1, SubmitPlaces
    <2> QED BY <2>1, <2>2, <2>3 DEF Quiet, NobodyTold, Acked, FrameInv, TypeOK
  <1>2. ASSUME NEW r \in Requests, Lock(r) PROVE Quiet
    <2>1. Spread
      BY <1>0, <1>2, HolderPlaces
    <2> QED BY <1>2, <2>1, ToldNothing DEF Lock, store, Quiet
  <1>3. ASSUME NEW r \in Requests, Read(r) PROVE Quiet
    <2>1. pc[r] \in Active /\ UNCHANGED <<process, mem, disk, stored, req>>
      BY <1>3 DEF Read, store, Active, Holding
    <2>2. UNCHANGED answer \/ \E a : Reply(r, a) /\ a # "created"
      BY <1>3 DEF Read, ReadSource, ReadDatabase, ReadUpdate, Clone
    <2>3. Spread
      BY <1>0, <1>3, HolderPlaces
    <2> QED BY <2>1, <2>2, <2>3, ReplyTold, ToldNothing DEF Quiet
  <1>4. ASSUME NEW r \in Requests, Insert(r) PROVE Changes(r)
    <2>1. pc[r] \in Active
      BY <1>4 DEF Insert, Active, Holding
    <2>2. UNCHANGED req /\ (UNCHANGED answer \/ \E a : Reply(r, a) /\ a # "created")
      BY <1>4 DEF Insert, SaveFailed
    <2>3. NobodyTold
      BY <2>1, <2>2, ReplyTold, ToldNothing
    <2>4. Places' \subseteq Places
      BY <1>4, HolderPlaces
    <2> QED BY <1>4, <2>3, <2>4 DEF Insert, Changes
  <1>5. ASSUME NEW r \in Requests, Write(r) PROVE Quiet \/ Saves(r)
    <2>1. pc[r] \in Active /\ UNCHANGED <<process, mem, dirs, req>>
      BY <1>5 DEF Write, Active, Holding
    <2>2. Places' \subseteq Places
      BY <1>5, HolderPlaces
    <2>3. CASE Written(r)
      <3>1. \/ UNCHANGED answer /\ pc[r] # "rewrite"
            \/ Reply(r, "done") /\ pc[r] # "rewrite"
            \/ Reply(r, "created") /\ pc[r] = "rewrite"
        BY <2>3 DEF Written
      <3>2. IF pc[r] = "rewrite" THEN OnlyTold(r) ELSE NobodyTold
        BY <2>1, <3>1, ReplyTold, ToldNothing
      <3> QED BY <1>5, <2>1, <2>2, <2>3, <3>2 DEF Write, Written, Contents, Saves
    <2>4. CASE SaveFailed(r) /\ UNCHANGED <<disk, stored>>
      <3>1. NobodyTold
        BY <2>1, <2>4, ReplyTold DEF SaveFailed
      <3> QED BY <1>0, <2>1, <2>2, <2>4, <3>1 DEF Quiet
    <2> QED BY <1>5, <2>3, <2>4 DEF Write
  <1>6. ASSUME NEW r \in Requests, Mkdir(r) PROVE Quiet \/ Makes(r)
    <2>1. pc[r] \in Active /\ UNCHANGED <<process, mem, disk, stored, req>>
      BY <1>6 DEF Mkdir, store, Active, Holding
    <2>2. CASE MadeDir(r)
      <3>1. \/ UNCHANGED answer /\ req[r].kind # "database"
            \/ Reply(r, "created") /\ req[r].kind = "database"
        BY <2>2 DEF MadeDir
      <3>2. IF req[r].kind = "database" THEN OnlyTold(r) ELSE NobodyTold
        BY <2>1, <3>1, ReplyTold, ToldNothing
      <3>3. Places' \subseteq Places \cup Parents(Path(r))
        BY <1>6, MkdirPlaces
      <3> QED BY <1>6, <2>1, <2>2, <3>2, <3>3 DEF Mkdir, MadeDir, Makes
    <2>3. CASE Reply(r, "failed") /\ UNCHANGED dirs
      <3>1. NobodyTold
        BY <2>1, <2>3, ReplyTold
      <3>2. Spread
        BY <1>0, <1>6, <2>3, MkdirPlaces
      <3> QED BY <2>1, <2>3, <3>1, <3>2 DEF Quiet
    <2> QED BY <1>6, <2>2, <2>3 DEF Mkdir
  <1>7. ASSUME NEW r \in Requests, Drop(r) PROVE Quiet \/ Abandons(r)
    <2>1. /\ pc[r] \in Active /\ Reply(r, "dropped")
          /\ UNCHANGED <<process, mem, disk, stored, req>>
      BY <1>7 DEF Drop, Awaiting, OnDisk, store, Active, Holding, Restoring
    <2>2. NobodyTold
      BY <2>1, ReplyTold
    <2>3. Places' \subseteq IF pc[r] = "mkdir" THEN Places \cup {Path(r)} ELSE Places
      BY <1>7, DropPlaces
    <2> QED BY <1>0, <2>1, <2>2, <2>3 DEF Quiet, Abandons
  <1>8. ASSUME NEW r \in Requests, Find(r) \/ Remove(r) \/ Remake(r) PROVE Quiet
    <2>1. pc[r] \in Active /\ UNCHANGED <<process, mem, disk, stored, req>>
      BY <1>8 DEF Find, Remove, Remake, store, Active, Restoring
    <2>2. UNCHANGED answer \/ \E a : Reply(r, a) /\ a # "created"
      BY <1>8 DEF Find, Remove, Remake
    <2> QED BY <1>8, <2>1, <2>2, ReplyTold, ToldNothing, RestoreSpread DEF Quiet
  <1>9. CASE LateChange
    BY <1>9, ToldNothing, LateSpread DEF LateChange, store, client, Quiet, Effects
  <1>10. ASSUME NEW r \in Requests, StartInit(r) PROVE Starts
    <2>1. r \notin Acked
      BY <1>10 DEF StartInit, FrameInv, PlaceInv, Acked
    <2>2. NobodyTold
      BY <1>10, <2>1 DEF StartInit, NobodyTold, Acked, FrameInv, TypeOK
    <2> QED BY <1>10, <2>2, SubmitPlaces DEF StartInit, Load, Starts
  <1>11. CASE StartServing
    BY <1>11, ToldNothing, ProcessPlaces DEF StartServing, Load, client, Starts, Effects
  <1>12. CASE Exit
    BY <1>12, ToldNothing, ProcessPlaces DEF Exit, client, Stops, Effects
  <1>13. CASE Crash
    <2>1. \A r \in Requests : answer[r] = "created" => pc[r] \notin Active
      BY DEF FrameInv, PlaceInv, Active, Holding, Restoring
    <2>2. NobodyTold
      BY <1>13, <2>1 DEF Crash, NobodyTold, Acked
    <2> QED BY <1>13, <2>2, ProcessPlaces DEF Crash, Stops, Effects
  <1>14. CASE UNCHANGED vars
    BY <1>0, <1>14, ToldNothing, ProcessPlaces DEF vars, store, client, Quiet, Effects
  <1> QED
    BY <1>1, <1>2, <1>3, <1>4, <1>5, <1>6, <1>7, <1>8, <1>9, <1>10, <1>11, <1>12, <1>13,
       <1>14
       DEF Next, Step, Effects

-----------------------------------------------------------------------------
(* The invariants, effect by effect.                                        *)

LEMMA StepBare == CatalogInv /\ Effects => BareInv'
  <1> SUFFICES ASSUME CatalogInv, Effects PROVE BareInv'
    OBVIOUS
  <1>1. BareInv /\ FrameInv /\ WorkInv
    BY DEF CatalogInv
  <1>2. \A s \in Sources : Empty[s].bases = {}
    BY DEF Empty, Unknown
  <1>3. ASSUME NEW r \in Requests, Changes(r) PROVE BareInv'
    <2>1. copy[r].known
      BY <1>1, <1>3 DEF Changes, WorkInv, Work, CloneWork, Changing, Holding
    <2>2. \A s \in Sources : mem'[s] = mem[s] \/ mem'[s] = copy[r]
      BY <1>1, <1>3 DEF Changes, FrameInv, TypeOK, Map
    <2>3. stored' = Empty \/ stored' = stored
      BY <1>3 DEF Changes
    <2> QED BY <1>1, <1>2, <2>1, <2>2, <2>3 DEF BareInv
  <1>4. CASE Starts
    BY <1>1, <1>2, <1>4 DEF Starts, Loaded, BareInv
  <1>5. CASE Stops
    BY <1>1, <1>2, <1>5 DEF Stops, BareInv
  <1>6. ASSUME UNCHANGED mem, UNCHANGED stored \/ stored' = mem PROVE BareInv'
    BY <1>1, <1>6 DEF BareInv
  <1> QED
    BY <1>3, <1>4, <1>5, <1>6 DEF Effects, Quiet, Saves, Makes, Abandons

\* Where the clone replaces the entry, what was listed still is.
LEMMA ChangeListed ==
    ASSUME CatalogInv, NEW r \in Requests, Changes(r), NEW p \in Places
    PROVE  Listed(mem', p)
  <1>1. FrameInv /\ Work(r) /\ process # "down" /\ (pc[r] = "update" => Sourcely(r))
    BY Up DEF Changes, CatalogInv, WorkInv, Changing, Holding, Active, FrameInv, PlaceInv
  <1>2. Listed(mem, p) /\ p[1] \in Sources
    BY <1>1, PlacesType DEF CatalogInv, ListInv, Dir
  <1> DEFINE s == req[r].source
  <1>3. s \in Sources /\ mem' = [mem EXCEPT ![s] = copy[r]] /\ mem \in Map
    BY <1>1 DEF Changes, FrameInv, TypeOK, Command
  <1>4. CASE p[1] # s
    BY <1>2, <1>3, <1>4 DEF Listed, Map
  <1>5. CASE p[1] = s /\ Sourcely(r)
    <2>1. copy[r].known /\ p[2] = None
      BY <1>1, <1>5 DEF Work, CloneWork, SourceWork
    <2> QED BY <1>2, <1>3, <1>5, <2>1 DEF Listed, Map
  <1>6. CASE p[1] = s /\ ~Sourcely(r)
    <2>1. copy[r].known /\ \A b \in mem[s].bases : \E c \in copy[r].bases : Follows(b, c, r)
      BY <1>1, <1>6 DEF Changes, Work, CloneWork
    <2>2. \A n : Has(mem[s], n) => Has(copy[r], n)
      BY <2>1 DEF Has, Follows
    <2> QED BY <1>2, <1>3, <1>6, <2>1, <2>2 DEF Listed, Map
  <1> QED BY <1>4, <1>5, <1>6

\* The directory that is made has its entry.
LEMMA MadeListed ==
    ASSUME CatalogInv, NEW r \in Requests, pc[r] = "mkdir"
    PROVE  /\ disk = "whole" /\ stored = mem
           /\ \A p \in Parents(Path(r)) : Listed(mem, p)
  <1>1. Work(r) /\ req[r].kind \in Creates /\ FrameInv
    BY DEF CatalogInv, WorkInv, Changing, Holding, FrameInv, PlaceInv
  <1>2. mem[req[r].source] = copy[r] /\ copy[r].known /\ disk = "whole" /\ stored = mem
    BY <1>1 DEF Work, CloneWork
  <1>3. req[r].name # None => Has(copy[r], req[r].name)
    BY <1>1 DEF Work, DatabaseWork, Has, FrameInv, RequestInv, Sourcely, Creates
  <1> QED BY <1>2, <1>3 DEF Parents, Path, Listed

LEMMA StepList == CatalogInv /\ Effects => ListInv'
  <1> SUFFICES ASSUME CatalogInv, Effects PROVE ListInv'
    OBVIOUS
  <1>1. ListInv /\ FrameInv /\ WorkInv
    BY DEF CatalogInv
  <1>2. CASE Quiet
    <2>1. \A o : \A p \in Parents(o) : p = o \/ (p[1] = o[1] /\ p[2] = None)
      BY DEF Parents
    <2>2. \A map : (\A o \in Places : Listed(map, o)) => \A p \in Places' : Listed(map, p)
      BY <1>2, <2>1 DEF Quiet, Spread, Listed
    <2>3. Places = {} => Places' = {}
      BY <1>2 DEF Quiet, Spread
    <2>4. UNCHANGED <<process, mem, disk, stored>> /\ Acked' = Acked
      BY <1>2 DEF Quiet, NobodyTold
    <2> QED BY <1>1, <2>2, <2>3, <2>4 DEF ListInv, Listed
  <1>3. ASSUME NEW r \in Requests, Changes(r) PROVE ListInv'
    <2>1. \A p \in Places : Listed(mem', p)
      BY <1>3, ChangeListed
    <2> QED BY <1>1, <1>3, <2>1 DEF Changes, NobodyTold, ListInv, Listed
  <1>4. ASSUME NEW r \in Requests, Saves(r) PROVE ListInv'
    <2>1. process # "down"
      BY <1>1, <1>4, Up DEF Saves, Active, Holding
    <2> QED BY <1>1, <1>4, <2>1 DEF Saves, ListInv, Listed
  <1>5. ASSUME NEW r \in Requests, Makes(r) PROVE ListInv'
    BY <1>1, <1>5, MadeListed DEF Makes, ListInv, Listed
  <1>6. ASSUME NEW r \in Requests, Abandons(r) PROVE ListInv'
    <2>1. Path(r) \in Parents(Path(r))
      BY DEF Parents
    <2> QED BY <1>1, <1>6, <2>1, MadeListed DEF Abandons, NobodyTold, ListInv, Listed
  <1>7. CASE Starts
    BY <1>1, <1>7 DEF Starts, Loaded, NobodyTold, ListInv, Listed, FrameInv, TypeOK
  <1>8. CASE Stops
    BY <1>1, <1>8 DEF Stops, NobodyTold, ListInv, Listed
  <1> QED BY <1>2, <1>3, <1>4, <1>5, <1>6, <1>7, <1>8 DEF Effects

-----------------------------------------------------------------------------
(* What was acknowledged.                                                   *)

LEMMA KeptSame ==
    ASSUME NEW r \in Requests, NEW map, Kept(map, r), req'[r] = req[r]
    PROVE  Kept(map, r)'
  BY DEF Kept

LEMMA ChangeKept ==
    ASSUME CatalogInv, NEW r \in Requests, Changes(r), NEW q \in Acked, Kept(mem, q)
    PROVE  Kept(mem', q)
  <1>1. FrameInv /\ Work(r) /\ (pc[r] = "update" => Sourcely(r)) /\ q \in Requests
    BY DEF Changes, CatalogInv, WorkInv, Changing, Holding, FrameInv, PlaceInv, Acked
  <1> DEFINE s == req[r].source
  <1>2. /\ s \in Sources /\ mem' = [mem EXCEPT ![s] = copy[r]] /\ mem \in Map
        /\ req[q].source \in Sources
    BY <1>1 DEF Changes, FrameInv, TypeOK, Command
  <1>3. CASE req[q].source # s
    BY <1>2, <1>3 DEF Kept, Map
  <1>4. CASE req[q].source = s
    <2>1. ~Sourcely(r)
      BY <1>1, <1>4 DEF Work, SourceWork
    <2>2. /\ copy[r].known /\ copy[r].interval = mem[s].interval
          /\ \A b \in mem[s].bases : \E c \in copy[r].bases : Follows(b, c, r)
      BY <1>1, <2>1 DEF Changes, Work, CloneWork
    <2>3. mem'[s] = copy[r]
      BY <1>2 DEF Map
    <2> QED BY <1>4, <2>2, <2>3 DEF Kept, Follows
  <1> QED BY <1>3, <1>4

\* Who is told finds what was asked for, in memory and in the file.
LEMMA MadeKept ==
    ASSUME CatalogInv, NEW r \in Requests, pc[r] = "mkdir", req[r].kind = "database"
    PROVE  Kept(mem, r)
  <1>1. Work(r)
    BY DEF CatalogInv, WorkInv, Changing, Holding
  <1> QED BY <1>1 DEF Work, CloneWork, DatabaseWork, Kept

LEMMA RewrittenKept ==
    ASSUME CatalogInv, NEW r \in Requests, pc[r] = "rewrite"
    PROVE  Kept(mem, r) /\ Path(r) \in dirs
  <1>1. Work(r) /\ Sourcely(r)
    BY DEF CatalogInv, WorkInv, Changing, Holding, FrameInv, PlaceInv
  <1>2. req[r].kind # "database"
    BY <1>1 DEF Sourcely
  <1> QED BY <1>1, <1>2 DEF Work, CloneWork, SourceWork, Kept

\* The directory of what was acknowledged is there, or excused.
LEMMA StepDir ==
    ASSUME CatalogInv, [Next]_vars, NEW q \in Acked'
    PROVE  DirKept(Path(q))'
  <1>1. FrameInv /\ LateInv /\ Effects /\ \A r \in Acked : r \in Requests /\ DirKept(Path(r))
    BY StepEffect DEF CatalogInv, AckedUsable, Acked
  <1>2. CASE q \in Acked
    <2>1. pc[q] # "idle"
      BY <1>1, <1>2 DEF FrameInv, PlaceInv, Acked
    <2> QED BY <1>1, <1>2, <2>1, DirStaysKept
  <1>3. ASSUME NEW r \in Requests, Saves(r), q \notin Acked PROVE Path(q)' \in dirs'
    <2>1. q = r /\ pc[r] = "rewrite" /\ UNCHANGED <<req, dirs>>
      BY <1>3 DEF Saves, OnlyTold, NobodyTold
    <2> QED BY <2>1, RewrittenKept DEF Path
  <1>4. ASSUME NEW r \in Requests, Makes(r), q \notin Acked PROVE Path(q)' \in dirs'
    <2>1. q = r /\ UNCHANGED req /\ Path(r) \in dirs'
      BY <1>4 DEF Makes, OnlyTold, NobodyTold, Parents
    <2> QED BY <2>1 DEF Path
  <1>5. q \in Acked \/ \E r \in Requests : Saves(r) \/ Makes(r)
    BY <1>1 DEF Effects, Quiet, Changes, Abandons, Starts, Stops, NobodyTold
  <1> QED BY <1>2, <1>3, <1>4, <1>5 DEF DirKept

LEMMA StepKept ==
    CatalogInv /\ Effects =>
        /\ \A q \in Acked' : process' # "down" => Kept(mem, q)'
        /\ AckedDurable'
  <1> SUFFICES ASSUME CatalogInv, Effects, NEW q \in Requests, q \in Acked'
               PROVE  /\ process' # "down" => Kept(mem, q)'
                      /\ disk' = "whole" => Kept(stored, q)'
    BY DEF AckedDurable, Acked
  <1>1. /\ FrameInv /\ WorkInv /\ ListInv
        /\ \A u \in Acked : process # "down" => Kept(mem, u)
        /\ \A u \in Acked : disk = "whole" => Kept(stored, u)
    BY DEF CatalogInv, AckedUsable, AckedDurable, Acked
  <1> USE DEF Kept
  <1>2. NobodyTold => q \in Acked /\ req'[q] = req[q]
    BY DEF NobodyTold
  <1>3. CASE Quiet
    BY <1>1, <1>2, <1>3 DEF Quiet
  <1>4. ASSUME NEW r \in Requests, Changes(r)
        PROVE  /\ process' # "down" => Kept(mem, q)'
               /\ disk' = "whole" => Kept(stored, q)'
    <2>1. process # "down"
      BY <1>1, <1>4, Up DEF Changes, Active, Holding
    <2>2. q \in Acked /\ req'[q] = req[q]
      BY <1>2, <1>4 DEF Changes
    <2>3. Kept(mem', q)
      BY <1>1, <1>4, <2>1, <2>2, ChangeKept
    <2> QED BY <1>1, <1>4, <2>2, <2>3 DEF Changes
  <1>5. ASSUME NEW r \in Requests, Saves(r)
        PROVE  /\ process' # "down" => Kept(mem, q)'
               /\ disk' = "whole" => Kept(stored, q)'
    <2>1. process # "down"
      BY <1>1, <1>5, Up DEF Saves, Active, Holding
    <2>2. req'[q] = req[q] /\ (q \in Acked \/ (q = r /\ pc[r] = "rewrite"))
      BY <1>2, <1>5 DEF Saves, OnlyTold
    <2>3. Kept(mem, q)
      BY <1>1, <2>1, <2>2, RewrittenKept
    <2> QED BY <1>5, <2>2, <2>3 DEF Saves
  <1>6. ASSUME NEW r \in Requests, Makes(r)
        PROVE  /\ process' # "down" => Kept(mem, q)'
               /\ disk' = "whole" => Kept(stored, q)'
    <2>1. process # "down" /\ stored = mem
      BY <1>1, <1>6, Up, MadeListed DEF Makes, Active, Holding
    <2>2. req'[q] = req[q] /\ (q \in Acked \/ (q = r /\ req[r].kind = "database"))
      BY <1>2, <1>6 DEF Makes, OnlyTold
    <2>3. Kept(mem, q)
      BY <1>1, <1>6, <2>1, <2>2, MadeKept DEF Makes
    <2> QED BY <1>6, <2>1, <2>2, <2>3 DEF Makes
  <1>7. ASSUME NEW r \in Requests, Abandons(r)
        PROVE  /\ process' # "down" => Kept(mem, q)'
               /\ disk' = "whole" => Kept(stored, q)'
    BY <1>1, <1>2, <1>7 DEF Abandons
  <1>8. CASE Starts
    <2>1. q \in Acked /\ req'[q] = req[q] /\ disk # "absent"
      BY <1>1, <1>2, <1>8 DEF Starts, ListInv
    <2>2. disk = "whole" /\ mem' = stored
      BY <1>1, <1>8, <2>1 DEF Starts, Loaded, FrameInv, TypeOK
    <2> QED BY <1>1, <1>8, <2>1, <2>2 DEF Starts
  <1>9. CASE Stops
    BY <1>1, <1>2, <1>9 DEF Stops
  <1> QED BY <1>3, <1>4, <1>5, <1>6, <1>7, <1>8, <1>9 DEF Effects

LEMMA StepOwner == CatalogInv /\ Effects => OneOwner'
  <1> SUFFICES ASSUME CatalogInv, Effects PROVE OneOwner'
    OBVIOUS
  <1>1. /\ FrameInv /\ WorkInv
        /\ \A u, v \in Acked :
             req[u].kind \in {"source", "database"} /\ req[v].kind = req[u].kind
             /\ Path(u) = Path(v) => u = v
    BY DEF CatalogInv, OneOwner, Acked
  <1>2. CASE NobodyTold
    BY <1>1, <1>2 DEF NobodyTold, OneOwner, Acked, Path
  <1>3. ASSUME NEW r \in Requests, OnlyTold(r),
               \A u \in Acked : req[u].kind = req[r].kind => Path(u) # Path(r)
        PROVE  OneOwner'
    BY <1>1, <1>3 DEF OnlyTold, OneOwner, Acked, Path
  <1>4. ASSUME NEW r \in Requests, pc[r] = "rewrite", OnlyTold(r) PROVE OneOwner'
    <2>1. Work(r) /\ Sourcely(r)
      BY <1>1, <1>4 DEF WorkInv, Changing, Holding, FrameInv, PlaceInv
    <2>2. \A u \in Acked : req[u].source # req[r].source
      BY <2>1 DEF Work, SourceWork
    <2> QED BY <1>3, <1>4, <2>2 DEF Path
  <1>5. ASSUME NEW r \in Requests, pc[r] = "mkdir", req[r].kind = "database", OnlyTold(r)
        PROVE  OneOwner'
    <2>1. Work(r)
      BY <1>1, <1>5 DEF WorkInv, Changing, Holding
    <2> QED BY <1>3, <1>5, <2>1 DEF Work, DatabaseWork
  <1> QED
    BY <1>2, <1>4, <1>5
       DEF Effects, Quiet, Changes, Saves, Makes, Abandons, Starts, Stops

-----------------------------------------------------------------------------
(* The file against memory, and one entry against the next.                 *)

\* While nothing has failed and nobody is between truncating the file and having
\* written it, the file holds what memory holds.
SettledInv ==
    faults = 0 /\ process # "down" /\ (\A r \in Requests : pc[r] \notin {"write", "rewrite"})
    => disk # "torn" /\ mem = Loaded

LEMMA StepSettled == FrameInv /\ SettledInv /\ [Next]_vars => SettledInv'
  <1> SUFFICES ASSUME FrameInv, SettledInv, [Next]_vars,
                      faults' = 0, process' # "down",
                      \A r \in Requests : pc'[r] \notin {"write", "rewrite"}
               PROVE  disk' # "torn" /\ mem' = Loaded'
    BY DEF SettledInv
  <1> USE DEF Loaded
  <1>1. faults \in Nat /\ (Fault => faults' # 0)
    BY DEF Fault, FrameInv, TypeOK
  <1>2. ASSUME UNCHANGED <<mem, disk, stored, faults>>, process # "down",
               NEW r \in Requests, pc[r] \notin {"write", "rewrite"}, NEW a,
               pc' = [pc EXCEPT ![r] = a] \/ UNCHANGED pc
        PROVE  disk' # "torn" /\ mem' = Loaded'
    BY <1>2 DEF SettledInv, FrameInv, TypeOK
  <1>3. ASSUME NEW r \in Requests, Submit(r) PROVE disk' # "torn" /\ mem' = Loaded'
    <2>1. \E a : pc' = [pc EXCEPT ![r] = a]
      BY <1>3 DEF Submit
    <2> QED BY <1>2, <1>3, <2>1 DEF Submit, store
  <1>4. ASSUME NEW r \in Requests, Lock(r) PROVE disk' # "torn" /\ mem' = Loaded'
    <2>1. process # "down"
      BY <1>4, Up DEF Lock, Active
    <2> QED BY <1>2, <1>4, <2>1 DEF Lock, store
  <1>5. ASSUME NEW r \in Requests, Read(r) PROVE disk' # "torn" /\ mem' = Loaded'
    <2>1. \E a : pc' = [pc EXCEPT ![r] = a]
      BY <1>5 DEF Read, ReadSource, ReadDatabase, ReadUpdate, Reply, Clone
    <2>2. process # "down"
      BY <1>5, Up DEF Read, Active, Holding
    <2> QED BY <1>2, <1>5, <2>1, <2>2 DEF Read, store
  <1>6. ASSUME NEW r \in Requests, Insert(r) PROVE disk' # "torn" /\ mem' = Loaded'
    <2>1. pc' = [pc EXCEPT ![r] = IF pc[r] = "insert" THEN "write" ELSE "rewrite"]
      BY <1>1, <1>6 DEF Insert
    <2> QED BY <2>1 DEF FrameInv, TypeOK
  <1>7. ASSUME NEW r \in Requests, Write(r) PROVE disk' # "torn" /\ mem' = Loaded'
    BY <1>1, <1>7 DEF Write, Written, Contents
  <1>8. ASSUME NEW r \in Requests, Mkdir(r) PROVE disk' # "torn" /\ mem' = Loaded'
    <2>1. \E a : pc' = [pc EXCEPT ![r] = a]
      BY <1>8 DEF Mkdir, MadeDir, Reply
    <2>2. process # "down"
      BY <1>8, Up DEF Mkdir, Active, Holding
    <2>3. UNCHANGED faults
      BY <1>1, <1>8 DEF Mkdir, MadeDir
    <2> QED BY <1>2, <1>8, <2>1, <2>2, <2>3 DEF Mkdir, store
  <1>9. ASSUME NEW r \in Requests, Drop(r) PROVE disk' # "torn" /\ mem' = Loaded'
    <2>1. \E a : pc' = [pc EXCEPT ![r] = a]
      BY <1>9 DEF Drop, Reply
    <2> QED BY <1>2, <1>9, <2>1 DEF Drop, Awaiting, OnDisk, store
  <1>10. CASE LateChange
    <2>1. UNCHANGED <<process, mem, disk, stored, pc, faults>>
      BY <1>1, <1>10 DEF LateChange, store, client
    <2> QED BY <2>1 DEF SettledInv
  <1>11. CASE StartServing \/ \E r \in Requests : StartInit(r)
    BY <1>11 DEF StartServing, StartInit, Load
  <1>12. CASE Exit \/ Crash
    BY <1>12 DEF Exit, Crash
  <1>13. ASSUME NEW r \in Requests, Find(r) \/ Remove(r) \/ Remake(r)
         PROVE  disk' # "torn" /\ mem' = Loaded'
    <2>1. \E a : pc' = [pc EXCEPT ![r] = a]
      BY <1>13 DEF Find, Remove, Remake, Reply
    <2>2. process # "down" /\ pc[r] \notin {"write", "rewrite"}
      BY <1>13, Up DEF Find, Remove, Remake, Active, Restoring
    <2>3. UNCHANGED <<mem, disk, stored, faults>>
      BY <1>1, <1>13 DEF Find, Remove, Remake, store
    <2> QED BY <1>2, <2>1, <2>2, <2>3
  <1>14. CASE UNCHANGED vars
    BY <1>14 DEF vars, store, client, SettledInv
  <1> QED
    BY <1>3, <1>4, <1>5, <1>6, <1>7, <1>8, <1>9, <1>10, <1>11, <1>12, <1>13, <1>14
       DEF Next, Step

LEMMA StepFields ==
    CatalogInv /\ Effects =>
        ((process # "down" /\ process' # "down") =>
            \A s \in Sources : \A b \in mem[s].bases : \E c \in mem'[s].bases :
                /\ c.id = b.id /\ c.name = b.name
                /\ \A f \in {"count", "last", "next"} :
                    c[f] # b[f] => c[f] = lock /\ req[lock].kind \in Setter(b, f))
  <1> SUFFICES ASSUME CatalogInv, Effects, process # "down", process' # "down",
                      NEW s \in Sources, NEW b \in mem[s].bases
               PROVE  \E c \in mem'[s].bases :
                        /\ c.id = b.id /\ c.name = b.name
                        /\ \A f \in {"count", "last", "next"} :
                            c[f] # b[f] => c[f] = lock /\ req[lock].kind \in Setter(b, f)
    OBVIOUS
  <1>1. CASE UNCHANGED mem
    BY <1>1
  <1>2. ASSUME NEW r \in Requests, Changes(r)
        PROVE  \E c \in mem'[s].bases :
                 /\ c.id = b.id /\ c.name = b.name
                 /\ \A f \in {"count", "last", "next"} :
                     c[f] # b[f] => c[f] = lock /\ req[lock].kind \in Setter(b, f)
    <2>1. FrameInv /\ Work(r) /\ lock = r /\ (pc[r] = "update" => Sourcely(r))
      BY <1>2 DEF Changes, CatalogInv, WorkInv, Changing, Holding, FrameInv, GuardInv, PlaceInv
    <2>2. mem' = [mem EXCEPT ![req[r].source] = copy[r]] /\ mem \in Map
      BY <1>2, <2>1 DEF Changes, FrameInv, TypeOK
    <2>3. CASE s # req[r].source
      BY <2>2, <2>3 DEF Map
    <2>4. CASE s = req[r].source
      <3>1. ~Sourcely(r)
        BY <2>1, <2>4 DEF Work, SourceWork
      <3>2. PICK c \in copy[r].bases : Follows(b, c, r)
        BY <1>2, <2>1, <2>4, <3>1 DEF Changes, Work, CloneWork
      <3>3. mem'[s] = copy[r]
        BY <2>2, <2>4 DEF Map
      <3> QED BY <2>1, <3>2, <3>3 DEF Follows
    <2> QED BY <2>3, <2>4
  <1> QED
    BY <1>1, <1>2 DEF Effects, Quiet, Saves, Makes, Abandons, Starts, Stops

-----------------------------------------------------------------------------
(* The theorems.                                                            *)

LEMMA CatalogInitially == Init => CatalogInv /\ SettledInv
  <1> SUFFICES ASSUME Init PROVE CatalogInv /\ SettledInv
    OBVIOUS
  <1>1. FrameInv
    BY FrameInitially
  <1>2. Acked = {} /\ process = "down" /\ Places = dirs /\ mem = Empty /\ LateInv
    BY DEF Init, Acked, Places, Underway, LateInv
  <1>3. WorkInv
    BY DEF Init, WorkInv, Changing, Holding
  <1>4. AckedUsable /\ AckedDurable /\ OneOwner
    BY DEF Init, AckedUsable, AckedDurable, OneOwner
  <1>5. ListInv /\ BareInv
    <2>1. CASE New
      BY <1>2, <2>1 DEF New, ListInv, BareInv, Empty, Unknown
    <2>2. CASE Used
      <3>1. PICK old \in SUBSET Names :
              /\ disk = "whole"
              /\ stored = Left(old)
              /\ dirs = {<<Default, n>> : n \in old \cup {None}}
        BY <2>2 DEF Used
      <3>2. /\ stored[Default].known
            /\ stored[Default].bases = {Past(n) : n \in old}
            /\ \A s \in Sources : s # Default => stored[s] = Unknown
        BY <3>1 DEF Left, Empty
      <3>3. ASSUME NEW p \in dirs PROVE Listed(stored, p)
        <4>1. PICK n \in old \cup {None} : p = <<Default, n>>
          BY <3>1
        <4>2. n # None => Past(n) \in stored[Default].bases /\ Past(n).name = n
          BY <3>2, <4>1 DEF Past
        <4> QED BY <3>2, <4>1, <4>2 DEF Listed, Has
      <3>4. ListInv
        BY <1>2, <3>1, <3>3 DEF ListInv
      <3>5. BareInv
        BY <1>2, <3>2 DEF BareInv, Empty, Unknown
      <3> QED BY <3>4, <3>5
    <2> QED BY <2>1, <2>2 DEF Init
  <1>6. SettledInv
    BY <1>2 DEF SettledInv
  <1> QED BY <1>1, <1>2, <1>3, <1>4, <1>5, <1>6 DEF CatalogInv

LEMMA CatalogInductive == CatalogInv /\ [Next]_vars => CatalogInv'
  <1> SUFFICES ASSUME CatalogInv, [Next]_vars PROVE CatalogInv'
    OBVIOUS
  <1>1. FrameInv' /\ LateInv' /\ Effects
    BY FrameInductive, StepLate, StepEffect DEF CatalogInv
  <1>2. AckedUsable' /\ AckedDurable'
    BY <1>1, StepDir, StepKept DEF AckedUsable, Acked
  <1> QED BY <1>1, <1>2, StepWork, StepList, StepBare, StepOwner DEF CatalogInv

\* The inductive invariants hold of every behaviour.
THEOREM CatalogAlways == Spec => [](CatalogInv /\ SettledInv)
  <1>1. CatalogInv /\ SettledInv /\ [Next]_vars => (CatalogInv /\ SettledInv)'
    BY CatalogInductive, StepSettled DEF CatalogInv
  <1> QED BY <1>1, CatalogInitially, PTL DEF Spec

\* Every variable keeps its type.
THEOREM TypesAlways == Spec => []TypeOK
  <1>1. CatalogInv => TypeOK
    BY DEF CatalogInv, FrameInv
  <1> QED BY <1>1, CatalogAlways, PTL

\* What create_new_source and create_new_database acknowledged stays in memory,
\* whatever else runs, fails, is dropped or crashes, and its directory stays on
\* disk, unless a restore of that database has removed it and has yet to make it
\* again, or was cut short (restore_database_backup).
THEOREM AckedAlwaysUsable == Spec => []AckedUsable
  <1>1. CatalogInv => AckedUsable
    BY DEF CatalogInv
  <1> QED BY <1>1, CatalogAlways, PTL

\* It is also in SERVER_DATA.json whenever that file is whole.
THEOREM AckedAlwaysDurable == Spec => []AckedDurable
  <1>1. CatalogInv => AckedDurable
    BY DEF CatalogInv
  <1> QED BY <1>1, CatalogAlways, PTL

\* No two requests are told that they created the same source or database.
THEOREM OneOwnerAlways == Spec => []OneOwner
  <1>1. CatalogInv => OneOwner
    BY DEF CatalogInv
  <1> QED BY <1>1, CatalogAlways, PTL

\* A directory is made only after its entry is saved, so a whole file lists
\* every directory there is.
THEOREM DirsAlwaysListed == Spec => []DirsListed
  <1>1. CatalogInv => DirsListed
    BY DEF CatalogInv, ListInv, Listed, Places, DirsListed
  <1> QED BY <1>1, CatalogAlways, PTL

\* Until a file operation fails, the file holds what memory holds whenever
\* SERVER_FILE is not locked (DataStore::insert).
THEOREM FileAlwaysCurrent == Spec => []FileCurrent
  <1>1. CatalogInv /\ SettledInv => FileCurrent
    <2>1. ASSUME FrameInv, lock = None, NEW r \in Requests
          PROVE  pc[r] \notin {"write", "rewrite"}
      BY <2>1 DEF FrameInv, GuardInv, Holding
    <2> QED BY <2>1 DEF CatalogInv, SettledInv, FileCurrent
  <1> QED BY <1>1, CatalogAlways, PTL

\* No step of a process that stays up loses an entry, or changes a field of one
\* other than as the holder of the lock was asked to (set_node_count,
\* touch_vector_base, the schedule after a backup).
THEOREM FieldsAlwaysKept == Spec => FieldsKept
  <1>1. CatalogInv /\ [Next]_vars => Effects
    BY StepEffect DEF CatalogInv
  <1>2. CatalogInv /\ [Next]_vars =>
          [(process # "down" /\ process' # "down") =>
            \A s \in Sources : \A b \in mem[s].bases : \E c \in mem'[s].bases :
                /\ c.id = b.id /\ c.name = b.name
                /\ \A f \in {"count", "last", "next"} :
                    c[f] # b[f] => c[f] = lock /\ req[lock].kind \in Setter(b, f)]_vars
    BY <1>1, StepFields
  <1> QED BY <1>2, CatalogAlways, PTL DEF FieldsKept, Spec


-----------------------------------------------------------------------------
(* Requests end, but for what fairness adds.  RequestsEnd is beyond the      *)
(* prover; proved are the two facts it comes down to, that SERVER_FILE is    *)
(* never left locked, and that no request goes back.                         *)

\* Where SERVER_FILE is locked, a request of a process that is up holds it and
\* stands where it waits for nothing: every way out of a handler, its answers,
\* its errors and its being dropped, has given the lock back.
THEOREM LockAlwaysHeld ==
    Spec => [](lock # None => process # "down" /\ pc[lock] \in Holding)
  <1>1. FrameInv => (lock # None => process # "down" /\ pc[lock] \in Holding)
    BY DEF FrameInv, GuardInv, PlaceInv, TypeOK, Maker, Active, Holding
  <1> QED BY <1>1, CatalogAlways, PTL DEF CatalogInv

\* Between its arrival and its answer a request of the catalog passes no point
\* twice, and its answer is its last word: also when the directory it was making
\* is made after it was dropped, or the process is started again.
THEOREM RequestsGoOn == Spec => [][OnlyForward]_vars
  <1>1. FrameInv /\ [Next]_vars => [OnlyForward]_vars
    BY NextForward
  <1>2. CatalogInv => FrameInv
    BY DEF CatalogInv
  <1> QED BY <1>1, <1>2, CatalogAlways, PTL DEF Spec

===============================================================================
