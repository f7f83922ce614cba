----------------------------- MODULE DurableIndex -----------------------------
(***************************************************************************)
(* What a database promises its clients when they write one at a time.     *)
(* The database is a growing set of batches.  A write takes effect at one  *)
(* instant, before its answer; one that is refused has no effect; one that *)
(* is never answered may have taken effect or not.  An answer to a query   *)
(* is computed from a state of the database no older than the one the      *)
(* previous answer was computed from.                                      *)
(***************************************************************************)
CONSTANTS
    Writer,    \* write requests
    Batch,     \* what they carry
    BatchOf,   \* the batch of each
    Start,     \* what the database may hold at the start
    Unanswered \* the value of served before the first answer

VARIABLES
    index,    \* what the database holds
    status,   \* how far each write request is; "done" has taken effect
    served    \* what the latest answer was computed from

vars == <<index, status, served>>

Pending == {"pending", "done"}
Status == Pending \cup {"new", "acked", "failed", "lost"}

Init ==
    /\ index \in Start
    /\ status = [w \in Writer |-> "new"]
    /\ served = Unanswered

Submit(w) ==
    /\ status[w] = "new"
    /\ \A v \in Writer : status[v] \notin Pending
    /\ status' = [status EXCEPT ![w] = "pending"]
    /\ UNCHANGED <<index, served>>

\* The write takes effect: its batch is new to the database.
Commit(w) ==
    /\ status[w] = "pending"
    /\ BatchOf[w] \notin index
    /\ index' = index \cup {BatchOf[w]}
    /\ status' = [status EXCEPT ![w] = "done"]
    /\ UNCHANGED served

Ack(w) ==
    /\ status[w] = "done"
    /\ status' = [status EXCEPT ![w] = "acked"]
    /\ UNCHANGED <<index, served>>

Refuse(w) ==
    /\ status[w] \in {"new", "pending"}
    /\ status' = [status EXCEPT ![w] = "failed"]
    /\ UNCHANGED <<index, served>>

\* The server restarts: pending requests are never answered.
Restart ==
    /\ status' = [w \in Writer |->
                    IF status[w] \in Pending THEN "lost" ELSE status[w]]
    /\ UNCHANGED <<index, served>>

Query ==
    /\ \E answer \in SUBSET index :
         /\ served # Unanswered => served \subseteq answer
         /\ served' = answer
    /\ UNCHANGED <<index, status>>

Next ==
    \/ \E w \in Writer : Submit(w) \/ Commit(w) \/ Ack(w) \/ Refuse(w)
    \/ Restart
    \/ Query

Spec == Init /\ [][Next]_vars

===============================================================================
