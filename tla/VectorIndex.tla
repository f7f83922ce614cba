----------------------------- MODULE VectorIndex -----------------------------
(***************************************************************************)
(* What a vector index promises its callers, whatever graph it searches.   *)
(* It holds the ids inserted and not deleted; a deleted id is spent until  *)
(* the index is compacted.  A search answers with ids the index holds, no  *)
(* more than were asked for, and with one at least unless it is empty.     *)
(***************************************************************************)
EXTENDS Naturals, FiniteSets

CONSTANTS
    Ids,       \* the ids vectors are stored under
    Sizes      \* how many neighbours a search may ask for

VARIABLES
    members,   \* the ids the index holds
    spent,     \* the ids deleted and not reclaimed yet
    answer     \* what the search being answered has found

vars == <<members, spent, answer>>

Init == members = {} /\ spent = {} /\ answer = {}

Insert(id) ==
    /\ id \notin members \cup spent
    /\ members' = members \cup {id}
    /\ UNCHANGED <<spent, answer>>

Delete(id) ==
    /\ id \in members
    /\ members' = members \ {id}
    /\ spent' = spent \cup {id}
    /\ UNCHANGED answer

Compact == spent' = {} /\ UNCHANGED <<members, answer>>

Search(k) ==
    /\ answer' \in SUBSET members
    /\ Cardinality(answer') =< k
    /\ members # {} => answer' # {}
    /\ UNCHANGED <<members, spent>>

\* The caller has the answer.
Return == answer' = {} /\ UNCHANGED <<members, spent>>

Next ==
    \/ \E id \in Ids : Insert(id) \/ Delete(id)
    \/ \E k \in Sizes : Search(k)
    \/ Compact
    \/ Return

Spec == Init /\ [][Next]_vars

===============================================================================
