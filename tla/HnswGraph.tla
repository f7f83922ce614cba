------------------------------ MODULE HnswGraph ------------------------------
(***************************************************************************)
(* The in-memory vector index: a layered graph of nodes (core/hnsw.rs).    *)
(*                                                                         *)
(*   insert, search_layer_greedy, search_layer_knn, prune_connections      *)
(*   search, search_internal, brute_force_search                           *)
(*   delete_node_by_id, set_new_entry_point, reindex                       *)
(*                                                                         *)
(* An action is one turn of a loop of these operations, so the invariants  *)
(* speak of every intermediate graph and not only of finished operations.  *)
(* One operation runs at a time: insert, delete_node_by_id and reindex     *)
(* take &mut self, and a search sees a graph nobody changes.               *)
(*                                                                         *)
(* Data abstraction.  A vector is the id it is stored under, or the query  *)
(* it was made for, and Similarity orders vectors the way the metric does. *)
(* Neighbour lists are the links of a set: where the code's order between  *)
(* equals is an accident of its lists and heaps, any order is allowed.     *)
(* Node 0 is no node: indices start at 1.                                  *)
(***************************************************************************)
EXTENDS Integers, FiniteSets, Sequences

CONSTANTS
    Ids,           \* the ids vectors may be stored under
    Queries,       \* the vectors searched for
    Similarity,    \* how alike two vectors are
    Configs,       \* the parameters an index may be made with: max_neighbors
                   \* (degree), ef_construction (ef) and max_layers (layers)
    EfMultiplier,  \* DEFAULT_EF_MULTIPLIER
    Sizes,         \* the numbers of neighbours searches ask for
    PageSize       \* PAGE_SIZE

Vectors == Ids \cup Queries

ASSUME VectorAssumption ==
    /\ Vectors # {}
    /\ Ids \cap Queries = {}
    /\ Similarity \in [Vectors -> [Ids -> Int]]

ASSUME ParameterAssumption ==
    /\ Configs \subseteq [degree : Nat \ {0}, ef : Nat \ {0}, layers : Nat \ {0}]
    /\ EfMultiplier \in Nat \ {0}
    /\ Sizes \subseteq Nat \ {0}
    /\ PageSize \in Nat \ {0}

VARIABLES
    conf,       \* the parameters of this index
    \* The graph
    nodes,      \* the nodes by index: their id, top layer and tombstone
    links,      \* <<layer, from, to>> : to is in neighbors[layer] of from
    entry,      \* entry_point, or 0
    mapper,     \* id_mapper: the index of each id
    \* The operation under way
    phase,      \* "idle" or which loop it is in
    subject,    \* the node being inserted, 0 in a search
    target,     \* the vector it looks for
    size,       \* the k of a search
    width,      \* the ef of the layer search
    \* The layer search
    layer,      \* the layer it is on
    cur,        \* current_nearest
    open,       \* candidates: found and not explored
    found,      \* results: the best found so far
    visited,    \* every node looked at
    frontier,   \* neighbours of the explored node still to look at
    todo,       \* selected neighbours the new node is not linked to yet
    answer      \* the ids a finished search returns

graph  == <<nodes, links, entry, mapper>>
task   == <<subject, target, size, width>>
walk   == <<open, found, visited, frontier>>
vars   == <<conf, graph, phase, task, layer, cur, walk, todo, answer>>

Index == DOMAIN nodes

Levels == 0 .. conf.layers - 1

\* How like node i is to vector v.
Like(v, i) == Similarity[v][nodes[i].id]

Live(i) == ~ nodes[i].dead

\* The neighbours a walk on this layer may take from node i.
Neighbours(i) ==
    {n \in Index : /\ layer =< nodes[i].level
                   /\ <<layer, i, n>> \in links
                   /\ Live(n)}

\* A list sorted by likeness to v and truncated to n: the n best of S, in each
\* of the ways equals can be ordered.
Best(S, n, v) ==
    IF Cardinality(S) =< n THEN {S}
    ELSE {T \in SUBSET S :
            /\ Cardinality(T) = n
            /\ \A t \in T, s \in S \ T : Like(v, t) >= Like(v, s)}

\* Mutant of Furthest: the heap of results keeps candidate order, best on top.
FurthestReversed(S) == {i \in S : \A j \in S : Like(target, i) >= Like(target, j)}

Nearest(S)  == {i \in S : \A j \in S : Like(target, i) >= Like(target, j)}
Furthest(S) == {i \in S : \A j \in S : Like(target, i) =< Like(target, j)}

\* Layers above this one are only descended; insert connects from here down,
\* and a search collects its results here.
Floor == IF subject = 0 THEN 0 ELSE nodes[subject].level

\* What target holds between operations.
NoTarget == CHOOSE v \in Vectors : TRUE

AtRest ==
    /\ subject = 0 /\ target = NoTarget /\ size = 0 /\ width = 0
    /\ layer = 0 /\ cur = 0
    /\ open = {} /\ found = {} /\ visited = {} /\ frontier = {}
    /\ todo = {} /\ answer = {}

Forget ==
    /\ subject' = 0 /\ target' = NoTarget /\ size' = 0 /\ width' = 0
    /\ layer' = 0 /\ cur' = 0
    /\ open' = {} /\ found' = {} /\ visited' = {} /\ frontier' = {}
    /\ todo' = {} /\ answer' = {}

Init ==
    /\ conf \in Configs
    /\ nodes = << >>
    /\ links = {}
    /\ entry = 0
    /\ mapper = [id \in {} |-> 0]
    /\ phase = "idle"
    /\ AtRest

-------------------------------------------------------------------------------
(* insert *)

NewNode(id, level) == [id |-> id, level |-> level, dead |-> FALSE]

\* Mutant of AddNode: the mapping is the index the last node has.
AddNodeOffByOne(id, level) ==
    /\ phase = "idle"
    /\ id \notin DOMAIN mapper
    /\ nodes' = Append(nodes, NewNode(id, level))
    /\ mapper' = [i \in DOMAIN mapper \cup {id} |->
                    IF i = id THEN Len(nodes) ELSE mapper[i]]

\* The node and its mapping come before the search for its neighbours.  An id
\* in the mapper is refused, also when its node is a tombstone.
AddNode(id, level) ==
    /\ phase = "idle"
    /\ id \notin DOMAIN mapper
    /\ nodes' = Append(nodes, NewNode(id, level))
    /\ mapper' = [i \in DOMAIN mapper \cup {id} |->
                    IF i = id THEN Len(nodes) + 1 ELSE mapper[i]]

InsertFirst(id, level) ==
    /\ entry = 0
    /\ AddNode(id, level)
    /\ entry' = Len(nodes) + 1
    /\ UNCHANGED <<conf, links, phase, task, layer, cur, walk, todo, answer>>

InsertNext(id, level) ==
    /\ entry # 0
    /\ AddNode(id, level)
    /\ phase' = "descend"
    /\ subject' = Len(nodes) + 1
    /\ target' = id
    /\ layer' = IF nodes[entry].level > level THEN nodes[entry].level ELSE level
    /\ cur' = entry
    /\ width' = conf.ef
    /\ UNCHANGED <<conf, links, entry, size, walk, todo, answer>>

-------------------------------------------------------------------------------
(* search_layer_greedy: one round moves to the best of the neighbours that is *)
(* better than the current node.                                              *)

Better == {n \in Neighbours(cur) : Like(target, n) > Like(target, cur)}

GreedyMove ==
    /\ phase = "descend"
    /\ layer > Floor
    /\ cur' \in Nearest(Better)
    /\ UNCHANGED <<conf, graph, phase, task, layer, walk, todo, answer>>

GreedyDone ==
    /\ phase = "descend"
    /\ layer > Floor
    /\ Better = {}
    /\ layer' = layer - 1
    /\ UNCHANGED <<conf, graph, phase, task, cur, walk, todo, answer>>

-------------------------------------------------------------------------------
(* search_layer_knn *)

Full == Cardinality(found) >= width

\* Mutant of Admitted: nothing is taken just because there is room.
AdmittedWhenBetter(n) == \E f \in found : Like(target, n) > Like(target, f)

\* Whether a neighbour is worth keeping: there is room, or it beats the worst.
Admitted(n) == Full => \E f \in found : Like(target, n) > Like(target, f)

BeginLayer ==
    /\ phase = "descend"
    /\ layer =< Floor
    /\ phase' = "explore"
    /\ open' = {cur} /\ found' = {cur} /\ visited' = {cur} /\ frontier' = {}
    /\ UNCHANGED <<conf, graph, task, layer, cur, todo, answer>>

\* Pop the most promising candidate.  It is not explored when the results are
\* full and all better.
Pop(c) ==
    /\ phase = "explore"
    /\ frontier = {}
    /\ c \in Nearest(open)
    /\ open' = open \ {c}
    /\ frontier' = IF Full /\ \A f \in found : Like(target, c) < Like(target, f)
                   THEN {} ELSE Neighbours(c) \ visited
    /\ UNCHANGED <<conf, graph, phase, task, layer, cur, found, visited, todo, answer>>

\* Look at one neighbour: an admitted one becomes a candidate and a result, and
\* when the results were full it displaces the worst of them.
Look(n) ==
    /\ phase = "explore"
    /\ n \in frontier
    /\ frontier' = frontier \ {n}
    /\ visited' = visited \cup {n}
    /\ IF Admitted(n) THEN /\ open' = open \cup {n}
                           /\ \/ ~ Full /\ found' = found \cup {n}
                              \/ Full /\ \E worst \in Furthest(found) :
                                           found' = (found \ {worst}) \cup {n}
       ELSE UNCHANGED <<open, found>>
    /\ UNCHANGED <<conf, graph, phase, task, layer, cur, todo, answer>>

Explored == phase = "explore" /\ open = {} /\ frontier = {}

-------------------------------------------------------------------------------
(* insert, continued: link the new node on this layer *)

\* The best of the results are selected, and the next layer starts from the
\* first of them.
Select ==
    /\ Explored
    /\ subject # 0
    /\ todo' \in Best(found, conf.degree, target)
    /\ cur' \in Nearest(todo')
    /\ phase' = "connect"
    /\ found' = {} /\ visited' = {}
    /\ UNCHANGED <<conf, graph, task, layer, open, frontier, answer>>

LinksOf(L, i) == {n \in Index : <<layer, i, n>> \in L}

\* Mutant of Crowded: the degree is compared before the link is counted.
CrowdedLater(L, i) == Cardinality(LinksOf(L, i)) > conf.degree + 1

Crowded(L, i) == Cardinality(LinksOf(L, i)) > conf.degree

\* Mutant of Prune: the nodes dropped keep their links to node i.
PruneOneWay(L, i) ==
    LET kept(K) == {l \in L : ~ (l[1] = layer /\ l[2] = i /\ l[3] \notin K)}
    IN  {kept(K) : K \in Best({n \in LinksOf(L, i) : Live(n)}, conf.degree, nodes[i].id)}

\* prune_connections: node i keeps its best live neighbours, and the others
\* forget it too.
Prune(L, i) ==
    LET kept(K) == {l \in L : ~ /\ l[1] = layer
                                /\ \/ l[2] = i /\ l[3] \notin K
                                   \/ l[3] = i /\ l[2] \notin K}
    IN  {kept(K) : K \in Best({n \in LinksOf(L, i) : Live(n)}, conf.degree, nodes[i].id)}

Connect(b) ==
    /\ phase = "connect"
    /\ b \in Nearest(todo)
    /\ todo' = todo \ {b}
    /\ LET L == links \cup {<<layer, subject, b>>, <<layer, b, subject>>}
       IN  IF layer > nodes[b].level THEN UNCHANGED links
           ELSE IF Crowded(L, b) THEN links' \in Prune(L, b)
           ELSE links' = L
    /\ UNCHANGED <<conf, nodes, entry, mapper, phase, task, layer, cur, walk, answer>>

NextLayer ==
    /\ phase = "connect"
    /\ todo = {}
    /\ layer > 0
    /\ layer' = layer - 1
    /\ phase' = "descend"
    /\ UNCHANGED <<conf, graph, task, cur, walk, todo, answer>>

\* The new node becomes the entry point when it reaches above the old one.
FinishInsert ==
    /\ phase = "connect"
    /\ todo = {}
    /\ layer = 0
    /\ entry' = IF nodes[subject].level > nodes[entry].level THEN subject ELSE entry
    /\ phase' = "idle"
    /\ Forget
    /\ UNCHANGED <<conf, nodes, links, mapper>>

-------------------------------------------------------------------------------
(* search, search_internal *)

SearchEmpty(q, k) ==
    /\ phase = "idle"
    /\ entry = 0
    /\ phase' = "answered"
    /\ target' = q
    /\ size' = k
    /\ UNCHANGED <<conf, graph, subject, width, layer, cur, walk, todo, answer>>

\* Start, or start again, a search of the given width from the entry point.
Descend(ef) ==
    /\ phase' = "descend"
    /\ width' = ef
    /\ layer' = nodes[entry].level
    /\ cur' = entry

Search(q, k) ==
    /\ phase = "idle"
    /\ entry # 0
    /\ Descend(k * EfMultiplier)
    /\ target' = q
    /\ size' = k
    /\ UNCHANGED <<conf, graph, subject, walk, todo, answer>>

MaxWidth == IF Len(nodes) > size * EfMultiplier THEN Len(nodes) ELSE size * EfMultiplier

\* Mutant of Wider: the factor is truncated before it multiplies.
WiderByOne(ef) == IF ef * 1 > MaxWidth THEN MaxWidth ELSE ef * 1

\* DEFAULT_EF_INC_FACTOR is 1.57575; the product is truncated, then capped.
Wider(ef) ==
    LET more == (ef * 157575) \div 100000
    IN  IF more > MaxWidth THEN MaxWidth ELSE more

\* Results that are not tombstones are returned when they are as many as asked
\* for, or the search was as wide as it gets; else it is made wider and run again.
Answers(S) == Cardinality(S) >= size \/ width >= MaxWidth

Answer ==
    /\ Explored
    /\ subject = 0
    /\ \E S \in Best(found, size, target) :
         LET active == {i \in S : Live(i)} IN
         /\ Answers(active)
         /\ answer' = {nodes[i].id : i \in active}
    /\ phase' = "answered"
    /\ found' = {} /\ visited' = {}
    /\ UNCHANGED <<conf, graph, task, layer, cur, open, frontier, todo>>

Widen ==
    /\ Explored
    /\ subject = 0
    /\ \E S \in Best(found, size, target) : ~ Answers({i \in S : Live(i)})
    /\ Descend(Wider(width))
    /\ found' = {} /\ visited' = {}
    /\ UNCHANGED <<conf, graph, subject, target, size, open, frontier, todo, answer>>

\* Mutant of BruteForce: tombstones are not skipped.
BruteForceOnTombstones(q, k) ==
    {{nodes[i].id : i \in S} : S \in Best(Index, k, q)}

\* brute_force_search: the best of all live nodes.
BruteForce(q, k) ==
    {{nodes[i].id : i \in S} : S \in Best({i \in Index : Live(i)}, k, q)}

\* query_vector and query_search do this instead while dimensions times nodes
\* are few, which the model leaves open.
SearchAll(q, k) ==
    /\ phase = "idle"
    /\ answer' \in BruteForce(q, k)
    /\ phase' = "answered"
    /\ target' = q
    /\ size' = k
    /\ UNCHANGED <<conf, graph, subject, width, layer, cur, walk, todo>>

\* The caller has the answer.
Return ==
    /\ phase = "answered"
    /\ phase' = "idle"
    /\ Forget
    /\ UNCHANGED <<conf, graph>>

-------------------------------------------------------------------------------
(* delete_node_by_id, set_new_entry_point, reindex *)

\* Mutant of Top: the layers are searched from the bottom up.
TopFromBelow(N) ==
    LET live == {i \in DOMAIN N : ~ N[i].dead}
        top(i) == \A j \in live : \/ N[j].level > N[i].level
                                  \/ N[j].level = N[i].level /\ i =< j
    IN  IF live = {} THEN 0 ELSE CHOOSE i \in live : top(i)

\* The entry point of a graph: the first of its highest live nodes.
Top(N) ==
    LET live == {i \in DOMAIN N : ~ N[i].dead}
        top(i) == \A j \in live : \/ N[j].level < N[i].level
                                  \/ N[j].level = N[i].level /\ i =< j
    IN  IF live = {} THEN 0 ELSE CHOOSE i \in live : top(i)

Delete(id) ==
    /\ phase = "idle"
    /\ id \in DOMAIN mapper
    /\ nodes' = [nodes EXCEPT ![mapper[id]].dead = TRUE]
    /\ entry' = IF entry = mapper[id] THEN Top(nodes') ELSE entry
    /\ UNCHANGED <<conf, links, mapper, phase, task, layer, cur, walk, todo, answer>>

\* The live nodes move up, in order, into the places of the tombstones: old is
\* the former index of each node.
Compaction ==
    LET live == {i \in Index : Live(i)}
    IN  {old \in [1 .. Cardinality(live) -> live] :
            \A i, j \in DOMAIN old : i < j => old[i] < old[j]}

\* Mutant of Remapped: the ids keep the indices they had.
RemappedNever(old) ==
    [id \in {nodes[old[i]].id : i \in DOMAIN old} |-> mapper[id]]

\* The new index of each id that is left.
Remapped(old) ==
    [id \in {nodes[old[i]].id : i \in DOMAIN old} |->
        CHOOSE i \in DOMAIN old : nodes[old[i]].id = id]

Reindex ==
    /\ phase = "idle"
    /\ \E i \in Index : ~ Live(i)
    /\ \E old \in Compaction :
         /\ nodes' = [i \in DOMAIN old |-> [nodes[old[i]] EXCEPT !.dead = FALSE]]
         /\ links' = {l \in Levels \X (DOMAIN old) \X (DOMAIN old) :
                        <<l[1], old[l[2]], old[l[3]]>> \in links}
         /\ entry' = IF entry = 0 THEN 0
                     ELSE IF Live(entry) THEN CHOOSE i \in DOMAIN old : old[i] = entry
                     ELSE Top(nodes')
         /\ mapper' = Remapped(old)
    /\ UNCHANGED <<conf, phase, task, layer, cur, walk, todo, answer>>

-------------------------------------------------------------------------------
(* get_index_by_page: the nodes of a page, by index.                          *)

\* Mutant of TotalPages: the division truncates.
TotalPagesDown == IF nodes = << >> THEN 1 ELSE Len(nodes) \div PageSize

\* There is a page also when there are no nodes.
TotalPages == IF nodes = << >> THEN 1 ELSE (Len(nodes) + PageSize - 1) \div PageSize

\* A page that is not there is answered with the first.
Served(page) == IF page \in 1 .. TotalPages THEN page ELSE 1

Page(page, tombstones) ==
    LET start == (Served(page) - 1) * PageSize
    IN  {i \in Index : start < i /\ i =< start + PageSize /\ (tombstones \/ Live(i))}

-------------------------------------------------------------------------------
\* A turn of a loop of the operation under way.
Step ==
    \/ GreedyMove \/ GreedyDone
    \/ BeginLayer
    \/ \E c \in open : Pop(c)
    \/ \E n \in frontier : Look(n)
    \/ Select
    \/ \E b \in todo : Connect(b)
    \/ NextLayer \/ FinishInsert
    \/ Answer \/ Widen \/ Return

Next ==
    \/ \E id \in Ids, level \in Levels : InsertFirst(id, level) \/ InsertNext(id, level)
    \/ \E q \in Queries, k \in Sizes : 
          SearchEmpty(q, k) \/ Search(q, k) \/ SearchAll(q, k)
    \/ \E id \in Ids : Delete(id)
    \/ Reindex
    \/ Step

Spec == Init /\ [][Next]_vars

\* An operation, once called, is run to its end.
FairSpec == Spec /\ WF_vars(Step)

-------------------------------------------------------------------------------
(* Properties *)

\* The variables have their types: every index, in the graph and in the loops'
\* heaps and lists, is the index of a node (indexing out of bounds panics).
TypeOK ==
    /\ conf \in Configs
    /\ nodes \in Seq([id : Ids, level : Levels, dead : BOOLEAN])
    /\ links \subseteq Levels \X Index \X Index
    /\ entry \in Index \cup {0}
    /\ DOMAIN mapper \subseteq Ids /\ mapper \in [DOMAIN mapper -> Index]
    /\ phase \in {"idle", "descend", "explore", "connect", "answered"}
    /\ subject \in Index \cup {0} /\ cur \in Index \cup {0}
    /\ target \in Vectors /\ size \in Nat /\ width \in Nat /\ layer \in Levels
    /\ open \subseteq Index /\ found \subseteq Index /\ visited \subseteq Index
    /\ frontier \subseteq Index /\ todo \subseteq Index
    /\ answer \subseteq Ids

\* A link is between two different nodes, on a layer both reach, and goes both
\* ways, however pruning, deleting and reindexing change the graph
\* (core/hnsw.rs:412 "maintain bidirectionality"; a link above a node's own
\* layers would index its neighbour lists out of bounds).
LinksSound ==
    \A l \in links :
        /\ l[2] # l[3]
        /\ l[1] =< nodes[l[2]].level /\ l[1] =< nodes[l[3]].level
        /\ <<l[1], l[3], l[2]>> \in links

\* No node has more than max_neighbors neighbours on a layer, also while a new
\* node is being linked to several of them that each prune their own list.
DegreeBounded ==
    \A l \in Levels, i \in Index :
        Cardinality({n \in Index : <<l, i, n>> \in links}) =< conf.degree

\* The live nodes, without the one being inserted.
Established == {i \in Index : Live(i) /\ i # subject}

\* The entry point is a live node no live node reaches above, and there is none
\* exactly when no node is live: a search that starts anywhere else misses whole
\* layers, and one without an entry point answers nothing.
EntryTop ==
    IF Established = {} THEN entry = 0
    ELSE /\ entry \in Established
         /\ \A i \in Established : nodes[i].level =< nodes[entry].level

\* id_mapper and the nodes agree, so that the unwrap of get_node_by_id on each
\* id a search returns succeeds and finds that id's vector (service/queries.rs
\* 129: "Just pray here for to unwrap, since the ID should exist in the store").
MapperAgrees ==
    /\ \A i \in Index : nodes[i].id \in DOMAIN mapper /\ mapper[nodes[i].id] = i
    /\ \A id \in DOMAIN mapper : nodes[mapper[id]].id = id

IndexOf(id) == CHOOSE i \in Index : nodes[i].id = id

\* An answer with fewer ids than were asked for leaves out no live neighbour of
\* a node it returns: a search gives up only where the graph ends, never because
\* its bounds cut it off.
ShortAnswerComplete ==
    phase = "answered" /\ Cardinality(answer) < size =>
        \A id \in answer, n \in Index :
            <<0, IndexOf(id), n>> \in links /\ Live(n) => nodes[n].id \in answer

\* While the parameters leave nothing to prune or bound, a search of the graph
\* answers what brute_force_search does, whatever was deleted or reindexed
\* in between: the switch between the two by size does not show.
Unpruned == conf.degree >= Cardinality(Ids) - 1 /\ conf.ef >= Cardinality(Ids)

ExactWhenSmall ==
    phase = "answered" /\ Unpruned => answer \in BruteForce(target, size)

\* Whoever asks for the pages one by one, up to the number of pages each answer
\* states, is shown every node once, tombstones only on request
\* (service/page.rs:17 "1-based; 0 or out-of-bounds -> page 1").
PagesComplete ==
    \A tombstones \in BOOLEAN :
        /\ \A i \in Index :
              Cardinality({p \in 1 .. TotalPages : i \in Page(p, tombstones)}) =
                 IF tombstones \/ Live(i) THEN 1 ELSE 0
        /\ \A p \in {0, TotalPages + 1} : Page(p, tombstones) = Page(1, tombstones)

\* Every operation ends: the descent strictly improves, the exploration visits
\* a node once, and the loop of search that widens and starts again gets to
\* answer.
OperationEnds == phase # "idle" ~> phase = "idle"

\* The graph implements the index its callers see: an id is a member from the
\* end of its insertion to its deletion, and cannot be inserted again before
\* reindex has removed its tombstone; an answer holds members only, and is not
\* empty while there are any.
Members == {nodes[i].id : i \in Established}
Spent   == {nodes[i].id : i \in {j \in Index : ~ Live(j)}}
Promise == INSTANCE VectorIndex WITH members <- Members, spent <- Spent

ImplementsIndex == Promise!Spec

===============================================================================
