---------------------- MODULE HnswGraphRefinement_proofs ----------------------
(***************************************************************************)
(* The degree bound of every HnswGraph, that every HnswGraph is the index  *)
(* VectorIndex promises, what its searches leave out, and that its loops   *)
(* go on and come to an end, all on top of the invariant of                *)
(* HnswGraph_proofs.                                                       *)
(*                                                                         *)
(* WalkInv   what one layer search has seen, kept and still has to look at *)
(* DenseInv  who is linked to whom while nothing is pruned                 *)
(***************************************************************************)
EXTENDS HnswGraph_proofs

USE VectorAssumption, ParameterAssumption

\* The neighbours of node i on layer l.
At(l, i) == {n \in Index : <<l, i, n>> \in links}

\* The new node has room for the neighbours it is not linked to yet.
RoomInv ==
    phase = "connect" =>
        Cardinality(At(layer, subject)) + Cardinality(todo) =< conf.degree

DegreeInv == DegreeBounded /\ RoomInv

-------------------------------------------------------------------------------
(* The degree bound.                                                           *)

LEMMA AtFacts ==
    ASSUME TypeOK, NEW l, NEW i
    PROVE  At(l, i) \subseteq Index /\ IsFiniteSet(At(l, i)) /\ Cardinality(At(l, i)) \in Nat
  <1>1. At(l, i) \subseteq Index
    BY DEF At
  <1>2. IsFiniteSet(At(l, i))
    BY <1>1, Indices, FS_Subset
  <1> QED BY <1>1, <1>2, FS_CardinalityType

\* Fewer links, and no more nodes, keep the bound.
LEMMA DegreeStays ==
    ASSUME BaseInv, DegreeInv, UNCHANGED <<conf, nodes, links>>
    PROVE  DegreeBounded' /\ \A l, i : At(l, i)' = At(l, i)
  <1>1. \A l, i : At(l, i)' = At(l, i)
    BY DEF At, Index
  <1> QED BY <1>1 DEF DegreeInv, DegreeBounded, Levels, Index

LEMMA InsertKeepsDegree ==
    ASSUME BaseInv, DegreeInv, NEW id \in Ids, NEW level \in Levels,
           InsertFirst(id, level) \/ InsertNext(id, level)
    PROVE  DegreeInv'
  <1>1. AddNode(id, level) /\ conf' = conf /\ links' = links /\ phase' # "connect"
    BY DEF InsertFirst, InsertNext, AddNode
  <1>2. Index' = Index \cup {Len(nodes) + 1}
    BY <1>1, Appended
  <1>3. ASSUME NEW l \in Levels, NEW i \in Index'
        PROVE  Cardinality({n \in Index' : <<l, i, n>> \in links}) =< conf.degree
    <2>1. {n \in Index' : <<l, i, n>> \in links} = At(l, i)
      BY <1>2 DEF At, BaseInv, TypeOK
    <2>2. CASE i \in Index
      BY <2>1, <2>2 DEF DegreeInv, DegreeBounded, At
    <2>3. CASE i \notin Index
      <3>1. At(l, i) = {}
        BY <2>3 DEF At, BaseInv, TypeOK
      <3>2. conf.degree \in Nat
        BY DEF BaseInv, TypeOK
      <3>3. Cardinality({}) = 0
        BY FS_EmptySet
      <3>4. Cardinality(At(l, i)) =< conf.degree
        BY <3>1, <3>2, <3>3
      <3> QED BY <2>1, <3>4
    <2> QED BY <2>2, <2>3
  <1> QED BY <1>1, <1>3 DEF DegreeInv, DegreeBounded, RoomInv, Levels

LEMMA SelectKeepsDegree ==
    ASSUME BaseInv, DegreeInv, Select
    PROVE  DegreeInv'
  <1>1. /\ UNCHANGED <<conf, nodes, links, layer, subject>> /\ Explored /\ subject # 0
        /\ todo' \in Best(found, conf.degree, target)
    BY DEF Select, graph, task
  <1>2. At(layer, subject) = {}
    <2>1. \A n \in Index : <<layer, subject, n>> \in links => layer > layer
      BY <1>1 DEF BaseInv, GraphInv, FreshInv, Explored
    <2>2. layer \in Int
      BY DEF BaseInv, TypeOK, Levels
    <2> QED BY <2>1, <2>2 DEF At
  <1>3. Cardinality(todo') =< conf.degree /\ conf.degree \in Nat /\ Cardinality(todo') \in Nat
    <2>1. conf.degree \in Nat \ {0}
      BY DEF BaseInv, TypeOK
    <2> QED BY <1>1, <2>1, FoundFacts, BestFacts, FS_CardinalityType
  <1>4. Cardinality(At(layer, subject)') = 0
    BY <1>1, <1>2, DegreeStays, FS_EmptySet
  <1>5. At(layer', subject') = At(layer, subject)
    BY <1>1
  <1> QED BY <1>1, <1>3, <1>4, <1>5, DegreeStays DEF DegreeInv, RoomInv

LEMMA SubsetCardinality ==
    ASSUME NEW S, IsFiniteSet(S), NEW T, T \subseteq S
    PROVE  /\ Cardinality(T) \in Nat /\ Cardinality(S) \in Nat
           /\ Cardinality(T) =< Cardinality(S)
  <1> QED BY FS_Subset, FS_CardinalityType

LEMMA ConnectKeepsDegree ==
    ASSUME BaseInv, DegreeInv, NEW b \in todo, Connect(b)
    PROVE  DegreeInv'
  <1> USE DEF BaseInv
  <1>0. /\ UNCHANGED <<conf, nodes, phase, layer, subject>>
        /\ phase = "connect" /\ todo' = todo \ {b}
        /\ b \in Index /\ b # subject /\ layer \in Levels /\ subject \in Index
    BY DEF Connect, task, ControlInv, TypeOK
  <1>1. PICK d \in Nat \ {0} : d = conf.degree
    BY DEF TypeOK
  <1>2. PICK y \in Levels, s \in Index : y = layer /\ s = subject
    BY <1>0
  <1>3. PICK L : /\ L = links \cup {<<y, s, b>>, <<y, b, s>>}
                 /\ \/ links' = links
                    \/ ~ Crowded(L, b) /\ links' = L
                    \/ links' \in Prune(L, b)
    BY <1>2 DEF Connect
  <1>4. Index' = Index /\ Levels' = Levels
    BY <1>0 DEF Index, Levels
  <1> DEFINE On(l, i) == {n \in Index : <<l, i, n>> \in L}
  <1>5. \A l, i : At(l, i)' \subseteq On(l, i)
    BY <1>3, <1>4 DEF At, Prune
  <1>6. /\ On(y, s) = At(y, s) \cup {b}
        /\ \A l, i : (l # y \/ i \notin {b, s}) => On(l, i) = At(l, i)
    BY <1>0, <1>2, <1>3 DEF At
  <1>7. \A l, i : IsFiniteSet(On(l, i))
    BY Indices, FS_Subset
  <1> HIDE DEF On
  <1>8. ASSUME NEW l, NEW i
        PROVE  /\ Cardinality(At(l, i)') \in Nat /\ Cardinality(On(l, i)) \in Nat
               /\ Cardinality(At(l, i)') =< Cardinality(On(l, i))
    BY <1>5, <1>7, SubsetCardinality
  <1>9. /\ Cardinality(todo) \in Nat /\ Cardinality(todo') \in Nat
        /\ Cardinality(todo') = Cardinality(todo) - 1
    <2>1. IsFiniteSet(todo)
      BY Indices, FS_Subset DEF TypeOK
    <2> QED BY <1>0, <2>1, FS_CardinalityType, FS_RemoveElement
  <1>10. /\ Cardinality(At(y, s)) \in Nat
         /\ Cardinality(On(y, s)) =< Cardinality(At(y, s)) + 1
    <2>1. IsFiniteSet(At(y, s)) /\ Cardinality(At(y, s)) \in Nat
      BY AtFacts
    <2>2. Cardinality(At(y, s) \cup {b}) =
            IF b \in At(y, s) THEN Cardinality(At(y, s)) ELSE Cardinality(At(y, s)) + 1
      BY <2>1, FS_AddElement
    <2> QED BY <1>6, <2>1, <2>2
  <1>11. Cardinality(At(y, s)) + Cardinality(todo) =< d
    BY <1>0, <1>1, <1>2 DEF DegreeInv, RoomInv
  <1>12. Cardinality(At(y, s)') + Cardinality(todo') =< d
    <2>1. Cardinality(At(y, s)') \in Nat /\ Cardinality(On(y, s)) \in Nat
          /\ Cardinality(At(y, s)') =< Cardinality(On(y, s))
      BY <1>8
    <2> QED BY <1>9, <1>10, <1>11, <2>1
  <1>13. ASSUME NEW l \in Levels, NEW i \in Index
         PROVE  Cardinality(At(l, i)') =< d
    <2>0. Cardinality(At(l, i)') \in Nat /\ Cardinality(On(l, i)) \in Nat
          /\ Cardinality(At(l, i)') =< Cardinality(On(l, i))
      BY <1>8
    <2>a. Cardinality(At(l, i)) =< d /\ Cardinality(At(l, i)) \in Nat
      BY <1>1, AtFacts DEF DegreeInv, DegreeBounded, At
    <2>1. CASE l # y \/ i \notin {b, s}
      <3>1. On(l, i) = At(l, i)
        BY <1>6, <2>1
      <3> QED BY <2>0, <2>a, <3>1
    <2>2. CASE l = y /\ i = s
      <3>1. Cardinality(At(l, i)') + Cardinality(todo') =< d
        BY <1>12, <2>2
      <3> QED BY <1>9, <2>0, <3>1
    <2>3. CASE l = y /\ i = b
      <3>1. CASE links' = links
        <4>1. At(l, i)' = At(l, i)
          BY <1>4, <3>1 DEF At
        <4> QED BY <2>a, <4>1
      <3>2. CASE ~ Crowded(L, b) /\ links' = L
        <4>1. At(l, i)' = LinksOf(L, b)
          BY <1>2, <1>4, <2>3, <3>2 DEF At, LinksOf
        <4>2. ~ (Cardinality(At(l, i)') > d)
          BY <1>1, <3>2, <4>1 DEF Crowded
        <4> QED BY <2>0, <4>2
      <3>3. CASE links' \in Prune(L, b)
        <4> DEFINE live == {n \in LinksOf(L, b) : Live(n)}
        <4>1. PICK K \in Best(live, d, nodes[b].id) :
                links' = {k \in L : ~ /\ k[1] = layer
                                      /\ \/ k[2] = b /\ k[3] \notin K
                                         \/ k[3] = b /\ k[2] \notin K}
          BY <1>1, <3>3 DEF Prune
        <4>2. IsFiniteSet(live)
          BY Indices, FS_Subset DEF LinksOf
        <4>3. IsFiniteSet(K) /\ Cardinality(K) =< d
          BY <4>1, <4>2, BestFacts
        <4>4. At(l, i)' \subseteq K
          BY <1>2, <1>4, <2>3, <4>1 DEF At
        <4>5. Cardinality(At(l, i)') =< Cardinality(K) /\ Cardinality(K) \in Nat
          BY <4>3, <4>4, SubsetCardinality
        <4> QED BY <2>0, <4>3, <4>5
      <3> QED BY <1>3, <3>1, <3>2, <3>3
    <2> QED BY <2>1, <2>2, <2>3
  <1>14. DegreeBounded'
    BY <1>0, <1>1, <1>4, <1>13 DEF DegreeBounded, At
  <1>15. RoomInv'
    BY <1>0, <1>1, <1>2, <1>12 DEF RoomInv, At
  <1> QED BY <1>14, <1>15 DEF DegreeInv
LEMMA ReindexKeepsDegree ==
    ASSUME BaseInv, DegreeInv, Reindex
    PROVE  DegreeInv'
  <1>1. PICK old \in Compaction :
         /\ nodes' = [i \in DOMAIN old |-> [nodes[old[i]] EXCEPT !.dead = FALSE]]
         /\ links' = {l \in Levels \X (DOMAIN old) \X (DOMAIN old) :
                        <<l[1], old[l[2]], old[l[3]]>> \in links}
    BY DEF Reindex
  <1>2. PICK n \in Nat :
         /\ old \in [1 .. n -> Index]
         /\ \A i, j \in 1 .. n : old[i] = old[j] => i = j
    <2> DEFINE live == {i \in Index : Live(i)}
    <2>1. PICK n \in Nat :
           old \in [1 .. n -> live] /\ \A i, j \in 1 .. n : old[i] = old[j] => i = j
      BY CompactionFacts DEF BaseInv
    <2>2. old \in [1 .. n -> Index]
      BY <2>1
    <2> QED BY <2>1, <2>2
  <1>3. /\ UNCHANGED <<conf, phase>> /\ phase = "idle" /\ Index' = DOMAIN old
    <2>1. UNCHANGED <<conf, phase>> /\ phase = "idle"
      BY DEF Reindex
    <2>2. Index' = DOMAIN old
      BY <1>1 DEF Index
    <2> QED BY <2>1, <2>2
  <1>4. PICK d \in Nat : d = conf.degree
    BY DEF BaseInv, TypeOK
  <1>5. ASSUME NEW l \in Levels, NEW i \in 1 .. n
        PROVE  Cardinality({m \in 1 .. n : <<l, i, m>> \in links'}) =< d
    <2> DEFINE S == {m \in 1 .. n : <<l, i, m>> \in links'}
               T == At(l, old[i])
               f == [m \in S |-> old[m]]
    <2>1. \A m \in S : old[m] \in T
      BY <1>1, <1>2 DEF At
    <2>2. f \in Injection(S, T)
      BY <1>2, <2>1 DEF Injection, IsInjective
    <2>3. IsFiniteSet(T) /\ Cardinality(T) \in Nat
      BY AtFacts DEF BaseInv
    <2>4. Cardinality(T) =< d
      BY <1>2, <1>4 DEF DegreeInv, DegreeBounded, At
    <2> HIDE DEF S, T, f
    <2>5. IsFiniteSet(S) /\ Cardinality(S) =< Cardinality(T)
      BY <2>2, <2>3, FS_Injection
    <2>6. Cardinality(S) \in Nat
      BY <2>5, FS_CardinalityType
    <2> QED BY <2>3, <2>4, <2>5, <2>6 DEF S
  <1>6. DOMAIN old = 1 .. n
    BY <1>2
  <1> QED BY <1>3, <1>4, <1>5, <1>6 DEF DegreeInv, DegreeBounded, RoomInv, Levels

LEMMA DegreeInitially == Init => DegreeInv
  <1> SUFFICES ASSUME Init PROVE DegreeInv
    OBVIOUS
  <1>1. Index = {}
    BY DEF Init, Index
  <1> QED BY <1>1 DEF Init, DegreeInv, DegreeBounded, RoomInv

LEMMA DegreeKept == BaseInv /\ DegreeInv /\ [Next]_vars => DegreeInv'
  <1> SUFFICES ASSUME BaseInv, DegreeInv, [Next]_vars PROVE DegreeInv'
    OBVIOUS
  <1>1. CASE \E id \in Ids, level \in Levels : InsertFirst(id, level) \/ InsertNext(id, level)
    BY <1>1, InsertKeepsDegree
  <1>2. CASE /\ UNCHANGED <<conf, nodes, links>>
             /\ phase' # "connect" \/ UNCHANGED <<phase, layer, subject, todo>>
    <2>1. RoomInv'
      BY <1>2, DegreeStays DEF DegreeInv, RoomInv, At, Index
    <2> QED BY <1>2, <2>1, DegreeStays DEF DegreeInv
  <1>3. CASE \E q \in Queries, k \in Sizes : SearchEmpty(q, k) \/ Search(q, k) \/ SearchAll(q, k)
    BY <1>2, <1>3 DEF SearchEmpty, Search, SearchAll, Descend, graph
  <1>4. CASE \E id \in Ids : Delete(id)
    <2>1. PICK id \in Ids : Delete(id)
      BY <1>4
    <2>2. /\ UNCHANGED <<conf, links, phase>> /\ phase = "idle" /\ Index' = Index
      BY <2>1 DEF Delete, Index
    <2> QED BY <2>2 DEF DegreeInv, DegreeBounded, RoomInv, Levels
  <1>5. CASE Reindex
    BY <1>5, ReindexKeepsDegree
  <1>6. CASE Step
    <2>1. CASE GreedyMove \/ GreedyDone \/ BeginLayer
      BY <1>2, <2>1 DEF GreedyMove, GreedyDone, BeginLayer, graph
    <2>2. CASE (\E c \in open : Pop(c)) \/ (\E n \in frontier : Look(n))
      BY <1>2, <2>2 DEF Pop, Look, graph
    <2>3. CASE Select
      BY <2>3, SelectKeepsDegree
    <2>4. CASE \E b \in todo : Connect(b)
      BY <2>4, ConnectKeepsDegree
    <2>5. CASE NextLayer \/ FinishInsert
      BY <1>2, <2>5 DEF NextLayer, FinishInsert, graph
    <2>6. CASE Answer \/ Widen \/ Return
      BY <1>2, <2>6 DEF Answer, Widen, Descend, Return, graph
    <2> QED BY <1>6, <2>1, <2>2, <2>3, <2>4, <2>5, <2>6 DEF Step
  <1>7. CASE UNCHANGED vars
    BY <1>2, <1>7 DEF vars, graph, task, walk
  <1> QED BY <1>1, <1>3, <1>4, <1>5, <1>6, <1>7 DEF Next

\* No node ever has more neighbours on a layer than max_neighbors, whatever
\* the new nodes are linked to and whoever is pruned meanwhile.
THEOREM DegreeAlwaysBounded == Spec => []DegreeBounded
  <1>1. DegreeInv => DegreeBounded
    BY DEF DegreeInv
  <1> QED BY <1>1, DegreeInitially, DegreeKept, BaseAlways, PTL DEF Spec
-------------------------------------------------------------------------------
(* The index that is promised.                                                 *)

\* There is an answer only where a search has ended, and it is a search for as
\* many neighbours as a caller asked for.
AnswerInv ==
    /\ phase # "answered" => answer = {}
    /\ phase # "idle" /\ subject = 0 => size \in Sizes

LEMMA AnswerInitially == Init => AnswerInv
  <1> QED BY DEF Init, AtRest, AnswerInv

LEMMA AnswerKept == BaseInv /\ AnswerInv /\ [Next]_vars => AnswerInv'
  <1> SUFFICES ASSUME BaseInv, AnswerInv, [Next]_vars PROVE AnswerInv'
    OBVIOUS
  <1> USE DEF AnswerInv
  <1>1. CASE \E id \in Ids, level \in Levels : InsertFirst(id, level) \/ InsertNext(id, level)
    <2>1. PICK id \in Ids, level \in Levels : InsertFirst(id, level) \/ InsertNext(id, level)
      BY <1>1
    <2>2. phase = "idle" /\ answer' = answer
      BY <2>1 DEF InsertFirst, InsertNext, AddNode
    <2>3. phase' = "idle" \/ subject' # 0
      <3>1. Len(nodes) + 1 # 0
        BY Indices DEF BaseInv
      <3> QED BY <2>1, <2>2, <3>1 DEF InsertFirst, InsertNext
    <2> QED BY <2>2, <2>3
  <1>2. CASE \E q \in Queries, k \in Sizes : SearchEmpty(q, k) \/ Search(q, k) \/ SearchAll(q, k)
    BY <1>2 DEF SearchEmpty, Search, SearchAll, Descend
  <1>3. CASE \E id \in Ids : Delete(id)
    BY <1>3 DEF Delete
  <1>4. CASE Reindex
    BY <1>4 DEF Reindex
  <1>5. CASE Step
    BY <1>5 DEF Step, GreedyMove, GreedyDone, BeginLayer, Pop, Look, Select, Explored, Connect,
                NextLayer, FinishInsert, Forget, Answer, Widen, Descend, Return, task
  <1>6. CASE UNCHANGED vars
    BY <1>6 DEF vars, task
  <1> QED BY <1>1, <1>2, <1>3, <1>4, <1>5, <1>6 DEF Next

Seen == <<Members, Spent, answer>>

LEMMA IdsDiffer ==
    ASSUME BaseInv, NEW i \in Index, NEW j \in Index, nodes[i].id = nodes[j].id
    PROVE  i = j
  <1> QED BY DEF BaseInv, GraphInv, MapperAgrees

\* The ids of some nodes are no more than the nodes.
LEMMA IdCount ==
    ASSUME NEW S, IsFiniteSet(S)
    PROVE  LET ids == {nodes[i].id : i \in S}
           IN  IsFiniteSet(ids) /\ Cardinality(ids) =< Cardinality(S)
  <1> DEFINE ids == {nodes[i].id : i \in S}
             f == [i \in S |-> nodes[i].id]
  <1>1. f \in Surjection(S, ids)
    BY DEF Surjection
  <1> HIDE DEF f, ids
  <1>2. IsFiniteSet(ids) /\ Cardinality(ids) =< Cardinality(S)
    BY <1>1, FS_Surjection
  <1> QED BY <1>2 DEF ids

\* The best of some live nodes are an answer.
LEMMA BestIsAnswer ==
    ASSUME BaseInv, subject = 0, NEW S \in SUBSET {i \in Index : Live(i)}, S # {} \/ Established = {},
           NEW k \in Sizes, NEW v, NEW T \in Best(S, k, v),
           answer' = {nodes[i].id : i \in T}, UNCHANGED <<Members, Spent>>
    PROVE  Promise!Search(k)
  <1>1. k \in Nat \ {0} /\ IsFiniteSet(S)
    BY Indices, FS_Subset DEF BaseInv
  <1>2. T \subseteq S /\ IsFiniteSet(T) /\ Cardinality(T) =< k /\ (S # {} => T # {})
    BY <1>1, BestFacts
  <1>3. S \subseteq Established
    BY Indices DEF Established, BaseInv
  <1>4. answer' \in SUBSET Members
    BY <1>2, <1>3 DEF Members
  <1>5. Cardinality(answer') =< k
    <2>1. IsFiniteSet(answer') /\ Cardinality(answer') =< Cardinality(T)
      BY <1>2, IdCount
    <2>2. Cardinality(answer') \in Nat /\ Cardinality(T) \in Nat
      BY <1>2, <2>1, FS_CardinalityType
    <2> QED BY <1>1, <1>2, <2>1, <2>2
  <1>6. Members # {} => answer' # {}
    BY <1>2 DEF Members
  <1>7. Members' = Members /\ Spent' = Spent
    OBVIOUS
  <1>8. \A X : Promise!Cardinality(X) = Cardinality(X)
    BY DEF Promise!Cardinality, Promise!IsFiniteSet, Cardinality, IsFiniteSet
  <1> QED BY <1>4, <1>5, <1>6, <1>7, <1>8 DEF Promise!Search

LEMMA InsertImplements ==
    ASSUME BaseInv, NEW id \in Ids, NEW level \in Levels,
           InsertFirst(id, level) \/ InsertNext(id, level)
    PROVE  Promise!Next \/ UNCHANGED Seen
  <1>1. AddNode(id, level) /\ conf' = conf /\ answer' = answer
    BY DEF InsertFirst, InsertNext
  <1>2. PICK n \in Nat \ {0} : n = Len(nodes) + 1
    BY Indices DEF BaseInv
  <1>3. /\ Index' = Index \cup {n} /\ n \notin Index
        /\ nodes'[n] = NewNode(id, level)
        /\ \A i \in Index : nodes'[i] = nodes[i]
    BY <1>1, <1>2, Appended
  <1>4. subject = 0 /\ \A i \in Index : nodes[i].id # id
    BY <1>1 DEF AddNode, BaseInv, ControlInv, AtRest, GraphInv, MapperAgrees
  <1>5. nodes'[n].id = id /\ nodes'[n].dead = FALSE
    BY <1>3 DEF NewNode
  <1>6. Spent' = Spent
    BY <1>3, <1>5 DEF Spent, Live
  <1>7. CASE InsertFirst(id, level)
    <2>1. Established' = Established \cup {n}
      BY <1>3, <1>4, <1>5, <1>7 DEF Established, Live, InsertFirst, task
    <2>2. Members' = Members \cup {id}
      BY <1>3, <1>5, <2>1 DEF Members, Established
    <2>3. id \notin Members \cup Spent
      BY <1>4 DEF Members, Established, Spent
    <2> QED BY <1>1, <1>6, <2>2, <2>3 DEF Promise!Next, Promise!Insert
  <1>8. CASE InsertNext(id, level)
    <2>1. subject' = n
      BY <1>2, <1>8 DEF InsertNext
    <2>2. Established' = Established
      BY <1>3, <1>4, <2>1, Indices DEF Established, Live, BaseInv
    <2>3. Members' = Members
      BY <1>3, <2>2 DEF Members, Established
    <2> QED BY <1>1, <1>6, <2>3 DEF Seen
  <1> QED BY <1>7, <1>8
LEMMA FinishImplements ==
    ASSUME BaseInv, AnswerInv, FinishInsert
    PROVE  Promise!Next \/ UNCHANGED Seen
  <1>1. /\ UNCHANGED nodes /\ phase = "connect" /\ subject' = 0 /\ answer' = {}
        /\ subject \in Index /\ Live(subject)
    BY DEF FinishInsert, Forget, BaseInv, ControlInv, TypeOK
  <1>2. answer' = answer
    BY <1>1 DEF AnswerInv
  <1>3. Established' = Established \cup {subject} /\ Spent' = Spent
    BY <1>1, Indices DEF Established, Spent, Live, Index, BaseInv
  <1>4. PICK id \in Ids : id = nodes[subject].id
    BY <1>1, Indices DEF BaseInv, Node
  <1>5. Members' = Members \cup {id}
    BY <1>1, <1>3, <1>4 DEF Members
  <1>6. id \notin Members \cup Spent
    <2>1. \A i \in Index : nodes[i].id = id => i = subject
      BY <1>1, <1>4, IdsDiffer
    <2> QED BY <1>1, <2>1 DEF Members, Established, Spent
  <1> QED BY <1>2, <1>3, <1>5, <1>6 DEF Promise!Next, Promise!Insert

LEMMA DeleteImplements ==
    ASSUME BaseInv, AnswerInv, NEW id \in Ids, Delete(id)
    PROVE  Promise!Next \/ UNCHANGED Seen
  <1>1. PICK n \in Index : n = mapper[id]
    BY DEF Delete, BaseInv, TypeOK
  <1>2. /\ nodes' = [nodes EXCEPT ![n].dead = TRUE] /\ Index' = Index
        /\ subject = 0 /\ subject' = 0 /\ answer' = answer /\ nodes[n].id = id
    BY <1>1 DEF Delete, Index, BaseInv, ControlInv, AtRest, task, GraphInv, MapperAgrees
  <1>3. ASSUME NEW i \in Index
        PROVE  nodes'[i].id = nodes[i].id /\ (Live(i)' <=> Live(i) /\ i # n)
    <2>1. nodes[i] \in Node /\ nodes[n] \in Node
      BY Indices DEF BaseInv
    <2>2. CASE i = n
      <3>1. nodes'[i] = [nodes[i] EXCEPT !.dead = TRUE]
        BY <1>2, <2>2 DEF Index
      <3>2. nodes'[i].id = nodes[i].id /\ nodes'[i].dead = TRUE
        BY <2>1, <3>1 DEF Node
      <3> QED BY <2>2, <3>2 DEF Live
    <2>3. CASE i # n
      BY <1>2, <2>3 DEF Live, Index
    <2> QED BY <2>2, <2>3
  <1>4. /\ Members' = {nodes[i].id : i \in {j \in Index : Live(j) /\ j # n}}
        /\ Spent' = Spent \cup {id}
        /\ Members = {nodes[i].id : i \in {j \in Index : Live(j)}}
    <2>1. Established = {j \in Index : Live(j)} /\ Established' = {j \in Index : Live(j) /\ j # n}
      BY <1>2, <1>3, Indices DEF Established, BaseInv
    <2>2. \A j \in Index : ~ Live(j)' <=> ~ Live(j) \/ j = n
      BY <1>3
    <2>3. Spent' = Spent \cup {id}
      BY <1>2, <1>3, <2>2 DEF Spent
    <2>4. Members' = {nodes[i].id : i \in Established'}
      <3>1. \A i \in Established' : nodes'[i].id = nodes[i].id
        BY <1>3, <2>1
      <3> QED BY <3>1 DEF Members
    <2> QED BY <2>1, <2>3, <2>4 DEF Members
  <1>5. CASE Live(n)
    <2>1. id \in Members
      BY <1>2, <1>4, <1>5
    <2>2. Members' = Members \ {id}
      <3>1. \A i \in Index : nodes[i].id = id <=> i = n
        BY <1>2, IdsDiffer
      <3> QED BY <1>4, <3>1
    <2> QED BY <1>2, <1>4, <2>1, <2>2 DEF Promise!Next, Promise!Delete
  <1>6. CASE ~ Live(n)
    <2>1. Members' = Members
      BY <1>4, <1>6
    <2>2. id \in Spent
      BY <1>2, <1>6 DEF Spent
    <2> QED BY <1>2, <1>4, <2>1, <2>2 DEF Seen
  <1> QED BY <1>5, <1>6

LEMMA ReindexImplements ==
    ASSUME BaseInv, AnswerInv, Reindex
    PROVE  Promise!Next \/ UNCHANGED Seen
  <1> DEFINE live == {i \in Index : Live(i)}
  <1>1. PICK old \in Compaction :
         nodes' = [i \in DOMAIN old |-> [nodes[old[i]] EXCEPT !.dead = FALSE]]
    BY DEF Reindex
  <1>2. PICK n \in Nat :
         /\ old \in [1 .. n -> live]
         /\ \A x \in live : \E i \in 1 .. n : old[i] = x
    BY <1>1, CompactionFacts DEF BaseInv
  <1>3. subject = 0 /\ subject' = 0 /\ answer' = answer
    BY DEF Reindex, BaseInv, ControlInv, AtRest, task
  <1>4. DOMAIN old = 1 .. n /\ Index' = 1 .. n
    <2>1. DOMAIN old = 1 .. n
      BY <1>2
    <2> QED BY <1>1, <2>1 DEF Index
  <1>5. \A i \in 1 .. n : nodes'[i].id = nodes[old[i]].id /\ nodes'[i].dead = FALSE
    <2> TAKE i \in 1 .. n
    <2>1. old[i] \in Index /\ nodes[old[i]] \in Node
      BY <1>2, Indices DEF BaseInv
    <2>2. nodes'[i] = [nodes[old[i]] EXCEPT !.dead = FALSE]
      BY <1>1, <1>4
    <2> QED BY <2>1, <2>2 DEF Node
  <1>6. Established = live /\ Established' = 1 .. n /\ Spent' = {}
    <2>1. Established = live
      BY <1>3, Indices DEF Established, BaseInv
    <2>2. Established' = 1 .. n /\ Spent' = {}
      BY <1>3, <1>4, <1>5 DEF Established, Live, Spent
    <2> QED BY <2>1, <2>2
  <1>7. Members' = Members
    <2>1. Members = {nodes[x].id : x \in live}
      BY <1>6 DEF Members
    <2>2. Members' = {nodes[old[i]].id : i \in 1 .. n}
      <3>1. Members' = {nodes'[i].id : i \in Established'}
        BY DEF Members
      <3>2. Members' = {nodes'[i].id : i \in 1 .. n}
        BY <1>6, <3>1
      <3> HIDE DEF live
      <3>3. ASSUME NEW x \in Members'
            PROVE  x \in {nodes[old[i]].id : i \in 1 .. n}
        <4>1. PICK i \in 1 .. n : x = nodes'[i].id
          BY <3>2, <3>3
        <4>2. x = nodes[old[i]].id
          BY <1>5, <4>1
        <4> QED BY <4>2
      <3>4. ASSUME NEW i \in 1 .. n
            PROVE  nodes[old[i]].id \in Members'
        <4>1. nodes'[i].id \in Members'
          BY <3>2
        <4>2. nodes'[i].id = nodes[old[i]].id
          BY <1>5
        <4> QED BY <4>1, <4>2
      <3>5. Members' \subseteq {nodes[old[i]].id : i \in 1 .. n}
        BY <3>3, Zenon
      <3>6. {nodes[old[i]].id : i \in 1 .. n} \subseteq Members'
        BY <3>4, Zenon
      <3> QED BY <3>5, <3>6
    <2> HIDE DEF live
    <2> QED BY <1>2, <2>1, <2>2
  <1> QED BY <1>3, <1>6, <1>7 DEF Promise!Next, Promise!Compact

LEMMA SearchImplements ==
    ASSUME BaseInv, AnswerInv, NEW q \in Queries, NEW k \in Sizes,
           SearchEmpty(q, k) \/ Search(q, k) \/ SearchAll(q, k)
    PROVE  Promise!Next \/ UNCHANGED Seen
  <1>1. UNCHANGED <<nodes, subject>> /\ subject = 0
    BY DEF SearchEmpty, Search, SearchAll, graph, BaseInv, ControlInv, AtRest
  <1>2. UNCHANGED <<Members, Spent>>
    BY <1>1 DEF Members, Established, Spent, Live, Index
  <1>3. CASE SearchEmpty(q, k) \/ Search(q, k)
    BY <1>2, <1>3 DEF SearchEmpty, Search, Seen
  <1>4. CASE SearchAll(q, k)
    <2> DEFINE live == {i \in Index : Live(i)}
    <2>1. PICK T \in Best(live, k, q) : answer' = {nodes[i].id : i \in T}
      BY <1>4 DEF SearchAll, BruteForce
    <2>2. live # {} \/ Established = {}
      BY DEF Established
    <2>3. Promise!Search(k)
      BY <1>1, <1>2, <2>1, <2>2, BestIsAnswer
    <2> QED BY <2>3 DEF Promise!Next
  <1> QED BY <1>3, <1>4

LEMMA AnswerImplements ==
    ASSUME BaseInv, AnswerInv, Answer
    PROVE  Promise!Next
  <1>1. UNCHANGED <<nodes, subject>> /\ subject = 0 /\ Explored
    BY DEF Answer, graph, task
  <1>2. UNCHANGED <<Members, Spent>>
    BY <1>1 DEF Members, Established, Spent, Live, Index
  <1>3. PICK T \in Best(found, size, target) : answer' = {nodes[i].id : i \in {j \in T : Live(j)}}
    BY DEF Answer
  <1>4. size \in Sizes
    BY <1>1 DEF AnswerInv, Explored
  <1>5. found \in SUBSET {i \in Index : Live(i)} /\ found # {} /\ T \subseteq found
    BY <1>1, <1>3, FoundFacts DEF Best
  <1>6. {j \in T : Live(j)} = T
    BY <1>5
  <1>7. Promise!Search(size)
    BY <1>1, <1>2, <1>3, <1>4, <1>5, <1>6, BestIsAnswer
  <1> QED BY <1>4, <1>7 DEF Promise!Next

LEMMA StepImplements ==
    ASSUME BaseInv, AnswerInv, Step
    PROVE  Promise!Next \/ UNCHANGED Seen
  <1>1. CASE UNCHANGED <<nodes, subject, answer>>
    BY <1>1 DEF Members, Established, Spent, Live, Index, Seen
  <1>2. CASE FinishInsert
    BY <1>2, FinishImplements
  <1>3. CASE Answer
    BY <1>3, AnswerImplements
  <1>4. CASE Return
    <2>1. UNCHANGED nodes /\ subject = 0 /\ subject' = 0 /\ answer' = {}
      BY <1>4 DEF Return, graph, Forget, BaseInv, ControlInv, Walking
    <2>2. UNCHANGED <<Members, Spent>>
      BY <2>1 DEF Members, Established, Spent, Live, Index
    <2> QED BY <2>1, <2>2 DEF Promise!Next, Promise!Return
  <1>5. CASE GreedyMove \/ GreedyDone \/ BeginLayer \/ NextLayer \/ Select \/ Widen
    BY <1>1, <1>5 DEF GreedyMove, GreedyDone, BeginLayer, NextLayer, Select, Widen, Descend,
                      graph, task
  <1>6. CASE (\E c \in open : Pop(c)) \/ (\E n \in frontier : Look(n)) \/ (\E b \in todo : Connect(b))
    BY <1>1, <1>6 DEF Pop, Look, Connect, graph, task
  <1> QED BY <1>2, <1>3, <1>4, <1>5, <1>6 DEF Step

LEMMA NextImplements ==
    BaseInv /\ AnswerInv /\ [Next]_vars => [Promise!Next]_(Promise!vars)
  <1> SUFFICES ASSUME BaseInv, AnswerInv, [Next]_vars
               PROVE  Promise!Next \/ UNCHANGED Seen
    BY DEF Promise!vars, Seen
  <1>1. CASE \E id \in Ids, level \in Levels : InsertFirst(id, level) \/ InsertNext(id, level)
    BY <1>1, InsertImplements
  <1>2. CASE \E q \in Queries, k \in Sizes : SearchEmpty(q, k) \/ Search(q, k) \/ SearchAll(q, k)
    BY <1>2, SearchImplements
  <1>3. CASE \E id \in Ids : Delete(id)
    BY <1>3, DeleteImplements
  <1>4. CASE Reindex
    BY <1>4, ReindexImplements
  <1>5. CASE Step
    BY <1>5, StepImplements
  <1>6. CASE UNCHANGED vars
    BY <1>6 DEF vars, graph, task, Members, Established, Spent, Live, Index, Seen
  <1> QED BY <1>1, <1>2, <1>3, <1>4, <1>5, <1>6 DEF Next

LEMMA InitImplements == Init => Promise!Init
  <1> QED BY DEF Init, AtRest, Promise!Init, Members, Established, Spent, Index

\* The graph is the index it promises: inserted ids are found and deleted ids
\* are not, and a search of a non-empty index answers something.
THEOREM GraphImplementsIndex == Spec => ImplementsIndex
  <1>1. Spec => []AnswerInv
    BY AnswerInitially, AnswerKept, BaseAlways, PTL DEF Spec
  <1> QED BY <1>1, InitImplements, NextImplements, BaseAlways, PTL
          DEF Spec, ImplementsIndex, Promise!Spec

-------------------------------------------------------------------------------
(* The layer search, and answers that are short.                               *)

\* A search that never drops a result keeps every node it sees, and has looked
\* at, or will look at, the neighbours of each it explored.
SweepInv ==
    phase = "explore" /\ width >= Len(nodes) =>
        /\ found = visited
        /\ open \subseteq found
        /\ frontier \cap found = {}
        /\ \A i \in found \ open : Neighbours(i) \subseteq visited \cup frontier

\* A turn that leaves the graph, the target and the width of the search.
Turn == UNCHANGED <<conf, graph, task, layer, cur, todo, answer>>

LEMMA TurnFacts ==
    ASSUME BaseInv, Turn
    PROVE  /\ Index' = Index /\ Len(nodes') = Len(nodes) /\ target' = target
           /\ width' = width /\ layer' = layer /\ cur' = cur /\ subject' = subject
           /\ \A i : Neighbours(i)' = Neighbours(i)
  <1> QED BY DEF Turn, graph, task, Index, Neighbours, Live

\* What the exploration looks at next was not looked at before.
FrontierInv == phase = "explore" => frontier \cap visited = {}

LEMMA IndexCount ==
    ASSUME TypeOK
    PROVE  Cardinality(Index) = Len(nodes)
  <1>1. Index = 1 .. Len(nodes) /\ Len(nodes) \in Nat
    BY Indices
  <1>2. Cardinality(1 .. Len(nodes)) = IF 1 > Len(nodes) THEN 0 ELSE Len(nodes) - 1 + 1
    BY <1>1, FS_Interval
  <1> QED BY <1>1, <1>2

\* A result set that is full holds every node, if it may hold as many.
LEMMA FullHoldsAll ==
    ASSUME BaseInv, width >= Len(nodes), Full
    PROVE  found = Index
  <1>1. Index = 1 .. Len(nodes) /\ Len(nodes) \in Nat /\ IsFiniteSet(Index)
        /\ found \subseteq Index /\ width \in Nat
    BY Indices DEF BaseInv, TypeOK
  <1>2. Cardinality(Index) = Len(nodes)
    BY IndexCount DEF BaseInv
  <1>3. Cardinality(found) \in Nat /\ Cardinality(found) =< Cardinality(Index)
    BY <1>1, FS_Subset, FS_CardinalityType
  <1>4. Cardinality(Index) = Cardinality(found)
    BY <1>1, <1>2, <1>3 DEF Full
  <1> QED BY <1>1, <1>4, FS_Subset

LEMMA PopSweeps ==
    ASSUME BaseInv, SweepInv, FrontierInv, NEW c \in open, Pop(c)
    PROVE  SweepInv' /\ FrontierInv'
  <1>1. /\ Turn /\ phase = "explore" /\ phase' = "explore" /\ frontier = {}
        /\ open' = open \ {c} /\ found' = found /\ visited' = visited
    BY DEF Pop, Turn
  <1>2. /\ Len(nodes') = Len(nodes) /\ width' = width
        /\ \A i : Neighbours(i)' = Neighbours(i)
    BY <1>1, TurnFacts
  <1>3. (frontier' = {} /\ Full) \/ frontier' = Neighbours(c) \ visited
    BY DEF Pop
  <1>4. FrontierInv'
    BY <1>1, <1>3 DEF FrontierInv
  <1>5. ASSUME width >= Len(nodes)
        PROVE  /\ found' = visited' /\ open' \subseteq found' /\ frontier' \cap found' = {}
               /\ \A i \in found' \ open' : Neighbours(i)' \subseteq visited' \cup frontier'
    <2>1. /\ found = visited /\ open \subseteq found
          /\ \A i \in found \ open : Neighbours(i) \subseteq visited
      BY <1>1, <1>5 DEF SweepInv
    <2>2. Neighbours(c) \subseteq visited \cup frontier'
      <3>1. CASE Full
        <4>1. visited = Index
          BY <1>5, <2>1, <3>1, FullHoldsAll
        <4> QED BY <4>1 DEF Neighbours
      <3> QED BY <1>3, <3>1
    <2>3. ASSUME NEW i \in found' \ open' PROVE Neighbours(i)' \subseteq visited' \cup frontier'
      BY <1>1, <1>2, <2>1, <2>2
    <2> QED BY <1>1, <1>3, <2>1, <2>3
  <1> QED BY <1>1, <1>2, <1>4, <1>5 DEF SweepInv

LEMMA LookSweeps ==
    ASSUME BaseInv, SweepInv, FrontierInv, NEW n \in frontier, Look(n)
    PROVE  SweepInv' /\ FrontierInv'
  <1>1. /\ Turn /\ phase = "explore" /\ phase' = "explore"
        /\ frontier' = frontier \ {n} /\ visited' = visited \cup {n}
    BY DEF Look, Turn
  <1>2. /\ Len(nodes') = Len(nodes) /\ width' = width
        /\ \A i : Neighbours(i)' = Neighbours(i)
    BY <1>1, TurnFacts
  <1>4. FrontierInv'
    BY <1>1 DEF FrontierInv
  <1>5. ASSUME width >= Len(nodes)
        PROVE  /\ found' = visited' /\ open' \subseteq found' /\ frontier' \cap found' = {}
               /\ \A i \in found' \ open' : Neighbours(i)' \subseteq visited' \cup frontier'
    <2>1. /\ found = visited /\ open \subseteq found /\ frontier \cap found = {}
          /\ \A i \in found \ open : Neighbours(i) \subseteq visited \cup frontier
      BY <1>1, <1>5 DEF SweepInv
    <2>2. ~ Full
      <3>1. n \in Index /\ n \notin found
        BY <2>1 DEF BaseInv, TypeOK
      <3> QED BY <1>5, <3>1, FullHoldsAll
    <2>3. found' = found \cup {n} /\ open' = open \cup {n}
      BY <2>2 DEF Look, Admitted
    <2>4. ASSUME NEW i \in found' \ open' PROVE Neighbours(i)' \subseteq visited' \cup frontier'
      BY <1>1, <1>2, <2>1, <2>3
    <2> QED BY <1>1, <2>1, <2>3, <2>4
  <1> QED BY <1>1, <1>2, <1>4, <1>5 DEF SweepInv

\* The results are the best of what was looked at, as many as there may be.
TopInv == phase = "explore" => found \in Best(visited, width, target)

LEMMA LikeType ==
    ASSUME BaseInv
    PROVE  \A v \in Vectors, i \in Index : Like(v, i) \in Int
  <1>1. \A i \in Index : nodes[i].id \in Ids
    BY Indices DEF BaseInv, Node
  <1> QED BY <1>1 DEF Like

LEMMA LookKeepsTop ==
    ASSUME BaseInv, FrontierInv, TopInv, width > 0, NEW n \in frontier, Look(n)
    PROVE  found' \in Best(visited', width, target)
  <1>1. /\ phase = "explore" /\ visited' = visited \cup {n} /\ n \notin visited
        /\ found \in Best(visited, width, target)
    BY DEF Look, FrontierInv, TopInv
  <1>2. /\ visited \subseteq Index /\ n \in Index /\ found \subseteq visited /\ target \in Vectors
        /\ IsFiniteSet(visited) /\ IsFiniteSet(found) /\ width \in Nat
    <2>1. visited \subseteq Index /\ n \in Index /\ found \subseteq visited /\ target \in Vectors
          /\ width \in Nat
      BY <1>1 DEF BaseInv, TypeOK, Best
    <2> QED BY <2>1, Indices, FS_Subset DEF BaseInv
  <1>3. /\ Cardinality(visited) \in Nat /\ Cardinality(found) \in Nat
        /\ Cardinality(visited') = Cardinality(visited) + 1
    BY <1>1, <1>2, FS_CardinalityType, FS_AddElement
  <1>4. CASE ~ Full
    <2>1. found = visited
      BY <1>1, <1>3, <1>4 DEF Best, Full
    <2>2. found' = visited'
      BY <1>1, <1>4, <2>1 DEF Look, Admitted
    <2>3. Cardinality(visited') =< width
      BY <1>2, <1>3, <1>4, <2>1 DEF Full
    <2> QED BY <2>2, <2>3 DEF Best
  <1>5. CASE Full
    <2>1. Cardinality(found) = width /\ ~ Cardinality(visited') =< width
      <3>1. Cardinality(found) =< Cardinality(visited)
        BY <1>2, FS_Subset
      <3>2. Cardinality(found) =< width
        BY <1>1, <1>2, BestFacts
      <3> QED BY <1>2, <1>3, <1>5, <3>1, <3>2 DEF Full
    <2>2. \A t \in found, s \in visited \ found : Like(target, t) >= Like(target, s)
      BY <1>1 DEF Best
    <2>3. \A i \in Index : Like(target, i) \in Int
      BY <1>2, LikeType
    <2>4. CASE ~ Admitted(n)
      <3>1. found' = found
        BY <2>4 DEF Look
      <3>2. \A t \in found : ~ Like(target, n) > Like(target, t)
        BY <2>4 DEF Admitted
      <3>3. \A t \in found : Like(target, t) >= Like(target, n)
        BY <1>2, <2>3, <3>2
      <3>4. \A t \in found, s \in visited' \ found : Like(target, t) >= Like(target, s)
        BY <1>1, <2>2, <3>3
      <3> QED BY <1>1, <1>2, <2>1, <3>1, <3>4 DEF Best
    <2>5. CASE Admitted(n)
      <3>1. PICK worst \in Furthest(found) : found' = (found \ {worst}) \cup {n}
        BY <1>5, <2>5 DEF Look
      <3>2. worst \in found /\ \A t \in found : Like(target, worst) =< Like(target, t)
        BY DEF Furthest
      <3>3. \E t \in found : Like(target, n) > Like(target, t)
        BY <1>5, <2>5 DEF Admitted
      <3>4. Like(target, n) >= Like(target, worst)
        BY <1>2, <2>3, <3>2, <3>3
      <3>5. ASSUME NEW t \in found', NEW s \in visited' \ found'
            PROVE  Like(target, t) >= Like(target, s)
        <4>1. s = worst \/ s \in visited \ found
          BY <1>1, <3>1
        <4>2. Like(target, worst) >= Like(target, s)
          BY <1>2, <2>2, <2>3, <3>2, <4>1
        <4>3. Like(target, t) >= Like(target, worst)
          BY <3>1, <3>2, <3>4, <1>2, <2>3
        <4>4. t \in Index /\ s \in Index /\ worst \in Index
          BY <1>1, <1>2, <3>1, <3>2
        <4> QED BY <2>3, <4>2, <4>3, <4>4
      <3>6. Cardinality(found') = width /\ found' \subseteq visited'
        <4>1. IsFiniteSet(found \ {worst}) /\ Cardinality(found \ {worst}) = Cardinality(found) - 1
          BY <1>2, <3>2, FS_RemoveElement
        <4>2. n \notin found \ {worst}
          BY <1>1, <1>2
        <4>3. Cardinality(found') = Cardinality(found \ {worst}) + 1
          BY <3>1, <4>1, <4>2, FS_AddElement
        <4> QED BY <1>1, <1>2, <1>3, <2>1, <3>1, <4>1, <4>3
      <3> QED BY <2>1, <3>5, <3>6 DEF Best
    <2> QED BY <2>4, <2>5
  <1> QED BY <1>4, <1>5

\* The width of a search is not less than the number of neighbours asked for,
\* and that of an insertion stays what the index was made with.
WidthInv ==
    /\ subject # 0 => width = conf.ef
    /\ phase \in Walking /\ subject = 0 => width >= size

WalkInv == SweepInv /\ FrontierInv /\ TopInv /\ WidthInv

LEMMA WidthPositive ==
    ASSUME BaseInv, WidthInv, phase \in Walking
    PROVE  width \in Nat \ {0}
  <1>1. width \in Nat /\ size \in Nat /\ conf.ef \in Nat \ {0}
    BY DEF BaseInv, TypeOK
  <1>2. subject = 0 => size > 0
    BY DEF BaseInv, ControlInv, Walking
  <1> QED BY <1>1, <1>2 DEF WidthInv

LEMMA MultipleOf ==
    ASSUME NEW k \in Nat
    PROVE  k * EfMultiplier \in Nat /\ k * EfMultiplier >= k
  <1>1. EfMultiplier \in Nat \ {0}
    OBVIOUS
  <1>2. PICK m \in Nat : EfMultiplier = m + 1
    <2>1. EfMultiplier - 1 \in Nat /\ EfMultiplier = (EfMultiplier - 1) + 1
      BY <1>1
    <2> QED BY <2>1
  <1>3. k * EfMultiplier = k * m + k /\ k * m \in Nat
    BY <1>1, <1>2
  <1> QED BY <1>1, <1>3

\* A search that starts again is no narrower.
LEMMA WiderIsWider ==
    ASSUME TypeOK, width >= size
    PROVE  Wider(width) >= size
  <1> DEFINE least == size * EfMultiplier
  <1>0. Len(nodes) \in Nat /\ size \in Nat /\ width \in Nat
    BY Indices DEF TypeOK
  <1>1. least \in Nat /\ least >= size
    BY <1>0, MultipleOf
  <1>2. MaxWidth = IF Len(nodes) > least THEN Len(nodes) ELSE least
    BY DEF MaxWidth
  <1> HIDE DEF least
  <1>3. MaxWidth \in Nat /\ MaxWidth >= size
    BY <1>0, <1>1, <1>2
  <1>4. (width * 157575) \div 100000 >= width /\ (width * 157575) \div 100000 \in Nat
    BY <1>0
  <1> QED BY <1>0, <1>3, <1>4 DEF Wider

LEMMA WalkInitially == Init => WalkInv
  <1> QED BY DEF Init, AtRest, WalkInv, SweepInv, FrontierInv, TopInv, WidthInv, Walking

LEMMA WalkKept ==
    ASSUME BaseInv, BaseInv', WalkInv, [Next]_vars
    PROVE  WalkInv'
  <1> USE DEF WalkInv
  <1>1. CASE \E c \in open : Pop(c)
    <2>1. PICK c \in open : Pop(c)
      BY <1>1
    <2>2. /\ UNCHANGED <<target, width, size, subject, conf, phase, found, visited>>
      BY <2>1 DEF Pop, task
    <2>3. TopInv'
      BY <2>1, <2>2 DEF TopInv, Best, Like, Pop, graph
    <2>4. WidthInv'
      BY <2>2 DEF WidthInv
    <2> QED BY <2>1, <2>3, <2>4, PopSweeps
  <1>2. CASE \E n \in frontier : Look(n)
    <2>1. PICK n \in frontier : Look(n)
      BY <1>2
    <2>2. /\ UNCHANGED <<target, width, size, subject, conf, phase>> /\ phase = "explore"
          /\ nodes' = nodes
      BY <2>1 DEF Look, task, graph
    <2>3. found' \in Best(visited', width, target)
      BY <2>1, <2>2, WidthPositive, LookKeepsTop DEF Walking
    <2>4. (found \in Best(visited, width, target))'
      BY <2>2, <2>3 DEF Best, Like
    <2> QED BY <2>1, <2>2, <2>4, LookSweeps DEF WidthInv, TopInv
  <1>3. CASE BeginLayer
    <2>1. /\ phase = "descend" /\ phase' = "explore" /\ open' = {cur} /\ found' = {cur}
          /\ visited' = {cur} /\ frontier' = {}
          /\ UNCHANGED <<target, width, size, subject, conf>>
      BY <1>3 DEF BeginLayer, task
    <2>2. width \in Nat \ {0}
      BY <2>1, WidthPositive DEF Walking
    <2>3. Cardinality({cur}) = 1
      BY FS_Singleton
    <2>4. (found \in Best(visited, width, target))'
      BY <2>1, <2>2, <2>3 DEF Best
    <2> QED BY <2>1, <2>4 DEF SweepInv, FrontierInv, TopInv, WidthInv, Walking
  <1>4. CASE phase' # "explore"
    <2>1. SweepInv' /\ FrontierInv' /\ TopInv'
      BY <1>4 DEF SweepInv, FrontierInv, TopInv
    <2>2. WidthInv'
      <3>1. CASE \E id \in Ids, level \in Levels : InsertFirst(id, level) \/ InsertNext(id, level)
        <4>1. PICK id \in Ids, level \in Levels : InsertFirst(id, level) \/ InsertNext(id, level)
          BY <3>1
        <4>2. CASE InsertFirst(id, level)
          BY <4>2 DEF InsertFirst, AddNode, task, WidthInv, Walking
        <4>3. CASE InsertNext(id, level)
          <5>1. width' = conf.ef /\ conf' = conf /\ subject' = Len(nodes) + 1
            BY <4>3 DEF InsertNext
          <5>2. subject' # 0
            BY <5>1, Indices DEF BaseInv
          <5> QED BY <5>1, <5>2 DEF WidthInv
        <4> QED BY <4>1, <4>2, <4>3
      <3>2. CASE \E q \in Queries, k \in Sizes : SearchEmpty(q, k) \/ Search(q, k) \/ SearchAll(q, k)
        <4>1. PICK q \in Queries, k \in Sizes : SearchEmpty(q, k) \/ Search(q, k) \/ SearchAll(q, k)
          BY <3>2
        <4>2. subject' = 0
          BY <4>1 DEF SearchEmpty, Search, SearchAll, BaseInv, ControlInv, AtRest
        <4>3. CASE Search(q, k)
          <5>1. width' = k * EfMultiplier /\ size' = k
            BY <4>3 DEF Search, Descend
          <5>2. k * EfMultiplier >= k
            BY MultipleOf
          <5> QED BY <4>2, <5>1, <5>2 DEF WidthInv
        <4>4. CASE SearchEmpty(q, k) \/ SearchAll(q, k)
          BY <4>2, <4>4 DEF SearchEmpty, SearchAll, WidthInv, Walking
        <4> QED BY <4>1, <4>3, <4>4
      <3>3. CASE \E id \in Ids : Delete(id)
        BY <3>3 DEF Delete, task, WidthInv, Walking
      <3>4. CASE Reindex
        BY <3>4 DEF Reindex, task, WidthInv, Walking
      <3>5. CASE Widen
        <4>1. /\ width' = Wider(width) /\ subject' = 0 /\ size' = size
              /\ phase = "explore" /\ subject = 0
          BY <3>5 DEF Widen, Descend, Explored
        <4>2. width >= size
          BY <4>1 DEF WidthInv, Walking
        <4> QED BY <4>1, <4>2, WiderIsWider DEF WidthInv, BaseInv
      <3>6. CASE GreedyMove \/ GreedyDone \/ Select \/ (\E b \in todo : Connect(b)) \/ NextLayer
        BY <3>6 DEF GreedyMove, GreedyDone, Select, Explored, Connect, NextLayer, task, WidthInv,
                    Walking
      <3>7. CASE FinishInsert \/ Return \/ Answer
        BY <3>7 DEF FinishInsert, Return, Forget, Answer, task, WidthInv, Walking
      <3>8. CASE UNCHANGED vars
        BY <3>8 DEF vars, task, WidthInv
      <3> QED BY <1>1, <1>2, <1>3, <1>4, <3>1, <3>2, <3>3, <3>4, <3>5, <3>6, <3>7, <3>8
              DEF Next, Step, Pop, Look, BeginLayer
    <2> QED BY <2>1, <2>2
  <1>5. CASE UNCHANGED vars
    <2>1. UNCHANGED <<conf, nodes, links, phase, subject, target, size, width, layer, open, found,
                      visited, frontier>>
      BY <1>5 DEF vars, graph, task, walk
    <2>2. SweepInv' /\ FrontierInv' /\ WidthInv'
      BY <2>1 DEF SweepInv, FrontierInv, WidthInv, Neighbours, Index, Live
    <2>3. TopInv'
      BY <2>1 DEF TopInv, Best, Like
    <2> QED BY <2>2, <2>3
  <1>6. phase' # "explore" \/ BeginLayer \/ (\E c \in open : Pop(c)) \/ (\E n \in frontier : Look(n))
        \/ UNCHANGED vars
    <2>1. CASE Step
      BY <2>1 DEF Step, GreedyMove, GreedyDone, Select, Connect, NextLayer, FinishInsert, Answer,
                  Widen, Descend, Return
    <2>2. CASE \E q \in Queries, k \in Sizes : SearchEmpty(q, k) \/ Search(q, k) \/ SearchAll(q, k)
      BY <2>2 DEF SearchEmpty, Search, SearchAll, Descend
    <2>3. CASE \/ \E id \in Ids, level \in Levels : InsertFirst(id, level) \/ InsertNext(id, level)
               \/ \E id \in Ids : Delete(id)
               \/ Reindex
      BY <2>3 DEF InsertFirst, InsertNext, AddNode, Delete, Reindex
    <2> QED BY <2>1, <2>2, <2>3 DEF Next
  <1> QED BY <1>1, <1>2, <1>3, <1>4, <1>5, <1>6

LEMMA WalkAlways == Spec => []WalkInv
  <1>1. BaseInv /\ BaseInv' /\ WalkInv /\ [Next]_vars => WalkInv'
    BY WalkKept
  <1> QED BY <1>1, WalkInitially, BaseAlways, PTL DEF Spec

\* Different nodes have different ids.
LEMMA AsManyIds ==
    ASSUME BaseInv, NEW S \in SUBSET Index
    PROVE  Cardinality({nodes[i].id : i \in S}) = Cardinality(S)
  <1> DEFINE ids == {nodes[i].id : i \in S}
             f == [i \in S |-> nodes[i].id]
  <1>1. f \in [S -> ids] /\ \A i, j \in S : f[i] = f[j] => i = j
    BY IdsDiffer
  <1>2. \A x \in ids : \E i \in S : f[i] = x
    OBVIOUS
  <1>3. f \in Bijection(S, ids)
    BY <1>1, <1>2 DEF Bijection, Injection, IsInjective, Surjection
  <1>4. IsFiniteSet(S)
    BY Indices, FS_Subset DEF BaseInv
  <1> HIDE DEF f, ids
  <1>5. Cardinality(ids) = Cardinality(S)
    BY <1>3, <1>4, FS_Bijection DEF ExistsBijection
  <1> QED BY <1>5 DEF ids

LEMMA IndexOfId ==
    ASSUME BaseInv, NEW i \in Index
    PROVE  IndexOf(nodes[i].id) = i
  <1>1. \A j \in Index : nodes[j].id = nodes[i].id => j = i
    BY IdsDiffer
  <1> QED BY <1>1 DEF IndexOf

\* The answer of a search of the graph.
LEMMA AnswerFacts ==
    ASSUME BaseInv, WalkInv, Answer
    PROVE  \E S \in Best(found, size, target) :
              /\ S \subseteq found
              /\ answer' = {nodes[i].id : i \in S}
              /\ Answers(S)
  <1>1. PICK S \in Best(found, size, target) :
           /\ Answers({i \in S : Live(i)})
           /\ answer' = {nodes[i].id : i \in {i \in S : Live(i)}}
    BY DEF Answer
  <1>2. S \subseteq found
    BY DEF Best
  <1>3. {i \in S : Live(i)} = S
    BY <1>2, FoundFacts DEF Answer
  <1> QED BY <1>1, <1>2, <1>3

\* A search whose answer is short has swept what can be reached.
LEMMA AnswerComplete ==
    ASSUME BaseInv, WalkInv, Answer
    PROVE  ShortAnswerComplete'
  <1>1. /\ Explored /\ subject = 0 /\ size' = size /\ UNCHANGED <<nodes, links>>
    BY DEF Answer, task, graph
  <1>2. PICK S \in Best(found, size, target) :
           /\ S \subseteq found
           /\ answer' = {nodes[i].id : i \in S}
           /\ Answers(S)
    BY AnswerFacts
  <1>3. /\ found \subseteq Index /\ IsFiniteSet(found) /\ IsFiniteSet(S) /\ size \in Nat
        /\ Cardinality(found) \in Nat /\ Cardinality(S) \in Nat /\ width \in Nat
        /\ Len(nodes) \in Nat /\ layer \in Levels
    BY <1>1, <1>2, FoundFacts, FS_Subset, FS_CardinalityType, Indices DEF BaseInv, TypeOK
  <1>4. SUFFICES ASSUME Cardinality(answer') < size,
                        NEW id \in answer', NEW n \in Index,
                        <<0, IndexOf(id), n>> \in links, Live(n)
                 PROVE  nodes[n].id \in answer'
    BY <1>1 DEF ShortAnswerComplete, Index, IndexOf, Live
  <1>5. Cardinality(answer') = Cardinality(S)
    BY <1>2, <1>3, AsManyIds
  <1>6. S = found
    BY <1>2, <1>3, <1>4, <1>5 DEF Best
  <1>7. width >= Len(nodes)
    <2> DEFINE least == size * EfMultiplier
    <2>1. width >= MaxWidth
      BY <1>2, <1>3, <1>4, <1>5 DEF Answers
    <2>2. least \in Nat /\ MaxWidth = IF Len(nodes) > least THEN Len(nodes) ELSE least
      BY <1>3, MultipleOf DEF MaxWidth
    <2> HIDE DEF least
    <2> QED BY <1>3, <2>1, <2>2
  <1>8. \A i \in found : Neighbours(i) \subseteq found
    BY <1>1, <1>7 DEF WalkInv, SweepInv, Explored
  <1>9. PICK i \in found : id = nodes[i].id
    BY <1>2
  <1>10. layer = 0
    BY <1>1, <1>3 DEF BaseInv, ControlInv, Explored, Floor, Levels
  <1>11. nodes[i].level >= 0
    BY <1>3, Indices DEF BaseInv, Node, Levels
  <1>12. n \in Neighbours(i)
    BY <1>3, <1>4, <1>9, <1>10, <1>11, IndexOfId DEF Neighbours
  <1> QED BY <1>2, <1>6, <1>8, <1>12

LEMMA SearchAllComplete ==
    ASSUME BaseInv, NEW q \in Queries, NEW k \in Sizes, SearchAll(q, k)
    PROVE  ShortAnswerComplete'
  <1> DEFINE live == {i \in Index : Live(i)}
  <1>1. size' = k /\ UNCHANGED <<nodes, links>>
    BY DEF SearchAll, graph
  <1>2. PICK S \in Best(live, k, q) : answer' = {nodes[i].id : i \in S}
    BY DEF SearchAll, BruteForce
  <1>3. S \subseteq live /\ (S = live \/ Cardinality(S) = k)
    BY <1>2 DEF Best
  <1>4. Cardinality(answer') = Cardinality(S)
    BY <1>2, <1>3, AsManyIds
  <1>5. SUFFICES ASSUME Cardinality(answer') < k, NEW n \in live
                 PROVE  nodes[n].id \in answer'
    BY <1>1 DEF ShortAnswerComplete, Index, Live
  <1>6. S = live
    BY <1>3, <1>4, <1>5
  <1> QED BY <1>2, <1>6

LEMMA ShortKept ==
    ASSUME BaseInv, WalkInv, ShortAnswerComplete, [Next]_vars
    PROVE  ShortAnswerComplete'
  <1>1. CASE phase' # "answered"
    BY <1>1 DEF ShortAnswerComplete
  <1>2. CASE Answer
    BY <1>2, AnswerComplete
  <1>3. CASE \E q \in Queries, k \in Sizes : SearchEmpty(q, k) \/ Search(q, k) \/ SearchAll(q, k)
    <2>1. PICK q \in Queries, k \in Sizes : SearchEmpty(q, k) \/ Search(q, k) \/ SearchAll(q, k)
      BY <1>3
    <2>2. CASE SearchEmpty(q, k)
      BY <2>2 DEF SearchEmpty, BaseInv, ControlInv, AtRest, ShortAnswerComplete
    <2>3. CASE Search(q, k)
      BY <2>3 DEF Search, Descend, ShortAnswerComplete
    <2> QED BY <2>1, <2>2, <2>3, SearchAllComplete
  <1>4. CASE UNCHANGED vars
    BY <1>4 DEF vars, graph, task, ShortAnswerComplete, Index, IndexOf, Live
  <1>5. ASSUME Next, phase' = "answered" PROVE Answer \/
           \E q \in Queries, k \in Sizes : SearchEmpty(q, k) \/ Search(q, k) \/ SearchAll(q, k)
    <2>1. CASE Step
      BY <1>5, <2>1 DEF Step, GreedyMove, GreedyDone, BeginLayer, Pop, Look, Select, Connect,
                        NextLayer, FinishInsert, Widen, Descend, Return
    <2>2. CASE \E id \in Ids, level \in Levels : InsertFirst(id, level) \/ InsertNext(id, level)
      BY <1>5, <2>2 DEF InsertFirst, InsertNext, AddNode
    <2>3. CASE (\E id \in Ids : Delete(id)) \/ Reindex
      BY <1>5, <2>3 DEF Delete, Reindex
    <2> QED BY <1>5, <2>1, <2>2, <2>3 DEF Next
  <1> QED BY <1>1, <1>2, <1>3, <1>4, <1>5

\* A search that answers less than it was asked for has nothing left to find
\* next to what it answers.
THEOREM ShortAnswersComplete == Spec => []ShortAnswerComplete
  <1>1. Init => ShortAnswerComplete
    BY DEF Init, ShortAnswerComplete
  <1>2. BaseInv /\ WalkInv /\ ShortAnswerComplete /\ [Next]_vars => ShortAnswerComplete'
    BY ShortKept
  <1> QED BY <1>1, <1>2, BaseAlways, WalkAlways, PTL DEF Spec

-------------------------------------------------------------------------------
(* Indexes that are never pruned.                                              *)

\* What holds of an index that is never pruned: all its nodes know each other on
\* the bottom layer, so that a walk there meets every one of them, and a new
\* node is linked to every one.
DenseInv ==
    /\ \A i, j \in Established : i # j => <<0, i, j>> \in links
    /\ phase = "explore" /\ layer = 0 =>
          \/ visited = {cur} /\ open = {cur} /\ found = {cur} /\ frontier = {}
          \/ Established \subseteq visited \cup frontier
    /\ phase = "connect" /\ layer = 0 =>
          \A i \in Established : i \in todo \/ <<0, subject, i>> \in links

\* No node has more others than the parameters make room for.
LEMMA FewNodes ==
    ASSUME BaseInv, IsFiniteSet(Ids), Unpruned
    PROVE  /\ Cardinality(Index) =< conf.ef
           /\ \A i \in Index : \A S \in SUBSET (Index \ {i}) : Cardinality(S) =< conf.degree
  <1> DEFINE f == [i \in Index |-> nodes[i].id]
  <1>1. /\ IsFiniteSet(Index) /\ Cardinality(Index) \in Nat /\ Cardinality(Ids) \in Nat
        /\ conf.ef \in Nat /\ conf.degree \in Nat
    BY Indices, FS_CardinalityType DEF BaseInv, TypeOK
  <1>2. f \in [Index -> Ids] /\ \A i, j \in Index : f[i] = f[j] => i = j
    BY IdsDiffer, Indices DEF BaseInv, Node
  <1>3. f \in Injection(Index, Ids)
    BY <1>2 DEF Injection, IsInjective
  <1> HIDE DEF f
  <1>4. Cardinality(Index) =< Cardinality(Ids)
    BY <1>3, FS_Injection
  <1>5. ASSUME NEW i \in Index, NEW S \in SUBSET (Index \ {i})
        PROVE  Cardinality(S) =< conf.degree
    <2>1. IsFiniteSet(Index \ {i}) /\ Cardinality(Index \ {i}) = Cardinality(Index) - 1
      BY <1>1, FS_RemoveElement
    <2>2. Cardinality(S) =< Cardinality(Index \ {i}) /\ Cardinality(S) \in Nat
      BY <2>1, FS_Subset, FS_CardinalityType
    <2> QED BY <1>1, <1>4, <2>1, <2>2 DEF Unpruned
  <1> QED BY <1>1, <1>4, <1>5 DEF Unpruned

LEMMA NeverCrowded ==
    ASSUME BaseInv, IsFiniteSet(Ids), Unpruned, NEW b \in todo, Connect(b)
    PROVE  LET L == links \cup {<<layer, subject, b>>, <<layer, b, subject>>}
           IN  links' = IF layer > nodes[b].level THEN links ELSE L
  <1> DEFINE L == links \cup {<<layer, subject, b>>, <<layer, b, subject>>}
  <1>1. b \in Index /\ b # subject
    BY DEF BaseInv, ControlInv, TypeOK
  <1>2. LinksOf(L, b) \subseteq Index \ {b}
    BY <1>1 DEF LinksOf, BaseInv, GraphInv, LinksSound
  <1>3. Cardinality(LinksOf(L, b)) =< conf.degree
    BY <1>1, <1>2, FewNodes
  <1>4. Cardinality(LinksOf(L, b)) \in Nat /\ conf.degree \in Nat
    <2>1. LinksOf(L, b) \subseteq Index /\ IsFiniteSet(Index)
      BY <1>2, Indices DEF BaseInv
    <2>2. IsFiniteSet(LinksOf(L, b))
      BY <2>1, FS_Subset
    <2>3. conf.degree \in Nat
      BY DEF BaseInv, TypeOK
    <2> QED BY <2>2, <2>3, FS_CardinalityType
  <1>5. ~ Crowded(L, b)
    BY <1>3, <1>4 DEF Crowded
  <1> QED BY <1>5 DEF Connect

\* Who is established when neither the nodes nor the subject change.
LEMMA EstablishedStays ==
    ASSUME UNCHANGED <<nodes, subject>>
    PROVE  Established' = Established
  <1> QED BY DEF Established, Index, Live

LEMMA InsertKeepsDense ==
    ASSUME BaseInv, DenseInv, NEW id \in Ids, NEW level \in Levels,
           InsertFirst(id, level) \/ InsertNext(id, level)
    PROVE  DenseInv'
  <1>1. AddNode(id, level) /\ conf' = conf /\ links' = links /\ phase = "idle" /\ subject = 0
    BY DEF InsertFirst, InsertNext, AddNode, BaseInv, ControlInv, AtRest
  <1>2. /\ Index' = Index \cup {Len(nodes) + 1} /\ Len(nodes) + 1 \notin Index
        /\ \A i \in Index : nodes'[i] = nodes[i]
    BY <1>1, Appended
  <1>3. phase' \in {"idle", "descend"}
    BY <1>1 DEF InsertFirst, InsertNext
  <1>4. \A i, j \in Established' : i # j => <<0, i, j>> \in links
    <2>1. CASE InsertFirst(id, level)
      <3>1. Established = {} /\ subject' = 0
        BY <1>1, <2>1, Indices DEF InsertFirst, task, BaseInv, GraphInv, EntryTop, Established
      <3>2. Established' \subseteq {Len(nodes) + 1}
        BY <1>1, <1>2, <3>1, Indices DEF Established, Live, BaseInv
      <3> QED BY <3>2
    <2>2. CASE InsertNext(id, level)
      <3>1. subject' = Len(nodes) + 1
        BY <2>2 DEF InsertNext
      <3>2. Established' \subseteq Established
        BY <1>1, <1>2, <3>1, Indices DEF Established, Live, BaseInv
      <3> QED BY <3>2 DEF DenseInv
    <2> QED BY <2>1, <2>2
  <1> QED BY <1>1, <1>3, <1>4 DEF DenseInv

LEMMA ExploreKeepsDense ==
    ASSUME BaseInv, DenseInv, (\E c \in open : Pop(c)) \/ (\E n \in frontier : Look(n))
    PROVE  DenseInv'
  <1>0. UNCHANGED <<nodes, subject, links, layer, cur, phase>> /\ phase = "explore"
    BY DEF Pop, Look, graph, task
  <1>1. Established' = Established
    BY <1>0, EstablishedStays
  <1>2. ASSUME layer = 0, NEW c \in open, Pop(c)
        PROVE  Established \subseteq visited' \cup frontier'
    <2>1. frontier = {} /\ visited' = visited
      BY <1>2 DEF Pop
    <2>2. CASE visited = {cur} /\ open = {cur} /\ found = {cur}
      <3>1. c = cur /\ cur \in Index /\ Live(cur) /\ cur # subject /\ target \in Vectors
        BY <1>0, <1>2, <2>2 DEF BaseInv, TypeOK, ControlInv, Walking
      <3>2. Like(target, cur) \in Int
        BY <3>1, LikeType
      <3>3. ~ \A f \in found : Like(target, c) < Like(target, f)
        BY <2>2, <3>1, <3>2
      <3>4. frontier' = Neighbours(cur) \ visited
        BY <1>2, <3>1, <3>3 DEF Pop
      <3>5. cur \in Established /\ nodes[cur].level >= 0
        BY <3>1, Indices DEF Established, BaseInv, Node, Levels
      <3>6. ASSUME NEW i \in Established, i # cur PROVE i \in Neighbours(cur)
        BY <1>2, <3>5, <3>6 DEF DenseInv, Neighbours, Established
      <3> QED BY <2>1, <2>2, <3>4, <3>6
    <2>3. CASE Established \subseteq visited \cup frontier
      BY <2>1, <2>3
    <2> QED BY <1>0, <1>2, <2>2, <2>3 DEF DenseInv
  <1>3. ASSUME layer = 0, NEW n \in frontier, Look(n)
        PROVE  Established \subseteq visited' \cup frontier'
    BY <1>0, <1>3 DEF Look, DenseInv
  <1> QED BY <1>0, <1>1, <1>2, <1>3 DEF DenseInv

\* A walk on the bottom layer has met every established node when it ends.
LEMMA AllVisited ==
    ASSUME BaseInv, DenseInv, Explored, layer = 0
    PROVE  visited = Established
  <1>1. Established \subseteq visited
    BY DEF DenseInv, Explored
  <1>2. visited \subseteq Established
    BY DEF Explored, BaseInv, ControlInv, TypeOK, Established
  <1> QED BY <1>1, <1>2

LEMMA SelectKeepsDense ==
    ASSUME BaseInv, WalkInv, DenseInv, IsFiniteSet(Ids), Unpruned, Select
    PROVE  DenseInv'
  <1>0. /\ UNCHANGED <<nodes, subject, links, layer>> /\ Explored /\ subject # 0
        /\ phase' = "connect" /\ todo' \in Best(found, conf.degree, target)
    BY DEF Select, graph, task
  <1>1. Established' = Established
    BY <1>0, EstablishedStays
  <1>2. ASSUME layer = 0 PROVE todo' = Established
    <2>1. visited = Established /\ visited \subseteq Index
      BY <1>0, <1>2, AllVisited DEF Established
    <2>2. /\ Cardinality(visited) =< Cardinality(Index) /\ Cardinality(visited) \in Nat
          /\ Cardinality(Index) \in Nat
      BY <2>1, Indices, FS_Subset, FS_CardinalityType DEF BaseInv
    <2>3. Cardinality(visited) =< width
      <3>1. width = conf.ef /\ conf.ef \in Nat
        BY <1>0 DEF WalkInv, WidthInv, BaseInv, TypeOK
      <3> QED BY <2>2, <3>1, FewNodes
    <2>4. found = visited
      BY <1>0, <2>3 DEF WalkInv, TopInv, Explored, Best
    <2>5. found \subseteq Index \ {subject} /\ subject \in Index
      BY <1>0, <2>1, <2>4 DEF Established, BaseInv, TypeOK
    <2>6. Cardinality(found) =< conf.degree
      BY <2>5, FewNodes
    <2> QED BY <1>0, <2>1, <2>4, <2>6 DEF Best
  <1> QED BY <1>0, <1>1, <1>2 DEF DenseInv

LEMMA ConnectKeepsDense ==
    ASSUME BaseInv, DenseInv, IsFiniteSet(Ids), Unpruned, NEW b \in todo, Connect(b)
    PROVE  DenseInv'
  <1>0. /\ UNCHANGED <<nodes, subject, layer, phase>> /\ phase = "connect" /\ todo' = todo \ {b}
    BY DEF Connect, task
  <1>1. Established' = Established
    BY <1>0, EstablishedStays
  <1>2. links \subseteq links' /\ (~ layer > nodes[b].level => <<layer, subject, b>> \in links')
    BY NeverCrowded
  <1>3. b \in Index /\ ~ 0 > nodes[b].level
    <2>1. b \in Index
      BY DEF BaseInv, TypeOK
    <2> QED BY <2>1, Indices DEF BaseInv, Node, Levels
  <1> QED BY <1>0, <1>1, <1>2, <1>3 DEF DenseInv

LEMMA FinishKeepsDense ==
    ASSUME BaseInv, DenseInv, FinishInsert
    PROVE  DenseInv'
  <1>0. /\ phase = "connect" /\ todo = {} /\ layer = 0 /\ phase' = "idle"
        /\ UNCHANGED <<nodes, links>> /\ subject' = 0
    BY DEF FinishInsert, Forget
  <1>1. Established' \subseteq Established \cup {subject}
    BY <1>0 DEF Established, Index, Live
  <1>2. \A i \in Established : <<0, subject, i>> \in links /\ <<0, i, subject>> \in links
    <2>1. \A i \in Established : <<0, subject, i>> \in links
      BY <1>0 DEF DenseInv
    <2> QED BY <2>1 DEF BaseInv, GraphInv, LinksSound
  <1> QED BY <1>0, <1>1, <1>2 DEF DenseInv

LEMMA DeleteKeepsDense ==
    ASSUME BaseInv, DenseInv, NEW id \in Ids, Delete(id)
    PROVE  DenseInv'
  <1>0. /\ phase = "idle" /\ phase' = phase /\ UNCHANGED <<links, subject>>
        /\ nodes' = [nodes EXCEPT ![mapper[id]].dead = TRUE]
    BY DEF Delete, task
  <1>1. Established' \subseteq Established
    <2>1. Index' = Index
      BY <1>0 DEF Index
    <2>2. ASSUME NEW i \in Index, Live(i)' PROVE Live(i)
      BY <1>0, <2>2, Indices DEF Live, Index, BaseInv, Node
    <2> QED BY <1>0, <2>1, <2>2 DEF Established
  <1> QED BY <1>0, <1>1 DEF DenseInv

LEMMA ReindexKeepsDense ==
    ASSUME BaseInv, DenseInv, Reindex
    PROVE  DenseInv'
  <1>0. phase = "idle" /\ phase' = phase /\ subject = 0 /\ subject' = subject
    BY DEF Reindex, task, BaseInv, ControlInv, AtRest
  <1>1. PICK old \in Compaction :
           /\ nodes' = [i \in DOMAIN old |-> [nodes[old[i]] EXCEPT !.dead = FALSE]]
           /\ links' = {l \in Levels \X (DOMAIN old) \X (DOMAIN old) :
                          <<l[1], old[l[2]], old[l[3]]>> \in links}
    BY DEF Reindex
  <1>2. /\ \A i \in DOMAIN old : old[i] \in Established
        /\ \A i, j \in DOMAIN old : i # j => old[i] # old[j]
    <2>1. PICK n \in Nat : /\ old \in [1 .. n -> {i \in Index : Live(i)}]
                           /\ \A i, j \in 1 .. n : old[i] = old[j] => i = j
      BY CompactionFacts DEF BaseInv
    <2> QED BY <1>0, <2>1, Indices DEF Established, BaseInv
  <1>3. Established' \subseteq DOMAIN old
    BY <1>1 DEF Established, Index
  <1>4. 0 \in Levels
    BY DEF Levels, BaseInv, TypeOK
  <1>5. ASSUME NEW i \in Established', NEW j \in Established', i # j
        PROVE  <<0, i, j>> \in links'
    <2>1. <<0, old[i], old[j]>> \in links
      BY <1>2, <1>3, <1>5 DEF DenseInv
    <2> QED BY <1>1, <1>3, <1>4, <2>1
  <1> QED BY <1>0, <1>5 DEF DenseInv

\* One step of an index that is never pruned.
LEMMA DenseKept ==
    ASSUME BaseInv, WalkInv, DenseInv, IsFiniteSet(Ids), Unpruned, [Next]_vars
    PROVE  DenseInv'
  <1>1. CASE \E id \in Ids, level \in Levels : InsertFirst(id, level) \/ InsertNext(id, level)
    BY <1>1, InsertKeepsDense
  <1>2. CASE (\E c \in open : Pop(c)) \/ (\E n \in frontier : Look(n))
    BY <1>2, ExploreKeepsDense
  <1>3. CASE Select
    BY <1>3, SelectKeepsDense
  <1>4. CASE \E b \in todo : Connect(b)
    BY <1>4, ConnectKeepsDense
  <1>5. CASE FinishInsert
    BY <1>5, FinishKeepsDense
  <1>6. CASE \E id \in Ids : Delete(id)
    BY <1>6, DeleteKeepsDense
  <1>7. CASE Reindex
    BY <1>7, ReindexKeepsDense
  <1>8. CASE BeginLayer
    <2>1. UNCHANGED <<nodes, subject, links, layer, cur>>
      BY <1>8 DEF BeginLayer, graph, task
    <2> QED BY <1>8, <2>1, EstablishedStays DEF BeginLayer, DenseInv
  <1>9. CASE /\ UNCHANGED <<nodes, subject, links>>
             /\ phase' \notin {"explore", "connect"}
    BY <1>9, EstablishedStays DEF DenseInv
  <1>10. CASE UNCHANGED vars
    <2>1. UNCHANGED <<nodes, subject, links, phase, layer, cur, open, found, visited, frontier, todo>>
      BY <1>10 DEF vars, graph, task, walk
    <2> QED BY <2>1, EstablishedStays DEF DenseInv
  <1>11. CASE GreedyMove \/ GreedyDone \/ NextLayer \/ Answer \/ Widen
    BY <1>9, <1>11 DEF GreedyMove, GreedyDone, NextLayer, Answer, Widen, Descend, graph, task
  <1>12. CASE Return
    BY <1>9, <1>12 DEF Return, Forget, graph, BaseInv, ControlInv, Walking
  <1>13. CASE \E q \in Queries, k \in Sizes : SearchEmpty(q, k) \/ Search(q, k) \/ SearchAll(q, k)
    BY <1>9, <1>13 DEF SearchEmpty, Search, SearchAll, Descend, graph
  <1> QED BY <1>1, <1>2, <1>3, <1>4, <1>5, <1>6, <1>7, <1>8, <1>10, <1>11, <1>12, <1>13
          DEF Next, Step

\* The best of the best are the best of all.
LEMMA BestOfBest ==
    ASSUME BaseInv, NEW S \in SUBSET Index, NEW v \in Vectors, NEW n \in Nat \ {0},
           NEW k \in Nat \ {0}, k =< n, NEW T \in Best(S, n, v), NEW U \in Best(T, k, v)
    PROVE  U \in Best(S, k, v)
  <1>1. IsFiniteSet(S) /\ Cardinality(S) \in Nat
    BY Indices, FS_Subset, FS_CardinalityType DEF BaseInv
  <1>2. CASE T = S
    BY <1>2
  <1>3. CASE T # S
    <2>1. /\ T \subseteq S /\ Cardinality(T) = n /\ ~ Cardinality(S) =< n
          /\ \A t \in T, s \in S \ T : Like(v, t) >= Like(v, s)
      BY <1>3 DEF Best
    <2>2. ~ Cardinality(S) =< k
      BY <1>1, <2>1
    <2>3. /\ U \subseteq T /\ Cardinality(U) = k
          /\ \A t \in U, s \in T \ U : Like(v, t) >= Like(v, s)
      BY <2>1 DEF Best
    <2> QED BY <2>1, <2>2, <2>3 DEF Best
  <1> QED BY <1>2, <1>3

LEMMA AnswerExact ==
    ASSUME BaseInv, WalkInv, DenseInv, Answer
    PROVE  answer' \in BruteForce(target, size)
  <1>1. Explored /\ subject = 0
    BY DEF Answer
  <1>2. PICK S \in Best(found, size, target) : answer' = {nodes[i].id : i \in S}
    BY AnswerFacts
  <1>3. layer = 0
    BY <1>1 DEF BaseInv, ControlInv, TypeOK, Explored, Floor, Levels
  <1>4. Established = {i \in Index : Live(i)}
    BY <1>1, Indices DEF Established, BaseInv
  <1>5. found \in Best(Established, width, target)
    BY <1>1, <1>3, AllVisited DEF WalkInv, TopInv, Explored
  <1>6. /\ width \in Nat \ {0} /\ size \in Nat \ {0} /\ size =< width /\ target \in Vectors
        /\ Established \subseteq Index
    <2>1. width \in Nat /\ size \in Nat /\ target \in Vectors
      BY DEF BaseInv, TypeOK
    <2>2. size > 0 /\ width >= size
      BY <1>1 DEF BaseInv, ControlInv, WalkInv, WidthInv, Walking, Explored
    <2> QED BY <2>1, <2>2 DEF Established
  <1>7. S \in Best(Established, size, target)
    BY <1>2, <1>5, <1>6, BestOfBest
  <1> QED BY <1>2, <1>4, <1>7 DEF BruteForce

LEMMA ExactKept ==
    ASSUME BaseInv, WalkInv, Unpruned => DenseInv, ExactWhenSmall, [Next]_vars
    PROVE  ExactWhenSmall'
  <1>0. conf' = conf
    BY DEF Next, Step, vars, InsertFirst, InsertNext, SearchEmpty, Search, SearchAll, Delete,
           Reindex, GreedyMove, GreedyDone, BeginLayer, Pop, Look, Select, Connect, NextLayer,
           FinishInsert, Answer, Widen, Return
  <1>1. Unpruned' <=> Unpruned
    BY <1>0 DEF Unpruned
  <1>2. CASE phase' # "answered"
    BY <1>2 DEF ExactWhenSmall
  <1>3. CASE Answer
    <2>1. UNCHANGED <<nodes, target, size>>
      BY <1>3 DEF Answer, graph, task
    <2>2. Unpruned => answer' \in BruteForce(target, size)
      BY <1>3, AnswerExact
    <2>3. BruteForce(target, size)' = BruteForce(target, size)
      BY <2>1 DEF BruteForce, Best, Like, Live, Index
    <2> QED BY <1>1, <2>2, <2>3 DEF ExactWhenSmall
  <1>4. ASSUME NEW q \in Queries, NEW k \in Sizes, SearchEmpty(q, k) \/ SearchAll(q, k)
        PROVE  ExactWhenSmall'
    <2>1. nodes' = nodes /\ target' = q /\ size' = k /\ phase = "idle"
      BY <1>4 DEF SearchEmpty, SearchAll, graph
    <2>2. answer' \in BruteForce(q, k)
      <3>1. CASE SearchEmpty(q, k)
        <4>1. answer' = {} /\ Established = {} /\ subject = 0
          BY <2>1, <3>1, Indices DEF SearchEmpty, BaseInv, ControlInv, AtRest, GraphInv, EntryTop,
                                     Established
        <4>2. {i \in Index : Live(i)} = {}
          BY <4>1, Indices DEF Established, BaseInv
        <4>3. Cardinality({}) = 0 /\ k \in Nat
          BY FS_EmptySet
        <4>4. {} \in Best({}, k, q)
          BY <4>3 DEF Best
        <4>5. {nodes[i].id : i \in {}} = {}
          OBVIOUS
        <4> QED BY <4>1, <4>2, <4>4, <4>5 DEF BruteForce
      <3>2. CASE SearchAll(q, k)
        BY <3>2 DEF SearchAll
      <3> QED BY <1>4, <3>1, <3>2
    <2>3. BruteForce(target, size)' = BruteForce(q, k)
      BY <2>1 DEF BruteForce, Best, Like, Live, Index
    <2> QED BY <2>2, <2>3 DEF ExactWhenSmall
  <1>5. CASE UNCHANGED vars
    <2>1. UNCHANGED <<nodes, target, size, phase, answer>>
      BY <1>5 DEF vars, graph, task
    <2> QED BY <1>1, <2>1 DEF ExactWhenSmall, BruteForce, Best, Like, Live, Index
  <1>6. ASSUME Next, phase' = "answered" PROVE Answer \/
           \E q \in Queries, k \in Sizes : SearchEmpty(q, k) \/ SearchAll(q, k)
    <2>1. CASE Step
      BY <1>6, <2>1 DEF Step, GreedyMove, GreedyDone, BeginLayer, Pop, Look, Select, Connect,
                        NextLayer, FinishInsert, Widen, Descend, Return
    <2>2. CASE \E id \in Ids, level \in Levels : InsertFirst(id, level) \/ InsertNext(id, level)
      BY <1>6, <2>2 DEF InsertFirst, InsertNext, AddNode
    <2>3. CASE (\E id \in Ids : Delete(id)) \/ Reindex
      BY <1>6, <2>3 DEF Delete, Reindex
    <2>4. CASE \E q \in Queries, k \in Sizes : Search(q, k)
      BY <1>6, <2>4 DEF Search, Descend
    <2> QED BY <1>6, <2>1, <2>2, <2>3, <2>4 DEF Next
  <1> QED BY <1>2, <1>3, <1>4, <1>5, <1>6

\* While the parameters leave nothing to prune, every search of the graph answers
\* what looking at every node would.
THEOREM SmallAlwaysExact == IsFiniteSet(Ids) => (Spec => []ExactWhenSmall)
  <1> SUFFICES ASSUME IsFiniteSet(Ids) PROVE Spec => []ExactWhenSmall
    OBVIOUS
  <1>1. Init => (Unpruned => DenseInv) /\ ExactWhenSmall
    BY DEF Init, DenseInv, ExactWhenSmall, Established, Index
  <1>2. BaseInv /\ WalkInv /\ (Unpruned => DenseInv) /\ [Next]_vars => (Unpruned => DenseInv)'
    <2> SUFFICES ASSUME BaseInv, WalkInv, Unpruned => DenseInv, [Next]_vars, Unpruned'
                 PROVE  DenseInv'
      OBVIOUS
    <2>1. conf' = conf
      BY DEF Next, Step, vars, InsertFirst, InsertNext, SearchEmpty, Search, SearchAll, Delete,
             Reindex, GreedyMove, GreedyDone, BeginLayer, Pop, Look, Select, Connect, NextLayer,
             FinishInsert, Answer, Widen, Return
    <2>2. Unpruned
      BY <2>1 DEF Unpruned
    <2> QED BY <2>2, DenseKept
  <1>3. BaseInv /\ WalkInv /\ (Unpruned => DenseInv) /\ ExactWhenSmall /\ [Next]_vars
           => ExactWhenSmall'
    BY ExactKept
  <1> QED BY <1>1, <1>2, <1>3, BaseAlways, WalkAlways, PTL DEF Spec

-------------------------------------------------------------------------------
(* Every operation ends, but for what fairness adds.  OperationEnds is beyond  *)
(* the prover; proved are the two facts it comes down to, that an operation    *)
(* can always take a turn, and that every turn brings it nearer to its end.    *)

\* How much wider the search may still get.
Slack == IF subject = 0 /\ width < MaxWidth THEN MaxWidth - width ELSE 0

\* The nodes a descent may still climb to.
Uphill == {n \in Index : Like(target, n) > Like(target, cur)}

\* What is before an operation, from what it does last to what it does next: its
\* end and its answer, the widths, the layers, the loops on a layer, and the nodes
\* and candidates of a loop.
Remaining ==
    << CASE phase = "idle" -> 0 [] phase = "answered" -> 1 [] OTHER -> 2,
       Slack,
       layer,
       CASE phase = "descend" -> 3 [] phase = "explore" -> 2 [] phase = "connect" -> 1
         [] OTHER -> 0,
       CASE phase = "descend" -> Cardinality(Uphill)
         [] phase = "explore" -> Cardinality(Index \ visited)
         [] phase = "connect" -> Cardinality(todo)
         [] OTHER -> 0,
       IF phase = "explore" THEN Cardinality(open) ELSE 0 >>

\* The order of dictionaries, in which six natural numbers cannot fall for ever.
Lower(a, b) == \E i \in 1 .. 6 : a[i] < b[i] /\ \A j \in 1 .. i - 1 : a[j] = b[j]

LEMMA WiderThanBefore ==
    ASSUME TypeOK, width > 1, width < MaxWidth
    PROVE  Wider(width) > width /\ Wider(width) =< MaxWidth
  <1>1. width \in Nat /\ MaxWidth \in Nat
    BY WiderFacts DEF TypeOK
  <1>2. (width * 157575) \div 100000 >= width + 1
    BY <1>1
  <1>3. (width * 157575) \div 100000 \in Nat
    BY <1>1
  <1> QED BY <1>1, <1>2, <1>3 DEF Wider

\* A search that starts again found fewer than it was asked for, so it was asked
\* for more than one, and is wider than that: multiplied by 1.57575, its width
\* grows.
LEMMA WidenFacts ==
    ASSUME BaseInv, WidthInv, Widen
    PROVE  /\ phase = "explore" /\ phase' = "descend" /\ subject = 0
           /\ UNCHANGED <<nodes, size, subject>>
           /\ width' = Wider(width) /\ 1 < width /\ width < MaxWidth
  <1>1. width \in Nat /\ MaxWidth \in Nat /\ size \in Nat /\ TypeOK
    BY WiderFacts DEF BaseInv, TypeOK
  <1>2. /\ phase = "explore" /\ phase' = "descend" /\ subject = 0
        /\ UNCHANGED <<nodes, size, subject>> /\ width' = Wider(width)
    BY DEF Widen, Descend, Explored, graph
  <1>3. PICK S \in Best(found, size, target) : ~ Answers({i \in S : Live(i)})
    BY DEF Widen
  <1>4. width < MaxWidth /\ ~ Cardinality({i \in S : Live(i)}) >= size
    BY <1>1, <1>3 DEF Answers
  <1>5. size > 0 /\ found # {} /\ (\A i \in found : Live(i)) /\ width >= size
    BY <1>2 DEF BaseInv, ControlInv, WidthInv, Walking
  <1>6. IsFiniteSet(found)
    BY <1>1, Indices, FS_Subset DEF TypeOK
  <1>7. S \subseteq found /\ S # {} /\ IsFiniteSet(S)
    BY <1>1, <1>3, <1>5, <1>6, BestFacts
  <1>8. {i \in S : Live(i)} = S
    BY <1>5, <1>7
  <1>9. Cardinality(S) \in Nat /\ Cardinality(S) # 0
    BY <1>7, FS_CardinalityType, FS_EmptySet
  <1>10. ~ Cardinality(S) >= size
    BY <1>4, <1>8
  <1>11. 1 < width
    BY <1>1, <1>5, <1>9, <1>10
  <1> QED BY <1>2, <1>4, <1>11

\* The first number that differs is lower.
LEMMA LowerAt ==
    ASSUME NEW a1, NEW a2, NEW a3, NEW a4, NEW a5, NEW a6,
           NEW b1, NEW b2, NEW b3, NEW b4, NEW b5, NEW b6,
           \/ a1 < b1
           \/ a1 = b1 /\ a2 < b2
           \/ a1 = b1 /\ a2 = b2 /\ a3 < b3
           \/ a1 = b1 /\ a2 = b2 /\ a3 = b3 /\ a4 < b4
           \/ a1 = b1 /\ a2 = b2 /\ a3 = b3 /\ a4 = b4 /\ a5 < b5
           \/ a1 = b1 /\ a2 = b2 /\ a3 = b3 /\ a4 = b4 /\ a5 = b5 /\ a6 < b6
    PROVE  Lower(<<a1, a2, a3, a4, a5, a6>>, <<b1, b2, b3, b4, b5, b6>>)
  <1> DEFINE a == <<a1, a2, a3, a4, a5, a6>>
             b == <<b1, b2, b3, b4, b5, b6>>
  <1>1. /\ a[1] = a1 /\ a[2] = a2 /\ a[3] = a3 /\ a[4] = a4 /\ a[5] = a5 /\ a[6] = a6
        /\ b[1] = b1 /\ b[2] = b2 /\ b[3] = b3 /\ b[4] = b4 /\ b[5] = b5 /\ b[6] = b6
    OBVIOUS
  <1> HIDE DEF a, b
  <1>2. PICK i \in 1 .. 6 : a[i] < b[i] /\ \A j \in 1 .. 6 : j < i => a[j] = b[j]
    <2>1. CASE a1 < b1
      BY <1>1, <2>1
    <2>2. CASE a1 = b1 /\ a2 < b2
      BY <1>1, <2>2
    <2>3. CASE a1 = b1 /\ a2 = b2 /\ a3 < b3
      BY <1>1, <2>3
    <2>4. CASE a1 = b1 /\ a2 = b2 /\ a3 = b3 /\ a4 < b4
      BY <1>1, <2>4
    <2>5. CASE a1 = b1 /\ a2 = b2 /\ a3 = b3 /\ a4 = b4 /\ a5 < b5
      BY <1>1, <2>5
    <2>6. CASE a1 = b1 /\ a2 = b2 /\ a3 = b3 /\ a4 = b4 /\ a5 = b5 /\ a6 < b6
      BY <1>1, <2>6
    <2> QED BY <2>1, <2>2, <2>3, <2>4, <2>5, <2>6
  <1>3. \A j \in 1 .. i - 1 : a[j] = b[j]
    BY <1>2
  <1>4. Lower(a, b)
    BY <1>2, <1>3 DEF Lower
  <1> QED BY <1>4 DEF a, b

LEMMA RemainingType ==
    ASSUME BaseInv
    PROVE  Remaining \in Nat \X Nat \X Nat \X Nat \X Nat \X Nat
  <1>1. /\ Slack \in Nat /\ layer \in Nat
        /\ IsFiniteSet(Uphill) /\ IsFiniteSet(Index \ visited)
        /\ IsFiniteSet(todo) /\ IsFiniteSet(open)
    <2>1. MaxWidth \in Nat /\ width \in Nat /\ layer \in Levels /\ conf.layers \in Nat
      BY WiderFacts DEF BaseInv, TypeOK
    <2>2. Slack \in Nat /\ layer \in Nat
      BY <2>1 DEF Slack, Levels
    <2>3. /\ IsFiniteSet(Index) /\ Uphill \subseteq Index /\ todo \subseteq Index
          /\ open \subseteq Index
      BY Indices DEF BaseInv, TypeOK, Uphill
    <2> QED BY <2>2, <2>3, FS_Subset
  <1>2. /\ Cardinality(Uphill) \in Nat /\ Cardinality(Index \ visited) \in Nat
        /\ Cardinality(todo) \in Nat /\ Cardinality(open) \in Nat
    BY <1>1, FS_CardinalityType
  <1> QED BY <1>1, <1>2 DEF Remaining

\* A set that lost an element is smaller.
LEMMA Smaller ==
    ASSUME NEW S, IsFiniteSet(S), NEW T \in SUBSET S, NEW x \in S \ T
    PROVE  Cardinality(T) < Cardinality(S)
  <1>1. IsFiniteSet(T) /\ Cardinality(T) =< Cardinality(S)
        /\ (Cardinality(S) = Cardinality(T) => S = T)
    BY FS_Subset
  <1>2. Cardinality(T) \in Nat /\ Cardinality(S) \in Nat
    BY <1>1, FS_CardinalityType
  <1> QED BY <1>1, <1>2

\* Turns that leave the graph and the task leave how much wider it may get.
LEMMA SlackStays ==
    ASSUME UNCHANGED <<graph, task>>
    PROVE  Slack' = Slack
  BY DEF Slack, MaxWidth, graph, task

LEMMA TurnFalls ==
    ASSUME BaseInv, WalkInv, Step
    PROVE  Lower(Remaining', Remaining)
  <1> DEFINE A1 == CASE phase = "idle" -> 0 [] phase = "answered" -> 1 [] OTHER -> 2
             A4 == CASE phase = "descend" -> 3 [] phase = "explore" -> 2
                     [] phase = "connect" -> 1 [] OTHER -> 0
             A5 == CASE phase = "descend" -> Cardinality(Uphill)
                     [] phase = "explore" -> Cardinality(Index \ visited)
                     [] phase = "connect" -> Cardinality(todo)
                     [] OTHER -> 0
             A6 == IF phase = "explore" THEN Cardinality(open) ELSE 0
  <1>0. /\ layer \in Nat /\ IsFiniteSet(Index) /\ open \subseteq Index
        /\ todo \subseteq Index /\ frontier \subseteq Index /\ visited \subseteq Index
    <2>1. layer \in Levels /\ conf.layers \in Nat
      BY DEF BaseInv, TypeOK
    <2>2. layer \in Nat
      BY <2>1 DEF Levels
    <2> QED BY <2>2, Indices DEF BaseInv, TypeOK
  <1>1. SUFFICES
          \/ A1' < A1
          \/ A1' = A1 /\ Slack' < Slack
          \/ A1' = A1 /\ Slack' = Slack /\ layer' < layer
          \/ A1' = A1 /\ Slack' = Slack /\ layer' = layer /\ A4' < A4
          \/ A1' = A1 /\ Slack' = Slack /\ layer' = layer /\ A4' = A4 /\ A5' < A5
          \/ A1' = A1 /\ Slack' = Slack /\ layer' = layer /\ A4' = A4 /\ A5' = A5 /\ A6' < A6
    <2>1. Remaining = <<A1, Slack, layer, A4, A5, A6>>
      BY DEF Remaining
    <2>2. Remaining' = <<A1', Slack', layer', A4', A5', A6'>>
      BY DEF Remaining
    <2> HIDE DEF A1, A4, A5, A6
    <2>3. Lower(<<A1', Slack', layer', A4', A5', A6'>>, <<A1, Slack, layer, A4, A5, A6>>)
      BY <1>1, LowerAt
    <2> QED BY <2>1, <2>2, <2>3
  <1>2. CASE GreedyMove
    <2>1. /\ UNCHANGED <<graph, task, phase, layer>> /\ phase = "descend"
          /\ cur' \in Index /\ Like(target, cur') > Like(target, cur)
      BY <1>2 DEF GreedyMove, Nearest, Better, Neighbours
    <2>2. UNCHANGED <<nodes, target>>
      BY <2>1 DEF graph, task
    <2>3. \A i \in Index : Like(target, i) \in Int
      BY LikeType DEF BaseInv, TypeOK
    <2>4. cur \in Index
      BY <2>1 DEF BaseInv, TypeOK, ControlInv, Walking
    <2>5. Uphill' = {n \in Index : Like(target, n) > Like(target, cur')}
      BY <2>2 DEF Uphill, Like, Index
    <2>6. Uphill' \subseteq Uphill /\ cur' \in Uphill \ Uphill'
      BY <2>1, <2>3, <2>4, <2>5 DEF Uphill
    <2>7. IsFiniteSet(Uphill)
      BY <1>0, FS_Subset DEF Uphill
    <2>8. Cardinality(Uphill') < Cardinality(Uphill)
      BY <2>6, <2>7, Smaller
    <2> QED BY <2>1, <2>8, SlackStays
  <1>3. CASE GreedyDone \/ NextLayer
    <2>1. /\ UNCHANGED <<graph, task>> /\ phase \in {"descend", "connect"}
          /\ phase' = "descend" /\ layer' = layer - 1
      BY <1>3 DEF GreedyDone, NextLayer
    <2> QED BY <1>0, <2>1, SlackStays
  <1>4. CASE BeginLayer \/ Select
    <2>1. /\ UNCHANGED <<graph, task, layer>>
          /\ \/ phase = "descend" /\ phase' = "explore"
             \/ phase = "explore" /\ phase' = "connect"
      BY <1>4 DEF BeginLayer, Select, Explored
    <2> QED BY <2>1, SlackStays
  <1>5. ASSUME NEW c \in open, Pop(c)
        PROVE  /\ A1' = A1 /\ Slack' = Slack /\ layer' = layer
               /\ A4' = A4 /\ A5' = A5 /\ A6' < A6
    <2>1. /\ UNCHANGED <<graph, task, phase, layer, visited>> /\ phase = "explore"
          /\ open' = open \ {c}
      BY <1>5 DEF Pop
    <2>2. Index' = Index
      BY <2>1 DEF graph, Index
    <2>3. Cardinality(open') < Cardinality(open)
      BY <1>0, <2>1, FS_Subset, Smaller
    <2> QED BY <2>1, <2>2, <2>3, SlackStays
  <1>6. ASSUME NEW n \in frontier, Look(n)
        PROVE  /\ A1' = A1 /\ Slack' = Slack /\ layer' = layer
               /\ A4' = A4 /\ A5' < A5
    <2>1. /\ UNCHANGED <<graph, task, phase, layer>> /\ phase = "explore"
          /\ visited' = visited \cup {n}
      BY <1>6 DEF Look
    <2>2. n \in Index \ visited
      BY <1>0, <2>1 DEF WalkInv, FrontierInv
    <2>3. Index' = Index
      BY <2>1 DEF graph, Index
    <2>4. Cardinality(Index' \ visited') < Cardinality(Index \ visited)
      BY <1>0, <2>1, <2>2, <2>3, FS_Subset, Smaller
    <2> QED BY <2>1, <2>4, SlackStays
  <1>7. ASSUME NEW b \in todo, Connect(b)
        PROVE  /\ A1' = A1 /\ Slack' = Slack /\ layer' = layer
               /\ A4' = A4 /\ A5' < A5
    <2>1. /\ UNCHANGED <<nodes, task, phase, layer>> /\ phase = "connect"
          /\ todo' = todo \ {b}
      BY <1>7 DEF Connect
    <2>2. Slack' = Slack
      BY <2>1 DEF Slack, MaxWidth, task
    <2>3. Cardinality(todo') < Cardinality(todo)
      BY <1>0, <2>1, FS_Subset, Smaller
    <2> QED BY <2>1, <2>2, <2>3
  <1>8. CASE FinishInsert \/ Answer \/ Return
    <2>1. A1' < A1
      BY <1>8 DEF FinishInsert, Answer, Return, Explored
    <2> QED BY <2>1
  <1>9. CASE Widen
    <2>1. /\ width > 1 /\ width \in Nat /\ MaxWidth \in Nat
      BY <1>9, WidenFacts, WiderFacts DEF WalkInv, BaseInv, TypeOK
    <2>2. Wider(width) > width /\ Wider(width) =< MaxWidth /\ Wider(width) \in Nat
      BY <1>9, <2>1, WidenFacts, WiderThanBefore, WiderFacts DEF BaseInv, WalkInv
    <2>3. MaxWidth' = MaxWidth
      BY <1>9, WidenFacts DEF MaxWidth, WalkInv
    <2>4. Slack' < Slack
      BY <1>9, <2>1, <2>2, <2>3, WidenFacts DEF Slack, WalkInv
    <2>5. A1' = A1
      BY <1>9, WidenFacts DEF WalkInv
    <2> QED BY <2>4, <2>5
  <1> HIDE DEF A1, A4, A5, A6
  <1> QED BY <1>2, <1>3, <1>4, <1>5, <1>6, <1>7, <1>8, <1>9 DEF Step

\* Every turn of insert, of search and of the loops they run brings the operation
\* nearer to its end: the descent only climbs, the exploration looks at no node
\* twice, and search (core/hnsw.rs:454) never starts again with the width it had.
THEOREM EveryTurnCounts ==
    Spec => /\ [](Remaining \in Nat \X Nat \X Nat \X Nat \X Nat \X Nat)
            /\ [][Step => Lower(Remaining', Remaining)]_vars
  <1>1. BaseInv => Remaining \in Nat \X Nat \X Nat \X Nat \X Nat \X Nat
    BY RemainingType
  <1>2. BaseInv /\ WalkInv /\ [Next]_vars => [Step => Lower(Remaining', Remaining)]_vars
    BY TurnFalls
  <1> QED BY <1>1, <1>2, BaseAlways, WalkAlways, PTL DEF Spec

-------------------------------------------------------------------------------
(* The guards of Step: no operation is left with a loop that cannot go on.     *)

\* Somebody among finitely many is greatest.
LEMMA Greatest ==
    ASSUME NEW S, IsFiniteSet(S), S # {}, NEW f \in [S -> Int]
    PROVE  \E i \in S : \A j \in S : f[i] >= f[j]
  <1> DEFINE Above(i) == {j \in S : f[j] > f[i]}
             Counts == {Cardinality(Above(i)) : i \in S}
  <1>1. \A i \in S : IsFiniteSet(Above(i)) /\ Cardinality(Above(i)) \in Nat
    BY FS_Subset, FS_CardinalityType
  <1>2. PICK i \in S : \A j \in S : Cardinality(Above(i)) =< Cardinality(Above(j))
    <2>1. Counts \in SUBSET Nat /\ Counts # {}
      <3> HIDE DEF Above
      <3> QED BY <1>1
    <2>2. PICK x \in Counts : \A y \in Counts : x =< y
      BY <2>1, Least
    <2>3. PICK i \in S : x = Cardinality(Above(i))
      BY <2>2
    <2> HIDE DEF Above
    <2> QED BY <2>2, <2>3
  <1>3. ASSUME NEW j \in S, f[j] > f[i]
        PROVE  FALSE
    <2>1. Above(j) \in SUBSET Above(i) /\ j \in Above(i) \ Above(j)
      BY <1>3
    <2> HIDE DEF Above
    <2>2. Cardinality(Above(j)) < Cardinality(Above(i))
      BY <1>1, <2>1, Smaller
    <2> QED BY <1>1, <1>2, <2>2
  <1> HIDE DEF Above
  <1> QED BY <1>3

\* A set that is not empty has a nearest and a furthest node.
LEMMA Extremes ==
    ASSUME BaseInv, NEW v \in Vectors, NEW S \in SUBSET Index, S # {}
    PROVE  /\ \E i \in S : \A j \in S : Like(v, i) >= Like(v, j)
           /\ \E i \in S : \A j \in S : Like(v, i) =< Like(v, j)
  <1>1. IsFiniteSet(S) /\ \A i \in S : Like(v, i) \in Int
    BY Indices, FS_Subset, LikeType DEF BaseInv
  <1> DEFINE f == [i \in S |-> Like(v, i)]
             g == [i \in S |-> 0 - Like(v, i)]
  <1>2. f \in [S -> Int] /\ g \in [S -> Int]
    BY <1>1
  <1>3. PICK i \in S : \A j \in S : f[i] >= f[j]
    <2> HIDE DEF f
    <2> QED BY <1>1, <1>2, Greatest
  <1>4. PICK k \in S : \A j \in S : g[k] >= g[j]
    <2> HIDE DEF g
    <2> QED BY <1>1, <1>2, Greatest
  <1>5. \A j \in S : Like(v, i) >= Like(v, j)
    BY <1>3
  <1>6. \A j \in S : Like(v, k) =< Like(v, j)
    <2>1. \A j \in S : 0 - Like(v, k) >= 0 - Like(v, j)
      BY <1>4
    <2> QED BY <1>1, <2>1
  <1> QED BY <1>5, <1>6

\* A list can always be sorted and truncated.
LEMMA BestExists ==
    ASSUME BaseInv, NEW v \in Vectors, NEW S \in SUBSET Index, NEW n \in Nat
    PROVE  Best(S, n, v) # {}
  <1>1. CASE Cardinality(S) =< n
    BY <1>1 DEF Best
  <1>2. CASE ~ Cardinality(S) =< n
    <2> DEFINE Closed(T) == \A t \in T, s \in S \ T : Like(v, t) >= Like(v, s)
               Enough == {T \in SUBSET S : Cardinality(T) >= n /\ Closed(T)}
               Counts == {Cardinality(T) : T \in Enough}
    <2>1. \A T \in SUBSET S : IsFiniteSet(T) /\ Cardinality(T) \in Nat
      BY Indices, FS_Subset, FS_CardinalityType DEF BaseInv
    <2>2. S \in Enough
      BY <1>2, <2>1
    <2>3. PICK T \in Enough : \A U \in Enough : Cardinality(T) =< Cardinality(U)
      <3>1. Counts \in SUBSET Nat /\ Counts # {}
        BY <2>1, <2>2
      <3>2. PICK x \in Counts : \A y \in Counts : x =< y
        BY <3>1, Least
      <3> QED BY <3>2
    <2>4. ASSUME Cardinality(T) > n
          PROVE  FALSE
      <3>1. T # {}
        BY <2>1, <2>4, FS_EmptySet
      <3>2. PICK w \in T : \A t \in T : Like(v, w) =< Like(v, t)
        BY <3>1, Extremes
      <3>3. Cardinality(T \ {w}) = Cardinality(T) - 1
        BY <2>1, FS_RemoveElement
      <3>4. Closed(T \ {w})
        <4>1. ASSUME NEW t \in T \ {w}, NEW s \in S \ (T \ {w})
              PROVE  Like(v, t) >= Like(v, s)
          <5>1. CASE s = w
            <6>1. Like(v, t) \in Int /\ Like(v, w) \in Int /\ Like(v, w) =< Like(v, t)
              BY <3>2, LikeType
            <6> QED BY <5>1, <6>1
          <5>2. CASE s # w
            BY <5>2
          <5> QED BY <5>1, <5>2
        <4> QED BY <4>1
      <3> HIDE DEF Closed
      <3>5. T \ {w} \in Enough
        BY <2>1, <2>4, <3>3, <3>4
      <3> QED BY <2>1, <2>3, <3>3, <3>5
    <2>5. Cardinality(T) = n
      BY <2>1, <2>3, <2>4
    <2> QED BY <1>2, <2>3, <2>5 DEF Best
  <1> QED BY <1>1, <1>2

LEMMA PruneExists ==
    ASSUME NEW L, NEW i,
           Best({n \in LinksOf(L, i) : Live(n)}, conf.degree, nodes[i].id) # {}
    PROVE  Prune(L, i) # {}
  <1>1. PICK K \in Best({n \in LinksOf(L, i) : Live(n)}, conf.degree, nodes[i].id) : TRUE
    OBVIOUS
  <1>2. {l \in L : ~ /\ l[1] = layer
                     /\ \/ l[2] = i /\ l[3] \notin K
                        \/ l[3] = i /\ l[2] \notin K} \in Prune(L, i)
    BY <1>1 DEF Prune
  <1> QED BY <1>2

\* Once it is linked to the new node, what is left of the list of node b.
CanPrune(b) ==
    LET L == links \cup {<<layer, subject, b>>, <<layer, b, subject>>}
    IN  Crowded(L, b) => Prune(L, b) # {}

\* The guards of the actions of Step, each with what it chooses from.
CanTurn ==
    \/ /\ phase = "descend"
       /\ layer =< Floor \/ Better = {} \/ Nearest(Better) # {}
    \/ /\ phase = "explore"
       /\ \/ frontier = {} /\ Nearest(open) # {}
          \/ \E n \in frontier : Admitted(n) /\ Full => Furthest(found) # {}
          \/ /\ Explored
             /\ IF subject # 0
                THEN \E T \in Best(found, conf.degree, target) : Nearest(T) # {}
                ELSE Best(found, size, target) # {}
    \/ /\ phase = "connect"
       /\ \/ todo = {}
          \/ \E b \in Nearest(todo) : CanPrune(b)
    \/ phase = "answered"

LEMMA TurnPossible ==
    ASSUME BaseInv, phase # "idle"
    PROVE  CanTurn
  <1>0. /\ TypeOK
        /\ target \in Vectors /\ conf.degree \in Nat \ {0} /\ size \in Nat
        /\ open \subseteq Index /\ found \subseteq Index /\ todo \subseteq Index
    BY DEF BaseInv, TypeOK
  <1>1. \A S \in SUBSET Index : S # {} => Nearest(S) # {} /\ Furthest(S) # {}
    BY <1>0, Extremes DEF Nearest, Furthest
  <1>2. CASE phase = "descend"
    BY <1>1, <1>2 DEF CanTurn, Better, Neighbours
  <1>3. CASE phase = "explore"
    <2>1. found # {}
      BY <1>3 DEF BaseInv, ControlInv
    <2>2. CASE frontier # {}
      BY <1>0, <1>1, <1>3, <2>1, <2>2 DEF CanTurn
    <2>3. CASE frontier = {} /\ open # {}
      BY <1>0, <1>1, <1>3, <2>3 DEF CanTurn
    <2>4. CASE frontier = {} /\ open = {}
      <3>1. Explored
        BY <1>3, <2>4 DEF Explored
      <3>2. Best(found, size, target) # {} /\ Best(found, conf.degree, target) # {}
        BY <1>0, BestExists
      <3>3. PICK T \in Best(found, conf.degree, target) : TRUE
        BY <3>2
      <3>4. T \subseteq found /\ T # {}
        BY <1>0, <2>1, BestFacts, Indices, FS_Subset
      <3>5. Nearest(T) # {}
        BY <1>0, <1>1, <3>4
      <3> QED BY <1>3, <3>1, <3>2, <3>5 DEF CanTurn
    <2> QED BY <2>2, <2>3, <2>4
  <1>4. CASE phase = "connect"
    <2>1. CASE todo = {}
      BY <1>4, <2>1 DEF CanTurn
    <2>2. CASE todo # {}
      <3>1. PICK b \in Nearest(todo) : TRUE
        BY <1>0, <1>1, <2>2
      <3> DEFINE L == links \cup {<<layer, subject, b>>, <<layer, b, subject>>}
                 Kept == {n \in LinksOf(L, b) : Live(n)}
      <3>2. nodes[b].id \in Vectors
        <4>1. nodes[b] \in Node
          BY <1>0, <3>1, Indices DEF Nearest
        <4> QED BY <4>1 DEF Node, Vectors
      <3>3. Kept \in SUBSET Index
        BY DEF LinksOf
      <3> HIDE DEF L
      <3>4. Best(Kept, conf.degree, nodes[b].id) # {}
        <4> HIDE DEF Kept
        <4> QED BY <1>0, <3>2, <3>3, BestExists
      <3>5. Prune(L, b) # {}
        BY <3>4, PruneExists
      <3>6. CanPrune(b)
        BY <3>5 DEF CanPrune, L
      <3> QED BY <1>4, <3>1, <3>6 DEF CanTurn
    <2> QED BY <2>1, <2>2
  <1>5. CASE phase = "answered"
    BY <1>5 DEF CanTurn
  <1> QED BY <1>2, <1>3, <1>4, <1>5 DEF BaseInv, TypeOK

\* No loop of insert or of search is ever left with nothing to do and no way out:
\* a better neighbour to climb to, a candidate to pop, a result to displace, a
\* list to truncate is there whenever the code goes on to take one.
THEOREM NeverStuck == Spec => [](phase # "idle" => CanTurn)
  <1>1. BaseInv => (phase # "idle" => CanTurn)
    BY TurnPossible
  <1> QED BY <1>1, BaseAlways, PTL

===============================================================================
