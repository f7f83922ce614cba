--------------------------- MODULE HnswGraph_proofs ---------------------------
(***************************************************************************)
(* What holds of every HnswGraph: any vectors and any way of comparing     *)
(* them, any degree, widths and number of layers, any sequence of          *)
(* operations, and any order the code may take equals in.                  *)
(*                                                                         *)
(* ControlInv   where an operation is, and what its variables hold there   *)
(* FreshInv     which links the node being inserted has so far             *)
(***************************************************************************)
EXTENDS HnswGraph, FiniteSetTheorems, SequenceTheorems, TLAPS

USE VectorAssumption, ParameterAssumption

Walking == {"descend", "explore", "connect"}

Node == [id : Ids, level : Levels, dead : BOOLEAN]

ControlInv ==
    /\ phase = "idle" => AtRest
    /\ phase # "explore" => walk = <<{}, {}, {}, {}>>
    /\ phase # "connect" => todo = {}
    /\ phase = "connect" => subject # 0
    /\ subject # 0 => phase \in Walking /\ subject = Len(nodes) /\ Live(subject)
    /\ phase \in Walking => entry # 0 /\ cur # 0 /\ cur # subject /\ Live(cur)
    /\ phase \in {"explore", "connect"} => layer =< Floor
    /\ phase = "explore" => found # {}
    /\ phase # "idle" /\ subject = 0 => size > 0
    /\ \A i \in open \cup found \cup visited \cup frontier \cup todo :
          Live(i) /\ i # subject

\* Links of the new node are on the layers already connected.
FreshInv ==
    subject # 0 => \A l \in links :
        l[2] = subject => l[1] > layer \/ (phase = "connect" /\ l[1] = layer)

GraphInv == LinksSound /\ MapperAgrees /\ FreshInv /\ EntryTop

BaseInv == TypeOK /\ ControlInv /\ GraphInv

-------------------------------------------------------------------------------
(* Facts about the data.                                                       *)

LEMMA Indices ==
    ASSUME TypeOK
    PROVE  /\ Len(nodes) \in Nat
           /\ Index = 1 .. Len(nodes)
           /\ \A i \in Index : nodes[i] \in Node
           /\ IsFiniteSet(Index)
           /\ 0 \notin Index
  <1>1. nodes \in Seq(Node)
    BY DEF TypeOK, Node
  <1>2. Len(nodes) \in Nat /\ Index = 1 .. Len(nodes)
    BY <1>1, LenProperties DEF Index
  <1>3. \A i \in Index : nodes[i] \in Node
    BY <1>1, <1>2, ElementOfSeq
  <1> QED BY <1>2, <1>3, FS_Interval

\* What is left of a sorted and truncated list is part of the list.
LEMMA BestFacts ==
    ASSUME NEW S, IsFiniteSet(S), NEW n \in Nat \ {0}, NEW v, NEW T \in Best(S, n, v)
    PROVE  /\ T \subseteq S
           /\ IsFiniteSet(T)
           /\ Cardinality(T) =< n
           /\ S # {} => T # {}
  <1>1. T \subseteq S /\ Cardinality(T) =< n /\ (T = S \/ Cardinality(T) = n)
    BY DEF Best
  <1>2. IsFiniteSet(T)
    BY <1>1, FS_Subset
  <1>3. S # {} => T # {}
    BY <1>1, <1>2, FS_EmptySet
  <1> QED BY <1>1, <1>2, <1>3

LEMMA Initially == Init => BaseInv
  <1> SUFFICES ASSUME Init PROVE BaseInv
    OBVIOUS
  <1>1. NoTarget \in Vectors
    BY DEF NoTarget
  <1>2. Index = {} /\ nodes \in Seq([id : Ids, level : Levels, dead : BOOLEAN])
    BY EmptySeq DEF Init, Index
  <1>3. TypeOK
    BY <1>1, <1>2 DEF TypeOK, Init, AtRest, Levels
  <1>4. ControlInv
    BY DEF ControlInv, Init, AtRest, Walking, walk
  <1>5. GraphInv
    BY <1>2 DEF GraphInv, LinksSound, MapperAgrees, FreshInv, EntryTop, Established,
               Init, AtRest
  <1> QED BY <1>3, <1>4, <1>5 DEF BaseInv

-------------------------------------------------------------------------------
(* Types, control and links: one lemma per operation or loop.                  *)

\* The node appended is the last, and the others stay what they were.
LEMMA Appended ==
    ASSUME BaseInv, NEW id \in Ids, NEW level \in Levels, AddNode(id, level),
           conf' = conf
    PROVE  /\ nodes' \in Seq([id : Ids, level : Levels', dead : BOOLEAN])
           /\ Len(nodes') = Len(nodes) + 1
           /\ Index' = Index \cup {Len(nodes) + 1}
           /\ Len(nodes) + 1 \notin Index
           /\ nodes'[Len(nodes) + 1] = NewNode(id, level)
           /\ \A i \in Index : nodes'[i] = nodes[i]
           /\ DOMAIN mapper' = DOMAIN mapper \cup {id}
           /\ mapper' \in [DOMAIN mapper' -> Index']
           /\ MapperAgrees'
  <1> USE DEF BaseInv
  <1>1. nodes \in Seq(Node) /\ NewNode(id, level) \in Node /\ Len(nodes) \in Nat
    BY Indices DEF TypeOK, Node, NewNode
  <1>2. nodes' = Append(nodes, NewNode(id, level))
    BY DEF AddNode
  <1>3. /\ nodes' \in Seq(Node)
        /\ Len(nodes') = Len(nodes) + 1
        /\ nodes'[Len(nodes) + 1] = NewNode(id, level)
        /\ \A i \in 1 .. Len(nodes) : nodes'[i] = nodes[i]
    BY <1>1, <1>2
  <1>4. Index' = Index \cup {Len(nodes) + 1} /\ Len(nodes) + 1 \notin Index
    BY <1>1, <1>3, LenProperties, Indices DEF Index
  <1>5. \A i \in Index : nodes'[i] = nodes[i]
    BY <1>3, Indices
  <1>6. /\ DOMAIN mapper' = DOMAIN mapper \cup {id}
        /\ mapper'[id] = Len(nodes) + 1
        /\ \A i \in DOMAIN mapper : mapper'[i] = mapper[i]
        /\ mapper' \in [DOMAIN mapper' -> Index']
    BY <1>4 DEF AddNode, TypeOK
  <1>7. MapperAgrees'
    <2>1. id \notin DOMAIN mapper /\ nodes'[Len(nodes) + 1].id = id
      BY <1>3 DEF AddNode, NewNode
    <2>2. ASSUME NEW i \in Index
          PROVE  nodes'[i].id \in DOMAIN mapper' /\ mapper'[nodes'[i].id] = i
      <3>1. nodes[i].id \in DOMAIN mapper /\ mapper[nodes[i].id] = i
        BY DEF GraphInv, MapperAgrees
      <3> QED BY <1>5, <1>6, <3>1
    <2>3. ASSUME NEW j \in DOMAIN mapper
          PROVE  nodes'[mapper'[j]].id = j
      <3>1. nodes[mapper[j]].id = j /\ mapper[j] \in Index
        BY DEF GraphInv, MapperAgrees, TypeOK
      <3> QED BY <1>5, <1>6, <3>1
    <2> QED BY <1>3, <1>4, <1>6, <2>1, <2>2, <2>3 DEF MapperAgrees
  <1> QED BY <1>3, <1>4, <1>5, <1>6, <1>7 DEF Node, Levels

LEMMA InsertKeepsBase ==
    ASSUME BaseInv, NEW id \in Ids, NEW level \in Levels,
           InsertFirst(id, level) \/ InsertNext(id, level)
    PROVE  BaseInv'
  <1> USE DEF BaseInv
  <1>0. AddNode(id, level) /\ conf' = conf /\ links' = links
    BY DEF InsertFirst, InsertNext
  <1>a. AtRest /\ Len(nodes) \in Nat /\ entry \in Index \cup {0}
    BY <1>0, Indices DEF ControlInv, AddNode, TypeOK
  <1>n. PICK n \in Nat \ {0} : n = Len(nodes) + 1
    BY <1>a
  <1>b. /\ nodes' \in Seq([id : Ids, level : Levels', dead : BOOLEAN])
        /\ Len(nodes') = n
        /\ Index' = Index \cup {n}
        /\ n \notin Index
        /\ nodes'[n] = NewNode(id, level)
        /\ \A i \in Index : nodes'[i] = nodes[i]
        /\ DOMAIN mapper' \subseteq Ids /\ mapper' \in [DOMAIN mapper' -> Index']
        /\ MapperAgrees'
    BY <1>0, <1>n, Appended DEF TypeOK
  <1>c. Levels' = Levels
    BY <1>0 DEF Levels
  <1>1. LinksSound'
    BY <1>0, <1>b DEF GraphInv, LinksSound, TypeOK
  <1>2. \A l \in links' : l[2] # n
    BY <1>0, <1>b DEF TypeOK
  <1>d. \A i \in Index : Live(i)' <=> Live(i)
    BY <1>b DEF Live
  <1>e. Live(n)' /\ n # 0
    BY <1>b DEF Live, NewNode
  <1>3. CASE InsertFirst(id, level)
    <2>1. entry' = n /\ subject' = subject /\ entry = 0
      BY <1>3, <1>n DEF InsertFirst, task
    <2>2. UNCHANGED <<links, phase, task, layer, cur, walk, todo, answer>>
      BY <1>3 DEF InsertFirst
    <2>3. TypeOK'
      BY <1>0, <1>b, <1>c, <2>1, <2>2 DEF TypeOK, task, walk
    <2>4. ControlInv'
      BY <1>0, <1>a, <2>2 DEF ControlInv, AtRest, task, walk, Walking, AddNode
    <2>5. FreshInv'
      BY <2>1, <1>a DEF FreshInv, AtRest
    <2>6. Established' = {n}
      BY <1>a, <1>b, <1>d, <1>e, <2>1, Indices DEF EntryTop, GraphInv, Established, AtRest
    <2>7. EntryTop'
      <3>1. nodes'[n].level =< nodes'[n].level
        BY <1>b DEF NewNode, Levels
      <3> QED BY <2>1, <2>6, <3>1 DEF EntryTop
    <2> QED BY <1>1, <1>b, <2>3, <2>4, <2>5, <2>7 DEF GraphInv
  <1>4. CASE InsertNext(id, level)
    <2>1. entry \in Index /\ nodes[entry] \in Node /\ nodes'[entry] = nodes[entry]
      BY <1>0, <1>4, <1>a, <1>b, Indices DEF InsertNext
    <2>2. layer' \in Levels
      BY <1>4, <2>1 DEF InsertNext, Node
    <2>3. subject' = n /\ cur' = entry /\ entry' = entry /\ target' = id
          /\ width' = conf.ef /\ size' = size
      BY <1>4, <1>n DEF InsertNext
    <2>4. UNCHANGED <<walk, todo, answer>> /\ phase' = "descend"
      BY <1>4 DEF InsertNext
    <2>5. TypeOK'
      BY <1>0, <1>b, <1>c, <2>1, <2>2, <2>3, <2>4 DEF TypeOK, walk, Vectors
    <2>6. Live(entry) /\ entry # n
      BY <2>1, <1>a, <1>b, Indices DEF GraphInv, EntryTop, Established
    <2>7. ControlInv'
      <3>1. walk' = <<{}, {}, {}, {}>> /\ todo' = {}
        BY <1>a, <2>4 DEF walk, AtRest
      <3>2. entry # 0
        BY <1>4 DEF InsertNext
      <3>3. \A i \in (open \cup found \cup visited \cup frontier \cup todo)' : FALSE
        BY <3>1 DEF walk
      <3> QED BY <1>b, <1>d, <1>e, <2>1, <2>3, <2>4, <2>6, <3>1, <3>2, <3>3
              DEF ControlInv, Walking, walk
    <2>8. FreshInv'
      BY <1>2, <2>3 DEF FreshInv
    <2>9. EntryTop'
      <3>1. Established' = Established
        BY <1>a, <1>b, <1>d, <2>3, Indices DEF Established, AtRest
      <3>2. \A i \in Established : nodes'[i] = nodes[i]
        BY <1>b DEF Established
      <3> QED BY <2>1, <2>3, <3>1, <3>2 DEF EntryTop, GraphInv
    <2> QED BY <1>1, <1>b, <2>5, <2>7, <2>8, <2>9 DEF GraphInv
  <1> QED BY <1>3, <1>4

\* A step that changes neither the graph nor the subject.
LEMMA GraphStays ==
    ASSUME BaseInv, UNCHANGED <<conf, graph, subject>>
    PROVE  /\ Index' = Index /\ Levels' = Levels /\ Floor' = Floor
           /\ UNCHANGED <<nodes, links, entry, mapper, conf>>
           /\ \A i \in Index : Live(i)' <=> Live(i)
           /\ \A i : Live(i) => Live(i)'
           /\ LinksSound' /\ MapperAgrees' /\ EntryTop'
  <1> USE DEF graph
  <1>1. LinksSound' /\ MapperAgrees'
    BY DEF BaseInv, GraphInv, LinksSound, MapperAgrees, Index
  <1>2. EntryTop'
    BY DEF BaseInv, GraphInv, EntryTop, Established, Index, Live
  <1> QED BY <1>1, <1>2 DEF Index, Levels, Floor, Live

\* On the layer a new node is being connected on, no walk meets it.
LEMMA NeighbourFacts ==
    ASSUME BaseInv, phase \in {"descend", "explore"}, NEW c \in Index,
           NEW n \in Neighbours(c)
    PROVE  n \in Index /\ Live(n) /\ n # subject
  <1>1. n \in Index /\ Live(n) /\ <<layer, c, n>> \in links
    BY DEF Neighbours
  <1>2. <<layer, n, c>> \in links
    BY <1>1 DEF BaseInv, GraphInv, LinksSound
  <1>3. layer \in Int
    BY DEF BaseInv, TypeOK, Levels
  <1>4. n # subject
    <2> SUFFICES ASSUME n = subject PROVE FALSE
      OBVIOUS
    <2>1. subject # 0
      BY <1>1, Indices DEF BaseInv
    <2> QED BY <1>2, <1>3, <2>1 DEF BaseInv, GraphInv, FreshInv
  <1> QED BY <1>1, <1>4

LEMMA GreedyKeepsBase ==
    ASSUME BaseInv, GreedyMove \/ GreedyDone \/ BeginLayer
    PROVE  BaseInv'
  <1> USE DEF BaseInv
  <1>0. UNCHANGED <<conf, graph, subject>> /\ UNCHANGED <<target, size, width, answer, todo>>
        /\ phase = "descend" /\ cur \in Index /\ layer \in Int
    BY DEF GreedyMove, GreedyDone, BeginLayer, task, TypeOK, ControlInv, Walking, Levels
  <1>1. /\ Index' = Index /\ Levels' = Levels /\ Floor' = Floor
        /\ UNCHANGED <<nodes, links, entry, mapper, conf>>
        /\ \A i : Live(i) => Live(i)'
        /\ LinksSound' /\ MapperAgrees' /\ EntryTop'
    BY <1>0, GraphStays
  <1>2. CASE GreedyMove
    <2>1. cur' \in Neighbours(cur) /\ UNCHANGED <<phase, layer, walk>>
      BY <1>2 DEF GreedyMove, Nearest, Better
    <2>2. cur' \in Index /\ Live(cur') /\ cur' # subject
      BY <1>0, <2>1, NeighbourFacts
    <2>3. TypeOK'
      BY <1>0, <1>1, <2>1, <2>2 DEF TypeOK, walk
    <2>4. Live(cur)'
      BY <1>1, <2>2 DEF Live
    <2>5. ControlInv'
      BY <1>0, <1>1, <2>1, <2>2, <2>4, Indices DEF ControlInv, Walking, walk
    <2>6. FreshInv'
      BY <1>0, <1>1, <2>1 DEF GraphInv, FreshInv
    <2> QED BY <1>1, <2>3, <2>5, <2>6 DEF GraphInv
  <1>3. CASE GreedyDone
    <2>1. layer > Floor /\ layer' = layer - 1 /\ UNCHANGED <<phase, cur, walk>>
      BY <1>3 DEF GreedyDone
    <2>2. Floor \in Nat
      BY Indices DEF Floor, TypeOK, Node, Levels
    <2>3. layer' \in Levels
      BY <1>0, <2>1, <2>2 DEF TypeOK, Levels
    <2>4. TypeOK'
      BY <1>0, <1>1, <2>1, <2>3 DEF TypeOK, walk
    <2>5. ControlInv'
      BY <1>0, <1>1, <2>1 DEF ControlInv, Walking, walk, Live
    <2>6. FreshInv'
      <3>1. \A l \in links : l[1] \in Int
        BY DEF TypeOK, Levels
      <3> QED BY <1>0, <1>1, <2>1, <3>1 DEF GraphInv, FreshInv
    <2> QED BY <1>1, <2>4, <2>5, <2>6 DEF GraphInv
  <1>4. CASE BeginLayer
    <2>1. /\ layer =< Floor /\ phase' = "explore" /\ UNCHANGED <<layer, cur>>
          /\ open' = {cur} /\ found' = {cur} /\ visited' = {cur} /\ frontier' = {}
      BY <1>4 DEF BeginLayer
    <2>2. TypeOK'
      BY <1>0, <1>1, <2>1 DEF TypeOK
    <2>3. ControlInv'
      BY <1>0, <1>1, <2>1 DEF ControlInv, Walking, walk, Live
    <2>4. FreshInv'
      BY <1>0, <1>1, <2>1 DEF GraphInv, FreshInv
    <2> QED BY <1>1, <2>2, <2>3, <2>4 DEF GraphInv
  <1> QED BY <1>2, <1>3, <1>4

LEMMA ExploreKeepsBase ==
    ASSUME BaseInv, (\E c \in open : Pop(c)) \/ (\E n \in frontier : Look(n))
    PROVE  BaseInv'
  <1> USE DEF BaseInv
  <1>0. /\ UNCHANGED <<conf, graph, subject>> /\ UNCHANGED <<target, size, width, answer, todo>>
        /\ phase = "explore" /\ UNCHANGED <<phase, layer, cur>>
    BY DEF Pop, Look, task
  <1>1. /\ Index' = Index /\ Levels' = Levels /\ Floor' = Floor
        /\ UNCHANGED <<nodes, links, entry, mapper, conf>>
        /\ \A i : Live(i) => Live(i)'
        /\ LinksSound' /\ MapperAgrees' /\ EntryTop'
    BY <1>0, GraphStays
  <1>2. /\ open' \cup found' \cup visited' \cup frontier' \subseteq
             {i \in Index : Live(i) /\ i # subject}
        /\ found' # {}
    <2>1. open \cup found \cup visited \cup frontier \subseteq
             {i \in Index : Live(i) /\ i # subject} /\ found # {}
      BY <1>0 DEF ControlInv, TypeOK
    <2>2. CASE \E c \in open : Pop(c)
      <3>1. PICK c \in open : Pop(c)
        BY <2>2
      <3>2. /\ open' = open \ {c} /\ UNCHANGED <<found, visited>>
            /\ frontier' \subseteq Neighbours(c)
        BY <3>1 DEF Pop
      <3>3. Neighbours(c) \subseteq {i \in Index : Live(i) /\ i # subject}
        BY <1>0, <2>1, NeighbourFacts
      <3> QED BY <2>1, <3>2, <3>3
    <2>3. CASE \E n \in frontier : Look(n)
      <3>1. PICK n \in frontier : Look(n)
        BY <2>3
      <3>2. /\ frontier' \subseteq frontier /\ visited' = visited \cup {n}
            /\ open' \subseteq open \cup {n} /\ found' \subseteq found \cup {n}
            /\ found' = found \/ n \in found'
        BY <3>1 DEF Look
      <3> QED BY <2>1, <3>2
    <2> QED BY <2>2, <2>3
  <1>3. TypeOK'
    BY <1>0, <1>1, <1>2 DEF TypeOK
  <1>4. ControlInv'
    BY <1>0, <1>1, <1>2 DEF ControlInv, Walking, walk, Live
  <1>5. FreshInv'
    BY <1>0, <1>1 DEF GraphInv, FreshInv
  <1> QED BY <1>1, <1>3, <1>4, <1>5 DEF GraphInv

\* The search for results of an operation, or its answer, is over.
LEMMA FoundFacts ==
    ASSUME BaseInv, Explored
    PROVE  /\ IsFiniteSet(found) /\ found # {}
           /\ found \subseteq {i \in Index : Live(i) /\ i # subject}
  <1>1. found \subseteq Index /\ IsFiniteSet(Index)
    BY Indices DEF BaseInv, TypeOK
  <1> QED BY <1>1, FS_Subset DEF BaseInv, ControlInv, Explored

LEMMA SelectKeepsBase ==
    ASSUME BaseInv, Select
    PROVE  BaseInv'
  <1> USE DEF BaseInv
  <1>0. /\ UNCHANGED <<conf, graph, subject>> /\ UNCHANGED <<target, size, width, answer>>
        /\ Explored /\ subject # 0 /\ phase' = "connect"
        /\ todo' \in Best(found, conf.degree, target) /\ cur' \in todo'
        /\ found' = {} /\ visited' = {} /\ open' = {} /\ frontier' = {} /\ layer' = layer
    BY DEF Select, task, Explored, Nearest
  <1>1. /\ Index' = Index /\ Levels' = Levels /\ Floor' = Floor
        /\ UNCHANGED <<nodes, links, entry, mapper, conf>>
        /\ \A i : Live(i) => Live(i)'
        /\ LinksSound' /\ MapperAgrees' /\ EntryTop'
    BY <1>0, GraphStays
  <1>2. todo' \subseteq {i \in Index : Live(i) /\ i # subject}
    <2>1. conf.degree \in Nat \ {0}
      BY DEF TypeOK
    <2> QED BY <1>0, <2>1, FoundFacts, BestFacts
  <1>3. cur' \in Index /\ Live(cur)' /\ cur' # subject
    BY <1>0, <1>1, <1>2 DEF Live
  <1>4. TypeOK'
    BY <1>0, <1>1, <1>2, <1>3 DEF TypeOK
  <1>5. ControlInv'
    BY <1>0, <1>1, <1>2, <1>3, Indices DEF ControlInv, Walking, walk, Explored, Live
  <1>6. FreshInv'
    BY <1>0, <1>1 DEF GraphInv, FreshInv, Explored
  <1> QED BY <1>1, <1>4, <1>5, <1>6 DEF GraphInv

LEMMA NextLayerKeepsBase ==
    ASSUME BaseInv, NextLayer
    PROVE  BaseInv'
  <1> USE DEF BaseInv
  <1>0. /\ UNCHANGED <<conf, graph, subject>> /\ UNCHANGED <<target, size, width, answer, todo>>
        /\ phase = "connect" /\ phase' = "descend" /\ UNCHANGED <<cur, walk>>
        /\ layer > 0 /\ layer' = layer - 1 /\ todo = {}
    BY DEF NextLayer, task
  <1>1. /\ Index' = Index /\ Levels' = Levels /\ Floor' = Floor
        /\ UNCHANGED <<nodes, links, entry, mapper, conf>>
        /\ \A i : Live(i) => Live(i)'
        /\ LinksSound' /\ MapperAgrees' /\ EntryTop'
    BY <1>0, GraphStays
  <1>2. layer' \in Levels /\ layer \in Int /\ \A l \in links : l[1] \in Int
    BY <1>0 DEF TypeOK, Levels
  <1>3. TypeOK'
    BY <1>0, <1>1, <1>2 DEF TypeOK, walk
  <1>4. ControlInv'
    BY <1>0, <1>1 DEF ControlInv, Walking, walk, Live
  <1>5. FreshInv'
    BY <1>0, <1>1, <1>2 DEF GraphInv, FreshInv
  <1> QED BY <1>1, <1>3, <1>4, <1>5 DEF GraphInv

\* Pruning only removes links, and removes both directions of each.
LEMMA PruneFacts ==
    ASSUME NEW L, NEW i, NEW K, NEW P \in Prune(L, i)
    PROVE  /\ P \subseteq L
           /\ (\A l \in L : <<l[1], l[3], l[2]>> \in L)
                => \A l \in P : <<l[1], l[3], l[2]>> \in P
  <1> QED BY DEF Prune

LEMMA ConnectKeepsBase ==
    ASSUME BaseInv, NEW b \in todo, Connect(b)
    PROVE  BaseInv'
  <1> USE DEF BaseInv
  <1>0. /\ UNCHANGED <<conf, nodes, entry, mapper, phase, layer, cur, walk, answer>>
        /\ UNCHANGED <<subject, target, size, width>>
        /\ phase = "connect" /\ todo' = todo \ {b}
    BY DEF Connect, task
  <1>1. /\ b \in Index /\ b # subject /\ subject \in Index /\ subject # 0
        /\ layer \in Levels /\ layer =< nodes[subject].level
    BY <1>0 DEF ControlInv, TypeOK, Floor
  <1>2. /\ Index' = Index /\ Levels' = Levels /\ Floor' = Floor
        /\ \A i : Live(i)' <=> Live(i)
        /\ Established' = Established
    BY <1>0 DEF Index, Levels, Floor, Live, Established
  <1> DEFINE L == links \cup {<<layer, subject, b>>, <<layer, b, subject>>}
  <1>3. links' = links \/ (layer =< nodes[b].level /\ (links' = L \/ links' \in Prune(L, b)))
    <2>1. nodes[b].level \in Int /\ layer \in Int
      BY <1>1, Indices DEF Node, Levels
    <2> QED BY <2>1 DEF Connect
  <1>a. ASSUME NEW l \in {<<layer, subject, b>>, <<layer, b, subject>>}
        PROVE  /\ <<l[1], l[3], l[2]>> \in {<<layer, subject, b>>, <<layer, b, subject>>}
               /\ l[1] = layer /\ {l[2], l[3]} = {b, subject} /\ l[2] # l[3]
    <2>1. CASE l = <<layer, subject, b>>
      BY <1>1, <2>1
    <2>2. CASE l = <<layer, b, subject>>
      BY <1>1, <2>2
    <2> QED BY <2>1, <2>2
  <1>4. \A l \in L : <<l[1], l[3], l[2]>> \in L
    BY <1>a DEF GraphInv, LinksSound
  <1>b. L \subseteq Levels \X Index \X Index
    BY <1>1 DEF TypeOK
  <1> HIDE DEF L
  <1>5. LinksSound' /\ links' \subseteq L
    <2>1. CASE links' = links
      BY <1>0, <2>1 DEF GraphInv, LinksSound, L
    <2>2. CASE layer =< nodes[b].level /\ (links' = L \/ links' \in Prune(L, b))
      <3>1. links' \subseteq L /\ \A l \in links' : <<l[1], l[3], l[2]>> \in links'
        BY <1>4, <2>2, PruneFacts
      <3>2. \A l \in L : l[2] # l[3] /\ l[1] =< nodes[l[2]].level /\ l[1] =< nodes[l[3]].level
        <4>1. ASSUME NEW l \in {<<layer, subject, b>>, <<layer, b, subject>>}
              PROVE  l[1] =< nodes[l[2]].level /\ l[1] =< nodes[l[3]].level
          BY <1>1, <1>a, <2>2
        <4> QED BY <1>a, <4>1 DEF L, GraphInv, LinksSound
      <3> QED BY <1>0, <3>1, <3>2 DEF LinksSound
    <2> QED BY <1>3, <2>1, <2>2
  <1>6. TypeOK'
    BY <1>0, <1>1, <1>2, <1>5, <1>b DEF TypeOK, walk
  <1>7. ControlInv'
    BY <1>0, <1>2 DEF ControlInv, Walking, walk
  <1>8. FreshInv'
    <2>1. \A l \in links' : l \in links \/ l[1] = layer
      BY <1>5, <1>a DEF L
    <2> QED BY <1>0, <2>1 DEF GraphInv, FreshInv
  <1>9. MapperAgrees' /\ EntryTop'
    BY <1>0, <1>2 DEF GraphInv, MapperAgrees, EntryTop
  <1> QED BY <1>5, <1>6, <1>7, <1>8, <1>9 DEF GraphInv

LEMMA FinishKeepsBase ==
    ASSUME BaseInv, FinishInsert
    PROVE  BaseInv'
  <1> USE DEF BaseInv
  <1>0. /\ UNCHANGED <<conf, nodes, links, mapper>> /\ phase = "connect" /\ phase' = "idle"
        /\ entry' = IF nodes[subject].level > nodes[entry].level THEN subject ELSE entry
        /\ Forget
    BY DEF FinishInsert
  <1>1. Index' = Index /\ Levels' = Levels /\ \A i : Live(i)' <=> Live(i)
    BY <1>0 DEF Index, Levels, Live
  <1>2. /\ subject \in Index /\ Live(subject) /\ entry \in Index
        /\ \A i \in Index : nodes[i].level \in Int
    <2>1. \A i \in Index : nodes[i].level \in Int
      BY Indices DEF Node, Levels
    <2> QED BY <1>0, <2>1 DEF ControlInv, TypeOK, Walking
  <1>3. NoTarget \in Vectors /\ 0 \in Levels
    BY DEF NoTarget, Levels, TypeOK
  <1>4. TypeOK'
    BY <1>0, <1>1, <1>2, <1>3 DEF TypeOK, Forget
  <1>5. ControlInv'
    <2>1. AtRest' /\ walk' = <<{}, {}, {}, {}>>
      BY <1>0 DEF Forget, AtRest, NoTarget, walk
    <2>2. \A i \in (open \cup found \cup visited \cup frontier \cup todo)' : FALSE
      BY <1>0 DEF Forget
    <2> QED BY <1>0, <2>1, <2>2 DEF ControlInv, Walking, Forget
  <1>6. FreshInv' /\ LinksSound' /\ MapperAgrees'
    BY <1>0, <1>1 DEF FreshInv, Forget, LinksSound, MapperAgrees, GraphInv
  <1>7. EntryTop'
    <2>1. Established' = Established \cup {subject}
      BY <1>0, <1>1, <1>2, Indices DEF Established, Forget
    <2>2. entry \in Established /\ \A i \in Established : nodes[i].level =< nodes[entry].level
      BY <1>2, Indices DEF GraphInv, EntryTop
    <2>3. \A i \in Established' : nodes[i].level =< nodes[entry'].level
      BY <1>0, <1>2, <2>1, <2>2 DEF Established
    <2> QED BY <1>0, <2>1, <2>2, <2>3 DEF EntryTop
  <1> QED BY <1>4, <1>5, <1>6, <1>7 DEF GraphInv

LEMMA IdsOfNodes ==
    ASSUME TypeOK, NEW S \in SUBSET Index
    PROVE  {nodes[i].id : i \in S} \subseteq Ids
  <1> QED BY Indices DEF Node

LEMMA SearchKeepsBase ==
    ASSUME BaseInv, NEW q \in Queries, NEW k \in Sizes,
           SearchEmpty(q, k) \/ Search(q, k) \/ SearchAll(q, k)
    PROVE  BaseInv'
  <1> USE DEF BaseInv
  <1>0. /\ UNCHANGED <<conf, graph, subject>> /\ UNCHANGED <<walk, todo>>
        /\ phase = "idle" /\ target' = q /\ size' = k
    BY DEF SearchEmpty, Search, SearchAll, task
  <1>1. /\ Index' = Index /\ Levels' = Levels /\ Floor' = Floor
        /\ UNCHANGED <<nodes, links, entry, mapper, conf>>
        /\ \A i : Live(i) => Live(i)'
        /\ LinksSound' /\ MapperAgrees' /\ EntryTop'
    BY <1>0, GraphStays
  <1>2. AtRest /\ subject' = 0 /\ q \in Vectors /\ k \in Nat \ {0} /\ k * EfMultiplier \in Nat
    BY <1>0 DEF ControlInv, AtRest, Vectors
  <1>3. \A i \in (open \cup found \cup visited \cup frontier \cup todo)' : FALSE
    BY <1>0, <1>2 DEF walk, AtRest
  <1>4. CASE SearchEmpty(q, k) \/ SearchAll(q, k)
    <2>1. phase' = "answered" /\ UNCHANGED <<width, layer, cur>>
      BY <1>4 DEF SearchEmpty, SearchAll
    <2>2. answer' \subseteq Ids
      <3>1. CASE SearchEmpty(q, k)
        BY <3>1 DEF SearchEmpty, TypeOK
      <3>2. CASE SearchAll(q, k)
        <4>1. PICK S \in Best({i \in Index : Live(i)}, k, q) :
                 answer' = {nodes[i].id : i \in S}
          BY <3>2 DEF SearchAll, BruteForce
        <4>2. S \subseteq Index
          BY DEF Best
        <4> QED BY <4>1, <4>2, IdsOfNodes
      <3> QED BY <1>4, <3>1, <3>2
    <2>3. TypeOK'
      BY <1>0, <1>1, <1>2, <2>1, <2>2 DEF TypeOK, walk
    <2>4. ControlInv'
      BY <1>0, <1>2, <1>3, <2>1 DEF ControlInv, Walking, AtRest, walk
    <2> QED BY <1>1, <1>2, <2>3, <2>4 DEF GraphInv, FreshInv
  <1>5. CASE Search(q, k)
    <2>1. /\ phase' = "descend" /\ width' = k * EfMultiplier /\ entry # 0
          /\ layer' = nodes[entry].level /\ cur' = entry /\ answer' = answer
      BY <1>5 DEF Search, Descend
    <2>2. entry \in Index /\ Live(entry) /\ nodes[entry].level \in Levels
      BY <2>1, Indices DEF GraphInv, EntryTop, Established, TypeOK, Node
    <2>3. TypeOK'
      BY <1>0, <1>1, <1>2, <2>1, <2>2 DEF TypeOK, walk
    <2>4. ControlInv'
      BY <1>0, <1>1, <1>2, <1>3, <2>1, <2>2, Indices DEF ControlInv, Walking, AtRest, walk, Live
    <2> QED BY <1>1, <1>2, <2>3, <2>4 DEF GraphInv, FreshInv
  <1> QED BY <1>4, <1>5

LEMMA WiderFacts ==
    ASSUME TypeOK
    PROVE  MaxWidth \in Nat /\ Wider(width) \in Nat
  <1>0. Len(nodes) \in Nat /\ size \in Nat /\ width \in Nat
    BY Indices DEF TypeOK
  <1>1. size * EfMultiplier \in Nat
    BY <1>0
  <1>2. (width * 157575) \div 100000 \in Nat
    BY <1>0
  <1> QED BY <1>0, <1>1, <1>2 DEF MaxWidth, Wider

LEMMA AnswerKeepsBase ==
    ASSUME BaseInv, Answer \/ Widen
    PROVE  BaseInv'
  <1> USE DEF BaseInv
  <1>0. /\ UNCHANGED <<conf, graph, subject>> /\ UNCHANGED <<open, frontier, todo>>
        /\ Explored /\ subject = 0 /\ UNCHANGED <<target, size>>
        /\ open' = {} /\ frontier' = {} /\ found' = {} /\ visited' = {}
    BY DEF Answer, Widen, task, Explored
  <1>1. /\ Index' = Index /\ Levels' = Levels /\ Floor' = Floor
        /\ UNCHANGED <<nodes, links, entry, mapper, conf>>
        /\ \A i : Live(i) => Live(i)'
        /\ LinksSound' /\ MapperAgrees' /\ EntryTop'
    BY <1>0, GraphStays
  <1>2. CASE Answer
    <2>1. /\ phase' = "answered" /\ UNCHANGED <<width, layer, cur>>
      BY <1>2 DEF Answer, task
    <2>2. answer' \subseteq Ids
      <3>1. PICK S \in Best(found, size, target) :
               answer' = {nodes[i].id : i \in {j \in S : Live(j)}}
        BY <1>2 DEF Answer
      <3>2. S \subseteq found
        BY DEF Best
      <3>3. {j \in S : Live(j)} \subseteq Index
        BY <3>2 DEF TypeOK
      <3> QED BY <3>1, <3>3, IdsOfNodes
    <2>3. TypeOK'
      BY <1>0, <1>1, <2>1, <2>2 DEF TypeOK
    <2>4. ControlInv'
      BY <1>0, <2>1 DEF ControlInv, Explored, Walking, walk
    <2> QED BY <1>0, <1>1, <2>3, <2>4 DEF GraphInv, FreshInv
  <1>3. CASE Widen
    <2>1. /\ phase' = "descend" /\ width' = Wider(width) /\ answer' = answer
          /\ layer' = nodes[entry].level /\ cur' = entry
      BY <1>3 DEF Widen, Descend
    <2>2. entry \in Index /\ entry # 0 /\ Live(entry) /\ nodes[entry].level \in Levels
      BY <1>0, Indices DEF ControlInv, GraphInv, EntryTop, Established, TypeOK, Node, Explored,
                           Walking
    <2>3. TypeOK'
      BY <1>0, <1>1, <2>1, <2>2, WiderFacts DEF TypeOK
    <2>4. ControlInv'
      BY <1>0, <1>1, <2>1, <2>2 DEF ControlInv, Explored, Walking, walk, Live
    <2> QED BY <1>0, <1>1, <2>3, <2>4 DEF GraphInv, FreshInv
  <1> QED BY <1>2, <1>3

LEMMA ReturnKeepsBase ==
    ASSUME BaseInv, Return
    PROVE  BaseInv'
  <1> USE DEF BaseInv
  <1>0. UNCHANGED <<conf, graph>> /\ phase = "answered" /\ phase' = "idle" /\ Forget
    BY DEF Return
  <1>1. subject = 0 /\ subject' = 0
    BY <1>0 DEF ControlInv, Walking, Forget
  <1>2. /\ Index' = Index /\ Levels' = Levels /\ Floor' = Floor
        /\ UNCHANGED <<nodes, links, entry, mapper, conf>>
        /\ LinksSound' /\ MapperAgrees' /\ EntryTop'
    BY <1>0, <1>1, GraphStays
  <1>3. NoTarget \in Vectors /\ 0 \in Levels
    BY DEF NoTarget, Levels, TypeOK
  <1>4. TypeOK'
    BY <1>0, <1>2, <1>3 DEF TypeOK, Forget
  <1>5. AtRest' /\ walk' = <<{}, {}, {}, {}>>
    BY <1>0 DEF Forget, AtRest, NoTarget, walk
  <1>6. \A i \in (open \cup found \cup visited \cup frontier \cup todo)' : FALSE
    BY <1>0 DEF Forget
  <1>7. ControlInv'
    BY <1>0, <1>5, <1>6 DEF ControlInv, Walking, Forget
  <1> QED BY <1>1, <1>2, <1>4, <1>7 DEF GraphInv, FreshInv

-------------------------------------------------------------------------------
(* Entry points after a deletion or a compaction.                              *)

\* A set of numbers has a least one.
LEMMA Least ==
    ASSUME NEW X \in SUBSET Nat, X # {}
    PROVE  \E x \in X : \A y \in X : x =< y
  <1>1. PICK x \in X : \A y \in X : <<y, x>> \notin OpToRel(<, Nat)
    BY NatLessThanWellFounded, WFMin
  <1>2. \A y \in X : ~ y < x
    BY <1>1 DEF OpToRel
  <1> QED BY <1>2

\* The entry point chosen is live and nothing live is above it.
LEMMA TopFacts ==
    ASSUME NEW B \in Nat, NEW N \in Seq([id : Ids, level : 0 .. B, dead : BOOLEAN])
    PROVE  LET live == {i \in DOMAIN N : ~ N[i].dead}
           IN  /\ live = {} => Top(N) = 0
               /\ live # {} => Top(N) \in live
               /\ \A j \in live : N[j].level =< N[Top(N)].level
  <1> DEFINE live == {i \in DOMAIN N : ~ N[i].dead}
             top(i) == \A j \in live : \/ N[j].level < N[i].level
                                       \/ N[j].level = N[i].level /\ i =< j
  <1>1. Top(N) = IF live = {} THEN 0 ELSE CHOOSE i \in live : top(i)
    BY DEF Top
  <1>2. live \subseteq Nat \ {0} /\ \A i \in live : N[i].level \in 0 .. B
    <2>1. DOMAIN N = 1 .. Len(N) /\ Len(N) \in Nat
      BY LenProperties
    <2>2. \A i \in 1 .. Len(N) : N[i] \in [id : Ids, level : 0 .. B, dead : BOOLEAN]
      <3> DEFINE R == [id : Ids, level : 0 .. B, dead : BOOLEAN]
      <3>1. N \in Seq(R)
        OBVIOUS
      <3> HIDE DEF R
      <3>2. \A i \in 1 .. Len(N) : N[i] \in R
        BY <3>1, ElementOfSeq
      <3> QED BY <3>2 DEF R
    <2>3. live \subseteq 1 .. Len(N)
      BY <2>1
    <2>4. \A i \in 1 .. Len(N) : N[i].level \in 0 .. B
      BY <2>2
    <2>5. 1 .. Len(N) \subseteq Nat \ {0}
      BY <2>1
    <2> HIDE DEF live
    <2> QED BY <2>3, <2>4, <2>5
  <1>a. \A i \in live : i \in Nat /\ N[i].level \in Int
    BY <1>2
  <1> HIDE DEF live
  <1>3. ASSUME live # {} PROVE \E i \in live : top(i)
    <2> DEFINE X == {B - N[i].level : i \in live}
    <2>1. X \in SUBSET Nat
      BY <1>2
    <2>2. X # {}
      <3>1. PICK i \in live : TRUE
        BY <1>3
      <3>2. B - N[i].level \in X
        OBVIOUS
      <3> QED BY <3>2
    <2>3. PICK x \in X : \A y \in X : x =< y
      <3> HIDE DEF X
      <3> QED BY <2>1, <2>2, Least
    <2>4. PICK h \in live : x = B - N[h].level
      BY <2>3
    <2>5. \A j \in live : N[j].level =< N[h].level
      <3> TAKE j \in live
      <3>1. B - N[j].level \in X
        OBVIOUS
      <3>2. B - N[h].level =< B - N[j].level
        BY <2>3, <2>4, <3>1
      <3>3. N[j].level \in Int
        BY <1>a
      <3>4. N[h].level \in Int
        BY <1>a
      <3> HIDE DEF X
      <3> QED BY <3>2, <3>3, <3>4
    <2> DEFINE Y == {i \in live : N[i].level = N[h].level}
    <2>6. Y \in SUBSET Nat /\ Y # {}
      BY <1>2, <2>4
    <2>7. PICK i \in Y : \A j \in Y : i =< j
      BY <2>6, Least
    <2>8. top(i)
      <3> TAKE j \in live
      <3>1. N[i].level = N[h].level /\ N[j].level =< N[h].level
        BY <2>5, <2>7
      <3>2. N[j].level = N[h].level => i =< j
        BY <2>7
      <3>3. N[j].level \in Int /\ N[i].level \in Int
        BY <1>a, <2>7
      <3> QED BY <3>1, <3>2, <3>3
    <2> QED BY <2>7, <2>8
  <1>4. ASSUME live # {} PROVE Top(N) \in live /\ \A j \in live : N[j].level =< N[Top(N)].level
    <2>1. Top(N) \in live /\ top(Top(N))
      BY <1>1, <1>3, <1>4
    <2>2. ASSUME NEW j \in live PROVE N[j].level =< N[Top(N)].level
      <3>1. N[j].level \in Int /\ N[Top(N)].level \in Int
        BY <1>a, <2>1
      <3>2. N[j].level < N[Top(N)].level \/ N[j].level = N[Top(N)].level
        BY <2>1
      <3> QED BY <3>1, <3>2
    <2> QED BY <2>1, <2>2
  <1>5. live = {} => Top(N) = 0
    BY <1>1
  <1> QED BY <1>4, <1>5 DEF live
LEMMA DeleteKeepsBase ==
    ASSUME BaseInv, NEW id \in Ids, Delete(id)
    PROVE  BaseInv'
  <1> USE DEF BaseInv
  <1>0. /\ UNCHANGED <<conf, links, mapper, phase, layer, cur, walk, todo, answer>>
        /\ UNCHANGED <<subject, target, size, width>>
        /\ phase = "idle" /\ id \in DOMAIN mapper
        /\ nodes' = [nodes EXCEPT ![mapper[id]].dead = TRUE]
        /\ entry' = IF entry = mapper[id] THEN Top(nodes') ELSE entry
    BY DEF Delete, task
  <1>n. PICK n \in Index : n = mapper[id]
    BY <1>0 DEF TypeOK
  <1>1. AtRest /\ subject' = 0
    BY <1>0 DEF ControlInv, AtRest
  <1>2. /\ nodes' \in Seq(Node) /\ Len(nodes') = Len(nodes) /\ Index' = Index
        /\ \A i \in Index : nodes'[i] = IF i = n THEN [nodes[n] EXCEPT !.dead = TRUE] ELSE nodes[i]
    <2>1. PICK e : e = [nodes[n] EXCEPT !.dead = TRUE]
      OBVIOUS
    <2>2. nodes' = [nodes EXCEPT ![n] = e]
      BY <1>0, <1>n, <2>1
    <2>3. nodes \in Seq(Node) /\ e \in Node
      BY <2>1, Indices DEF Node, TypeOK
    <2>4. n \in 1 .. Len(nodes) /\ Index = 1 .. Len(nodes)
      BY Indices
    <2> HIDE DEF Node
    <2>5. /\ nodes' \in Seq(Node) /\ Len(nodes') = Len(nodes)
          /\ \A i \in 1 .. Len(nodes) : nodes'[i] = IF i = n THEN e ELSE nodes[i]
      <3>1. [nodes EXCEPT ![n] = e] \in Seq(Node)
        BY <2>3, <2>4
      <3>2. \A i \in 1 .. Len(nodes) : nodes'[i] = IF i = n THEN e ELSE nodes[i]
        BY <2>2, <2>3, <2>4, LenProperties
      <3> QED BY <2>2, <2>3, <2>4, <3>1, <3>2
    <2>6. Index' = Index
      BY <2>2 DEF Index
    <2> QED BY <2>1, <2>4, <2>5, <2>6
  <1>3. /\ \A i \in Index : nodes'[i].id = nodes[i].id /\ nodes'[i].level = nodes[i].level
        /\ \A i \in Index : Live(i)' <=> Live(i) /\ i # n
        /\ \A i \in Index : nodes[i].level \in Int
    <2>1. ASSUME NEW i \in Index
          PROVE  /\ nodes'[i].id = nodes[i].id /\ nodes'[i].level = nodes[i].level
                 /\ nodes'[i].dead <=> (nodes[i].dead \/ i = n)
                 /\ nodes[i].level \in Int
      <3>1. nodes[i] \in Node
        BY Indices
      <3>2. CASE i = n
        <4>1. nodes'[i] = [nodes[i] EXCEPT !.dead = TRUE]
          BY <1>2, <3>2
        <4>2. nodes'[i].dead = TRUE
          BY <3>1, <4>1 DEF Node
        <4>3. nodes'[i].id = nodes[i].id /\ nodes'[i].level = nodes[i].level
              /\ nodes[i].level \in Int
          BY <3>1, <4>1 DEF Node, Levels
        <4> QED BY <3>2, <4>2, <4>3
      <3>3. CASE i # n
        BY <1>2, <3>1, <3>3 DEF Node, Levels
      <3> QED BY <3>2, <3>3
    <2> QED BY <2>1 DEF Live
  <1>4. Levels' = Levels
    BY <1>0 DEF Levels
  <1>5. /\ Top(nodes') \in Index' \cup {0}
        /\ LET live == {i \in Index' : ~ nodes'[i].dead}
           IN  IF live = {} THEN Top(nodes') = 0
               ELSE /\ Top(nodes') \in live
                    /\ \A j \in live : nodes'[j].level =< nodes'[Top(nodes')].level
    <2>1. PICK B \in Nat : B = conf.layers - 1
      BY DEF TypeOK
    <2>2. nodes' \in Seq([id : Ids, level : 0 .. B, dead : BOOLEAN])
      BY <1>2, <2>1 DEF Node, Levels
    <2> QED BY <2>1, <2>2, TopFacts DEF Index
  <1>6. EntryTop'
    <2>1. Established' = {i \in Index' : ~ nodes'[i].dead} /\ Established' = Established \ {n}
      BY <1>1, <1>2, <1>3, Indices DEF Established, Live, AtRest
    <2>2. CASE entry = n
      BY <1>0, <1>n, <1>5, <2>1, <2>2 DEF EntryTop
    <2>3. CASE entry # n
      <3>1. entry' = entry
        BY <1>0, <1>n, <2>3
      <3>2. CASE Established = {}
        BY <2>1, <3>1, <3>2 DEF EntryTop, GraphInv
      <3>3. CASE Established # {}
        <4>1. entry \in Established \ {n}
          BY <2>3, <3>3 DEF EntryTop, GraphInv
        <4>2. \A i \in Established : nodes'[i].level =< nodes'[entry].level
          BY <1>3, <3>3, <4>1 DEF EntryTop, GraphInv, Established
        <4> QED BY <2>1, <3>1, <4>1, <4>2 DEF EntryTop
      <3> QED BY <3>2, <3>3
    <2> QED BY <2>2, <2>3
  <1>7. TypeOK'
    <2>1. nodes' \in Seq([id : Ids, level : Levels', dead : BOOLEAN])
      BY <1>2, <1>4 DEF Node
    <2>2. entry' \in Index' \cup {0}
      BY <1>0, <1>2, <1>5 DEF TypeOK
    <2> QED BY <1>0, <1>2, <1>4, <2>1, <2>2 DEF TypeOK, walk
  <1>8. \A i \in (open \cup found \cup visited \cup frontier \cup todo)' : FALSE
    BY <1>0, <1>1 DEF walk, AtRest
  <1>9. ControlInv'
    BY <1>0, <1>1, <1>8 DEF ControlInv, Walking, AtRest, walk
  <1>10. LinksSound' /\ FreshInv'
    BY <1>0, <1>1, <1>3 DEF LinksSound, FreshInv, GraphInv, TypeOK
  <1>11. MapperAgrees'
    BY <1>0, <1>2, <1>3 DEF MapperAgrees, GraphInv, TypeOK
  <1> QED BY <1>6, <1>7, <1>9, <1>10, <1>11 DEF GraphInv
\* A compaction lists each live node once.
LEMMA CompactionFacts ==
    ASSUME TypeOK, NEW old \in Compaction
    PROVE  LET live == {i \in Index : Live(i)}
           IN  \E n \in Nat :
                 /\ old \in [1 .. n -> live]
                 /\ \A i, j \in 1 .. n : old[i] = old[j] => i = j
                 /\ \A x \in live : \E i \in 1 .. n : old[i] = x
                 /\ n = 0 <=> live = {}
  <1> DEFINE live == {i \in Index : Live(i)}
             n == Cardinality(live)
  <1>1. IsFiniteSet(live) /\ n \in Nat
    BY Indices, FS_Subset, FS_CardinalityType
  <1>2. live \subseteq Nat
    BY Indices
  <1>3. /\ old \in [1 .. n -> live]
        /\ \A i, j \in 1 .. n : i < j => old[i] < old[j]
    BY DEF Compaction
  <1> HIDE DEF live, n
  <1>4. \A i, j \in 1 .. n : old[i] = old[j] => i = j
    <2>1. ASSUME NEW i \in 1 .. n, NEW j \in 1 .. n, i < j PROVE old[i] # old[j]
      <3>1. old[i] \in Nat /\ old[j] \in Nat /\ old[i] < old[j]
        BY <1>2, <1>3, <2>1
      <3> QED BY <3>1
    <2>2. \A i, j \in 1 .. n : i < j \/ j < i \/ i = j
      BY <1>1
    <2> QED BY <2>1, <2>2
  <1>5. old \in Injection(1 .. n, live)
    BY <1>3, <1>4 DEF Injection, IsInjective
  <1>6. Cardinality(1 .. n) = n
    BY <1>1, FS_Interval
  <1>7. old \in Surjection(1 .. n, live)
    BY <1>1, <1>5, <1>6, FS_Injection DEF n
  <1>8. n = 0 <=> live = {}
    BY <1>1, FS_EmptySet DEF n
  <1> QED BY <1>1, <1>3, <1>4, <1>7, <1>8 DEF Surjection, live

\* The nodes after a compaction, and where the old ones went.
LEMMA ReindexKeepsBase ==
    ASSUME BaseInv, Reindex
    PROVE  BaseInv'
  <1> USE DEF BaseInv
  <1> DEFINE live == {i \in Index : Live(i)}
  <1>1. PICK old \in Compaction :
         /\ nodes' = [i \in DOMAIN old |-> [nodes[old[i]] EXCEPT !.dead = FALSE]]
         /\ links' = {l \in Levels \X (DOMAIN old) \X (DOMAIN old) :
                        <<l[1], old[l[2]], old[l[3]]>> \in links}
         /\ entry' = IF entry = 0 THEN 0
                     ELSE IF Live(entry) THEN CHOOSE i \in DOMAIN old : old[i] = entry
                     ELSE Top(nodes')
         /\ mapper' = Remapped(old)
    BY DEF Reindex
  <1>2. PICK n \in Nat :
         /\ old \in [1 .. n -> live]
         /\ \A i, j \in 1 .. n : old[i] = old[j] => i = j
         /\ \A x \in live : \E i \in 1 .. n : old[i] = x
         /\ n = 0 <=> live = {}
    BY <1>1, CompactionFacts
  <1>3. /\ UNCHANGED <<conf, phase, layer, cur, walk, todo, answer>>
        /\ UNCHANGED <<subject, target, size, width>> /\ AtRest /\ phase = "idle"
    BY DEF Reindex, task, ControlInv
  <1>4. Levels' = Levels
    BY <1>3 DEF Levels
  <1>5. /\ live \subseteq Index
        /\ \A i \in live : nodes[i] \in Node /\ nodes[i].dead = FALSE
    BY Indices DEF Live, Node
  <1>6. DOMAIN old = 1 .. n /\ \A i \in 1 .. n : old[i] \in live
    BY <1>2
  <1> HIDE DEF live
  <1>7. \A i \in 1 .. n : nodes'[i] = nodes[old[i]]
    <2>1. ASSUME NEW i \in 1 .. n PROVE nodes'[i] = nodes[old[i]]
      <3>1. nodes[old[i]] \in Node /\ nodes[old[i]].dead = FALSE
        BY <1>5, <1>6
      <3>2. nodes'[i] = [nodes[old[i]] EXCEPT !.dead = FALSE]
        BY <1>1, <1>6
      <3> QED BY <3>1, <3>2 DEF Node
    <2> QED BY <2>1
  <1>8. nodes' \in Seq(Node) /\ Index' = 1 .. n
    <2>1. nodes' = [i \in 1 .. n |-> nodes'[i]]
      BY <1>1, <1>6
    <2>2. \A i \in 1 .. n : nodes'[i] \in Node
      BY <1>5, <1>6, <1>7
    <2> HIDE DEF Node
    <2>3. nodes' \in [1 .. n -> Node]
      BY <2>1, <2>2
    <2>4. nodes' \in Seq(Node)
      BY <2>3
    <2> QED BY <2>1, <2>4 DEF Index
  <1>9. LinksSound' /\ links' \subseteq Levels \X Index' \X Index'
    <2>1. links' \subseteq Levels \X Index' \X Index'
      BY <1>1, <1>6, <1>8
    <2>2. ASSUME NEW l \in links'
          PROVE  /\ l[2] # l[3]
                 /\ l[1] =< nodes'[l[2]].level /\ l[1] =< nodes'[l[3]].level
                 /\ <<l[1], l[3], l[2]>> \in links'
      <3>1. /\ l[1] \in Levels /\ l[2] \in 1 .. n /\ l[3] \in 1 .. n
            /\ <<l[1], old[l[2]], old[l[3]]>> \in links
        BY <1>1, <1>6
      <3>2. /\ old[l[2]] # old[l[3]]
            /\ l[1] =< nodes[old[l[2]]].level /\ l[1] =< nodes[old[l[3]]].level
            /\ <<l[1], old[l[3]], old[l[2]]>> \in links
        BY <3>1 DEF GraphInv, LinksSound
      <3> QED BY <1>1, <1>6, <1>7, <3>1, <3>2
    <2> QED BY <2>1, <2>2 DEF LinksSound
  <1>10. \A i, j \in 1 .. n : nodes[old[i]].id = nodes[old[j]].id => i = j
    BY <1>2, <1>5, <1>6 DEF GraphInv, MapperAgrees
  <1>11. /\ DOMAIN mapper' = {nodes[old[i]].id : i \in 1 .. n}
         /\ \A i \in 1 .. n : mapper'[nodes[old[i]].id] = i
    <2>1. mapper' = [id \in {nodes[old[i]].id : i \in 1 .. n} |->
                       CHOOSE i \in 1 .. n : nodes[old[i]].id = id]
      BY <1>1, <1>6 DEF Remapped
    <2>2. ASSUME NEW i \in 1 .. n PROVE mapper'[nodes[old[i]].id] = i
      <3>1. mapper'[nodes[old[i]].id] = CHOOSE j \in 1 .. n : nodes[old[j]].id = nodes[old[i]].id
        BY <2>1
      <3> QED BY <1>10, <3>1
    <2> QED BY <2>1, <2>2
  <1>12. /\ DOMAIN mapper' \subseteq Ids /\ mapper' \in [DOMAIN mapper' -> Index']
         /\ MapperAgrees'
    <2>1. \A i \in 1 .. n : nodes[old[i]].id \in Ids
      BY <1>5, <1>6 DEF Node
    <2>2. ASSUME NEW id \in DOMAIN mapper'
          PROVE  id \in Ids /\ mapper'[id] \in Index' /\ nodes'[mapper'[id]].id = id
      <3>1. PICK i \in 1 .. n : id = nodes[old[i]].id
        BY <1>11
      <3> QED BY <1>7, <1>8, <1>11, <2>1, <3>1
    <2>3. \A i \in Index' : nodes'[i].id \in DOMAIN mapper' /\ mapper'[nodes'[i].id] = i
      BY <1>7, <1>8, <1>11
    <2>4. mapper' = [id \in DOMAIN mapper' |-> mapper'[id]]
      BY <1>1 DEF Remapped
    <2> QED BY <2>2, <2>3, <2>4 DEF MapperAgrees
  <1>13. EntryTop' /\ entry' \in Index' \cup {0}
    <2>1. Established = live /\ subject = 0
      BY <1>3, Indices DEF Established, AtRest, live
    <2>2. Established' = 1 .. n
      <3>1. \A i \in 1 .. n : Live(i)'
        BY <1>5, <1>6, <1>7 DEF Live
      <3> QED BY <1>3, <1>8, <2>1, <3>1 DEF Established
    <2>3. CASE live = {}
      <3>1. n = 0 /\ entry = 0
        BY <1>2, <2>1, <2>3 DEF GraphInv, EntryTop
      <3> QED BY <1>1, <2>2, <3>1 DEF EntryTop
    <2>4. CASE live # {}
      <3>1. /\ entry \in live /\ entry # 0 /\ Live(entry)
            /\ \A i \in live : nodes[i].level =< nodes[entry].level
        BY <2>1, <2>4, Indices DEF GraphInv, EntryTop, Established
      <3>2. entry' = CHOOSE i \in 1 .. n : old[i] = entry
        BY <1>1, <1>6, <3>1
      <3>3. entry' \in 1 .. n /\ old[entry'] = entry
        BY <1>2, <3>1, <3>2
      <3>4. \A i \in 1 .. n : nodes'[i].level =< nodes'[entry'].level
        BY <1>6, <1>7, <3>1, <3>3
      <3> QED BY <1>8, <2>2, <3>3, <3>4 DEF EntryTop
    <2> QED BY <2>3, <2>4
  <1>14. TypeOK'
    <2>1. nodes' \in Seq([id : Ids, level : Levels', dead : BOOLEAN])
      BY <1>4, <1>8 DEF Node
    <2> QED BY <1>3, <1>4, <1>9, <1>12, <1>13, <2>1 DEF TypeOK, AtRest, walk
  <1>15. \A i \in (open \cup found \cup visited \cup frontier \cup todo)' : FALSE
    BY <1>3 DEF walk, AtRest
  <1>16. ControlInv'
    BY <1>3, <1>15 DEF ControlInv, Walking, AtRest, walk
  <1>17. FreshInv'
    BY <1>3 DEF FreshInv, AtRest
  <1> QED BY <1>9, <1>12, <1>13, <1>14, <1>16, <1>17 DEF GraphInv

-------------------------------------------------------------------------------
(* Theorems.                                                                   *)

LEMMA BaseKept == BaseInv /\ [Next]_vars => BaseInv'
  <1> SUFFICES ASSUME BaseInv, [Next]_vars PROVE BaseInv'
    OBVIOUS
  <1>1. CASE \E id \in Ids, level \in Levels : InsertFirst(id, level) \/ InsertNext(id, level)
    BY <1>1, InsertKeepsBase
  <1>2. CASE \E q \in Queries, k \in Sizes : SearchEmpty(q, k) \/ Search(q, k) \/ SearchAll(q, k)
    BY <1>2, SearchKeepsBase
  <1>3. CASE \E id \in Ids : Delete(id)
    BY <1>3, DeleteKeepsBase
  <1>4. CASE Reindex
    BY <1>4, ReindexKeepsBase
  <1>5. CASE Step
    BY <1>5, GreedyKeepsBase, ExploreKeepsBase, SelectKeepsBase, ConnectKeepsBase,
       NextLayerKeepsBase, FinishKeepsBase, AnswerKeepsBase, ReturnKeepsBase DEF Step
  <1>6. CASE UNCHANGED vars
    <2>1. UNCHANGED <<conf, nodes, links, entry, mapper, phase, subject, target, size, width,
                      layer, cur, open, found, visited, frontier, todo, answer>>
      BY <1>6 DEF vars, graph, task, walk
    <2>2. Index' = Index /\ Levels' = Levels
      BY <2>1 DEF Index, Levels
    <2>3. TypeOK'
      BY <2>1, <2>2 DEF BaseInv, TypeOK
    <2>4. ControlInv'
      BY <2>1 DEF BaseInv, ControlInv, AtRest, walk, Live, Floor
    <2>5. GraphInv'
      BY <2>1, <2>2 DEF BaseInv, GraphInv, LinksSound, MapperAgrees, FreshInv, EntryTop,
                        Established, Live
    <2> QED BY <2>3, <2>4, <2>5 DEF BaseInv
  <1> QED BY <1>1, <1>2, <1>3, <1>4, <1>5, <1>6 DEF Next

LEMMA BaseAlways == Spec => []BaseInv
  <1> QED BY Initially, BaseKept, PTL DEF Spec

\* Every index an operation uses, in the graph and in its own heaps and lists,
\* is the index of a node.
THEOREM TypesAlways == Spec => []TypeOK
  <1>1. BaseInv => TypeOK
    BY DEF BaseInv
  <1> QED BY <1>1, BaseAlways, PTL

\* Links join two different nodes on a layer both reach, and go both ways, in
\* every intermediate graph.
THEOREM LinksAlwaysSound == Spec => []LinksSound
  <1>1. BaseInv => LinksSound
    BY DEF BaseInv, GraphInv
  <1> QED BY <1>1, BaseAlways, PTL

\* The entry point is a live node of the highest live layer, or there is no
\* live node.
THEOREM EntryAlwaysTop == Spec => []EntryTop
  <1>1. BaseInv => EntryTop
    BY DEF BaseInv, GraphInv
  <1> QED BY <1>1, BaseAlways, PTL

\* The id map and the nodes agree, so that each id an answer holds is found.
THEOREM MapperAlwaysAgrees == Spec => []MapperAgrees
  <1>1. BaseInv => MapperAgrees
    BY DEF BaseInv, GraphInv
  <1> QED BY <1>1, BaseAlways, PTL

-------------------------------------------------------------------------------
(* Pages.                                                                      *)

\* The quotient by the page size.
LEMMA PageOf ==
    ASSUME NEW a \in Nat
    PROVE  LET d == a \div PageSize
           IN  d \in Nat /\ d * PageSize =< a /\ a < d * PageSize + PageSize
  <1>1. PageSize \in Nat /\ PageSize > 0
    OBVIOUS
  <1> QED BY <1>1

LEMMA PagesAscend ==
    ASSUME NEW p \in Nat, NEW q \in Nat, p < q
    PROVE  /\ p * PageSize \in Nat /\ q * PageSize \in Nat
           /\ p * PageSize + PageSize =< q * PageSize
  <1>1. PageSize \in Nat
    OBVIOUS
  <1>2. PICK d \in Nat : q = p + 1 + d
    <2>1. q - (p + 1) \in Nat /\ q = p + 1 + (q - (p + 1))
      OBVIOUS
    <2> QED BY <2>1
  <1>3. q * PageSize = p * PageSize + PageSize + d * PageSize
    BY <1>1, <1>2
  <1>4. d * PageSize \in Nat /\ p * PageSize \in Nat /\ q * PageSize \in Nat
    BY <1>1
  <1> QED BY <1>1, <1>3, <1>4

LEMMA PagesApart ==
    ASSUME NEW p \in Nat, NEW q \in Nat, NEW i \in Nat,
           p * PageSize < i, i =< p * PageSize + PageSize,
           q * PageSize < i, i =< q * PageSize + PageSize
    PROVE  p = q
  <1> DEFINE a == p * PageSize
             b == q * PageSize
  <1>0. PageSize \in Nat /\ a < i /\ i =< a + PageSize /\ b < i /\ i =< b + PageSize
    OBVIOUS
  <1>1. p < q => a \in Nat /\ b \in Nat /\ a + PageSize =< b
    BY PagesAscend
  <1>2. q < p => a \in Nat /\ b \in Nat /\ b + PageSize =< a
    BY PagesAscend
  <1> HIDE DEF a, b
  <1> QED BY <1>0, <1>1, <1>2

\* Every node is on one of the pages that are counted.
LEMMA PageCounted ==
    ASSUME NEW n \in Nat, NEW i \in 1 .. n
    PROVE  (i - 1) \div PageSize + 1 =< (n + PageSize - 1) \div PageSize
  <1> DEFINE d == (i - 1) \div PageSize
             t == (n + PageSize - 1) \div PageSize
             a == d * PageSize
             b == t * PageSize
  <1>0. PageSize \in Nat /\ PageSize > 0 /\ i - 1 \in Nat /\ n + PageSize - 1 \in Nat
        /\ i \in Nat /\ i =< n
    OBVIOUS
  <1>1. d \in Nat /\ a =< i - 1
    BY <1>0, PageOf
  <1>2. t \in Nat /\ n + PageSize - 1 < b + PageSize
    BY <1>0, PageOf
  <1>3. t < d + 1 => t * PageSize + PageSize =< (d + 1) * PageSize
    BY <1>1, <1>2, PagesAscend
  <1>4. a \in Nat /\ b \in Nat /\ (d + 1) * PageSize = a + PageSize
    BY <1>0, <1>1, <1>2
  <1>5. t < d + 1 => b + PageSize =< a + PageSize
    BY <1>3, <1>4
  <1> HIDE DEF a, b, d, t
  <1>6. ~ t < d + 1
    BY <1>0, <1>1, <1>2, <1>4, <1>5
  <1>7. d + 1 =< t
    BY <1>1, <1>2, <1>6
  <1> QED BY <1>7 DEF d, t

\* Whoever reads the pages one by one is shown every node exactly once.
THEOREM PagesAlwaysComplete == Spec => []PagesComplete
  <1>1. ASSUME TypeOK PROVE PagesComplete
    <2> DEFINE n == Len(nodes)
    <2>0. n \in Nat /\ Index = 1 .. n /\ PageSize \in Nat \ {0}
      BY <1>1, Indices
    <2>1. TotalPages \in Nat \ {0} /\ (n # 0 => TotalPages = (n + PageSize - 1) \div PageSize)
      <3>1. CASE nodes = << >>
        BY <3>1 DEF TotalPages
      <3>2. CASE nodes # << >>
        <4>1. n # 0
          BY <1>1, <3>2 DEF TypeOK
        <4>2. n + PageSize - 1 \in Nat /\ 1 \in 1 .. n /\ (1 - 1) \div PageSize \in Nat
          BY <2>0, <4>1, PageOf
        <4>3. (n + PageSize - 1) \div PageSize \in Nat
          BY <4>2, PageOf
        <4>4. (1 - 1) \div PageSize + 1 =< (n + PageSize - 1) \div PageSize
          BY <2>0, <4>2, PageCounted
        <4> QED BY <3>2, <4>2, <4>3, <4>4 DEF TotalPages
      <3> QED BY <3>1, <3>2
    <2>2. ASSUME NEW tombstones \in BOOLEAN, NEW p \in {0, TotalPages + 1}
          PROVE  Page(p, tombstones) = Page(1, tombstones)
      BY <2>1 DEF Page, Served
    <2>3. ASSUME NEW tombstones \in BOOLEAN, NEW i \in Index
          PROVE  Cardinality({p \in 1 .. TotalPages : i \in Page(p, tombstones)}) =
                    IF tombstones \/ Live(i) THEN 1 ELSE 0
      <3> DEFINE shown == {p \in 1 .. TotalPages : i \in Page(p, tombstones)}
                 d == (i - 1) \div PageSize
      <3>1. \A p \in 1 .. TotalPages :
               p \in shown <=> /\ (p - 1) * PageSize < i
                               /\ i =< (p - 1) * PageSize + PageSize
                               /\ tombstones \/ Live(i)
        BY DEF Page, Served
      <3>2. CASE ~ (tombstones \/ Live(i))
        <4>1. shown = {}
          BY <3>1, <3>2
        <4> QED BY <3>2, <4>1, FS_EmptySet
      <3>3. CASE tombstones \/ Live(i)
        <4>1. i \in 1 .. n /\ i - 1 \in Nat /\ n # 0
          BY <2>0
        <4>2. d \in Nat /\ d * PageSize =< i - 1 /\ i - 1 < d * PageSize + PageSize
          BY <4>1, PageOf
        <4>3. d + 1 =< TotalPages
          BY <2>0, <2>1, <4>1, PageCounted
        <4>4. d * PageSize < i /\ i =< d * PageSize + PageSize
          <5>1. d * PageSize \in Nat /\ PageSize \in Nat
            BY <2>0, <4>2
          <5> DEFINE e == d * PageSize
          <5>2. e \in Nat /\ e =< i - 1 /\ i - 1 < e + PageSize
            BY <4>2, <5>1
          <5> HIDE DEF e
          <5>3. e < i /\ i =< e + PageSize
            BY <4>1, <5>1, <5>2
          <5> QED BY <5>3 DEF e
        <4> HIDE DEF d, n
        <4>5. d + 1 \in 1 .. TotalPages /\ (d + 1) - 1 = d
          BY <2>1, <4>2, <4>3
        <4>6. d + 1 \in shown
          BY <3>1, <3>3, <4>4, <4>5
        <4>7. \A p \in shown : p = d + 1
          <5> SUFFICES ASSUME NEW p \in shown PROVE p = d + 1
            OBVIOUS
          <5>1. p \in 1 .. TotalPages /\ p - 1 \in Nat
            BY <2>1
          <5>2. (p - 1) * PageSize < i /\ i =< (p - 1) * PageSize + PageSize
            BY <3>1, <5>1
          <5>3. p - 1 = d
            BY <4>1, <4>2, <4>4, <5>1, <5>2, PagesApart
          <5> QED BY <4>2, <5>1, <5>3
        <4>8. shown = {d + 1}
          BY <4>6, <4>7
        <4> QED BY <3>3, <4>8, FS_Singleton
      <3> QED BY <3>2, <3>3
    <2> QED BY <2>2, <2>3 DEF PagesComplete
  <1> QED BY <1>1, TypesAlways, PTL
===============================================================================
