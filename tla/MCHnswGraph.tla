------------------------------ MODULE MCHnswGraph -----------------------------
(* HnswGraph on a small instance.                                             *)
EXTENDS HnswGraph

CONSTANTS v1, v2, v3, v4, q

MCPoint == [v \in Vectors |-> CASE v = v1 -> 1 [] v = v2 -> 2 [] v = v3 -> 4 [] v = v4 -> 7 [] OTHER -> 3]
MCSimilarity == [v \in Vectors |-> [id \in Ids |->
    LET x == MCPoint[v] - MCPoint[id] IN IF x < 0 THEN x ELSE 0 - x]]
MCConfigs ==
    {[degree |-> 1, ef |-> 2, layers |-> 2],
     [degree |-> 2, ef |-> 2, layers |-> 1],
     [degree |-> 3, ef |-> 4, layers |-> 1]}

===============================================================================
