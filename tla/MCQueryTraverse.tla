--------------------------- MODULE MCQueryTraverse ---------------------------
(* An instance of QueryTraverse: four nodes, each of which selects         *)
(* nothing, the next node or all the others; no start node, or one or two  *)
(* of which n1 is the first (the graphs are closed under rotation, so that *)
(* another first node adds nothing); frames that walk one claimed node     *)
(* themselves and dispatch the others.                                     *)
EXTENDS QueryTraverse, TLC

CONSTANTS n1, n2, n3, n4

MCNodes == {n1, n2, n3, n4}

NextOf == (n1 :> n2) @@ (n2 :> n3) @@ (n3 :> n4) @@ (n4 :> n1)

MCCallbacks ==
  {g \in [MCNodes -> SUBSET MCNodes] :
     \A n \in MCNodes : g[n] \in {{}, {NextOf[n]}, MCNodes \ {n}}}

MCStartLists == {<< >>, <<n1>>, <<n1, n1>>, <<n1, n2>>, <<n1, n3>>}
=============================================================================
