-------------------------- MODULE MCRemoveUseless --------------------------
(* An instance of RemoveUseless: circuits of three nets and three          *)
(* operations, the last of which has fewer choices, with one or two        *)
(* outputs, and with or without a slot that a nested statement left.  When *)
(* there is no output every mask is tried, on a chain of the operations.   *)
EXTENDS RemoveUseless, TLC

CONSTANTS n1, n2, n3, o1, o2, o3

MCNets == {n1, n2, n3}

MCOps == {o1, o2, o3}

Inputs == {{n1}, {n2}, {n1, n2}, {n1, n3}}

Outputs == {{n1}, {n2}, {n3}, {n1, n2}}

MCNodes == {<<n1, n2, o1, n3, o2, o3>>, <<n1, o1, n2, Null, n3, o3, o2>>}

MCCircuits ==
  {c \in [nodes : MCNodes, ins : [MCOps -> Inputs], outs : [MCOps -> Outputs],
          outputs : {{n1}, {n2}, {n1, n2}}] :
     c.ins[o3] \in {{n1, n2}, {n1, n3}} /\ c.outs[o3] \in {{n2}, {n3}}}
  \cup
  [nodes : MCNodes,
   ins : {(o1 :> {n1}) @@ (o2 :> {n2}) @@ (o3 :> {n1, n2})},
   outs : {(o1 :> {n2}) @@ (o2 :> {n3}) @@ (o3 :> {n1})},
   outputs : {{}}]
=============================================================================
