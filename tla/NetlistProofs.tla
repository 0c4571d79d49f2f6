---------------------------- MODULE NetlistProofs ----------------------------
(***************************************************************************)
(* Theorems about Netlist, for every number of nets and operations: its    *)
(* slots, its edges and its cached expressions stay consistent (IInv);     *)
(* statements form a forest whose tops have the inputs and outputs of all  *)
(* inside of them (Nested); ranks count branches (Ranks, on the forest and *)
(* on lemmas about sums over finite sets).                                 *)
(***************************************************************************)
EXTENDS Netlist, UniqueSeqProofs, FiniteSetTheorems

GraphType ==
  /\ nodes \in Seq(Nodes \cup {Null}) /\ nets \in Seq(Nets)
  /\ index \in [Nodes -> Nat] /\ net_index \in [Nets -> Nat]
  /\ drivers \in [Nets -> SUBSET Ops] /\ endpoints \in [Nets -> SUBSET Ops]
  /\ usage_cache \in [Nets -> SUBSET (UsageCacheKey \X Nets)]
  /\ kind \in [Ops -> {"free", "call", "assignment", "if"}]
  /\ key \in [Ops -> UsageCacheKey \cup {NoKey}]
  /\ ins \in [Ops -> SUBSET Nets] /\ outs \in [Ops -> SUBSET Nets]
  /\ parent \in [Ops -> Ops \cup {Null}]

(* What an operation that does not exist, or is not a call, has not. *)
Blank ==
  \A o \in Ops :
    /\ kind[o] = "free" => ins[o] = {} /\ outs[o] = {} /\ parent[o] = Null
    /\ kind[o] = "call" => parent[o] = Null
    /\ key[o] # NoKey <=> kind[o] = "call"
    /\ kind[o] = "call" => \E r \in Nets : outs[o] = {r}

(* The elements of v have their slot, from 0, in f. *)
Numbered(v, f) == \A p \in DOMAIN v : v[p] # Null => f[v[p]] = p - 1

Registered == Elements(nodes) \ {Null} = Signals \cup Graph

Connected == \A o \in Ops : ins[o] \cup outs[o] \subseteq Signals

KeysUnique == \A c, d \in Ops : key[c] # NoKey /\ key[c] = key[d] => c = d

CacheAgrees ==
  \A n \in Nets, k \in UsageCacheKey, r \in Nets :
    <<k, r>> \in usage_cache[n] <=> \E c \in Ops : key[c] = k /\ In(n, k[2]) /\ outs[c] = {r}

IInv ==
  /\ GraphType /\ Blank /\ ifTrue_specified \subseteq Ifs
  /\ Numbered(nodes, index) /\ Numbered(nets, net_index) /\ Registered /\ Connected
  /\ EdgesAgree
  /\ KeysUnique /\ CacheAgrees

-----------------------------------------------------------------------------
LEMMA KeyIsSome ==
  \A k \in UsageCacheKey : k # NoKey
<1> SUFFICES ASSUME NEW k \in UsageCacheKey PROVE k # NoKey
  OBVIOUS
<1>1. CASE k \in Unary \X {<<a>> : a \in Nets}
  BY <1>1 DEF NoKey
<1>2. CASE k \in Binary \X (Nets \X Nets)
  BY <1>2 DEF NoKey
<1> QED BY <1>1, <1>2 DEF UsageCacheKey

LEMMA InitInv == Init => IInv
  <1> SUFFICES ASSUME Init PROVE IInv
    OBVIOUS
  <1> USE DEF Init
  <1>1. GraphType
    BY DEF GraphType, Nodes
  <1>2. Elements(nodes) = {} /\ Signals = {}
    BY DEF Elements, Signals
  <1>3. Blank /\ Numbered(nodes, index) /\ Numbered(nets, net_index) /\ Connected /\ KeysUnique
    BY DEF Blank, Numbered, Connected, KeysUnique, NoKey
  <1>4. Registered
    BY <1>2 DEF Registered, Graph
  <1>5. EdgesAgree
    BY DEF EdgesAgree, Graph
  <1>6. CacheAgrees
    BY KeyIsSome DEF CacheAgrees
  <1> QED
    BY <1>1, <1>3, <1>4, <1>5, <1>6 DEF IInv, Ifs

(* A new element at the end of a vector whose elements know their slots. *)
LEMMA AppendSlot ==
  ASSUME NEW S, NEW s \in Seq(S \cup {Null}), NEW x \in S, x \notin Elements(s),
         NEW f \in [S -> Nat], Numbered(s, f)
  PROVE  Numbered(Append(s, x), [f EXCEPT ![x] = Len(s)])
<1> DEFINE r == Append(s, x)
           g == [f EXCEPT ![x] = Len(s)]
<1> SUFFICES ASSUME NEW p \in DOMAIN r, r[p] # Null PROVE g[r[p]] = p - 1
  BY DEF Numbered
<1>1. DOMAIN r = 1 .. Len(s) + 1 /\ Len(s) \in Nat /\ DOMAIN s = 1 .. Len(s)
  OBVIOUS
<1>2. CASE p = Len(s) + 1
  BY <1>1, <1>2
<1>3. CASE p \in DOMAIN s
  <2>1. r[p] = s[p] /\ s[p] \in S /\ s[p] # x
    BY <1>1, <1>3 DEF Elements
  <2> QED BY <1>3, <2>1 DEF Numbered
<1> QED BY <1>1, <1>2, <1>3

(* Neither address is in use. *)
LEMMA Fresh ==
  /\ CanNewNet => NewNet \in Nets /\ NewNet \notin Signals
  /\ CanNewOp => NewOp \in Ops /\ kind[NewOp] = "free"
  BY DEF CanNewNet, CanNewOp, NewNet, NewOp

LEMMA SigInv == IInv /\ sig => IInv'
  <1> SUFFICES ASSUME IInv, sig PROVE IInv'
    OBVIOUS
  <1> DEFINE n == NewNet
  <1> USE DEF IInv
  <1>1. n \in Nets /\ n \notin Signals /\ n \in Nodes /\ n # Null
    BY Fresh, NodesAssumption DEF sig, Nodes
  <1> HIDE DEF n
  <1>2. /\ nodes' = Append(nodes, n) /\ index' = [index EXCEPT ![n] = Len(nodes)]
        /\ nets' = Append(nets, n) /\ net_index' = [net_index EXCEPT ![n] = Len(nets)]
    BY DEF sig, register_node, n
  <1>3. UNCHANGED <<drivers, endpoints, usage_cache, kind, key, ins, outs, parent,
                    ifTrue_specified>>
    BY DEF sig, branches
  <1>4. /\ nodes' \in Seq(Nodes \cup {Null}) /\ Elements(nodes') = Elements(nodes) \cup {n}
        /\ nets' \in Seq(Nets) /\ Signals' = Signals \cup {n}
    <2>1. nodes \in Seq(Nodes \cup {Null}) /\ nets \in Seq(Nets) /\ n \in Nodes \cup {Null}
      BY <1>1 DEF GraphType
    <2>2. Append(nodes, n) \in Seq(Nodes \cup {Null})
          /\ Elements(Append(nodes, n)) = Elements(nodes) \cup {n}
      BY <2>1, AppendFacts
    <2>3. Append(nets, n) \in Seq(Nets) /\ Elements(Append(nets, n)) = Elements(nets) \cup {n}
      BY <1>1, <2>1, AppendFacts
    <2> QED BY <1>2, <2>2, <2>3 DEF Signals
  <1>5. GraphType'
    BY <1>1, <1>2, <1>3, <1>4 DEF GraphType
  <1>6. n \notin Elements(nodes)
    BY <1>1, NodesAssumption DEF Registered, Graph
  <1>7. Numbered(nodes, index)'
    BY <1>1, <1>2, <1>6, AppendSlot DEF GraphType
  <1>8. Numbered(nets, net_index)'
    <2>1. nets \in Seq(Nets \cup {Null}) /\ net_index \in [Nets -> Nat] /\ n \notin Elements(nets)
      BY <1>1 DEF GraphType, Signals
    <2> QED BY <1>1, <1>2, <2>1, AppendSlot
  <1>9. Registered'
    BY <1>1, <1>3, <1>4 DEF Registered, Graph
  <1>10. Blank' /\ Connected'
    BY <1>3, <1>4 DEF Blank, Connected
  <1>11. EdgesAgree'
    BY <1>3 DEF EdgesAgree, Graph
  <1>12. KeysUnique' /\ CacheAgrees'
    BY <1>3 DEF KeysUnique, CacheAgrees
  <1>13. ifTrue_specified' \subseteq Ifs'
    BY <1>3 DEF Ifs
  <1> QED
    BY <1>5, <1>7, <1>8, <1>9, <1>10, <1>11, <1>12, <1>13

-----------------------------------------------------------------------------
(* No cache and no call changes. *)
LEMMA CacheKept ==
  ASSUME CacheAgrees, UNCHANGED <<usage_cache, key>>,
         \A c \in Ops, k \in UsageCacheKey : key[c] = k => outs'[c] = outs[c]
  PROVE  CacheAgrees'
<1> SUFFICES ASSUME NEW n \in Nets, NEW k \in UsageCacheKey, NEW r \in Nets
             PROVE  <<k, r>> \in usage_cache'[n] <=>
                      \E c \in Ops : key'[c] = k /\ In(n, k[2]) /\ outs'[c] = {r}
  BY DEF CacheAgrees
<1>1. <<k, r>> \in usage_cache[n] <=> \E c \in Ops : key[c] = k /\ In(n, k[2]) /\ outs[c] = {r}
  BY DEF CacheAgrees
<1> QED BY <1>1

(* A new operation, connected at both ends. *)
LEMMA NewOpEdges ==
  ASSUME EdgesAgree,
         NEW o \in Ops, o \notin Graph, Graph' = Graph \cup {o},
         NEW I, NEW D,
         \A x \in Ops : ins'[x] = IF x = o THEN I ELSE ins[x],
         \A x \in Ops : outs'[x] = IF x = o THEN D ELSE outs[x],
         \A n \in Nets : endpoints'[n] = IF n \in I THEN endpoints[n] \cup {o} ELSE endpoints[n],
         \A n \in Nets : drivers'[n] = IF n \in D THEN drivers[n] \cup {o} ELSE drivers[n]
  PROVE  EdgesAgree'
<1> SUFFICES ASSUME NEW n \in Nets
             PROVE  /\ endpoints'[n] = {x \in Graph' : n \in ins'[x]}
                    /\ drivers'[n] = {x \in Graph' : n \in outs'[x]}
  BY DEF EdgesAgree
<1>1. /\ endpoints[n] \subseteq Ops /\ drivers[n] \subseteq Ops
      /\ \A x \in Ops : x \in endpoints[n] <=> x \in Graph /\ n \in ins[x]
      /\ \A x \in Ops : x \in drivers[n] <=> x \in Graph /\ n \in outs[x]
  BY DEF EdgesAgree, Graph
<1>2. Graph' \subseteq Ops
  BY DEF Graph
<1>3. endpoints'[n] \subseteq Ops /\ drivers'[n] \subseteq Ops
  <2>1. endpoints[n] \subseteq Ops /\ drivers[n] \subseteq Ops
    BY <1>1
  <2> QED BY <2>1
<1>4. ASSUME NEW x \in Ops
      PROVE  x \in endpoints'[n] <=> x \in Graph' /\ n \in ins'[x]
  <2>1. CASE x = o   BY <1>1, <2>1
  <2>2. CASE x # o   BY <1>1, <2>2
  <2> QED BY <2>1, <2>2
<1>5. ASSUME NEW x \in Ops
      PROVE  x \in drivers'[n] <=> x \in Graph' /\ n \in outs'[x]
  <2>1. CASE x = o   BY <1>1, <2>1
  <2>2. CASE x # o   BY <1>1, <2>2
  <2> QED BY <2>1, <2>2
<1> QED BY <1>2, <1>3, <1>4, <1>5

(* A new operation that is not a call, in its slot. *)
LEMMA NewStatementInv ==
  ASSUME IInv,
         NEW o \in Ops, kind[o] = "free", register_node(o),
         NEW I \in SUBSET Signals, NEW D \in SUBSET Signals,
         NEW K \in {"assignment", "if"}, kind' = [kind EXCEPT ![o] = K],
         ins' = [ins EXCEPT ![o] = I], outs' = [outs EXCEPT ![o] = D],
         endpoints' = Used(I, o),
         drivers' = [n \in Nets |-> IF n \in D THEN drivers[n] \cup {o} ELSE drivers[n]],
         UNCHANGED <<nets, net_index, usage_cache, key, parent, ifTrue_specified>>
  PROVE  IInv'
<1> USE DEF IInv
<1>1. o \in Nodes /\ o # Null /\ o \notin Elements(nodes)
  <2>1. o \notin Signals
    BY NodesAssumption DEF GraphType, Signals, Elements
  <2> QED BY <2>1, NodesAssumption DEF Registered, Graph, Nodes
<1>2. Signals' = Signals /\ Signals \subseteq Nets
  BY DEF Signals, GraphType, Elements
<1>3. nodes' \in Seq(Nodes \cup {Null}) /\ Elements(nodes') = Elements(nodes) \cup {o}
  <2>1. nodes \in Seq(Nodes \cup {Null}) /\ o \in Nodes \cup {Null}
    BY <1>1 DEF GraphType
  <2>2. Append(nodes, o) \in Seq(Nodes \cup {Null})
        /\ Elements(Append(nodes, o)) = Elements(nodes) \cup {o}
    BY <2>1, AppendFacts
  <2> QED BY <2>2 DEF register_node
<1>4. GraphType'
  BY <1>1, <1>2, <1>3 DEF GraphType, register_node, Used
<1>5. key[o] = NoKey /\ parent[o] = Null
  BY DEF Blank
<1>6. Blank'
  <2> SUFFICES ASSUME NEW x \in Ops
               PROVE  /\ kind'[x] = "free" => ins'[x] = {} /\ outs'[x] = {} /\ parent'[x] = Null
                      /\ kind'[x] = "call" => parent'[x] = Null
                      /\ key'[x] # NoKey <=> kind'[x] = "call"
                      /\ kind'[x] = "call" => \E r \in Nets : outs'[x] = {r}
    BY DEF Blank
  <2>1. CASE x = o
    BY <1>5, <2>1 DEF GraphType
  <2>2. CASE x # o
    BY <2>2 DEF GraphType, Blank
  <2> QED BY <2>1, <2>2
<1>7. Numbered(nodes, index)'
  BY <1>1, AppendSlot DEF GraphType, register_node
<1>8. Numbered(nets, net_index)'
  BY DEF Numbered
<1>9. Registered'
  BY <1>1, <1>2, <1>3, <1>5 DEF Registered, Graph, GraphType
<1>10. Connected'
  BY <1>2 DEF Connected, GraphType
<1>11. EdgesAgree'
  <2>1. Graph' = Graph \cup {o} /\ o \notin Graph
    BY <1>5 DEF Graph, GraphType
  <2>2. /\ \A x \in Ops : ins'[x] = IF x = o THEN I ELSE ins[x]
        /\ \A x \in Ops : outs'[x] = IF x = o THEN D ELSE outs[x]
    BY DEF GraphType
  <2>3. /\ \A n \in Nets : endpoints'[n] = IF n \in I THEN endpoints[n] \cup {o} ELSE endpoints[n]
        /\ \A n \in Nets : drivers'[n] = IF n \in D THEN drivers[n] \cup {o} ELSE drivers[n]
    BY DEF Used
  <2> QED BY <2>1, <2>2, <2>3, NewOpEdges
<1>12. KeysUnique'
  BY DEF KeysUnique
<1>13. CacheAgrees'
  <2>1. \A c \in Ops, k \in UsageCacheKey : key[c] = k => outs'[c] = outs[c]
    BY <1>5, KeyIsSome DEF GraphType
  <2> QED BY <2>1, CacheKept
<1>14. ifTrue_specified' \subseteq Ifs'
  BY DEF Ifs, GraphType
<1> QED BY <1>4, <1>6, <1>7, <1>8, <1>9, <1>10, <1>11, <1>12, <1>13, <1>14

LEMMA AssignmentInv ==
  ASSUME IInv, NEW d \in Nets, NEW src \in Nets, assignment(d, src)
  PROVE  IInv'
<1>1. PICK dst \in Signals, dst_index \in SUBSET Signals :
        /\ ins' = [ins EXCEPT ![NewOp] = {src} \cup dst_index]
        /\ outs' = [outs EXCEPT ![NewOp] = {dst}]
        /\ endpoints' = Used({src} \cup dst_index, NewOp)
        /\ drivers' = [drivers EXCEPT ![dst] = @ \cup {NewOp}]
  BY DEF assignment, Assign
<1>2. NewOp \in Ops /\ kind[NewOp] = "free"
  BY Fresh DEF assignment
<1>3. drivers' = [n \in Nets |-> IF n \in {dst} THEN drivers[n] \cup {NewOp} ELSE drivers[n]]
  BY <1>1 DEF IInv, GraphType, Signals, Elements
<1>4. /\ register_node(NewOp) /\ kind' = [kind EXCEPT ![NewOp] = "assignment"]
      /\ {src} \cup dst_index \in SUBSET Signals /\ {dst} \in SUBSET Signals
      /\ UNCHANGED <<nets, net_index, usage_cache, key, parent, ifTrue_specified>>
  BY <1>1 DEF assignment, branches
<1> QED BY <1>1, <1>2, <1>3, <1>4, NewStatementInv

LEMMA IfInv ==
  ASSUME IInv, NEW cond \in Nets, If(cond)
  PROVE  IInv'
<1>1. NewOp \in Ops /\ kind[NewOp] = "free"
  BY Fresh DEF If
<1>2. outs' = [outs EXCEPT ![NewOp] = {}]
  BY <1>1 DEF If, IInv, Blank, GraphType
<1>3. drivers' = [n \in Nets |-> IF n \in {} THEN drivers[n] \cup {NewOp} ELSE drivers[n]]
  BY DEF If, IInv, GraphType
<1>4. /\ register_node(NewOp) /\ kind' = [kind EXCEPT ![NewOp] = "if"]
      /\ {cond} \in SUBSET Signals /\ {} \in SUBSET Signals
      /\ ins' = [ins EXCEPT ![NewOp] = {cond}] /\ endpoints' = Used({cond}, NewOp)
      /\ UNCHANGED <<nets, net_index, usage_cache, key, parent, ifTrue_specified>>
  BY DEF If, branches
<1> QED BY <1>1, <1>2, <1>3, <1>4, NewStatementInv

-----------------------------------------------------------------------------
LEMMA KeyParts ==
  ASSUME NEW k \in UsageCacheKey
  PROVE  /\ Elements(k[2]) \subseteq Nets
         /\ k[2][1] \in Nets /\ In(k[2][1], k[2])
<1>1. CASE k \in Unary \X {<<a>> : a \in Nets}
  <2>1. PICK a \in Nets : k[2] = <<a>>
    BY <1>1
  <2> QED BY <2>1 DEF Elements, In
<1>2. CASE k \in Binary \X (Nets \X Nets)
  <2>1. PICK a \in Nets, b \in Nets : k[2] = <<a, b>>
    BY <1>2
  <2> QED BY <2>1 DEF Elements, In
<1> QED BY <1>1, <1>2 DEF UsageCacheKey

LEMMA ApplyCallInv ==
  ASSUME IInv, NEW k \in UsageCacheKey, apply_call(k)
  PROVE  IInv'
<1> DEFINE r == NewNet
           c == NewOp
           a == Elements(k[2])
<1>1. /\ r \in Nets /\ r \notin Signals /\ c \in Ops /\ kind[c] = "free"
      /\ a \subseteq Signals /\ a \subseteq Nets /\ ~ Cached(k)
  BY Fresh, KeyParts DEF apply_call
<1>2. /\ nets' = Append(nets, r) /\ net_index' = [net_index EXCEPT ![r] = Len(nets)]
      /\ nodes' = Append(Append(nodes, r), c)
      /\ index' = [index EXCEPT ![r] = Len(nodes), ![c] = Len(nodes) + 1]
      /\ kind' = [kind EXCEPT ![c] = "call"] /\ key' = [key EXCEPT ![c] = k]
      /\ ins' = [ins EXCEPT ![c] = a] /\ outs' = [outs EXCEPT ![c] = {r}]
      /\ endpoints' = Used(a, c) /\ drivers' = [drivers EXCEPT ![r] = @ \cup {c}]
      /\ usage_cache' = CacheWith(k, r)
      /\ parent' = parent
  BY DEF apply_call
<1>3. GraphType /\ Blank /\ Numbered(nodes, index) /\ Numbered(nets, net_index) /\ Registered
      /\ Connected /\ EdgesAgree /\ KeysUnique /\ CacheAgrees
  BY DEF IInv
<1> HIDE DEF r, c, a
<1>4. /\ r \in Nodes /\ c \in Nodes /\ r # Null /\ c # Null /\ r # c
      /\ r \notin Elements(nodes) /\ c \notin Elements(nodes)
  <2>1. c \notin Signals
    BY <1>1, <1>3, NodesAssumption DEF GraphType, Signals, Elements
  <2> QED BY <1>1, <1>3, <2>1, NodesAssumption DEF Registered, Graph, Nodes
<1>5. /\ nets' \in Seq(Nets) /\ Signals' = Signals \cup {r}
      /\ Append(nodes, r) \in Seq(Nodes \cup {Null}) /\ nodes' \in Seq(Nodes \cup {Null})
      /\ Elements(Append(nodes, r)) = Elements(nodes) \cup {r}
      /\ Elements(nodes') = Elements(nodes) \cup {r, c}
      /\ Len(Append(nodes, r)) = Len(nodes) + 1
  <2>1. nodes \in Seq(Nodes \cup {Null}) /\ nets \in Seq(Nets)
    BY <1>3 DEF GraphType
  <2>2. Append(nets, r) \in Seq(Nets) /\ Elements(Append(nets, r)) = Elements(nets) \cup {r}
    BY <1>1, <2>1, AppendFacts
  <2>3. /\ Append(nodes, r) \in Seq(Nodes \cup {Null})
        /\ Elements(Append(nodes, r)) = Elements(nodes) \cup {r}
        /\ Len(Append(nodes, r)) = Len(nodes) + 1
    BY <1>4, <2>1, AppendFacts
  <2>4. ASSUME NEW m \in Seq(Nodes \cup {Null})
        PROVE  /\ Append(m, c) \in Seq(Nodes \cup {Null})
               /\ Elements(Append(m, c)) = Elements(m) \cup {c}
    <3>1. c \in Nodes \cup {Null}
      BY <1>4
    <3> QED BY <3>1, AppendFacts
  <2>5. nodes' \in Seq(Nodes \cup {Null}) /\ Elements(nodes') = Elements(nodes) \cup {r, c}
    BY <1>2, <2>3, <2>4
  <2>6. nets' \in Seq(Nets) /\ Signals' = Signals \cup {r}
    BY <1>2, <2>2 DEF Signals
  <2> QED BY <2>3, <2>5, <2>6
<1>6. key[c] = NoKey /\ parent[c] = Null
  BY <1>1, <1>3 DEF Blank
<1>7. GraphType'
  <2>1. usage_cache' \in [Nets -> SUBSET (UsageCacheKey \X Nets)]
    BY <1>1, <1>2, <1>3 DEF GraphType, CacheWith
  <2>2. index' \in [Nodes -> Nat] /\ net_index' \in [Nets -> Nat]
    BY <1>1, <1>2, <1>3, <1>4 DEF GraphType
  <2>3. drivers' \in [Nets -> SUBSET Ops] /\ endpoints' \in [Nets -> SUBSET Ops]
    BY <1>1, <1>2, <1>3 DEF GraphType, Used
  <2>4. /\ kind' \in [Ops -> {"free", "call", "assignment", "if"}]
        /\ key' \in [Ops -> UsageCacheKey \cup {NoKey}]
        /\ ins' \in [Ops -> SUBSET Nets] /\ outs' \in [Ops -> SUBSET Nets]
        /\ parent' \in [Ops -> Ops \cup {Null}]
    BY <1>1, <1>2, <1>3 DEF GraphType
  <2> QED BY <1>5, <2>1, <2>2, <2>3, <2>4 DEF GraphType
<1>8. Blank'
  <2> SUFFICES ASSUME NEW x \in Ops
               PROVE  /\ kind'[x] = "free" => ins'[x] = {} /\ outs'[x] = {} /\ parent'[x] = Null
                      /\ kind'[x] = "call" => parent'[x] = Null
                      /\ key'[x] # NoKey <=> kind'[x] = "call"
                      /\ kind'[x] = "call" => \E y \in Nets : outs'[x] = {y}
    BY DEF Blank
  <2>1. CASE x = c
    BY <1>1, <1>2, <1>3, <1>6, <2>1, KeyIsSome DEF GraphType
  <2>2. CASE x # c
    BY <1>2, <1>3, <2>2 DEF GraphType, Blank
  <2> QED BY <2>1, <2>2
<1>9. Numbered(nodes, index)'
  <2> DEFINE f == [index EXCEPT ![r] = Len(nodes)]
  <2>1. index \in [Nodes -> Nat] /\ nodes \in Seq(Nodes \cup {Null})
    BY <1>3 DEF GraphType
  <2>2. f \in [Nodes -> Nat]
    BY <1>4, <2>1
  <2>6. Numbered(Append(nodes, r), f)
    BY <1>3, <1>4, <2>1, AppendSlot
  <2>3. c \notin Elements(Append(nodes, r))
    BY <1>4, <1>5
  <2>4. index' = [f EXCEPT ![c] = Len(Append(nodes, r))]
    BY <1>2, <1>4, <1>5, <2>1
  <2> HIDE DEF f
  <2>5. Numbered(Append(Append(nodes, r), c), [f EXCEPT ![c] = Len(Append(nodes, r))])
    BY <1>4, <1>5, <2>2, <2>3, <2>6, AppendSlot
  <2> QED BY <1>2, <2>4, <2>5
<1>10. Numbered(nets, net_index)'
  <2>1. nets \in Seq(Nets \cup {Null}) /\ net_index \in [Nets -> Nat] /\ r \notin Elements(nets)
    BY <1>1, <1>3 DEF GraphType, Signals
  <2> QED BY <1>1, <1>2, <1>3, <2>1, AppendSlot
<1>11. Graph' = Graph \cup {c} /\ c \notin Graph
  BY <1>1, <1>2, <1>3, <1>6 DEF Graph, GraphType
<1>12. Registered'
  BY <1>3, <1>4, <1>5, <1>11 DEF Registered
<1>13. Connected'
  BY <1>1, <1>2, <1>3, <1>5 DEF Connected, GraphType
<1>14. EdgesAgree'
  <2>1. /\ \A x \in Ops : ins'[x] = IF x = c THEN a ELSE ins[x]
        /\ \A x \in Ops : outs'[x] = IF x = c THEN {r} ELSE outs[x]
    BY <1>2, <1>3 DEF GraphType
  <2>2. /\ \A n \in Nets : endpoints'[n] = IF n \in a THEN endpoints[n] \cup {c} ELSE endpoints[n]
        /\ \A n \in Nets : drivers'[n] = IF n \in {r} THEN drivers[n] \cup {c} ELSE drivers[n]
    BY <1>2, <1>3 DEF Used, GraphType
  <2> QED BY <1>1, <1>3, <1>11, <2>1, <2>2, NewOpEdges
<1>15. \A d \in Ops : key[d] # k
  <2> SUFFICES ASSUME NEW d \in Ops, key[d] = k PROVE FALSE
    OBVIOUS
  <2>1. PICK y \in Nets : outs[d] = {y}
    BY <1>3, KeyIsSome DEF Blank
  <2>2. <<k, y>> \in usage_cache[k[2][1]]
    BY <1>3, <2>1, KeyParts DEF CacheAgrees
  <2> QED BY <1>1, <2>2 DEF Cached
<1>16. KeysUnique'
  BY <1>2, <1>3, <1>15 DEF KeysUnique, GraphType
<1>17. CacheAgrees'
  <2> SUFFICES ASSUME NEW n \in Nets, NEW l \in UsageCacheKey, NEW y \in Nets
               PROVE  <<l, y>> \in usage_cache'[n] <=>
                        \E d \in Ops : key'[d] = l /\ In(n, l[2]) /\ outs'[d] = {y}
    BY DEF CacheAgrees
  <2>1. <<l, y>> \in usage_cache[n] <=> \E d \in Ops : key[d] = l /\ In(n, l[2]) /\ outs[d] = {y}
    BY <1>3 DEF CacheAgrees
  <2>2. <<l, y>> \in usage_cache'[n] <=>
          <<l, y>> \in usage_cache[n] \/ (In(n, k[2]) /\ l = k /\ y = r)
    BY <1>2 DEF CacheWith
  <2>3. key'[c] = k /\ outs'[c] = {r}
    BY <1>1, <1>2, <1>3 DEF GraphType
  <2>4. \A d \in Ops : d # c => key'[d] = key[d] /\ outs'[d] = outs[d]
    BY <1>2, <1>3 DEF GraphType
  <2>5. key[c] # l
    BY <1>6, KeyIsSome
  <2> HIDE DEF In
  <2>6. ASSUME NEW d \in Ops, key'[d] = l, In(n, l[2]), outs'[d] = {y}
        PROVE  <<l, y>> \in usage_cache'[n]
    <3>1. CASE d = c
      BY <2>2, <2>3, <2>6, <3>1
    <3>2. CASE d # c
      BY <2>1, <2>2, <2>4, <2>6, <3>2
    <3> QED BY <3>1, <3>2
  <2>7. ASSUME <<l, y>> \in usage_cache'[n]
        PROVE  \E d \in Ops : key'[d] = l /\ In(n, l[2]) /\ outs'[d] = {y}
    <3>1. CASE <<l, y>> \in usage_cache[n]
      <4>1. PICK d \in Ops : key[d] = l /\ In(n, l[2]) /\ outs[d] = {y}
        BY <2>1, <3>1
      <4>2. d # c
        BY <2>5, <4>1
      <4> QED BY <2>4, <4>1, <4>2
    <3>2. CASE In(n, k[2]) /\ l = k /\ y = r
      BY <1>1, <2>3, <3>2
    <3> QED BY <2>2, <2>7, <3>1, <3>2
  <2> QED BY <2>6, <2>7
<1>18. ifTrue_specified' \subseteq Ifs'
  BY <1>1, <1>2, <1>3 DEF apply_call, branches, IInv, Ifs, GraphType
<1> QED
  BY <1>7, <1>8, <1>9, <1>10, <1>12, <1>13, <1>14, <1>16, <1>17, <1>18 DEF IInv
-----------------------------------------------------------------------------
(* The slots of S, and no others, are empty now. *)
LEMMA UnregisterFacts ==
  ASSUME nodes \in Seq(Nodes \cup {Null}), index \in [Nodes -> Nat],
         Numbered(nodes, index),
         NEW S \in SUBSET (Elements(nodes) \ {Null}), unregister(S)
  PROVE  /\ nodes' \in Seq(Nodes \cup {Null})
         /\ Numbered(nodes', index)
         /\ Elements(nodes') \ {Null} = (Elements(nodes) \ {Null}) \ S
<1>1. DOMAIN nodes = 1 .. Len(nodes) /\ Len(nodes) \in Nat
  OBVIOUS
<1>2. /\ nodes' \in Seq(Nodes \cup {Null})
      /\ DOMAIN nodes' = DOMAIN nodes
      /\ \A p \in DOMAIN nodes :
           nodes'[p] = IF \E s \in S : index[s] = p - 1 THEN Null ELSE nodes[p]
  BY <1>1 DEF unregister
<1>3. Numbered(nodes', index)
  BY <1>2 DEF Numbered
<1>4. ASSUME NEW x \in Elements(nodes'), x # Null
      PROVE  x \in Elements(nodes) /\ x \notin S
  <2>1. PICK p \in DOMAIN nodes : nodes'[p] = x
    BY <1>2 DEF Elements
  <2>2. nodes[p] = x /\ ~ \E s \in S : index[s] = p - 1
    BY <1>2, <1>4, <2>1
  <2>3. index[x] = p - 1
    BY <1>4, <2>2 DEF Numbered
  <2> QED BY <2>2, <2>3 DEF Elements
<1>5. ASSUME NEW x \in Elements(nodes), x # Null, x \notin S
      PROVE  x \in Elements(nodes')
  <2>1. PICK p \in DOMAIN nodes : nodes[p] = x
    BY DEF Elements
  <2>2. ASSUME NEW s \in S, index[s] = p - 1
        PROVE  FALSE
    <3>1. PICK q \in DOMAIN nodes : nodes[q] = s
      BY DEF Elements
    <3>2. index[s] = q - 1
      BY <3>1 DEF Numbered
    <3>3. q = p
      BY <1>1, <2>2, <3>2
    <3> QED BY <1>5, <2>1, <3>1, <3>3
  <2>3. nodes'[p] = x
    BY <1>2, <2>1, <2>2
  <2> QED BY <1>2, <2>3 DEF Elements
<1> QED BY <1>2, <1>3, <1>4, <1>5

(* One end of the edges of a net: A are the operations that had it, t takes *)
(* over for those of them in S, and the operations in C get it too.         *)
LEMMA MovedEdges ==
  ASSUME NEW G, NEW S \in SUBSET G, NEW t \in G, t \notin S, NEW C \in SUBSET (G \ S), NEW A
  PROVE  ((G \cap A) \ (S \cap A)) \cup (IF S \cap A # {} THEN {t} ELSE {}) \cup C
           = (G \ S) \cap (A \cup (IF S \cap A # {} THEN {t} ELSE {}) \cup C)
  OBVIOUS

LEMMA BranchInv ==
  ASSUME IInv, NEW i \in Ops, NEW S \in SUBSET Ops, NEW conds \in SUBSET Signals,
         conds # {} => kind[i] = "if" /\ parent[i] = Null,
         _register_stements(i, S, conds), ifTrue_specified' \subseteq Ifs
  PROVE  IInv'
<1> DEFINE moved(n, io) == {s \in S : n \in io[s]}
<1>1. PICK t \in Ops :
        /\ IsTop(t, i)
        /\ endpoints' = [n \in Nets |->
             (endpoints[n] \ moved(n, ins)) \cup (IF moved(n, ins) # {} THEN {t} ELSE {})
                                            \cup (IF n \in conds THEN {i} ELSE {})]
        /\ drivers' = [n \in Nets |->
             (drivers[n] \ moved(n, outs)) \cup (IF moved(n, outs) # {} THEN {t} ELSE {})]
        /\ ins' = [o \in Ops |->
             ins[o] \cup (IF o = t THEN UNION {ins[s] : s \in S} ELSE {})
                    \cup (IF o = i THEN conds ELSE {})]
        /\ outs' = [outs EXCEPT ![t] = @ \cup UNION {outs[s] : s \in S}]
  BY DEF _register_stements, MoveIO
<1>2. /\ parent' = [s \in Ops |-> IF s \in S THEN i ELSE parent[s]]
      /\ unregister(S)
      /\ UNCHANGED <<nets, index, net_index, usage_cache, kind, key>>
      /\ \A s \in S : s \in Statements /\ parent[s] = Null /\ s # i
  BY DEF _register_stements
<1>3. t \in Statements /\ parent[t] = Null /\ t \notin S
  BY <1>1 DEF IsTop, _register_stements
<1>4. GraphType /\ Blank /\ Numbered(nodes, index) /\ Numbered(nets, net_index) /\ Registered
      /\ Connected /\ EdgesAgree /\ KeysUnique /\ CacheAgrees
  BY DEF IInv
<1>5. S \subseteq Graph /\ t \in Graph /\ (conds # {} => i \in Graph /\ i \notin S)
  BY <1>2, <1>3 DEF Graph, Statements
<1>6. Graph' = Graph \ S
  BY <1>2, NodesAssumption DEF Graph, Nodes
<1>7. Signals' = Signals /\ Signals \subseteq Nets
  BY <1>2, <1>4 DEF Signals, GraphType, Elements
<1>8. /\ nodes' \in Seq(Nodes \cup {Null})
      /\ Numbered(nodes, index)'
      /\ Elements(nodes') \ {Null} = (Elements(nodes) \ {Null}) \ S
  <2>1. S \in SUBSET (Elements(nodes) \ {Null})
    BY <1>4, <1>5 DEF Registered
  <2>2. nodes \in Seq(Nodes \cup {Null}) /\ index \in [Nodes -> Nat]
    BY <1>4 DEF GraphType
  <2> QED BY <1>2, <1>4, <2>1, <2>2, UnregisterFacts
<1>9. GraphType'
  <2>1. UNION {ins[s] : s \in S} \subseteq Nets /\ UNION {outs[s] : s \in S} \subseteq Nets
    BY <1>4 DEF GraphType
  <2>2. ins' \in [Ops -> SUBSET Nets]
    BY <1>1, <1>4, <1>7, <2>1 DEF GraphType
  <2>3. outs' \in [Ops -> SUBSET Nets]
    BY <1>1, <1>4, <2>1 DEF GraphType
  <2>4. drivers' \in [Nets -> SUBSET Ops] /\ endpoints' \in [Nets -> SUBSET Ops]
    <3> SUFFICES ASSUME NEW n \in Nets
                 PROVE  drivers'[n] \subseteq Ops /\ endpoints'[n] \subseteq Ops
      BY <1>1
    <3>1. drivers[n] \subseteq Ops /\ endpoints[n] \subseteq Ops
      BY <1>4 DEF GraphType
    <3> QED BY <1>1, <3>1
  <2>5. parent' \in [Ops -> Ops \cup {Null}]
    BY <1>2, <1>4 DEF GraphType
  <2> QED BY <1>2, <1>4, <1>8, <2>2, <2>3, <2>4, <2>5 DEF GraphType
<1>10. \A c \in Ops : kind[c] = "call" => c # t /\ c \notin S /\ outs'[c] = outs[c]
  BY <1>1, <1>2, <1>3, <1>4 DEF Statements, GraphType
<1>11. Blank'
  <2> SUFFICES ASSUME NEW x \in Ops
               PROVE  /\ kind'[x] = "free" => ins'[x] = {} /\ outs'[x] = {} /\ parent'[x] = Null
                      /\ kind'[x] = "call" => parent'[x] = Null
                      /\ key'[x] # NoKey <=> kind'[x] = "call"
                      /\ kind'[x] = "call" => \E r \in Nets : outs'[x] = {r}
    BY DEF Blank
  <2>1. kind[x] = "free" => x # t /\ x \notin S /\ (x = i => conds = {})
    BY <1>2, <1>3 DEF Statements
  <2>2. kind[x] = "free" => ins'[x] = ins[x] /\ outs'[x] = outs[x] /\ parent'[x] = parent[x]
    BY <1>1, <1>2, <1>4, <2>1 DEF GraphType
  <2>3. kind[x] = "call" => outs'[x] = outs[x] /\ parent'[x] = parent[x]
    BY <1>2, <1>10
  <2> QED BY <1>2, <1>4, <2>2, <2>3 DEF Blank
<1>12. Numbered(nets, net_index)'
  BY <1>2, <1>4 DEF Numbered
<1>13. Registered'
  <2>1. S \cap Signals = {}
    BY <1>7, NodesAssumption
  <2> QED BY <1>4, <1>6, <1>7, <1>8, <2>1 DEF Registered
<1>14. Connected'
  <2> SUFFICES ASSUME NEW o \in Ops PROVE ins'[o] \cup outs'[o] \subseteq Signals
    BY <1>7 DEF Connected
  <2>1. UNION {ins[s] : s \in S} \subseteq Signals /\ UNION {outs[s] : s \in S} \subseteq Signals
    BY <1>4 DEF Connected
  <2>2. ins[o] \subseteq Signals /\ outs[o] \subseteq Signals
    BY <1>4 DEF Connected
  <2>3. ins'[o] \subseteq Signals
    BY <1>1, <2>1, <2>2
  <2>4. outs'[o] \subseteq Signals
    BY <1>1, <1>4, <2>1, <2>2 DEF GraphType
  <2> QED BY <2>3, <2>4
<1>15. EdgesAgree'
  <2> SUFFICES ASSUME NEW n \in Nets
               PROVE  /\ endpoints'[n] = {o \in Graph' : n \in ins'[o]}
                      /\ drivers'[n] = {o \in Graph' : n \in outs'[o]}
    BY DEF EdgesAgree
  <2>1. endpoints[n] = {o \in Graph : n \in ins[o]} /\ drivers[n] = {o \in Graph : n \in outs[o]}
    BY <1>4 DEF EdgesAgree
  <2>2. endpoints'[n] = {o \in Graph \ S : n \in ins'[o]}
    <3> DEFINE A == {o \in Ops : n \in ins[o]}
               C == IF n \in conds THEN {i} ELSE {}
               T == IF S \cap A # {} THEN {t} ELSE {}
    <3>1. moved(n, ins) = S \cap A /\ endpoints[n] = Graph \cap A
      BY <1>5, <2>1 DEF Graph
    <3>2. endpoints'[n] = (endpoints[n] \ (S \cap A)) \cup T \cup C
      BY <1>1, <3>1
    <3>3. {o \in Ops : n \in ins'[o]} = A \cup T \cup C
      BY <1>1, <1>5
    <3>4. C \in SUBSET (Graph \ S)
      BY <1>5
    <3>5. {o \in Graph \ S : n \in ins'[o]} = (Graph \ S) \cap {o \in Ops : n \in ins'[o]}
      BY DEF Graph
    <3> HIDE DEF A, C
    <3> QED BY <1>3, <1>5, <3>1, <3>2, <3>3, <3>4, <3>5, MovedEdges
  <2>3. drivers'[n] = {o \in Graph \ S : n \in outs'[o]}
    <3> DEFINE A == {o \in Ops : n \in outs[o]}
               T == IF S \cap A # {} THEN {t} ELSE {}
    <3>1. moved(n, outs) = S \cap A /\ drivers[n] = Graph \cap A
      BY <1>5, <2>1 DEF Graph
    <3>2. drivers'[n] = (drivers[n] \ (S \cap A)) \cup T \cup {}
      BY <1>1, <3>1
    <3>3. {o \in Ops : n \in outs'[o]} = A \cup T \cup {}
      BY <1>1, <1>4, <1>5 DEF GraphType
    <3>4. {o \in Graph \ S : n \in outs'[o]} = (Graph \ S) \cap {o \in Ops : n \in outs'[o]}
      BY DEF Graph
    <3> HIDE DEF A
    <3> QED BY <1>3, <1>5, <3>1, <3>2, <3>3, <3>4, MovedEdges
  <2> QED BY <1>6, <2>2, <2>3
<1>16. KeysUnique'
  BY <1>2, <1>4 DEF KeysUnique
<1>17. CacheAgrees'
  <2>1. \A c \in Ops, k \in UsageCacheKey : key[c] = k => kind[c] = "call"
    BY <1>4, KeyIsSome DEF Blank
  <2>2. \A c \in Ops, k \in UsageCacheKey : key[c] = k => outs'[c] = outs[c]
    BY <1>10, <2>1
  <2> QED BY <1>2, <1>4, <2>2, CacheKept
<1>18. ifTrue_specified' \subseteq Ifs'
  BY <1>2 DEF Ifs
<1> QED
  BY <1>8, <1>9, <1>11, <1>12, <1>13, <1>14, <1>15, <1>16, <1>17, <1>18 DEF IInv

-----------------------------------------------------------------------------
LEMMA NextInv == IInv /\ [Next]_vars => IInv'
<1> SUFFICES ASSUME IInv, [Next]_vars PROVE IInv'
  OBVIOUS
<1>1. CASE sig
  BY <1>1, SigInv
<1>2. ASSUME NEW k \in UsageCacheKey, apply_call(k) PROVE IInv'
  BY <1>2, ApplyCallInv
<1>3. ASSUME NEW d \in Nets, NEW src \in Nets, assignment(d, src) PROVE IInv'
  BY <1>3, AssignmentInv
<1>4. ASSUME NEW cond \in Nets, If(cond) PROVE IInv'
  BY <1>4, IfInv
<1>5. ASSUME NEW i \in Ops, NEW S \in SUBSET Ops, if_true(i, S) PROVE IInv'
  <2>1. _register_stements(i, S, {}) /\ ifTrue_specified' \subseteq Ifs
    BY <1>5 DEF if_true, IInv
  <2> QED BY <2>1, BranchInv
<1>6. ASSUME NEW i \in Ops, NEW cond \in Nets, NEW S \in SUBSET Ops, Elif(i, cond, S) PROVE IInv'
  <2>1. /\ _register_stements(i, S, {cond}) /\ ifTrue_specified' \subseteq Ifs
        /\ {cond} \in SUBSET Signals /\ i \in Ifs /\ parent[i] = Null
    BY <1>6 DEF Elif, IInv
  <2>2. kind[i] = "if"
    BY <2>1 DEF Ifs
  <2> QED BY <2>1, <2>2, BranchInv
<1>7. ASSUME NEW i \in Ops, NEW S \in SUBSET Ops, Else(i, S) PROVE IInv'
  <2>1. _register_stements(i, S, {}) /\ ifTrue_specified' \subseteq Ifs
    BY <1>7 DEF Else, IInv
  <2> QED BY <2>1, BranchInv
<1>8. CASE UNCHANGED vars
  <2>1. UNCHANGED <<nodes, nets, index, net_index, drivers, endpoints, usage_cache, kind, key,
                    ins, outs, parent, ifTrue_specified>>
    BY <1>8 DEF vars, branches
  <2>2. GraphType' /\ Numbered(nodes, index)' /\ Numbered(nets, net_index)'
    BY <2>1 DEF IInv, GraphType, Numbered
  <2>3. Blank' /\ Connected'
    BY <2>1 DEF IInv, Blank, Connected, Signals
  <2>4. Registered' /\ (ifTrue_specified \subseteq Ifs)'
    BY <2>1 DEF IInv, Registered, Signals, Graph, Ifs
  <2>5. EdgesAgree'
    BY <2>1 DEF IInv, EdgesAgree, Graph
  <2>6. KeysUnique' /\ CacheAgrees'
    BY <2>1 DEF IInv, KeysUnique, CacheAgrees
  <2> QED BY <2>2, <2>3, <2>4, <2>5, <2>6 DEF IInv
<1> QED
  BY <1>1, <1>2, <1>3, <1>4, <1>5, <1>6, <1>7, <1>8 DEF Next

(* The inductive invariant: slots, edges and cache agree in every state    *)
(* that the building operations of netlist.h, net.cpp and the statements   *)
(* can reach.                                                              *)
THEOREM Invariant == Spec => []IInv
  BY InitInv, NextInv, PTL DEF Spec

(* Every node knows its slot in Netlist::nodes and every net the one in    *)
(* Netlist::nets, and no slot is lost but those of nested statements,      *)
(* which Netlist::unregister_node clears.                                  *)
THEOREM Slots == Spec => []SlotsAgree
<1>1. IInv => SlotsAgree
  <2> SUFFICES ASSUME IInv PROVE SlotsAgree
    OBVIOUS
  <2>1. GraphType /\ Numbered(nodes, index) /\ Numbered(nets, net_index) /\ Registered
        /\ Connected /\ EdgesAgree
    BY DEF IInv
  <2>2. \A p \in DOMAIN nets : net_index[nets[p]] = p - 1
    <3> SUFFICES ASSUME NEW p \in DOMAIN nets PROVE net_index[nets[p]] = p - 1
      OBVIOUS
    <3>1. nets[p] # Null
      BY <2>1, NodesAssumption DEF GraphType, Nodes
    <3> QED BY <2>1, <3>1 DEF Numbered
  <2>3. \A n \in Signals : drivers[n] \cup endpoints[n] \subseteq Elements(nodes)
    <3> SUFFICES ASSUME NEW n \in Signals PROVE drivers[n] \cup endpoints[n] \subseteq Elements(nodes)
      OBVIOUS
    <3>1. n \in Nets
      BY <2>1 DEF GraphType, Signals, Elements
    <3>2. drivers[n] \subseteq Graph /\ endpoints[n] \subseteq Graph
      BY <2>1, <3>1 DEF EdgesAgree
    <3> QED BY <2>1, <3>2 DEF Registered
  <2> QED BY <2>1, <2>2, <2>3 DEF SlotsAgree, Numbered, Registered, Connected
<1> QED BY <1>1, Invariant, PTL

(* Drivers and endpoints of a net are exactly the operations of the graph  *)
(* that have it as an output or input, through every construction and      *)
(* every move of edges by Statement::_set_parent_stm.                      *)
THEOREM Edges == Spec => []EdgesAgree
<1>1. IInv => EdgesAgree
  BY DEF IInv
<1> QED BY <1>1, Invariant, PTL

(* Net's apply_call never builds the same expression twice, and every      *)
(* argument's usage_cache names the result.                                *)
THEOREM Shared == Spec => []ExpressionsShared
<1>1. IInv => ExpressionsShared
  <2> SUFFICES ASSUME IInv PROVE ExpressionsShared
    OBVIOUS
  <2>1. usage_cache \in [Nets -> SUBSET (UsageCacheKey \X Nets)] /\ KeysUnique /\ CacheAgrees
    BY DEF IInv, GraphType
  <2>3. \A n \in Nets, k \in UsageCacheKey, r \in Nets :
          <<k, r>> \in usage_cache[n] <=> \E c \in Ops : key[c] = k /\ In(n, k[2]) /\ outs[c] = {r}
    BY <2>1 DEF CacheAgrees
  <2>2. ASSUME NEW n \in Nets
        PROVE  usage_cache[n] =
                 {use \in UsageCacheKey \X Nets :
                    \E c \in Ops : key[c] = use[1] /\ In(n, use[1][2]) /\ outs[c] = {use[2]}}
    <3>1. usage_cache[n] \subseteq UsageCacheKey \X Nets
      BY <2>1
    <3>2. ASSUME NEW use \in UsageCacheKey \X Nets
          PROVE  use \in usage_cache[n] <=>
                   \E c \in Ops : key[c] = use[1] /\ In(n, use[1][2]) /\ outs[c] = {use[2]}
      <4>1. PICK k \in UsageCacheKey, r \in Nets : use = <<k, r>>
        OBVIOUS
      <4>2. <<k, r>> \in usage_cache[n] <=>
              \E c \in Ops : key[c] = k /\ In(n, k[2]) /\ outs[c] = {r}
        BY <2>3
      <4>3. use[1] = k /\ use[2] = r
        BY <4>1
      <4> QED BY <4>1, <4>2, <4>3
    <3> QED BY <3>1, <3>2
  <2> QED BY <2>1, <2>2 DEF ExpressionsShared, KeysUnique
<1> QED BY <1>1, Invariant, PTL
-----------------------------------------------------------------------------
(***************************************************************************)
(* Nested statements.  Ancestors is a recursive function of the state: its *)
(* equation has one solution because parent is a forest - some height      *)
(* decreases towards the top - and the solution after a branch was added   *)
(* is that before, with the new ancestors of what was moved.               *)
(***************************************************************************)

Decreasing(par, h) == \A s \in Ops : par[s] # Null => h[par[s]] < h[s]

(* A solves the equation of Ancestors, with par for parent. *)
IsAncestry(par, A) ==
  A = [s \in Ops |-> IF par[s] = Null THEN {} ELSE {par[s]} \cup A[par[s]]]

Forest == \E h \in [Ops -> Nat] : Decreasing(parent, h)

Nested ==
  /\ Forest /\ IsAncestry(parent, Ancestors)
  /\ TopHoldsIO

(* A least counterexample exists, if any does. *)
LEMMA LeastHeight ==
  ASSUME NEW h \in [Ops -> Nat], NEW Bad \in SUBSET Ops, Bad # {}
  PROVE  \E s \in Bad : \A t \in Bad : h[s] <= h[t]
<1> DEFINE T == {h[s] : s \in Bad}
<1>1. T \in SUBSET Nat /\ T # {}
  OBVIOUS
<1>2. PICK x \in T : \A y \in T : x <= y
  <2> HIDE DEF T
  <2> QED BY <1>1, LeastNumber
<1> QED
  BY <1>2

(* A forest has one ancestry only. *)
LEMMA AncestryUnique ==
  ASSUME NEW par \in [Ops -> Ops \cup {Null}], NEW h \in [Ops -> Nat], Decreasing(par, h),
         NEW A, IsAncestry(par, A), NEW B, IsAncestry(par, B)
  PROVE  A = B
<1> DEFINE Bad == {s \in Ops : A[s] # B[s]}
<1>1. /\ A = [s \in Ops |-> IF par[s] = Null THEN {} ELSE {par[s]} \cup A[par[s]]]
      /\ B = [s \in Ops |-> IF par[s] = Null THEN {} ELSE {par[s]} \cup B[par[s]]]
  BY Zenon DEF IsAncestry
<1>2. Bad = {}
  <2> SUFFICES ASSUME Bad # {} PROVE FALSE
    OBVIOUS
  <2>1. PICK s \in Bad : \A t \in Bad : h[s] <= h[t]
    <3>1. Bad \in SUBSET Ops
      OBVIOUS
    <3> HIDE DEF Bad
    <3> QED BY <3>1, LeastHeight
  <2>2. par[s] # Null /\ A[s] = {par[s]} \cup A[par[s]] /\ B[s] = {par[s]} \cup B[par[s]]
    BY <1>1
  <2>3. par[s] \in Bad
    BY <2>2
  <2>4. h[par[s]] < h[s] /\ h[par[s]] \in Nat /\ h[s] \in Nat
    BY <2>2, <2>3 DEF Decreasing
  <2> QED BY <2>1, <2>3, <2>4
<1>3. \A s \in Ops : A[s] = B[s]
  BY <1>2
<1>4. A = [s \in Ops |-> A[s]] /\ B = [s \in Ops |-> B[s]]
  <2>1. (\E f : A = [s \in Ops |-> f[s]]) /\ (\E f : B = [s \in Ops |-> f[s]])
    <3> DEFINE f == [s \in Ops |-> IF par[s] = Null THEN {} ELSE {par[s]} \cup A[par[s]]]
               g == [s \in Ops |-> IF par[s] = Null THEN {} ELSE {par[s]} \cup B[par[s]]]
    <3>1. f = [s \in Ops |-> f[s]] /\ g = [s \in Ops |-> g[s]]
      OBVIOUS
    <3>2. A = f /\ B = g
      BY <1>1
    <3> HIDE DEF f, g
    <3> QED BY <3>1, <3>2
  <2> QED BY <2>1
<1> QED
  BY <1>3, <1>4

(* What the ancestors of a statement are, and that they are no more than   *)
(* its parent and the ancestors of this.                                   *)
LEMMA AncestryFacts ==
  ASSUME NEW par \in [Ops -> Ops \cup {Null}], NEW h \in [Ops -> Nat], Decreasing(par, h),
         NEW A, IsAncestry(par, A), Null \notin Ops
  PROVE  /\ \A s \in Ops : par[s] = Null => A[s] = {}
         /\ \A s \in Ops : par[s] # Null => par[s] \in Ops /\ A[s] = {par[s]} \cup A[par[s]]
         /\ \A s \in Ops : A[s] \subseteq Ops
         /\ \A s \in Ops : \A t \in A[s] : A[t] \subseteq A[s]
         /\ \A s \in Ops : \A t, u \in {s} \cup A[s] : par[t] = Null /\ par[u] = Null => t = u
<1>1. A = [s \in Ops |-> IF par[s] = Null THEN {} ELSE {par[s]} \cup A[par[s]]]
  BY Zenon DEF IsAncestry
<1>2. \A s \in Ops : par[s] = Null => A[s] = {}
  BY <1>1
<1>3. \A s \in Ops : par[s] # Null => par[s] \in Ops /\ A[s] = {par[s]} \cup A[par[s]]
  BY <1>1
<1> DEFINE Good(s) == /\ A[s] \subseteq Ops
                      /\ \A t \in A[s] : A[t] \subseteq A[s]
                      /\ \A t, u \in {s} \cup A[s] : par[t] = Null /\ par[u] = Null => t = u
           Bad == {s \in Ops : ~ Good(s)}
<1>4. Bad = {}
  <2> SUFFICES ASSUME Bad # {} PROVE FALSE
    OBVIOUS
  <2>1. PICK s \in Bad : \A t \in Bad : h[s] <= h[t]
    <3>1. Bad \in SUBSET Ops
      OBVIOUS
    <3> HIDE DEF Bad
    <3> QED BY <3>1, LeastHeight
  <2>2. s \in Ops /\ ~ Good(s)
    OBVIOUS
  <2>3. par[s] # Null
    BY <1>2, <2>2
  <2>4. par[s] \in Ops /\ A[s] = {par[s]} \cup A[par[s]]
    BY <1>3, <2>2, <2>3
  <2>5. h[par[s]] < h[s] /\ h[par[s]] \in Nat /\ h[s] \in Nat
    BY <2>2, <2>3, <2>4 DEF Decreasing
  <2>6. par[s] \notin Bad
    <3> HIDE DEF Bad
    <3> QED BY <2>1, <2>5
  <2>7. Good(par[s])
    BY <2>4, <2>6
  <2>8. A[s] \subseteq Ops
    BY <2>4, <2>7
  <2>9. \A t \in A[s] : A[t] \subseteq A[s]
    BY <2>4, <2>7
  <2>10. \A t, u \in {s} \cup A[s] : par[t] = Null /\ par[u] = Null => t = u
    BY <2>3, <2>4, <2>7
  <2> QED BY <2>2, <2>8, <2>9, <2>10
<1>5. \A s \in Ops : Good(s)
  BY <1>4
<1> QED
  BY <1>2, <1>3, <1>5

(* What moving the statements S into i, which is in none of them, does to  *)
(* the ancestors.                                                          *)
LEMMA BranchAncestors ==
  ASSUME IInv, Nested, NEW i \in Ops, NEW S \in SUBSET Ops, NEW conds,
         _register_stements(i, S, conds),
         NEW Moved \in SUBSET Ops,
         \A c \in Ops : c \in Moved <=> c \in S \/ Ancestors[c] \cap S # {}
  PROVE  /\ Forest'
         /\ IsAncestry(parent, Ancestors)'
         /\ \A c \in Ops : Ancestors'[c] = IF c \in Moved THEN Ancestors[c] \cup {i} \cup Ancestors[i]
                                           ELSE Ancestors[c]
<1>a. parent \in [Ops -> Ops \cup {Null}] /\ Null \notin Ops
  BY NodesAssumption DEF IInv, GraphType, Nodes
<1>b. PICK h \in [Ops -> Nat] : Decreasing(parent, h)
  BY DEF Nested, Forest
<1>c. IsAncestry(parent, Ancestors)
  BY DEF Nested
<1>d. /\ \A s \in S : parent[s] = Null /\ s \notin {i} \cup Ancestors[i]
      /\ parent' = [s \in Ops |-> IF s \in S THEN i ELSE parent[s]]
  BY DEF _register_stements
<1>e. PICK B : B = [c \in Ops |-> IF c \in Moved THEN Ancestors[c] \cup {i} \cup Ancestors[i]
                                 ELSE Ancestors[c]]
  OBVIOUS
<1>1. /\ \A s \in Ops : parent[s] = Null => Ancestors[s] = {}
      /\ \A s \in Ops : parent[s] # Null =>
           parent[s] \in Ops /\ Ancestors[s] = {parent[s]} \cup Ancestors[parent[s]]
  BY <1>a, <1>b, <1>c, AncestryFacts
<1>2. i \notin Moved /\ B[i] = Ancestors[i]
  BY <1>a, <1>d, <1>e
<1>3. \A s \in Ops : parent[s] # Null => (s \in Moved <=> parent[s] \in Moved)
  BY <1>1, <1>d
<1>4. ASSUME NEW s \in Ops
      PROVE  B[s] = IF parent'[s] = Null THEN {} ELSE {parent'[s]} \cup B[parent'[s]]
  <2>1. CASE s \in S
    <3>1. parent'[s] = i /\ s \in Moved /\ Ancestors[s] = {} /\ i # Null
      BY <1>1, <1>a, <1>d, <2>1
    <3> QED BY <1>2, <1>e, <3>1
  <2>2. CASE s \notin S /\ parent[s] = Null
    <3>1. parent'[s] = Null /\ Ancestors[s] = {} /\ s \notin Moved
      BY <1>1, <1>d, <2>2
    <3> QED BY <1>e, <3>1
  <2>3. CASE s \notin S /\ parent[s] # Null
    <3>1. parent'[s] = parent[s] /\ parent[s] \in Ops /\ Ancestors[s] = {parent[s]} \cup Ancestors[parent[s]]
      BY <1>1, <1>d, <2>3
    <3> QED BY <1>3, <1>e, <2>3, <3>1
  <2> QED BY <2>1, <2>2, <2>3
<1>5. IsAncestry(parent', B)
  <2>1. B = [s \in Ops |-> B[s]]
    BY <1>e
  <2>2. B = [s \in Ops |-> IF parent'[s] = Null THEN {} ELSE {parent'[s]} \cup B[parent'[s]]]
    BY <1>4, <2>1
  <2> QED BY <2>2, Zenon DEF IsAncestry
<1> DEFINE g == [s \in Ops |-> IF s \in Moved THEN h[s] + h[i] + 1 ELSE h[s]]
<1>6. g \in [Ops -> Nat]
  OBVIOUS
<1>7. ASSUME NEW s \in Ops, parent'[s] # Null
      PROVE  g[parent'[s]] < g[s]
  <2>1. CASE s \in S
    <3>1. parent'[s] = i /\ g[i] = h[i] /\ g[s] = h[s] + h[i] + 1 /\ h[s] \in Nat /\ h[i] \in Nat
      BY <1>2, <1>d, <2>1
    <3> HIDE DEF g
    <3> QED BY <3>1
  <2>2. CASE s \notin S
    <3>1. parent'[s] = parent[s] /\ parent[s] # Null /\ parent[s] \in Ops
      BY <1>1, <1>7, <1>d, <2>2
    <3>2. h[parent[s]] < h[s] /\ h[parent[s]] \in Nat /\ h[s] \in Nat /\ h[i] \in Nat
      BY <1>b, <3>1 DEF Decreasing
    <3>3. CASE s \in Moved
      <4>1. g[s] = h[s] + h[i] + 1 /\ g[parent[s]] = h[parent[s]] + h[i] + 1
        BY <1>3, <3>1, <3>3
      <4> HIDE DEF g
      <4> QED BY <3>1, <3>2, <4>1
    <3>4. CASE s \notin Moved
      <4>1. g[s] = h[s] /\ g[parent[s]] = h[parent[s]]
        BY <1>3, <3>1, <3>4
      <4> HIDE DEF g
      <4> QED BY <3>1, <3>2, <4>1
    <3> QED BY <3>3, <3>4
  <2> QED BY <2>1, <2>2
<1>8. Decreasing(parent', g)
  BY <1>7 DEF Decreasing
<1>9. parent' \in [Ops -> Ops \cup {Null}]
  BY <1>a, <1>d
<1>10. IsAncestry(parent', Ancestors')
  <2>1. B = [s \in Ops |-> IF parent'[s] = Null THEN {} ELSE {parent'[s]} \cup B[parent'[s]]]
    BY <1>5, Zenon DEF IsAncestry
  <2>2. Ancestors' = CHOOSE f : f = [s \in Ops |-> IF parent'[s] = Null THEN {}
                                                   ELSE {parent'[s]} \cup f[parent'[s]]]
    BY DEF Ancestors
  <2> QED BY <2>1, <2>2, Zenon DEF IsAncestry
<1>11. Ancestors' = B
  <2> HIDE DEF g
  <2> QED BY <1>5, <1>6, <1>8, <1>9, <1>10, AncestryUnique
<1>12. Forest'
  BY <1>6, <1>8 DEF Forest, Decreasing
<1> QED
  BY <1>e, <1>10, <1>11, <1>12 DEF IsAncestry

(* Facts about the ancestors in a state of the invariant. *)
LEMMA NestedFacts ==
  ASSUME IInv, Nested
  PROVE  /\ \A s \in Ops : parent[s] = Null => Ancestors[s] = {}
         /\ \A s \in Ops : parent[s] # Null =>
              parent[s] \in Ops /\ Ancestors[s] = {parent[s]} \cup Ancestors[parent[s]]
         /\ \A s \in Ops : Ancestors[s] \subseteq Ops
         /\ \A s \in Ops : \A t \in Ancestors[s] : Ancestors[t] \subseteq Ancestors[s]
         /\ \A s \in Ops : \A t, u \in {s} \cup Ancestors[s] :
              parent[t] = Null /\ parent[u] = Null => t = u
<1>1. parent \in [Ops -> Ops \cup {Null}] /\ Null \notin Ops
  BY NodesAssumption DEF IInv, GraphType, Nodes
<1>2. PICK h \in [Ops -> Nat] : Decreasing(parent, h)
  BY DEF Nested, Forest
<1>3. IsAncestry(parent, Ancestors)
  BY DEF Nested
<1> QED
  BY <1>1, <1>2, <1>3, AncestryFacts

(* No statement is inside of itself. *)
LEMMA NotOwnAncestor ==
  ASSUME IInv, Nested
  PROVE  \A s \in Ops : s \notin Ancestors[s]
<1>1. parent \in [Ops -> Ops \cup {Null}] /\ Null \notin Ops
  BY NodesAssumption DEF IInv, GraphType, Nodes
<1>2. PICK h \in [Ops -> Nat] : Decreasing(parent, h)
  BY DEF Nested, Forest
<1>3. /\ \A s \in Ops : parent[s] = Null => Ancestors[s] = {}
      /\ \A s \in Ops : parent[s] # Null =>
           parent[s] \in Ops /\ Ancestors[s] = {parent[s]} \cup Ancestors[parent[s]]
      /\ \A s \in Ops : Ancestors[s] \subseteq Ops
  BY NestedFacts
<1> DEFINE Bad == {s \in Ops : ~ \A t \in Ancestors[s] : h[t] < h[s]}
<1>4. Bad = {}
  <2> SUFFICES ASSUME Bad # {} PROVE FALSE
    OBVIOUS
  <2>1. PICK s \in Bad : \A t \in Bad : h[s] <= h[t]
    <3>1. Bad \in SUBSET Ops
      OBVIOUS
    <3> HIDE DEF Bad
    <3> QED BY <3>1, LeastHeight
  <2>2. s \in Ops /\ ~ \A t \in Ancestors[s] : h[t] < h[s]
    OBVIOUS
  <2>3. parent[s] # Null
    BY <1>3, <2>2
  <2>4. parent[s] \in Ops /\ Ancestors[s] = {parent[s]} \cup Ancestors[parent[s]]
    BY <1>3, <2>2, <2>3
  <2>5. h[parent[s]] < h[s] /\ h[parent[s]] \in Nat /\ h[s] \in Nat
    BY <1>2, <2>2, <2>3, <2>4 DEF Decreasing
  <2>6. parent[s] \notin Bad
    <3> HIDE DEF Bad
    <3> QED BY <2>1, <2>5
  <2>7. \A t \in Ancestors[parent[s]] : h[t] < h[parent[s]] /\ h[t] \in Nat
    BY <1>3, <2>4, <2>6
  <2>8. \A t \in Ancestors[s] : h[t] < h[s]
    <3> HIDE DEF Bad
    <3> QED BY <2>4, <2>5, <2>7
  <2> QED BY <2>2, <2>8
<1>5. ASSUME NEW s \in Ops, s \in Ancestors[s] PROVE FALSE
  <2>1. h[s] < h[s] /\ h[s] \in Nat
    BY <1>4, <1>5
  <2> QED BY <2>1
<1> QED
  BY <1>5

(* A new operation is inside of nothing, and had no inputs and outputs.    *)
LEMMA NewOpNested ==
  ASSUME IInv, Nested, UNCHANGED parent,
         NEW new \in Ops, kind[new] = "free",
         \A o \in Ops : o # new => ins'[o] = ins[o] /\ outs'[o] = outs[o]
  PROVE  Nested'
<1>1. Ancestors' = Ancestors
  BY DEF Ancestors
<1>2. Forest' /\ IsAncestry(parent, Ancestors)'
  BY <1>1 DEF Nested, Forest, IsAncestry, Decreasing
<1>3. parent[new] = Null /\ ins[new] = {} /\ outs[new] = {}
  BY DEF IInv, Blank
<1>4. TopHoldsIO'
  <2> SUFFICES ASSUME NEW s \in Ops, NEW t \in Ops, t \in Ancestors[s], parent[t] = Null
               PROVE  ins'[s] \subseteq ins'[t] /\ outs'[s] \subseteq outs'[t]
    BY <1>1 DEF TopHoldsIO
  <2>1. s # new
    BY <1>3, NestedFacts
  <2>2. ins'[s] = ins[s] /\ outs'[s] = outs[s]
    BY <2>1
  <2>3. ins[s] \subseteq ins[t] /\ outs[s] \subseteq outs[t]
    BY DEF Nested, TopHoldsIO
  <2>4. ins[t] \subseteq ins'[t] /\ outs[t] \subseteq outs'[t]
    BY <1>3
  <2> QED BY <2>2, <2>3, <2>4
<1> QED
  BY <1>2, <1>4 DEF Nested

(* A branch: what was moved into i is now inside of its top t, which got   *)
(* the inputs and outputs of all that was moved.                           *)
LEMMA BranchNested ==
  ASSUME IInv, Nested, NEW i \in Ops, NEW S \in SUBSET Ops, NEW conds,
         conds # {} => parent[i] = Null,
         _register_stements(i, S, conds)
  PROVE  Nested'
<1>1. PICK Moved \in SUBSET Ops :
        \A c \in Ops : c \in Moved <=> c \in S \/ Ancestors[c] \cap S # {}
  <2> DEFINE M == {c \in Ops : c \in S \/ Ancestors[c] \cap S # {}}
  <2>1. M \in SUBSET Ops /\ \A c \in Ops : c \in M <=> c \in S \/ Ancestors[c] \cap S # {}
    OBVIOUS
  <2> HIDE DEF M
  <2> QED BY <2>1
<1>2. /\ Forest'
      /\ IsAncestry(parent, Ancestors)'
      /\ \A c \in Ops : Ancestors'[c] = IF c \in Moved THEN Ancestors[c] \cup {i} \cup Ancestors[i]
                                        ELSE Ancestors[c]
  BY <1>1, BranchAncestors
<1>3. PICK top \in Ops :
        /\ IsTop(top, i)
        /\ ins' = [o \in Ops |->
             ins[o] \cup (IF o = top THEN UNION {ins[s] : s \in S} ELSE {})
                    \cup (IF o = i THEN conds ELSE {})]
        /\ outs' = [outs EXCEPT ![top] = @ \cup UNION {outs[s] : s \in S}]
  BY DEF _register_stements, MoveIO
<1>4. /\ parent' = [s \in Ops |-> IF s \in S THEN i ELSE parent[s]]
      /\ \A s \in S : parent[s] = Null /\ s \notin {i} \cup Ancestors[i]
  BY DEF _register_stements
<1>5. parent[top] = Null /\ top \in {i} \cup Ancestors[i] /\ top \notin S
  BY <1>3, <1>4 DEF IsTop
<1>6. /\ \A s \in Ops : parent[s] = Null => Ancestors[s] = {}
      /\ \A s \in Ops : \A t, u \in {s} \cup Ancestors[s] :
           parent[t] = Null /\ parent[u] = Null => t = u
      /\ \A s \in Ops : Ancestors[s] \subseteq Ops
  BY NestedFacts
<1>7. outs \in [Ops -> SUBSET Nets] /\ Null \notin Ops
  BY NodesAssumption DEF IInv, GraphType, Nodes
<1>8. \A o \in Ops : ins[o] \subseteq ins'[o] /\ outs[o] \subseteq outs'[o]
  BY <1>3, <1>7
<1>9. \A c \in S : ins[c] \subseteq ins'[top] /\ outs[c] \subseteq outs'[top]
  BY <1>3, <1>7
<1>10. ASSUME NEW s \in Ops, NEW t \in Ops, t \in Ancestors'[s], parent'[t] = Null
       PROVE  ins'[s] \subseteq ins'[t] /\ outs'[s] \subseteq outs'[t]
  <2>1. parent[t] = Null /\ t \notin S
    BY <1>4, <1>7, <1>10
  <2>2. CASE s \notin Moved
    <3>1. t \in Ancestors[s]
      BY <1>2, <1>10, <2>2
    <3>2. parent[s] # Null /\ s # top
      BY <1>5, <1>6, <3>1
    <3>3. s = i => conds = {}
      BY <3>2
    <3>4. ins'[s] = ins[s] /\ outs'[s] = outs[s]
      BY <1>3, <1>7, <3>2, <3>3
    <3>5. ins[s] \subseteq ins[t] /\ outs[s] \subseteq outs[t]
      BY <2>1, <3>1 DEF Nested, TopHoldsIO
    <3> QED BY <1>8, <3>4, <3>5
  <2>3. CASE s \in Moved
    <3>1. s # top /\ s # i
      BY <1>1, <1>4, <1>5, <1>6, <2>3
    <3>2. ins'[s] = ins[s] /\ outs'[s] = outs[s]
      BY <1>3, <1>7, <3>1
    <3>3. t \in Ancestors[s] \/ t \in {i} \cup Ancestors[i]
      BY <1>2, <1>10, <2>3
    <3>4. t \notin Ancestors[s]
      <4> SUFFICES ASSUME t \in Ancestors[s] PROVE FALSE
        OBVIOUS
      <4>1. s \notin S
        BY <1>4, <1>6
      <4>2. PICK c \in S : c \in Ancestors[s]
        BY <1>1, <2>3, <4>1
      <4>3. parent[c] = Null
        BY <1>4
      <4> QED BY <1>6, <2>1, <4>2, <4>3
    <3>5. t = top
      BY <1>5, <1>6, <2>1, <3>3, <3>4
    <3>6. CASE s \in S
      BY <1>9, <3>2, <3>5, <3>6
    <3>7. CASE s \notin S
      <4>1. PICK c \in S : c \in Ancestors[s]
        BY <1>1, <2>3, <3>7
      <4>2. ins[s] \subseteq ins[c] /\ outs[s] \subseteq outs[c]
        BY <1>4, <4>1 DEF Nested, TopHoldsIO
      <4> QED BY <1>9, <3>2, <3>5, <4>2
    <3> QED BY <3>6, <3>7
  <2> QED BY <2>2, <2>3
<1>11. TopHoldsIO'
  BY <1>10 DEF TopHoldsIO
<1> QED
  BY <1>2, <1>11 DEF Nested

(* No statement is inside of another one at first. *)
LEMMA InitNested ==
  ASSUME Init
  PROVE  Nested
<1>1. parent = [o \in Ops |-> Null]
  BY DEF Init
<1>2. Forest
  <2>1. [o \in Ops |-> 0] \in [Ops -> Nat]
    OBVIOUS
  <2>2. Decreasing(parent, [o \in Ops |-> 0])
    BY <1>1 DEF Decreasing
  <2> QED BY <2>1, <2>2 DEF Forest
<1>3. IsAncestry(parent, Ancestors)
  <2> DEFINE A == [o \in Ops |-> {}]
  <2>1. A = [s \in Ops |-> IF parent[s] = Null THEN {} ELSE {parent[s]} \cup A[parent[s]]]
    BY <1>1
  <2>2. Ancestors = CHOOSE f : f = [s \in Ops |-> IF parent[s] = Null THEN {}
                                                  ELSE {parent[s]} \cup f[parent[s]]]
    BY DEF Ancestors
  <2> HIDE DEF A
  <2> QED BY <2>1, <2>2, Zenon DEF IsAncestry
<1>4. \A s \in Ops : Ancestors[s] = {}
  <2>1. Ancestors = [s \in Ops |-> IF parent[s] = Null THEN {} ELSE {parent[s]} \cup Ancestors[parent[s]]]
    BY <1>3, Zenon DEF IsAncestry
  <2> QED BY <1>1, <2>1
<1> QED
  BY <1>2, <1>3, <1>4 DEF Nested, TopHoldsIO

(* Parents, inputs and outputs change by a new operation or by a branch.   *)
LEMMA NextNested ==
  ASSUME IInv, Nested, [Next]_vars
  PROVE  Nested'
<1>1. ASSUME UNCHANGED <<parent, ins, outs>> PROVE Nested'
  <2>1. Ancestors' = Ancestors
    BY <1>1 DEF Ancestors
  <2> QED BY <1>1, <2>1 DEF Nested, Forest, IsAncestry, Decreasing, TopHoldsIO
<1>2. CASE sig
  BY <1>1, <1>2 DEF sig
<1>3. ASSUME NEW k \in UsageCacheKey, apply_call(k) PROVE Nested'
  <2>1. NewOp \in Ops /\ kind[NewOp] = "free"
    BY <1>3, Fresh DEF apply_call
  <2>2. \A o \in Ops : o # NewOp => ins'[o] = ins[o] /\ outs'[o] = outs[o]
    BY <1>3 DEF apply_call, IInv, GraphType
  <2>3. UNCHANGED parent
    BY <1>3 DEF apply_call
  <2> QED BY <2>1, <2>2, <2>3, NewOpNested
<1>4. ASSUME NEW d \in Nets, NEW src \in Nets, assignment(d, src) PROVE Nested'
  <2>1. NewOp \in Ops /\ kind[NewOp] = "free"
    BY <1>4, Fresh DEF assignment
  <2>2. \A o \in Ops : o # NewOp => ins'[o] = ins[o] /\ outs'[o] = outs[o]
    BY <1>4 DEF assignment, Assign, IInv, GraphType
  <2>3. UNCHANGED parent
    BY <1>4 DEF assignment
  <2> QED BY <2>1, <2>2, <2>3, NewOpNested
<1>5. ASSUME NEW cond \in Nets, If(cond) PROVE Nested'
  <2>1. NewOp \in Ops /\ kind[NewOp] = "free"
    BY <1>5, Fresh DEF If
  <2>2. \A o \in Ops : o # NewOp => ins'[o] = ins[o] /\ outs'[o] = outs[o]
    BY <1>5 DEF If, IInv, GraphType
  <2>3. UNCHANGED parent
    BY <1>5 DEF If
  <2> QED BY <2>1, <2>2, <2>3, NewOpNested
<1>6. ASSUME NEW i \in Ops, NEW S \in SUBSET Ops, if_true(i, S) PROVE Nested'
  BY <1>6, BranchNested DEF if_true
<1>7. ASSUME NEW i \in Ops, NEW cond \in Nets, NEW S \in SUBSET Ops, Elif(i, cond, S) PROVE Nested'
  BY <1>7, BranchNested DEF Elif
<1>8. ASSUME NEW i \in Ops, NEW S \in SUBSET Ops, Else(i, S) PROVE Nested'
  BY <1>8, BranchNested DEF Else
<1>9. CASE UNCHANGED vars
  BY <1>1, <1>9 DEF vars
<1> QED
  BY <1>2, <1>3, <1>4, <1>5, <1>6, <1>7, <1>8, <1>9 DEF Next

(* Statements always form a forest: the loop of _set_parent_stm that goes   *)
(* from a statement to the outermost one ends, and ends at one statement.  *)
THEOREM Nesting == Spec => []Nested
<1>1. Init => Nested
  BY InitNested
<1>2. IInv /\ Nested /\ [Next]_vars => Nested'
  BY NextNested
<1> QED
  BY <1>1, <1>2, Invariant, PTL DEF Spec

(* Whatever statements are put into each other, the outermost one has the  *)
(* inputs and outputs of all inside of it: MoveIO passes them on to the    *)
(* top, and nobody but a top gets any later.                               *)
THEOREM Tops == Spec => []TopHoldsIO
<1>1. Nested => TopHoldsIO
  BY DEF Nested
<1> QED
  BY <1>1, Nesting, PTL
-----------------------------------------------------------------------------
(***************************************************************************)
(* Sums over finite sets: SumFunctionOnSet takes one element after the     *)
(* other, chosen from what is left; the sum does not depend on which.      *)
(***************************************************************************)

First(s) == CHOOSE x \in s : TRUE

(* g sums f over all subsets of S. *)
Sums(f, S, g) ==
  g = [s \in SUBSET S |-> IF s = {} THEN 0 ELSE f[First(s)] + g[s \ {First(s)}]]

SumsUpTo(f, S, n, g) ==
  g = [s \in {t \in SUBSET S : Cardinality(t) <= n} |->
         IF s = {} THEN 0 ELSE f[First(s)] + g[s \ {First(s)}]]

(* Parts of a finite set, and one element less. *)
LEMMA PartFacts ==
  ASSUME NEW S, IsFiniteSet(S), NEW s \in SUBSET S
  PROVE  /\ IsFiniteSet(s) /\ Cardinality(s) \in Nat /\ Cardinality(s) <= Cardinality(S)
         /\ s # {} => First(s) \in s
         /\ \A x \in s : /\ s \ {x} \in SUBSET S
                         /\ Cardinality(s \ {x}) \in Nat
                         /\ Cardinality(s \ {x}) = Cardinality(s) - 1
<1>1. IsFiniteSet(s) /\ Cardinality(s) <= Cardinality(S)
  BY FS_Subset
<1>2. Cardinality(s) \in Nat
  BY <1>1, FS_CardinalityType
<1>3. s # {} => First(s) \in s
  BY DEF First
<1>4. ASSUME NEW x \in s
      PROVE  Cardinality(s \ {x}) \in Nat /\ Cardinality(s \ {x}) = Cardinality(s) - 1
  <2>1. IsFiniteSet(s \ {x}) /\ Cardinality(s \ {x}) = Cardinality(s) - 1
    BY <1>1, FS_RemoveElement
  <2> QED BY <2>1, FS_CardinalityType
<1> QED
  BY <1>1, <1>2, <1>3, <1>4

(* A part of S with the least number of elements that is in Bad. *)
LEMMA LeastPart ==
  ASSUME NEW S, IsFiniteSet(S), NEW Bad \in SUBSET SUBSET S, Bad # {}
  PROVE  \E s \in Bad : \A t \in Bad : Cardinality(s) <= Cardinality(t)
<1> DEFINE T == {Cardinality(s) : s \in Bad}
<1>1. \A s \in Bad : Cardinality(s) \in Nat
  BY PartFacts
<1>2. T \in SUBSET Nat /\ T # {}
  BY <1>1
<1>3. PICK x \in T : \A y \in T : x <= y
  <2> HIDE DEF T
  <2> QED BY <1>2, LeastNumber
<1> QED
  BY <1>3

(* There are sums over the parts of n elements. *)
LEMMA SumsUpToExist ==
  ASSUME NEW S, IsFiniteSet(S), NEW f
  PROVE  \A n \in Nat : \E g : SumsUpTo(f, S, n, g)
<1> DEFINE Bad == {n \in Nat : ~ \E g : SumsUpTo(f, S, n, g)}
<1> SUFFICES ASSUME Bad # {} PROVE FALSE
  OBVIOUS
<1>1. PICK n \in Bad : \A m \in Bad : n <= m
  <2>1. Bad \in SUBSET Nat
    OBVIOUS
  <2> HIDE DEF Bad
  <2> QED BY <2>1, LeastNumber
<1>2. n \in Nat /\ ~ \E g : SumsUpTo(f, S, n, g)
  OBVIOUS
<1> DEFINE Parts(m) == {t \in SUBSET S : Cardinality(t) <= m}
<1>3. \A m \in Nat : \A s \in Parts(m) : s # {} =>
        First(s) \in s /\ s \ {First(s)} \in Parts(m) /\ s \ {First(s)} \in Parts(m - 1)
  <2> SUFFICES ASSUME NEW m \in Nat, NEW s \in Parts(m), s # {}
               PROVE  /\ First(s) \in s
                      /\ s \ {First(s)} \in Parts(m) /\ s \ {First(s)} \in Parts(m - 1)
    OBVIOUS
  <2>1. s \in SUBSET S /\ Cardinality(s) <= m
    OBVIOUS
  <2>2. First(s) \in s /\ Cardinality(s) \in Nat
    BY <2>1, PartFacts
  <2>3. /\ s \ {First(s)} \in SUBSET S
        /\ Cardinality(s \ {First(s)}) \in Nat
        /\ Cardinality(s \ {First(s)}) = Cardinality(s) - 1
    BY <2>1, <2>2, PartFacts
  <2> QED BY <2>1, <2>2, <2>3
<1>4. CASE n = 0
  <2> DEFINE g == [s \in Parts(n) |-> 0]
  <2>1. \A s \in Parts(n) : s = {}
    <3> SUFFICES ASSUME NEW s \in Parts(n), s # {} PROVE FALSE
      OBVIOUS
    <3>1. s \in SUBSET S /\ Cardinality(s) <= 0
      BY <1>4
    <3>2. Cardinality(s) \in Nat /\ First(s) \in s
      BY <3>1, PartFacts
    <3>3. Cardinality(s \ {First(s)}) \in Nat /\ Cardinality(s \ {First(s)}) = Cardinality(s) - 1
      BY <3>1, <3>2, PartFacts
    <3> QED BY <3>1, <3>2, <3>3
  <2>2. g = [s \in Parts(n) |-> IF s = {} THEN 0 ELSE f[First(s)] + g[s \ {First(s)}]]
    <3> HIDE DEF Parts
    <3> QED BY <2>1
  <2>3. SumsUpTo(f, S, n, g)
    <3> HIDE DEF g
    <3> QED BY <2>2, Zenon DEF SumsUpTo
  <2> QED BY <1>2, <2>3
<1>5. CASE n # 0
  <2>1. n - 1 \in Nat /\ n - 1 \notin Bad
    <3>1. n - 1 \in Nat
      BY <1>2, <1>5
    <3> HIDE DEF Bad
    <3> QED BY <1>1, <1>2, <3>1
  <2>2. PICK h : SumsUpTo(f, S, n - 1, h)
    BY <2>1
  <2>3. h = [s \in Parts(n - 1) |-> IF s = {} THEN 0 ELSE f[First(s)] + h[s \ {First(s)}]]
    BY <2>2, Zenon DEF SumsUpTo
  <2> DEFINE g == [s \in Parts(n) |-> IF s = {} THEN 0 ELSE f[First(s)] + h[s \ {First(s)}]]
  <2>4. \A s \in Parts(n) : s # {} => g[s \ {First(s)}] = h[s \ {First(s)}]
    <3> SUFFICES ASSUME NEW s \in Parts(n), s # {}, NEW t, t = s \ {First(s)} PROVE g[t] = h[t]
      OBVIOUS
    <3>1. t \in Parts(n) /\ t \in Parts(n - 1)
      <4> HIDE DEF Parts
      <4> QED BY <1>2, <1>3
    <3> HIDE DEF Parts
    <3> QED BY <2>3, <3>1
  <2>5. g = [s \in Parts(n) |-> IF s = {} THEN 0 ELSE f[First(s)] + g[s \ {First(s)}]]
    <3> HIDE DEF Parts
    <3> QED BY <2>4
  <2>6. SumsUpTo(f, S, n, g)
    <3> HIDE DEF g
    <3> QED BY <2>5, Zenon DEF SumsUpTo
  <2> QED BY <1>2, <2>6
<1> QED
  BY <1>4, <1>5

(* And over all parts of a finite set. *)
LEMMA SumsExist ==
  ASSUME NEW S, IsFiniteSet(S), NEW f
  PROVE  \E g : Sums(f, S, g)
<1>1. Cardinality(S) \in Nat
  BY FS_CardinalityType
<1>2. PICK g : SumsUpTo(f, S, Cardinality(S), g)
  BY <1>1, SumsUpToExist
<1>3. {t \in SUBSET S : Cardinality(t) <= Cardinality(S)} = SUBSET S
  <2>1. \A t \in SUBSET S : Cardinality(t) <= Cardinality(S)
    BY PartFacts
  <2> QED BY <2>1
<1>4. g = [s \in {t \in SUBSET S : Cardinality(t) <= Cardinality(S)} |->
             IF s = {} THEN 0 ELSE f[First(s)] + g[s \ {First(s)}]]
  BY <1>2, Zenon DEF SumsUpTo
<1>5. g = [s \in SUBSET S |-> IF s = {} THEN 0 ELSE f[First(s)] + g[s \ {First(s)}]]
  BY <1>3, <1>4, Zenon
<1> QED
  BY <1>5, Zenon DEF Sums

(* Two sums that know a part give it the same. *)
LEMMA SumsAgree ==
  ASSUME NEW S, IsFiniteSet(S), NEW f, NEW g, Sums(f, S, g),
         NEW R \in SUBSET S, NEW h, Sums(f, R, h)
  PROVE  \A s \in SUBSET R : g[s] = h[s]
<1> DEFINE Bad == {s \in SUBSET R : g[s] # h[s]}
<1> SUFFICES ASSUME Bad # {} PROVE FALSE
  OBVIOUS
<1>1. PICK s \in Bad : \A t \in Bad : Cardinality(s) <= Cardinality(t)
  <2>1. Bad \in SUBSET SUBSET S
    OBVIOUS
  <2> HIDE DEF Bad
  <2> QED BY <2>1, LeastPart
<1>2. s \in SUBSET R /\ s \in SUBSET S /\ g[s] # h[s]
  OBVIOUS
<1>3. /\ g = [t \in SUBSET S |-> IF t = {} THEN 0 ELSE f[First(t)] + g[t \ {First(t)}]]
      /\ h = [t \in SUBSET R |-> IF t = {} THEN 0 ELSE f[First(t)] + h[t \ {First(t)}]]
  BY Zenon DEF Sums
<1>4. /\ g[s] = IF s = {} THEN 0 ELSE f[First(s)] + g[s \ {First(s)}]
      /\ h[s] = IF s = {} THEN 0 ELSE f[First(s)] + h[s \ {First(s)}]
  BY <1>2, <1>3
<1>5. s # {} /\ g[s \ {First(s)}] # h[s \ {First(s)}]
  BY <1>2, <1>4
<1>6. /\ First(s) \in s /\ Cardinality(s) \in Nat
      /\ Cardinality(s \ {First(s)}) \in Nat
      /\ Cardinality(s \ {First(s)}) = Cardinality(s) - 1
  BY <1>2, <1>5, PartFacts
<1>7. s \ {First(s)} \in Bad
  BY <1>2, <1>5
<1> HIDE DEF Bad
<1> QED
  BY <1>1, <1>6, <1>7

(* The sum of nothing, and that of something. *)
LEMMA SumStep ==
  ASSUME NEW S, IsFiniteSet(S), NEW f
  PROVE  /\ S = {} => SumFunctionOnSet(f, S) = 0
         /\ S # {} => \E x \in S : SumFunctionOnSet(f, S) = f[x] + SumFunctionOnSet(f, S \ {x})
<1> DEFINE G(T) == CHOOSE g : Sums(f, T, g)
<1>1. \A T : SumFunctionOnSet(f, T) = G(T)[T]
  BY DEF SumFunctionOnSet, FoldFunctionOnSet, MapThenFoldSet, Sums, First
<1>2. ASSUME NEW T, IsFiniteSet(T) PROVE Sums(f, T, G(T))
  BY <1>2, SumsExist
<1>3. ASSUME NEW T, IsFiniteSet(T)
      PROVE  G(T)[T] = IF T = {} THEN 0 ELSE f[First(T)] + G(T)[T \ {First(T)}]
  <2>1. PICK g : g = G(T)
    OBVIOUS
  <2>2. g = [s \in SUBSET T |-> IF s = {} THEN 0 ELSE f[First(s)] + g[s \ {First(s)}]]
    BY <1>2, <1>3, <2>1, Zenon DEF Sums
  <2>3. T \in SUBSET T
    OBVIOUS
  <2>4. g[T] = IF T = {} THEN 0 ELSE f[First(T)] + g[T \ {First(T)}]
    BY <2>2, <2>3
  <2> QED BY <2>1, <2>4
<1>4. CASE S = {}
  <2>1. SumFunctionOnSet(f, S) = G(S)[S]
    BY <1>1
  <2>2. G(S)[S] = IF S = {} THEN 0 ELSE f[First(S)] + G(S)[S \ {First(S)}]
    <3> HIDE DEF G
    <3> QED BY <1>3
  <2> HIDE DEF G
  <2> QED BY <1>4, <2>1, <2>2
<1>5. CASE S # {}
  <2> DEFINE x == First(S)
             R == S \ {x}
  <2>1. x \in S /\ R \in SUBSET S
    BY <1>5 DEF First
  <2>2. IsFiniteSet(R)
    BY <2>1, FS_Subset
  <2>3. Sums(f, S, G(S)) /\ Sums(f, R, G(R))
    BY <1>2, <2>2
  <2>4. G(S)[R] = G(R)[R]
    <3> HIDE DEF G, R
    <3>1. R \in SUBSET R
      OBVIOUS
    <3> QED BY <2>1, <2>3, <3>1, SumsAgree
  <2>5. SumFunctionOnSet(f, S) = f[x] + SumFunctionOnSet(f, R)
    BY <1>1, <1>3, <1>5, <2>4
  <2> QED BY <2>1, <2>5
<1> QED
  BY <1>4, <1>5

(* The sum is a number. *)
LEMMA SumType ==
  ASSUME NEW S, IsFiniteSet(S), NEW f, \A x \in S : f[x] \in Nat
  PROVE  SumFunctionOnSet(f, S) \in Nat
<1> DEFINE Bad == {T \in SUBSET S : SumFunctionOnSet(f, T) \notin Nat}
<1> SUFFICES ASSUME Bad # {} PROVE FALSE
  OBVIOUS
<1>1. PICK T \in Bad : \A R \in Bad : Cardinality(T) <= Cardinality(R)
  <2>1. Bad \in SUBSET SUBSET S
    OBVIOUS
  <2> HIDE DEF Bad
  <2> QED BY <2>1, LeastPart
<1>2. T \in SUBSET S /\ SumFunctionOnSet(f, T) \notin Nat
  OBVIOUS
<1>3. IsFiniteSet(T)
  BY <1>2, FS_Subset
<1>4. T # {}
  <2>1. T = {} => SumFunctionOnSet(f, T) = 0
    BY <1>3, SumStep
  <2> QED BY <1>2, <2>1
<1>5. PICK x \in T : SumFunctionOnSet(f, T) = f[x] + SumFunctionOnSet(f, T \ {x})
  BY <1>3, <1>4, SumStep
<1>6. /\ Cardinality(T) \in Nat /\ Cardinality(T \ {x}) \in Nat
      /\ Cardinality(T \ {x}) = Cardinality(T) - 1
  BY <1>2, PartFacts
<1>7. T \ {x} \notin Bad
  <2> HIDE DEF Bad
  <2> QED BY <1>1, <1>6
<1>8. SumFunctionOnSet(f, T \ {x}) \in Nat
  BY <1>2, <1>7
<1>9. f[x] \in Nat
  BY <1>2
<1> QED
  BY <1>2, <1>5, <1>8, <1>9

(* Any element may be taken first. *)
LEMMA SumRemove ==
  ASSUME NEW S, IsFiniteSet(S), NEW f, \A x \in S : f[x] \in Nat
  PROVE  \A x \in S : SumFunctionOnSet(f, S) = f[x] + SumFunctionOnSet(f, S \ {x})
<1> DEFINE Bad == {T \in SUBSET S :
                     \E x \in T : SumFunctionOnSet(f, T) # f[x] + SumFunctionOnSet(f, T \ {x})}
<1> SUFFICES ASSUME Bad # {} PROVE FALSE
  OBVIOUS
<1>1. PICK T \in Bad : \A R \in Bad : Cardinality(T) <= Cardinality(R)
  <2>1. Bad \in SUBSET SUBSET S
    OBVIOUS
  <2> HIDE DEF Bad
  <2> QED BY <2>1, LeastPart
<1>2. T \in SUBSET S
  OBVIOUS
<1>3. PICK x \in T : SumFunctionOnSet(f, T) # f[x] + SumFunctionOnSet(f, T \ {x})
  OBVIOUS
<1>4. IsFiniteSet(T)
  BY <1>2, FS_Subset
<1>5. PICK y \in T : SumFunctionOnSet(f, T) = f[y] + SumFunctionOnSet(f, T \ {y})
  BY <1>3, <1>4, SumStep
<1>6. x # y
  BY <1>3, <1>5
<1>7. \A z \in T : T \ {z} \in SUBSET S /\ T \ {z} \notin Bad
  <2> SUFFICES ASSUME NEW z \in T PROVE T \ {z} \in SUBSET S /\ T \ {z} \notin Bad
    OBVIOUS
  <2>1. /\ Cardinality(T) \in Nat /\ Cardinality(T \ {z}) \in Nat
        /\ Cardinality(T \ {z}) = Cardinality(T) - 1
    BY <1>2, PartFacts
  <2> HIDE DEF Bad
  <2> QED BY <1>1, <1>2, <2>1
<1>8. SumFunctionOnSet(f, T \ {y}) = f[x] + SumFunctionOnSet(f, (T \ {y}) \ {x})
  BY <1>6, <1>7
<1>9. SumFunctionOnSet(f, T \ {x}) = f[y] + SumFunctionOnSet(f, (T \ {x}) \ {y})
  BY <1>6, <1>7
<1>10. (T \ {x}) \ {y} = (T \ {y}) \ {x}
  OBVIOUS
<1>11. SumFunctionOnSet(f, (T \ {y}) \ {x}) \in Nat
  <2>1. IsFiniteSet((T \ {y}) \ {x})
    BY <1>4, FS_Subset
  <2> QED BY <1>2, <2>1, SumType
<1>12. f[x] \in Nat /\ f[y] \in Nat
  BY <1>2
<1> HIDE DEF Bad
<1>13. PICK c : c = SumFunctionOnSet(f, (T \ {y}) \ {x})
  OBVIOUS
<1>14. SumFunctionOnSet(f, T \ {x}) = f[y] + c
  BY <1>9, <1>10, <1>13
<1>15. SumFunctionOnSet(f, T) = f[y] + (f[x] + c)
  BY <1>5, <1>8, <1>13
<1>16. c \in Nat
  BY <1>11, <1>13
<1>17. f[y] + (f[x] + c) = f[x] + (f[y] + c)
  BY <1>12, <1>16
<1> QED
  BY <1>3, <1>14, <1>15, <1>17

(* Only what is summed matters. *)
LEMMA SumSame ==
  ASSUME NEW S, IsFiniteSet(S), NEW f, \A x \in S : f[x] \in Nat,
         NEW g, \A x \in S : g[x] = f[x]
  PROVE  SumFunctionOnSet(g, S) = SumFunctionOnSet(f, S)
<1> DEFINE Bad == {T \in SUBSET S : SumFunctionOnSet(g, T) # SumFunctionOnSet(f, T)}
<1> SUFFICES ASSUME Bad # {} PROVE FALSE
  OBVIOUS
<1>1. PICK T \in Bad : \A R \in Bad : Cardinality(T) <= Cardinality(R)
  <2>1. Bad \in SUBSET SUBSET S
    OBVIOUS
  <2> HIDE DEF Bad
  <2> QED BY <2>1, LeastPart
<1>2. T \in SUBSET S /\ SumFunctionOnSet(g, T) # SumFunctionOnSet(f, T)
  OBVIOUS
<1>3. IsFiniteSet(T)
  BY <1>2, FS_Subset
<1>4. T # {}
  <2>1. T = {} => SumFunctionOnSet(f, T) = 0 /\ SumFunctionOnSet(g, T) = 0
    BY <1>3, SumStep
  <2> QED BY <1>2, <2>1
<1>5. PICK x \in T : SumFunctionOnSet(f, T) = f[x] + SumFunctionOnSet(f, T \ {x})
  BY <1>3, <1>4, SumStep
<1>6. SumFunctionOnSet(g, T) = g[x] + SumFunctionOnSet(g, T \ {x})
  <2>1. \A y \in T : g[y] \in Nat
    BY <1>2
  <2> QED BY <1>3, <2>1, SumRemove
<1>7. /\ Cardinality(T) \in Nat /\ Cardinality(T \ {x}) \in Nat
      /\ Cardinality(T \ {x}) = Cardinality(T) - 1
  BY <1>2, PartFacts
<1>8. T \ {x} \notin Bad
  <2> HIDE DEF Bad
  <2> QED BY <1>1, <1>7
<1>9. SumFunctionOnSet(g, T \ {x}) = SumFunctionOnSet(f, T \ {x})
  BY <1>2, <1>8
<1>10. g[x] = f[x]
  BY <1>2
<1> QED
  BY <1>2, <1>5, <1>6, <1>9, <1>10

(* The sum over two sets that have nothing in common. *)
LEMMA SumUnion ==
  ASSUME NEW S, IsFiniteSet(S), NEW T, IsFiniteSet(T), S \cap T = {},
         NEW f, \A x \in S \cup T : f[x] \in Nat
  PROVE  SumFunctionOnSet(f, S \cup T) = SumFunctionOnSet(f, S) + SumFunctionOnSet(f, T)
<1> DEFINE Bad == {R \in SUBSET S :
              SumFunctionOnSet(f, R \cup T) # SumFunctionOnSet(f, R) + SumFunctionOnSet(f, T)}
<1> SUFFICES ASSUME Bad # {} PROVE FALSE
  OBVIOUS
<1>1. PICK R \in Bad : \A Q \in Bad : Cardinality(R) <= Cardinality(Q)
  <2>1. Bad \in SUBSET SUBSET S
    OBVIOUS
  <2> HIDE DEF Bad
  <2> QED BY <2>1, LeastPart
<1>2. /\ R \in SUBSET S
      /\ SumFunctionOnSet(f, R \cup T) # SumFunctionOnSet(f, R) + SumFunctionOnSet(f, T)
  OBVIOUS
<1>3. IsFiniteSet(R) /\ IsFiniteSet(R \cup T)
  <2>1. IsFiniteSet(R)
    BY <1>2, FS_Subset
  <2> QED BY <2>1, FS_Union
<1>4. SumFunctionOnSet(f, T) \in Nat
  BY SumType
<1>5. R # {}
  <2> SUFFICES ASSUME R = {} PROVE FALSE
    OBVIOUS
  <2>1. SumFunctionOnSet(f, R) = 0
    BY <1>3, SumStep
  <2>2. R \cup T = T
    OBVIOUS
  <2> HIDE DEF Bad
  <2> QED BY <1>2, <1>4, <2>1, <2>2
<1>6. PICK x \in R : TRUE
  BY <1>5
<1>7. x \notin T /\ (R \cup T) \ {x} = (R \ {x}) \cup T
  BY <1>2
<1>8. SumFunctionOnSet(f, R) = f[x] + SumFunctionOnSet(f, R \ {x})
  <2>1. \A y \in R : f[y] \in Nat
    BY <1>2
  <2> QED BY <1>3, <2>1, SumRemove
<1>9. SumFunctionOnSet(f, R \cup T) = f[x] + SumFunctionOnSet(f, (R \cup T) \ {x})
  <2>1. \A y \in R \cup T : f[y] \in Nat
    BY <1>2
  <2>2. x \in R \cup T
    OBVIOUS
  <2> QED BY <1>3, <2>1, <2>2, SumRemove
<1>10. R \ {x} \in SUBSET S /\ R \ {x} \notin Bad
  <2>1. /\ Cardinality(R) \in Nat /\ Cardinality(R \ {x}) \in Nat
        /\ Cardinality(R \ {x}) = Cardinality(R) - 1
    BY <1>2, PartFacts
  <2> HIDE DEF Bad
  <2> QED BY <1>1, <1>2, <2>1
<1>11. SumFunctionOnSet(f, (R \ {x}) \cup T)
         = SumFunctionOnSet(f, R \ {x}) + SumFunctionOnSet(f, T)
  BY <1>10
<1>12. f[x] \in Nat /\ SumFunctionOnSet(f, R \ {x}) \in Nat
  <2>1. IsFiniteSet(R \ {x})
    BY <1>3, FS_Subset
  <2>2. \A y \in R \ {x} : f[y] \in Nat
    BY <1>2
  <2> QED BY <1>2, <2>1, <2>2, SumType
<1> HIDE DEF Bad
<1> QED
  BY <1>2, <1>4, <1>7, <1>8, <1>9, <1>11, <1>12

(* The sum over a union of sets that have nothing in common is that of     *)
(* their sums.                                                             *)
LEMMA SumFamily ==
  ASSUME NEW U, IsFiniteSet(U), NEW f, \A x \in U : f[x] \in Nat,
         NEW C, IsFiniteSet(C), NEW F, \A c \in C : F[c] \in SUBSET U,
         \A c, d \in C : c # d => F[c] \cap F[d] = {},
         NEW r, \A c \in C : r[c] = SumFunctionOnSet(f, F[c])
  PROVE  SumFunctionOnSet(f, UNION {F[c] : c \in C}) = SumFunctionOnSet(r, C)
<1> DEFINE All(B) == UNION {F[c] : c \in B}
           Bad == {B \in SUBSET C : SumFunctionOnSet(f, All(B)) # SumFunctionOnSet(r, B)}
<1> SUFFICES ASSUME Bad # {} PROVE FALSE
  OBVIOUS
<1>1. PICK B \in Bad : \A Q \in Bad : Cardinality(B) <= Cardinality(Q)
  <2>1. Bad \in SUBSET SUBSET C
    OBVIOUS
  <2> HIDE DEF Bad
  <2> QED BY <2>1, LeastPart
<1>2. B \in SUBSET C /\ SumFunctionOnSet(f, All(B)) # SumFunctionOnSet(r, B)
  OBVIOUS
<1>3. IsFiniteSet(B)
  BY <1>2, FS_Subset
<1>4. ASSUME NEW c \in C
      PROVE  F[c] \in SUBSET U /\ IsFiniteSet(F[c]) /\ r[c] \in Nat
  <2>1. F[c] \in SUBSET U
    OBVIOUS
  <2>2. IsFiniteSet(F[c])
    BY <2>1, FS_Subset
  <2>3. \A x \in F[c] : f[x] \in Nat
    BY <2>1
  <2>4. SumFunctionOnSet(f, F[c]) \in Nat
    BY <2>2, <2>3, SumType
  <2> QED BY <2>1, <2>2, <2>4
<1>5. B # {}
  <2> SUFFICES ASSUME B = {} PROVE FALSE
    OBVIOUS
  <2>1. All(B) = {}
    OBVIOUS
  <2>2. SumFunctionOnSet(r, B) = 0
    BY <1>3, SumStep
  <2>3. SumFunctionOnSet(f, All(B)) = 0
    <3>1. IsFiniteSet({})
      BY FS_EmptySet
    <3>2. SumFunctionOnSet(f, {}) = 0
      BY <3>1, SumStep
    <3> QED BY <2>1, <3>2
  <2> QED BY <1>2, <2>2, <2>3
<1>6. PICK x \in B : TRUE
  BY <1>5
<1>7. All(B) = F[x] \cup All(B \ {x})
  OBVIOUS
<1>8. F[x] \cap All(B \ {x}) = {}
  BY <1>2
<1>9. All(B \ {x}) \in SUBSET U
  BY <1>2
<1>10. SumFunctionOnSet(r, B) = r[x] + SumFunctionOnSet(r, B \ {x})
  <2>1. \A c \in B : r[c] \in Nat
    BY <1>2, <1>4
  <2> QED BY <1>3, <2>1, SumRemove
<1>11. SumFunctionOnSet(f, All(B)) = SumFunctionOnSet(f, F[x]) + SumFunctionOnSet(f, All(B \ {x}))
  <2>1. PICK P : P = All(B \ {x})
    OBVIOUS
  <2>2. IsFiniteSet(F[x]) /\ IsFiniteSet(P) /\ F[x] \cap P = {}
    <3>1. IsFiniteSet(P)
      BY <1>9, <2>1, FS_Subset
    <3> QED BY <1>2, <1>4, <1>8, <2>1, <3>1
  <2>3. \A y \in F[x] \cup P : f[y] \in Nat
    BY <1>2, <1>4, <1>9, <2>1
  <2>4. SumFunctionOnSet(f, F[x] \cup P) = SumFunctionOnSet(f, F[x]) + SumFunctionOnSet(f, P)
    BY <2>2, <2>3, SumUnion
  <2> HIDE DEF All
  <2> QED BY <1>7, <2>1, <2>4
<1>12. B \ {x} \in SUBSET C /\ B \ {x} \notin Bad
  <2>1. /\ Cardinality(B) \in Nat /\ Cardinality(B \ {x}) \in Nat
        /\ Cardinality(B \ {x}) = Cardinality(B) - 1
    BY <1>2, PartFacts
  <2> HIDE DEF Bad
  <2> QED BY <1>1, <1>2, <2>1
<1>13. SumFunctionOnSet(f, All(B \ {x})) = SumFunctionOnSet(r, B \ {x})
  <2> HIDE DEF All
  <2> QED BY <1>12
<1>14. r[x] = SumFunctionOnSet(f, F[x])
  BY <1>2
<1> HIDE DEF Bad, All
<1> QED
  BY <1>2, <1>10, <1>11, <1>13, <1>14
-----------------------------------------------------------------------------
(***************************************************************************)
(* Ranks.  A branch adds to the statement itself and to every ancestor     *)
(* the statements moved, and to no other statement any; with the unique    *)
(* top of each statement, those were not inside of any of them before.     *)
(***************************************************************************)

(* Every operation, also what is no statement yet, has counted its         *)
(* branches, but for those with a statement of late inside.                *)
Ranks ==
  /\ rank \in [Ops -> Nat] /\ elseIf \in [Ops -> Nat]
  /\ \A s \in Ops :
       Inside(s) \cap late = {} => rank[s] = SumFunctionOnSet(Branches, {s} \cup Inside(s))

(* The numbers of branches that are summed. *)
LEMMA BranchesType ==
  ASSUME elseIf \in [Ops -> Nat]
  PROVE  \A s \in Ops : Branches[s] \in Nat
BY DEF Branches

(* The sum over what a branch added to i: S, each with all inside of it. *)
LEMMA MovedRanks ==
  ASSUME IInv, Nested, Ranks, NEW S \in SUBSET Ops, \A s \in S : parent[s] = Null,
         NEW Moved \in SUBSET Ops,
         \A c \in Ops : c \in Moved <=> c \in S \/ Ancestors[c] \cap S # {},
         Moved \cap late = {}
  PROVE  SumFunctionOnSet(rank, S) = SumFunctionOnSet(Branches, Moved)
<1>1. IsFiniteSet(Ops) /\ IsFiniteSet(S)
  BY FinitenessAssumption, FS_Subset DEF Nodes
<1>2. \A s \in Ops : Branches[s] \in Nat
  BY BranchesType DEF Ranks
<1>3. PICK F : F = [c \in S |-> {c} \cup Inside(c)]
  OBVIOUS
<1>4. \A c \in S : F[c] = {c} \cup Inside(c)
  BY <1>3
<1>5. \A c \in S : F[c] \in SUBSET Ops
  BY <1>4 DEF Inside
<1>6. \A c, d \in S : c # d => F[c] \cap F[d] = {}
  <2> SUFFICES ASSUME NEW c \in S, NEW d \in S, NEW x, x \in F[c], x \in F[d]
               PROVE  c = d
    OBVIOUS
  <2>1. x \in Ops /\ c \in {x} \cup Ancestors[x] /\ d \in {x} \cup Ancestors[x]
    BY <1>4 DEF Inside
  <2> QED BY <2>1, NestedFacts
<1>7. \A c \in S : F[c] \subseteq Moved
  BY <1>4 DEF Inside
<1>8. Moved = UNION {F[c] : c \in S}
  <2>1. ASSUME NEW x \in Moved PROVE \E c \in S : x \in F[c]
    BY <1>4 DEF Inside
  <2> QED BY <1>7, <2>1
<1>9. \A c \in S : rank[c] = SumFunctionOnSet(Branches, F[c])
  <2> SUFFICES ASSUME NEW c \in S
               PROVE  rank[c] = SumFunctionOnSet(Branches, F[c])
    OBVIOUS
  <2>1. Inside(c) \cap late = {}
    BY <1>4, <1>7
  <2> QED BY <1>4, <2>1 DEF Ranks
<1>10. PICK f, r : f = Branches /\ r = rank
  OBVIOUS
<1>11. SumFunctionOnSet(f, UNION {F[c] : c \in S}) = SumFunctionOnSet(r, S)
  BY <1>1, <1>2, <1>5, <1>6, <1>9, <1>10, SumFamily
<1> QED
  BY <1>8, <1>10, <1>11

(* One more branch: the new sums. *)
LEMMA BranchRanks ==
  ASSUME IInv, Nested, Ranks, NEW i \in Ops, NEW S \in SUBSET Ops, NEW conds,
         _register_stements(i, S, conds),
         elseIf' \in [Ops -> Nat],
         \A s \in Ops : Branches'[s] = IF s = i THEN Branches[s] + 1 ELSE Branches[s]
  PROVE  Ranks'
<1>1. PICK Moved \in SUBSET Ops :
        \A c \in Ops : c \in Moved <=> c \in S \/ Ancestors[c] \cap S # {}
  <2> DEFINE M == {c \in Ops : c \in S \/ Ancestors[c] \cap S # {}}
  <2>1. M \in SUBSET Ops /\ \A c \in Ops : c \in M <=> c \in S \/ Ancestors[c] \cap S # {}
    OBVIOUS
  <2> HIDE DEF M
  <2> QED BY <2>1
<1>2. \A c \in Ops : Ancestors'[c] = IF c \in Moved THEN Ancestors[c] \cup {i} \cup Ancestors[i]
                                     ELSE Ancestors[c]
  BY <1>1, BranchAncestors
<1>3. /\ \A s \in S : parent[s] = Null /\ s \notin {i} \cup Ancestors[i]
      /\ rank' = [rank EXCEPT ![i] = rank[i] + 1 + SumFunctionOnSet(rank, S)]
      /\ late' = IF parent[i] = Null THEN late ELSE late \cup {i}
  BY DEF _register_stements, RankWith
<1>4. /\ \A s \in Ops : parent[s] = Null => Ancestors[s] = {}
      /\ \A s \in Ops : Ancestors[s] \subseteq Ops
      /\ \A s \in Ops : \A t \in Ancestors[s] : Ancestors[t] \subseteq Ancestors[s]
      /\ \A s \in Ops : \A t, u \in {s} \cup Ancestors[s] :
           parent[t] = Null /\ parent[u] = Null => t = u
  BY NestedFacts
<1>5. IsFiniteSet(Ops) /\ IsFiniteSet(S) /\ IsFiniteSet(Moved)
  BY FinitenessAssumption, FS_Subset DEF Nodes
<1>6. /\ \A s \in Ops : Branches[s] \in Nat /\ Branches'[s] \in Nat
      /\ rank \in [Ops -> Nat]
  BY BranchesType DEF Ranks
<1>7. SumFunctionOnSet(rank, S) \in Nat
  <2>1. PICK r : r = rank
    OBVIOUS
  <2>2. SumFunctionOnSet(r, S) \in Nat
    BY <1>5, <1>6, <2>1, SumType
  <2> QED BY <2>1, <2>2
<1>8. rank' \in [Ops -> Nat]
  BY <1>3, <1>6, <1>7
<1>9. i \notin Moved
  BY <1>1, <1>3
<1>10. ASSUME NEW s \in Ops
       PROVE  Inside(s)' = IF s \in {i} \cup Ancestors[i] THEN Inside(s) \cup Moved ELSE Inside(s)
  BY <1>2 DEF Inside
<1>11. late \subseteq late'
  BY <1>3
<1>12. PICK f, g : f = Branches /\ g = Branches'
  OBVIOUS
<1>13. /\ \A s \in Ops : f[s] \in Nat /\ g[s] \in Nat
       /\ \A s \in Ops : g[s] = IF s = i THEN f[s] + 1 ELSE f[s]
  BY <1>6, <1>12
<1>14. ASSUME NEW s \in Ops, Inside(s)' \cap late' = {}
       PROVE  rank'[s] = SumFunctionOnSet(g, {s} \cup Inside(s)')
  <2>1. Inside(s) \in SUBSET Ops
    BY DEF Inside
  <2>2. CASE s \notin {i} \cup Ancestors[i]
    <3>1. Inside(s)' = Inside(s)
      BY <1>10, <2>2
    <3>2. PICK P : P = {s} \cup Inside(s)
      OBVIOUS
    <3>3. P \in SUBSET Ops /\ i \notin P
      BY <2>1, <2>2, <3>2 DEF Inside
    <3>4. IsFiniteSet(P)
      BY <1>5, <3>3, FS_Subset
    <3>5. \A x \in P : f[x] \in Nat /\ g[x] = f[x]
      BY <1>13, <3>3
    <3>6. SumFunctionOnSet(g, P) = SumFunctionOnSet(f, P)
      BY <3>4, <3>5, SumSame
    <3>7. rank[s] = SumFunctionOnSet(f, P)
      BY <1>11, <1>12, <1>14, <3>1, <3>2 DEF Ranks
    <3>8. rank'[s] = rank[s]
      BY <1>3, <1>6, <2>2
    <3> QED BY <3>1, <3>2, <3>6, <3>7, <3>8
  <2>3. CASE s \in Ancestors[i]
    <3>1. parent[i] # Null
      BY <1>4, <2>3
    <3>2. i \in late' /\ i \in Inside(s)'
      BY <1>3, <1>10, <2>3, <3>1 DEF Inside
    <3> QED BY <1>14, <3>2
  <2>4. CASE s = i
    <3>1. Inside(i)' = Inside(i) \cup Moved
      BY <1>10
    <3>2. PICK P : P = {i} \cup Inside(i)
      OBVIOUS
    <3>3. P \in SUBSET Ops /\ i \in P
      BY <2>1, <2>4, <3>2
    <3>4. i \notin Inside(i)
      <4>1. i \notin Ancestors[i]
        BY NotOwnAncestor
      <4> QED BY <4>1 DEF Inside
    <3>5. P \cap Moved = {}
      <4> SUFFICES ASSUME NEW x \in Inside(i), x \in Moved PROVE FALSE
        BY <1>9, <3>2
      <4>1. x \in Ops /\ i \in Ancestors[x]
        BY DEF Inside
      <4>2. PICK c \in S : c \in {x} \cup Ancestors[x]
        BY <1>1
      <4>3. parent[c] = Null /\ c \notin {i} \cup Ancestors[i]
        BY <1>3
      <4>4. c \in Ancestors[x]
        BY <1>4, <4>1, <4>2, <4>3
      <4>5. PICK t \in {i} \cup Ancestors[i] : parent[t] = Null
        BY DEF _register_stements, MoveIO, IsTop
      <4>6. t \in Ancestors[x]
        BY <1>4, <4>1, <4>5
      <4>7. t = c
        BY <1>4, <4>1, <4>3, <4>4, <4>5, <4>6
      <4> QED BY <4>3, <4>5, <4>7
    <3>6. Moved \cap late = {} /\ Inside(i) \cap late = {}
      BY <1>11, <1>14, <2>4, <3>1
    <3>7. SumFunctionOnSet(rank, S) = SumFunctionOnSet(Branches, Moved)
      BY <1>1, <1>3, <3>6, MovedRanks
    <3>8. rank[i] = SumFunctionOnSet(f, P)
      BY <1>12, <3>2, <3>6 DEF Ranks
    <3>9. rank'[i] = rank[i] + 1 + SumFunctionOnSet(f, Moved)
      BY <1>3, <1>6, <1>12, <3>7
    <3>10. IsFiniteSet(P)
      BY <1>5, <3>3, FS_Subset
    <3>11. SumFunctionOnSet(g, P \cup Moved) = SumFunctionOnSet(g, P) + SumFunctionOnSet(g, Moved)
      <4>1. \A x \in P \cup Moved : g[x] \in Nat
        BY <1>13, <3>3
      <4> QED BY <1>5, <3>5, <3>10, <4>1, SumUnion
    <3>12. SumFunctionOnSet(g, Moved) = SumFunctionOnSet(f, Moved)
      <4>1. \A x \in Moved : f[x] \in Nat /\ g[x] = f[x]
        BY <1>9, <1>13
      <4> QED BY <1>5, <4>1, SumSame
    <3>13. SumFunctionOnSet(g, P) = SumFunctionOnSet(f, P) + 1
      <4>1. IsFiniteSet(P \ {i})
        BY <3>10, FS_Subset
      <4>2. /\ SumFunctionOnSet(g, P) = g[i] + SumFunctionOnSet(g, P \ {i})
            /\ SumFunctionOnSet(f, P) = f[i] + SumFunctionOnSet(f, P \ {i})
        BY <1>13, <3>3, <3>10, SumRemove
      <4>3. \A x \in P \ {i} : f[x] \in Nat /\ g[x] = f[x]
        BY <1>13, <3>3
      <4>4. SumFunctionOnSet(g, P \ {i}) = SumFunctionOnSet(f, P \ {i})
        BY <4>1, <4>3, SumSame
      <4>5. SumFunctionOnSet(f, P \ {i}) \in Nat
        BY <4>1, <4>3, SumType
      <4>6. f[i] \in Nat /\ g[i] = f[i] + 1
        BY <1>13
      <4> QED BY <4>2, <4>4, <4>5, <4>6
    <3>14. SumFunctionOnSet(f, P) \in Nat /\ SumFunctionOnSet(f, Moved) \in Nat
      <4>1. (\A x \in P : f[x] \in Nat) /\ (\A x \in Moved : f[x] \in Nat)
        BY <1>13, <3>3
      <4> QED BY <1>5, <3>10, <4>1, SumType
    <3>15. {s} \cup Inside(s)' = P \cup Moved
      BY <2>4, <3>1, <3>2
    <3>16. rank'[i] = SumFunctionOnSet(g, P \cup Moved)
      BY <3>8, <3>9, <3>11, <3>12, <3>13, <3>14
    <3> QED BY <2>4, <3>15, <3>16
  <2> QED BY <2>2, <2>3, <2>4
<1> QED
  BY <1>8, <1>12, <1>14 DEF Ranks

(* Nothing has a branch at first. *)
LEMMA InitRanks ==
  ASSUME Init
  PROVE  Ranks
<1>1. /\ rank \in [Ops -> Nat] /\ elseIf \in [Ops -> Nat]
      /\ \A s \in Ops : rank[s] = 0 /\ Branches[s] = 0
  BY DEF Init, Branches
<1>2. ASSUME NEW s \in Ops
      PROVE  rank[s] = SumFunctionOnSet(Branches, {s} \cup Inside(s))
  <2>1. Ancestors = [o \in Ops |-> IF parent[o] = Null THEN {} ELSE {parent[o]} \cup Ancestors[parent[o]]]
    BY InitNested, Zenon DEF Nested, IsAncestry
  <2>2. Inside(s) = {}
    BY <2>1 DEF Init, Inside
  <2>3. IsFiniteSet({s})
    BY FS_Singleton
  <2>4. PICK f : f = Branches
    OBVIOUS
  <2>5. f[s] = 0
    BY <1>1, <2>4
  <2>6. \A x \in {s} : SumFunctionOnSet(f, {s}) = f[x] + SumFunctionOnSet(f, {s} \ {x})
    BY <2>3, <2>5, SumRemove
  <2>7. IsFiniteSet({}) /\ {s} \ {s} = {}
    BY FS_EmptySet
  <2>8. SumFunctionOnSet(f, {}) = 0
    BY <2>7, SumStep
  <2>9. SumFunctionOnSet(f, {s}) = 0
    BY <2>5, <2>6, <2>7, <2>8
  <2> QED BY <1>1, <2>2, <2>4, <2>9
<1> QED
  BY <1>1, <1>2 DEF Ranks

(* Only the three operations that add a branch touch ranks and parents.    *)
LEMMA NextRanks ==
  ASSUME IInv, Nested, Ranks, [Next]_vars
  PROVE  Ranks'
<1>1. ASSUME UNCHANGED <<parent, rank, branches, late>> PROVE Ranks'
  <2>1. /\ Ancestors' = Ancestors /\ Branches' = Branches
        /\ rank' = rank /\ elseIf' = elseIf /\ late' = late
    BY <1>1 DEF Ancestors, Branches, branches
  <2>2. \A s \in Ops : Inside(s)' = Inside(s)
    BY <2>1 DEF Inside
  <2> QED BY <2>1, <2>2 DEF Ranks
<1>2. elseIf \in [Ops -> Nat]
  BY DEF Ranks
<1>3. CASE sig
  BY <1>1, <1>3 DEF sig
<1>4. ASSUME NEW k \in UsageCacheKey, apply_call(k) PROVE Ranks'
  BY <1>1, <1>4 DEF apply_call
<1>5. ASSUME NEW d \in Nets, NEW src \in Nets, assignment(d, src) PROVE Ranks'
  BY <1>1, <1>5 DEF assignment
<1>6. ASSUME NEW cond \in Nets, If(cond) PROVE Ranks'
  BY <1>1, <1>6 DEF If
<1>7. ASSUME NEW i \in Ops, NEW S \in SUBSET Ops, if_true(i, S) PROVE Ranks'
  <2>1. _register_stements(i, S, {}) /\ elseIf' = elseIf
    BY <1>7 DEF if_true
  <2>2. \A s \in Ops : Branches'[s] = IF s = i THEN Branches[s] + 1 ELSE Branches[s]
    BY <1>2, <1>7 DEF if_true, Branches
  <2> QED BY <1>2, <2>1, <2>2, BranchRanks
<1>8. ASSUME NEW i \in Ops, NEW cond \in Nets, NEW S \in SUBSET Ops, Elif(i, cond, S) PROVE Ranks'
  <2>1. _register_stements(i, S, {cond}) /\ elseIf' \in [Ops -> Nat]
    BY <1>2, <1>8 DEF Elif
  <2>2. \A s \in Ops : Branches'[s] = IF s = i THEN Branches[s] + 1 ELSE Branches[s]
    BY <1>2, <1>8 DEF Elif, Branches
  <2> QED BY <2>1, <2>2, BranchRanks
<1>9. ASSUME NEW i \in Ops, NEW S \in SUBSET Ops, Else(i, S) PROVE Ranks'
  <2>1. _register_stements(i, S, {}) /\ elseIf' = elseIf
    BY <1>9 DEF Else
  <2>2. \A s \in Ops : Branches'[s] = IF s = i THEN Branches[s] + 1 ELSE Branches[s]
    BY <1>2, <1>9 DEF Else, Branches
  <2> QED BY <1>2, <2>1, <2>2, BranchRanks
<1>10. CASE UNCHANGED vars
  BY <1>1, <1>10 DEF vars
<1> QED
  BY <1>3, <1>4, <1>5, <1>6, <1>7, <1>8, <1>9, <1>10 DEF Next

(* The rank of a statement is the number of branches used in it and in all *)
(* statements inside of it, at any depth and however many there are, as    *)
(* long as no branch was added to a statement that was inside of it.       *)
THEOREM Counts == Spec => []RankCountsBranches
<1>1. Init => Ranks
  BY InitRanks
<1>2. IInv /\ Nested /\ Ranks /\ [Next]_vars => Ranks'
  BY NextRanks
<1>3. Ranks => RankCountsBranches
  BY DEF Ranks, RankCountsBranches, Statements
<1> QED
  BY <1>1, <1>2, <1>3, Invariant, Nesting, PTL DEF Spec
=============================================================================
