------------------------------- MODULE Netlist -------------------------------
(***************************************************************************)
(* Netlist, Net, FunctionCall, Statement, Assignment and IfStatement       *)
(* (include/netlistDB/netlist.h): the graph, and the operations with which *)
(* a user of the library builds it.                                        *)
(*                                                                         *)
(* The graph is stored redundantly.  A node knows its slot in              *)
(* Netlist::nodes, the slot knows the node; a net lists its drivers and    *)
(* endpoints, an operation lists its inputs and outputs; a net caches the  *)
(* expressions it is used in.  A statement put into a branch of an         *)
(* IfStatement leaves the graph, and the outermost statement takes over    *)
(* its edges.                                                              *)
(*                                                                         *)
(* OrderedSets are plain sets here: only push_back and discard are used.   *)
(***************************************************************************)
EXTENDS Naturals, Sequences, FiniteSets, Functions, UniqueSeq

CONSTANTS Nets, Ops,            \* addresses of Net and of OperationNode objects
          Null,
          Unary, Binary,        \* FunctionDefs of one and of two arguments
          OpSlice,              \* the one that Assignment looks through
          MaxSig,               \* bound: no sig once there are so many nets
          MaxElif               \* bound: elif branches of one statement

Nodes == Nets \cup Ops

UsageCacheKey == (Unary \X {<<a>> : a \in Nets}) \cup (Binary \X (Nets \X Nets))

NoKey == << >>

ASSUME NodesAssumption == Nets \cap Ops = {} /\ Null \notin Nodes
ASSUME FinitenessAssumption == IsFiniteSet(Nodes)
ASSUME FunctionsAssumption == Unary \cap Binary = {} /\ OpSlice \in Binary
ASSUME BoundAssumption == MaxSig \in Nat /\ MaxElif \in Nat

VARIABLES nodes, nets,          \* Netlist::nodes and ::nets
          index, net_index,     \* the slots of a node, from 0
          drivers, endpoints,   \* Net -> OperationNodes
          usage_cache,          \* Net -> pairs of a UsageCacheKey and the result
          kind,                 \* "free", "call", "assignment" or "if"
          key,                  \* FunctionCall -> fn and args
          ins, outs,            \* what backward and forward of an operation visit
          parent, rank,         \* Statement::parent and ::rank
          ifTrue_specified, ifFalse_specified,  \* the IfStatements with these branches
          elseIf,               \* IfStatement -> the number of its elif branches
          late                  \* history: the IfStatements that got a branch when
                                \* they were inside of another statement already

branches == <<ifTrue_specified, ifFalse_specified, elseIf>>

vars == <<nodes, nets, index, net_index, drivers, endpoints, usage_cache, kind, key,
          ins, outs, parent, rank, branches, late>>

Init ==
  /\ nodes = << >> /\ nets = << >>
  /\ index = [x \in Nodes |-> 0] /\ net_index = [n \in Nets |-> 0]
  /\ drivers = [n \in Nets |-> {}] /\ endpoints = [n \in Nets |-> {}]
  /\ usage_cache = [n \in Nets |-> {}]
  /\ kind = [o \in Ops |-> "free"]
  /\ key = [o \in Ops |-> NoKey]
  /\ ins = [o \in Ops |-> {}] /\ outs = [o \in Ops |-> {}]
  /\ parent = [o \in Ops |-> Null] /\ rank = [o \in Ops |-> 0]
  /\ ifTrue_specified = {} /\ ifFalse_specified = {}
  /\ elseIf = [o \in Ops |-> 0]
  /\ late = {}

-----------------------------------------------------------------------------
Signals == Elements(nets)

Statements == {s \in Ops : kind[s] \in {"assignment", "if"}}

Ifs == {s \in Ops : kind[s] = "if"}

(* Which of the unused addresses an object gets cannot be observed. *)
NewNet == CHOOSE n \in Nets : n \notin Signals

NewOp == CHOOSE o \in Ops : kind[o] = "free"

CanNewNet == \E n \in Nets : n \notin Signals

CanNewOp == \E o \in Ops : kind[o] = "free"

register_node(x) ==
  /\ nodes' = Append(nodes, x)
  /\ index' = [index EXCEPT ![x] = Len(nodes)]

(* sig, sig_in and sig_out: the constructor of Net registers it. *)
sig ==
  /\ CanNewNet /\ Len(nets) < MaxSig
  /\ nets' = Append(nets, NewNet)
  /\ net_index' = [net_index EXCEPT ![NewNet] = Len(nets)]
  /\ register_node(NewNet)
  /\ UNCHANGED <<drivers, endpoints, usage_cache, kind, key, ins, outs, parent, rank,
                 branches, late>>

(* The users of the nets in S, now that o is one of them. *)
Used(S, o) == [n \in Nets |-> IF n \in S THEN endpoints[n] \cup {o} ELSE endpoints[n]]

Cached(k) == \E r \in Nets : <<k, r>> \in usage_cache[k[2][1]]

(* Mutant: the new expression is remembered by its second argument only. *)
CacheWith_second(k, r) ==
  LET a == k[2] IN [usage_cache EXCEPT ![a[Len(a)]] = @ \cup {<<k, r>>}]

CacheWith(k, r) ==
  [n \in Nets |-> IF In(n, k[2]) THEN usage_cache[n] \cup {<<k, r>>} ELSE usage_cache[n]]

(* apply_call of a function on nets whose cache does not know the call:    *)
(* the result net is created first, the call second.                       *)
apply_call(k) ==
  /\ Elements(k[2]) \subseteq Signals
  /\ ~ Cached(k)
  /\ CanNewNet /\ CanNewOp
  /\ LET r == NewNet
         c == NewOp
     IN  /\ nets' = Append(nets, r)
         /\ net_index' = [net_index EXCEPT ![r] = Len(nets)]
         /\ nodes' = Append(Append(nodes, r), c)
         /\ index' = [index EXCEPT ![r] = Len(nodes), ![c] = Len(nodes) + 1]
         /\ kind' = [kind EXCEPT ![c] = "call"]
         /\ key' = [key EXCEPT ![c] = k]
         /\ ins' = [ins EXCEPT ![c] = Elements(k[2])]
         /\ outs' = [outs EXCEPT ![c] = {r}]
         /\ endpoints' = Used(Elements(k[2]), c)
         /\ drivers' = [drivers EXCEPT ![r] = @ \cup {c}]
         /\ usage_cache' = CacheWith(k, r)
  /\ UNCHANGED <<parent, rank, branches, late>>

-----------------------------------------------------------------------------
(* The call of OpSlice that is the only driver of n, if there is one. *)
SliceOf(n) == {c \in drivers[n] : Cardinality(drivers[n]) = 1 /\ key[c] # NoKey /\ key[c][1] = OpSlice}

(* extract_dst_index_cascade: the net that is indexed, and the indexes. *)
Cascade[n \in Nets] ==
  IF SliceOf(n) = {} THEN <<n, {}>>
  ELSE LET args == key[CHOOSE c \in SliceOf(n) : TRUE][2]
       IN  <<Cascade[args[1]][1], Cascade[args[1]][2] \cup {args[2]}>>

(* Mutant: the indexes of the destination are not connected. *)
Assign_no_index(_dst, src) ==
  \E dst \in Signals, dst_index \in SUBSET Signals :
    /\ <<dst, dst_index>> = Cascade[_dst]
    /\ ins' = [ins EXCEPT ![NewOp] = {src} \cup dst_index]
    /\ outs' = [outs EXCEPT ![NewOp] = {dst}]
    /\ endpoints' = Used({src}, NewOp)
    /\ drivers' = [drivers EXCEPT ![dst] = @ \cup {NewOp}]

(* The constructor of Assignment connects it. *)
Assign(_dst, src) ==
  \E dst \in Signals, dst_index \in SUBSET Signals :
    /\ <<dst, dst_index>> = Cascade[_dst]
    /\ ins' = [ins EXCEPT ![NewOp] = {src} \cup dst_index]
    /\ outs' = [outs EXCEPT ![NewOp] = {dst}]
    /\ endpoints' = Used({src} \cup dst_index, NewOp)
    /\ drivers' = [drivers EXCEPT ![dst] = @ \cup {NewOp}]

(* Net::operator()(Net &). *)
assignment(_dst, src) ==
  /\ {_dst, src} \subseteq Signals
  /\ CanNewOp
  /\ kind' = [kind EXCEPT ![NewOp] = "assignment"]
  /\ register_node(NewOp)
  /\ Assign(_dst, src)
  /\ UNCHANGED <<nets, net_index, usage_cache, key, parent, rank, branches, late>>

If(condition) ==
  /\ condition \in Signals
  /\ CanNewOp
  /\ kind' = [kind EXCEPT ![NewOp] = "if"]
  /\ ins' = [ins EXCEPT ![NewOp] = {condition}]
  /\ endpoints' = Used({condition}, NewOp)
  /\ register_node(NewOp)
  /\ UNCHANGED <<nets, net_index, drivers, usage_cache, key, outs, parent, rank, branches, late>>

-----------------------------------------------------------------------------
Ancestors[s \in Ops] ==
  IF parent[s] = Null THEN {} ELSE {parent[s]} \cup Ancestors[parent[s]]

(* Where the loop of _set_parent_stm that looks for the outermost          *)
(* statement ends, when it starts from s.                                  *)
IsTop(t, s) == t \in Statements /\ t \in {s} \cup Ancestors[s] /\ parent[t] = Null

(* Mutant: edges move to the new parent, not to the outermost statement. *)
MoveIO_to_parent(i, S, conds) ==
  /\ endpoints' = [n \in Nets |->
       LET moved == {s \in S : n \in ins[s]}
       IN  (endpoints[n] \ moved) \cup (IF moved # {} \/ n \in conds THEN {i} ELSE {})]
  /\ drivers' = [n \in Nets |->
       LET moved == {s \in S : n \in outs[s]}
       IN  (drivers[n] \ moved) \cup (IF moved # {} THEN {i} ELSE {})]
  /\ ins' = [ins EXCEPT ![i] = @ \cup conds \cup UNION {ins[s] : s \in S}]
  /\ outs' = [outs EXCEPT ![i] = @ \cup UNION {outs[s] : s \in S}]

(* The statements S get the outermost statement t to stand for them in the *)
(* graph; the nets conds become inputs of i.                               *)
MoveIO(i, S, conds) ==
  \E t \in Ops :
    /\ IsTop(t, i)
    /\ endpoints' = [n \in Nets |->
         LET moved == {s \in S : n \in ins[s]}
         IN  (endpoints[n] \ moved) \cup (IF moved # {} THEN {t} ELSE {})
                                    \cup (IF n \in conds THEN {i} ELSE {})]
    /\ drivers' = [n \in Nets |->
         LET moved == {s \in S : n \in outs[s]}
         IN  (drivers[n] \ moved) \cup (IF moved # {} THEN {t} ELSE {})]
    /\ ins' = [o \in Ops |->
         ins[o] \cup (IF o = t THEN UNION {ins[s] : s \in S} ELSE {})
                \cup (IF o = i THEN conds ELSE {})]
    /\ outs' = [outs EXCEPT ![t] = @ \cup UNION {outs[s] : s \in S}]

(* Mutant: the statements of the branch keep their slots in the netlist. *)
unregister_nothing(S) == nodes' = nodes

unregister(S) ==
  nodes' = [p \in DOMAIN nodes |-> IF \E s \in S : index[s] = p - 1 THEN Null ELSE nodes[p]]

(* Mutant: the rank of the statements of the branch is not added. *)
RankWith_branch(i, S) == rank[i] + 1

RankWith(i, S) == rank[i] + 1 + SumFunctionOnSet(rank, S)

(* _register_stements: the IfStatement i gets one more branch, S.  Top     *)
(* statements only, by the assertion; not i itself nor what i is inside of,*)
(* which the loop for the outermost statement would never leave.           *)
_register_stements(i, S, conds) ==
  /\ S \subseteq Statements
  /\ \A s \in S : parent[s] = Null /\ s \notin {i} \cup Ancestors[i]
  /\ parent' = [s \in Ops |-> IF s \in S THEN i ELSE parent[s]]
  /\ MoveIO(i, S, conds)
  /\ unregister(S)
  /\ rank' = [rank EXCEPT ![i] = RankWith(i, S)]
  /\ late' = IF parent[i] = Null THEN late ELSE late \cup {i}
  /\ UNCHANGED <<nets, index, net_index, usage_cache, kind, key>>

(* IfStatement::operator().  It does not ask for a statement without a     *)
(* parent, as Elif and Else do.                                            *)
if_true(i, S) ==
  /\ i \in Ifs
  /\ i \notin ifTrue_specified \cup ifFalse_specified /\ elseIf[i] = 0
  /\ ifTrue_specified' = ifTrue_specified \cup {i}
  /\ _register_stements(i, S, {})
  /\ UNCHANGED <<ifFalse_specified, elseIf>>

Elif(i, cond, S) ==
  /\ i \in ifTrue_specified \ ifFalse_specified
  /\ parent[i] = Null
  /\ cond \in Signals /\ elseIf[i] < MaxElif
  /\ elseIf' = [elseIf EXCEPT ![i] = @ + 1]
  /\ _register_stements(i, S, {cond})
  /\ UNCHANGED <<ifTrue_specified, ifFalse_specified>>

Else(i, S) ==
  /\ i \in Ifs \ ifFalse_specified
  /\ parent[i] = Null
  /\ ifFalse_specified' = ifFalse_specified \cup {i}
  /\ _register_stements(i, S, {})
  /\ UNCHANGED <<ifTrue_specified, elseIf>>

Next ==
  \/ sig
  \/ \E k \in UsageCacheKey : apply_call(k)
  \/ \E dst, src \in Nets : assignment(dst, src)
  \/ \E cond \in Nets : If(cond)
  \/ \E i \in Ops, S \in SUBSET Ops : if_true(i, S)
  \/ \E i \in Ops, cond \in Nets, S \in SUBSET Ops : Elif(i, cond, S)
  \/ \E i \in Ops, S \in SUBSET Ops : Else(i, S)

Spec == Init /\ [][Next]_vars
-----------------------------------------------------------------------------
(* The operations that are not inside of a statement. *)
Graph == {o \in Ops : kind[o] # "free" /\ parent[o] = Null}

(* What integrty_assert wants, on the slots that hold a node: the node in  *)
(* a slot knows the slot, every net has one in nets too, and whatever is   *)
(* connected to a net or operation of the graph has a slot of its own.     *)
(* Nothing but nested statements loses its slot.                           *)
SlotsAgree ==
  /\ \A p \in DOMAIN nodes : nodes[p] # Null => index[nodes[p]] = p - 1
  /\ \A p \in DOMAIN nets : net_index[nets[p]] = p - 1
  /\ Elements(nodes) \ {Null} = Signals \cup Graph
  /\ \A n \in Signals : drivers[n] \cup endpoints[n] \subseteq Elements(nodes)
  /\ \A o \in Ops : ins[o] \cup outs[o] \subseteq Signals

(* The two ends of an edge agree: a net's drivers and endpoints are        *)
(* exactly the operations of the graph, never a nested statement, that     *)
(* have it as an output or as an input.                                    *)
EdgesAgree ==
  \A n \in Nets :
    /\ endpoints[n] = {o \in Graph : n \in ins[o]}
    /\ drivers[n] = {o \in Graph : n \in outs[o]}

(* The outermost statement has all inputs and outputs of the statements    *)
(* at any depth inside of it, in whatever order they were put together.    *)
TopHoldsIO ==
  \A s, t \in Ops :
    t \in Ancestors[s] /\ parent[t] = Null => ins[s] \subseteq ins[t] /\ outs[s] \subseteq outs[t]

(* The caches of nets and the calls in the graph tell the same: a function *)
(* applied to the same nets in the same order exists once, and each of its *)
(* arguments knows its result.                                             *)
ExpressionsShared ==
  /\ \A c, d \in Ops : key[c] # NoKey /\ key[c] = key[d] => c = d
  /\ \A n \in Nets : usage_cache[n] =
       {use \in UsageCacheKey \X Nets :
          \E c \in Ops : key[c] = use[1] /\ In(n, use[1][2]) /\ outs[c] = {use[2]}}

Branches ==
  [s \in Ops |-> elseIf[s] + (IF s \in ifTrue_specified THEN 1 ELSE 0)
                           + (IF s \in ifFalse_specified THEN 1 ELSE 0)]

Inside(s) == {c \in Ops : s \in Ancestors[c]}

(* Statement::rank is, as its comment says, the number of used branches of *)
(* the statement and of all those inside of it - unless a branch was added *)
(* to a statement that was inside of it already.                           *)
RankCountsBranches ==
  \A s \in Statements :
    Inside(s) \cap late = {} => rank[s] = SumFunctionOnSet(Branches, {s} \cup Inside(s))
=============================================================================
