---------------------------- MODULE RemoveUseless ----------------------------
(***************************************************************************)
(* transform::TransformRemoveUseless and ::TransformRemoveByMask: deletes  *)
(* the nodes no output depends on (src/transform/remove_useless.cpp and    *)
(* remove_by_mask.cpp).                                                    *)
(*                                                                         *)
(* QueryTraverse, from its promise in module QueryTraverse, marks what to  *)
(* keep.  A task per thread then collects the kept neighbours of the       *)
(* deleted nodes, a task per thread disconnects the neighbours of one      *)
(* column of the matrix of what was collected, and the calling thread      *)
(* deletes the nodes and packs the vectors.                                *)
(*                                                                         *)
(* The circuit is one that module Netlist builds, without its nested       *)
(* statements: they have left empty slots behind.                          *)
(***************************************************************************)
EXTENDS Naturals, Sequences, UniqueSeq

CONSTANTS Nets, Ops, Null,
          Circuits,             \* the netlists the transformation is applied to
          thread_cnt,           \* thread_pool.size()
          MaxPasses             \* bound: calls of apply

Nodes == Nets \cup Ops

Threads == 0 .. thread_cnt - 1

Slots(nodes) == 0 .. Len(nodes) - 1

Drivers(c, n) == {o \in Ops : n \in c.outs[o]}

ASSUME NodesAssumption == Nets \cap Ops = {} /\ Null \notin Nodes
ASSUME BoundsAssumption == thread_cnt \in Nat \ {0} /\ MaxPasses \in Nat
(* What module Netlist says of a netlist (SlotsAgree, EdgesAgree).  A slot *)
(* is empty where a statement was that is nested in another one by now.    *)
ASSUME CircuitsAssumption ==
  \A c \in Circuits :
    /\ c.nodes \in Seq(Nodes \cup {Null})
    /\ \A p, q \in DOMAIN c.nodes : c.nodes[p] = c.nodes[q] /\ c.nodes[p] # Null => p = q
    /\ c.ins \in [Ops -> SUBSET Nets] /\ c.outs \in [Ops -> SUBSET Nets]
    /\ c.outputs \subseteq Nets /\ c.outputs \subseteq Elements(c.nodes)
    /\ \A o \in Ops : c.ins[o] \cup c.outs[o] \subseteq Elements(c.nodes)
    /\ \A o \in Ops : ~ In(o, c.nodes) => c.ins[o] = {} /\ c.outs[o] = {}

VARIABLES circuit,              \* the netlist as it was built
          nodes, nets,          \* Netlist::nodes and ::nets
          index, net_index,     \* the slots of a node, from 0
          endpoints,            \* Net::endpoints
          deleted,              \* the nodes that were deleted
          phase,                \* of apply: "idle", "collect", "disconnect", "pack"
          node_to_keep_mask,    \* the slots whose flag is set
          cursor,               \* collecting task -> the slot it looks at next
          to_update_ep,         \* matrix of sets, thread_cnt^2 cells
          to_delete,            \* collecting task -> nodes
          result,               \* what the last call returned: "none", "false", "true"
          fault,                \* a bad access: "none", or to an empty "slot", to the
                                \* null of a failed "cast", to a "freed" node
          passes                \* the number of calls

netlist == <<nodes, nets, index, net_index, deleted>>

vars == <<circuit, netlist, endpoints, phase, node_to_keep_mask, cursor, to_update_ep,
          to_delete, result, fault, passes>>

SlotOf(s) == [x \in Elements(s) |-> (CHOOSE p \in DOMAIN s : s[p] = x) - 1]

Init ==
  /\ circuit \in Circuits
  /\ nodes = circuit.nodes
  /\ nets = Kept(nodes, Nets)
  /\ index = SlotOf(nodes)
  /\ net_index = SlotOf(nets)
  /\ endpoints = [n \in Nets |-> {o \in Ops : n \in circuit.ins[o]}]
  /\ deleted = {}
  /\ phase = "idle"
  /\ node_to_keep_mask = {}
  /\ cursor = [t \in Threads |-> t]
  /\ to_update_ep = [cell \in 0 .. thread_cnt * thread_cnt - 1 |-> {}]
  /\ to_delete = [t \in Threads |-> {}]
  /\ result = "none"
  /\ fault = "none"
  /\ passes = 0

-----------------------------------------------------------------------------
(* iNode::backward.  Nothing takes a driver out of Net::drivers. *)
Backward(x) == IF x \in Nets THEN Drivers(circuit, x) ELSE circuit.ins[x]

(* What the outputs depend on, as the circuit was built. *)
Useful ==
  {x \in Nodes :
     \A C \in SUBSET Nodes :
       circuit.outputs \subseteq C /\ (\A y \in C : Backward(y) \subseteq C) => x \in C}

(* Mutant: every flag is set one slot too far. *)
Flags_shifted == {{index[x] + 1 : x \in Useful}}

(* The flags QueryTraverse leaves: they are what it reaches from the       *)
(* outputs, or anything at all when there is no output to start from.      *)
Flags ==
  IF circuit.outputs = {} THEN SUBSET Slots(nodes) ELSE {{index[x] : x \in Useful}}

(* TransformRemoveUseless::apply up to the collecting tasks. *)
apply ==
  /\ phase = "idle" /\ fault = "none" /\ passes < MaxPasses
  /\ passes' = passes + 1
  /\ IF nodes = << >>
     THEN /\ result' = "false"
          /\ UNCHANGED <<phase, node_to_keep_mask>>
     ELSE /\ phase' = "collect"
          /\ result' = "none"
          /\ node_to_keep_mask' \in Flags
          /\ node_to_keep_mask' \subseteq Slots(nodes)
  /\ cursor' = [t \in Threads |-> t]
  /\ to_update_ep' = [cell \in DOMAIN to_update_ep |-> {}]
  /\ to_delete' = [t \in Threads |-> {}]
  /\ UNCHANGED <<circuit, netlist, endpoints, fault>>

Keep(x) == index[x] \in node_to_keep_mask

to_update_ep_index(thread_i, node_i) == thread_i * thread_cnt + (node_i % thread_cnt)

(* Mutant: a slot that is kept is not stepped over. *)
advance_deleting(t) ==
  cursor' = IF cursor[t] \in node_to_keep_mask THEN cursor
            ELSE [cursor EXCEPT ![t] = @ + thread_cnt]

advance(t) == cursor' = [cursor EXCEPT ![t] = @ + thread_cnt]

(* collect_boundaries_between_deleted_and_keept of task t, for one slot. *)
collect(t) ==
  LET i == cursor[t]
      n == nodes[i + 1]
  IN  /\ phase = "collect" /\ fault = "none"
      /\ i < Len(nodes)
      /\ advance(t)
      /\ \/ /\ i \in node_to_keep_mask
            /\ UNCHANGED <<to_update_ep, to_delete, fault>>
         \/ /\ i \notin node_to_keep_mask
            /\ n = Null
            /\ fault' = "slot"
            /\ UNCHANGED <<to_update_ep, to_delete>>
         \/ /\ i \notin node_to_keep_mask
            /\ n # Null /\ Backward(n) \cap deleted # {}
            /\ fault' = "freed"
            /\ UNCHANGED <<to_update_ep, to_delete>>
         \/ /\ i \notin node_to_keep_mask
            /\ n # Null /\ Backward(n) \cap deleted = {}
            /\ to_delete' = [to_delete EXCEPT ![t] = @ \cup {n}]
            /\ to_update_ep' = [cell \in DOMAIN to_update_ep |->
                 to_update_ep[cell] \cup
                   {d \in Backward(n) : Keep(d) /\ cell = to_update_ep_index(t, index[d])}]
            /\ UNCHANGED fault
      /\ UNCHANGED <<circuit, netlist, endpoints, phase, node_to_keep_mask, result, passes>>

(* Mutant: only the matrix is looked at. *)
any_removed_matrix == \E cell \in DOMAIN to_update_ep : to_update_ep[cell] # {}

any_removed ==
  \/ \E t \in Threads : to_delete[t] # {}
  \/ \E cell \in DOMAIN to_update_ep : to_update_ep[cell] # {}

(* g.wait() returns, check_if_any_removed decides. *)
collected ==
  /\ phase = "collect" /\ fault = "none"
  /\ \A t \in Threads : cursor[t] >= Len(nodes)
  /\ IF any_removed THEN phase' = "disconnect" /\ UNCHANGED result
                    ELSE phase' = "idle" /\ result' = "false"
  /\ UNCHANGED <<circuit, netlist, endpoints, node_to_keep_mask, cursor, to_update_ep,
                 to_delete, fault, passes>>

(* Mutant: the arguments are swapped. *)
Column_row(t) == {to_update_ep_index(t, r) : r \in Threads}

Column(t) == {to_update_ep_index(r, t) : r \in Threads}

(* Mutant: the endpoints that stay are disconnected. *)
forward_disconnect_kept(n) ==
  endpoints' = [endpoints EXCEPT ![n] = {o \in @ : ~ Keep(o)}]

(* Net::forward_disconnect with the predicate "is not kept". *)
forward_disconnect(n) == endpoints' = [endpoints EXCEPT ![n] = {o \in @ : Keep(o)}]

(* disconnect_to_remove_connections of task t, for one item: of the first  *)
(* set of its column that has one, and out of the other sets with it.      *)
disconnect(t) ==
  /\ phase = "disconnect" /\ fault = "none"
  /\ \E cell \in Column(t) :
       /\ \A c \in Column(t) : c < cell => to_update_ep[c] = {}
       /\ \E item \in to_update_ep[cell] :
            /\ to_update_ep' = [c \in DOMAIN to_update_ep |->
                 IF c \in Column(t) THEN to_update_ep[c] \ {item} ELSE to_update_ep[c]]
            /\ \/ /\ item \in Nets
                  /\ forward_disconnect(item)
                  /\ UNCHANGED fault
               \/ /\ item \notin Nets
                  /\ fault' = "cast"
                  /\ UNCHANGED endpoints
  /\ UNCHANGED <<circuit, netlist, phase, node_to_keep_mask, cursor, to_delete, result, passes>>

(* g1.wait() returns. *)
disconnected ==
  /\ phase = "disconnect" /\ fault = "none"
  /\ \A t \in Threads : \A cell \in Column(t) : to_update_ep[cell] = {}
  /\ phase' = "pack"
  /\ UNCHANGED <<circuit, netlist, endpoints, node_to_keep_mask, cursor, to_update_ep,
                 to_delete, result, fault, passes>>

repack_nets(s) == net_index' = SlotOf(s)

(* Both erase_if: the useless nodes are unregistered, which empties the    *)
(* slot of a net in nets, and deleted; the indexes count again.            *)
pack ==
  /\ phase = "pack"
  /\ ~ In(Null, nodes)
  /\ LET useless == {x \in Elements(nodes) : ~ Keep(x)}
         slots == {net_index[n] : n \in useless \cap Nets}
         emptied == [p \in DOMAIN nets |-> IF p - 1 \in slots THEN Null ELSE nets[p]]
     IN  /\ deleted' = deleted \cup useless
         /\ nodes' = Kept(nodes, Elements(nodes) \ useless)
         /\ index' = SlotOf(nodes')
         /\ nets' = Kept(emptied, Nodes)
         /\ repack_nets(nets')
  /\ phase' = "idle"
  /\ result' = "true"
  /\ UNCHANGED <<circuit, endpoints, node_to_keep_mask, cursor, to_update_ep, to_delete, fault, passes>>

(* The predicate of erase_if reads the index of every node. *)
pack_empty_slot ==
  /\ phase = "pack" /\ fault = "none"
  /\ In(Null, nodes)
  /\ fault' = "slot"
  /\ UNCHANGED <<circuit, netlist, endpoints, phase, node_to_keep_mask, cursor, to_update_ep,
                 to_delete, result, passes>>

Next ==
  \/ apply
  \/ \E t \in Threads : collect(t)
  \/ collected
  \/ \E t \in Threads : disconnect(t)
  \/ disconnected
  \/ pack
  \/ pack_empty_slot

Spec == Init /\ [][Next]_vars

(* The tasks are run by the thread pool, the rest by the caller of apply. *)
FairSpec ==
  /\ Spec
  /\ \A t \in Threads : WF_vars(collect(t)) /\ WF_vars(disconnect(t))
  /\ WF_vars(collected) /\ WF_vars(disconnected) /\ WF_vars(pack \/ pack_empty_slot)
-----------------------------------------------------------------------------
(* No net is in reach of two disconnecting tasks: forward_disconnect is    *)
(* not synchronized, the remainder of the index keeps the tasks apart.     *)
ColumnsDisjoint ==
  phase = "disconnect" =>
    \A t, u \in Threads : t # u =>
      \A a \in Column(t), b \in Column(u) : to_update_ep[a] \cap to_update_ep[b] = {}

HasOutput == circuit.outputs # {}

Returned == phase = "idle" /\ fault = "none" /\ passes > 0

SlotsPacked ==
  /\ \A p \in DOMAIN nodes : nodes[p] # Null /\ index[nodes[p]] = p - 1
  /\ nets = Kept(nodes, Nets)
  /\ \A p \in DOMAIN nets : net_index[nets[p]] = p - 1

(* A netlist with an output keeps, in their order, exactly the nodes that  *)
(* an output depends on.  The result says whether it got smaller, and then *)
(* its indexes are the slots again; with an output, a second call finds    *)
(* nothing to remove (remove_by_mask.cpp:18-31, 100-191).                  *)
KeepsUseful ==
  Returned =>
    /\ HasOutput => nodes = Kept(circuit.nodes, Useful)
    /\ passes = 1 => (result = "true" <=> nodes # circuit.nodes)
    /\ passes > 1 /\ HasOutput => result = "false"
    /\ result = "true" => SlotsPacked

(* Nothing of a netlist with an output is connected to a deleted node, and *)
(* the endpoints of its nets are what uses them                            *)
(* (remove_by_mask.cpp:73-98, net.cpp:161-163).                            *)
NothingDangles ==
  Returned /\ HasOutput =>
    \A x \in Elements(nodes) :
      /\ x \notin deleted
      /\ x \in Nets => endpoints[x] = {o \in Elements(nodes) \cap Ops : x \in circuit.ins[o]}
      /\ Backward(x) \cap deleted = {}
      /\ x \in Ops => circuit.outs[x] \cap deleted = {}

(* With an output, apply only goes wrong on a netlist with an empty slot,  *)
(* or one with an operation of which one output is useful and another not. *)
FaultsExplained ==
  HasOutput =>
    /\ fault # "freed"
    /\ fault = "slot" => In(Null, circuit.nodes)
    /\ fault = "cast" => \E o \in Useful \cap Ops : ~ circuit.outs[o] \subseteq Useful

(* Every call of apply comes to an end. *)
ApplyReturns == phase # "idle" ~> (phase = "idle" \/ fault # "none")

(* netlist.h says of unregister_node that what it leaves only costs        *)
(* memory: no transformation follows the pointer of an empty slot.         *)
EmptySlotsAreHarmless == fault # "slot"
=============================================================================
