------------------------ MODULE RemoveUselessProofs ------------------------
(***************************************************************************)
(* What TransformRemoveUseless does, for every number of threads and every *)
(* circuit: the disconnecting tasks never share a net, which is why        *)
(* forward_disconnect needs no lock; what is useful stays, in its order;   *)
(* nothing dangles; and the bad accesses are the known ones.               *)
(*                                                                         *)
(* MatrixInv says where the matrix holds a node: in a cell of the column   *)
(* that the remainder of its index names.  IInv says what the tasks of     *)
(* each phase have done so far, and what one pass leaves to the next.      *)
(***************************************************************************)
EXTENDS RemoveUseless, UniqueSeqProofs

Cells == 0 .. thread_cnt * thread_cnt - 1

(* The flags are flags of slots. *)
MaskOfSlots == node_to_keep_mask \subseteq Nat

(* A collected node is one to keep, in the column of its index. *)
Collected ==
  phase \in {"collect", "disconnect"} =>
    \A cell \in Cells : \A d \in to_update_ep[cell] :
      /\ index[d] \in Nat
      /\ \E r \in Threads : cell = to_update_ep_index(r, index[d])

(* The matrix has thread_cnt^2 cells. *)
MatrixType == to_update_ep = [cell \in Cells |-> to_update_ep[cell]]

MatrixInv == MaskOfSlots /\ MatrixType /\ Collected

-----------------------------------------------------------------------------
(* A cell of the matrix names its row and its column. *)
LEMMA CellNames ==
  ASSUME NEW N \in Nat \ {0}, NEW r \in Int, NEW s \in Int,
         NEW a \in 0 .. N - 1, NEW b \in 0 .. N - 1,
         r * N + a = s * N + b
  PROVE  r = s /\ a = b
<1>1. (r - s) * N = b - a
  OBVIOUS
<1>2. CASE r - s >= 1
  <2>1. (r - s) * N >= N
    BY <1>2
  <2> QED
    BY <1>1, <2>1
<1>3. CASE s - r >= 1
  <2>1. (s - r) * N >= N
    BY <1>3
  <2>2. (s - r) * N = a - b
    BY <1>1
  <2> QED
    BY <2>1, <2>2
<1>4. CASE r = s
  BY <1>4
<1> QED
  BY <1>2, <1>3, <1>4

(* A column stays inside of the matrix. *)
LEMMA InMatrix ==
  ASSUME NEW r \in Threads, NEW i \in Nat
  PROVE  /\ i % thread_cnt \in 0 .. thread_cnt - 1
         /\ to_update_ep_index(r, i) \in Cells
<1>0. thread_cnt \in Nat \ {0} /\ r \in 0 .. thread_cnt - 1
  BY BoundsAssumption DEF Threads
<1>1. i % thread_cnt \in 0 .. thread_cnt - 1
  BY <1>0
<1>2. r * thread_cnt <= (thread_cnt - 1) * thread_cnt /\ r * thread_cnt \in Nat
  BY <1>0
<1>3. (thread_cnt - 1) * thread_cnt = thread_cnt * thread_cnt - thread_cnt
  BY <1>0
<1>4. r * thread_cnt + (i % thread_cnt) \in 0 .. thread_cnt * thread_cnt - 1
  BY <1>0, <1>1, <1>2, <1>3
<1> QED
  BY <1>1, <1>4 DEF to_update_ep_index, Cells

(* What Collected says of the cells of two columns. *)
LEMMA ApartByIndex == Collected => ColumnsDisjoint
<1> SUFFICES ASSUME Collected, phase = "disconnect",
                    NEW t \in Threads, NEW u \in Threads, t # u,
                    NEW a \in Column(t), NEW b \in Column(u),
                    NEW d, d \in to_update_ep[a], d \in to_update_ep[b]
             PROVE  FALSE
  BY DEF ColumnsDisjoint
<1>0. thread_cnt \in Nat \ {0} /\ t \in 0 .. thread_cnt - 1 /\ u \in 0 .. thread_cnt - 1
  BY BoundsAssumption DEF Threads
<1>1. PICK ra \in Threads : a = to_update_ep_index(ra, t)
  BY DEF Column
<1>2. PICK rb \in Threads : b = to_update_ep_index(rb, u)
  BY DEF Column
<1>3. t % thread_cnt = t /\ u % thread_cnt = u
  BY <1>0
<1>4. a \in Cells /\ b \in Cells
  BY <1>0, <1>1, <1>2, InMatrix
<1>5. index[d] \in Nat
  BY <1>4 DEF Collected
<1>6. PICK sa \in Threads : a = to_update_ep_index(sa, index[d])
  BY <1>4 DEF Collected
<1>7. PICK sb \in Threads : b = to_update_ep_index(sb, index[d])
  BY <1>4 DEF Collected
<1> DEFINE m == index[d] % thread_cnt
<1>8. m \in 0 .. thread_cnt - 1
  BY <1>5, InMatrix, <1>6
<1>9. ra * thread_cnt + t = sa * thread_cnt + m
  BY <1>1, <1>3, <1>6 DEF to_update_ep_index
<1>10. rb * thread_cnt + u = sb * thread_cnt + m
  BY <1>2, <1>3, <1>7 DEF to_update_ep_index
<1>11. ra \in Int /\ sa \in Int /\ rb \in Int /\ sb \in Int
  BY <1>0 DEF Threads
<1> HIDE DEF m
<1>12. t = m
  BY <1>0, <1>8, <1>9, <1>11, CellNames
<1>13. u = m
  BY <1>0, <1>8, <1>10, <1>11, CellNames
<1> QED
  BY <1>12, <1>13

-----------------------------------------------------------------------------
LEMMA MatrixInitOk == Init => MatrixInv
<1> SUFFICES ASSUME Init PROVE MatrixInv
  OBVIOUS
<1>1. MaskOfSlots
  BY DEF Init, MaskOfSlots
<1>2. MatrixType
  BY DEF Init, MatrixType, Cells
<1>3. Collected
  BY DEF Init, Collected
<1> QED
  BY <1>1, <1>2, <1>3 DEF MatrixInv

(* One slot: what it adds to the matrix is kept, hence has an index. *)
LEMMA CollectOk ==
  ASSUME MatrixInv, NEW t \in Threads, collect(t)
  PROVE  MatrixType' /\ Collected'
<1> DEFINE n == nodes[cursor[t] + 1]
           New(cell) == {d \in Backward(n) : Keep(d) /\ cell = to_update_ep_index(t, index[d])}
<1>1. /\ phase = "collect" /\ phase' = "collect"
      /\ index' = index
  BY DEF collect, netlist
<1>2. CASE UNCHANGED to_update_ep
  BY <1>1, <1>2 DEF MatrixInv, MatrixType, Collected
<1>3. CASE /\ to_update_ep' = [cell \in DOMAIN to_update_ep |-> to_update_ep[cell] \cup New(cell)]
  <2>1. \A cell \in Cells : to_update_ep'[cell] = to_update_ep[cell] \cup New(cell)
    BY <1>3 DEF MatrixInv, MatrixType
  <2>2. \A cell \in Cells : \A d \in New(cell) : index[d] \in Nat
    BY DEF MatrixInv, MaskOfSlots, Keep
  <2>3. Collected'
    BY <1>1, <2>1, <2>2 DEF MatrixInv, Collected
  <2>4. MatrixType'
    BY <1>3 DEF MatrixInv, MatrixType
  <2> QED
    BY <2>3, <2>4
<1> QED
  BY <1>2, <1>3 DEF collect

(* One item: it is taken out. *)
LEMMA DisconnectOk ==
  ASSUME MatrixInv, NEW t \in Threads, disconnect(t)
  PROVE  MatrixType' /\ Collected'
<1>1. index' = index /\ phase = "disconnect" /\ phase' = "disconnect"
  BY DEF disconnect, netlist
<1>2. PICK cell \in Column(t) :
        /\ \A c \in Column(t) : c < cell => to_update_ep[c] = {}
        /\ \E item \in to_update_ep[cell] :
             /\ to_update_ep' = [c \in DOMAIN to_update_ep |->
                  IF c \in Column(t) THEN to_update_ep[c] \ {item} ELSE to_update_ep[c]]
             /\ \/ /\ item \in Nets
                   /\ forward_disconnect(item)
                   /\ UNCHANGED fault
                \/ /\ item \notin Nets
                   /\ fault' = "cast"
                   /\ UNCHANGED endpoints
  BY Zenon DEF disconnect
<1>3. MatrixType'
  BY <1>2 DEF MatrixInv, MatrixType
<1>4. \A c \in Cells : to_update_ep'[c] \subseteq to_update_ep[c]
  BY <1>2 DEF MatrixInv, MatrixType
<1>5. Collected'
  BY <1>1, <1>4 DEF MatrixInv, Collected
<1> QED
  BY <1>3, <1>5

LEMMA MatrixNextOk == MatrixInv /\ [Next]_vars => MatrixInv'
<1> SUFFICES ASSUME MatrixInv, [Next]_vars PROVE MatrixInv'
  OBVIOUS
<1>1. MaskOfSlots'
  <2>1. CASE apply
    <3>1. Slots(nodes) \subseteq Nat
      BY DEF Slots
    <3>2. node_to_keep_mask' = node_to_keep_mask \/ node_to_keep_mask' \subseteq Slots(nodes)
      BY <2>1 DEF apply
    <3> QED
      BY <3>1, <3>2 DEF MatrixInv, MaskOfSlots
  <2>2. CASE UNCHANGED node_to_keep_mask
    BY <2>2 DEF MatrixInv, MaskOfSlots
  <2> QED
    BY <2>1, <2>2
    DEF Next, vars, collect, collected, disconnect, disconnected, pack, pack_empty_slot
<1>2. MatrixType' /\ Collected'
  <2>1. CASE apply
    <3>1. to_update_ep' = [cell \in Cells |-> {}]
      BY <2>1 DEF apply, MatrixInv, MatrixType
    <3> QED
      BY <3>1 DEF MatrixType, Collected
  <2>2. ASSUME NEW t \in Threads, collect(t) PROVE MatrixType' /\ Collected'
    BY <2>2, CollectOk
  <2>3. CASE collected
    BY <2>3 DEF collected, netlist, MatrixInv, MatrixType, Collected, to_update_ep_index
  <2>4. ASSUME NEW t \in Threads, disconnect(t) PROVE MatrixType' /\ Collected'
    BY <2>4, DisconnectOk
  <2>5. CASE disconnected
    BY <2>5 DEF disconnected, MatrixInv, MatrixType, Collected
  <2>6. CASE pack
    BY <2>6 DEF pack, MatrixInv, MatrixType, Collected
  <2>7. CASE pack_empty_slot
    BY <2>7 DEF pack_empty_slot, netlist, MatrixInv, MatrixType, Collected
  <2>8. CASE UNCHANGED vars
    BY <2>8 DEF vars, netlist, MatrixInv, MatrixType, Collected
  <2> QED
    BY <2>1, <2>2, <2>3, <2>4, <2>5, <2>6, <2>7, <2>8 DEF Next
<1> QED
  BY <1>1, <1>2 DEF MatrixInv

-----------------------------------------------------------------------------
(* Every task is at a slot of its own, and works on its own set. *)
TasksType ==
  /\ cursor = [t \in Threads |-> cursor[t]]
  /\ \A t \in Threads : cursor[t] \in Nat /\ cursor[t] % thread_cnt = t
  /\ to_delete = [t \in Threads |-> to_delete[t]]

(* The vectors hold a node once, and the indexes say where. *)
VectorsAgree ==
  /\ circuit \in Circuits
  /\ nodes \in Seq(Nodes \cup {Null})
  /\ \A p, q \in DOMAIN nodes : nodes[p] = nodes[q] /\ nodes[p] # Null => p = q
  /\ nets = Kept(nodes, Nets)
  /\ index = SlotOf(nodes)
  /\ net_index = SlotOf(nets)

(* Where apply is, and what it has returned. *)
Calls ==
  /\ passes \in Nat
  /\ phase \in {"idle", "collect", "disconnect", "pack"}
  /\ phase # "idle" => passes > 0 /\ result = "none"
  /\ passes = 0 => result = "none" /\ fault = "none"
  /\ phase = "pack" /\ fault # "none" => In(Null, nodes)

(* No call has returned yet. *)
FirstCall == passes = 0 \/ (passes = 1 /\ phase # "idle")

Untouched == FirstCall => nodes = circuit.nodes /\ deleted = {}

(* What a call does to a netlist with an output is done by the first one. *)
Afterwards == HasOutput /\ ~ FirstCall => nodes = Kept(circuit.nodes, Useful)

DeletedUseless == HasOutput => deleted \cap Useful = {}

Flagged == HasOutput /\ phase # "idle" => node_to_keep_mask = {index[x] : x \in Useful}

Unkept == {i \in Slots(nodes) : i \notin node_to_keep_mask}

(* Only nodes without a flag are to be deleted, and the matrix says        *)
(* nothing unless there are some.                                          *)
Doomed ==
  phase # "idle" =>
    /\ \A t \in Threads : \A x \in to_delete[t] : x # Null /\ \E i \in Unkept : x = nodes[i + 1]
    /\ \/ \E t \in Threads : to_delete[t] # {}
       \/ phase = "collect" /\ \A cell \in Cells : to_update_ep[cell] = {}

(* What is in the matrix is used by a node that goes. *)
Boundary ==
  HasOutput /\ phase \in {"collect", "disconnect"} =>
    \A cell \in Cells : \A d \in to_update_ep[cell] :
      Keep(d) /\ \E i \in Unkept : nodes[i + 1] # Null /\ d \in Backward(nodes[i + 1])

UsersBuilt(n) == {o \in Ops : n \in circuit.ins[o]}

(* It waits in the matrix, or it was disconnected. *)
Noted(d) ==
  \/ \E cell \in Cells : d \in to_update_ep[cell]
  \/ phase # "collect" /\ d \in Nets /\ endpoints[d] = UsersBuilt(d) \cap Useful

LookedAt(i) == phase # "collect" \/ i < cursor[i % thread_cnt]

(* No useless node that was looked at is forgotten, nor what it used. *)
Looked ==
  HasOutput /\ phase # "idle" /\ fault = "none" =>
    \A i \in Unkept :
      LookedAt(i) =>
        /\ nodes[i + 1] # Null
        /\ \E t \in Threads : nodes[i + 1] \in to_delete[t]
        /\ \A d \in Backward(nodes[i + 1]) : Keep(d) => Noted(d)

(* pack finds the matrix empty. *)
MatrixEmptied == phase = "pack" => \A cell \in Cells : to_update_ep[cell] = {}

EndpointsType ==
  /\ endpoints = [n \in Nets |-> endpoints[n]]
  /\ HasOutput => \A n \in Nets : endpoints[n] \in {UsersBuilt(n), UsersBuilt(n) \cap Useful}

(* After the first call what is left is connected to nothing else. *)
Connected ==
  HasOutput /\ ~ FirstCall /\ fault = "none" =>
    \A x \in Useful :
      /\ x \in Nets => endpoints[x] = UsersBuilt(x) \cap Useful
      /\ x \in Ops => circuit.outs[x] \subseteq Useful

Results ==
  /\ passes = 1 /\ phase = "idle" => (result = "true" <=> nodes # circuit.nodes)
  /\ passes > 1 /\ phase = "idle" /\ HasOutput => result = "false"
  /\ result = "true" => ~ In(Null, nodes)

IInv ==
  /\ MatrixInv
  /\ TasksType /\ VectorsAgree /\ Calls
  /\ Untouched /\ Afterwards /\ DeletedUseless /\ Flagged
  /\ Doomed /\ Boundary /\ Looked /\ MatrixEmptied
  /\ EndpointsType /\ Connected /\ Results /\ FaultsExplained

-----------------------------------------------------------------------------
(* The slot of an element is where it stands. *)
LEMMA SlotFacts ==
  ASSUME NEW X, NEW s \in Seq(X)
  PROVE  /\ \A x \in Elements(s) :
              SlotOf(s)[x] \in 0 .. Len(s) - 1 /\ s[SlotOf(s)[x] + 1] = x
         /\ \A p \in DOMAIN s :
              (\A q \in DOMAIN s : s[q] = s[p] => q = p) => SlotOf(s)[s[p]] = p - 1
<1> DEFINE at(x) == CHOOSE p \in DOMAIN s : s[p] = x
<1>1. Len(s) \in Nat /\ DOMAIN s = 1 .. Len(s)
  OBVIOUS
<1>2. \A x \in Elements(s) : at(x) \in DOMAIN s /\ s[at(x)] = x
  BY DEF Elements
<1>3. \A x \in Elements(s) : SlotOf(s)[x] = at(x) - 1
  BY DEF SlotOf
<1>4. \A p \in DOMAIN s : s[p] \in Elements(s)
  BY DEF Elements
<1> HIDE DEF at
<1>5. \A x \in Elements(s) : (at(x) - 1) + 1 = at(x) /\ at(x) - 1 \in 0 .. Len(s) - 1
  <2> SUFFICES ASSUME NEW x \in Elements(s)
               PROVE  (at(x) - 1) + 1 = at(x) /\ at(x) - 1 \in 0 .. Len(s) - 1
    OBVIOUS
  <2> DEFINE p == at(x)
  <2>1. p \in 1 .. Len(s)
    BY <1>1, <1>2
  <2> HIDE DEF p
  <2>2. (p - 1) + 1 = p /\ p - 1 \in 0 .. Len(s) - 1
    BY <1>1, <2>1
  <2> QED
    BY <2>2 DEF p
<1>6. \A x \in Elements(s) : SlotOf(s)[x] \in 0 .. Len(s) - 1 /\ s[SlotOf(s)[x] + 1] = x
  BY <1>2, <1>3, <1>5
<1>7. \A p \in DOMAIN s :
        (\A q \in DOMAIN s : s[q] = s[p] => q = p) => SlotOf(s)[s[p]] = p - 1
  BY <1>2, <1>3, <1>4
<1> QED
  BY <1>6, <1>7

(* The index of a node is its slot. *)
LEMMA IndexFacts ==
  ASSUME VectorsAgree
  PROVE  /\ \A i \in Slots(nodes) :
              /\ i \in Nat /\ i + 1 \in DOMAIN nodes
              /\ nodes[i + 1] \in Elements(nodes)
              /\ nodes[i + 1] # Null => index[nodes[i + 1]] = i
         /\ \A x \in Elements(nodes) : index[x] \in Slots(nodes) /\ nodes[index[x] + 1] = x
<1> USE DEF VectorsAgree
<1>1. Len(nodes) \in Nat /\ DOMAIN nodes = 1 .. Len(nodes)
  OBVIOUS
<1>2. \A x \in Elements(nodes) : index[x] \in Slots(nodes) /\ nodes[index[x] + 1] = x
  BY SlotFacts DEF Slots
<1>3. \A i \in Slots(nodes) : i \in Nat /\ i + 1 \in DOMAIN nodes /\ nodes[i + 1] \in Elements(nodes)
  BY <1>1 DEF Slots, Elements
<1>4. ASSUME NEW i \in Slots(nodes), nodes[i + 1] # Null
      PROVE  index[nodes[i + 1]] = i
  <2>1. index[nodes[i + 1]] \in Slots(nodes) /\ nodes[index[nodes[i + 1]] + 1] = nodes[i + 1]
    BY <1>2, <1>3
  <2>2. index[nodes[i + 1]] + 1 \in DOMAIN nodes
    BY <1>3, <2>1
  <2>3. index[nodes[i + 1]] + 1 = i + 1
    BY <1>3, <1>4, <2>1, <2>2
  <2> QED
    BY <1>3, <2>1, <2>3
<1> QED
  BY <1>2, <1>3, <1>4

(* What CircuitsAssumption says of the circuit at hand. *)
LEMMA CircuitFacts ==
  ASSUME VectorsAgree
  PROVE  /\ circuit.nodes \in Seq(Nodes \cup {Null})
         /\ \A p, q \in DOMAIN circuit.nodes :
              circuit.nodes[p] = circuit.nodes[q] /\ circuit.nodes[p] # Null => p = q
         /\ circuit.ins \in [Ops -> SUBSET Nets] /\ circuit.outs \in [Ops -> SUBSET Nets]
         /\ circuit.outputs \subseteq Nets /\ circuit.outputs \subseteq Elements(circuit.nodes)
         /\ \A o \in Ops : circuit.ins[o] \cup circuit.outs[o] \subseteq Elements(circuit.nodes)
         /\ \A o \in Ops : ~ In(o, circuit.nodes) => circuit.ins[o] = {} /\ circuit.outs[o] = {}
BY CircuitsAssumption DEF VectorsAgree

(* backward leads from nodes to nodes, all of them of the netlist. *)
LEMMA BackwardFacts ==
  ASSUME VectorsAgree, NEW x \in Nodes
  PROVE  /\ Backward(x) \subseteq Nodes
         /\ Backward(x) \subseteq Elements(circuit.nodes)
         /\ x \notin Nets => Backward(x) \subseteq Nets
         /\ \A d \in Backward(x) : d \notin Nets => d \in Ops /\ x \in circuit.outs[d]
<1>1. CASE x \in Nets
  BY <1>1, CircuitFacts DEF Backward, Drivers, Nodes, In
<1>2. CASE x \in Ops /\ x \notin Nets
  <2>1. Backward(x) = circuit.ins[x]
    BY <1>2 DEF Backward
  <2>2. circuit.ins[x] \subseteq Nets /\ circuit.ins[x] \subseteq Elements(circuit.nodes)
    BY <1>2, CircuitFacts
  <2> QED
    BY <1>2, <2>1, <2>2 DEF Nodes
<1> QED
  BY <1>1, <1>2 DEF Nodes

(* Useful is closed, and the least closed set. *)
LEMMA UsefulFacts ==
  ASSUME VectorsAgree
  PROVE  /\ Useful \subseteq Nodes /\ Null \notin Useful
         /\ circuit.outputs \subseteq Useful
         /\ Useful \subseteq Elements(circuit.nodes)
         /\ \A x \in Useful : Backward(x) \subseteq Useful
<1>1. Useful \subseteq Nodes /\ Null \notin Useful
  BY NodesAssumption DEF Useful
<1>2. circuit.outputs \subseteq Useful
  BY CircuitFacts DEF Useful, Nodes
<1>3. ASSUME NEW x \in Useful, NEW y \in Backward(x)
      PROVE  y \in Useful
  <2>1. y \in Nodes
    BY <1>1, BackwardFacts
  <2>2. ASSUME NEW C \in SUBSET Nodes, circuit.outputs \subseteq C,
               \A z \in C : Backward(z) \subseteq C
        PROVE  y \in C
    BY <2>2 DEF Useful
  <2> QED
    BY <2>1, <2>2 DEF Useful
<1>4. Useful \subseteq Elements(circuit.nodes)
  <2> DEFINE C == Elements(circuit.nodes) \cap Nodes
  <2>1. C \in SUBSET Nodes
    OBVIOUS
  <2>2. circuit.outputs \subseteq C
    BY CircuitFacts DEF Nodes
  <2>3. \A y \in C : Backward(y) \subseteq C
    BY BackwardFacts
  <2> HIDE DEF C
  <2>4. Useful \subseteq C
    BY <2>1, <2>2, <2>3 DEF Useful
  <2> QED
    BY <2>4 DEF C
<1> QED
  BY <1>1, <1>2, <1>3, <1>4

(* Whatever an output needs is still there; after the first call nothing   *)
(* else is.                                                                *)
LEMMA StillThere ==
  ASSUME IInv, HasOutput
  PROVE  /\ Useful \subseteq Elements(nodes) /\ Elements(nodes) \subseteq Elements(circuit.nodes)
         /\ ~ FirstCall => Elements(nodes) = Useful
<1>0. VectorsAgree
  BY DEF IInv
<1>1. CASE FirstCall
  BY <1>0, <1>1, UsefulFacts DEF IInv, Untouched
<1>2. CASE ~ FirstCall
  <2>1. nodes = Kept(circuit.nodes, Useful)
    BY <1>2 DEF IInv, Afterwards
  <2>2. circuit.nodes \in Seq(Nodes \cup {Null})
    BY <1>0, CircuitFacts
  <2>3. Elements(nodes) = Elements(circuit.nodes) \cap Useful
    BY <2>1, <2>2, KeptFacts
  <2> QED
    BY <1>0, <1>2, <2>3, UsefulFacts
<1> QED
  BY <1>1, <1>2

(* The flags of a netlist with an output say what is useful. *)
LEMMA FlagFacts ==
  ASSUME IInv, HasOutput, phase # "idle"
  PROVE  /\ \A x \in Elements(nodes) : Keep(x) <=> x \in Useful
         /\ \A i \in Slots(nodes) : i \in Unkept <=> nodes[i + 1] \notin Useful
<1>0. VectorsAgree /\ node_to_keep_mask = {index[x] : x \in Useful} /\ Useful \subseteq Elements(nodes)
  BY StillThere DEF IInv, Flagged
<1>1. ASSUME NEW i \in Slots(nodes), i \in node_to_keep_mask
      PROVE  nodes[i + 1] \in Useful
  <2>1. PICK x \in Useful : i = index[x]
    BY <1>0, <1>1
  <2>2. nodes[index[x] + 1] = x
    BY <1>0, IndexFacts
  <2> QED
    BY <2>1, <2>2
<1>2. ASSUME NEW i \in Slots(nodes), nodes[i + 1] \in Useful
      PROVE  i \in node_to_keep_mask
  <2>1. nodes[i + 1] # Null
    BY <1>0, <1>2, UsefulFacts
  <2>2. index[nodes[i + 1]] = i
    BY <1>0, <2>1, IndexFacts
  <2> QED
    BY <1>0, <1>2, <2>2
<1>3. \A i \in Slots(nodes) : i \in Unkept <=> nodes[i + 1] \notin Useful
  BY <1>1, <1>2 DEF Unkept
<1>4. \A x \in Elements(nodes) : Keep(x) <=> x \in Useful
  <2>1. \A x \in Elements(nodes) : index[x] \in Slots(nodes) /\ nodes[index[x] + 1] = x
    BY <1>0, IndexFacts
  <2> QED
    BY <1>1, <1>2, <2>1 DEF Keep
<1> QED
  BY <1>3, <1>4

(* A later call finds every slot flagged, and nothing to do. *)
LEMMA LaterCall ==
  ASSUME IInv, HasOutput, phase # "idle", ~ FirstCall
  PROVE  /\ Unkept = {} /\ phase = "collect"
         /\ \A t \in Threads : to_delete[t] = {}
         /\ \A cell \in Cells : to_update_ep[cell] = {}
<1>0. VectorsAgree /\ Elements(nodes) = Useful
  BY StillThere DEF IInv
<1>1. Unkept = {}
  <2>1. \A i \in Slots(nodes) : nodes[i + 1] \in Useful
    BY <1>0, IndexFacts
  <2>2. \A i \in Slots(nodes) : i \notin Unkept
    BY <2>1, FlagFacts
  <2> QED
    BY <2>2 DEF Unkept
<1>2. \A t \in Threads : to_delete[t] = {}
  BY <1>1 DEF IInv, Doomed
<1> QED
  BY <1>1, <1>2 DEF IInv, Doomed

-----------------------------------------------------------------------------
LEMMA InitOk == Init => IInv
<1> SUFFICES ASSUME Init PROVE IInv
  OBVIOUS
<1>1. MatrixInv
  BY MatrixInitOk
<1>2. TasksType
  <2>1. \A t \in Threads : t \in Nat /\ t % thread_cnt = t
    BY BoundsAssumption DEF Threads
  <2> QED
    BY <2>1 DEF Init, TasksType
<1>3. VectorsAgree
  BY CircuitsAssumption DEF Init, VectorsAgree
<1>4. Calls /\ FirstCall /\ Untouched /\ Afterwards /\ DeletedUseless /\ Flagged
  BY DEF Init, Calls, FirstCall, Untouched, Afterwards, DeletedUseless, Flagged
<1>5. Doomed /\ Boundary /\ Looked /\ MatrixEmptied /\ Connected /\ Results /\ FaultsExplained
  BY <1>4 DEF Init, Doomed, Boundary, Looked, MatrixEmptied, Connected, Results, FaultsExplained
<1>6. EndpointsType
  BY DEF Init, EndpointsType, UsersBuilt
<1> QED
  BY <1>1, <1>2, <1>3, <1>4, <1>5, <1>6 DEF IInv

(* What speaks of the circuit stays as long as the circuit does. *)
LEMMA SameCircuit ==
  ASSUME UNCHANGED circuit
  PROVE  HasOutput' = HasOutput /\ Useful' = Useful
BY DEF HasOutput, Useful, Backward, Drivers

(* As long as the vectors stay, so does what they say of each other. *)
LEMMA SameVectors ==
  ASSUME IInv, UNCHANGED <<circuit, nodes, nets, index, net_index, deleted>>
  PROVE  VectorsAgree' /\ DeletedUseless'
BY SameCircuit DEF IInv, VectorsAgree, DeletedUseless

LEMMA ApplyOk ==
  ASSUME IInv, apply
  PROVE  IInv'
<1>1. /\ UNCHANGED <<circuit, nodes, nets, index, net_index, deleted, endpoints, fault>>
      /\ phase = "idle" /\ fault = "none" /\ passes \in Nat /\ passes' = passes + 1
      /\ phase' \in {"idle", "collect"}
      /\ cursor' = [t \in Threads |-> t] /\ to_delete' = [t \in Threads |-> {}]
      /\ to_update_ep' = [cell \in Cells |-> {}]
  BY DEF apply, netlist, IInv, Calls, MatrixInv, MatrixType
<1>2. HasOutput' = HasOutput /\ Useful' = Useful
  BY <1>1, SameCircuit
<1>3. \/ nodes = << >> /\ result' = "false" /\ phase' = "idle" /\ ~ HasOutput
      \/ /\ phase' = "collect" /\ result' = "none"
         /\ node_to_keep_mask' \in Flags
  <2>1. ASSUME nodes = << >>, HasOutput PROVE FALSE
    <3>1. Elements(nodes) = {}
      BY <2>1 DEF Elements
    <3> QED
      BY <2>1, <3>1, StillThere, UsefulFacts DEF IInv, HasOutput
  <2> QED
    BY <1>1, <2>1 DEF apply
<1>4. MatrixInv'
  BY MatrixNextOk DEF IInv, Next
<1>5. TasksType'
  <2>1. \A t \in Threads : t \in Nat /\ t % thread_cnt = t
    BY BoundsAssumption DEF Threads
  <2> QED
    BY <1>1, <2>1 DEF TasksType
<1>6. VectorsAgree' /\ DeletedUseless'
  BY <1>1, SameVectors
<1>7. Calls'
  BY <1>1, <1>3 DEF Calls, IInv
<1>8. FirstCall' => FirstCall /\ passes = 0
  BY <1>1 DEF FirstCall
<1>9. ~ FirstCall' /\ HasOutput => ~ FirstCall
  BY <1>1, <1>3 DEF FirstCall
<1>10. Untouched' /\ Afterwards' /\ Connected'
  BY <1>1, <1>2, <1>8, <1>9 DEF IInv, Untouched, Afterwards, Connected, UsersBuilt
<1>11. Flagged'
  BY <1>1, <1>2, <1>3 DEF Flagged, Flags, HasOutput
<1>12. Doomed' /\ Boundary' /\ MatrixEmptied'
  BY <1>1 DEF Doomed, Boundary, MatrixEmptied
<1>13. Looked'
  <2> SUFFICES ASSUME phase' = "collect", NEW i \in Unkept', LookedAt(i)' PROVE FALSE
    BY <1>1 DEF Looked
  <2>1. i \in Nat
    BY <1>1, IndexFacts DEF Unkept, Slots, IInv
  <2>2. i % thread_cnt \in Threads /\ i % thread_cnt <= i
    BY <2>1, BoundsAssumption DEF Threads
  <2>3. i < i % thread_cnt
    BY <1>1, <2>2 DEF LookedAt
  <2> QED
    BY <2>1, <2>2, <2>3, BoundsAssumption
<1>14. EndpointsType'
  BY <1>1, <1>2 DEF EndpointsType, UsersBuilt, IInv
<1>15. Results'
  BY <1>1, <1>3, <1>2 DEF Results, IInv, Untouched, FirstCall, Calls
<1>16. FaultsExplained'
  BY <1>1 DEF FaultsExplained
<1> QED
  BY <1>4, <1>5, <1>6, <1>7, <1>10, <1>11, <1>12, <1>13, <1>14, <1>15, <1>16 DEF IInv

(* Every collecting task is at the end. *)
LEMMA AllLookedAt ==
  ASSUME TasksType, VectorsAgree, \A t \in Threads : cursor[t] >= Len(nodes), NEW i \in Unkept
  PROVE  LookedAt(i)
<1>1. i \in Nat /\ i < Len(nodes) /\ Len(nodes) \in Nat
  BY DEF Unkept, Slots, VectorsAgree
<1>2. i % thread_cnt \in Threads
  BY <1>1, BoundsAssumption DEF Threads
<1>3. cursor[i % thread_cnt] \in Nat /\ cursor[i % thread_cnt] >= Len(nodes)
  BY <1>2 DEF TasksType
<1> QED
  BY <1>1, <1>3 DEF LookedAt

(* When nothing is useless the circuit is already what it is to become. *)
LEMMA NothingUseless ==
  ASSUME IInv, HasOutput, phase # "idle", FirstCall, Unkept = {}
  PROVE  /\ circuit.nodes = Kept(circuit.nodes, Useful)
         /\ \A x \in Useful :
              /\ x \in Nets => endpoints[x] = UsersBuilt(x) \cap Useful
              /\ x \in Ops => circuit.outs[x] \subseteq Useful
<1>0. VectorsAgree /\ nodes = circuit.nodes
  BY DEF IInv, Untouched
<1>1. Elements(circuit.nodes) \subseteq Useful
  <2> SUFFICES ASSUME NEW p \in DOMAIN nodes PROVE nodes[p] \in Useful
    BY <1>0 DEF Elements
  <2>1. p - 1 \in Slots(nodes) /\ (p - 1) + 1 = p
    BY <1>0 DEF VectorsAgree, Slots
  <2> QED
    BY <2>1, FlagFacts
<1>2. circuit.nodes = Kept(circuit.nodes, Useful)
  BY <1>0, <1>1, CircuitFacts, KeptFacts
<1>3. \A n \in Nets : UsersBuilt(n) \subseteq Useful
  BY <1>0, <1>1, CircuitFacts DEF UsersBuilt, In
<1>4. \A n \in Nets : endpoints[n] = UsersBuilt(n) \cap Useful
  BY <1>3 DEF IInv, EndpointsType
<1>5. \A o \in Ops : circuit.outs[o] \subseteq Useful
  BY <1>0, <1>1, CircuitFacts
<1> QED
  BY <1>2, <1>4, <1>5

LEMMA CollectedOk ==
  ASSUME IInv, collected
  PROVE  IInv'
<1>1. /\ UNCHANGED <<circuit, nodes, nets, index, net_index, deleted, endpoints,
                     node_to_keep_mask, cursor, to_update_ep, to_delete, fault, passes>>
      /\ phase = "collect" /\ fault = "none" /\ \A t \in Threads : cursor[t] >= Len(nodes)
      /\ \/ any_removed /\ phase' = "disconnect" /\ result' = result
         \/ ~ any_removed /\ phase' = "idle" /\ result' = "false"
  BY DEF collected, netlist
<1>2. HasOutput' = HasOutput /\ Useful' = Useful
  BY <1>1, SameCircuit
<1>3. MatrixInv'
  BY MatrixNextOk DEF IInv, Next
<1>4. VectorsAgree' /\ DeletedUseless' /\ TasksType' /\ MatrixEmptied' /\ FaultsExplained'
  BY <1>1, <1>2, SameVectors DEF IInv, TasksType, MatrixEmptied, FaultsExplained
<1>5. Calls' /\ Results'
  BY <1>1, <1>2 DEF IInv, Calls, Results, Untouched, FirstCall
<1>6. EndpointsType' /\ Untouched'
  BY <1>1, <1>2 DEF IInv, EndpointsType, UsersBuilt, Untouched, FirstCall, Calls
<1>7. \A i \in Unkept : LookedAt(i)
  BY <1>1, AllLookedAt DEF IInv
<1>8. Unkept' = Unkept
  BY <1>1 DEF Unkept, Slots
<1>9. CASE phase' = "disconnect"
  <2>1. FirstCall' = FirstCall
    BY <1>1, <1>9 DEF FirstCall
  <2>2. Afterwards' /\ Flagged' /\ Connected'
    BY <1>1, <1>2, <1>9, <2>1 DEF IInv, Afterwards, Flagged, Connected, UsersBuilt
  <2>3. Doomed'
    <3>1. \E t \in Threads : to_delete[t] # {}
      BY <1>1, <1>9 DEF IInv, Doomed, any_removed, MatrixInv, MatrixType
    <3> QED
      BY <1>1, <1>8, <3>1 DEF IInv, Doomed
  <2>4. Boundary'
    BY <1>1, <1>2, <1>8 DEF IInv, Boundary, Keep, Backward, Drivers
  <2>5. Looked'
    <3> SUFFICES ASSUME HasOutput, NEW i \in Unkept
                 PROVE  /\ nodes[i + 1] # Null
                        /\ \E t \in Threads : nodes[i + 1] \in to_delete[t]
                        /\ \A d \in Backward(nodes[i + 1]) :
                             Keep(d) => \E cell \in Cells : d \in to_update_ep[cell]
      BY <1>1, <1>2, <1>8 DEF Looked, Keep, Backward, Drivers, Noted
    <3> QED
      BY <1>1, <1>7 DEF IInv, Looked, Noted
  <2> QED
    BY <1>3, <1>4, <1>5, <1>6, <2>2, <2>3, <2>4, <2>5 DEF IInv
<1>10. CASE phase' = "idle"
  <2>1. Flagged' /\ Doomed' /\ Boundary' /\ Looked'
    BY <1>10 DEF Flagged, Doomed, Boundary, Looked
  <2>2. ASSUME HasOutput PROVE Unkept = {}
    <3>1. \A t \in Threads : to_delete[t] = {}
      BY <1>1, <1>10 DEF any_removed
    <3> QED
      BY <1>1, <1>7, <2>2, <3>1 DEF IInv, Looked
  <2>3. Afterwards' /\ Connected'
    <3>1. CASE FirstCall /\ HasOutput
      <4>1. nodes = circuit.nodes
        BY <3>1 DEF IInv, Untouched
      <4> QED
        BY <1>1, <1>2, <2>2, <3>1, <4>1, NothingUseless DEF Afterwards, Connected, UsersBuilt
    <3>2. CASE ~ FirstCall \/ ~ HasOutput
      BY <1>1, <1>2, <3>2 DEF IInv, Afterwards, Connected, UsersBuilt
    <3> QED
      BY <3>1, <3>2
  <2> QED
    BY <1>3, <1>4, <1>5, <1>6, <2>1, <2>3 DEF IInv
<1> QED
  BY <1>1, <1>9, <1>10

LEMMA DisconnectedOk ==
  ASSUME IInv, disconnected
  PROVE  IInv'
<1>1. /\ UNCHANGED <<circuit, nodes, nets, index, net_index, deleted, endpoints,
                     node_to_keep_mask, cursor, to_update_ep, to_delete, result, fault, passes>>
      /\ phase = "disconnect" /\ phase' = "pack" /\ fault = "none"
      /\ \A t \in Threads : \A cell \in Column(t) : to_update_ep[cell] = {}
  BY DEF disconnected, netlist
<1>2. HasOutput' = HasOutput /\ Useful' = Useful /\ Unkept' = Unkept /\ FirstCall' = FirstCall
  BY <1>1, SameCircuit DEF Unkept, Slots, FirstCall
<1>3. MatrixInv'
  BY MatrixNextOk DEF IInv, Next
<1>4. VectorsAgree' /\ DeletedUseless' /\ TasksType' /\ FaultsExplained'
  BY <1>1, <1>2, SameVectors DEF IInv, TasksType, FaultsExplained
<1>5. Calls' /\ Results' /\ EndpointsType' /\ Untouched'
  BY <1>1, <1>2 DEF IInv, Calls, Results, EndpointsType, UsersBuilt, Untouched
<1>6. Afterwards' /\ Flagged' /\ Connected'
  BY <1>1, <1>2 DEF IInv, Afterwards, Flagged, Connected, UsersBuilt
<1>7. Doomed' /\ Boundary'
  BY <1>1, <1>2 DEF IInv, Doomed, Boundary
<1>8. Looked'
  BY <1>1, <1>2 DEF IInv, Looked, LookedAt, Keep, Backward, Drivers, Noted, UsersBuilt
<1>9. MatrixEmptied'
  <2> SUFFICES ASSUME NEW cell \in Cells, NEW d \in to_update_ep[cell] PROVE FALSE
    BY <1>1 DEF MatrixEmptied
  <2>1. index[d] \in Nat /\ \E r \in Threads : cell = to_update_ep_index(r, index[d])
    BY <1>1 DEF IInv, MatrixInv, Collected
  <2>2. PICK r \in Threads : cell = to_update_ep_index(r, index[d])
    BY <2>1
  <2> DEFINE m == index[d] % thread_cnt
  <2>3. m \in 0 .. thread_cnt - 1
    BY <2>1, <2>2, InMatrix
  <2>4. m % thread_cnt = m /\ m \in Threads
    BY <2>3, BoundsAssumption DEF Threads
  <2>5. cell \in Column(m)
    BY <2>2, <2>4 DEF Column, to_update_ep_index
  <2> QED
    BY <1>1, <2>4, <2>5
<1> QED
  BY <1>3, <1>4, <1>5, <1>6, <1>7, <1>8, <1>9 DEF IInv

LEMMA EmptySlotOk ==
  ASSUME IInv, pack_empty_slot
  PROVE  IInv'
<1>1. /\ UNCHANGED <<circuit, nodes, nets, index, net_index, deleted, endpoints, phase,
                     node_to_keep_mask, cursor, to_update_ep, to_delete, result, passes>>
      /\ phase = "pack" /\ In(Null, nodes) /\ fault' = "slot"
  BY DEF pack_empty_slot, netlist
<1>2. HasOutput' = HasOutput /\ Useful' = Useful /\ Unkept' = Unkept /\ FirstCall' = FirstCall
  BY <1>1, SameCircuit DEF Unkept, Slots, FirstCall
<1>3. MatrixInv'
  BY MatrixNextOk DEF IInv, Next
<1>4. VectorsAgree' /\ DeletedUseless' /\ TasksType'
  BY <1>1, SameVectors DEF IInv, TasksType
<1>5. Calls' /\ Results' /\ EndpointsType' /\ Untouched'
  BY <1>1, <1>2 DEF IInv, Calls, Results, EndpointsType, UsersBuilt, Untouched
<1>6. Afterwards' /\ Flagged' /\ Connected' /\ Looked'
  BY <1>1, <1>2 DEF IInv, Afterwards, Flagged, Connected, Looked
<1>7. Doomed' /\ Boundary' /\ MatrixEmptied'
  BY <1>1, <1>2 DEF IInv, Doomed, Boundary, MatrixEmptied
<1>8. FaultsExplained'
  BY <1>1, <1>2, StillThere DEF FaultsExplained, In
<1> QED
  BY <1>3, <1>4, <1>5, <1>6, <1>7, <1>8 DEF IInv

LEMMA StutterOk ==
  ASSUME IInv, UNCHANGED vars
  PROVE  IInv'
<1>1. UNCHANGED <<circuit, nodes, nets, index, net_index, deleted, endpoints, phase,
                  node_to_keep_mask, cursor, to_update_ep, to_delete, result, fault, passes>>
  BY DEF vars, netlist
<1>2. HasOutput' = HasOutput /\ Useful' = Useful /\ Unkept' = Unkept /\ FirstCall' = FirstCall
  BY <1>1, SameCircuit DEF Unkept, Slots, FirstCall
<1>3. MatrixInv'
  BY MatrixNextOk DEF IInv
<1>4. VectorsAgree' /\ DeletedUseless' /\ TasksType' /\ FaultsExplained'
  BY <1>1, <1>2, SameVectors DEF IInv, TasksType, FaultsExplained
<1>5. Calls' /\ Results' /\ EndpointsType' /\ Untouched'
  BY <1>1, <1>2 DEF IInv, Calls, Results, EndpointsType, UsersBuilt, Untouched
<1>6. Afterwards' /\ Flagged' /\ Connected' /\ MatrixEmptied'
  BY <1>1, <1>2 DEF IInv, Afterwards, Flagged, Connected, UsersBuilt, MatrixEmptied
<1>7. Doomed'
  BY <1>1, <1>2 DEF IInv, Doomed
<1>8. Boundary' /\ Looked'
  BY <1>1, <1>2
  DEF IInv, Boundary, Looked, LookedAt, Keep, Backward, Drivers, Noted, UsersBuilt
<1> QED
  BY <1>3, <1>4, <1>5, <1>6, <1>7, <1>8 DEF IInv

(* The slots of a task are thread_cnt apart. *)
LEMMA NextSlot ==
  ASSUME NEW N \in Nat \ {0}, NEW c \in Nat
  PROVE  /\ (c + N) % N = c % N
         /\ \A i \in Nat : i % N = c % N /\ c <= i /\ i < c + N => i = c
<1>1. \A i \in Nat : i % N \in 0 .. N - 1 /\ \E u \in Int : i = u * N + (i % N)
  <2> SUFFICES ASSUME NEW i \in Nat PROVE i % N \in 0 .. N - 1 /\ \E u \in Int : i = u * N + (i % N)
    OBVIOUS
  <2>1. (i \div N) \in Int /\ i % N \in 0 .. N - 1 /\ i = (i \div N) * N + (i % N)
    OBVIOUS
  <2> QED
    BY <2>1
<1>2. PICK u \in Int : c = u * N + (c % N)
  BY <1>1
<1>3. (c + N) % N = c % N
  <2> DEFINE d == c + N
  <2>1. d \in Nat /\ u + 1 \in Int /\ d % N \in 0 .. N - 1 /\ c % N \in 0 .. N - 1
    BY <1>1
  <2>2. PICK v \in Int : d = v * N + (d % N)
    BY <1>1, <2>1
  <2>3. (u + 1) * N = u * N + N /\ u * N \in Int
    OBVIOUS
  <2>4. d = (u + 1) * N + (c % N)
    BY <1>2, <2>1, <2>3
  <2> HIDE DEF d
  <2>5. v * N + (d % N) = (u + 1) * N + (c % N)
    BY <2>2, <2>4
  <2>6. d % N = c % N
    BY <2>1, <2>5, CellNames
  <2> QED
    BY <2>6 DEF d
<1>4. ASSUME NEW i \in Nat, i % N = c % N, c <= i, i < c + N
      PROVE  i = c
  <2>1. PICK v \in Int : i = v * N + (i % N)
    BY <1>1
  <2> DEFINE k == v - u
  <2>2. k \in Int /\ k * N = v * N - u * N /\ v * N \in Int /\ u * N \in Int
    OBVIOUS
  <2>3. k * N = i - c
    BY <1>1, <1>2, <1>4, <2>1, <2>2
  <2>4. i - c \in 0 .. N - 1 /\ 0 \in 0 .. N - 1 /\ 0 * N = 0 /\ k * N \in Int
    BY <1>4, <2>2
  <2> HIDE DEF k
  <2>5. k * N + 0 = 0 * N + (i - c)
    BY <2>3, <2>4
  <2>6. 0 = i - c
    BY <2>2, <2>4, <2>5, CellNames
  <2> QED
    BY <2>6
<1> QED
  BY <1>3, <1>4

LEMMA CollectStepOk ==
  ASSUME IInv, NEW t \in Threads, collect(t)
  PROVE  IInv'
<1> DEFINE i == cursor[t]
           n == nodes[i + 1]
           New(cell) == {d \in Backward(n) : Keep(d) /\ cell = to_update_ep_index(t, index[d])}
<1>1. /\ UNCHANGED <<circuit, nodes, nets, index, net_index, deleted, endpoints, phase,
                     node_to_keep_mask, result, passes>>
      /\ phase = "collect" /\ fault = "none" /\ i < Len(nodes)
      /\ cursor' = [cursor EXCEPT ![t] = @ + thread_cnt]
  BY DEF collect, netlist, advance
<1>2. HasOutput' = HasOutput /\ Useful' = Useful /\ Unkept' = Unkept /\ FirstCall' = FirstCall
  BY <1>1, SameCircuit DEF Unkept, Slots, FirstCall
<1>3. VectorsAgree /\ TasksType /\ MatrixType
  BY DEF IInv, MatrixInv
<1>4. i \in Nat /\ i % thread_cnt = t /\ thread_cnt \in Nat \ {0}
  BY <1>3, BoundsAssumption DEF TasksType
<1>5. i \in Slots(nodes) /\ n \in Elements(nodes)
  <2>1. i \in Slots(nodes)
    BY <1>1, <1>3, <1>4 DEF VectorsAgree, Slots
  <2> QED
    BY <1>3, <2>1, IndexFacts
<1>6. \/ /\ i \notin Unkept
         /\ UNCHANGED <<to_update_ep, to_delete, fault>>
      \/ /\ i \in Unkept /\ n = Null /\ fault' = "slot"
         /\ UNCHANGED <<to_update_ep, to_delete>>
      \/ /\ i \in Unkept /\ n # Null /\ Backward(n) \cap deleted # {} /\ fault' = "freed"
         /\ UNCHANGED <<to_update_ep, to_delete>>
      \/ /\ i \in Unkept /\ n # Null /\ fault' = "none"
         /\ to_delete' = [to_delete EXCEPT ![t] = @ \cup {n}]
         /\ \A cell \in Cells : to_update_ep'[cell] = to_update_ep[cell] \cup New(cell)
  BY <1>1, <1>3, <1>5 DEF collect, Unkept, MatrixType
<1>7. /\ \A cell \in Cells : to_update_ep[cell] \subseteq to_update_ep'[cell]
      /\ \A u \in Threads : to_delete[u] \subseteq to_delete'[u]
      /\ to_delete' = [u \in Threads |-> to_delete'[u]]
  BY <1>3, <1>6 DEF TasksType
<1> HIDE DEF i, n, New
<1>8. MatrixInv'
  BY MatrixNextOk DEF IInv, Next
<1>9. TasksType'
  <2>0. (i + thread_cnt) % thread_cnt = i % thread_cnt
    BY <1>4, NextSlot, Zenon
  <2>1. i + thread_cnt \in Nat /\ (i + thread_cnt) % thread_cnt = t
    BY <1>4, <2>0
  <2>2. /\ cursor = [u \in Threads |-> cursor[u]]
        /\ \A u \in Threads : cursor[u] \in Nat /\ cursor[u] % thread_cnt = u
    BY <1>3 DEF TasksType
  <2>3. /\ cursor' = [u \in Threads |-> cursor'[u]]
        /\ cursor'[t] = i + thread_cnt
        /\ \A u \in Threads : u # t => cursor'[u] = cursor[u]
    BY <1>1, <2>2 DEF i
  <2>4. \A u \in Threads : cursor'[u] \in Nat /\ cursor'[u] % thread_cnt = u
    BY <2>1, <2>2, <2>3
  <2> QED
    BY <1>7, <2>3, <2>4 DEF TasksType
<1>10. VectorsAgree' /\ DeletedUseless' /\ MatrixEmptied'
  BY <1>1, SameVectors DEF MatrixEmptied
<1>11. Calls' /\ Results' /\ EndpointsType' /\ Untouched'
  BY <1>1, <1>2 DEF IInv, Calls, Results, EndpointsType, UsersBuilt, Untouched
<1>12. Afterwards' /\ Flagged' /\ Connected'
  BY <1>1, <1>2 DEF IInv, Afterwards, Flagged, Connected, UsersBuilt
<1>13. Doomed'
  <2>1. \A u \in Threads : \A x \in to_delete'[u] : x # Null /\ \E j \in Unkept : x = nodes[j + 1]
    <3> SUFFICES ASSUME NEW u \in Threads, NEW x \in to_delete'[u]
                 PROVE  x # Null /\ \E j \in Unkept : x = nodes[j + 1]
      OBVIOUS
    <3>1. CASE x \in to_delete[u]
      BY <1>1, <3>1 DEF IInv, Doomed
    <3>2. CASE x \notin to_delete[u]
      BY <1>3, <1>6, <3>2 DEF TasksType, n
    <3> QED
      BY <3>1, <3>2
  <2>2. (\E u \in Threads : to_delete'[u] # {}) \/ \A cell \in Cells : to_update_ep'[cell] = {}
    <3>1. CASE UNCHANGED <<to_update_ep, to_delete>>
      BY <1>1, <3>1 DEF IInv, Doomed
    <3>2. CASE to_delete' = [to_delete EXCEPT ![t] = @ \cup {n}]
      BY <1>3, <3>2 DEF TasksType
    <3> QED
      BY <1>6, <3>1, <3>2
  <2> QED
    BY <1>1, <1>2, <2>1, <2>2 DEF Doomed
<1>14. Boundary'
  <2> SUFFICES ASSUME HasOutput, NEW cell \in Cells, NEW d \in to_update_ep'[cell]
               PROVE  Keep(d) /\ \E j \in Unkept : nodes[j + 1] # Null /\ d \in Backward(nodes[j + 1])
    BY <1>1, <1>2 DEF Boundary, Keep, Backward, Drivers
  <2>1. CASE d \in to_update_ep[cell]
    BY <1>1, <2>1 DEF IInv, Boundary
  <2>2. CASE d \notin to_update_ep[cell]
    <3>1. i \in Unkept /\ n # Null /\ d \in New(cell)
      BY <1>6, <2>2
    <3> QED
      BY <3>1 DEF New, n
  <2> QED
    BY <2>1, <2>2
<1>15. Looked'
  <2> SUFFICES ASSUME HasOutput, fault' = "none", NEW j \in Unkept, LookedAt(j)'
               PROVE  /\ nodes[j + 1] # Null
                      /\ \E u \in Threads : nodes[j + 1] \in to_delete'[u]
                      /\ \A d \in Backward(nodes[j + 1]) :
                           Keep(d) => \E cell \in Cells : d \in to_update_ep'[cell]
    BY <1>1, <1>2 DEF Looked, Keep, Backward, Drivers, Noted
  <2>1. CASE LookedAt(j)
    <3>1. /\ nodes[j + 1] # Null
          /\ \E u \in Threads : nodes[j + 1] \in to_delete[u]
          /\ \A d \in Backward(nodes[j + 1]) : Keep(d) => \E cell \in Cells : d \in to_update_ep[cell]
      BY <1>1, <2>1 DEF IInv, Looked, Noted
    <3> QED
      BY <1>7, <3>1
  <2>2. CASE ~ LookedAt(j)
    <3>1. j \in Nat /\ j % thread_cnt \in Threads
      BY <1>3, <1>4, IndexFacts DEF Unkept, Threads
    <3>2. ~ (j < cursor[j % thread_cnt]) /\ j < cursor'[j % thread_cnt]
      BY <1>1, <2>2 DEF LookedAt
    <3>3. j % thread_cnt = t
      BY <1>1, <1>3, <3>1, <3>2 DEF TasksType
    <3>4. j < i + thread_cnt /\ i <= j
      BY <1>1, <1>3, <1>4, <3>1, <3>2, <3>3 DEF TasksType, i
    <3>5. j = i
      BY <1>4, <3>1, <3>3, <3>4, NextSlot
    <3>6. /\ n # Null
          /\ to_delete' = [to_delete EXCEPT ![t] = @ \cup {n}]
          /\ \A cell \in Cells : to_update_ep'[cell] = to_update_ep[cell] \cup New(cell)
      BY <1>6, <3>5
    <3>7. n \in to_delete'[t]
      BY <1>3, <3>6 DEF TasksType
    <3>8. ASSUME NEW d \in Backward(n), Keep(d)
          PROVE  \E cell \in Cells : d \in to_update_ep'[cell]
      <4>1. index[d] \in Nat
        BY <3>8 DEF IInv, MatrixInv, MaskOfSlots, Keep
      <4>2. to_update_ep_index(t, index[d]) \in Cells
        BY <4>1, InMatrix
      <4>3. d \in New(to_update_ep_index(t, index[d]))
        BY <3>8 DEF New
      <4> QED
        BY <3>6, <4>2, <4>3
    <3> QED
      BY <3>5, <3>6, <3>7, <3>8 DEF n
  <2> QED
    BY <2>1, <2>2
<1>16. FaultsExplained'
  <2>1. CASE fault' = "none"
    BY <2>1 DEF FaultsExplained
  <2>2. CASE fault' = "slot" /\ n = Null
    BY <1>1, <1>2, <1>5, <2>2, StillThere DEF FaultsExplained, In
  <2>3. CASE fault' = "freed" /\ i \in Unkept /\ Backward(n) \cap deleted # {}
    <3>1. HasOutput => FirstCall
      BY <1>1, <2>3, LaterCall
    <3>2. FirstCall => deleted = {}
      BY DEF IInv, Untouched
    <3> QED
      BY <1>2, <2>3, <3>1, <3>2 DEF FaultsExplained
  <2> QED
    BY <1>1, <1>6, <2>1, <2>2, <2>3
<1> QED
  BY <1>8, <1>9, <1>10, <1>11, <1>12, <1>13, <1>14, <1>15, <1>16 DEF IInv

LEMMA DisconnectStepOk ==
  ASSUME IInv, NEW t \in Threads, disconnect(t)
  PROVE  IInv'
<1>1. /\ UNCHANGED <<circuit, nodes, nets, index, net_index, deleted, phase,
                     node_to_keep_mask, cursor, to_delete, result, passes>>
      /\ phase = "disconnect" /\ fault = "none"
  BY DEF disconnect, netlist
<1>17. PICK cell \in Column(t) :
        /\ \A c \in Column(t) : c < cell => to_update_ep[c] = {}
        /\ \E item \in to_update_ep[cell] :
             /\ to_update_ep' = [c \in DOMAIN to_update_ep |->
                  IF c \in Column(t) THEN to_update_ep[c] \ {item} ELSE to_update_ep[c]]
             /\ \/ /\ item \in Nets
                   /\ forward_disconnect(item)
                   /\ UNCHANGED fault
                \/ /\ item \notin Nets
                   /\ fault' = "cast"
                   /\ UNCHANGED endpoints
  BY Zenon DEF disconnect
<1>2. PICK item \in to_update_ep[cell] :
        /\ to_update_ep' = [c \in DOMAIN to_update_ep |->
             IF c \in Column(t) THEN to_update_ep[c] \ {item} ELSE to_update_ep[c]]
        /\ \/ /\ item \in Nets
              /\ forward_disconnect(item)
              /\ UNCHANGED fault
           \/ /\ item \notin Nets
              /\ fault' = "cast"
              /\ UNCHANGED endpoints
  BY <1>17, Zenon
<1>3. HasOutput' = HasOutput /\ Useful' = Useful /\ Unkept' = Unkept /\ FirstCall' = FirstCall
  BY <1>1, SameCircuit DEF Unkept, Slots, FirstCall
<1>4. VectorsAgree /\ TasksType /\ MatrixType
  BY DEF IInv, MatrixInv
<1>5. HasOutput => FirstCall /\ nodes = circuit.nodes
  BY <1>1, LaterCall DEF IInv, Untouched
<1>6. cell \in Cells
  <2>1. t \in Nat
    BY BoundsAssumption DEF Threads
  <2> QED
    BY <2>1, InMatrix DEF Column
<1>7. \A c \in Cells : to_update_ep'[c] \subseteq to_update_ep[c]
                       /\ to_update_ep[c] \subseteq to_update_ep'[c] \cup {item}
  BY <1>2, <1>4 DEF MatrixType
<1>8. MatrixInv'
  BY MatrixNextOk DEF IInv, Next
<1>9. VectorsAgree' /\ DeletedUseless' /\ MatrixEmptied' /\ TasksType'
  BY <1>1, <1>4, SameVectors DEF MatrixEmptied, TasksType
<1>10. Calls' /\ Results' /\ Untouched'
  BY <1>1, <1>3 DEF IInv, Calls, Results, Untouched
<1>11. Afterwards' /\ Flagged' /\ Connected'
  BY <1>1, <1>3, <1>5 DEF IInv, Afterwards, Flagged, Connected
<1>12. Doomed'
  BY <1>1, <1>3 DEF IInv, Doomed
<1>13. Boundary'
  BY <1>1, <1>3, <1>7 DEF IInv, Boundary, Keep, Backward, Drivers
<1>14. HasOutput => \A n \in Nets : \A o \in UsersBuilt(n) : Keep(o) <=> o \in Useful
  <2> SUFFICES ASSUME HasOutput, NEW n \in Nets, NEW o \in UsersBuilt(n)
               PROVE  Keep(o) <=> o \in Useful
    OBVIOUS
  <2>1. o \in Elements(nodes)
    BY <1>4, <1>5, CircuitFacts DEF UsersBuilt, In
  <2> QED
    BY <1>1, <2>1, FlagFacts
<1>15. CASE item \in Nets /\ forward_disconnect(item) /\ UNCHANGED fault
  <2>1. endpoints' = [endpoints EXCEPT ![item] = {o \in @ : Keep(o)}]
    BY <1>15 DEF forward_disconnect
  <2>2. /\ endpoints = [n \in Nets |-> endpoints[n]]
        /\ HasOutput => \A n \in Nets : endpoints[n] \in {UsersBuilt(n), UsersBuilt(n) \cap Useful}
    BY DEF IInv, EndpointsType
  <2>3. /\ endpoints' = [n \in Nets |-> endpoints'[n]]
        /\ \A n \in Nets : n # item => endpoints'[n] = endpoints[n]
        /\ endpoints'[item] = {o \in endpoints[item] : Keep(o)}
    BY <1>15, <2>1, <2>2
  <2>4. HasOutput => endpoints'[item] = UsersBuilt(item) \cap Useful
    BY <1>14, <1>15, <2>2, <2>3
  <2>5. EndpointsType'
    BY <1>1, <1>3, <2>2, <2>3, <2>4 DEF EndpointsType, UsersBuilt
  <2>6. Looked'
    <3> SUFFICES ASSUME HasOutput, NEW j \in Unkept
                 PROVE  /\ nodes[j + 1] # Null
                        /\ \E u \in Threads : nodes[j + 1] \in to_delete[u]
                        /\ \A d \in Backward(nodes[j + 1]) : Keep(d) => Noted(d)'
      BY <1>1, <1>3 DEF Looked, Keep, Backward, Drivers, Noted, UsersBuilt
    <3>1. /\ nodes[j + 1] # Null
          /\ \E u \in Threads : nodes[j + 1] \in to_delete[u]
          /\ \A d \in Backward(nodes[j + 1]) : Keep(d) => Noted(d)
      BY <1>1 DEF IInv, Looked, LookedAt
    <3>2. ASSUME NEW d, Noted(d) PROVE Noted(d)'
      <4>1. CASE d = item
        BY <1>1, <1>3, <1>15, <2>4, <4>1 DEF Noted, UsersBuilt
      <4>2. CASE d # item /\ \E c \in Cells : d \in to_update_ep[c]
        BY <1>7, <4>2 DEF Noted
      <4>3. CASE d # item /\ d \in Nets /\ endpoints[d] = UsersBuilt(d) \cap Useful
        BY <1>1, <1>3, <2>3, <4>3 DEF Noted, UsersBuilt
      <4> QED
        BY <3>2, <4>1, <4>2, <4>3 DEF Noted
    <3> QED
      BY <3>1, <3>2
  <2>7. FaultsExplained'
    BY <1>1, <1>3, <1>15 DEF FaultsExplained
  <2> QED
    BY <1>8, <1>9, <1>10, <1>11, <1>12, <1>13, <2>5, <2>6, <2>7 DEF IInv
<1>16. CASE item \notin Nets /\ fault' = "cast" /\ UNCHANGED endpoints
  <2>1. EndpointsType' /\ Looked'
    BY <1>1, <1>3, <1>16 DEF IInv, EndpointsType, UsersBuilt, Looked
  <2>2. FaultsExplained'
    <3> SUFFICES ASSUME HasOutput
                 PROVE  \E o \in Useful \cap Ops : ~ circuit.outs[o] \subseteq Useful
      BY <1>1, <1>3, <1>16 DEF FaultsExplained
    <3>1. Keep(item)
      BY <1>1, <1>6 DEF IInv, Boundary
    <3>2. PICK j \in Unkept : nodes[j + 1] # Null /\ item \in Backward(nodes[j + 1])
      BY <1>1, <1>6 DEF IInv, Boundary
    <3> DEFINE x == nodes[j + 1]
    <3>3. j \in Slots(nodes) /\ x \notin Useful
      BY <1>1, FlagFacts DEF Unkept
    <3>4. x \in Nodes
      BY <1>4, <3>2, <3>3, IndexFacts DEF VectorsAgree
    <3> HIDE DEF x
    <3>5. item \in Backward(x)
      BY <3>2 DEF x
    <3>6. item \in Ops /\ x \in circuit.outs[item] /\ item \in Elements(circuit.nodes)
      BY <1>4, <1>16, <3>4, <3>5, BackwardFacts
    <3>7. item \in Useful
      BY <1>1, <1>5, <3>1, <3>6, FlagFacts
    <3> QED
      BY <3>3, <3>6, <3>7
  <2> QED
    BY <1>8, <1>9, <1>10, <1>11, <1>12, <1>13, <2>1, <2>2 DEF IInv
<1> QED
  BY <1>2, <1>15, <1>16

(* Emptying the slots of nets and packing them is the same as taking the   *)
(* nets of the packed nodes: repack_nets has nothing else to look at.      *)
LEMMA PackedNets ==
  ASSUME VectorsAgree, ~ In(Null, nodes), NEW U \in SUBSET Elements(nodes)
  PROVE  LET slots == {net_index[n] : n \in U \cap Nets}
             emptied == [p \in DOMAIN nets |-> IF p - 1 \in slots THEN Null ELSE nets[p]]
         IN  Kept(emptied, Nodes) = Kept(Kept(nodes, Elements(nodes) \ U), Nets)
<1> DEFINE X == Nodes \cup {Null}
           slots == {net_index[n] : n \in U \cap Nets}
           emptied == [p \in DOMAIN nets |-> IF p - 1 \in slots THEN Null ELSE nets[p]]
           left == Kept(nodes, Elements(nodes) \ U)
           l == Kept(left, Nets)
           r == Kept(emptied, Nodes)
<1>1. /\ nodes \in Seq(X) /\ Unique(nodes)
      /\ \A p, q \in DOMAIN nodes : nodes[p] = nodes[q] => p = q
  BY DEF VectorsAgree, Unique, In, Elements
<1>2. /\ nets \in Seq(X) /\ Unique(nets) /\ Elements(nets) = Elements(nodes) \cap Nets
      /\ \A a \in Nets, b \in Nets : Before(nodes, a, b) => Before(nets, a, b)
  BY <1>1, KeptFacts DEF VectorsAgree
<1>3. /\ left \in Seq(X) /\ Unique(left) /\ Elements(left) = Elements(nodes) \ U
      /\ \A a, b : Before(left, a, b) => Before(nodes, a, b)
  BY <1>1, KeptFacts
<1> HIDE DEF left
<1>4. \A p, q \in DOMAIN left : left[p] = left[q] => p = q
  BY <1>3 DEF Unique
<1>5. /\ l \in Seq(X) /\ Unique(l) /\ Elements(l) = (Elements(nodes) \ U) \cap Nets
      /\ \A a, b : Before(l, a, b) => Before(left, a, b)
  BY <1>3, <1>4, KeptFacts
<1>6. DOMAIN nets = 1 .. Len(nets) /\ Len(nets) \in Nat
  BY <1>2
<1>7. \A p \in DOMAIN nets : nets[p] \in Elements(nets) /\ nets[p] \in Nets
  BY <1>2 DEF Elements
<1>8. \A p \in DOMAIN nets : p - 1 \in slots <=> nets[p] \in U
  <2> SUFFICES ASSUME NEW p \in DOMAIN nets PROVE p - 1 \in slots <=> nets[p] \in U
    OBVIOUS
  <2>1. net_index[nets[p]] = p - 1
    BY <1>2, SlotFacts DEF VectorsAgree, Unique
  <2>2. ASSUME NEW n \in U \cap Nets, net_index[n] = p - 1
        PROVE  nets[p] \in U
    <3>1. n \in Elements(nets)
      BY <1>2
    <3>2. nets[net_index[n] + 1] = n
      BY <1>2, <3>1, SlotFacts DEF VectorsAgree
    <3>3. (p - 1) + 1 = p
      BY <1>6
    <3> QED
      BY <2>2, <3>2, <3>3
  <2> QED
    BY <1>7, <2>1, <2>2
<1>9. /\ DOMAIN emptied = DOMAIN nets /\ emptied \in Seq(X)
      /\ \A p \in DOMAIN nets : emptied[p] = IF nets[p] \in U THEN Null ELSE nets[p]
  <2>1. \A p \in DOMAIN nets : emptied[p] = IF nets[p] \in U THEN Null ELSE nets[p]
    BY <1>8
  <2>2. \A p \in 1 .. Len(nets) : emptied[p] \in X
    BY <1>6, <1>7, <2>1 DEF Nodes
  <2>3. emptied = [p \in 1 .. Len(nets) |-> emptied[p]]
    BY <1>6
  <2> HIDE DEF emptied
  <2>4. emptied \in [1 .. Len(nets) -> X]
    BY <2>2, <2>3
  <2>5. emptied \in Seq(X)
    BY <1>6, <2>4
  <2> QED
    BY <1>6, <2>1, <2>4, <2>5
<1> HIDE DEF slots, emptied
<1>10. Null \notin Nodes /\ Nets \subseteq Nodes
  BY NodesAssumption DEF Nodes
<1>11. Elements(emptied) \cap Nodes = Elements(nets) \ U
  BY <1>7, <1>9, <1>10 DEF Elements
<1>12. \A p, q \in DOMAIN emptied : emptied[p] = emptied[q] /\ emptied[p] \in Nodes => p = q
  BY <1>2, <1>9, <1>10 DEF Unique
<1>13. \A a, b : Before(nets, a, b) /\ a \notin U /\ b \notin U => Before(emptied, a, b)
  BY <1>9 DEF Before
<1>14. /\ r \in Seq(X) /\ Unique(r) /\ Elements(r) = Elements(nets) \ U
       /\ \A a \in Nodes, b \in Nodes : Before(emptied, a, b) => Before(r, a, b)
  BY <1>9, <1>11, <1>12, KeptFacts
<1>15. Elements(l) = Elements(r)
  BY <1>2, <1>5, <1>14
<1> HIDE DEF X, l, r
<1>16. ASSUME NEW a, NEW b, Before(l, a, b) PROVE Before(r, a, b)
  <2>1. In(a, l) /\ In(b, l)
    BY <1>5, <1>16, BeforeFacts
  <2>2. a \in Nets /\ b \in Nets /\ a \notin U /\ b \notin U
    BY <1>5, <2>1 DEF In
  <2>3. Before(nets, a, b)
    BY <1>2, <1>3, <1>5, <1>16, <2>2
  <2>4. Before(emptied, a, b)
    BY <1>13, <2>2, <2>3
  <2> QED
    BY <1>10, <1>14, <2>2, <2>4
<1>17. l = r
  BY <1>5, <1>14, <1>15, <1>16, SameOrder
<1> QED
  BY <1>17 DEF l, r, left, emptied, slots

(* What goes is useless, so that nothing useful is connected to it: the    *)
(* useless user of a net, and the useless output of an operation, have     *)
(* been looked at.                                                         *)
LEMMA PackedConnected ==
  ASSUME IInv, HasOutput, phase = "pack", fault = "none", nodes = circuit.nodes, NEW x \in Useful
  PROVE  /\ x \in Nets => endpoints[x] = UsersBuilt(x) \cap Useful
         /\ x \in Ops => circuit.outs[x] \subseteq Useful
<1>0. VectorsAgree /\ x \in Elements(nodes)
  BY StillThere DEF IInv
<1>1. ASSUME NEW y \in Elements(nodes), y \in Nodes, y \notin Useful, x \in Backward(y)
      PROVE  x \in Nets /\ endpoints[x] = UsersBuilt(x) \cap Useful
  <2> DEFINE i == index[y]
  <2>1. i \in Slots(nodes) /\ nodes[i + 1] = y
    BY <1>0, IndexFacts
  <2> HIDE DEF i
  <2>2. i \in Unkept
    BY <1>1, <2>1, FlagFacts
  <2>3. Keep(x)
    BY <1>0, FlagFacts
  <2>4. Noted(x)
    BY <1>1, <2>1, <2>2, <2>3 DEF IInv, Looked, LookedAt
  <2> QED
    BY <2>4 DEF Noted, IInv, MatrixEmptied
<1>2. ASSUME x \in Nets
      PROVE  endpoints[x] = UsersBuilt(x) \cap Useful
  <2>1. CASE UsersBuilt(x) \subseteq Useful
    BY <1>2, <2>1 DEF IInv, EndpointsType
  <2>2. CASE ~ UsersBuilt(x) \subseteq Useful
    <3>1. PICK o \in UsersBuilt(x) : o \notin Useful
      BY <2>2
    <3>2. o \in Ops /\ x \in circuit.ins[o] /\ o \in Elements(nodes)
      BY <1>0, CircuitFacts DEF UsersBuilt, In
    <3>3. o \notin Nets /\ o \in Nodes
      BY <3>2, NodesAssumption DEF Nodes
    <3> QED
      BY <1>1, <3>1, <3>2, <3>3 DEF Backward
  <2> QED
    BY <2>1, <2>2
<1>3. ASSUME x \in Ops, NEW n \in circuit.outs[x], n \notin Useful
      PROVE  FALSE
  <2>1. n \in Nets /\ n \in Elements(nodes) /\ n \in Nodes
    BY <1>0, <1>3, CircuitFacts DEF Nodes
  <2>2. x \in Backward(n)
    BY <1>3, <2>1 DEF Backward, Drivers
  <2>3. x \in Nets
    BY <1>1, <1>3, <2>1, <2>2
  <2> QED
    BY <1>3, <2>3, NodesAssumption
<1> QED
  BY <1>2, <1>3

LEMMA PackOk ==
  ASSUME IInv, pack
  PROVE  IInv'
<1> DEFINE X == Nodes \cup {Null}
           useless == {x \in Elements(nodes) : ~ Keep(x)}
           slots == {net_index[n] : n \in useless \cap Nets}
           emptied == [p \in DOMAIN nets |-> IF p - 1 \in slots THEN Null ELSE nets[p]]
<1>1. /\ UNCHANGED <<circuit, endpoints, node_to_keep_mask, cursor, to_update_ep, to_delete,
                     fault, passes>>
      /\ phase = "pack" /\ phase' = "idle" /\ result' = "true" /\ ~ In(Null, nodes)
      /\ nodes' = Kept(nodes, Elements(nodes) \ useless)
      /\ nets' = Kept(emptied, Nodes)
      /\ index' = SlotOf(nodes') /\ net_index' = SlotOf(nets')
      /\ deleted' = deleted \cup useless
  BY DEF pack, repack_nets
<1>2. fault = "none" /\ passes \in Nat /\ passes > 0
  BY <1>1 DEF IInv, Calls
<1>3. HasOutput' = HasOutput /\ Useful' = Useful
  BY <1>1, SameCircuit
<1>4. VectorsAgree
  BY DEF IInv
<1>5. HasOutput => FirstCall /\ nodes = circuit.nodes
  BY <1>1, LaterCall DEF IInv, Untouched
<1>6. MatrixInv'
  BY MatrixNextOk DEF IInv, Next
<1>7. TasksType'
  BY <1>1 DEF IInv, TasksType
<1>8. nodes \in Seq(X) /\ Unique(nodes) /\ \A p, q \in DOMAIN nodes : nodes[p] = nodes[q] => p = q
  BY <1>1, <1>4 DEF VectorsAgree, Unique, In, Elements
<1>9. nodes' \in Seq(X) /\ Unique(nodes') /\ Elements(nodes') = Elements(nodes) \ useless
  BY <1>1, <1>8, KeptFacts
<1>10. nets' = Kept(nodes', Nets)
  BY <1>1, <1>4, PackedNets
<1>11. VectorsAgree'
  BY <1>1, <1>4, <1>9, <1>10 DEF VectorsAgree, Unique
<1>12. HasOutput => Elements(nodes) \ useless = Elements(nodes) \cap Useful
  BY <1>1, FlagFacts
<1>13. DeletedUseless'
  BY <1>1, <1>3, <1>12 DEF IInv, DeletedUseless
<1>14. ~ FirstCall'
  BY <1>1, <1>2 DEF FirstCall
<1>15. Calls' /\ Untouched'
  BY <1>1, <1>2, <1>14 DEF Calls, Untouched
<1>16. Afterwards'
  <2> SUFFICES ASSUME HasOutput PROVE nodes' = Kept(circuit.nodes, Useful)
    BY <1>1, <1>3 DEF Afterwards
  <2> HIDE DEF useless
  <2>1. Elements(nodes) \cap (Elements(nodes) \ useless) = Elements(nodes) \cap Useful
    BY <1>12
  <2>2. Kept(nodes, Elements(nodes) \ useless) = Kept(nodes, Useful)
    BY <1>8, <2>1, KeptSame
  <2> QED
    BY <1>1, <1>5, <2>2
<1>17. Flagged' /\ Doomed' /\ Boundary' /\ Looked' /\ MatrixEmptied'
  BY <1>1 DEF Flagged, Doomed, Boundary, Looked, MatrixEmptied
<1>18. EndpointsType'
  BY <1>1, <1>3 DEF IInv, EndpointsType, UsersBuilt
<1>19. Connected'
  BY <1>1, <1>2, <1>3, <1>5, PackedConnected DEF Connected, UsersBuilt
<1>20. Results'
  <2>1. ASSUME passes = 1 PROVE nodes' # circuit.nodes
    <3>1. nodes = circuit.nodes
      BY <1>1, <2>1 DEF IInv, Untouched, FirstCall
    <3>2. PICK t \in Threads : to_delete[t] # {}
      BY <1>1 DEF IInv, Doomed
    <3>3. PICK i \in Unkept : nodes[i + 1] # Null
      BY <1>1, <3>2 DEF IInv, Doomed
    <3>4. nodes[i + 1] \in Elements(nodes) /\ index[nodes[i + 1]] = i
      BY <1>4, <3>3, IndexFacts DEF Unkept
    <3>5. nodes[i + 1] \in useless
      BY <3>3, <3>4 DEF Keep, Unkept
    <3> QED
      BY <1>9, <3>1, <3>4, <3>5
  <2>2. ~ In(Null, nodes')
    BY <1>1, <1>9 DEF In
  <2>3. HasOutput => passes = 1
    BY <1>2, <1>5 DEF FirstCall
  <2> QED
    BY <1>1, <1>3, <2>1, <2>2, <2>3 DEF Results
<1>21. FaultsExplained'
  BY <1>1, <1>2 DEF FaultsExplained
<1> QED
  BY <1>6, <1>7, <1>11, <1>13, <1>15, <1>16, <1>17, <1>18, <1>19, <1>20, <1>21 DEF IInv

LEMMA NextOk == IInv /\ [Next]_vars => IInv'
<1> SUFFICES ASSUME IInv, [Next]_vars PROVE IInv'
  OBVIOUS
<1> QED
  BY ApplyOk, CollectStepOk, CollectedOk, DisconnectStepOk, DisconnectedOk, PackOk, EmptySlotOk,
     StutterOk
  DEF Next

(* Every reachable state satisfies the inductive invariant. *)
THEOREM Invariant == Spec => []IInv
<1> QED
  BY InitOk, NextOk, PTL DEF Spec

(* remove_by_mask.cpp: two tasks that disconnect never hold the same net,  *)
(* no matter how many threads there are.                                   *)
THEOREM Apart == Spec => []ColumnsDisjoint
<1>1. IInv => ColumnsDisjoint
  BY ApartByIndex DEF IInv, MatrixInv
<1> QED
  BY <1>1, Invariant, PTL

(* remove_by_mask.cpp:18-31, 100-191: whatever the circuit, the number of  *)
(* threads and their order, exactly the nodes that an output depends on    *)
(* are left, the result tells whether any is gone, and a second call finds *)
(* none.                                                                   *)
THEOREM Keeps == Spec => []KeepsUseful
<1>1. IInv => KeepsUseful
  <2> SUFFICES ASSUME IInv, Returned PROVE KeepsUseful
    BY DEF KeepsUseful
  <2>1. ~ FirstCall /\ phase = "idle" /\ passes > 0
    BY DEF Returned, FirstCall
  <2>2. ASSUME result = "true" PROVE SlotsPacked
    <3>1. ~ In(Null, nodes) /\ VectorsAgree
      BY <2>2 DEF IInv, Results
    <3>2. /\ nodes \in Seq(Nodes \cup {Null}) /\ index = SlotOf(nodes)
          /\ nets = Kept(nodes, Nets) /\ net_index = SlotOf(nets)
          /\ \A p \in DOMAIN nodes : nodes[p] # Null
          /\ \A p, q \in DOMAIN nodes : nodes[p] = nodes[q] => p = q
      BY <3>1 DEF VectorsAgree, In, Elements
    <3>3. nets \in Seq(Nodes \cup {Null}) /\ Unique(nets)
      BY <3>2, KeptFacts
    <3>4. \A p \in DOMAIN nodes : index[nodes[p]] = p - 1
      BY <3>2, SlotFacts
    <3>5. \A p \in DOMAIN nets : net_index[nets[p]] = p - 1
      BY <3>2, <3>3, SlotFacts DEF Unique
    <3> QED
      BY <3>2, <3>4, <3>5 DEF SlotsPacked
  <2> QED
    BY <2>1, <2>2 DEF KeepsUseful, IInv, Afterwards, Results
<1> QED
  BY <1>1, Invariant, PTL

(* remove_by_mask.cpp:73-98, net.cpp:161-163: after any call, nothing that *)
(* is left refers to what was deleted.                                     *)
THEOREM Clean == Spec => []NothingDangles
<1>1. IInv => NothingDangles
  <2> SUFFICES ASSUME IInv, Returned, HasOutput, NEW x \in Elements(nodes)
               PROVE  /\ x \notin deleted
                      /\ x \in Nets =>
                           endpoints[x] = {o \in Elements(nodes) \cap Ops : x \in circuit.ins[o]}
                      /\ Backward(x) \cap deleted = {}
                      /\ x \in Ops => circuit.outs[x] \cap deleted = {}
    BY DEF NothingDangles
  <2>1. VectorsAgree /\ deleted \cap Useful = {}
    BY DEF IInv, DeletedUseless
  <2>2. ~ FirstCall /\ fault = "none"
    BY DEF Returned, FirstCall
  <2>3. Elements(nodes) = Useful
    BY <2>2, StillThere
  <2>4. Backward(x) \subseteq Useful
    BY <2>1, <2>3, UsefulFacts
  <2>5. /\ x \in Nets => endpoints[x] = UsersBuilt(x) \cap Useful
        /\ x \in Ops => circuit.outs[x] \subseteq Useful
    BY <2>2, <2>3 DEF IInv, Connected
  <2> QED
    BY <2>1, <2>3, <2>4, <2>5 DEF UsersBuilt
<1> QED
  BY <1>1, Invariant, PTL

(* With an output, the transformation goes wrong only on an empty slot, or *)
(* on an operation with a useful and a useless output.                     *)
THEOREM Faults == Spec => []FaultsExplained
<1>1. IInv => FaultsExplained
  BY DEF IInv
<1> QED
  BY <1>1, Invariant, PTL

=============================================================================
