------------------------------ MODULE HwProcess ------------------------------
(***************************************************************************)
(* transform::TransformToHdlFriendly and the transformations it applies,   *)
(* ::TransformMarkInterProcessNets and ::TransformStatementToHwProcess:    *)
(* the statements of a netlist leave it, every one is reduced and becomes  *)
(* a process, processes of the same structure are merged, and the netlist  *)
(* registers the processes.                                                *)
(***************************************************************************)
EXTENDS ReduceStatement

CONSTANTS Programs,     \* the netlists: sequences of statements as they are built
          Ports         \* the nets with a direction

ASSUME PortsAssumption == Ports \subseteq Nets

VARIABLES program,      \* the netlist as it was built
          g,            \* its statements by now
          hidden,       \* the nets that are hidden in expressions
          todo,         \* the statements that are not in a process yet
          procs,        \* the processes
          pc            \* the step that is next

vars == <<program, g, hidden, todo, procs, pc>>

Init ==
  /\ program \in Programs
  /\ g = BuildList(EmptyGraph, program).g
  /\ hidden = Nets \ Ports
  /\ todo = << >>
  /\ procs = << >>
  /\ pc = "mark"

(* Every output of a top statement is public. *)
mark_inter_process_nets ==
  /\ pc = "mark"
  /\ hidden' = hidden \ UNION {ToSet(g.stm[s].outs) : s \in g.nodes}
  /\ pc' = "take"
  /\ UNCHANGED <<program, g, todo, procs>>

(* The statements are unregistered in the order of the nodes. *)
take_statements ==
  /\ pc = "take"
  /\ todo' = SetToSortSeq(g.nodes, LAMBDA s, t : g.stm[s].index < g.stm[t].index)
  /\ g' = [g EXCEPT !.nodes = {}]
  /\ pc' = "convert"
  /\ UNCHANGED <<program, hidden, procs>>

-----------------------------------------------------------------------------
(* std::set_intersection, which takes both lists for sorted. *)
RECURSIVE set_intersection(_, _)
set_intersection(a, b) ==
  IF a = << >> \/ b = << >> THEN {}
  ELSE IF Addr[a[1]] < Addr[b[1]] THEN set_intersection(Tail(a), b)
  ELSE IF Addr[b[1]] < Addr[a[1]] THEN set_intersection(a, Tail(b))
  ELSE {a[1]} \cup set_intersection(Tail(a), Tail(b))

(* The statements below s that get an assignment of the nop value of n:    *)
(* those with a branch that does not drive it.                             *)
RECURSIVE LatchOwners(_, _, _)
LatchOwners(h, s, n) ==
  LET owners(l) == LET at == SelectInSeq(l, LAMBDA t : Contains(h[t].outs, n))
                   IN  IF at = 0 THEN {s} ELSE LatchOwners(h, l[at], n)
  IN  IF n \in EnclosedFor(h, s) THEN {}
      ELSE UNION {owners(h[s].arms[i]) : i \in DOMAIN h[s].arms}

RECURSIVE HasFreedAncestor(_, _)
HasFreedAncestor(h, s) ==
  h[s].parent # 0 /\ (h[h[s].parent].kind = Deleted \/ HasFreedAncestor(h, h[s].parent))

(* The assignment that would enclose a latch is put into a copy of the     *)
(* list and lost; the top statement, found along the parents, keeps its    *)
(* input.                                                                  *)
fill_stm_list_with_enclosure(gr, l) ==
  LET unenclosed(s) == {n \in ToSet(gr.stm[s].outs) \cap DOMAIN NopVal : n \notin EnclosedFor(gr.stm, s)}
      owners == UNION {UNION {LatchOwners(gr.stm, s, n) : n \in unenclosed(s)} : s \in ToSet(l)}
      nops(s) == {NopVal[n] : n \in unenclosed(s)}
      filled == [gr EXCEPT !.stm = [s \in DOMAIN @ |-> IF Contains(l, s)
                                                       THEN [@[s] EXCEPT !.ins = @ \cup nops(s)]
                                                       ELSE @[s]]]
  IN  IF \E o \in owners : HasFreedAncestor(gr.stm, o) THEN Throw(gr, "freed parent")
      ELSE FoldLeft(connect, Note(filled, "unfilled", owners # {}),
                    SelectSeq(l, LAMBDA s : unenclosed(s) # {}))

MakeProcess(gr, l, sensitivity, outputs) ==
  [statements |-> l, sensitivityList |-> sensitivity, outputs |-> outputs,
   inputs |-> UNION {PublicNets(hidden, i) : i \in UNION {gr.stm[s].ins : s \in ToSet(l)}},
   rank |-> FoldLeft(LAMBDA r, s : r + gr.stm[s].rank, 0, l)]

OutputsOf(h, l) == FoldLeft(LAMBDA o, s : Extend(o, h[s].outs), << >>, l)

SensitivityOf(h, l) == FoldLeft(LAMBDA c, s : Extend(c, Sense(h, s, {}).ctx), << >>, l)

Errors(gr, l) == ThrowIf(gr, "driven twice", \E s \in ToSet(l) : EnclosureFails(gr.stm, s))

(* A list of statements becomes a process, unless it reads what it drives. *)
(* The drivers of such a net are then cut off and converted on their own:  *)
(* an if that drives just this net is, anything else comes to an           *)
(* Assignment, for which cutting off is not implemented.                   *)
RECURSIVE to_process(_, _, _)
solve_comb_loop(g1, l, outputs, try_solve_comb_loops) ==
  IF ~ try_solve_comb_loops THEN [g |-> Throw(g1, "CombinationalLoop"), out |-> << >>]
  ELSE IF Len(l) = 1 /\ g1.stm[l[1]].kind = "if" /\ Len(outputs) = 1
  THEN to_process(g1, l, FALSE)
  ELSE [g |-> Throw(g1, "not cut off"), out |-> << >>]

process_of(g0, g1, l, outputs, sensitivity, try_solve_comb_loops) ==
  LET intersect == set_intersection(outputs, sensitivity) IN
  IF l = << >> \/ g1.threw # "" THEN [g |-> g1, out |-> << >>]
  ELSE IF ToSet(outputs) \cap hidden # {} THEN [g |-> Throw(g1, "hidden output"), out |-> << >>]
  ELSE IF intersect # {} THEN solve_comb_loop(g1, l, outputs, try_solve_comb_loops)
  ELSE [g |-> Note(g1, "missed", ToSet(outputs) \cap ToSet(sensitivity) # {}),
        out |-> <<MakeProcess(g0, l, sensitivity, outputs)>>]

reduced_to_process(r, try_solve_comb_loops) ==
  process_of(r.g, fill_stm_list_with_enclosure(Errors(r.g, r.out), r.out), r.out,
             OutputsOf(r.g.stm, r.out), SensitivityOf(r.g.stm, r.out), try_solve_comb_loops)

to_process(gr, l, try_solve_comb_loops) == reduced_to_process(apply_all(gr, l), try_solve_comb_loops)

Raise(threw) ==
  /\ g' = [g EXCEPT !.threw = threw]
  /\ pc' = "thrown"
  /\ UNCHANGED <<program, hidden, todo, procs>>

convert ==
  /\ pc = "convert" /\ todo # << >>
  /\ \E p \in {to_process(g, <<todo[1]>>, TRUE)} :
       IF p.g.threw # "" THEN Raise(p.g.threw)
       ELSE /\ g' = p.g
            /\ procs' = procs \o p.out
            /\ todo' = Tail(todo)
            /\ UNCHANGED <<program, hidden, pc>>

-----------------------------------------------------------------------------
max_stm_id(h, p) ==
  LET ids == {h[s].index : s \in {t \in Within(h, p.statements) : h[t].kind = "assign"}}
  IN  IF ids = {} THEN 0 ELSE CHOOSE i \in ids : \A j \in ids : j <= i

checkIfIsTooSimple(h, p) == Len(p.statements) = 1 /\ h[p.statements[1]].kind = "assign"

(* Mutant: only the first process is asked for what the second drives. *)
does_intersect_once(a, b) == ToSet(a.outputs) \cap ToSet(b.sensitivityList) # {}

does_intersect(a, b) ==
  \/ ToSet(a.outputs) \cap ToSet(b.sensitivityList) # {}
  \/ ToSet(b.outputs) \cap ToSet(a.sensitivityList) # {}

CanMerge(h, a, b) ==
  /\ ~ checkIfIsTooSimple(h, a) /\ ~ checkIfIsTooSimple(h, b)
  /\ ~ does_intersect(a, b)
  /\ is_mergable_vec(h, a.statements, b.statements)

(* Mutant: the first process keeps its sensitivity list. *)
merged_process_deaf(a, b) ==
  [a EXCEPT !.outputs = Extend(@, b.outputs), !.inputs = @ \cup b.inputs]

merged_process(a, b) ==
  [a EXCEPT !.outputs = Extend(@, b.outputs), !.inputs = @ \cup b.inputs,
            !.sensitivityList = Extend(@, b.sensitivityList)]

WithoutList(merged, l) == Note(merged.g, "lost", ~ (ToSet(merged.out) \subseteq ToSet(l)))

(* The statements of b are merged into those of a where they have          *)
(* branches; the merged list is not taken over, so the others are lost.    *)
tryToMerge(m, p) ==
  LET a == m.procs[p[1]]
      b == m.procs[p[2]]
  IN  IF p[1] \in m.gone \/ p[2] \in m.gone \/ ~ CanMerge(m.g.stm, a, b) THEN m
      ELSE [g |-> WithoutList(merge_statements_vector(m.g, a.statements, b.statements), a.statements),
            procs |-> [m.procs EXCEPT ![p[1]] = merged_process(a, b)],
            gone |-> m.gone \cup {p[2]}]

with_rank(out, r) ==
  LET kept == SelectSeq([i \in DOMAIN r.procs |-> i], LAMBDA i : i \notin r.gone)
  IN  [g |-> r.g, out |-> out \o [k \in DOMAIN kept |-> r.procs[kept[k]]]]

reduce_rank(m, ps) ==
  LET sorted == SortSeq(ps, LAMBDA a, b : max_stm_id(m.g.stm, a) < max_stm_id(m.g.stm, b))
  IN  with_rank(m.out, FoldLeft(tryToMerge, [g |-> m.g, procs |-> sorted, gone |-> {}], Pairs(Len(ps))))

reduce_ranks(gr, ps) ==
  FoldLeft(LAMBDA m, k : reduce_rank(m, SelectSeq(ps, LAMBDA p : p.rank = k)),
           [g |-> gr, out |-> << >>], SetToSortSeq({p.rank : p \in ToSet(ps)}, <))

reduce ==
  /\ pc = "convert" /\ todo = << >>
  /\ \E r \in {reduce_ranks(g, procs)} :
       IF r.g.threw # "" THEN Raise(r.g.threw)
       ELSE /\ g' = r.g
            /\ procs' = r.out
            /\ pc' = "register"
            /\ UNCHANGED <<program, hidden, todo>>

register_processes ==
  /\ pc = "register"
  /\ pc' = "done"
  /\ UNCHANGED <<program, g, hidden, todo, procs>>

Next == mark_inter_process_nets \/ take_statements \/ convert \/ reduce \/ register_processes

Spec == Init /\ [][Next]_vars
-----------------------------------------------------------------------------
Original == BuildList(EmptyGraph, program)
InProcesses == FlattenSeq([i \in DOMAIN procs |-> procs[i].statements])
Statements_ == ToSet(todo) \cup ToSet(InProcesses)
ReadBy(h, s) ==
  UNION {IF h[t].kind = "assign" THEN {h[t].src} ELSE ToSet(h[t].conds) : t \in Within(h, <<s>>)}
DrivenBy(h, s) == {h[t].dst : t \in {u \in Within(h, <<s>>) : h[u].kind = "assign"}}

(* The processes do to every net, under every valuation of the conditions, *)
(* what the statements they were made of did - except where an if was      *)
(* merged into one of another structure, a statement was dropped from a    *)
(* merged list, or branches with different elifs were taken for the same   *)
(* (reduce_statement.cpp:42-190, query_structural_compatible.cpp:28,       *)
(* statement_to_hwprocess.cpp:415, query_structural_cmp.cpp:33).           *)
MeaningKept ==
  pc = "done" /\ g.faults \cap {"unlike", "lost", "mistaken"} = {} =>
    \A before \in {Original} : \A val \in Valuations(before.g.stm) :
      Effect(g.stm, InProcesses, val, Hold) = Effect(before.g.stm, before.ids, val, Hold)

(* A net is connected to just the top statements that name it among their  *)
(* inputs or outputs, through reductions, merges of ifs and merges of      *)
(* processes, and they have no parent.  No statement of the netlist stays  *)
(* registered next to its process, but those an if was reduced to are:     *)
(* the serializer refuses them (reduce_statement.cpp:227-259, 324-346).    *)
EdgesFollow ==
  pc \in {"convert", "register", "done"} /\ "lost" \notin g.faults =>
    /\ \A n \in Nets :
         /\ g.drivers[n] = {s \in Statements_ : Contains(g.stm[s].outs, n)}
         /\ g.endpoints[n] = {s \in Statements_ : n \in g.stm[s].ins}
    /\ \A s \in Statements_ : g.stm[s].parent = 0
    /\ g.nodes = ToSet(InProcesses) \ ToSet(Original.ids)

(* A process names every net that its statements drive among its outputs,  *)
(* every public net they read among its inputs and, unless it waits for an *)
(* edge, in its sensitivity list, no matter which of the statements that   *)
(* were merged reads it first (statement_to_hwprocess.cpp:131-145,         *)
(* 411-413; the nets that were seen are not looked at again).              *)
ProcessesListen ==
  "lost" \notin g.faults =>
    \A p \in ToSet(procs) : \A s \in ToSet(p.statements) :
      LET read == UNION {PublicNets(hidden, n) : n \in ReadBy(g.stm, s)}
      IN  /\ DrivenBy(g.stm, s) \subseteq ToSet(p.outputs)
          /\ read \subseteq p.inputs
          /\ ToSet(p.sensitivityList) \cap EventNets = {} =>
               read \ DOMAIN ConstVal \subseteq ToSet(p.sensitivityList)

(* No process listens to a net it drives, also not after it was merged     *)
(* with others, unless the intersection of two lists that are not sorted   *)
(* missed it; and a combinational loop is reported only where a statement  *)
(* reads what it drives (statement_to_hwprocess.cpp:181-198, 404-405).     *)
LoopsFound ==
  /\ "missed" \notin g.faults =>
       \A p \in ToSet(procs) : ToSet(p.outputs) \cap ToSet(p.sensitivityList) = {}
  /\ g.threw \in {"CombinationalLoop", "not cut off"} =>
       LET h == Original.g.stm
       IN  \E s \in ToSet(Original.ids) :
             DrivenBy(h, s) \cap UNION {PublicNets(hidden, n) : n \in ReadBy(h, s)} # {}

(* What a statement is said to enclose it drives under every valuation of  *)
(* its conditions, and nothing else (query_enclosure.cpp).                 *)
EnclosureExact ==
  \A s \in Statements_ :
    EnclosedFor(g.stm, s) =
      {n \in Nets : \A val \in Valuations(g.stm) : Effect(g.stm, <<s>>, val, Hold)[n] # "hold"}
=============================================================================
