----------------------------- MODULE Statements ------------------------------
(***************************************************************************)
(* The statements of a netlist, Assignment and IfStatement, as a graph of  *)
(* records, and the questions the transformations ask of them: are two of  *)
(* them the same (query_structural_cmp.cpp), may they be merged            *)
(* (query_structural_compatible.cpp), what do they enclose                 *)
(* (query_enclosure.cpp), what are they sensitive to                       *)
(* (query_sensitivity.cpp, expr_sensitivity_probe.cpp) and which public    *)
(* nets do they read (query_public_net.cpp).                               *)
(*                                                                         *)
(* An IfStatement holds its conditions, if and elifs, in conds and its     *)
(* lists of statements in arms: ifTrue, those of elseIf, and ifFalse last, *)
(* which is empty unless hasElse (ifFalse_specified) - or not.             *)
(***************************************************************************)
EXTENDS Integers, FiniteSets, Sequences, SequencesExt

CONSTANTS Nets,
          ConstVal,     \* net of a constant -> its value
          Operands,     \* net of a FunctionCall -> its args
          EventNets,    \* the nets of rising and falling edges
          NopVal,       \* net -> its nop_val, if it has one
          Addr          \* node -> address: the order of std::set

ASSUME NetsAssumption ==
  /\ DOMAIN ConstVal \cup DOMAIN Operands \cup DOMAIN NopVal \subseteq Nets
  /\ DOMAIN ConstVal \cap DOMAIN Operands = {} /\ EventNets \subseteq DOMAIN Operands
ASSUME AddrAssumption == Addr \in [Nets -> Nat] /\ \A n, m \in Nets : Addr[n] = Addr[m] => n = m

Push(s, x) == IF Contains(s, x) THEN s ELSE Append(s, x)
Extend(s, t) == FoldLeft(Push, s, t)
SortedByAddr(S) == SetToSortSeq(S, LAMBDA n, m : Addr[n] < Addr[m])

-----------------------------------------------------------------------------
(* The graph g: the statements made so far, the top statements among them  *)
(* that drive and that read a net, the registered ones, and what went      *)
(* wrong: faults that pass unnoticed, and the error that ended the run.    *)
EmptyGraph ==
  [stm |-> << >>, drivers |-> [n \in Nets |-> {}], endpoints |-> [n \in Nets |-> {}],
   nodes |-> {}, index |-> 0, faults |-> {}, threw |-> ""]

ThrowIf(g, why, holds) == IF holds /\ g.threw = "" THEN [g EXCEPT !.threw = why] ELSE g
Throw(g, why) == ThrowIf(g, why, TRUE)
Note(g, fault, holds) == IF holds THEN [g EXCEPT !.faults = @ \cup {fault}] ELSE g

Assign(dst, src) == [kind |-> "assign", dst |-> dst, src |-> src]
IfTree(conds, arms, hasElse) == [kind |-> "if", conds |-> conds, arms |-> arms, hasElse |-> hasElse]

connect(g, s) ==
  [g EXCEPT !.endpoints = [n \in Nets |-> IF n \in g.stm[s].ins THEN @[n] \cup {s} ELSE @[n]],
            !.drivers = [n \in Nets |-> IF Contains(g.stm[s].outs, n) THEN @[n] \cup {s} ELSE @[n]]]

disconnect(g, gone) ==
  [g EXCEPT !.endpoints = [n \in Nets |-> @[n] \ gone], !.drivers = [n \in Nets |-> @[n] \ gone]]

register_node(g, s) ==
  [g EXCEPT !.index = @ + 1, !.nodes = @ \cup {s}, !.stm[s].index = g.index]

RECURSIVE Build(_, _)
Added(ids, g) == [g |-> g, ids |-> Append(ids, Len(g.stm))]
BuildList(g, ts) == FoldLeft(LAMBDA r, t : Added(r.ids, Build(r.g, t)), [g |-> g, ids |-> << >>], ts)

WithArm(arms, l) == [g |-> l.g, arms |-> Append(arms, l.ids)]
BuildArms(g, arms) ==
  FoldLeft(LAMBDA r, l : WithArm(r.arms, BuildList(r.g, l)), [g |-> g, arms |-> << >>], arms)

MakeAssignment(g, t) ==
  LET s == Len(g.stm) + 1
      new == [kind |-> "assign", dst |-> t.dst, src |-> t.src, conds |-> << >>, arms |-> << >>,
              hasElse |-> FALSE, rank |-> 0, parent |-> 0, index |-> 0,
              ins |-> {t.src}, outs |-> <<t.dst>>]
  IN  connect(register_node([g EXCEPT !.stm = Append(@, new)], s), s)

(* _set_parent_stm: the children leave the netlist, their inputs and       *)
(* outputs and their rank become those of the new parent.                  *)
MakeIf(b, t) ==
  LET s == Len(b.g.stm) + 1
      children == FlattenSeq(b.arms)
      new == [kind |-> "if", dst |-> "", src |-> "", conds |-> t.conds, arms |-> b.arms,
              hasElse |-> t.hasElse, parent |-> 0, index |-> 0,
              rank |-> FoldLeft(LAMBDA r, c : r + b.g.stm[c].rank,
                                Len(t.conds) + (IF t.hasElse THEN 1 ELSE 0), children),
              ins |-> ToSet(t.conds) \cup UNION {b.g.stm[c].ins : c \in ToSet(children)},
              outs |-> FoldLeft(LAMBDA o, c : Extend(o, b.g.stm[c].outs), << >>, children)]
      owned == [b.g EXCEPT !.stm = [c \in DOMAIN @ |-> IF c \in ToSet(children)
                                                       THEN [@[c] EXCEPT !.parent = s] ELSE @[c]],
                           !.nodes = @ \ ToSet(children)]
      made == [owned EXCEPT !.stm = Append(@, new)]
  IN  connect(register_node(disconnect(made, ToSet(children)), s), s)

Build(g, t) == IF t.kind = "assign" THEN MakeAssignment(g, t) ELSE MakeIf(BuildArms(g, t.arms), t)

-----------------------------------------------------------------------------
(* What a list of statements does: every net it drives takes the value     *)
(* that is assigned last under the valuation of the conditions.            *)
ValueOf(n) == IF n \in DOMAIN ConstVal THEN ConstVal[n] ELSE n

TakenArm(s, val) ==
  LET true == {i \in DOMAIN s.conds : val[s.conds[i]]}
  IN  IF true # {} THEN s.arms[CHOOSE i \in true : \A j \in true : i <= j]
      ELSE IF s.hasElse THEN Last(s.arms) ELSE << >>

RECURSIVE Effect(_, _, _, _)
Effect(h, l, val, env) ==
  FoldLeft(LAMBDA e, s : IF h[s].kind = "if" THEN Effect(h, TakenArm(h[s], val), val, e)
                         ELSE [e EXCEPT ![h[s].dst] = ValueOf(h[s].src)],
           env, l)

Valuations(h) == [UNION {ToSet(h[s].conds) : s \in DOMAIN h} -> BOOLEAN]
Hold == [n \in Nets |-> "hold"]

RECURSIVE Within(_, _)
Within(h, l) ==
  ToSet(l) \cup UNION {UNION {Within(h, h[s].arms[i]) : i \in DOMAIN h[s].arms} : s \in ToSet(l)}

-----------------------------------------------------------------------------
is_same_net(a, b) ==
  a = b \/ (a \in DOMAIN ConstVal /\ b \in DOMAIN ConstVal /\ ConstVal[a] = ConstVal[b])

(* The first verdict that ends the comparison.  "slips": one of the ifs    *)
(* has more elifs, and is taken for the same.  "beyond": an elif is read   *)
(* that is not there.                                                      *)
Verdict(vs) ==
  LET ends == SelectSeq(vs, LAMBDA v : v \in {"differs", "beyond"})
  IN  IF ends # << >> THEN ends[1] ELSE IF Contains(vs, "slips") THEN "slips" ELSE "same"

RECURSIVE is_same(_, _, _)
is_same_statement_vec(h, la, lb) ==
  IF Len(la) # Len(lb) THEN "differs" ELSE Verdict([i \in DOMAIN la |-> is_same(h, la[i], lb[i])])

(* The sizes are compared with "and": the lists differ when all four do,   *)
(* which the lists themselves tell; that only the elifs do is not seen.    *)
is_same_if(h, a, b) ==
  IF h[a].rank # h[b].rank \/ ~ is_same_net(h[a].conds[1], h[b].conds[1]) THEN "differs"
  ELSE Verdict(<<is_same_statement_vec(h, h[a].arms[1], h[b].arms[1]),
                 is_same_statement_vec(h, Last(h[a].arms), Last(h[b].arms))>>
               \o [i \in 1 .. Len(h[a].conds) - 1 |->
                     IF i + 1 > Len(h[b].conds) THEN "beyond"
                     ELSE IF ~ is_same_net(h[a].conds[i + 1], h[b].conds[i + 1]) THEN "differs"
                     ELSE is_same_statement_vec(h, h[a].arms[i + 1], h[b].arms[i + 1])]
               \o IF Len(h[a].conds) < Len(h[b].conds) THEN <<"slips">> ELSE << >>)

is_same(h, a, b) ==
  IF a = b THEN "same"
  ELSE IF h[a].kind # h[b].kind THEN "differs"
  ELSE IF h[a].kind = "if" THEN is_same_if(h, a, b)
  ELSE IF is_same_net(h[a].dst, h[b].dst) /\ is_same_net(h[a].src, h[b].src) THEN "same" ELSE "differs"

(* The arms of a are all the same, so that its conditions have no effect;  *)
(* if it has no else it is a latch and they have.                          *)
if_cond_effect(h, a) ==
  LET true == h[a].arms[1]
      others == Tail(h[a].arms)
  IN  IF ~ h[a].hasElse \/ \E i \in DOMAIN others : Len(others[i]) # Len(true) THEN "differs"
      ELSE Verdict(FlattenSeq([k \in DOMAIN true |->
                     [i \in DOMAIN others |-> is_same(h, true[k], others[i][k])]]))

-----------------------------------------------------------------------------
IsBranching(h, s) == h[s].rank > 0

RECURSIVE is_mergable(_, _, _)
is_mergable_vec(h, la, lb) ==
  LET as == SelectSeq(la, LAMBDA s : IsBranching(h, s))
      bs == SelectSeq(lb, LAMBDA s : IsBranching(h, s))
  IN  Len(as) = Len(bs) /\ \A i \in DOMAIN as : is_mergable(h, as[i], bs[i])

is_mergable_if(h, a, b) ==
  LET n == Len(h[a].conds) IN
  /\ h[a].conds = h[b].conds
  /\ is_mergable_vec(h, h[a].arms[1], h[a].arms[1])     \* a with itself
  /\ \A i \in 2 .. n : is_mergable_vec(h, h[a].arms[i], h[b].arms[i])
  /\ h[a].hasElse = h[b].hasElse
  /\ h[a].hasElse => is_mergable_vec(h, h[a].arms[n + 1], h[b].arms[n + 1])

is_mergable(h, a, b) ==
  \/ h[a].kind = "assign" /\ h[b].kind = "assign"
  \/ h[a].kind = "if" /\ h[b].kind = "if" /\ is_mergable_if(h, a, b)

-----------------------------------------------------------------------------
(* The nets that a statement always drives, and a list of statements. *)
RECURSIVE EnclosedFor(_, _)
EnclosedByList(h, l, outputs) ==
  {o \in outputs : \E s \in ToSet(l) : Contains(h[s].outs, o) /\ o \in EnclosedFor(h, s)}

(* Mutant: the elifs are not asked. *)
EnclosedFor_without_elifs(h, s) ==
  IF h[s].kind = "assign" THEN {h[s].dst}
  ELSE {o \in ToSet(h[s].outs) :
          \A i \in {1, Len(h[s].arms)} : o \in EnclosedByList(h, h[s].arms[i], ToSet(h[s].outs))}

EnclosedFor(h, s) ==
  IF h[s].kind = "assign" THEN {h[s].dst}
  ELSE {o \in ToSet(h[s].outs) :
          \A i \in DOMAIN h[s].arms : o \in EnclosedByList(h, h[s].arms[i], ToSet(h[s].outs))}

(* A net that two statements of a list drive ends the query. *)
DrivenTwice(h, l) ==
  \E i, j \in DOMAIN l : i < j /\ ToSet(h[l[i]].outs) \cap ToSet(h[l[j]].outs) # {}

EnclosureFails(h, s) ==
  \E t \in Within(h, <<s>>) : \E i \in DOMAIN h[t].arms : DrivenTwice(h, h[t].arms[i])

-----------------------------------------------------------------------------
(* The sensitivity: a net is its own casual sensitivity, an expression has *)
(* that of its operands, an edge is added to ctx and ends the walk there.  *)
RECURSIVE Probe(_, _)
Probe(n, st) ==
  LET at == [st EXCEPT !.seen = @ \cup {n}] IN
  IF n \in DOMAIN ConstVal THEN at
  ELSE IF n \notin DOMAIN Operands THEN [at EXCEPT !.casual = @ \cup {n}]
  ELSE IF n \in EventNets THEN [at EXCEPT !.event = TRUE, !.ctx = Push(@, n)]
  ELSE FoldLeft(LAMBDA r, a : IF a \in r.seen THEN r ELSE Probe(a, r), at, Operands[n])

Unprobed(seen, ctx, event) == [seen |-> seen, casual |-> {}, ctx |-> ctx, event |-> event]
Settle(st) == [st EXCEPT !.ctx = Extend(@, SortedByAddr(st.casual)), !.casual = {}]

ProbeCondition(n, st) ==
  LET r == Probe(n, [st EXCEPT !.casual = {}]) IN IF r.event THEN r ELSE Settle(r)

(* The event flag of a child does not reach its parent: extend takes the   *)
(* list of the child for a plain OrderedSet.                               *)
RECURSIVE Sense(_, _, _)
SenseList(h, l, st) ==
  FoldLeft(LAMBDA r, s : LET c == Sense(h, s, r.seen)
                         IN  [r EXCEPT !.seen = c.seen, !.ctx = Extend(@, c.ctx)], st, l)

SenseElif(h, s, i, st) ==
  IF st.event THEN st
  ELSE LET r == ProbeCondition(h[s].conds[i], st)
       IN  IF r.event THEN r ELSE SenseList(h, h[s].arms[i], r)

Sense(h, s, seen) ==
  LET none == Unprobed(seen, << >>, FALSE) IN
  IF h[s].kind = "assign"
  THEN IF h[s].src \in seen THEN none ELSE Settle(Probe(h[s].src, none))
  ELSE LET n == Len(h[s].conds)
           r1 == ProbeCondition(h[s].conds[1], none)
           r2 == FoldLeft(LAMBDA r, i : SenseElif(h, s, i, r), SenseList(h, h[s].arms[1], r1),
                          [k \in 1 .. n - 1 |-> k + 1])
       IN  IF r1.event THEN r1
           ELSE IF h[s].hasElse THEN SenseList(h, h[s].arms[n + 1], r2) ELSE r2

-----------------------------------------------------------------------------
(* The public nets behind a net: a hidden one is looked through. *)
RECURSIVE PublicNets(_, _)
PublicNets(hidden, n) ==
  IF n \notin hidden THEN {n}
  ELSE IF n \notin DOMAIN Operands THEN {}
  ELSE UNION {PublicNets(hidden, a) : a \in ToSet(Operands[n])}
=============================================================================
