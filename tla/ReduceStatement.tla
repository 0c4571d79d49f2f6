--------------------------- MODULE ReduceStatement ---------------------------
(***************************************************************************)
(* transform::TransformReduceStatement (src/transform/                     *)
(* reduce_statement.cpp): an if whose branches are all the same is         *)
(* replaced by the branch, the statements of a list that have the same     *)
(* tree of conditions are merged into the first of them, and an if alone   *)
(* in an else becomes elifs.  Every operator takes the graph and returns   *)
(* it changed, with the resulting list where there is one.                 *)
(***************************************************************************)
EXTENDS Statements, TLC

Deleted == "deleted"

RECURSIVE merge_other_to_this(_, _, _)

(* Index of the first statement of l with branches, Len(l) + 1 for none. *)
FirstBranching(h, l) ==
  LET at == {i \in DOMAIN l : IsBranching(h, l[i])}
  IN  IF at = {} THEN Len(l) + 1 ELSE CHOOSE i \in at : \A j \in at : i <= j

From(l, i) == SubSeq(l, i, Len(l))
Head_(l) == IF l = << >> THEN l ELSE <<l[1]>>

(* The simple statements in front of the next two ifs, then the first if   *)
(* with the second merged into it.  As soon as a list is at its end the    *)
(* loop is over: after an if of the other list the rest of it is dropped.  *)
RECURSIVE merge_statements_vector(_, _, _)
Prepended(l, r) == [r EXCEPT !.out = l \o @]

merge_statements_vector(g, la, lb) ==
  LET i == FirstBranching(g.stm, la)
      j == FirstBranching(g.stm, lb)
      simple == SubSeq(la, 1, i - 1) \o SubSeq(lb, 1, j - 1)
  IN  IF i <= Len(la) /\ j <= Len(lb)
      THEN Prepended(simple \o <<la[i]>>,
                     merge_statements_vector(merge_other_to_this(g, la[i], lb[j]), From(la, i + 1), From(lb, j + 1)))
      ELSE [g |-> Note(g, "lost", i < Len(la) \/ j < Len(lb)),
            out |-> simple \o Head_(From(la, i)) \o Head_(From(lb, j))]

(* Mutant: the edges of the merged statement are not moved to self. *)
on_merge_no_edges(g, self, other) ==
  [g EXCEPT !.stm[self].ins = @ \cup g.stm[other].ins,
            !.stm[self].outs = Extend(@, g.stm[other].outs),
            !.nodes = @ \ {other}]

(* self takes the inputs and outputs of other and, if that was a top       *)
(* statement, its place in the netlist.  The children of other still name  *)
(* it as their parent.                                                     *)
on_merge(g, self, other) ==
  LET extended == [g EXCEPT !.stm[self].ins = @ \cup g.stm[other].ins,
                            !.stm[self].outs = Extend(@, g.stm[other].outs)]
      moved(edges) == [n \in Nets |-> IF other \in edges[n] THEN (edges[n] \ {other}) \cup {self}
                                      ELSE edges[n]]
  IN  IF g.stm[other].parent # 0 THEN extended
      ELSE [extended EXCEPT !.nodes = @ \ {other}, !.endpoints = moved(@), !.drivers = moved(@)]

delete(g, s) == [g EXCEPT !.stm[s].kind = Deleted, !.stm[s].arms = [i \in DOMAIN @ |-> << >>]]

SetArm(s, i, r) == [r.g EXCEPT !.stm[s].arms[i] = r.out]

(* "unlike": the condition trees differ, below an ifTrue that is_mergable  *)
(* compared with itself.                                                   *)
merge_other_to_this(g, self, other) ==
  LET a == g.stm[self]
      b == g.stm[other]
      merge_arm(r, i) ==
        SetArm(self, i, merge_statements_vector(r, r.stm[self].arms[i], r.stm[other].arms[i]))
      noted == Note(g, "unlike", a.conds # b.conds \/ a.hasElse # b.hasElse)
  IN  IF self = other THEN Throw(g, "freed")
      ELSE IF Deleted \in {a.kind, b.kind} THEN Throw(g, "freed")
      ELSE IF Len(a.arms) # Len(b.arms) THEN Throw(g, "elif counts")
      ELSE delete(on_merge(FoldLeftDomain(merge_arm, noted, a.arms), self, other), other)

-----------------------------------------------------------------------------
Pairs(n) == SetToSortSeq({p \in (1 .. n) \X (1 .. n) : p[1] < p[2]},
                         LAMBDA p, q : p[1] < q[1] \/ (p[1] = q[1] /\ p[2] < q[2]))

(* The statements of one rank: every pair whose statements are still there *)
(* is merged or not, and pushed to the result, in both cases.  "freed": a  *)
(* statement is merged into another one after it was pushed.               *)
merge_pair(m, stms, p) ==
  LET a == stms[p[1]]
      b == stms[p[2]]
  IN  IF p[1] \in m.gone \/ p[2] \in m.gone THEN m
      ELSE IF ~ is_mergable(m.g.stm, a, b) THEN [m EXCEPT !.out = @ \o <<a, b>>]
      ELSE [g |-> ThrowIf(merge_other_to_this(m.g, a, b), "freed", Contains(m.out, b)),
            gone |-> m.gone \cup {p[2]}, out |-> Append(m.out, a), dec |-> m.dec + m.g.stm[b].rank]

merge_rank(m, stms) ==
  IF Len(stms) = 1 \/ ~ IsBranching(m.g.stm, stms[1]) THEN [m EXCEPT !.out = @ \o stms]
  ELSE FoldLeft(LAMBDA r, p : merge_pair(r, stms, p), [m EXCEPT !.gone = {}], Pairs(Len(stms)))

merge_statements(g, l) ==
  LET rank(s) == g.stm[s].rank
      ranks == SetToSortSeq({rank(s) : s \in ToSet(l)}, <)
      place(s) == SelectLastInSeq(l, LAMBDA t : t = s)
      merged == FoldLeft(LAMBDA m, k : merge_rank(m, SelectSeq(l, LAMBDA s : rank(s) = k)),
                         [g |-> g, gone |-> {}, out |-> << >>, dec |-> 0], ranks)
  IN  [merged EXCEPT !.out = SortSeq(@, LAMBDA s, t : place(s) < place(t))]

-----------------------------------------------------------------------------
(* An if in place of which stand the statements of res; a top one leaves   *)
(* the netlist, which registers them instead.                              *)
on_reduce(g, s, res) ==
  LET top == g.stm[s].parent = 0
      moved == [g EXCEPT !.stm = [t \in DOMAIN @ |-> IF Contains(res, t)
                                                     THEN [@[t] EXCEPT !.parent = g.stm[s].parent]
                                                     ELSE @[t]]]
      without == [disconnect(moved, {s}) EXCEPT !.nodes = @ \ {s}]
  IN  IF top THEN FoldLeft(LAMBDA r, t : connect(register_node(r, t), t), without, res) ELSE moved

(* Mutant: the else of the nested if is not taken over. *)
merge_nested_if_keeps_else(g, s) ==
  LET a == g.stm[s]
      b == g.stm[Last(a.arms)[1]]
  IN  [g EXCEPT !.stm[s].conds = @ \o b.conds,
                !.stm[s].arms = Front(@) \o Front(b.arms) \o << << >> >>]

merge_nested_if_from_else(g, s) ==
  LET a == g.stm[s]
      b == g.stm[Last(a.arms)[1]]
  IN  [g EXCEPT !.stm[s].conds = @ \o b.conds, !.stm[s].arms = Front(@) \o b.arms]

RECURSIVE apply(_, _)
Joined(r, a) == [g |-> a.g, out |-> r.out \o a.out]
apply_all(g, l) == FoldLeft(LAMBDA r, s : Joined(r, apply(r.g, s)), [g |-> g, out |-> << >>], l)

merge_reduced(r) == merge_statements(r.g, r.out)
set_branch(s, i, r) == [SetArm(s, i, r) EXCEPT !.stm[s].rank = @ - r.dec]
apply_branch(g, s, i) == set_branch(s, i, merge_reduced(apply_all(g, g.stm[s].arms[i])))

merge_else(g, s) ==
  LET ifFalse == Last(g.stm[s].arms)
  IN  IF Len(ifFalse) = 1 /\ g.stm[ifFalse[1]].kind = "if" THEN merge_nested_if_from_else(g, s) ELSE g

(* The flag for changed inputs and outputs, that of the if before it where *)
(* the else is concerned, is always false: no branch ever returns true.    *)
reduce_if(g, s, effect) ==
  CASE effect = "beyond" -> Throw(g, "beyond")
    [] effect = "differs" -> g
    [] OTHER -> on_reduce(Note(g, "mistaken", effect = "slips"), s, g.stm[s].arms[1])

apply_reduced(g, s, effect) ==
  [g |-> merge_else(reduce_if(g, s, effect), s),
   out |-> IF effect = "differs" THEN <<s>> ELSE g.stm[s].arms[1]]

with_effect(g, s) == apply_reduced(g, s, if_cond_effect(g.stm, s))
apply_if(g, s) == with_effect(FoldLeftDomain(LAMBDA r, i : apply_branch(r, s, i), g, g.stm[s].arms), s)

apply(g, s) == IF g.stm[s].kind = "if" THEN apply_if(g, s) ELSE [g |-> g, out |-> <<s>>]
=============================================================================
