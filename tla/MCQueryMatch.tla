---------------------------- MODULE MCQueryMatch -----------------------------
(* Instances of QueryMatch: queries of one to three nodes in netlists of   *)
(* three calls, of two chains of calls, and of assignments and ifs.        *)
EXTENDS QueryMatch

Other == [kind |-> "", args |-> << >>, res |-> "", dst |-> "", src |-> "",
          conds |-> << >>, arms |-> << >>, hasElse |-> FALSE]
Op(args, res) == [Other EXCEPT !.kind = "call", !.args = args, !.res = res]
Set(dst, src) == [Other EXCEPT !.kind = "assign", !.dst = dst, !.src = src]
If(conds, arms, hasElse) ==
  [Other EXCEPT !.kind = "if", !.conds = conds, !.arms = arms, !.hasElse = hasElse]

RECURSIVE Ins(_, _)
RECURSIVE Outs(_, _)
Inner(nodes, n) == UNION {ToSet(nodes[n].arms[i]) : i \in DOMAIN nodes[n].arms}
Ins(nodes, n) ==
  ToSet(nodes[n].args \o nodes[n].conds) \cup (IF nodes[n].kind = "assign" THEN {nodes[n].src} ELSE {})
    \cup UNION {Ins(nodes, m) : m \in Inner(nodes, n)}
Outs(nodes, n) ==
  {nodes[n].dst, nodes[n].res} \cup UNION {Outs(nodes, m) : m \in Inner(nodes, n)}

(* order: the nets; ins and outs: the ports; tops: the nodes that no other *)
(* one holds.                                                              *)
Graph(order, ins, outs, nodes, tops) ==
  [order |-> order, nodes |-> nodes,
   nets |-> [n \in ToSet(order) |->
               [direction |-> IF n \in ins THEN "in" ELSE IF n \in outs THEN "out" ELSE "unknown",
                drivers |-> SelectSeq(tops, LAMBDA t : n \in Outs(nodes, t)),
                endpoints |-> SelectSeq(tops, LAMBDA t : n \in Ins(nodes, t))]]]

-----------------------------------------------------------------------------
CallQueries ==
  {Graph(<<"qa", "qb", "qr">>, {"qa", "qb"}, {"qr"}, "q1" :> Op(<<"qa", "qb">>, "qr"), <<"q1">>),
   Graph(<<"qr", "qa", "qb">>, {"qa", "qb"}, {"qr"}, "q1" :> Op(<<"qa", "qb">>, "qr"), <<"q1">>),
   Graph(<<"qa", "qr">>, {"qa"}, {"qr"}, "q1" :> Op(<<"qa", "qa">>, "qr"), <<"q1">>),
   Graph(<<"qa", "qr">>, {}, {"qr"}, "q1" :> Op(<<"qa">>, "qr"), <<"q1">>),
   Graph(<<"qa", "qb", "qr", "qs">>, {"qa", "qb"}, {"qr", "qs"},
         "q1" :> Op(<<"qa", "qb">>, "qr") @@ "q2" :> Op(<<"qa", "qb">>, "qs"), <<"q1", "q2">>),
   Graph(<<"qa", "qb", "qm", "qr">>, {"qa", "qb"}, {"qr"},
         "q1" :> Op(<<"qa">>, "qm") @@ "q2" :> Op(<<"qm", "qb">>, "qr"), <<"q1", "q2">>),
   Graph(<<"qa", "qb", "qc", "qm", "qr">>, {"qa", "qb", "qc"}, {"qr"},
         "q1" :> Op(<<"qa", "qb">>, "qm") @@ "q2" :> Op(<<"qm", "qc">>, "qr"), <<"q1", "q2">>)}

Args == {<<"a">>, <<"a", "b">>, <<"b", "a">>, <<"a", "a">>, <<"r", "c">>, <<"r", "b">>, <<"s", "a">>, <<"r">>}

ThreeCalls ==
  {Graph(<<"a", "b", "c", "r", "s", "t">>, {"a", "b", "c"}, {},
         "n1" :> Op(x, "r") @@ "n2" :> Op(y, "s") @@ "n3" :> Op(z, "t"), <<"n1", "n2", "n3">>) :
     x \in Args, y \in Args, z \in Args \cup {<<"r", "s">>}}

TwoChains ==
  {Graph(<<"a", "b", "c", "d", "r", "s", "t", "u">>, {"a", "b", "c", "d"}, {},
         "n1" :> Op(w, "r") @@ "n2" :> Op(x, "s") @@ "n3" :> Op(y, "t") @@ "n4" :> Op(z, "u"),
         <<"n1", "n2", "n3", "n4">>) :
     w \in {<<"a", "b">>, <<"b", "a">>}, x \in {<<"r", "c">>, <<"c", "r">>, <<"r">>},
     y \in {<<"a", "b">>, <<"b", "a">>, <<"a", "c">>}, z \in {<<"t", "c">>, <<"t", "d">>, <<"d", "t">>}}

-----------------------------------------------------------------------------
(* Muxes and latches: one arm or two, with an elif or without.  A query is *)
(* connected.                                                              *)
Statements_(c, d, a, b, r, x, y, z) ==
  LET sets == x :> Set(r, a) @@ y :> Set(r, b)
      ifOf(f) == z :> f @@ sets
      used(nodes, tops) == UNION {Ins(nodes, t) \cup Outs(nodes, t) : t \in ToSet(tops)}
      there(nodes, tops) == ToSet(tops) \cup UNION {Inner(nodes, t) : t \in ToSet(tops)}
      g(nodes, tops) == Graph(SelectSeq(<<c, d, a, b, r>>, LAMBDA n : n \in used(nodes, tops)),
                              {c, d, a, b}, {r}, Restrict(nodes, there(nodes, tops)), tops)
  IN  {g(x :> Set(r, a), <<x>>), g(sets, <<x, y>>), g(sets, <<y, x>>)}
      \cup {g(ifOf(f), <<z>>) :
              f \in {If(<<c>>, <<<<x>>, <<y>>>>, TRUE), If(<<c>>, <<<<y>>, <<x>>>>, TRUE),
                     If(<<c>>, <<<<x>>, << >>>>, FALSE), If(<<c>>, <<<<x>>, << >>>>, TRUE),
                     If(<<c>>, <<<< >>, <<x>>>>, TRUE), If(<<c>>, <<<<x, y>>, <<x>>>>, TRUE),
                     If(<<c>>, <<<<x>>, <<x, y>>>>, TRUE),
                     If(<<c, d>>, <<<<x>>, <<y>>, <<x>>>>, TRUE), If(<<c, d>>, <<<<x>>, <<y>>, << >>>>, FALSE),
                     If(<<c, d>>, <<<< >>, <<y>>, <<x>>>>, TRUE), If(<<d, c>>, <<<<y>>, <<x>>, <<y>>>>, TRUE)}}
      \cup {g(ifOf(If(<<c>>, <<<<x>>, << >>>>, FALSE)), <<z, y>>), g(ifOf(If(<<c>>, <<<<x>>, << >>>>, FALSE)), <<y, z>>)}

StatementQueries == Statements_("qc", "qd", "qa", "qb", "qr", "q1", "q2", "q3")
StatementNetlists == Statements_("c", "d", "a", "b", "r", "n1", "n2", "n3")

ASSUME QueriesConnected == \A q \in CallQueries \cup StatementQueries : q.order # << >> /\ Connected(q)

MCSearches ==
  [query : CallQueries, netlist : ThreeCalls \cup TwoChains]
  \cup [query : StatementQueries, netlist : StatementNetlists]
=============================================================================
