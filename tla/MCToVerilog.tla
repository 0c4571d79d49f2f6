----------------------------- MODULE MCToVerilog -----------------------------
(* Instances of ToVerilog: netlists of one to three statements over two    *)
(* values for each net, in all the shapes that the transformations tell    *)
(* apart, and netlists for the faults that take a certain structure.       *)
EXTENDS ToVerilog

MCNets == {"x", "y", "z", "a", "c", "d", "e", "clk", "k0", "k0b", "k1", "not_d", "x_and_c", "edge"}

MCConstVal == [n \in {"k0", "k0b", "k1"} |-> IF n = "k1" THEN "v1" ELSE "v0"]

MCOperands ==
  [n \in {"not_d", "x_and_c", "edge"} |->
     CASE n = "not_d" -> <<"d">> [] n = "x_and_c" -> <<"x", "c">> [] n = "edge" -> <<"clk">>]

MCNopVal == [n \in {"y"} |-> "k1"]

MCAddr ==
  LET order == <<"z", "c", "x", "a", "y", "d", "e", "clk", "k0", "k0b", "k1", "not_d", "x_and_c", "edge">>
  IN  [n \in MCNets |-> SelectInSeq(order, LAMBDA m : m = n)]

MCPorts == {"x", "z", "a", "c", "d", "e", "clk"}

If1(c, t) == IfTree(<<c>>, <<t, << >>>>, FALSE)
IfElse(c, t, f) == IfTree(<<c>>, <<t, f>>, TRUE)
IfElif(c, t, d, u) == IfTree(<<c, d>>, <<t, u, << >>>>, FALSE)
IfElifElse(c, t, d, u, f) == IfTree(<<c, d>>, <<t, u, f>>, TRUE)

(* The statements that drive w with the values p and q. *)
Shapes(w, p, q) ==
  LET P == <<Assign(w, p)>>
      Q == <<Assign(w, q)>>
      mux == <<IfElse("d", P, Q)>>
      open == <<IfElse("d", P, << >>)>>
      elif == <<IfElif("d", P, "e", Q)>>
  IN  {P[1], If1("c", P), IfElse("c", P, Q), IfElif("c", P, "d", Q), IfElifElse("c", P, "d", Q, P),
       IfElse("c", mux, Q), IfElse("c", P, mux), IfElse("c", mux, mux), IfElse("c", P, elif),
       IfElse("c", P, << >>), IfElse("c", << >>, P), IfElse("not_d", P, Q), If1("edge", P), If1("c", <<If1("edge", P)>>),
       IfElif("edge", P, "c", Q), IfElif("c", P, "edge", Q), IfElse("c", open, elif), IfElse("c", elif, open),
       IfElse("c", open, open), If1("c", open), If1("c", <<If1("e", P)>>),
       IfElifElse("c", P, "d", << >>, Q), IfElse("c", <<If1("d", P)>>, Q)}

Pairs_ ==
  UNION {{<<s, t>> : s \in Shapes("x", p[1], p[2]), t \in Shapes("y", p[3], p[4])} :
    p \in {<<"k0", "k0b", "k0", "k1">>, <<"a", "k1", "a", "x">>, <<"y", "a", "x", "a">>}}

Singles ==
  UNION {{<<s>> : s \in Shapes("x", p[1], p[2])} :
    p \in {"k0", "k0b", "a", "x_and_c", "x"} \X {"k0", "k1", "a", "y", "x_and_c"}}

X(s) == Assign("x", s)
Y(s) == Assign("y", s)
Z(s) == Assign("z", s)

Picked ==
  LET both(l) == IfElse("c", l, l) IN
  {<<If1("c", <<If1("d", <<X("a")>>), If1("d", <<Y("a")>>)>>)>>,
   <<If1("c", <<If1("d", <<X("a")>>), If1("e", <<Y("a")>>)>>)>>,
   <<If1("c", <<If1("d", <<X("a")>>), If1("d", <<Y("a")>>), If1("d", <<Z("a")>>)>>)>>,
   <<If1("c", <<If1("d", <<X("a")>>), If1("e", <<Y("a")>>), If1("not_d", <<Z("a")>>)>>)>>,
   <<If1("c", <<If1("d", <<X("a")>>), If1("e", <<Y("a")>>), If1("d", <<Z("a")>>)>>)>>,
   <<If1("c", <<If1("d", <<X("a")>>), If1("e", <<Y("a")>>), If1("e", <<Z("a")>>)>>)>>,
   <<If1("c", <<IfElse("d", <<If1("e", <<X("a")>>)>>, << >>), IfElse("d", <<If1("c", <<Z("a")>>)>>, << >>)>>)>>,
   <<If1("c", <<If1("d", <<If1("e", <<X("a")>>), If1("not_d", <<Z("a")>>)>>), If1("d", <<If1("e", <<If1("c", <<Y("a")>>)>>)>>)>>)>>,
   <<If1("d", <<If1("e", <<X("a")>>), If1("not_d", <<Z("a")>>)>>), If1("d", <<If1("e", <<If1("c", <<Y("a")>>)>>)>>)>>,
   <<If1("d", <<If1("e", <<X("a")>>), Z("a")>>), IfElif("d", <<Y("a")>>, "e", <<Y("k1")>>)>>,
   <<If1("d", <<IfElif("e", <<X("a")>>, "c", <<X("k1")>>)>>), If1("d", <<IfElse("e", <<Z("a")>>, <<Z("k1")>>)>>)>>,
   <<both(<<X("a"), If1("d", <<Y("a")>>)>>), If1("d", <<Z("k0")>>)>>,
   <<If1("d", <<Z("k0")>>), both(<<X("a"), If1("d", <<Y("a")>>)>>)>>,
   <<both(<<X("a"), If1("d", <<Y("x")>>)>>), If1("d", <<Z("k0")>>)>>,
   <<both(<<If1("e", <<X("y")>>), If1("d", <<Y("x")>>)>>)>>,
   <<both(<<X("a"), Y("a")>>), both(<<Z("a")>>)>>,
   <<both(<< >>)>>,
   <<If1("edge", <<X("a"), Z("a")>>)>>, <<If1("edge", << >>)>>,
   <<If1("k1", <<If1("edge", <<X("a"), Z("a")>>)>>)>>, <<If1("k1", <<If1("edge", <<X("a")>>)>>)>>,
   <<If1("edge", <<If1("c", <<If1("edge", <<X("a"), Z("a")>>)>>)>>)>>,
   <<IfElse("c", <<IfElif("d", <<X("a")>>, "edge", <<X("k1")>>)>>, <<X("k0")>>)>>,
   <<If1("edge", <<IfElse("c", <<If1("edge", <<If1("d", <<X("a")>>)>>)>>, <<X("k0")>>)>>)>>,
   <<If1("edge", <<IfElse("c", <<If1("d", <<X("a")>>), Y("a")>>, <<X("k0")>>)>>)>>,
   <<If1("c", << >>), If1("c", <<X("a")>>), If1("c", <<Z("x")>>)>>,
   <<If1("d", <<X("a")>>), If1("d", <<Y("a")>>), If1("d", <<Z("a")>>)>>,
   <<If1("d", <<X("a")>>), If1("c", <<Y("a")>>), If1("d", <<Z("a")>>)>>,
   <<If1("d", <<X("z")>>), If1("d", <<Y("x")>>), If1("d", <<Z("a")>>)>>,
   <<If1("not_d", <<X("a")>>), If1("not_d", <<Z("d")>>), Assign("y", "a")>>,
   <<If1("c", <<If1("edge", <<X("a")>>), Y("a")>>)>>,
   <<If1("c", <<X("a"), Z("d")>>), If1("c", <<If1("d", <<Y("z")>>)>>)>>}

MCPrograms == Pairs_ \cup Singles \cup Picked
=============================================================================
