------------------------------ MODULE MCVerilog ------------------------------
(* Instances of VerilogUsages: hierarchies of up to four netlists written  *)
(* to a stream and to files, and a netlist whose one component is          *)
(* connected to expressions of up to three levels and to literals of up to *)
(* six bits.                                                               *)
EXTENDS VerilogUsages

Plain(s) == <<s, << >>, FALSE>>
Numbered(s) == <<s, <<0>>, FALSE>>
Open(s) == <<s, << >>, TRUE>>

MCStems == {"a", "b", "o", "sub", "top", "Begin", "begin"}
MCLower == [s \in MCStems |-> IF s = "Begin" THEN "begin" ELSE s]
MCKeywords == {Plain("begin")}

Strings == <<Plain("Begin"), Plain("a"), Numbered("a"), Plain("b"), Plain("begin"), Plain("o"),
             Plain("sub"), Numbered("sub"), Plain("top"), Open("a")>>
MCSuggestions == ToSet(Strings)
MCStringOrder == [n \in MCSuggestions |-> CHOOSE i \in DOMAIN Strings : Strings[i] = n]

Obj(id, name) == [id |-> id, name |-> name]
Comp(id, of, conn) == [id |-> id, of |-> of, conn |-> conn]
Net_(name, ports, nets, comps) == [name |-> name, ports |-> ports, nets |-> nets, comps |-> comps]
MCObjects ==
  {"T", "S", "U", "B", "t.a", "t.b", "t.o", "t.n", "t.m", "s.a", "s.o", "s.p", "u.a", "u.o", "b.a",
   "b.o", "c1", "c2", "c3", "c4"}

-----------------------------------------------------------------------------
(* Hierarchies *)
Leaf(name, pre) ==
  Net_(name, <<Obj(pre \o ".o", Plain("o")), Obj(pre \o ".a", Plain("a"))>>, << >>, << >>)

To(pre, in, out) ==
  (pre \o ".a") :> NetUse(in) @@ (pre \o ".o") :> NetUse(out)

TopNets(ports, nets, comps) == Net_(Plain("top"), ports, nets, comps)
AB == <<Obj("t.b", Plain("b")), Obj("t.a", Plain("a"))>>

Hierarchies ==
  {[T |-> TopNets(AB, << >>, << >>)]}
  \cup
  {[T |-> TopNets(<<Obj("t.b", m), Obj("t.a", n)>>, nets, <<Comp("c1", "S", To("s", "t.a", "t.b"))>>),
    S |-> Leaf(s, "s")] :
      m \in {Plain("b"), Plain("a"), Numbered("sub")}, n \in {Plain("a"), Plain("Begin"), Plain("top"), Open("a")},
      s \in {Plain("sub"), Plain("begin"), Plain("top"), Numbered("a")},
      nets \in {<< >>, <<Obj("t.n", Plain("a")), Obj("t.m", Numbered("a"))>>,
                <<Obj("t.n", Numbered("a")), Obj("t.m", Plain("a"))>>}}
  \cup
  {[T |-> TopNets(AB, <<Obj("t.n", Plain("o"))>>,
                  <<Comp("c1", x, To(IF x = "S" THEN "s" ELSE "u", "t.a", "t.n")),
                    Comp("c2", y, To(IF y = "S" THEN "s" ELSE "u", "t.n", "t.b"))>>),
    S |-> Leaf(Plain("sub"), "s"), U |-> Leaf(u, "u")] :
      x \in {"S", "U"}, y \in {"S", "U"}, u \in {Plain("sub"), Plain("b")}}
  \cup
  {[T |-> TopNets(AB, <<Obj("t.n", Plain("o"))>>,
                  <<Comp("c1", "S", To("s", "t.a", "t.n")), Comp("c2", "U", To("u", "t.n", "t.b"))>>),
    S |-> Net_(Plain("sub"), Leaf(Plain("sub"), "s").ports, << >>, <<Comp("c3", "B", To("b", "s.a", "s.o"))>>),
    U |-> Net_(Plain("o"), Leaf(Plain("o"), "u").ports, << >>, <<Comp("c4", "B", To("b", "u.a", "u.o"))>>),
    B |-> Leaf(b, "b")] : b \in {Plain("b"), Plain("o"), Plain("top")}}

-----------------------------------------------------------------------------
(* Uses of nets *)
Binary(ops, L, R) == {Call(op, <<l, r>>) : op \in ops, l \in L, r \in R}
Unary(E) == {Call("neg", <<e>>) : e \in E}
A == NetUse("t.a")
Slices(E) == {Call("slice", <<e, i>>) : e \in E, i \in {A, Call("downto", <<A, A>>), Call("add", <<A, A>>)}}

Level1(ops) == {A} \cup Unary({A}) \cup Binary(ops, {A}, {A})
AllOps == {"div", "add", "sub", "mul", "eq", "and", "xor", "or", "lt", "concat"}
Mixed == {"mul", "div", "add"}
Level2(ops) == Unary(Level1(ops)) \cup Binary(ops, Level1(ops), Level1(ops))

Expressions ==
  Level2(AllOps) \cup Slices(Level1(AllOps)) \cup Unary(Slices({A}))
  \cup Binary(AllOps, Slices({A}), Slices({A}))
  \cup Unary(Level2(Mixed)) \cup Slices(Level2({"mul", "add"}))
  \cup Binary(Mixed, Level2({"mul", "add"}), Level1({"div", "mul"})) \cup Binary(Mixed, {A}, Level2(Mixed))
  \cup Binary({"concat", "sub"}, Level1({"concat", "sub"}), Level2({"sub", "concat"}))

(* Also values that were not trimmed to their width. *)
Literals(w) == {<<Value(w, 2 ^ w - 1, m), Value(w, 2 ^ w + 2, m)>> : m \in 0 .. 2 ^ w - 1}

UsePairs == {<<e, A>> : e \in Expressions} \cup UNION {Literals(w) : w \in {1, 2, 4, 5, 6}}

UsesIn(u) ==
  [T |-> TopNets(<<Obj("t.a", Plain("a"))>>, << >>, <<Comp("c1", "S", "s.a" :> u[1] @@ "s.o" :> u[2])>>),
   S |-> Leaf(Plain("sub"), "s")]

MCDesigns ==
  [top : {"T"}, netlists : Hierarchies, io : Outputs]
  \cup [top : {"T"}, netlists : {UsesIn(u) : u \in UsePairs}, io : {ToStream}]
=============================================================================
