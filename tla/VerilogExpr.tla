----------------------------- MODULE VerilogExpr -----------------------------
(***************************************************************************)
(* How serializer::Verilog2001 writes a use of a net: a name, a literal    *)
(* (verilog.cpp, serialize_value and serialize_net_usage), or an           *)
(* expression, with brackets where the precedences ask for them            *)
(* (serializer.cpp, verilog_ops.cpp, verilog_constants.cpp); and what a    *)
(* reader of Verilog takes it for.                                         *)
(*                                                                         *)
(* A text is a sequence of tokens; what is in a pair of brackets is one    *)
(* token.  A digit X is -1.                                                *)
(***************************************************************************)
EXTENDS Integers, Sequences, SequencesExt

Undefined == -1

Node(op, net, lit, args) == [op |-> op, net |-> net, lit |-> lit, args |-> args]
NetUse(n) == Node("net", n, << >>, << >>)
Value(width, value, mask) ==
  Node("value", "", [width |-> width, value |-> value, mask |-> mask], << >>)
Call(op, args) == Node(op, "", << >>, args)

IsExpression(e) == e.op \notin {"net", "value"}

-----------------------------------------------------------------------------
mask(len) == 2 ^ len - 1
select_bits(val, bitsStart, bitsLen) == (val \div 2 ^ bitsStart) % 2 ^ bitsLen

Nibbles(width) == (width + 3) \div 4
Nibble(x, B) == select_bits(x, 4 * B, 4)

(* Mutant: what is only partly defined is not told from what is. *)
can_be_in_hex_partly(v) == v.width > 1

(* Hex digits: all of the value is defined or nothing is, or every nibble; *)
(* the first one may be shorter.                                           *)
can_be_in_hex(v) ==
  LET top == Nibbles(v.width) - 1 IN
  /\ v.width > 1
  /\ v.mask \in {0, mask(v.width)} \/
     \A B \in 0 .. top : Nibble(v.mask, B) \in {0, 15} \/
                         (B = top /\ Nibble(v.mask, B) = Nibble(mask(v.width), B))

serialize_value(v) ==
  LET base == IF can_be_in_hex(v) THEN 4 ELSE 1
      n == IF can_be_in_hex(v) THEN Nibbles(v.width) ELSE v.width
      digit(i) == IF select_bits(v.mask, base * i, base) = 0 THEN Undefined
                  ELSE select_bits(v.value, base * i, base)
  IN  [width |-> v.width, bits |-> base, digits |-> [k \in 1 .. n |-> digit(n - k)]]

-----------------------------------------------------------------------------
opPrecedence ==
  [neg |-> 5, div |-> 6, add |-> 7, sub |-> 7, mul |-> 3, eq |-> 10, and |-> 11, xor |-> 12,
   or |-> 13, downto |-> 2, lt |-> 9, concat |-> 5, slice |-> 1]

Symbol ==
  [neg |-> "~", div |-> "/", add |-> "+", sub |-> "-", mul |-> "*", eq |-> "==", and |-> "&",
   xor |-> "^", or |-> "|", downto |-> ":", lt |-> "<"]

Token(t, v, in) == <<[t |-> t, v |-> v, in |-> in]>>

(* A net that is not hidden, and a constant, have none. *)
precedence_of_expr(e) == IF IsExpression(e) THEN opPrecedence[e.op] ELSE -1

(* Mutant: the right operand may have the precedence of its operator. *)
use_brackets_loose(oper, i) ==
  IsExpression(oper.args[i]) /\ precedence_of_expr(oper.args[i]) > precedence_of_expr(oper)

use_brackets(oper, i) ==
  LET my == precedence_of_expr(oper.args[i])
      parent == precedence_of_expr(oper)
  IN  my >= 0 /\ \/ my > parent
                 \/ my = parent /\ (i = 2 \/ precedence_of_expr(oper.args[2]) = my)

(* A unary operator has no right operand to ask. *)
NoRightOperand(e) ==
  e.op = "neg" /\ precedence_of_expr(e.args[1]) = precedence_of_expr(e)

(* names: net -> the name it has. *)
RECURSIVE serialize_net_usage(_, _)
serialize_operand(names, oper, i, expr_requires_brackets, cancel_brackets) ==
  LET text == serialize_net_usage(names, oper.args[i])
      bracketed == IF expr_requires_brackets THEN IsExpression(oper.args[i]) ELSE use_brackets(oper, i)
  IN  IF ~ cancel_brackets /\ bracketed THEN Token("()", "", text) ELSE text

serialize_call(names, e) ==
  CASE e.op = "neg" -> Token("op", "~", << >>) \o serialize_operand(names, e, 1, FALSE, FALSE)
    [] e.op = "concat" ->
         Token("{}", "", serialize_operand(names, e, 1, FALSE, FALSE) \o Token("op", ",", << >>)
                           \o serialize_operand(names, e, 2, FALSE, FALSE))
    [] e.op = "slice" -> serialize_operand(names, e, 1, TRUE, FALSE)
                           \o Token("[]", "", serialize_operand(names, e, 2, FALSE, TRUE))
    [] OTHER -> serialize_operand(names, e, 1, FALSE, FALSE) \o Token("op", Symbol[e.op], << >>)
                  \o serialize_operand(names, e, 2, FALSE, FALSE)

serialize_net_usage(names, e) ==
  CASE e.op = "net" -> Token("name", names[e.net], << >>)
    [] e.op = "value" -> Token("value", "", serialize_value(e.lit))
    [] OTHER -> serialize_call(names, e)

RECURSIVE Subterms(_)
Subterms(e) == {e} \cup UNION {Subterms(e.args[i]) : i \in DOMAIN e.args}

Crashes(e) == \E s \in Subterms(e) : NoRightOperand(s)

-----------------------------------------------------------------------------
(* What a literal says of each of its bits. *)
BitsOf(v) ==
  [b \in 0 .. v.width - 1 |-> IF select_bits(v.mask, b, 1) = 0 THEN Undefined
                              ELSE select_bits(v.value, b, 1)]

ReadValue(text) ==
  LET digit(b) == text.digits[Len(text.digits) - b \div text.bits]
  IN  [b \in 0 .. text.width - 1 |-> IF digit(b) = Undefined THEN Undefined
                                     ELSE select_bits(digit(b), b % text.bits, 1)]

(* The operators of Verilog by how strong they bind: the later, the less.  *)
(* All of them bind less than ~ and than an index.                         *)
Binding == <<{"*", "/"}, {"+", "-"}, {"<"}, {"=="}, {"&"}, {"^"}, {"|"}, {":"}, {","}>>

BinaryAt(ts, level) == {i \in DOMAIN ts : ts[i].t = "op" /\ ts[i].v \in Binding[level]}

OperatorOf(s) ==
  IF s = "," THEN "concat" ELSE CHOOSE op \in DOMAIN Symbol : Symbol[op] = s

(* The expression is split at the last one of its weakest operators. *)
RECURSIVE ReadUsage(_)
ReadUsage(ts) ==
  LET levels == {l \in DOMAIN Binding : BinaryAt(ts, l) # {}}
      split(at) == Call(OperatorOf(ts[at].v), <<ReadUsage(SubSeq(ts, 1, at - 1)),
                                                ReadUsage(SubSeq(ts, at + 1, Len(ts)))>>)
  IN  CASE levels # {} -> LET l == CHOOSE x \in levels : \A y \in levels : y <= x
                              is == BinaryAt(ts, l)
                          IN  split(CHOOSE i \in is : \A j \in is : j <= i)
        [] levels = {} /\ ts[1].t = "op" -> Call("neg", <<ReadUsage(Tail(ts))>>)
        [] levels = {} /\ ts[1].t # "op" /\ Len(ts) > 1 ->
             Call("slice", <<ReadUsage(Front(ts)), ReadUsage(Last(ts).in)>>)
        [] OTHER -> CASE ts[1].t = "name" -> NetUse(ts[1].v)
                      [] ts[1].t = "value" -> Node("value", "", ReadValue(ts[1].in), << >>)
                      [] OTHER -> ReadUsage(ts[1].in)

RECURSIVE MeantUsage(_, _)
MeantUsage(names, e) ==
  CASE e.op = "net" -> NetUse(names[e.net])
    [] e.op = "value" -> Node("value", "", BitsOf(e.lit), << >>)
    [] OTHER -> Call(e.op, [i \in DOMAIN e.args |-> MeantUsage(names, e.args[i])])

(* opPrecedence lets * bind stronger than ~ and /, which Verilog does not. *)
Misread(e) ==
  \E s \in Subterms(e) : \/ s.op = "neg" /\ s.args[1].op = "mul"
                         \/ s.op = "div" /\ s.args[2].op = "mul"
=============================================================================
