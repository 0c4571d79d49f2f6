------------------------------ MODULE ToVerilog ------------------------------
(***************************************************************************)
(* Module HwProcess with what comes after it: serializer::Verilog2001      *)
(* writes the processes of the netlist (src/serializer/                    *)
(* verilog_statements.cpp, the statement blocks and net types of           *)
(* verilog.cpp, verilog_tmp_var_extractor.cpp).  The text of a process is  *)
(* a sequence of tokens; a reader of the Verilog grammar tells what they   *)
(* mean.                                                                   *)
(***************************************************************************)
EXTENDS HwProcess

VARIABLES text          \* the processes as they are written

NoText == << >>

Token(k, a, b) == [k |-> k, a |-> a, b |-> b]
If_(c) == <<Token("if", c, "")>>
Else_ == <<Token("else", "", "")>>
Begin_ == <<Token("begin", "", "")>>
End_ == <<Token("end", "", "")>>
Abort_ == <<Token("abort", "", "")>>

(* The result of an edge is replaced by a net "unused". *)
is_unused(n) == n \in EventNets

(* A net is a wire if one unconditional assignment drives it. *)
IsReg(gr, n) == ~ \E s \in DOMAIN gr.stm : gr.drivers[n] = {s} /\ gr.stm[s].kind = "assign"

serialize_assignment(gr, s) ==
  LET a == gr.stm[s]
  IN  <<Token(IF ~ IsReg(gr, a.dst) /\ a.parent = 0 THEN "assign" ELSE "set", a.dst, a.src)>>

RECURSIVE serialize_stm(_, _)
serialize_all(gr, l) == FlattenSeq([i \in DOMAIN l |-> serialize_stm(gr, l[i])])

(* Mutant: a single statement is written like the others. *)
serialize_block_bare(gr, l) == serialize_all(gr, l)

(* A single statement is written without begin and end. *)
serialize_block(gr, l) ==
  IF Len(l) = 1 THEN serialize_all(gr, l) ELSE Begin_ \o serialize_all(gr, l) \o End_

(* An if that waits for an edge: its body only, and nothing else is there. *)
serialize_edge(gr, s) ==
  IF Len(s.conds) > 1 \/ s.hasElse \/ Last(s.arms) # << >> \/ s.arms[1] = << >> THEN Abort_
  ELSE serialize_all(gr, s.arms[1])

serialize_elif(gr, s, i) ==
  IF ~ is_unused(s.conds[i]) THEN Else_ \o If_(s.conds[i]) \o serialize_block(gr, s.arms[i])
  ELSE IF i < Len(s.conds) \/ s.hasElse \/ Last(s.arms) # << >> THEN Abort_
  ELSE Else_ \o serialize_block(gr, s.arms[i])

serialize_if(gr, s) ==
  IF is_unused(s.conds[1]) THEN serialize_edge(gr, s)
  ELSE If_(s.conds[1])
       \o (IF s.arms[1] = << >> THEN << >> ELSE serialize_block(gr, s.arms[1]))
       \o FlattenSeq([i \in 1 .. Len(s.conds) - 1 |-> serialize_elif(gr, s, i + 1)])
       \o (IF Last(s.arms) = << >> THEN << >> ELSE Else_ \o serialize_block(gr, Last(s.arms)))

serialize_stm(gr, s) ==
  IF gr.stm[s].kind = "if" THEN serialize_if(gr, gr.stm[s]) ELSE serialize_assignment(gr, s)

(* Mutant: the outputs are not looked at. *)
hasToBeProcess_edges(gr, p) == ToSet(p.sensitivityList) \cap EventNets # {}

(* always, when an edge is in the sensitivity list or in the statements,   *)
(* or an output is a reg.                                                  *)
hasToBeProcess(gr, p) ==
  \/ ToSet(p.sensitivityList) \cap EventNets # {}
  \/ \E s \in Within(gr.stm, p.statements) : ToSet(gr.stm[s].conds) \cap EventNets # {}
  \/ \E n \in ToSet(p.outputs) : IsReg(gr, n)

serialize_process(gr, p) ==
  [always |-> hasToBeProcess(gr, p),
   body |-> serialize_all(gr, p.statements)]

(* Next to an edge no other net can be written in a sensitivity list. *)
SensitivityFails(p) ==
  ToSet(p.sensitivityList) \cap EventNets # {} /\ ~ (ToSet(p.sensitivityList) \subseteq EventNets)

Aborts(t) == Contains(t.body, Abort_[1])

(* The netlist is written when all its statements are in processes. *)
serialize ==
  /\ pc = "done"
  /\ LET written == [i \in DOMAIN procs |-> serialize_process(g, procs[i])]
         fails == \/ \E p \in ToSet(procs) : SensitivityFails(p)
                  \/ \E t \in ToSet(written) : Aborts(t)
     IN  IF g.nodes # {} THEN Raise("not wrapped") /\ UNCHANGED text
         ELSE IF fails THEN Raise("not serializable") /\ UNCHANGED text
         ELSE text' = written /\ pc' = "written" /\ UNCHANGED <<program, g, hidden, todo, procs>>

ToVerilogInit == Init /\ text = NoText
ToVerilogNext == (Next /\ UNCHANGED text) \/ serialize
ToVerilogSpec == ToVerilogInit /\ [][ToVerilogNext]_<<vars, text>>

-----------------------------------------------------------------------------
(* What a text means: a list of assignments and of two-way ifs.  An else   *)
(* belongs to the nearest if.  The reader returns what is left behind the  *)
(* statement, or that there is none.                                       *)
Leaf(dst, src) == <<[c |-> "", dst |-> dst, src |-> src, t |-> << >>, f |-> << >>]>>
Branch(c, t, f) == <<[c |-> c, dst |-> "", src |-> "", t |-> t, f |-> f]>>
Bad == [ok |-> FALSE, l |-> << >>, rest |-> << >>]
Read(l, rest) == [ok |-> TRUE, l |-> l, rest |-> rest]
Next_(ts, k) == ts # << >> /\ ts[1].k = k

RECURSIVE ReadStm(_)
RECURSIVE ReadBlock(_)
ReadBlock(ts) ==
  LET s == ReadStm(ts)
      more == ReadBlock(s.rest)
  IN  IF ts = << >> \/ Next_(ts, "end") THEN Read(<< >>, ts)
      ELSE IF ~ s.ok \/ ~ more.ok THEN Bad ELSE Read(s.l \o more.l, more.rest)

ReadIf(c, t) ==
  LET f == ReadStm(Tail(t.rest))
  IN  IF ~ t.ok THEN Bad
      ELSE IF ~ Next_(t.rest, "else") THEN Read(Branch(c, t.l, << >>), t.rest)
      ELSE IF f.ok THEN Read(Branch(c, t.l, f.l), f.rest) ELSE Bad

ReadStm(ts) ==
  LET block == ReadBlock(Tail(ts))
  IN  CASE Next_(ts, "if") -> ReadIf(ts[1].a, ReadStm(Tail(ts)))
        [] Next_(ts, "begin") -> IF block.ok /\ Next_(block.rest, "end")
                                 THEN Read(block.l, Tail(block.rest)) ELSE Bad
        [] Next_(ts, "set") \/ Next_(ts, "assign") -> Read(Leaf(ts[1].a, ts[1].b), Tail(ts))
        [] OTHER -> Bad

RECURSIVE Meant(_, _)
RECURSIVE MeantFrom(_, _, _)
MeantFrom(h, s, i) ==
  IF i > Len(s.conds) THEN IF s.hasElse THEN Meant(h, Last(s.arms)) ELSE << >>
  ELSE IF is_unused(s.conds[i]) THEN Meant(h, s.arms[i])
  ELSE Branch(s.conds[i], Meant(h, s.arms[i]), MeantFrom(h, s, i + 1))

Meant(h, l) ==
  FlattenSeq([i \in DOMAIN l |-> IF h[l[i]].kind = "assign" THEN Leaf(h[l[i]].dst, h[l[i]].src)
                                 ELSE MeantFrom(h, h[l[i]], 1)])

(* The text of a statement ends in an if without an else. *)
RECURSIVE EndsOpen(_, _)
EndsOpen(h, s) ==
  LET a == h[s]
      last == IF Last(a.arms) # << >> THEN Last(a.arms) ELSE a.arms[Len(a.conds)]
  IN  a.kind = "if" /\ \/ Last(a.arms) = << >> /\ ~ is_unused(Last(a.conds))
                       \/ Len(last) = 1 /\ EndsOpen(h, last[1])

(* An else would bind to an if inside of the branch in front of it, a      *)
(* branch is not written at all, or an if of several statements is written *)
(* as a single one.                                                        *)
Ambiguous(h, s) ==
  LET a == h[s]
      followed(i) == i < Len(a.conds) \/ Last(a.arms) # << >>
  IN  /\ a.kind = "if" /\ ~ is_unused(a.conds[1])
      /\ \/ a.arms[1] = << >>
         \/ \E i \in DOMAIN a.conds : followed(i) /\ Len(a.arms[i]) = 1 /\ EndsOpen(h, a.arms[i][1])
         \/ \E i \in DOMAIN a.arms : /\ Len(a.arms[i]) = 1
                                     /\ Len(Meant(h, a.arms[i])) # 1

(* A process that is written reads as what its statements mean, just when  *)
(* no branch of it is ambiguous (verilog.cpp:219-239,                      *)
(* verilog_statements.cpp:52-126).                                         *)
StatementsReadBack ==
  pc = "written" /\ "unlike" \notin g.faults =>
    \A i \in DOMAIN procs :
      LET read == ReadBlock(text[i].body)
      IN  (read = Read(Meant(g.stm, procs[i].statements), << >>))
            = (\A s \in Within(g.stm, procs[i].statements) : ~ Ambiguous(g.stm, s))

(* What is written assigns a reg in one always block and nowhere else, and *)
(* a wire by one assign outside of them, which is why the netlists whose   *)
(* ifs were reduced to assignments next to other statements must not be    *)
(* written (verilog.cpp:249-264, verilog_statements.cpp:8-50, 171-178).    *)
AssignmentsLegal ==
  pc = "written" =>
    \A i \in DOMAIN text : \A t \in ToSet(text[i].body) :
      /\ t.k = "assign" => ~ text[i].always /\ ~ IsReg(g, t.a)
      /\ t.k = "set" => text[i].always /\ IsReg(g, t.a)
      /\ t.k \in {"assign", "set"} =>
           \A j \in DOMAIN text \ {i} : \A u \in ToSet(text[j].body) : u.a = t.a => u.k = "if"
=============================================================================
