----------------------------- MODULE Verilog2001 -----------------------------
(***************************************************************************)
(* serializer::Verilog2001 writes a netlist and the netlists it is made of *)
(* (src/serializer/verilog_structural.cpp), each as a module: first those  *)
(* of its components, then its ports, its nets and the instances of the    *)
(* components; the processes are the subject of module ToVerilog.  The     *)
(* names are those of module NameScope, and SerializerIO says where the    *)
(* text goes.  How a use of a net is written is a constant here, and the   *)
(* subject of module VerilogUsages.                                        *)
(*                                                                         *)
(* A design is the netlist to be written (top), the netlists, and io: a    *)
(* netlist has a name, ports, nets and comps, in the order of their index; *)
(* a component is an instance (id) of a netlist (of), with conn: its       *)
(* child_to_parent, port -> use of a net.                                  *)
(***************************************************************************)
EXTENDS NameScope, SerializerIO

CONSTANTS Designs,
          StringOrder,            \* suggested name -> its place among the strings
          serialize_use(_, _),    \* names and a use of a net -> the text of the use
          Unwritable(_)           \* the uses that the serializer crashes on

ASSUME StringOrderAssumption ==
  StringOrder \in [Suggestions -> Nat] /\
  \A m, n \in Suggestions : StringOrder[m] = StringOrder[n] => m = n

(* Everything that is named is an object of its own, a component connects  *)
(* ports of its netlist, and no netlist is a part of itself.               *)
ASSUME DesignsAssumption ==
  \A d \in Designs : LET N == d.netlists IN
    /\ DOMAIN N \subseteq Objects /\ IsFiniteSet(DOMAIN N) /\ d.top \in DOMAIN N /\ d.io \in Outputs
    /\ \A n \in DOMAIN N :
         /\ N[n].name \in Suggestions
         /\ \A p \in {"ports", "nets", "comps"} :
              /\ N[n][p] \in Seq(Elements(N[n][p]))
              /\ \A i \in DOMAIN N[n][p] :
                   /\ N[n][p][i].id \in Objects \ DOMAIN N
                   /\ p # "comps" => N[n][p][i].name \in Suggestions
                   /\ \A m \in DOMAIN N, q \in {"ports", "nets", "comps"} :
                        \A j \in DOMAIN N[m][q] :
                          N[n][p][i].id = N[m][q][j].id => n = m /\ p = q /\ i = j
         /\ \A i \in DOMAIN N[n].comps : LET c == N[n].comps[i] IN
              /\ c.of \in DOMAIN N
              /\ \A p \in DOMAIN c.conn : \E j \in DOMAIN N[c.of].ports : N[c.of].ports[j].id = p
    /\ \E height \in [DOMAIN N -> 0 .. Cardinality(DOMAIN N)] :
         \A n \in DOMAIN N : \A i \in DOMAIN N[n].comps : height[N[n].comps[i].of] < height[n]

VARIABLES design, stack, written, failed

nameVars == <<items, cntrs, all_names, occupied, home, asked, order>>
textVars == <<design, stack, written, failed>>

Netlist(n) == design.netlists[n]

(* s by the names of its items, then by index. *)
sort_named_objects(s, names) ==
  LET before(i, j) == \/ StringOrder[names[i]] < StringOrder[names[j]]
                      \/ names[i] = names[j] /\ i < j
      place == [i \in DOMAIN s |-> Cardinality({j \in DOMAIN s : before(j, i)}) + 1]
  IN  [k \in DOMAIN s |-> s[CHOOSE i \in DOMAIN s : place[i] = k]]

SortedComponents(n) ==
  LET comps == Netlist(n).comps
  IN  sort_named_objects(comps, [i \in DOMAIN comps |-> Netlist(comps[i].of).name])
SortedPorts(n) ==
  LET ports == Netlist(n).ports
  IN  sort_named_objects(ports, [i \in DOMAIN ports |-> ports[i].name])

(* all_names is asked for the address of the shared_ptr, which it never    *)
(* has: every component is a dependency, also when its module is there.    *)
dependencies(n) == SortedComponents(n)

(* What the body of a module consists of. *)
Part(k, s) == [i \in DOMAIN s |-> [k |-> k, of |-> s[i]]]
Body(n) ==
  Part("port", SortedPorts(n)) \o Part("net", Netlist(n).nets) \o Part("instance", SortedComponents(n))

Frame(n) == [of |-> n, stage |-> "dependencies", todo |-> dependencies(n)]
Top == Last(stack)
Put(frame) == stack' = Append(Front(stack), frame)

Item(k, of, id, name, conn) ==
  [k |-> k, of |-> of, id |-> id, name |-> name, conn |-> conn, file |-> file]
Write(item) == written' = Append(written, item)

VerilogInit ==
  /\ Init
  /\ design \in Designs
  /\ IOInit(design.io)
  /\ stack = <<Frame(design.top)>>
  /\ written = << >>
  /\ failed = FALSE

Running == stack # << >> /\ occupied = NoError /\ ~ failed

(* Mutant: the name is taken as it is. *)
NamedAs_unchecked(n, obj, isGlobal) ==
  all_names' = WithEntry(obj, n, all_names) /\ UNCHANGED <<items, cntrs, occupied, home, asked, order>>

(* checkedName answers from all_names, or gives the name.  When it throws  *)
(* nothing else happens.                                                   *)
NamedAs(n, obj, isGlobal) ==
  IF obj \in DOMAIN all_names THEN UNCHANGED nameVars ELSE checkedName(n, obj, isGlobal)

serialize_dependency ==
  /\ Running /\ Top.stage = "dependencies" /\ Top.todo # << >>
  /\ stack' = Append(Append(Front(stack), [Top EXCEPT !.todo = Tail(@)]), Frame(Head(Top.todo).of))
  /\ UNCHANGED <<nameVars, ioVars, design, written, failed>>

name_module ==
  /\ Running /\ Top.stage = "dependencies" /\ Top.todo = << >>
  /\ NamedAs(Netlist(Top.of).name, Top.of, TRUE)
  /\ IF occupied' # NoError THEN UNCHANGED <<ioVars, stack>>
     ELSE hierarchy_push(design.io, all_names'[Top.of]) /\ Put([Top EXCEPT !.stage = "head"])
  /\ UNCHANGED <<design, written, failed>>

serialize_module_head ==
  /\ Running /\ Top.stage = "head"
  /\ level_push
  /\ Write(Item("module", Top.of, Top.of, all_names[Top.of], << >>))
  /\ Put([Top EXCEPT !.stage = "body", !.todo = Body(Top.of)])
  /\ UNCHANGED <<ioVars, design, failed>>

Next_(k) == Running /\ Top.stage = "body" /\ Top.todo # << >> /\ Head(Top.todo).k \in k
Rest == Put([Top EXCEPT !.todo = Tail(@)])

(* serialize_io and serialize_net_def *)
serialize_declaration ==
  /\ Next_({"port", "net"})
  /\ LET n == Head(Top.todo).of IN
     /\ NamedAs(n.name, n.id, FALSE)
     /\ IF occupied' # NoError THEN UNCHANGED <<stack, written>>
        ELSE Rest /\ Write(Item(Head(Top.todo).k, Top.of, n.id, all_names'[n.id], << >>))
  /\ UNCHANGED <<ioVars, design, failed>>

(* The name of the instance is made, though it is not written.  That of    *)
(* the module and its ports were when the module was written.              *)
serialize_component_instance ==
  /\ Next_({"instance"})
  /\ LET c == Head(Top.todo).of
         crash == \E p \in DOMAIN c.conn : Unwritable(c.conn[p])
         text == [p \in DOMAIN c.conn |-> [port |-> all_names[p],
                                           use |-> serialize_use(all_names, c.conn[p])]]
     IN  /\ NamedAs(Netlist(c.of).name, c.id, FALSE)
         /\ IF occupied' # NoError THEN UNCHANGED <<stack, written, failed>>
            ELSE IF crash THEN failed' = TRUE /\ UNCHANGED <<stack, written>>
            ELSE Rest /\ Write(Item("instance", c.of, c.id, all_names[c.of], text)) /\ UNCHANGED failed
  /\ UNCHANGED <<ioVars, design>>

serialize_endmodule ==
  /\ Running /\ Top.stage = "body" /\ Top.todo = << >>
  /\ Write(Item("endmodule", Top.of, Top.of, all_names[Top.of], << >>))
  /\ level_pop
  /\ hierarchy_pop(design.io)
  /\ stack' = Front(stack)
  /\ UNCHANGED <<design, failed>>

VerilogNext ==
  \/ serialize_dependency
  \/ name_module
  \/ serialize_module_head
  \/ serialize_declaration
  \/ serialize_component_instance
  \/ serialize_endmodule

VerilogSpec == VerilogInit /\ [][VerilogNext]_<<nameVars, ioVars, textVars>>
-----------------------------------------------------------------------------
Done == stack = << >>

Written(k) == {i \in DOMAIN written : written[i].k = k}

(* The definition that line i belongs to starts at this line. *)
HeadOf(i) == Max({j \in Written("module") : j <= i})

(* The definitions of n, and the components of n in all definitions. *)
Definitions(n) == {i \in Written("module") : written[i].of = n}
Needed(n) ==
  UNION {{i} \X {k \in DOMAIN Netlist(written[i].of).comps : Netlist(written[i].of).comps[k].of = n} :
           i \in Written("module")}

(* Each module is defined in front of its instances, under a name of its   *)
(* own and with the ports that they name; within a module every declared   *)
(* name is another one.  The definition is repeated for every component    *)
(* in a definition that was written (verilog_structural.cpp:148-189).      *)
ModulesInOrder ==
  /\ \A i \in Written("instance") :
       \E j \in Written("endmodule") :
         /\ j < i /\ written[j].of = written[i].of /\ written[j].name = written[i].name
         /\ \A p \in DOMAIN written[i].conn :
              \E l \in HeadOf(j) .. j : written[l].k = "port" /\ written[l].id = p
                                        /\ written[l].name = written[i].conn[p].port
  /\ \A i, j \in Written("module") :
       written[i].name = written[j].name => written[i].of = written[j].of
  /\ \A i, j \in Written("port") \cup Written("net") :
       i < j /\ HeadOf(i) = HeadOf(j) => written[i].name # written[j].name
  /\ Done => \A n \in DOMAIN design.netlists :
               Cardinality(Definitions(n)) = Cardinality(Needed(n)) + IF n = design.top THEN 1 ELSE 0

(* A netlist with components of different netlists of one name is never    *)
(* written: one of their modules is named with the number 0, and the level *)
(* that names the instances counts from 0 again, so NameOccupiedErr ends   *)
(* it (namescope.cpp:78-105, verilog_structural.cpp:179-189).              *)
SameNameNeverWritten ==
  Done =>
    \A i \in Written("module") :
      \A c, d \in ToSet(Netlist(written[i].of).comps) :
        Netlist(c.of).name = Netlist(d.of).name => c.of = d.of

(* All that is written is in a file, when the output is a stream, when     *)
(* there is one module, or when the files are directly in the root.  In    *)
(* other cases the top directory is made for the module that is written    *)
(* first, the deepest one, and the text of others is lost                  *)
(* (serializer_io.cpp:39-82).                                              *)
FilesComplete ==
  Done =>
    ((\A i \in DOMAIN written : written[i].file # Closed)
       = \/ ~ design.io.files
         \/ \A i, j \in Written("module") : written[i].of = written[j].of
         \/ design.io.flat /\ ~ design.io.to_top_dir)
=============================================================================
