---------------------------- MODULE VerilogUsages ----------------------------
(***************************************************************************)
(* Verilog2001 with the uses of nets of module VerilogExpr:                *)
(* serialize_use is serialize_net_usage, and Unwritable is Crashes.        *)
(***************************************************************************)
EXTENDS Verilog2001, VerilogExpr

(* What a port is connected to reads as the net, the literal or the        *)
(* expression that it is, unless that has a product under ~ or behind /    *)
(* (serializer.cpp:41-126, verilog.cpp:113-191).                           *)
UsagesReadBack ==
  \A i \in Written("instance") :
    LET c == CHOOSE x \in ToSet(Netlist(written[HeadOf(i)].of).comps) : x.id = written[i].id
    IN  \A p \in DOMAIN c.conn :
          (ReadUsage(written[i].conn[p].use) = MeantUsage(all_names, c.conn[p])) = ~ Misread(c.conn[p])
=============================================================================
