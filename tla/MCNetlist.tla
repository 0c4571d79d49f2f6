----------------------------- MODULE MCNetlist -----------------------------
(* An instance of Netlist: three nets and three operations, one operator   *)
(* of each arity, so that calls of calls, indexed destinations and three   *)
(* levels of statements all occur.                                         *)
EXTENDS Netlist
=============================================================================
