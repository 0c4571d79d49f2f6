---------------------------- MODULE InsertionSet ----------------------------
(***************************************************************************)
(* What netlistDB::utils::OrderedSet promises its callers: one collection  *)
(* without duplicates, kept in the order of insertion, whose operations    *)
(* answer from exactly the items that are in it.  OrderedSet implements it *)
(* with a vector and, from a size limit on, a hash set beside the vector.  *)
(***************************************************************************)
EXTENDS Sequences, UniqueSeq

CONSTANT T              \* the items

VARIABLES items,        \* the collection, oldest item first
          op,           \* the last operation: its name and its argument
          ret           \* its answer

avars == <<items, op, ret>>

Init == /\ items = << >>
        /\ op = << >>
        /\ ret = FALSE

Insert(x) ==
  /\ op' = <<"push_back", x>>
  /\ ret' = ~In(x, items)
  /\ items' = IF In(x, items) THEN items ELSE Append(items, x)

Discard(x) ==
  /\ op' = <<"discard", x>>
  /\ ret' = In(x, items)
  /\ items' = Without(items, x)

Contains(x) ==
  /\ op' = <<"contains", x>>
  /\ ret' = In(x, items)
  /\ UNCHANGED items

(* Whether the collection shares an item with the set others. *)
Intersects(others) ==
  /\ op' = <<"does_intersects", others>>
  /\ ret' = \E x \in others : In(x, items)
  /\ UNCHANGED items

Next == \/ \E x \in T : Insert(x) \/ Discard(x) \/ Contains(x)
        \/ \E others \in SUBSET T : Intersects(others)

Spec == Init /\ [][Next]_avars
=============================================================================
