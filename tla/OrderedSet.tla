----------------------------- MODULE OrderedSet -----------------------------
(***************************************************************************)
(* utils::OrderedSet (include/netlistDB/utils/ordered_set.h): a publicly   *)
(* inherited std::vector and an unordered_set that shadows it once the     *)
(* vector has USE_SET_LOWER_LIMIT items.  Because the inheritance is       *)
(* public, callers also reach the vector directly: Net::forward_disconnect *)
(* erases from it, and sensitivity.clear() or _inputs.clear() empty it;    *)
(* neither knows of the shadow set.                                        *)
(***************************************************************************)
EXTENDS Naturals, Sequences, UniqueSeq

CONSTANTS T,             \* the items
          LIMIT,         \* USE_SET_LOWER_LIMIT
          OTHERS         \* the sequences extend() is called with

ASSUME LimitAssumption  == LIMIT \in Nat
ASSUME OthersAssumption == OTHERS \subseteq Seq(T)

VARIABLES vec,           \* the base class std::vector
          set,           \* _set
          todo,          \* what a running extend() has still to push
          op,            \* the last operation of the class: its name and argument
          ret,           \* its answer
          changed_by     \* history: "class" until a caller changes the vector

vars == <<vec, set, todo, op, ret, changed_by>>

Abs == INSTANCE InsertionSet WITH items <- vec

Items == Elements(vec)

UseSet == Len(vec) >= LIMIT

Calls == ({"push_back", "discard", "contains"} \X T) \cup ({"does_intersects"} \X SUBSET T)

Init == /\ vec = << >>
        /\ set = {}
        /\ todo = << >>
        /\ op = << >>
        /\ ret = FALSE
        /\ changed_by = "class"

-----------------------------------------------------------------------------
(* Mutant: reaching the limit inserts the new item alone. *)
push_back_short_lazy(x) ==
  /\ ~UseSet
  /\ IF x \in Items
     THEN ret' = FALSE /\ UNCHANGED <<vec, set>>
     ELSE /\ vec' = Append(vec, x)
          /\ set' = IF Len(vec) + 1 = LIMIT THEN set \cup {x} ELSE set
          /\ ret' = TRUE

(* push_back: below the limit a linear search; the insertion that reaches  *)
(* the limit adds the whole vector to the set.                             *)
push_back_short(x) ==
  /\ ~UseSet
  /\ IF x \in Items
     THEN ret' = FALSE /\ UNCHANGED <<vec, set>>
     ELSE /\ vec' = Append(vec, x)
          /\ set' = IF Len(vec) + 1 = LIMIT THEN set \cup Items \cup {x} ELSE set
          /\ ret' = TRUE

(* From the limit on the set alone decides. *)
push_back_long(x) ==
  /\ UseSet
  /\ IF x \in set
     THEN ret' = FALSE /\ UNCHANGED <<vec, set>>
     ELSE /\ vec' = Append(vec, x)
          /\ set' = set \cup {x}
          /\ ret' = TRUE

push_back(x) ==
  /\ op' = <<"push_back", x>>
  /\ push_back_short(x) \/ push_back_long(x)

(* extend and push_back_many push the other collection item by item. *)
extend(other) ==
  /\ other # << >>
  /\ todo' = other
  /\ UNCHANGED <<vec, set, op, ret, changed_by>>

extend_next ==
  /\ todo # << >>
  /\ push_back(Head(todo))
  /\ todo' = Tail(todo)
  /\ UNCHANGED changed_by

(* Mutant: discard that does not empty the set below the limit and erases  *)
(* from the set only while it stays in use.                                *)
discard_keeps_set(x) ==
  /\ op' = <<"discard", x>>
  /\ vec' = Without(vec, x)
  /\ ret' = (x \in Items)
  /\ set' = IF Len(vec) > LIMIT THEN set \ {x} ELSE set

(* discard: the set is emptied when the vector falls below the limit. *)
discard(x) ==
  /\ op' = <<"discard", x>>
  /\ vec' = Without(vec, x)
  /\ ret' = (x \in Items)
  /\ set' = IF ~UseSet THEN set
            ELSE IF x \in Items /\ Len(vec) = LIMIT THEN {}
            ELSE set \ {x}

contains(x) ==
  /\ op' = <<"contains", x>>
  /\ ret' = (x \in IF UseSet THEN set ELSE Items)
  /\ UNCHANGED <<vec, set>>

(* does_intersects searches the vectors of both sets, whatever their size. *)
does_intersects(others) ==
  /\ op' = <<"does_intersects", others>>
  /\ ret' = (others \cap Items # {})
  /\ UNCHANGED <<vec, set>>

(* erase_if_seq called on the base vector, as Net::forward_disconnect does. *)
(* A predicate that holds of several items is as many of these steps, none  *)
(* of which reads the set.                                                  *)
erase_if_seq(x) ==
  /\ vec' = Without(vec, x)
  /\ UNCHANGED <<set, op, ret>>

(* clear() of a sensitivity list or of _inputs is std::vector::clear. *)
clear ==
  /\ vec' = << >>
  /\ UNCHANGED <<set, op, ret>>

OwnCall == \/ \E x \in T : push_back(x) \/ discard(x) \/ contains(x)
           \/ \E others \in SUBSET T : does_intersects(others)

BaseCall == (\E x \in T : erase_if_seq(x)) \/ clear

Next == \/ todo = << >> /\ OwnCall /\ UNCHANGED <<todo, changed_by>>
        \/ todo = << >> /\ BaseCall /\ changed_by' = "caller" /\ UNCHANGED todo
        \/ todo = << >> /\ \E other \in OTHERS : extend(other)
        \/ extend_next

Spec == Init /\ [][Next]_vars

-----------------------------------------------------------------------------
(* The types of the vector, the shadow set and the answers. *)
TypeOK == /\ vec \in Seq(T)
          /\ set \in SUBSET T
          /\ todo \in Seq(T)
          /\ op \in {<< >>} \cup Calls
          /\ ret \in BOOLEAN
          /\ changed_by \in {"class", "caller"}

(* No item is in the collection twice, whatever sequence of pushes,        *)
(* discards and erasures behind the back of the class led to it: push_back *)
(* decides by two different structures and switches between them.          *)
NoDuplicates == Unique(vec)

(* From the limit on, the set that push_back and contains consult knows at *)
(* least every item of the vector: contains() never denies an item that is *)
(* there, even after erasures the class did not see.                       *)
NoFalseNegative == UseSet => Items \subseteq set

(* As long as the class alone changes the vector, the set is that of the   *)
(* vector's items from the limit on and empty below it, so that the copy   *)
(* push_back makes at the limit starts from nothing.                       *)
SetMirrorsVector == changed_by = "class" => set = IF UseSet THEN Items ELSE {}

(* As long as the class alone changes the vector, every call changes the   *)
(* collection and answers as on one duplicate-free insertion sequence.     *)
ImplementsInsertionSet == [][changed_by' = "class" => [Abs!Next]_<<vec, op, ret>>]_vars

(* The class comment: one collection, a "Set + vector".  Where the set     *)
(* decides, contains(x) means that iterating over the collection meets x.  *)
ContainsMeansIterated == UseSet => set \subseteq Items
=============================================================================
