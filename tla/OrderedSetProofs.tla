-------------------------- MODULE OrderedSetProofs --------------------------
(***************************************************************************)
(* Proofs about OrderedSet, for every limit, item set and sequence of      *)
(* calls: its types, its representation invariant and that it implements   *)
(* InsertionSet until the vector is changed behind the class.              *)
(***************************************************************************)
EXTENDS OrderedSet, UniqueSeqProofs

IInv == TypeOK /\ NoDuplicates /\ NoFalseNegative /\ SetMirrorsVector

-----------------------------------------------------------------------------
LEMMA InitInv == Init => IInv
<1> SUFFICES ASSUME Init PROVE IInv
  OBVIOUS
<1>1. /\ vec = << >> /\ set = {} /\ todo = << >> /\ op = << >> /\ ret = FALSE
      /\ changed_by = "class"
      /\ Len(vec) = 0 /\ DOMAIN vec = {}
  BY DEF Init
<1>2. Items = {} /\ Unique(vec)   BY <1>1 DEF Items, Elements, Unique
<1>3. TypeOK
  <2>1. vec \in Seq(T) /\ todo \in Seq(T)   BY <1>1
  <2>2. /\ set \in SUBSET T /\ ret \in BOOLEAN /\ op \in {<< >>} \cup Calls
        /\ changed_by \in {"class", "caller"}
    BY <1>1
  <2> QED BY <2>1, <2>2 DEF TypeOK
<1>4. NoDuplicates /\ NoFalseNegative /\ SetMirrorsVector
  BY <1>1, <1>2 DEF NoDuplicates, NoFalseNegative, SetMirrorsVector
<1> QED BY <1>3, <1>4 DEF IInv

(* Calls that leave the two structures alone keep the invariant. *)
LEMMA UnchangedInv ==
  ASSUME IInv, UNCHANGED <<vec, set, changed_by>>, ret' \in BOOLEAN, todo' \in Seq(T),
         op' = op \/ op' \in Calls
  PROVE  IInv'
<1>1. UseSet' = UseSet /\ Items' = Items   BY DEF UseSet, Items
<1>2. TypeOK'   BY DEF IInv, TypeOK, Calls
<1>3. NoDuplicates'   BY DEF IInv, NoDuplicates
<1>4. NoFalseNegative' /\ SetMirrorsVector'
  BY <1>1 DEF IInv, NoFalseNegative, SetMirrorsVector
<1> QED BY <1>2, <1>3, <1>4 DEF IInv

(* push_back keeps the invariant; it is also what extend does per item. *)
LEMMA PushBackInv ==
  ASSUME IInv, NEW x \in T, push_back(x), changed_by' = changed_by,
         todo' \in Seq(T)
  PROVE  IInv'
<1> USE LimitAssumption
<1>0. vec \in Seq(T) /\ Len(vec) \in Nat /\ Items = Elements(vec) /\ Unique(vec)
  BY DEF IInv, TypeOK, Items, Elements, NoDuplicates, Unique
<1>b. op' \in Calls   BY DEF push_back, Calls
<1>c. {<< >>}' = {<< >>} /\ Calls' = Calls   BY DEF Calls
<1>1. CASE push_back_short(x)
  <2>1. CASE x \in Items
    <3>1. UNCHANGED <<vec, set, changed_by>> /\ ret' \in BOOLEAN
      BY <1>1, <2>1 DEF push_back_short
    <3> QED BY <1>b, <3>1, UnchangedInv
  <2>2. CASE x \notin Items
    <3>1. /\ vec' = Append(vec, x) /\ ret' = TRUE /\ Len(vec) < LIMIT
          /\ set' = IF Len(vec) + 1 = LIMIT THEN set \cup Items \cup {x} ELSE set
      BY <1>0, <1>1, <2>2 DEF push_back_short, UseSet
    <3>2. /\ vec' \in Seq(T) /\ Len(vec') = Len(vec) + 1
          /\ Items' = Items \cup {x} /\ NoDuplicates'
      BY <1>0, <2>2, <3>1, AppendFacts DEF Items, NoDuplicates
    <3>a. Items \subseteq T   BY <1>0 DEF Elements
    <3>3. TypeOK'   BY <1>b, <1>c, <3>a, <3>1, <3>2 DEF IInv, TypeOK
    <3>4. NoFalseNegative' /\ SetMirrorsVector'
      <4>1. CASE Len(vec) + 1 = LIMIT
        <5>1. set' = set \cup Items'   BY <3>1, <3>2, <4>1
        <5>2. UseSet' /\ ~UseSet       BY <1>0, <3>1, <3>2, <4>1 DEF UseSet
        <5>3. changed_by = "class" => set = {}   BY <5>2 DEF IInv, SetMirrorsVector
        <5> QED BY <5>1, <5>2, <5>3 DEF NoFalseNegative, SetMirrorsVector
      <4>2. CASE Len(vec) + 1 # LIMIT
        <5>1. set' = set                BY <3>1, <4>2
        <5>2. ~UseSet' /\ ~UseSet      BY <1>0, <3>1, <3>2, <4>2 DEF UseSet
        <5> QED BY <5>1, <5>2 DEF IInv, NoFalseNegative, SetMirrorsVector
      <4> QED BY <4>1, <4>2
    <3> QED BY <3>2, <3>3, <3>4 DEF IInv
  <2> QED BY <2>1, <2>2
<1>2. CASE push_back_long(x)
  <2>1. CASE x \in set
    <3>1. UNCHANGED <<vec, set, changed_by>> /\ ret' \in BOOLEAN
      BY <1>2, <2>1 DEF push_back_long
    <3> QED BY <1>b, <3>1, UnchangedInv
  <2>2. CASE x \notin set
    <3>1. /\ vec' = Append(vec, x) /\ ret' = TRUE /\ UseSet
          /\ set' = set \cup {x} /\ x \notin Items
      BY <1>2, <2>2 DEF push_back_long, IInv, NoFalseNegative
    <3>2. /\ vec' \in Seq(T) /\ Len(vec') = Len(vec) + 1
          /\ Items' = Items \cup {x} /\ NoDuplicates'
      BY <1>0, <3>1, AppendFacts DEF Items, NoDuplicates
    <3>3. TypeOK'   BY <1>b, <1>c, <3>1, <3>2 DEF IInv, TypeOK
    <3>4. NoFalseNegative' /\ SetMirrorsVector'
      BY <1>0, <3>1, <3>2 DEF IInv, NoFalseNegative, SetMirrorsVector, UseSet
    <3> QED BY <3>2, <3>3, <3>4 DEF IInv
  <2> QED BY <2>1, <2>2
<1> QED BY <1>1, <1>2 DEF push_back

(* Removing an item: discard with its care for the set, and the erasure of *)
(* the base class without it.                                              *)
LEMMA RemovalInv ==
  ASSUME IInv, NEW x \in T, UNCHANGED todo,
         \/ discard(x) /\ UNCHANGED changed_by
         \/ erase_if_seq(x) /\ changed_by' = "caller"
  PROVE  IInv'
<1> USE LimitAssumption
<1>0. vec \in Seq(T) /\ Len(vec) \in Nat /\ Items = Elements(vec) /\ Unique(vec)
  BY DEF IInv, TypeOK, Items, Elements, NoDuplicates, Unique
<1>1. vec' = Without(vec, x)
  BY DEF discard, erase_if_seq
<1>2. /\ vec' \in Seq(T) /\ Items' = Items \ {x} /\ NoDuplicates'
      /\ Len(vec') = IF x \in Items THEN Len(vec) - 1 ELSE Len(vec)
  <2>1. /\ vec' \in Seq(T) /\ Unique(vec') /\ Elements(vec') = Elements(vec) \ {x}
        /\ Len(vec') = IF x \in Elements(vec) THEN Len(vec) - 1 ELSE Len(vec)
    BY <1>0, <1>1, WithoutFacts DEF In
  <2>2. Items' = Elements(vec')   BY DEF Items, Elements
  <2>3. NoDuplicates' = Unique(vec')   BY DEF NoDuplicates
  <2> QED BY <1>0, <2>1, <2>2, <2>3
<1>3. TypeOK'
  <2>1. ret' \in BOOLEAN
    <3>1. CASE discard(x)       BY <3>1 DEF discard
    <3>2. CASE erase_if_seq(x)  BY <3>2 DEF erase_if_seq, IInv, TypeOK
    <3> QED BY <3>1, <3>2
  <2>2. set' \in SUBSET T
    <3>1. CASE discard(x)       BY <3>1 DEF discard, IInv, TypeOK
    <3>2. CASE erase_if_seq(x)  BY <3>2 DEF erase_if_seq, IInv, TypeOK
    <3> QED BY <3>1, <3>2
  <2>3. todo' \in Seq(T) /\ changed_by' \in {"class", "caller"}
    BY DEF IInv, TypeOK
  <2>4. op' \in {<< >>} \cup Calls
    <3>1. CASE discard(x)       BY <3>1 DEF discard, Calls
    <3>2. CASE erase_if_seq(x)  BY <3>2 DEF erase_if_seq, IInv, TypeOK
    <3> QED BY <3>1, <3>2
  <2> QED BY <1>2, <2>1, <2>2, <2>3, <2>4 DEF TypeOK, Calls
<1>4. CASE discard(x) /\ UNCHANGED changed_by
  <2>1. set' = IF ~UseSet THEN set ELSE IF x \in Items /\ Len(vec) = LIMIT THEN {}
               ELSE set \ {x}
    BY <1>4 DEF discard
  <2>2. NoFalseNegative' /\ SetMirrorsVector'
    <3>1. CASE ~UseSet
      <4>1. ~UseSet' /\ set' = set   BY <1>0, <1>2, <2>1, <3>1 DEF UseSet
      <4> QED BY <1>4, <3>1, <4>1 DEF IInv, NoFalseNegative, SetMirrorsVector
    <3>2. CASE UseSet /\ x \in Items /\ Len(vec) = LIMIT
      <4>1. ~UseSet' /\ set' = {}    BY <1>0, <1>2, <2>1, <3>2 DEF UseSet
      <4> QED BY <4>1 DEF NoFalseNegative, SetMirrorsVector
    <3>3. CASE UseSet /\ ~(x \in Items /\ Len(vec) = LIMIT)
      <4>1. UseSet' /\ set' = set \ {x}   BY <1>0, <1>2, <2>1, <3>3 DEF UseSet
      <4>2. Items \subseteq set /\ (changed_by = "class" => set = Items)
        BY <3>3 DEF IInv, NoFalseNegative, SetMirrorsVector
      <4> QED BY <1>2, <1>4, <4>1, <4>2 DEF NoFalseNegative, SetMirrorsVector
    <3> QED BY <3>1, <3>2, <3>3
  <2> QED BY <1>2, <1>3, <2>2 DEF IInv
<1>5. CASE erase_if_seq(x) /\ changed_by' = "caller"
  <2>1. set' = set   BY <1>5 DEF erase_if_seq
  <2>2. UseSet' => UseSet   BY <1>0, <1>2 DEF UseSet
  <2>3. NoFalseNegative' /\ SetMirrorsVector'
    BY <1>2, <1>5, <2>1, <2>2 DEF IInv, NoFalseNegative, SetMirrorsVector
  <2> QED BY <1>2, <1>3, <2>3 DEF IInv
<1> QED BY <1>4, <1>5

LEMMA NextInv == IInv /\ [Next]_vars => IInv'
<1> USE LimitAssumption
<1> SUFFICES ASSUME IInv, [Next]_vars PROVE IInv'
  OBVIOUS
<1>0. TypeOK   BY DEF IInv
<1>1. CASE todo = << >> /\ OwnCall /\ UNCHANGED <<todo, changed_by>>
  <2>1. CASE \E x \in T : push_back(x)   BY <1>0, <1>1, <2>1, PushBackInv DEF TypeOK
  <2>2. CASE \E x \in T : discard(x)     BY <1>1, <2>2, RemovalInv
  <2>3. CASE \E x \in T : contains(x)
    <3>1. UNCHANGED <<vec, set, changed_by>>   BY <1>1, <2>3 DEF contains
    <3>2. ret' \in BOOLEAN   BY <2>3 DEF contains
    <3>3. todo' \in Seq(T)   BY <1>0, <1>1 DEF TypeOK
    <3>4. op' \in Calls   BY <2>3 DEF contains, Calls
    <3> QED BY <3>1, <3>2, <3>3, <3>4, UnchangedInv
  <2>4. CASE \E others \in SUBSET T : does_intersects(others)
    <3>1. UNCHANGED <<vec, set, changed_by>>   BY <1>1, <2>4 DEF does_intersects
    <3>2. ret' \in BOOLEAN   BY <2>4 DEF does_intersects
    <3>3. todo' \in Seq(T)   BY <1>0, <1>1 DEF TypeOK
    <3>4. op' \in Calls   BY <2>4 DEF does_intersects, Calls
    <3> QED BY <3>1, <3>2, <3>3, <3>4, UnchangedInv
  <2> QED BY <1>1, <2>1, <2>2, <2>3, <2>4 DEF OwnCall
<1>2. CASE todo = << >> /\ BaseCall /\ changed_by' = "caller" /\ UNCHANGED todo
  <2>1. CASE \E x \in T : erase_if_seq(x)   BY <1>2, <2>1, RemovalInv
  <2>2. CASE clear
    <3>1. vec' = << >> /\ UNCHANGED <<set, op, ret, todo>> /\ changed_by' = "caller"
      BY <1>2, <2>2 DEF clear
    <3>2. Items' = {} /\ Unique(vec')   BY <3>1 DEF Items, Elements, Unique
    <3>3. TypeOK' /\ NoDuplicates'   BY <1>0, <3>1, <3>2 DEF TypeOK, NoDuplicates, Calls
    <3>4. NoFalseNegative' /\ SetMirrorsVector'
      BY <3>1, <3>2 DEF NoFalseNegative, SetMirrorsVector
    <3> QED BY <3>3, <3>4 DEF IInv
  <2> QED BY <1>2, <2>1, <2>2 DEF BaseCall
<1>3. CASE \E other \in OTHERS : extend(other)
  <2>1. UNCHANGED <<vec, set, op, ret, changed_by>> /\ todo' \in Seq(T)
    BY <1>3, OthersAssumption DEF extend
  <2> QED BY <1>0, <2>1, UnchangedInv DEF TypeOK
<1>4. CASE extend_next
  <2>1. Head(todo) \in T /\ Tail(todo) \in Seq(T)
    BY <1>0, <1>4 DEF extend_next, TypeOK
  <2> QED BY <1>4, <2>1, PushBackInv DEF extend_next
<1>5. CASE UNCHANGED vars
  BY <1>0, <1>5, UnchangedInv DEF vars, TypeOK
<1> QED BY <1>1, <1>2, <1>3, <1>4, <1>5 DEF Next

(* The representation invariant of OrderedSet, whatever the limit. *)
THEOREM Invariant == Spec => []IInv
<1>1. Init => IInv   BY InitInv
<1>2. IInv /\ [Next]_vars => IInv'   BY NextInv
<1> QED BY <1>1, <1>2, PTL DEF Spec

(* No sequence of calls, those of the base class included, puts an item    *)
(* into the collection twice.                                              *)
THEOREM NeverDuplicates == Spec => []NoDuplicates
<1>1. IInv => NoDuplicates   BY DEF IInv
<1> QED BY <1>1, Invariant, PTL

(* contains() never denies an item that iteration would meet. *)
THEOREM NeverFalseNegative == Spec => []NoFalseNegative
<1>1. IInv => NoFalseNegative   BY DEF IInv
<1> QED BY <1>1, Invariant, PTL

(* The shadow set is the vector's until the vector is changed behind it. *)
THEOREM MirrorsVector == Spec => []SetMirrorsVector
<1>1. IInv => SetMirrorsVector   BY DEF IInv
<1> QED BY <1>1, Invariant, PTL

-----------------------------------------------------------------------------
(* A push_back on a mirrored representation is an insertion. *)
LEMMA PushBackInserts ==
  ASSUME IInv, changed_by = "class", NEW x \in T, push_back(x)
  PROVE  Abs!Insert(x)
<1>1. x \in Items <=> Abs!In(x, vec)   BY DEF Items, Elements, Abs!In, Abs!Elements
<1>2. UseSet => set = Items            BY DEF IInv, SetMirrorsVector
<1>a. op' = <<"push_back", x>>   BY DEF push_back
<1>3. CASE push_back_short(x)   BY <1>a, <1>1, <1>3 DEF push_back_short, Abs!Insert
<1>4. CASE push_back_long(x)    BY <1>a, <1>1, <1>2, <1>4 DEF push_back_long, Abs!Insert
<1> QED BY <1>3, <1>4 DEF push_back

LEMMA StepRefines ==
  ASSUME IInv, [Next]_vars
  PROVE  changed_by' = "class" => [Abs!Next]_<<vec, op, ret>>
<1> SUFFICES ASSUME changed_by' = "class" PROVE [Abs!Next]_<<vec, op, ret>>
  OBVIOUS
<1>0. TypeOK   BY DEF IInv
<1>a. \A x : x \in Items <=> Abs!In(x, vec)   BY DEF Items, Elements, Abs!In, Abs!Elements
<1>b. \A x : Abs!Without(vec, x) = Without(vec, x)
  BY DEF Abs!Without, Abs!In, Abs!Elements, Without, In, Elements
<1>1. CASE todo = << >> /\ OwnCall /\ UNCHANGED <<todo, changed_by>>
  <2>1. CASE \E x \in T : push_back(x)   BY <1>1, <2>1, PushBackInserts DEF Abs!Next
  <2>2. CASE \E x \in T : discard(x)
    <3>1. PICK x \in T : discard(x)   BY <2>2
    <3>3. vec' = Without(vec, x) /\ ret' = (x \in Items) /\ op' = <<"discard", x>>
      BY <3>1 DEF discard
    <3>4. ret' = Abs!In(x, vec)   BY <3>3 DEF Abs!In, Abs!Elements, Items, Elements
    <3>5. Abs!Discard(x)   BY <3>3, <3>4, <1>b DEF Abs!Discard
    <3> QED BY <3>5 DEF Abs!Next
  <2>3. CASE \E x \in T : contains(x)
    <3>1. UseSet => set = Items   BY <1>1 DEF IInv, SetMirrorsVector
    <3>2. PICK x \in T : contains(x)   BY <2>3
    <3>3. (IF UseSet THEN set ELSE Items) = Items   BY <3>1
    <3>4. ret' = (x \in Items) /\ UNCHANGED vec /\ op' = <<"contains", x>>
      BY <3>2, <3>3 DEF contains
    <3>6. ret' = Abs!In(x, vec)   BY <3>4 DEF Abs!In, Abs!Elements, Items, Elements
    <3>7. Abs!Contains(x)   BY <3>4, <3>6 DEF Abs!Contains
    <3> QED BY <3>7 DEF Abs!Next
  <2>4. CASE \E others \in SUBSET T : does_intersects(others)
    <3>1. PICK others \in SUBSET T : does_intersects(others)   BY <2>4
    <3>2. (others \cap Items # {}) = (\E x \in others : Abs!In(x, vec))   BY <1>a
    <3>3. Abs!Intersects(others)   BY <3>1, <3>2 DEF does_intersects, Abs!Intersects
    <3> QED BY <3>3 DEF Abs!Next
  <2> QED BY <1>1, <2>1, <2>2, <2>3, <2>4 DEF OwnCall
<1>2. CASE todo = << >> /\ BaseCall /\ changed_by' = "caller" /\ UNCHANGED todo
  BY <1>2
<1>3. CASE \E other \in OTHERS : extend(other)
  BY <1>3 DEF extend
<1>4. CASE extend_next
  <2>1. Head(todo) \in T   BY <1>0, <1>4 DEF extend_next, TypeOK
  <2>2. Abs!Insert(Head(todo))
    BY <1>4, <2>1, PushBackInserts DEF extend_next
  <2> QED BY <2>1, <2>2 DEF Abs!Next
<1>5. CASE UNCHANGED vars   BY <1>5 DEF vars
<1> QED BY <1>1, <1>2, <1>3, <1>4, <1>5 DEF Next

(* Until the vector is changed behind the class, every call of OrderedSet  *)
(* is the call of InsertionSet of the same name.                           *)
THEOREM Implementation == Spec => ImplementsInsertionSet
<1>1. IInv /\ [Next]_vars => (changed_by' = "class" => [Abs!Next]_<<vec, op, ret>>)
  BY StepRefines
<1>2. Spec => [][changed_by' = "class" => [Abs!Next]_<<vec, op, ret>>]_vars
  BY <1>1, Invariant, PTL DEF Spec
<1> QED BY <1>2 DEF ImplementsInsertionSet
=============================================================================
