------------------------------ MODULE UniqueSeq ------------------------------
(***************************************************************************)
(* Sequences that hold each of their elements once, and the order in which *)
(* they hold them.                                                         *)
(***************************************************************************)
LOCAL INSTANCE Naturals
LOCAL INSTANCE Sequences

Elements(s) == {s[i] : i \in DOMAIN s}

In(x, s) == x \in Elements(s)

Unique(s) == \A i, j \in DOMAIN s : s[i] = s[j] => i = j

(* a stands before b in s. *)
Before(s, a, b) == \E i, j \in DOMAIN s : i < j /\ s[i] = a /\ s[j] = b

(* s without x, for a sequence s in which x occurs at most once. *)
Without(s, x) ==
  IF In(x, s)
  THEN LET at == CHOOSE i \in DOMAIN s : s[i] = x
       IN  [j \in 1 .. Len(s) - 1 |-> IF j < at THEN s[j] ELSE s[j + 1]]
  ELSE s

(* s without the elements that are not in S. *)
Kept(s, S) ==
  LET upto[i \in 0 .. Len(s)] ==
        IF i = 0 THEN << >>
        ELSE IF s[i] \in S THEN Append(upto[i - 1], s[i]) ELSE upto[i - 1]
  IN  upto[Len(s)]
=============================================================================
