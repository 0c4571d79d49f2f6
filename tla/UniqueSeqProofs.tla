-------------------------- MODULE UniqueSeqProofs ---------------------------
(***************************************************************************)
(* What appending to, removing from and filtering a sequence does to its   *)
(* elements and to their order; that a duplicate-free sequence is          *)
(* determined by both.                                                     *)
(***************************************************************************)
EXTENDS UniqueSeq, Naturals, Sequences, TLAPS, WellFoundedInduction, NaturalsInduction

(* Append adds exactly its item, behind all others. *)
LEMMA AppendFacts ==
  ASSUME NEW S, NEW s \in Seq(S), NEW x \in S
  PROVE  /\ Append(s, x) \in Seq(S)
         /\ Len(Append(s, x)) = Len(s) + 1
         /\ Elements(Append(s, x)) = Elements(s) \cup {x}
         /\ Unique(s) /\ x \notin Elements(s) => Unique(Append(s, x))
         /\ \A a, b : Before(s, a, b) => Before(Append(s, x), a, b)
         /\ \A a : In(a, s) => Before(Append(s, x), a, x)
<1> DEFINE r == Append(s, x)
<1>1. r \in Seq(S) /\ Len(r) = Len(s) + 1 /\ DOMAIN r = 1 .. Len(s) + 1
  OBVIOUS
<1>2. /\ \A i \in 1 .. Len(s) : r[i] = s[i]
      /\ r[Len(s) + 1] = x
      /\ Len(s) \in Nat
      /\ DOMAIN s = 1 .. Len(s)
  OBVIOUS
<1> HIDE DEF r
<1>3. Elements(r) = Elements(s) \cup {x}
  <2>1. Elements(r) \subseteq Elements(s) \cup {x}
    <3> SUFFICES ASSUME NEW i \in 1 .. Len(s) + 1 PROVE r[i] \in Elements(s) \cup {x}
      BY <1>1 DEF Elements
    <3>1. CASE i \in 1 .. Len(s)   BY <3>1, <1>2 DEF Elements
    <3>2. CASE i = Len(s) + 1      BY <3>2, <1>2 DEF Elements
    <3> QED BY <3>1, <3>2, <1>2
  <2>2. Elements(s) \subseteq Elements(r)
    BY <1>1, <1>2 DEF Elements
  <2>3. x \in Elements(r)
    BY <1>1, <1>2 DEF Elements
  <2> QED BY <2>1, <2>2, <2>3
<1>4. Unique(s) /\ x \notin Elements(s) => Unique(r)
  BY <1>1, <1>2 DEF Unique, Elements
<1>5. \A a, b : Before(s, a, b) => Before(r, a, b)
  BY <1>1, <1>2 DEF Before
<1>6. \A a : In(a, s) => Before(r, a, x)
  <2> SUFFICES ASSUME NEW a, In(a, s) PROVE Before(r, a, x)
    OBVIOUS
  <2>1. PICK i \in 1 .. Len(s) : s[i] = a   BY <1>2 DEF In, Elements
  <2>2. i < Len(s) + 1 /\ i \in DOMAIN r /\ Len(s) + 1 \in DOMAIN r
    BY <1>1, <1>2
  <2> QED BY <1>2, <2>1, <2>2 DEF Before
<1> QED BY <1>1, <1>3, <1>4, <1>5, <1>6 DEF r

(* Without removes exactly its item and leaves the others in their order. *)
LEMMA WithoutFacts ==
  ASSUME NEW S, NEW s \in Seq(S), NEW x, Unique(s)
  PROVE  /\ Without(s, x) \in Seq(S)
         /\ Unique(Without(s, x))
         /\ Elements(Without(s, x)) = Elements(s) \ {x}
         /\ Len(Without(s, x)) = IF In(x, s) THEN Len(s) - 1 ELSE Len(s)
         /\ \A a, b : Before(s, a, b) /\ a # x /\ b # x => Before(Without(s, x), a, b)
<1>1. CASE ~In(x, s)
  <2>1. Without(s, x) = s   BY <1>1 DEF Without
  <2>2. x \notin Elements(s)   BY <1>1 DEF In
  <2> QED BY <1>1, <2>1, <2>2
<1>2. CASE In(x, s)
  <2> DEFINE at == CHOOSE i \in DOMAIN s : s[i] = x
             r == [j \in 1 .. Len(s) - 1 |-> IF j < at THEN s[j] ELSE s[j + 1]]
  <2>1. at \in DOMAIN s /\ s[at] = x   BY <1>2 DEF In, Elements
  <2>2. Without(s, x) = r              BY <1>2 DEF Without
  <2> HIDE DEF at
  <2>3. Len(s) \in Nat /\ DOMAIN s = 1 .. Len(s) /\ (\A i \in DOMAIN s : s[i] \in S)
    OBVIOUS
  <2>4. Len(s) - 1 \in Nat   BY <2>1, <2>3
  <2>5. \A j \in 1 .. Len(s) - 1 :
          /\ j \in DOMAIN s /\ j + 1 \in DOMAIN s
          /\ r[j] = IF j < at THEN s[j] ELSE s[j + 1]
    BY <2>3
  <2>6. r \in Seq(S) /\ Len(r) = Len(s) - 1 /\ DOMAIN r = 1 .. Len(s) - 1
    BY <2>3, <2>4, <2>5
  <2> HIDE DEF r
  <2>7. \A j \in 1 .. Len(s) - 1 :
          \E k \in DOMAIN s : r[j] = s[k] /\ k # at /\ k = IF j < at THEN j ELSE j + 1
    BY <2>1, <2>3, <2>5
  <2>8. \A i \in DOMAIN s : i # at =>
          LET k == IF i < at THEN i ELSE i - 1 IN k \in DOMAIN r /\ r[k] = s[i]
    BY <2>1, <2>3, <2>5, <2>6
  <2>9. Unique(r)
    <3> SUFFICES ASSUME NEW i \in 1 .. Len(s) - 1, NEW j \in 1 .. Len(s) - 1, r[i] = r[j]
                 PROVE  i = j
      BY <2>6 DEF Unique
    <3>1. PICK k \in DOMAIN s : r[i] = s[k] /\ k = IF i < at THEN i ELSE i + 1   BY <2>7
    <3>2. PICK l \in DOMAIN s : r[j] = s[l] /\ l = IF j < at THEN j ELSE j + 1   BY <2>7
    <3>3. k = l   BY <3>1, <3>2 DEF Unique
    <3> QED BY <2>1, <2>3, <3>1, <3>2, <3>3
  <2>10. Elements(r) \subseteq Elements(s) \ {x}
    <3> SUFFICES ASSUME NEW j \in 1 .. Len(s) - 1 PROVE r[j] \in Elements(s) \ {x}
      BY <2>6 DEF Elements
    <3>1. PICK k \in DOMAIN s : r[j] = s[k] /\ k # at   BY <2>7
    <3> QED BY <2>1, <3>1 DEF Elements, Unique
  <2>11. Elements(s) \ {x} \subseteq Elements(r)
    <3> SUFFICES ASSUME NEW i \in DOMAIN s, s[i] # x PROVE s[i] \in Elements(r)
      BY DEF Elements
    <3>1. i # at   BY <2>1
    <3> QED BY <2>8, <3>1 DEF Elements
  <2>12. ASSUME NEW a, NEW b, Before(s, a, b), a # x, b # x
         PROVE  Before(r, a, b)
    <3>1. PICK i \in DOMAIN s, j \in DOMAIN s : i < j /\ s[i] = a /\ s[j] = b
      BY <2>12 DEF Before
    <3>2. i # at /\ j # at   BY <2>1, <2>12, <3>1
    <3> DEFINE k == IF i < at THEN i ELSE i - 1
               l == IF j < at THEN j ELSE j - 1
    <3>3. k \in DOMAIN r /\ r[k] = a /\ l \in DOMAIN r /\ r[l] = b
      BY <2>8, <3>1, <3>2
    <3>4. k < l   BY <2>1, <2>3, <3>1, <3>2
    <3> QED BY <3>3, <3>4 DEF Before
  <2>13. x \in Elements(s)   BY <1>2 DEF In
  <2> QED BY <1>2, <2>2, <2>6, <2>9, <2>10, <2>11, <2>12, <2>13
<1> QED BY <1>1, <1>2

(* The tail of a duplicate-free sequence has lost its head. *)
LEMMA TailFacts ==
  ASSUME NEW S, NEW s \in Seq(S), Unique(s), s # << >>
  PROVE  /\ Head(s) \in S /\ In(Head(s), s)
         /\ Tail(s) \in Seq(S)
         /\ Unique(Tail(s))
         /\ Elements(Tail(s)) = Elements(s) \ {Head(s)}
<1> DEFINE r == Tail(s)
<1>1. Len(s) \in Nat /\ Len(s) > 0 /\ DOMAIN s = 1 .. Len(s) /\ Head(s) = s[1]
  OBVIOUS
<1>2. /\ r \in Seq(S) /\ DOMAIN r = 1 .. Len(s) - 1
      /\ \A i \in 1 .. Len(s) - 1 : r[i] = s[i + 1]
  BY <1>1
<1> HIDE DEF r
<1>3. Unique(r)
  <2> SUFFICES ASSUME NEW i \in 1 .. Len(s) - 1, NEW j \in 1 .. Len(s) - 1, r[i] = r[j]
               PROVE  i = j
    BY <1>2 DEF Unique
  <2>1. i + 1 \in DOMAIN s /\ j + 1 \in DOMAIN s /\ s[i + 1] = s[j + 1]   BY <1>1, <1>2
  <2>2. i + 1 = j + 1   BY <2>1 DEF Unique
  <2> QED BY <2>2
<1>4. Elements(r) \subseteq Elements(s) \ {s[1]}
  <2> SUFFICES ASSUME NEW i \in 1 .. Len(s) - 1 PROVE r[i] \in Elements(s) \ {s[1]}
    BY <1>2 DEF Elements
  <2>1. i + 1 \in DOMAIN s /\ 1 \in DOMAIN s /\ i + 1 # 1   BY <1>1
  <2> QED BY <1>2, <2>1 DEF Elements, Unique
<1>5. Elements(s) \ {s[1]} \subseteq Elements(r)
  <2> SUFFICES ASSUME NEW i \in DOMAIN s, s[i] # s[1] PROVE s[i] \in Elements(r)
    BY DEF Elements
  <2>1. i - 1 \in 1 .. Len(s) - 1 /\ (i - 1) + 1 = i   BY <1>1
  <2>2. r[i - 1] = s[i]   BY <1>2, <2>1
  <2> QED BY <1>2, <2>1, <2>2 DEF Elements
<1>6. Head(s) \in S /\ In(Head(s), s)   BY <1>1 DEF In, Elements
<1> QED BY <1>1, <1>2, <1>3, <1>4, <1>5, <1>6 DEF r

(* Nothing stands before the first element or behind the last. *)
LEMMA EndsFacts ==
  ASSUME NEW S, NEW s \in Seq(S), Unique(s), s # << >>
  PROVE  /\ s[1] \in Elements(s) /\ s[Len(s)] \in Elements(s)
         /\ \A a : ~Before(s, a, s[1]) /\ ~Before(s, s[Len(s)], a)
<1>1. Len(s) \in Nat /\ Len(s) > 0 /\ DOMAIN s = 1 .. Len(s)
  OBVIOUS
<1>2. 1 \in DOMAIN s /\ Len(s) \in DOMAIN s   BY <1>1
<1> QED BY <1>1, <1>2 DEF Elements, Unique, Before

(* Both ends of Before are elements, and they differ. *)
LEMMA BeforeFacts ==
  ASSUME NEW S, NEW s \in Seq(S), Unique(s), NEW a, NEW b, Before(s, a, b)
  PROVE  In(a, s) /\ In(b, s) /\ a # b
BY DEF Before, In, Elements, Unique

-----------------------------------------------------------------------------
(* The least-number principle, for a set. *)
LEMMA LeastNumber ==
  ASSUME NEW T \in SUBSET Nat, T # {}
  PROVE  \E x \in T : \A y \in T : x <= y
<1>1. PICK x \in T : \A y \in T : <<y, x>> \notin OpToRel(<, Nat)
  BY NatLessThanWellFounded, WFMin
<1>2. \A y \in T : ~ (y < x)
  BY <1>1 DEF OpToRel
<1>3. x \in Nat /\ \A y \in T : y \in Nat
  OBVIOUS
<1> QED
  BY <1>2, <1>3

(* The function that Kept is the last value of. *)
KeptUpTo(s, S, n, f) ==
  f = [i \in 0 .. n |->
         IF i = 0 THEN << >>
         ELSE IF s[i] \in S THEN Append(f[i - 1], s[i]) ELSE f[i - 1]]

(* It exists, for every length: the least one without would have its       *)
(* predecessor's and one value more.                                       *)
LEMMA KeptExists ==
  ASSUME NEW s, NEW S, NEW n \in Nat
  PROVE  \E f : KeptUpTo(s, S, n, f)
<1> DEFINE Bad == {m \in Nat : ~ \E f : KeptUpTo(s, S, m, f)}
<1> SUFFICES ASSUME Bad # {} PROVE FALSE
  OBVIOUS
<1>1. PICK m \in Bad : \A k \in Bad : m <= k
  <2> HIDE DEF Bad
  <2>1. Bad \in SUBSET Nat
    BY DEF Bad
  <2> QED BY <2>1, LeastNumber
<1>2. m # 0
  <2>1. KeptUpTo(s, S, 0, [i \in 0 .. 0 |-> << >>])
    BY DEF KeptUpTo
  <2> QED BY <1>1, <2>1
<1>3. m - 1 \in Nat /\ m - 1 \notin Bad
  BY <1>1, <1>2
<1>4. PICK f : KeptUpTo(s, S, m - 1, f)
  BY <1>3
<1> DEFINE g == [i \in 0 .. m |-> IF i < m THEN f[i]
                   ELSE IF s[m] \in S THEN Append(f[m - 1], s[m]) ELSE f[m - 1]]
<1>5. KeptUpTo(s, S, m, g)
  <2>0. m \in Nat /\ 0 .. m - 1 \subseteq 0 .. m
    BY <1>1
  <2>1. \A i \in 0 .. m - 1 : g[i] = f[i]
    BY <2>0
  <2>2. \A i \in 0 .. m - 1 : f[i] = IF i = 0 THEN << >>
         ELSE IF s[i] \in S THEN Append(f[i - 1], s[i]) ELSE f[i - 1]
    BY <1>4 DEF KeptUpTo
  <2>3. \A i \in 0 .. m : g[i] = IF i = 0 THEN << >>
         ELSE IF s[i] \in S THEN Append(g[i - 1], s[i]) ELSE g[i - 1]
    <3> SUFFICES ASSUME NEW i \in 0 .. m PROVE g[i] = IF i = 0 THEN << >>
         ELSE IF s[i] \in S THEN Append(g[i - 1], s[i]) ELSE g[i - 1]
      OBVIOUS
    <3>1. CASE i = m
      BY <3>1, <1>2, <1>3, <2>0, <2>1
    <3>2. CASE i = 0
      BY <3>2, <2>1, <2>2, <1>2, <2>0
    <3>3. CASE i # m /\ i # 0
      <4>1. i \in 0 .. m - 1 /\ i - 1 \in 0 .. m - 1
         BY <3>3, <2>0
      <4> QED BY <4>1, <3>3, <2>1, <2>2
    <3> QED BY <3>1, <3>2, <3>3
  <2>4. g = [i \in 0 .. m |-> g[i]]
    OBVIOUS
  <2> HIDE DEF g
  <2> QED BY <2>3, <2>4 DEF KeptUpTo
<1> QED
  BY <1>1, <1>5

(* Kept is computed by its recursion. *)
LEMMA KeptDef ==
  ASSUME NEW S, NEW X, NEW s \in Seq(X)
  PROVE \E f : KeptUpTo(s, S, Len(s), f) /\ Kept(s, S) = f[Len(s)]
<1> DEFINE upto[i \in 0 .. Len(s)] ==
        IF i = 0 THEN << >>
        ELSE IF s[i] \in S THEN Append(upto[i - 1], s[i]) ELSE upto[i - 1]
<1>1. upto = CHOOSE f : KeptUpTo(s, S, Len(s), f)
  BY DEF KeptUpTo
<1>2. KeptUpTo(s, S, Len(s), upto)
  <2> HIDE DEF upto
  <2>1. Len(s) \in Nat
    OBVIOUS
  <2> QED BY <1>1, <2>1, KeptExists
<1> QED BY <1>2 DEF Kept

(* r is what s[1 .. n] has of S: at is where from. *)
Picks(s, S, n, r, at) ==
  /\ at \in [1 .. Len(r) -> 1 .. n]
  /\ \A k, l \in 1 .. Len(r) : k < l => at[k] < at[l]
  /\ \A k \in 1 .. Len(r) : r[k] = s[at[k]] /\ r[k] \in S
  /\ \A p \in 1 .. n : s[p] \in S => \E k \in 1 .. Len(r) : at[k] = p

(* One element more. *)
LEMMA PicksNext ==
  ASSUME NEW S, NEW X, NEW s \in Seq(X), NEW n \in 0 .. Len(s) - 1,
         NEW r \in Seq(X), NEW at, Picks(s, S, n, r, at)
  PROVE  LET q == IF s[n + 1] \in S THEN Append(r, s[n + 1]) ELSE r
         IN  q \in Seq(X) /\ \E a : Picks(s, S, n + 1, q, a)
<1>0. Len(s) \in Nat /\ n \in Nat /\ n + 1 \in 1 .. Len(s) /\ Len(r) \in Nat /\ s[n + 1] \in X
  OBVIOUS
<1>1. CASE s[n + 1] \notin S
  <2>1. at \in [1 .. Len(r) -> 1 .. n]
    BY DEF Picks
  <2>2. at \in [1 .. Len(r) -> 1 .. n + 1]
    BY <1>0, <2>1
  <2>3. \A p \in 1 .. n + 1 : s[p] \in S => p \in 1 .. n
    BY <1>0, <1>1
  <2>4. Picks(s, S, n + 1, r, at)
    BY <2>2, <2>3 DEF Picks
  <2> QED BY <1>1, <2>4
<1>2. CASE s[n + 1] \in S
  <2> DEFINE q == Append(r, s[n + 1])
             a == [k \in 1 .. Len(r) + 1 |-> IF k <= Len(r) THEN at[k] ELSE n + 1]
  <2>1. /\ q \in Seq(X) /\ Len(q) = Len(r) + 1
        /\ \A k \in 1 .. Len(r) : q[k] = r[k]
        /\ q[Len(r) + 1] = s[n + 1]
    BY <1>0
  <2>2. /\ \A k \in 1 .. Len(r) : a[k] = at[k] /\ at[k] \in 1 .. n
        /\ a[Len(r) + 1] = n + 1
    BY <1>0 DEF Picks
  <2>3. a \in [1 .. Len(q) -> 1 .. n + 1]
    BY <1>0, <2>1, <2>2
  <2> HIDE DEF q, a
  <2>4. \A k, l \in 1 .. Len(q) : k < l => a[k] < a[l]
    <3> SUFFICES ASSUME NEW k \in 1 .. Len(q), NEW l \in 1 .. Len(q), k < l PROVE a[k] < a[l]
      OBVIOUS
    <3>1. k \in 1 .. Len(r)
      BY <1>0, <2>1
    <3>2. CASE l \in 1 .. Len(r)
      BY <3>1, <3>2, <2>2 DEF Picks
    <3>3. CASE l = Len(r) + 1
      BY <1>0, <3>1, <3>3, <2>2
    <3> QED BY <1>0, <2>1, <3>2, <3>3
  <2>5. \A k \in 1 .. Len(q) : q[k] = s[a[k]] /\ q[k] \in S
    <3> SUFFICES ASSUME NEW k \in 1 .. Len(q) PROVE q[k] = s[a[k]] /\ q[k] \in S
      OBVIOUS
    <3>1. CASE k \in 1 .. Len(r)
      BY <3>1, <2>1, <2>2 DEF Picks
    <3>2. CASE k = Len(r) + 1
      BY <3>2, <2>1, <2>2, <1>2
    <3> QED BY <1>0, <2>1, <3>1, <3>2
  <2>6. \A p \in 1 .. n + 1 : s[p] \in S => \E k \in 1 .. Len(q) : a[k] = p
    <3> SUFFICES ASSUME NEW p \in 1 .. n + 1, s[p] \in S PROVE \E k \in 1 .. Len(q) : a[k] = p
      OBVIOUS
    <3>1. CASE p = n + 1
      BY <1>0, <3>1, <2>1, <2>2
    <3>2. CASE p \in 1 .. n
      <4>1. PICK k \in 1 .. Len(r) : at[k] = p
        BY <3>2 DEF Picks
      <4>2. k \in 1 .. Len(q)
        BY <1>0, <2>1
      <4> QED BY <4>1, <4>2, <2>2
    <3> QED BY <1>0, <3>1, <3>2
  <2>7. Picks(s, S, n + 1, q, a)
    BY <2>3, <2>4, <2>5, <2>6 DEF Picks
  <2> QED BY <1>2, <2>1, <2>7 DEF q
<1> QED BY <1>1, <1>2

(* Kept picks the elements of S, in their order, and all of them. *)
LEMMA KeptPicks ==
  ASSUME NEW S, NEW X, NEW s \in Seq(X)
  PROVE  Kept(s, S) \in Seq(X) /\ \E at : Picks(s, S, Len(s), Kept(s, S), at)
<1>1. PICK f : KeptUpTo(s, S, Len(s), f) /\ Kept(s, S) = f[Len(s)]
  BY KeptDef
<1> DEFINE Bad == {n \in 0 .. Len(s) : ~ (f[n] \in Seq(X) /\ \E at : Picks(s, S, n, f[n], at))}
<1>2. Len(s) \in Nat
  OBVIOUS
<1>3. Bad = {}
  <2> SUFFICES ASSUME Bad # {} PROVE FALSE
    OBVIOUS
  <2>1. PICK n \in Bad : \A k \in Bad : n <= k
    <3>1. Bad \in SUBSET Nat
      BY <1>2
    <3> HIDE DEF Bad
    <3> QED BY <3>1, LeastNumber
  <2>2. n # 0
    <3>1. f[0] = << >>
      BY <1>1, <1>2 DEF KeptUpTo
    <3>2. Picks(s, S, 0, << >>, << >>) /\ << >> \in Seq(X)
      BY DEF Picks
    <3> QED BY <2>1, <3>1, <3>2
  <2>3. n - 1 \in 0 .. Len(s) - 1 /\ n - 1 \in 0 .. Len(s) /\ n - 1 \notin Bad /\ (n - 1) + 1 = n
    <3>1. n - 1 \in 0 .. Len(s) - 1 /\ n - 1 \in 0 .. Len(s) /\ (n - 1) + 1 = n /\ ~ (n <= n - 1)
      BY <2>1, <2>2, <1>2
    <3> HIDE DEF Bad
    <3> QED BY <2>1, <3>1
  <2>4. PICK at : f[n - 1] \in Seq(X) /\ Picks(s, S, n - 1, f[n - 1], at)
    BY <2>3
  <2>5. f[n] = IF s[n] \in S THEN Append(f[n - 1], s[n]) ELSE f[n - 1]
    BY <1>1, <1>2, <2>1, <2>2 DEF KeptUpTo
  <2> DEFINE m == n - 1
  <2>6. LET q == IF s[m + 1] \in S THEN Append(f[m], s[m + 1]) ELSE f[m]
        IN  q \in Seq(X) /\ \E a : Picks(s, S, m + 1, q, a)
    <3>1. m \in 0 .. Len(s) - 1 /\ f[m] \in Seq(X) /\ Picks(s, S, m, f[m], at)
      BY <2>3, <2>4
    <3> HIDE DEF m
    <3> QED BY <3>1, PicksNext
  <2>7. f[n] \in Seq(X) /\ \E a : Picks(s, S, n, f[n], a)
    BY <2>3, <2>5, <2>6
  <2> QED BY <2>1, <2>7
<1> QED BY <1>1, <1>2, <1>3

(* There is one pick: where two differ first, one of them has missed an    *)
(* element.                                                                *)
LEMMA PicksUnique ==
  ASSUME NEW S, NEW X, NEW s, NEW n \in Nat, NEW r \in Seq(X), NEW q \in Seq(X), NEW a, NEW b,
         Picks(s, S, n, r, a), Picks(s, S, n, q, b)
  PROVE  r = q
<1>0. Len(r) \in Nat /\ Len(q) \in Nat
  OBVIOUS
<1>1. ASSUME NEW c, NEW d, NEW u \in Seq(X), NEW v \in Seq(X),
             Picks(s, S, n, u, c), Picks(s, S, n, v, d),
             NEW k \in 1 .. Len(u), k <= Len(v), \A j \in 1 .. k - 1 : c[j] = d[j]
      PROVE  ~ (c[k] < d[k])
  <2> SUFFICES ASSUME c[k] < d[k] PROVE FALSE
    OBVIOUS
  <2>0. Len(u) \in Nat /\ Len(v) \in Nat /\ k \in 1 .. Len(v)
    BY <1>1
  <2>1. c[k] \in 1 .. n /\ s[c[k]] \in S
    BY <1>1 DEF Picks
  <2>2. PICK j \in 1 .. Len(v) : d[j] = c[k]
    BY <1>1, <2>1 DEF Picks
  <2>3. j < k
    <3>1. ~ (k < j)
      <4>1. k < j => d[k] < d[j]
        BY <1>1, <2>0 DEF Picks
      <4>2. d[k] \in 1 .. n
        BY <1>1, <2>0 DEF Picks
      <4> QED BY <4>1, <4>2, <2>2, <2>1
    <3>2. k # j
      <4>1. d[k] \in 1 .. n
        BY <1>1, <2>0 DEF Picks
      <4> QED BY <4>1, <2>2, <2>1
    <3> QED BY <3>1, <3>2, <2>0
  <2>4. j \in 1 .. Len(u) /\ c[j] = c[k]
    BY <1>1, <2>0, <2>2, <2>3
  <2>5. c[j] < c[k] /\ c[j] \in 1 .. n
    BY <1>1, <2>3, <2>4 DEF Picks
  <2> QED BY <2>1, <2>4, <2>5
<1> DEFINE Bad == {k \in 1 .. Len(r) : k <= Len(q) /\ a[k] # b[k]}
<1>2. Bad = {}
  <2> SUFFICES ASSUME Bad # {} PROVE FALSE
    OBVIOUS
  <2>1. PICK k \in Bad : \A j \in Bad : k <= j
    <3>1. Bad \in SUBSET Nat
      BY <1>0
    <3> HIDE DEF Bad
    <3> QED BY <3>1, LeastNumber
  <2>2. k \in 1 .. Len(r) /\ k \in 1 .. Len(q) /\ a[k] # b[k] /\ k <= Len(r) /\ k <= Len(q)
    BY <2>1, <1>0
  <2>3. \A j \in 1 .. k - 1 : a[j] = b[j] /\ b[j] = a[j]
    <3> SUFFICES ASSUME NEW j \in 1 .. k - 1 PROVE a[j] = b[j]
      OBVIOUS
    <3>1. j \in 1 .. Len(r) /\ j <= Len(q) /\ ~ (k <= j)
      BY <1>0, <2>2
    <3> QED BY <3>1, <2>1
  <2>4. ~ (a[k] < b[k]) /\ ~ (b[k] < a[k])
    BY <1>1, <2>2, <2>3
  <2>5. a[k] \in 1 .. n /\ b[k] \in 1 .. n
    BY <2>2 DEF Picks
  <2> QED BY <2>2, <2>4, <2>5
<1>3. \A k \in 1 .. Len(r) : k <= Len(q) => a[k] = b[k]
  BY <1>2
<1> HIDE DEF Bad
<1>4. ASSUME NEW c, NEW d, NEW u \in Seq(X), NEW v \in Seq(X),
             Picks(s, S, n, u, c), Picks(s, S, n, v, d),
             \A k \in 1 .. Len(u) : k <= Len(v) => c[k] = d[k]
      PROVE  Len(v) <= Len(u)
  <2>0. Len(u) \in Nat /\ Len(v) \in Nat
    OBVIOUS
  <2> SUFFICES ASSUME Len(u) < Len(v) PROVE FALSE
    BY <2>0
  <2> DEFINE l == Len(u) + 1
  <2>1. l \in 1 .. Len(v) /\ \A k \in 1 .. Len(u) : k < l /\ k \in 1 .. Len(v) /\ k <= Len(v)
    BY <2>0
  <2> HIDE DEF l
  <2>2. d[l] \in 1 .. n /\ s[d[l]] \in S
    BY <1>4, <2>1 DEF Picks
  <2>3. PICK k \in 1 .. Len(u) : c[k] = d[l]
    BY <1>4, <2>2 DEF Picks
  <2>4. d[k] < d[l] /\ d[k] = c[k]
    BY <1>4, <2>1 DEF Picks
  <2> QED BY <2>2, <2>3, <2>4
<1>5. Len(q) <= Len(r)
  BY <1>3, <1>4
<1>6. Len(r) <= Len(q)
  <2>1. \A k \in 1 .. Len(q) : k <= Len(r) => b[k] = a[k]
    BY <1>0, <1>3
  <2> QED BY <1>4, <2>1
<1>7. Len(r) = Len(q) /\ \A k \in 1 .. Len(r) : r[k] = q[k]
  BY <1>0, <1>3, <1>5, <1>6 DEF Picks
<1> QED BY <1>7

(* Kept drops what is not in S and nothing else, and keeps the order. *)
LEMMA KeptFacts ==
  ASSUME NEW S, NEW X, NEW s \in Seq(X)
  PROVE  /\ Kept(s, S) \in Seq(X)
         /\ Elements(Kept(s, S)) = Elements(s) \cap S
         /\ (\A p, q \in DOMAIN s : s[p] = s[q] /\ s[p] \in S => p = q) => Unique(Kept(s, S))
         /\ \A a, b : Before(Kept(s, S), a, b) => Before(s, a, b)
         /\ \A a \in S, b \in S : Before(s, a, b) => Before(Kept(s, S), a, b)
         /\ Elements(s) \subseteq S => Kept(s, S) = s
<1> DEFINE r == Kept(s, S)
<1>1. r \in Seq(X)
  BY KeptPicks
<1>2. PICK at : Picks(s, S, Len(s), r, at)
  BY KeptPicks
<1> HIDE DEF r
<1>3. DOMAIN s = 1 .. Len(s) /\ DOMAIN r = 1 .. Len(r) /\ Len(s) \in Nat /\ Len(r) \in Nat
  BY <1>1
<1>4. /\ \A k \in DOMAIN r : at[k] \in DOMAIN s /\ r[k] = s[at[k]] /\ r[k] \in S /\ at[k] \in Nat
      /\ \A k, l \in DOMAIN r : k < l => at[k] < at[l]
      /\ \A p \in DOMAIN s : s[p] \in S => \E k \in DOMAIN r : at[k] = p
  BY <1>2, <1>3 DEF Picks
<1>5. Elements(r) = Elements(s) \cap S
  BY <1>4 DEF Elements
<1>6. ASSUME \A p, q \in DOMAIN s : s[p] = s[q] /\ s[p] \in S => p = q
      PROVE  Unique(r)
  <2> SUFFICES ASSUME NEW k \in DOMAIN r, NEW l \in DOMAIN r, r[k] = r[l] PROVE k = l
    BY DEF Unique
  <2>1. at[k] = at[l]
    BY <1>4, <1>6
  <2>2. ~ (k < l) /\ ~ (l < k)
    BY <1>4, <2>1
  <2> QED BY <1>3, <2>2
<1>7. \A a, b : Before(r, a, b) => Before(s, a, b)
  BY <1>4 DEF Before
<1>8. ASSUME NEW a \in S, NEW b \in S, Before(s, a, b)
      PROVE  Before(r, a, b)
  <2>1. PICK i \in DOMAIN s, j \in DOMAIN s : i < j /\ s[i] = a /\ s[j] = b
    BY <1>8 DEF Before
  <2>2. PICK k \in DOMAIN r : at[k] = i
    BY <1>4, <2>1
  <2>3. PICK l \in DOMAIN r : at[l] = j
    BY <1>4, <2>1
  <2>4. k < l
    <3>1. ~ (l < k) /\ l # k
      BY <1>3, <1>4, <2>1, <2>2, <2>3
    <3> QED BY <1>3, <3>1
  <2> QED BY <1>4, <2>1, <2>2, <2>3, <2>4 DEF Before
<1>9. ASSUME Elements(s) \subseteq S
      PROVE  r = s
  <2> DEFINE id == [k \in 1 .. Len(s) |-> k]
  <2>1. \A k \in 1 .. Len(s) : id[k] = k /\ s[k] \in S
    BY <1>3, <1>9 DEF Elements
  <2>2. id \in [1 .. Len(s) -> 1 .. Len(s)]
    OBVIOUS
  <2> HIDE DEF id
  <2>3. Picks(s, S, Len(s), s, id)
    BY <2>1, <2>2 DEF Picks
  <2> QED BY <1>1, <1>2, <1>3, <2>3, PicksUnique
<1> QED BY <1>1, <1>5, <1>6, <1>7, <1>8, <1>9 DEF r

(* Duplicate-free sequences are what they hold, in which order. *)
LEMMA SameOrder ==
  ASSUME NEW X, NEW r \in Seq(X), NEW s \in Seq(X), Unique(r), Unique(s),
         Elements(r) = Elements(s), \A a, b : Before(r, a, b) => Before(s, a, b)
  PROVE  r = s
<1>1. DOMAIN s = 1 .. Len(s) /\ DOMAIN r = 1 .. Len(r) /\ Len(s) \in Nat /\ Len(r) \in Nat
  OBVIOUS
<1>2. \A k \in DOMAIN r : \E p \in DOMAIN s : s[p] = r[k]
  BY DEF Elements
<1> DEFINE at == [k \in 1 .. Len(r) |-> CHOOSE p \in DOMAIN s : s[p] = r[k]]
           id == [k \in 1 .. Len(s) |-> k]
<1>3. \A k \in DOMAIN r : at[k] \in DOMAIN s /\ s[at[k]] = r[k]
  BY <1>1, <1>2
<1>4. at \in [1 .. Len(r) -> 1 .. Len(s)]
  BY <1>1, <1>3
<1>5. id \in [1 .. Len(s) -> 1 .. Len(s)] /\ \A k \in 1 .. Len(s) : id[k] = k
  OBVIOUS
<1> HIDE DEF at, id
<1>6. \A k, l \in 1 .. Len(r) : k < l => at[k] < at[l]
  <2> SUFFICES ASSUME NEW k \in 1 .. Len(r), NEW l \in 1 .. Len(r), k < l PROVE at[k] < at[l]
    OBVIOUS
  <2>0. Before(r, r[k], r[l])
    BY <1>1 DEF Before
  <2>1. Before(s, r[k], r[l])
    BY <2>0
  <2>2. PICK i \in DOMAIN s, j \in DOMAIN s : i < j /\ s[i] = r[k] /\ s[j] = r[l]
    BY <2>1 DEF Before
  <2>3. at[k] = i /\ at[l] = j
    BY <1>1, <1>3, <2>2 DEF Unique
  <2> QED BY <2>2, <2>3
<1>7. \A p \in 1 .. Len(s) : \E k \in 1 .. Len(r) : at[k] = p
  <2> SUFFICES ASSUME NEW p \in 1 .. Len(s) PROVE \E k \in 1 .. Len(r) : at[k] = p
    OBVIOUS
  <2>1. PICK k \in DOMAIN r : r[k] = s[p]
    BY <1>1 DEF Elements
  <2> QED BY <1>1, <1>3, <2>1 DEF Unique
<1>8. (\A k \in 1 .. Len(r) : r[k] \in X) /\ (\A k \in 1 .. Len(s) : s[k] \in X)
  OBVIOUS
<1>9. Picks(s, X, Len(s), r, at)
  BY <1>1, <1>3, <1>4, <1>6, <1>7, <1>8 DEF Picks
<1>10. Picks(s, X, Len(s), s, id)
  BY <1>5, <1>8 DEF Picks
<1> QED BY <1>1, <1>9, <1>10, PicksUnique

(* Kept looks at the elements only. *)
LEMMA KeptSame ==
  ASSUME NEW X, NEW s \in Seq(X), Unique(s), NEW S, NEW T,
         Elements(s) \cap S = Elements(s) \cap T
  PROVE  Kept(s, S) = Kept(s, T)
<1> DEFINE r == Kept(s, S)
           q == Kept(s, T)
<1>1. \A i, j \in DOMAIN s : s[i] = s[j] => i = j
  BY DEF Unique
<1>2. /\ r \in Seq(X) /\ Unique(r) /\ Elements(r) = Elements(s) \cap S
      /\ \A a, b : Before(r, a, b) => Before(s, a, b)
  BY <1>1, KeptFacts
<1>3. /\ q \in Seq(X) /\ Unique(q) /\ Elements(q) = Elements(s) \cap T
      /\ \A a \in T, b \in T : Before(s, a, b) => Before(q, a, b)
  BY <1>1, KeptFacts
<1> HIDE DEF r, q
<1>4. ASSUME NEW a, NEW b, Before(r, a, b) PROVE Before(q, a, b)
  <2>1. In(a, r) /\ In(b, r)
    BY <1>2, <1>4, BeforeFacts
  <2>2. a \in T /\ b \in T
    BY <1>2, <2>1 DEF In
  <2> QED BY <1>2, <1>3, <1>4, <2>2
<1>5. r = q
  BY <1>2, <1>3, <1>4, SameOrder
<1> QED BY <1>5 DEF r, q
=============================================================================
