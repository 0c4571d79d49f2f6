-------------------------- MODULE QueryMatchProofs ---------------------------
(***************************************************************************)
(* What the search of QueryMatch returns, for every query, every netlist   *)
(* and every depth of the recursion.                                       *)
(***************************************************************************)
EXTENDS QueryMatch, UniqueSeqProofs

(* Induction over the turns of a loop. *)
LEMMA TurnInduction ==
  ASSUME NEW n \in Nat, NEW T, 0 \in T, \A i \in 1 .. n : i - 1 \in T => i \in T
  PROVE  \A i \in 0 .. n : i \in T
<1> DEFINE Bad == {i \in 0 .. n : i \notin T}
<1> SUFFICES ASSUME Bad # {} PROVE FALSE
  OBVIOUS
<1>1. PICK m \in Bad : \A k \in Bad : m <= k
  <2>1. Bad \in SUBSET Nat
    OBVIOUS
  <2> HIDE DEF Bad
  <2> QED BY <2>1, LeastNumber
<1>2. m \in 1 .. n
  BY <1>1
<1>3. m - 1 \in 0 .. n /\ m - 1 < m
  BY <1>2
<1>4. m - 1 \notin Bad
  BY <1>1, <1>3
<1> QED
  BY <1>1, <1>2, <1>3, <1>4

LEMMA AfterTheTurns ==
  ASSUME NEW n \in Nat, NEW T, 0 \in T, \A i \in 1 .. n : i - 1 \in T => i \in T
  PROVE  n \in T
<1>1. \A i \in 0 .. n : i \in T
  BY TurnInduction
<1> QED BY <1>1

(* The values of a loop of n turns that begins with b. *)
Loop(f, n, b, F) == f[0] = b /\ \A i \in 1 .. n : f[i] = F[<<i, f[i - 1]>>]

(* A loop has a value after every turn. *)
LEMMA LoopExists ==
  ASSUME NEW S, NEW n \in Nat, NEW b \in S, NEW F \in [(1 .. n) \X S -> S]
  PROVE  \E f \in [0 .. n -> S] : Loop(f, n, b, F)
<1> DEFINE Upto(k, f) == Loop(f, k, b, F)
           T == {k \in 0 .. n : \E f \in [0 .. k -> S] : Upto(k, f)}
<1>1. 0 \in T
  <2> DEFINE g == [i \in 0 .. 0 |-> b]
  <2>1. g \in [0 .. 0 -> S] /\ Upto(0, g)
    BY DEF Loop
  <2> HIDE DEF g, Upto
  <2>2. 0 \in 0 .. n /\ \E f \in [0 .. 0 -> S] : Upto(0, f)
    BY <2>1
  <2> QED BY <2>2
<1>2. \A k \in 1 .. n : k - 1 \in T => k \in T
  <2> SUFFICES ASSUME NEW k \in 1 .. n, k - 1 \in T PROVE k \in T
    OBVIOUS
  <2>1. PICK f \in [0 .. k - 1 -> S] : Upto(k - 1, f)
    OBVIOUS
  <2> DEFINE g == [i \in 0 .. k |-> IF i = k THEN F[<<k, f[k - 1]>>] ELSE f[i]]
  <2>2. k - 1 \in 0 .. k - 1 /\ k \in Nat
    OBVIOUS
  <2>3. F[<<k, f[k - 1]>>] \in S
    BY <2>2
  <2>4. g \in [0 .. k -> S]
    BY <2>2, <2>3
  <2>5. g[0] = b
    BY <2>1, <2>2 DEF Loop
  <2>6. \A i \in 1 .. k : g[i] = F[<<i, g[i - 1]>>]
    <3> SUFFICES ASSUME NEW i \in 1 .. k PROVE g[i] = F[<<i, g[i - 1]>>]
      OBVIOUS
    <3>1. g[i - 1] = f[i - 1]
      BY <2>2
    <3>2. CASE i = k
      <4>1. g[k] = F[<<k, f[k - 1]>>]
        BY <2>2
      <4> HIDE DEF g
      <4> QED BY <3>1, <3>2, <4>1
    <3>3. CASE i # k
      <4>1. i \in 1 .. k - 1
        BY <3>3, <2>2
      <4>2. g[i] = f[i]
        BY <3>3
      <4>3. f[i] = F[<<i, f[i - 1]>>]
        BY <4>1, <2>1 DEF Loop
      <4> QED BY <3>1, <4>2, <4>3
    <3> QED BY <3>2, <3>3
  <2>7. Upto(k, g)
    BY <2>5, <2>6 DEF Loop
  <2> HIDE DEF Upto, g
  <2> QED BY <2>4, <2>7
<1>3. n \in T
  <2> HIDE DEF T
  <2> QED BY <1>1, <1>2, TurnInduction
<1> QED BY <1>3

-----------------------------------------------------------------------------
IsPair(e) == IsGraph(e.q) /\ IsGraph(e.g) /\ e.junk \in BOOLEAN

Pairs(e) == (DOMAIN e.q.nodes) \X (DOMAIN e.g.nodes)

(* What corresponds as far as k statements deep. *)
CorrespondsAt(e, h, k) ==
  LET same[i \in 0 .. MaxDepth] ==
        [p \in (DOMAIN e.q.nodes) \X (DOMAIN e.g.nodes) |->
           IF i = 0 THEN FALSE ELSE NodesCorrespond(e.q, e.g, h, same[i - 1], p[1], p[2])]
  IN  same[k]

(* The entries of h1 are those of h2. *)
Extends(h1, h2) == \A x \in DOMAIN h1 : h1[x] # NoNode => x \in DOMAIN h2 /\ h2[x] = h1[x]

(* The recursion of Correspondence: nothing corresponds at depth 0, and    *)
(* every depth looks at the one before.                                    *)
LEMMA CorrespondenceUnfolds ==
  ASSUME NEW e, NEW h
  PROVE  /\ \A p \in Pairs(e) : CorrespondsAt(e, h, 0)[p] = FALSE
         /\ \A k \in 1 .. MaxDepth : \A p \in Pairs(e) :
              CorrespondsAt(e, h, k)[p] = NodesCorrespond(e.q, e.g, h, CorrespondsAt(e, h, k - 1), p[1], p[2])
         /\ Correspondence(e.q, e.g, h) = CorrespondsAt(e, h, MaxDepth)
<1> DEFINE D == (DOMAIN e.q.nodes) \X (DOMAIN e.g.nodes)
           S == [D -> BOOLEAN]
           same[i \in 0 .. MaxDepth] ==
             [p \in D |-> IF i = 0 THEN FALSE ELSE NodesCorrespond(e.q, e.g, h, same[i - 1], p[1], p[2])]
           F == [x \in (1 .. MaxDepth) \X S |-> [p \in D |-> NodesCorrespond(e.q, e.g, h, x[2], p[1], p[2])]]
           Is(f) == f = [i \in 0 .. MaxDepth |->
                           [p \in D |-> IF i = 0 THEN FALSE
                                        ELSE NodesCorrespond(e.q, e.g, h, f[i - 1], p[1], p[2])]]
<1>0. MaxDepth \in Nat
  BY MaxDepthAssumption
<1>1. \A b, r, n : NodesCorrespond(e.q, e.g, h, b, r, n) \in BOOLEAN
  BY DEF NodesCorrespond
<1>2. F \in [(1 .. MaxDepth) \X S -> S]
  BY <1>1
<1>3. [p \in D |-> FALSE] \in S
  OBVIOUS
<1>4. PICK f \in [0 .. MaxDepth -> S] : f[0] = [p \in D |-> FALSE] /\ \A i \in 1 .. MaxDepth : f[i] = F[<<i, f[i - 1]>>]
  <2> DEFINE b == [p \in D |-> FALSE]
  <2>1. b \in S
    BY <1>3
  <2> HIDE DEF F, S, b
  <2>2. \E f \in [0 .. MaxDepth -> S] : Loop(f, MaxDepth, b, F)
    BY <1>0, <1>2, <2>1, LoopExists
  <2> QED BY <2>2 DEF Loop, b
<1>5. \A i \in 1 .. MaxDepth : f[i] = [p \in D |-> NodesCorrespond(e.q, e.g, h, f[i - 1], p[1], p[2])]
  <2> SUFFICES ASSUME NEW i \in 1 .. MaxDepth
               PROVE  f[i] = [p \in D |-> NodesCorrespond(e.q, e.g, h, f[i - 1], p[1], p[2])]
    OBVIOUS
  <2>1. i - 1 \in 0 .. MaxDepth
    BY <1>0
  <2>2. f[i - 1] \in S
    BY <2>1
  <2>3. <<i, f[i - 1]>> \in (1 .. MaxDepth) \X S
    BY <2>2
  <2> HIDE DEF D, S
  <2> QED BY <1>4, <2>3
<1>6. Is(f)
  <2> SUFFICES ASSUME NEW i \in 0 .. MaxDepth
               PROVE  f[i] = [p \in D |-> IF i = 0 THEN FALSE
                                          ELSE NodesCorrespond(e.q, e.g, h, f[i - 1], p[1], p[2])]
    OBVIOUS
  <2> HIDE DEF D, F
  <2>1. CASE i = 0   BY <2>1, <1>4
  <2>2. CASE i # 0
    <3>1. i \in 1 .. MaxDepth
      BY <2>2, <1>0
    <3> QED BY <2>2, <3>1, <1>5
  <2> QED BY <2>1, <2>2
<1>7. same = CHOOSE g : Is(g)
  OBVIOUS
<1>8. Is(same)
  <2> HIDE DEF same, Is
  <2> QED BY <1>6, <1>7
<1>9. \A k \in 0 .. MaxDepth : CorrespondsAt(e, h, k) = same[k]
  BY DEF CorrespondsAt
<1>10. Correspondence(e.q, e.g, h) = same[MaxDepth]
  BY DEF Correspondence
<1>11. \A i \in 0 .. MaxDepth : same[i] = [p \in D |-> IF i = 0 THEN FALSE
                                          ELSE NodesCorrespond(e.q, e.g, h, same[i - 1], p[1], p[2])]
  <2> HIDE DEF same, D
  <2> QED BY <1>8
<1>12. 0 \in 0 .. MaxDepth /\ MaxDepth \in 0 .. MaxDepth /\ \A k \in 1 .. MaxDepth : k \in 0 .. MaxDepth /\ k - 1 \in 0 .. MaxDepth /\ k # 0
  BY <1>0
<1> HIDE DEF same, Is, F, S
<1>13. \A p \in D : same[0][p] = FALSE
  <2>1. same[0] = [p \in D |-> FALSE]
    BY <1>11, <1>12
  <2> QED BY <2>1
<1>14. \A k \in 1 .. MaxDepth : \A p \in D :
        same[k][p] = NodesCorrespond(e.q, e.g, h, same[k - 1], p[1], p[2])
  <2> SUFFICES ASSUME NEW k \in 1 .. MaxDepth
               PROVE  \A p \in D : same[k][p] = NodesCorrespond(e.q, e.g, h, same[k - 1], p[1], p[2])
    OBVIOUS
  <2>1. same[k] = [p \in D |-> NodesCorrespond(e.q, e.g, h, same[k - 1], p[1], p[2])]
    <3>1. k \in 0 .. MaxDepth /\ k # 0
      BY <1>12
    <3>2. same[k] = [p \in D |-> IF k = 0 THEN FALSE
                                 ELSE NodesCorrespond(e.q, e.g, h, same[k - 1], p[1], p[2])]
      BY <3>1, <1>11
    <3> QED BY <3>1, <3>2
  <2> QED BY <2>1
<1> HIDE DEF D
<1> QED BY <1>9, <1>10, <1>12, <1>13, <1>14 DEF Pairs, D

LEMMA CorrespondsNowhere ==
  ASSUME NEW e, NEW h, NEW p \in Pairs(e)
  PROVE  ~ CorrespondsAt(e, h, 0)[p]
<1>1. CorrespondsAt(e, h, 0)[p] = FALSE
  BY CorrespondenceUnfolds
<1> QED BY <1>1

LEMMA CorrespondsNext ==
  ASSUME NEW e, NEW h, NEW k \in 1 .. MaxDepth, NEW p \in Pairs(e)
  PROVE  CorrespondsAt(e, h, k)[p] <=> NodesCorrespond(e.q, e.g, h, CorrespondsAt(e, h, k - 1), p[1], p[2])
<1>1. CorrespondsAt(e, h, k)[p] = NodesCorrespond(e.q, e.g, h, CorrespondsAt(e, h, k - 1), p[1], p[2])
  BY CorrespondenceUnfolds
<1> QED BY <1>1

LEMMA CorrespondenceEnd ==
  ASSUME NEW e, NEW h
  PROVE  Correspondence(e.q, e.g, h) = CorrespondsAt(e, h, MaxDepth)
BY CorrespondenceUnfolds

LEMMA OneOf ==
  ASSUME NEW S, NEW a \in S
  PROVE  <<a>> \in Seq(S) /\ Len(<<a>>) = 1 /\ DOMAIN <<a>> = 1 .. 1 /\ <<a>>[1] = a
OBVIOUS

LEMMA TwoOf ==
  ASSUME NEW S, NEW a \in S, NEW b \in S
  PROVE  <<a, b>> \in Seq(S) /\ Len(<<a, b>>) = 2 /\ DOMAIN <<a, b>> = 1 .. 2
OBVIOUS

LEMMA OneMore ==
  ASSUME NEW S, NEW a \in S, NEW s \in Seq(S)
  PROVE  /\ <<a>> \o s \in Seq(S) /\ Len(<<a>> \o s) = Len(s) + 1
         /\ (<<a>> \o s)[1] = a /\ \A i \in 1 .. Len(s) : (<<a>> \o s)[i + 1] = s[i]
OBVIOUS

LEMMA SeqDomain ==
  ASSUME NEW S, NEW s \in Seq(S)
  PROVE  Len(s) \in Nat /\ DOMAIN s = 1 .. Len(s)
OBVIOUS

(* More entries do not take a correspondence away. *)
LEMMA MapsStay ==
  ASSUME NEW h1, NEW h2, Extends(h1, h2), NEW X, NoNode \notin X,
         NEW Y, NEW refs \in Seq(Y), NEW ns \in Seq(X), Maps(h1, refs, ns)
  PROVE  Maps(h2, refs, ns)
<1>1. \A i \in DOMAIN refs : i \in DOMAIN ns /\ ns[i] # NoNode
  BY DEF Maps
<1> QED BY <1>1 DEF Maps, Extends

LEMMA NodeFacts ==
  ASSUME NEW G, IsGraph(G), NEW n \in DOMAIN G.nodes
  PROVE  LET r == G.nodes[n]
         IN  /\ r.kind \in {"call", "assign", "if"}
             /\ r.args \in Seq(DOMAIN G.nets) /\ r.conds \in Seq(DOMAIN G.nets)
             /\ r.arms \in Seq(Seq(DOMAIN G.nodes))
             /\ r.kind = "call" => r.res \in DOMAIN G.nets
             /\ r.kind = "assign" => r.dst \in DOMAIN G.nets /\ r.src \in DOMAIN G.nets
             /\ r.kind = "if" => Len(r.conds) > 0 /\ Len(r.arms) = Len(r.conds) + 1
BY DEF IsGraph, IsNode

(* The arms of two ifs that are compared. *)
LEMMA ArmFacts ==
  ASSUME NEW q, IsGraph(q), NEW graph, IsGraph(graph),
         NEW ref \in DOMAIN q.nodes, NEW n \in DOMAIN graph.nodes,
         q.nodes[ref].kind = "if", graph.nodes[n].kind = "if",
         Len(q.nodes[ref].conds) = Len(graph.nodes[n].conds),
         NEW i \in DOMAIN q.nodes[ref].conds
  PROVE  /\ i \in 1 .. Len(q.nodes[ref].conds)
         /\ q.nodes[ref].arms[i] \in Seq(DOMAIN q.nodes)
         /\ (IF i = 1 THEN Last(graph.nodes[n].arms) ELSE graph.nodes[n].arms[i]) \in Seq(DOMAIN graph.nodes)
         /\ q.nodes[ref].conds[i] \in DOMAIN q.nets
         /\ graph.nodes[n].conds[i] \in DOMAIN graph.nets
<1> DEFINE r == q.nodes[ref]
           g == graph.nodes[n]
<1>1. /\ r.conds \in Seq(DOMAIN q.nets) /\ r.arms \in Seq(Seq(DOMAIN q.nodes))
      /\ Len(r.conds) > 0 /\ Len(r.arms) = Len(r.conds) + 1
  BY NodeFacts
<1>2. /\ g.conds \in Seq(DOMAIN graph.nets) /\ g.arms \in Seq(Seq(DOMAIN graph.nodes))
      /\ Len(g.conds) > 0 /\ Len(g.arms) = Len(g.conds) + 1
  BY NodeFacts
<1>3. Len(r.conds) = Len(g.conds) /\ i \in DOMAIN r.conds
  OBVIOUS
<1> HIDE DEF r, g
<1>4. i \in 1 .. Len(r.conds)
  BY <1>1, <1>3
<1>5. r.arms[i] \in Seq(DOMAIN q.nodes) /\ r.conds[i] \in DOMAIN q.nets
  BY <1>1, <1>4
<1>6. g.arms[i] \in Seq(DOMAIN graph.nodes) /\ g.conds[i] \in DOMAIN graph.nets
  BY <1>2, <1>3, <1>4
<1>7. Last(g.arms) \in Seq(DOMAIN graph.nodes)
  BY <1>2 DEF Last
<1> QED BY <1>4, <1>5, <1>6, <1>7 DEF r, g

(* What corresponds below is all that a node needs. *)
LEMMA NodesStay ==
  ASSUME NEW e, IsPair(e), NEW h1, NEW h2, Extends(h1, h2), NEW b1, NEW b2,
         \A p \in Pairs(e) : b1[p] => b2[p],
         NEW ref \in DOMAIN e.q.nodes, NEW n \in DOMAIN e.g.nodes,
         NodesCorrespond(e.q, e.g, h1, b1, ref, n)
  PROVE  NodesCorrespond(e.q, e.g, h2, b2, ref, n)
<1> DEFINE r == e.q.nodes[ref]
           g == e.g.nodes[n]
<1>0. /\ IsGraph(e.q) /\ IsGraph(e.g)
      /\ NoNode \notin DOMAIN e.g.nodes /\ NoNode \notin DOMAIN e.g.nets
  BY DEF IsPair, IsGraph, Everything
<1>1. r.kind = g.kind
  BY DEF NodesCorrespond
<1>2. ASSUME r.kind = "call" PROVE Maps(h2, <<ref>>, <<n>>)
  <2>1. Maps(h1, <<ref>>, <<n>>)
    BY <1>2 DEF NodesCorrespond
  <2>2. <<ref>> \in Seq(DOMAIN e.q.nodes) /\ <<n>> \in Seq(DOMAIN e.g.nodes)
    BY OneOf
  <2> DEFINE refs == <<ref>>
             ns == <<n>>
  <2>3. refs \in Seq(DOMAIN e.q.nodes) /\ ns \in Seq(DOMAIN e.g.nodes) /\ Maps(h1, refs, ns)
    BY <2>1, <2>2
  <2> HIDE DEF refs, ns
  <2>4. Maps(h2, refs, ns)
    BY <2>3, <1>0, MapsStay
  <2> QED BY <2>4 DEF refs, ns
<1>3. ASSUME r.kind = "assign" PROVE Maps(h2, <<r.dst, r.src>>, <<g.dst, g.src>>)
  <2>1. Maps(h1, <<r.dst, r.src>>, <<g.dst, g.src>>)
    BY <1>3 DEF NodesCorrespond
  <2>2. /\ g.dst \in DOMAIN e.g.nets /\ g.src \in DOMAIN e.g.nets
        /\ r.dst \in DOMAIN e.q.nets /\ r.src \in DOMAIN e.q.nets
    BY <1>0, <1>1, <1>3, NodeFacts
  <2> DEFINE refs == <<r.dst, r.src>>
             ns == <<g.dst, g.src>>
  <2>3. refs \in Seq(DOMAIN e.q.nets) /\ ns \in Seq(DOMAIN e.g.nets) /\ Maps(h1, refs, ns)
    BY <2>1, <2>2, TwoOf
  <2> HIDE DEF refs, ns
  <2>4. Maps(h2, refs, ns)
    BY <2>3, <1>0, MapsStay
  <2> QED BY <2>4 DEF refs, ns
<1>4. ASSUME r.kind = "if" PROVE IfsCorrespond(h2, b2, r, g)
  <2>1. IfsCorrespond(h1, b1, r, g)
    BY <1>4 DEF NodesCorrespond
  <2>2. /\ r.conds \in Seq(DOMAIN e.q.nets) /\ g.conds \in Seq(DOMAIN e.g.nets)
        /\ Len(r.conds) = Len(g.conds)
    BY <2>1, <1>0, NodeFacts DEF IfsCorrespond
  <2>3. Maps(h2, r.conds, g.conds)
    <3>1. Maps(h1, r.conds, g.conds)
      BY <2>1 DEF IfsCorrespond
    <3> HIDE DEF r, g
    <3> QED BY <3>1, <2>2, <1>0, MapsStay
  <2>4. ASSUME NEW i \in DOMAIN r.conds
        PROVE  AllCorrespond(b2, r.arms[i], IF i = 1 THEN Last(g.arms) ELSE g.arms[i])
    <3> DEFINE ra == r.arms[i]
               ga == IF i = 1 THEN Last(g.arms) ELSE g.arms[i]
    <3>1. ra \in Seq(DOMAIN e.q.nodes) /\ ga \in Seq(DOMAIN e.g.nodes)
      BY <1>0, <1>1, <1>4, <2>2, ArmFacts
    <3>2. AllCorrespond(b1, ra, ga)
      BY <2>1 DEF IfsCorrespond
    <3> HIDE DEF ra, ga
    <3>3. \A j \in DOMAIN ra : <<ra[j], ga[j]>> \in Pairs(e)
      <4>1. Len(ra) <= Len(ga)
        BY <3>2 DEF AllCorrespond
      <4> QED BY <3>1, <4>1 DEF Pairs
    <3>4. AllCorrespond(b2, ra, ga)
      BY <3>2, <3>3 DEF AllCorrespond
    <3> QED BY <3>4 DEF ra, ga
  <2> HIDE DEF r, g
  <2> QED BY <2>1, <2>3, <2>4 DEF IfsCorrespond
<1> QED BY <1>1, <1>2, <1>3, <1>4 DEF NodesCorrespond

(* ... with more entries, at any depth. *)
LEMMA CorrespondenceStays ==
  ASSUME NEW e, IsPair(e), NEW h1, NEW h2, Extends(h1, h2), NEW k \in 0 .. MaxDepth,
         NEW p \in Pairs(e), CorrespondsAt(e, h1, k)[p]
  PROVE  CorrespondsAt(e, h2, k)[p]
<1> DEFINE T == {i \in 0 .. MaxDepth : \A x \in Pairs(e) : CorrespondsAt(e, h1, i)[x] => CorrespondsAt(e, h2, i)[x]}
<1>0. MaxDepth \in Nat
  BY MaxDepthAssumption
<1>1. 0 \in T
  BY <1>0, CorrespondsNowhere
<1>2. \A i \in 1 .. MaxDepth : i - 1 \in T => i \in T
  <2> SUFFICES ASSUME NEW i \in 1 .. MaxDepth, i - 1 \in T,
                      NEW x \in Pairs(e), CorrespondsAt(e, h1, i)[x]
               PROVE  CorrespondsAt(e, h2, i)[x]
    BY <1>0
  <2>1. x[1] \in DOMAIN e.q.nodes /\ x[2] \in DOMAIN e.g.nodes
    BY DEF Pairs
  <2>2. NodesCorrespond(e.q, e.g, h1, CorrespondsAt(e, h1, i - 1), x[1], x[2])
    BY CorrespondsNext
  <2>3. \A y \in Pairs(e) : CorrespondsAt(e, h1, i - 1)[y] => CorrespondsAt(e, h2, i - 1)[y]
    OBVIOUS
  <2>4. NodesCorrespond(e.q, e.g, h2, CorrespondsAt(e, h2, i - 1), x[1], x[2])
    BY <2>1, <2>2, <2>3, NodesStay
  <2> QED BY <2>4, CorrespondsNext
<1>3. k \in T
  <2> HIDE DEF T
  <2> QED BY <1>0, <1>1, <1>2, TurnInduction
<1> QED BY <1>3

(* ... and deeper. *)
LEMMA CorrespondenceDeeper ==
  ASSUME NEW e, IsPair(e), NEW h, NEW k \in 1 .. MaxDepth,
         NEW p \in Pairs(e), CorrespondsAt(e, h, k - 1)[p]
  PROVE  CorrespondsAt(e, h, k)[p]
<1> DEFINE T == {i \in 0 .. MaxDepth : i = 0 \/ \A x \in Pairs(e) : CorrespondsAt(e, h, i - 1)[x] => CorrespondsAt(e, h, i)[x]}
<1>0. MaxDepth \in Nat
  BY MaxDepthAssumption
<1>1. 0 \in T
  BY <1>0
<1>2. \A i \in 1 .. MaxDepth : i - 1 \in T => i \in T
  <2> SUFFICES ASSUME NEW i \in 1 .. MaxDepth, i - 1 \in T,
                      NEW x \in Pairs(e), CorrespondsAt(e, h, i - 1)[x]
               PROVE  CorrespondsAt(e, h, i)[x]
    BY <1>0
  <2>1. x[1] \in DOMAIN e.q.nodes /\ x[2] \in DOMAIN e.g.nodes
    BY DEF Pairs
  <2>2. i # 1
    <3>1. ~ CorrespondsAt(e, h, 0)[x]
      BY CorrespondsNowhere
    <3>2. i = 1 => i - 1 = 0
      OBVIOUS
    <3> QED BY <3>1, <3>2
  <2>3. i - 1 \in 1 .. MaxDepth
    BY <1>0, <2>2
  <2>4. NodesCorrespond(e.q, e.g, h, CorrespondsAt(e, h, i - 1 - 1), x[1], x[2])
    BY <2>3, CorrespondsNext
  <2>5. \A y \in Pairs(e) : CorrespondsAt(e, h, i - 1 - 1)[y] => CorrespondsAt(e, h, i - 1)[y]
    BY <2>2
  <2>6. Extends(h, h)
    BY DEF Extends
  <2>7. NodesCorrespond(e.q, e.g, h, CorrespondsAt(e, h, i - 1), x[1], x[2])
    BY <2>1, <2>4, <2>5, <2>6, NodesStay
  <2> QED BY <2>7, CorrespondsNext
<1>3. k \in T
  <2> HIDE DEF T
  <2> QED BY <1>0, <1>1, <1>2, TurnInduction
<1> QED BY <1>3

(* What corresponds at some depth corresponds. *)
LEMMA CorrespondsAtEnd ==
  ASSUME NEW e, IsPair(e), NEW h, NEW k \in 0 .. MaxDepth,
         NEW p \in Pairs(e), CorrespondsAt(e, h, k)[p]
  PROVE  Correspondence(e.q, e.g, h)[p]
<1> DEFINE T == {i \in 0 .. MaxDepth : i < k \/ CorrespondsAt(e, h, i)[p]}
<1>0. MaxDepth \in Nat
  BY MaxDepthAssumption
<1>1. 0 \in T
  BY <1>0
<1>2. \A i \in 1 .. MaxDepth : i - 1 \in T => i \in T
  <2> SUFFICES ASSUME NEW i \in 1 .. MaxDepth, i - 1 \in T, ~ (i < k)
               PROVE  CorrespondsAt(e, h, i)[p]
    BY <1>0
  <2>1. CASE i = k   BY <2>1
  <2>2. CASE i # k
    <3>1. CorrespondsAt(e, h, i - 1)[p]
      BY <2>2, <1>0
    <3> QED BY <3>1, CorrespondenceDeeper
  <2> QED BY <2>1, <2>2
<1>3. MaxDepth \in T
  <2> HIDE DEF T
  <2> QED BY <1>0, <1>1, <1>2, TurnInduction
<1>4. CorrespondsAt(e, h, MaxDepth)[p]
  BY <1>0, <1>3
<1> QED BY <1>4, CorrespondenceEnd

(* An image stays one when the match grows. *)
LEMMA ImageStays ==
  ASSUME NEW e, IsPair(e), NEW h1, NEW h2, Extends(h1, h2), NEW x \in DOMAIN h1,
         ImageOf(e.q, e.g, h1, x)
  PROVE  ImageOf(e.q, e.g, h2, x)
<1>0. /\ IsGraph(e.q) /\ IsGraph(e.g) /\ MaxDepth \in 0 .. MaxDepth
      /\ NoNode \notin DOMAIN e.g.nodes /\ NoNode \notin DOMAIN e.g.nets
  BY MaxDepthAssumption DEF IsPair, IsGraph, Everything
<1>1. \A p \in Pairs(e) : Correspondence(e.q, e.g, h1)[p] => Correspondence(e.q, e.g, h2)[p]
  BY <1>0, CorrespondenceEnd, CorrespondenceStays
<1>2. CASE x \in DOMAIN e.q.nets /\ h1[x] \in DOMAIN e.g.nets
           /\ NetsCorrespond(Correspondence(e.q, e.g, h1), e.q.nets[x], e.g.nets[h1[x]])
  <2>1. h2[x] = h1[x]
    BY <1>0, <1>2 DEF Extends
  <2> DEFINE r == e.q.nets[x]
             g == e.g.nets[h1[x]]
             c1 == Correspondence(e.q, e.g, h1)
             c2 == Correspondence(e.q, e.g, h2)
  <2>2. /\ r.drivers \in Seq(DOMAIN e.q.nodes) /\ r.endpoints \in Seq(DOMAIN e.q.nodes)
        /\ g.drivers \in Seq(DOMAIN e.g.nodes) /\ g.endpoints \in Seq(DOMAIN e.g.nodes)
    BY <1>0, <1>2 DEF IsGraph
  <2>3. NetsCorrespond(c1, r, g)
    BY <1>2
  <2> HIDE DEF r, g, c1, c2
  <2>4. \A rs \in Seq(DOMAIN e.q.nodes), gs \in Seq(DOMAIN e.g.nodes) : Within(c1, rs, gs) => Within(c2, rs, gs)
    <3> SUFFICES ASSUME NEW rs \in Seq(DOMAIN e.q.nodes), NEW gs \in Seq(DOMAIN e.g.nodes), Within(c1, rs, gs),
                        NEW i \in DOMAIN rs
                 PROVE  \E j \in DOMAIN gs : c2[<<rs[i], gs[j]>>]
      BY DEF Within
    <3>1. PICK j \in DOMAIN gs : c1[<<rs[i], gs[j]>>]
      BY DEF Within
    <3>2. <<rs[i], gs[j]>> \in Pairs(e)
      BY DEF Pairs
    <3>3. c2[<<rs[i], gs[j]>>]
      BY <3>1, <3>2, <1>1 DEF c1, c2
    <3> QED BY <3>3
  <2>5. NetsCorrespond(c2, r, g)
    BY <2>2, <2>3, <2>4 DEF NetsCorrespond
  <2> QED BY <1>2, <2>1, <2>5 DEF ImageOf, r, g, c2
<1>3. CASE x \in CallNodes(e.q) /\ h1[x] \in CallNodes(e.g)
           /\ CallsCorrespond(h1, e.q.nodes[x], e.g.nodes[h1[x]])
  <2>1. h2[x] = h1[x]
    BY <1>0, <1>3 DEF Extends, CallNodes
  <2> DEFINE r == e.q.nodes[x]
             g == e.g.nodes[h1[x]]
  <2>2. /\ r.args \in Seq(DOMAIN e.q.nets) /\ r.res \in DOMAIN e.q.nets
        /\ g.args \in Seq(DOMAIN e.g.nets) /\ g.res \in DOMAIN e.g.nets
    BY <1>0, <1>3, NodeFacts DEF CallNodes
  <2>3. CallsCorrespond(h1, r, g)
    BY <1>3
  <2> HIDE DEF r, g
  <2>4. <<r.res>> \o r.args \in Seq(DOMAIN e.q.nets) /\ <<g.res>> \o g.args \in Seq(DOMAIN e.g.nets)
    BY <2>2, OneMore
  <2>5. Maps(h2, <<r.res>> \o r.args, <<g.res>> \o g.args)
    <3> DEFINE a == <<r.res>> \o r.args
               b == <<g.res>> \o g.args
    <3>1. a \in Seq(DOMAIN e.q.nets) /\ b \in Seq(DOMAIN e.g.nets) /\ Maps(h1, a, b)
      BY <2>3, <2>4 DEF CallsCorrespond
    <3> HIDE DEF a, b
    <3>2. Maps(h2, a, b)
      BY <3>1, <1>0, MapsStay
    <3> QED BY <3>2 DEF a, b
  <2>6. CallsCorrespond(h2, r, g)
    BY <2>3, <2>5 DEF CallsCorrespond
  <2> QED BY <1>3, <2>1, <2>6 DEF ImageOf, r, g
<1> QED BY <1>2, <1>3 DEF ImageOf

-----------------------------------------------------------------------------
Good(e, st) == st \in SearchStates(e) /\ st.stale \subseteq Matched(st)

(* b is a later state of a search than a: the match has only grown, and    *)
(* what the context has inserted since was not in it.                      *)
Grows(a, b) ==
  Extends(a.match, b.match) /\ a.stale \subseteq b.stale /\ (b.private \ a.private) \cap Matched(a) = {}

(* What has come in since is an image, if it is not left of a failed       *)
(* branch.                                                                 *)
Sound(e, a, b) ==
  \A x \in Matched(b) \ (Matched(a) \cup b.stale) : ImageOf(e.q, e.g, b.match, x)

Stage(e, a, b) == Good(e, b) /\ Grows(a, b) /\ (Goes(b) => Goes(a) /\ Sound(e, a, b))

(* The fields of a state. *)
LEMMA StateFields ==
  ASSUME NEW e, NEW st \in SearchStates(e)
  PROVE  /\ st.match \in [Everything(e.q) -> Everything(e.g) \cup {NoNode}]
         /\ st.private \in SUBSET Everything(e.q) /\ st.stale \in SUBSET Everything(e.q)
         /\ st.ok \in BOOLEAN /\ st.guessed \in BOOLEAN /\ st.beyond \in BOOLEAN
         /\ Matched(st) = {x \in Everything(e.q) : st.match[x] # NoNode}
BY DEF SearchStates, Matched

LEMMA NewContextFacts ==
  ASSUME NEW e
  PROVE  Good(e, NewContext(e)) /\ Matched(NewContext(e)) = {} /\ Goes(NewContext(e))
BY DEF Good, NewContext, SearchStates, Matched, Goes

(* A step that only fails, or only begins or ends a context. *)
LEMMA FailFacts ==
  ASSUME NEW e, NEW st, Good(e, st)
  PROVE  Stage(e, st, Fail(st)) /\ ~ Goes(Fail(st))
<1>1. /\ Fail(st) \in SearchStates(e) /\ Fail(st).match = st.match /\ Fail(st).stale = st.stale
      /\ Fail(st).private = st.private /\ Fail(st).ok = FALSE
  BY DEF Fail, SearchStates, Good
<1>2. ~ Goes(Fail(st))
  BY <1>1 DEF Goes
<1>3. Matched(Fail(st)) = Matched(st)
  BY <1>1 DEF Matched
<1>4. Extends(st.match, Fail(st).match)
  BY <1>1 DEF Extends
<1> QED BY <1>1, <1>2, <1>3, <1>4 DEF Stage, Good, Grows

LEMMA OverrunFacts ==
  ASSUME NEW e, NEW st, Good(e, st)
  PROVE  Stage(e, st, Overrun(st)) /\ ~ Goes(Overrun(st))
<1>1. /\ Overrun(st) \in SearchStates(e) /\ Overrun(st).match = st.match /\ Overrun(st).stale = st.stale
      /\ Overrun(st).private = st.private /\ Overrun(st).beyond = TRUE
  BY DEF Overrun, SearchStates, Good
<1>2. ~ Goes(Overrun(st))
  BY <1>1 DEF Goes
<1>3. Matched(Overrun(st)) = Matched(st)
  BY <1>1 DEF Matched
<1>4. Extends(st.match, Overrun(st).match)
  BY <1>1 DEF Extends
<1> QED BY <1>1, <1>2, <1>3, <1>4 DEF Stage, Good, Grows

LEMMA EnterFacts ==
  ASSUME NEW e, NEW st, Good(e, st)
  PROVE  /\ Good(e, Enter(st)) /\ Enter(st).private = {} /\ Enter(st).match = st.match
         /\ Enter(st).stale = st.stale /\ Goes(Enter(st)) = Goes(st) /\ Matched(Enter(st)) = Matched(st)
<1>1. /\ Enter(st) \in SearchStates(e) /\ Enter(st).match = st.match /\ Enter(st).stale = st.stale
      /\ Enter(st).private = {} /\ Enter(st).ok = st.ok /\ Enter(st).beyond = st.beyond
  BY DEF Enter, SearchStates, Good
<1>3. Matched(Enter(st)) = Matched(st)
  BY <1>1 DEF Matched
<1> QED BY <1>1, <1>3 DEF Good, Goes

LEMMA LeaveFacts ==
  ASSUME NEW e, NEW st, Good(e, st), NEW r, Stage(e, Enter(st), r)
  PROVE  /\ Stage(e, st, Leave(st, r)) /\ Leave(st, r).match = r.match /\ Goes(Leave(st, r)) = Goes(r)
         /\ Leave(st, r).stale = r.stale
<1> DEFINE l == Leave(st, r)
<1>0. Good(e, r) /\ r \in SearchStates(e) /\ st \in SearchStates(e)
  BY DEF Stage, Good
<1>1. /\ l \in SearchStates(e) /\ l.match = r.match /\ l.stale = r.stale
      /\ l.private = st.private /\ l.ok = r.ok /\ l.beyond = r.beyond
  BY <1>0 DEF Leave, SearchStates
<1> HIDE DEF l
<1>2. Goes(l) = Goes(r) /\ Matched(l) = Matched(r)
  BY <1>1 DEF Goes, Matched
<1>3. Good(e, l)
  BY <1>0, <1>1, <1>2 DEF Good
<1>4. Grows(st, l)
  BY <1>1, EnterFacts DEF Stage, Grows
<1>5. Goes(l) => Goes(st) /\ Sound(e, st, l)
  BY <1>1, <1>2, EnterFacts DEF Stage, Sound
<1> QED BY <1>1, <1>2, <1>3, <1>4, <1>5 DEF Stage, l

LEMMA StageReflexive ==
  ASSUME NEW e, NEW a, Good(e, a)
  PROVE  Stage(e, a, a)
BY DEF Stage, Grows, Extends, Sound

LEMMA ExtendsTransitive ==
  ASSUME NEW h1, NEW h2, NEW h3, Extends(h1, h2), Extends(h2, h3)
  PROVE  Extends(h1, h3)
BY DEF Extends

LEMMA GrowsMatched ==
  ASSUME NEW a, NEW b, Grows(a, b)
  PROVE  Matched(a) \subseteq Matched(b)
BY DEF Grows, Extends, Matched

LEMMA GrowsTransitive ==
  ASSUME NEW a, NEW b, NEW c, Grows(a, b), Grows(b, c)
  PROVE  Grows(a, c)
<1>1. Extends(a.match, c.match)
  BY ExtendsTransitive DEF Grows
<1>2. Matched(a) \subseteq Matched(b)
  BY GrowsMatched
<1> QED BY <1>1, <1>2 DEF Grows

LEMMA StageTransitive ==
  ASSUME NEW e, IsPair(e), NEW a, NEW b, NEW c, Stage(e, a, b), Stage(e, b, c)
  PROVE  Stage(e, a, c)
<1>1. Grows(a, b) /\ Grows(b, c) /\ Good(e, c)
  BY DEF Stage
<1>2. Matched(a) \subseteq Matched(b) /\ Matched(b) \subseteq Matched(c)
  BY <1>1, GrowsMatched
<1>3. Grows(a, c)
  BY <1>1, GrowsTransitive
<1>4. ASSUME Goes(c) PROVE Goes(a) /\ Sound(e, a, c)
  <2>1. Goes(b) /\ Goes(a) /\ Sound(e, a, b) /\ Sound(e, b, c)
    BY <1>4 DEF Stage
  <2>2. ASSUME NEW x \in Matched(c) \ (Matched(a) \cup c.stale) PROVE ImageOf(e.q, e.g, c.match, x)
    <3>1. CASE x \notin Matched(b)   BY <3>1, <2>1 DEF Sound
    <3>2. CASE x \in Matched(b)
      <4>1. ImageOf(e.q, e.g, b.match, x)
        BY <3>2, <2>1, <1>1 DEF Sound, Grows
      <4>2. x \in DOMAIN b.match /\ Extends(b.match, c.match)
        BY <3>2, <1>1 DEF Matched, Grows
      <4> QED BY <4>1, <4>2, ImageStays
    <3> QED BY <3>1, <3>2
  <2> QED BY <2>1, <2>2 DEF Sound
<1> QED BY <1>1, <1>3, <1>4 DEF Stage

(* The entry of ref is new, or was there. *)
LEMMA InsertFacts ==
  ASSUME NEW e, IsPair(e), NEW st, Good(e, st), NEW ref \in Everything(e.q), NEW n \in Everything(e.g),
         ~ CanNotMatch(st, ref, n)
  PROVE  LET b == insert_match(st, ref, n)
         IN  /\ Good(e, b) /\ Grows(st, b) /\ b.match[ref] = n /\ Goes(b) = Goes(st)
             /\ Matched(b) = Matched(st) \cup {ref} /\ b.stale = st.stale
<1>0. NoNode \notin Everything(e.g) /\ st \in SearchStates(e)
  BY DEF IsPair, IsGraph, Good
<1>1. CASE ref \in Matched(st)
  <2>1. st.match[ref] = n
    BY <1>1 DEF CanNotMatch, Matched
  <2>2. insert_match(st, ref, n) = st
    BY <1>1 DEF insert_match
  <2>3. Grows(st, st)
    BY DEF Grows, Extends
  <2> QED BY <1>1, <2>1, <2>2, <2>3
<1>2. CASE ref \notin Matched(st)
  <2> DEFINE b == insert_match(st, ref, n)
  <2>1. b = [st EXCEPT !.match[ref] = n, !.private = @ \cup {ref}]
    BY <1>2 DEF insert_match
  <2>2. /\ b \in SearchStates(e) /\ b.match = [st.match EXCEPT ![ref] = n] /\ b.stale = st.stale
        /\ b.private = st.private \cup {ref} /\ b.ok = st.ok /\ b.beyond = st.beyond
    <3> DEFINE h == [st.match EXCEPT ![ref] = n]
               p == st.private \cup {ref}
    <3>1. h \in [Everything(e.q) -> Everything(e.g) \cup {NoNode}] /\ p \in SUBSET Everything(e.q)
      BY <1>0, StateFields
    <3>2. b = [st EXCEPT !.match = h, !.private = p]
      BY <2>1
    <3> HIDE DEF h, p, b
    <3>3. /\ b \in SearchStates(e) /\ b.match = h /\ b.stale = st.stale
          /\ b.private = p /\ b.ok = st.ok /\ b.beyond = st.beyond
      BY <3>1, <3>2, <1>0 DEF SearchStates
    <3> QED BY <3>3 DEF h, p
  <2> HIDE DEF b
  <2>3. b.match[ref] = n /\ \A x \in Everything(e.q) : x # ref => b.match[x] = st.match[x]
    BY <2>2, <1>0, StateFields
  <2>4. Matched(b) = Matched(st) \cup {ref}
    BY <2>2, <2>3, <1>0, StateFields
  <2>5. Extends(st.match, b.match)
    BY <2>2, <2>3, <1>0, <1>2, StateFields DEF Extends
  <2>6. Grows(st, b)
    BY <2>2, <2>5, <1>2 DEF Grows
  <2>7. Good(e, b) /\ Goes(b) = Goes(st)
    BY <2>2, <2>4 DEF Good, Goes
  <2> QED BY <2>2, <2>3, <2>4, <2>6, <2>7 DEF b
<1> QED BY <1>1, <1>2

Discarded(e, before, r, d) ==
  LET kept == Matched(r) \ r.private
  IN  /\ d \in SearchStates(e) /\ d.private = r.private /\ d.ok = TRUE /\ d.beyond = r.beyond
      /\ Matched(d) = kept /\ (\A x \in kept : d.match[x] = r.match[x])
      /\ d.stale = (r.stale \cup (kept \ Matched(before))) \cap kept

LEMMA DiscardFields ==
  ASSUME NEW e, NEW before \in SearchStates(e), NEW r \in SearchStates(e)
  PROVE  Discarded(e, before, r, discard(before, r))
<1> DEFINE d == discard(before, r)
           kept == Matched(r) \ r.private
           h == [x \in DOMAIN r.match |-> IF x \in r.private THEN NoNode ELSE r.match[x]]
<1>1. d = [r EXCEPT !.match = h, !.ok = TRUE, !.stale = (r.stale \cup (kept \ Matched(before))) \cap kept]
  BY DEF discard
<1>2. h \in [Everything(e.q) -> Everything(e.g) \cup {NoNode}]
  BY StateFields
<1>3. kept \subseteq Everything(e.q)
  BY StateFields
<1>4. \A x \in Everything(e.q) : h[x] = IF x \in r.private THEN NoNode ELSE r.match[x]
  BY StateFields
<1> HIDE DEF h, kept
<1>5. /\ d \in SearchStates(e) /\ d.private = r.private /\ d.ok = TRUE /\ d.beyond = r.beyond
      /\ d.match = h /\ d.stale = (r.stale \cup (kept \ Matched(before))) \cap kept
  BY <1>1, <1>2, <1>3 DEF SearchStates
<1> HIDE DEF d
<1>6. Matched(d) = {x \in Everything(e.q) : h[x] # NoNode}
  BY <1>5, StateFields
<1>7. kept = {x \in Everything(e.q) : r.match[x] # NoNode} \ r.private
  BY StateFields DEF kept
<1>8. Matched(d) = kept
  BY <1>4, <1>6, <1>7
<1>9. \A x \in kept : d.match[x] = r.match[x]
  BY <1>4, <1>5, <1>7
<1> QED BY <1>5, <1>8, <1>9 DEF d, kept, Discarded

-----------------------------------------------------------------------------
(* search_recurse, one level deeper, returns a state. *)
LEMMA RecurseType ==
  ASSUME NEW e, NEW below \in [Calls(e) -> SearchStates(e)],
         NEW ref \in Everything(e.q), NEW n \in Everything(e.g), NEW st \in SearchStates(e)
  PROVE  search_recurse(below, ref, n, st) \in SearchStates(e)
<1> DEFINE c == [ref |-> ref, n |-> n, st |-> st]
<1>1. c \in Calls(e)
  BY DEF Calls
<1> HIDE DEF c
<1>2. below[c] \in SearchStates(e)
  BY <1>1
<1> QED BY <1>2 DEF search_recurse, c

LEMMA OperationTypes ==
  ASSUME NEW e, NEW st \in SearchStates(e)
  PROVE  /\ Fail(st) \in SearchStates(e) /\ Overrun(st) \in SearchStates(e) /\ Enter(st) \in SearchStates(e)
         /\ \A r \in SearchStates(e) : Leave(st, r) \in SearchStates(e)
BY DEF Fail, Overrun, Enter, Leave, SearchStates

LEMMA MatchNextType ==
  ASSUME NEW e, NEW below \in [Calls(e) -> SearchStates(e)],
         NEW refs \in Seq(Everything(e.q)), NEW ns \in Seq(Everything(e.g)),
         NEW st \in SearchStates(e), NEW i \in 1 .. Len(refs)
  PROVE  MatchNext(below, refs, ns, st, i) \in SearchStates(e)
<1>1. refs[i] \in Everything(e.q)
  OBVIOUS
<1>2. CASE ~ Goes(st)   BY <1>2 DEF MatchNext
<1>3. CASE Goes(st) /\ i > Len(ns)
  <2>1. MatchNext(below, refs, ns, st, i) = Overrun(st)
    BY <1>3 DEF MatchNext
  <2> QED BY <2>1, OperationTypes
<1>4. CASE Goes(st) /\ ~ (i > Len(ns))
  <2>1. MatchNext(below, refs, ns, st, i) = search_recurse(below, refs[i], ns[i], st)
    BY <1>4 DEF MatchNext
  <2>2. ns[i] \in Everything(e.g)
    BY <1>4
  <2> QED BY <1>1, <2>1, <2>2, RecurseType
<1> QED BY <1>2, <1>3, <1>4

(* The turns of MatchAll. *)
MatchTurns(f, below, refs, ns, st) ==
  f[0] = st /\ \A i \in 1 .. Len(refs) : f[i] = MatchNext(below, refs, ns, f[i - 1], i)

LEMMA MatchAllUnfolds ==
  ASSUME NEW e, NEW below \in [Calls(e) -> SearchStates(e)],
         NEW refs \in Seq(Everything(e.q)), NEW ns \in Seq(Everything(e.g)), NEW st \in SearchStates(e)
  PROVE  \E f : MatchTurns(f, below, refs, ns, st) /\ MatchAll(below, refs, ns, st) = f[Len(refs)]
<1> DEFINE S == SearchStates(e)
           N == Len(refs)
           upto[i \in 0 .. N] == IF i = 0 THEN st ELSE MatchNext(below, refs, ns, upto[i - 1], i)
           F == [x \in (1 .. N) \X S |-> MatchNext(below, refs, ns, x[2], x[1])]
           Is(g) == g = [i \in 0 .. N |-> IF i = 0 THEN st ELSE MatchNext(below, refs, ns, g[i - 1], i)]
<1>0. N \in Nat /\ 0 \in 0 .. N /\ N \in 0 .. N
  OBVIOUS
<1>1. F \in [(1 .. N) \X S -> S]
  BY MatchNextType
<1>2. PICK f \in [0 .. N -> S] : Loop(f, N, st, F)
  <2> HIDE DEF F, S, N
  <2> QED BY <1>0, <1>1, LoopExists DEF S
<1>3. ASSUME NEW i \in 1 .. N PROVE f[i] = MatchNext(below, refs, ns, f[i - 1], i)
  <2>1. i - 1 \in 0 .. N
    BY <1>0
  <2>2. <<i, f[i - 1]>> \in (1 .. N) \X S
    BY <2>1
  <2>3. f[i] = F[<<i, f[i - 1]>>]
    BY <1>2 DEF Loop
  <2> HIDE DEF S, N
  <2> QED BY <2>2, <2>3
<1>4. Is(f)
  <2> SUFFICES ASSUME NEW i \in 0 .. N
               PROVE  f[i] = IF i = 0 THEN st ELSE MatchNext(below, refs, ns, f[i - 1], i)
    OBVIOUS
  <2>1. CASE i = 0   BY <2>1, <1>2 DEF Loop
  <2>2. CASE i # 0
    <3>1. i \in 1 .. N
      BY <2>2, <1>0
    <3> QED BY <2>2, <3>1, <1>3
  <2> QED BY <2>1, <2>2
<1>5. upto = CHOOSE g : Is(g)
  OBVIOUS
<1>6. Is(upto)
  <2> HIDE DEF upto, Is
  <2> QED BY <1>4, <1>5
<1>7. MatchAll(below, refs, ns, st) = upto[N]
  BY DEF MatchAll
<1>8. MatchTurns(upto, below, refs, ns, st)
  <2> HIDE DEF upto, N
  <2>1. upto[0] = st
    BY <1>6, <1>0
  <2>2. ASSUME NEW i \in 1 .. N PROVE upto[i] = MatchNext(below, refs, ns, upto[i - 1], i)
    <3>1. i \in 0 .. N /\ i # 0
      BY <1>0
    <3> QED BY <1>6, <3>1
  <2> QED BY <2>1, <2>2 DEF MatchTurns, N
<1> HIDE DEF upto
<1> QED BY <1>7, <1>8

(* One call that goes on makes ref and n correspond. *)
Done(e, k, h, ref, n) ==
  \/ ref \in DOMAIN e.q.nets /\ n \in DOMAIN e.g.nets /\ h[ref] = n
  \/ <<ref, n>> \in Pairs(e) /\ CorrespondsAt(e, h, k)[<<ref, n>>]

(* What the calls one level deeper do. *)
Hyp(e, k, below) ==
  /\ below \in [Calls(e) -> SearchStates(e)]
  /\ \A ref \in Everything(e.q), n \in Everything(e.g), st \in SearchStates(e) :
       Good(e, st) /\ Goes(st) =>
         /\ Stage(e, st, search_recurse(below, ref, n, st))
         /\ Goes(search_recurse(below, ref, n, st)) =>
              Done(e, k, search_recurse(below, ref, n, st).match, ref, n)

LEMMA HypUse ==
  ASSUME NEW e, NEW k, NEW below, Hyp(e, k, below),
         NEW ref \in Everything(e.q), NEW n \in Everything(e.g), NEW st, Good(e, st), Goes(st)
  PROVE  /\ Stage(e, st, search_recurse(below, ref, n, st))
         /\ Goes(search_recurse(below, ref, n, st)) =>
              Done(e, k, search_recurse(below, ref, n, st).match, ref, n)
BY DEF Hyp, Good

LEMMA DoneStays ==
  ASSUME NEW e, IsPair(e), NEW a, NEW b, Good(e, a), Stage(e, a, b), NEW k \in 0 .. MaxDepth,
         NEW ref, NEW n, Done(e, k, a.match, ref, n)
  PROVE  Done(e, k, b.match, ref, n)
<1>1. Extends(a.match, b.match)
  BY DEF Stage, Grows
<1>2. CASE ref \in DOMAIN e.q.nets /\ n \in DOMAIN e.g.nets /\ a.match[ref] = n
  <2>1. ref \in DOMAIN a.match /\ n # NoNode
    BY <1>2, StateFields DEF Good, Everything, IsPair, IsGraph
  <2> QED BY <1>1, <1>2, <2>1 DEF Done, Extends
<1>3. CASE <<ref, n>> \in Pairs(e) /\ CorrespondsAt(e, a.match, k)[<<ref, n>>]
  <2>1. CorrespondsAt(e, b.match, k)[<<ref, n>>]
    BY <1>1, <1>3, CorrespondenceStays
  <2> QED BY <1>3, <2>1 DEF Done
<1> QED BY <1>2, <1>3 DEF Done

(* MatchAll makes all that it is given correspond, or fails. *)
LEMMA MatchAllDone ==
  ASSUME NEW e, IsPair(e), NEW k \in 0 .. MaxDepth, NEW below, Hyp(e, k, below),
         NEW refs \in Seq(Everything(e.q)), NEW ns \in Seq(Everything(e.g)), NEW st, Good(e, st)
  PROVE  /\ Stage(e, st, MatchAll(below, refs, ns, st))
         /\ Goes(MatchAll(below, refs, ns, st)) =>
              /\ Len(refs) <= Len(ns)
              /\ \A i \in 1 .. Len(refs) : Done(e, k, MatchAll(below, refs, ns, st).match, refs[i], ns[i])
<1>0. st \in SearchStates(e) /\ below \in [Calls(e) -> SearchStates(e)] /\ Len(refs) \in Nat /\ Len(ns) \in Nat
  BY DEF Good, Hyp
<1>1. PICK f : MatchTurns(f, below, refs, ns, st) /\ MatchAll(below, refs, ns, st) = f[Len(refs)]
  BY <1>0, MatchAllUnfolds
<1> DEFINE Inv(i) == /\ Stage(e, st, f[i])
                     /\ Goes(f[i]) => i <= Len(ns) /\ \A j \in 1 .. i : Done(e, k, f[i].match, refs[j], ns[j])
           T == {i \in 0 .. Len(refs) : Inv(i)}
<1>2. 0 \in T
  <2>1. f[0] = st /\ Stage(e, st, st)
    BY <1>1, StageReflexive DEF MatchTurns
  <2> QED BY <2>1, <1>0
<1>3. \A i \in 1 .. Len(refs) : i - 1 \in T => i \in T
  <2> SUFFICES ASSUME NEW i \in 1 .. Len(refs), i - 1 \in T PROVE Inv(i)
    BY <1>0
  <2> DEFINE a == f[i - 1]
             b == f[i]
  <2>1. /\ Stage(e, st, a) /\ Good(e, a)
        /\ Goes(a) => i - 1 <= Len(ns) /\ \A j \in 1 .. i - 1 : Done(e, k, a.match, refs[j], ns[j])
    BY DEF Stage
  <2>2. b = MatchNext(below, refs, ns, a, i)
    BY <1>1 DEF MatchTurns
  <2> HIDE DEF a, b
  <2>3. CASE ~ Goes(a)
    <3>1. b = a
      BY <2>2, <2>3 DEF MatchNext
    <3> QED BY <2>1, <2>3, <3>1 DEF b
  <2>4. CASE Goes(a) /\ i > Len(ns)
    <3>1. b = Overrun(a)
      BY <2>2, <2>4 DEF MatchNext
    <3>2. Stage(e, a, b) /\ ~ Goes(b)
      BY <2>1, <3>1, OverrunFacts
    <3>3. Stage(e, st, b)
      BY <2>1, <3>2, StageTransitive
    <3> QED BY <3>2, <3>3 DEF b
  <2>5. CASE Goes(a) /\ ~ (i > Len(ns))
    <3>1. b = search_recurse(below, refs[i], ns[i], a)
      BY <2>2, <2>5 DEF MatchNext
    <3>2. refs[i] \in Everything(e.q) /\ ns[i] \in Everything(e.g) /\ i <= Len(ns)
      BY <2>5, <1>0
    <3>3. Stage(e, a, b) /\ (Goes(b) => Done(e, k, b.match, refs[i], ns[i]))
      BY <2>1, <2>5, <3>1, <3>2, HypUse
    <3>4. Stage(e, st, b)
      BY <2>1, <3>3, StageTransitive
    <3>5. ASSUME Goes(b), NEW j \in 1 .. i PROVE Done(e, k, b.match, refs[j], ns[j])
      <4>1. CASE j = i   BY <4>1, <3>3, <3>5
      <4>2. CASE j # i
        <5>1. j \in 1 .. i - 1
          BY <4>2
        <5>2. Done(e, k, a.match, refs[j], ns[j])
          BY <5>1, <2>1, <2>5
        <5> QED BY <5>2, <2>1, <3>3, DoneStays
      <4> QED BY <4>1, <4>2
    <3> QED BY <3>2, <3>4, <3>5 DEF b
  <2> QED BY <2>3, <2>4, <2>5
<1>4. Len(refs) \in T
  <2> HIDE DEF T
  <2>1. Len(refs) \in Nat
    BY <1>0
  <2> QED BY <2>1, <1>2, <1>3, AfterTheTurns
<1> QED BY <1>1, <1>4

-----------------------------------------------------------------------------
TryStates(e) == [done : BOOLEAN, st : SearchStates(e)]

LEMMA TryNextType ==
  ASSUME NEW e, NEW below \in [Calls(e) -> SearchStates(e)], NEW ref \in Everything(e.q),
         NEW items \in Seq(Everything(e.g)), NEW r \in TryStates(e), NEW i \in 1 .. Len(items)
  PROVE  TryNext(below, ref, items, r, i) \in TryStates(e)
<1>0. r.st \in SearchStates(e) /\ r.done \in BOOLEAN /\ items[i] \in Everything(e.g)
  BY DEF TryStates
<1>1. CASE r.done   BY <1>1 DEF TryNext
<1>2. CASE ~ r.done
  <2> DEFINE m == search_recurse(below, ref, items[i], r.st)
             d == discard(r.st, m)
  <2>1. m \in SearchStates(e)
    BY <1>0, RecurseType
  <2>2. d \in SearchStates(e)
    BY <2>1, <1>0, DiscardFields DEF Discarded
  <2>3. TryNext(below, ref, items, r, i) = Tried(r.st, m)
    BY <1>2 DEF TryNext
  <2> HIDE DEF m
  <2>4. Tried(r.st, m) = [done |-> TRUE, st |-> m] \/ Tried(r.st, m) = [done |-> FALSE, st |-> d]
    BY DEF Tried
  <2> HIDE DEF d
  <2>5. \A x \in SearchStates(e), y \in BOOLEAN : [done |-> y, st |-> x] \in TryStates(e)
    BY DEF TryStates
  <2>6. [done |-> TRUE, st |-> m] \in TryStates(e) /\ [done |-> FALSE, st |-> d] \in TryStates(e)
    BY <2>1, <2>2, <2>5
  <2>7. Tried(r.st, m) \in TryStates(e)
    BY <2>4, <2>6
  <2> QED BY <2>3, <2>7
<1> QED BY <1>0, <1>1, <1>2

(* The turns of match_any. *)
TryTurns(f, below, ref, items, st) ==
  f[0] = [done |-> FALSE, st |-> st] /\ \A i \in 1 .. Len(items) : f[i] = TryNext(below, ref, items, f[i - 1], i)

LEMMA MatchAnyUnfolds ==
  ASSUME NEW e, NEW below \in [Calls(e) -> SearchStates(e)], NEW ref \in Everything(e.q),
         NEW items \in Seq(Everything(e.g)), NEW st \in SearchStates(e)
  PROVE  \E f : TryTurns(f, below, ref, items, st) /\ match_any(below, ref, items, st) = Outcome(f[Len(items)])
<1> DEFINE S == TryStates(e)
           N == Len(items)
           b == [done |-> FALSE, st |-> st]
           upto[i \in 0 .. N] == IF i = 0 THEN [done |-> FALSE, st |-> st] ELSE TryNext(below, ref, items, upto[i - 1], i)
           F == [x \in (1 .. N) \X S |-> TryNext(below, ref, items, x[2], x[1])]
           Is(g) == g = [i \in 0 .. N |-> IF i = 0 THEN [done |-> FALSE, st |-> st]
                                          ELSE TryNext(below, ref, items, g[i - 1], i)]
<1>0. N \in Nat /\ 0 \in 0 .. N /\ N \in 0 .. N
  OBVIOUS
<1>1. F \in [(1 .. N) \X S -> S]
  BY TryNextType
<1>2. PICK f \in [0 .. N -> S] : Loop(f, N, b, F)
  <2>1. b \in S
    BY DEF TryStates
  <2> HIDE DEF F, S, N, b
  <2> QED BY <1>0, <1>1, <2>1, LoopExists
<1>3. ASSUME NEW i \in 1 .. N PROVE f[i] = TryNext(below, ref, items, f[i - 1], i)
  <2>1. i - 1 \in 0 .. N
    BY <1>0
  <2>2. <<i, f[i - 1]>> \in (1 .. N) \X S
    BY <2>1
  <2>3. f[i] = F[<<i, f[i - 1]>>]
    BY <1>2 DEF Loop
  <2> HIDE DEF S, N
  <2> QED BY <2>2, <2>3
<1>4. Is(f)
  <2> SUFFICES ASSUME NEW i \in 0 .. N
               PROVE  f[i] = IF i = 0 THEN b ELSE TryNext(below, ref, items, f[i - 1], i)
    OBVIOUS
  <2>1. CASE i = 0   BY <2>1, <1>2 DEF Loop
  <2>2. CASE i # 0
    <3>1. i \in 1 .. N
      BY <2>2, <1>0
    <3> QED BY <2>2, <3>1, <1>3
  <2> QED BY <2>1, <2>2
<1>5. upto = CHOOSE g : Is(g)
  OBVIOUS
<1>6. Is(upto)
  <2> HIDE DEF upto, Is
  <2> QED BY <1>4, <1>5
<1>7. match_any(below, ref, items, st) = Outcome(upto[N])
  BY DEF match_any
<1>8. TryTurns(upto, below, ref, items, st)
  <2> HIDE DEF upto, N
  <2>1. upto[0] = b
    BY <1>6, <1>0
  <2>2. ASSUME NEW i \in 1 .. N PROVE upto[i] = TryNext(below, ref, items, upto[i - 1], i)
    <3>1. i \in 0 .. N /\ i # 0
      BY <1>0
    <3> QED BY <1>6, <3>1
  <2> QED BY <2>1, <2>2 DEF TryTurns, N
<1> HIDE DEF upto
<1> QED BY <1>7, <1>8

(* After the discard of a failed try, what the try itself has inserted is  *)
(* gone, and the rest of what it has left is stale.                        *)
LEMMA DiscardFacts ==
  ASSUME NEW e, IsPair(e), NEW st, NEW s, NEW m, Stage(e, st, s), Goes(s), s.private \cap Matched(s) = {},
         Stage(e, s, m), ~ m.beyond
  PROVE  /\ Stage(e, st, discard(s, m)) /\ Goes(discard(s, m))
         /\ discard(s, m).private \cap Matched(discard(s, m)) = {}
<1> DEFINE d == discard(s, m)
           kept == Matched(m) \ m.private
<1>0. /\ s \in SearchStates(e) /\ m \in SearchStates(e) /\ Good(e, m) /\ Good(e, s)
      /\ Grows(st, s) /\ Grows(s, m) /\ Goes(st) /\ Sound(e, st, s)
  BY DEF Stage, Good
<1>1. /\ d \in SearchStates(e) /\ d.private = m.private /\ d.ok = TRUE /\ d.beyond = m.beyond
      /\ Matched(d) = kept /\ (\A x \in kept : d.match[x] = m.match[x])
      /\ d.stale = (m.stale \cup (kept \ Matched(s))) \cap kept
  <2>1. s \in SearchStates(e) /\ m \in SearchStates(e)
    BY <1>0
  <2>2. Discarded(e, s, m, d)
    BY <2>1, DiscardFields
  <2> QED BY <2>2 DEF Discarded
<1>2. Matched(st) \subseteq Matched(s) /\ Matched(s) \subseteq Matched(m)
  BY <1>0, GrowsMatched
<1>3. m.private \cap Matched(s) = {}
  BY <1>0 DEF Grows
<1>4. Matched(s) \subseteq kept
  BY <1>2, <1>3
<1> HIDE DEF d
<1>5. Extends(s.match, d.match)
  <2> SUFFICES ASSUME NEW x \in DOMAIN s.match, s.match[x] # NoNode
               PROVE  x \in DOMAIN d.match /\ d.match[x] = s.match[x]
    BY DEF Extends
  <2>1. x \in Matched(s)
    BY DEF Matched
  <2>2. x \in kept /\ d.match[x] = m.match[x]
    BY <1>1, <1>4, <2>1
  <2>3. m.match[x] = s.match[x]
    BY <1>0 DEF Grows, Extends
  <2>4. x \in DOMAIN d.match
    BY <1>1, <2>2 DEF Matched
  <2> QED BY <2>2, <2>3, <2>4
<1>6. Grows(st, d)
  <2>1. Extends(st.match, d.match)
    BY <1>0, <1>5, ExtendsTransitive DEF Grows
  <2>2. st.stale \subseteq d.stale
    BY <1>0, <1>1, <1>2, <1>4 DEF Grows, Stage, Good
  <2> QED BY <2>1, <2>2, <1>1, <1>2, <1>3 DEF Grows
<1>7. Good(e, d)
  BY <1>1 DEF Good
<1>8. Goes(d)
  BY <1>1 DEF Goes
<1>9. Sound(e, st, d)
  <2> SUFFICES ASSUME NEW x \in Matched(d) \ (Matched(st) \cup d.stale) PROVE ImageOf(e.q, e.g, d.match, x)
    BY DEF Sound
  <2>1. x \in Matched(s) /\ x \notin m.stale
    BY <1>1
  <2>2. x \notin s.stale
    BY <2>1, <1>0 DEF Grows
  <2>3. ImageOf(e.q, e.g, s.match, x)
    BY <2>1, <2>2, <1>0 DEF Sound
  <2>4. x \in DOMAIN s.match
    BY <2>1 DEF Matched
  <2> QED BY <2>3, <2>4, <1>5, ImageStays
<1>10. d.private \cap Matched(d) = {}
  BY <1>1
<1> QED BY <1>0, <1>6, <1>7, <1>8, <1>9, <1>10 DEF Stage, d

(* match_any makes ref correspond to one of the items, or fails, and takes *)
(* back what it has inserted itself.                                       *)
LEMMA MatchAnyDone ==
  ASSUME NEW e, IsPair(e), NEW k \in 0 .. MaxDepth, NEW below, Hyp(e, k, below), NEW ref \in Everything(e.q),
         NEW items \in Seq(Everything(e.g)), NEW st, Good(e, st), Goes(st), st.private = {}
  PROVE  /\ Stage(e, st, match_any(below, ref, items, st))
         /\ Goes(match_any(below, ref, items, st)) =>
              \E j \in 1 .. Len(items) : Done(e, k, match_any(below, ref, items, st).match, ref, items[j])
<1>0. st \in SearchStates(e) /\ below \in [Calls(e) -> SearchStates(e)] /\ Len(items) \in Nat
  BY DEF Good, Hyp
<1>1. PICK f : TryTurns(f, below, ref, items, st) /\ match_any(below, ref, items, st) = Outcome(f[Len(items)])
  BY <1>0, MatchAnyUnfolds
<1> DEFINE Inv(r) == /\ Stage(e, st, r.st)
                     /\ r.done => (Goes(r.st) => \E j \in 1 .. Len(items) : Done(e, k, r.st.match, ref, items[j]))
                     /\ ~ r.done => Goes(r.st) /\ r.st.private \cap Matched(r.st) = {}
           T == {i \in 0 .. Len(items) : Inv(f[i])}
<1>2. 0 \in T
  <2>1. f[0].st = st /\ ~ f[0].done /\ Stage(e, st, st)
    BY <1>1, StageReflexive DEF TryTurns
  <2> QED BY <2>1, <1>0
<1>3. \A i \in 1 .. Len(items) : i - 1 \in T => i \in T
  <2> SUFFICES ASSUME NEW i \in 1 .. Len(items), i - 1 \in T PROVE Inv(f[i])
    BY <1>0
  <2> DEFINE a == f[i - 1]
             b == f[i]
  <2>1. Inv(a)
    OBVIOUS
  <2>2. b = TryNext(below, ref, items, a, i)
    BY <1>1 DEF TryTurns
  <2> HIDE DEF a, b
  <2>3. CASE a.done
    <3>1. b = a
      BY <2>2, <2>3 DEF TryNext
    <3> QED BY <2>1, <3>1 DEF b
  <2>4. CASE ~ a.done
    <3> DEFINE s == a.st
               m == search_recurse(below, ref, items[i], s)
               d == discard(s, m)
    <3>1. b = Tried(s, m)
      BY <2>2, <2>4 DEF TryNext
    <3>2. Stage(e, st, s) /\ Goes(s) /\ Good(e, s) /\ s.private \cap Matched(s) = {}
      BY <2>1, <2>4 DEF Stage
    <3>3. items[i] \in Everything(e.g)
      OBVIOUS
    <3> HIDE DEF s
    <3>4. Stage(e, s, m) /\ (Goes(m) => Done(e, k, m.match, ref, items[i]))
      BY <3>2, <3>3, HypUse
    <3> HIDE DEF m
    <3>5. Stage(e, st, m)
      BY <3>2, <3>4, StageTransitive
    <3>6. CASE Goes(m) \/ m.beyond
      <4>1. b = [done |-> TRUE, st |-> m]
        BY <3>1, <3>6 DEF Tried
      <4>2. b.done /\ b.st = m
        BY <4>1
      <4>3. Goes(m) => \E j \in 1 .. Len(items) : Done(e, k, m.match, ref, items[j])
        BY <3>4
      <4>4. Inv(b)
        BY <4>2, <4>3, <3>5
      <4> QED BY <4>4 DEF b
    <3>7. CASE ~ (Goes(m) \/ m.beyond)
      <4>1. b = [done |-> FALSE, st |-> d]
        BY <3>1, <3>7 DEF Tried
      <4>2. ~ b.done /\ b.st = d
        BY <4>1
      <4>3. Stage(e, st, d) /\ Goes(d) /\ d.private \cap Matched(d) = {}
        BY <3>2, <3>4, <3>7, DiscardFacts
      <4> HIDE DEF d
      <4>4. Inv(b)
        BY <4>2, <4>3
      <4> QED BY <4>4 DEF b
    <3> QED BY <3>6, <3>7
  <2> QED BY <2>3, <2>4
<1>4. Len(items) \in T
  <2> HIDE DEF T
  <2>1. Len(items) \in Nat
    BY <1>0
  <2> QED BY <2>1, <1>2, <1>3, AfterTheTurns
<1> DEFINE last == f[Len(items)]
           r == match_any(below, ref, items, st)
<1>5. Inv(last) /\ r = Outcome(last)
  BY <1>1, <1>4
<1> HIDE DEF last
<1>6. CASE last.done
  <2>1. r = last.st
    BY <1>5, <1>6 DEF Outcome
  <2> HIDE DEF r
  <2> QED BY <2>1, <1>5, <1>6 DEF r
<1>7. CASE ~ last.done
  <2>1. r = Fail(last.st)
    BY <1>5, <1>7 DEF Outcome
  <2>2. Stage(e, st, last.st) /\ Good(e, last.st)
    BY <1>5 DEF Stage
  <2>3. Stage(e, last.st, Fail(last.st)) /\ ~ Goes(Fail(last.st))
    BY <2>2, FailFacts
  <2>4. Stage(e, st, Fail(last.st))
    BY <2>2, <2>3, StageTransitive
  <2> HIDE DEF r
  <2> QED BY <2>1, <2>3, <2>4 DEF r
<1> QED BY <1>6, <1>7

-----------------------------------------------------------------------------
LEMMA MatchAnyType ==
  ASSUME NEW e, NEW below \in [Calls(e) -> SearchStates(e)], NEW ref \in Everything(e.q),
         NEW items \in Seq(Everything(e.g)), NEW st \in SearchStates(e)
  PROVE  match_any(below, ref, items, st) \in SearchStates(e)
<1>0. Len(items) \in Nat
  OBVIOUS
<1>1. PICK f : TryTurns(f, below, ref, items, st) /\ match_any(below, ref, items, st) = Outcome(f[Len(items)])
  BY MatchAnyUnfolds
<1> DEFINE T == {i \in 0 .. Len(items) : f[i] \in TryStates(e)}
<1>2. 0 \in T
  <2>1. f[0] = [done |-> FALSE, st |-> st]
    BY <1>1 DEF TryTurns
  <2>2. [done |-> FALSE, st |-> st] \in TryStates(e)
    BY DEF TryStates
  <2>3. f[0] \in TryStates(e)
    BY <2>1, <2>2
  <2> QED BY <1>0, <2>3
<1>3. \A i \in 1 .. Len(items) : i - 1 \in T => i \in T
  <2> SUFFICES ASSUME NEW i \in 1 .. Len(items), i - 1 \in T PROVE f[i] \in TryStates(e)
    BY <1>0
  <2>1. f[i] = TryNext(below, ref, items, f[i - 1], i)
    BY <1>1 DEF TryTurns
  <2>2. f[i - 1] \in TryStates(e)
    OBVIOUS
  <2> QED BY <2>1, <2>2, TryNextType
<1>4. Len(items) \in T
  <2> HIDE DEF T
  <2> QED BY <1>0, <1>2, <1>3, AfterTheTurns
<1>5. f[Len(items)].st \in SearchStates(e)
  BY <1>4 DEF TryStates
<1>6. Fail(f[Len(items)].st) \in SearchStates(e)
  BY <1>5, OperationTypes
<1> QED BY <1>1, <1>5, <1>6 DEF Outcome

LEMMA PairNextType ==
  ASSUME NEW e, NEW below \in [Calls(e) -> SearchStates(e)], NEW ref \in Seq(Everything(e.q)),
         NEW graphIo \in Seq(Everything(e.g)), NEW st \in SearchStates(e), NEW i \in 1 .. Len(ref)
  PROVE  PairNext(below, ref, graphIo, st, i) \in SearchStates(e)
<1>1. ref[i] \in Everything(e.q) /\ Enter(st) \in SearchStates(e)
  BY OperationTypes
<1>2. match_any(below, ref[i], graphIo, Enter(st)) \in SearchStates(e)
  BY <1>1, MatchAnyType
<1>3. Leave(st, match_any(below, ref[i], graphIo, Enter(st))) \in SearchStates(e)
  BY <1>2, OperationTypes
<1> QED BY <1>3 DEF PairNext

(* The turns of PairAll. *)
PairTurns(f, below, ref, graphIo, st) ==
  f[0] = st /\ \A i \in 1 .. Len(ref) : f[i] = PairNext(below, ref, graphIo, f[i - 1], i)

LEMMA PairAllUnfolds ==
  ASSUME NEW e, NEW below \in [Calls(e) -> SearchStates(e)], NEW ref \in Seq(Everything(e.q)),
         NEW graphIo \in Seq(Everything(e.g)), NEW st \in SearchStates(e)
  PROVE  \E f : PairTurns(f, below, ref, graphIo, st) /\ PairAll(below, ref, graphIo, st) = f[Len(ref)]
<1> DEFINE S == SearchStates(e)
           N == Len(ref)
           upto[i \in 0 .. N] == IF i = 0 THEN st ELSE PairNext(below, ref, graphIo, upto[i - 1], i)
           F == [x \in (1 .. N) \X S |-> PairNext(below, ref, graphIo, x[2], x[1])]
           Is(g) == g = [i \in 0 .. N |-> IF i = 0 THEN st ELSE PairNext(below, ref, graphIo, g[i - 1], i)]
<1>0. N \in Nat /\ 0 \in 0 .. N /\ N \in 0 .. N
  OBVIOUS
<1>1. F \in [(1 .. N) \X S -> S]
  BY PairNextType
<1>2. PICK f \in [0 .. N -> S] : Loop(f, N, st, F)
  <2>1. st \in S
    OBVIOUS
  <2> HIDE DEF F, S, N
  <2> QED BY <1>0, <1>1, <2>1, LoopExists
<1>3. ASSUME NEW i \in 1 .. N PROVE f[i] = PairNext(below, ref, graphIo, f[i - 1], i)
  <2>1. i - 1 \in 0 .. N
    BY <1>0
  <2>2. <<i, f[i - 1]>> \in (1 .. N) \X S
    BY <2>1
  <2>3. f[i] = F[<<i, f[i - 1]>>]
    BY <1>2 DEF Loop
  <2> HIDE DEF S, N
  <2> QED BY <2>2, <2>3
<1>4. Is(f)
  <2> SUFFICES ASSUME NEW i \in 0 .. N
               PROVE  f[i] = IF i = 0 THEN st ELSE PairNext(below, ref, graphIo, f[i - 1], i)
    OBVIOUS
  <2>1. CASE i = 0   BY <2>1, <1>2 DEF Loop
  <2>2. CASE i # 0
    <3>1. i \in 1 .. N
      BY <2>2, <1>0
    <3> QED BY <2>2, <3>1, <1>3
  <2> QED BY <2>1, <2>2
<1>5. upto = CHOOSE g : Is(g)
  OBVIOUS
<1>6. Is(upto)
  <2> HIDE DEF upto, Is
  <2> QED BY <1>4, <1>5
<1>7. PairAll(below, ref, graphIo, st) = upto[N]
  BY DEF PairAll
<1>8. PairTurns(upto, below, ref, graphIo, st)
  <2> HIDE DEF upto, N
  <2>1. upto[0] = st
    BY <1>6, <1>0
  <2>2. ASSUME NEW i \in 1 .. N PROVE upto[i] = PairNext(below, ref, graphIo, upto[i - 1], i)
    <3>1. i \in 0 .. N /\ i # 0
      BY <1>0
    <3> QED BY <1>6, <3>1
  <2> QED BY <2>1, <2>2 DEF PairTurns, N
<1> HIDE DEF upto
<1> QED BY <1>7, <1>8

(* PairAll makes every one of ref correspond to one of graphIo, or fails. *)
LEMMA PairAllDone ==
  ASSUME NEW e, IsPair(e), NEW k \in 0 .. MaxDepth, NEW below, Hyp(e, k, below),
         NEW ref \in Seq(Everything(e.q)), NEW graphIo \in Seq(Everything(e.g)), NEW st, Good(e, st)
  PROVE  /\ Stage(e, st, PairAll(below, ref, graphIo, st))
         /\ Goes(PairAll(below, ref, graphIo, st)) =>
              \A i \in 1 .. Len(ref) : \E j \in 1 .. Len(graphIo) :
                Done(e, k, PairAll(below, ref, graphIo, st).match, ref[i], graphIo[j])
<1>0. st \in SearchStates(e) /\ below \in [Calls(e) -> SearchStates(e)] /\ Len(ref) \in Nat /\ Len(graphIo) \in Nat
  BY DEF Good, Hyp
<1>1. PICK f : PairTurns(f, below, ref, graphIo, st) /\ PairAll(below, ref, graphIo, st) = f[Len(ref)]
  BY <1>0, PairAllUnfolds
<1> DEFINE Inv(i) == /\ Stage(e, st, f[i])
                     /\ Goes(f[i]) => \A l \in 1 .. i : \E j \in 1 .. Len(graphIo) :
                                        Done(e, k, f[i].match, ref[l], graphIo[j])
           T == {i \in 0 .. Len(ref) : Inv(i)}
<1>2. 0 \in T
  <2>1. f[0] = st /\ Stage(e, st, st)
    BY <1>1, StageReflexive DEF PairTurns
  <2> QED BY <2>1, <1>0
<1>3. \A i \in 1 .. Len(ref) : i - 1 \in T => i \in T
  <2> SUFFICES ASSUME NEW i \in 1 .. Len(ref), i - 1 \in T PROVE Inv(i)
    BY <1>0
  <2> DEFINE a == f[i - 1]
             b == f[i]
  <2>1. /\ Stage(e, st, a) /\ Good(e, a)
        /\ Goes(a) => \A l \in 1 .. i - 1 : \E j \in 1 .. Len(graphIo) : Done(e, k, a.match, ref[l], graphIo[j])
    BY DEF Stage
  <2>2. b = PairNext(below, ref, graphIo, a, i)
    BY <1>1 DEF PairTurns
  <2> HIDE DEF a, b
  <2>3. CASE ~ Goes(a)
    <3>1. b = a
      BY <2>2, <2>3 DEF PairNext
    <3> QED BY <2>1, <2>3, <3>1 DEF b
  <2>4. CASE Goes(a)
    <3> DEFINE c == Enter(a)
               r == match_any(below, ref[i], graphIo, c)
    <3>1. b = Leave(a, r)
      BY <2>2, <2>4 DEF PairNext
    <3>2. Good(e, c) /\ Goes(c) /\ c.private = {} /\ ref[i] \in Everything(e.q)
      <4>1. Good(e, c) /\ Goes(c) = Goes(a) /\ c.private = {}
        BY <2>1, EnterFacts
      <4>2. ref[i] \in Everything(e.q)
        OBVIOUS
      <4> HIDE DEF c
      <4> QED BY <4>1, <4>2, <2>4
    <3>3. /\ Stage(e, c, r)
          /\ Goes(r) => \E j \in 1 .. Len(graphIo) : Done(e, k, r.match, ref[i], graphIo[j])
      <4> HIDE DEF c
      <4> QED BY <3>2, MatchAnyDone
    <3> HIDE DEF r
    <3>4. Stage(e, a, b) /\ b.match = r.match /\ Goes(b) = Goes(r)
      BY <2>1, <3>1, <3>3, LeaveFacts
    <3>5. Stage(e, st, b)
      BY <2>1, <3>4, StageTransitive
    <3>6. ASSUME Goes(b), NEW l \in 1 .. i
          PROVE  \E j \in 1 .. Len(graphIo) : Done(e, k, b.match, ref[l], graphIo[j])
      <4>1. CASE l = i   BY <4>1, <3>3, <3>4, <3>6
      <4>2. CASE l # i
        <5>1. l \in 1 .. i - 1
          BY <4>2
        <5>2. PICK j \in 1 .. Len(graphIo) : Done(e, k, a.match, ref[l], graphIo[j])
          BY <5>1, <2>1, <2>4
        <5>3. Done(e, k, b.match, ref[l], graphIo[j])
          BY <5>2, <2>1, <3>4, DoneStays
        <5> QED BY <5>3
      <4> QED BY <4>1, <4>2
    <3> QED BY <3>5, <3>6 DEF b
  <2> QED BY <2>3, <2>4
<1>4. Len(ref) \in T
  <2> HIDE DEF T
  <2>1. Len(ref) \in Nat
    BY <1>0
  <2> QED BY <2>1, <1>2, <1>3, AfterTheTurns
<1> QED BY <1>1, <1>4

-----------------------------------------------------------------------------
(* The rest of the types. *)
LEMMA MatchAllType ==
  ASSUME NEW e, NEW below \in [Calls(e) -> SearchStates(e)],
         NEW refs \in Seq(Everything(e.q)), NEW ns \in Seq(Everything(e.g)), NEW st \in SearchStates(e)
  PROVE  MatchAll(below, refs, ns, st) \in SearchStates(e)
<1>0. Len(refs) \in Nat
  OBVIOUS
<1>1. PICK f : MatchTurns(f, below, refs, ns, st) /\ MatchAll(below, refs, ns, st) = f[Len(refs)]
  BY MatchAllUnfolds
<1> DEFINE T == {i \in 0 .. Len(refs) : f[i] \in SearchStates(e)}
<1>2. 0 \in T
  BY <1>0, <1>1 DEF MatchTurns
<1>3. \A i \in 1 .. Len(refs) : i - 1 \in T => i \in T
  <2> SUFFICES ASSUME NEW i \in 1 .. Len(refs), i - 1 \in T PROVE f[i] \in SearchStates(e)
    BY <1>0
  <2>1. f[i] = MatchNext(below, refs, ns, f[i - 1], i)
    BY <1>1 DEF MatchTurns
  <2>2. f[i - 1] \in SearchStates(e)
    OBVIOUS
  <2> QED BY <2>1, <2>2, MatchNextType
<1>4. Len(refs) \in T
  <2> HIDE DEF T
  <2> QED BY <1>0, <1>2, <1>3, AfterTheTurns
<1> QED BY <1>1, <1>4

LEMMA PairAllType ==
  ASSUME NEW e, NEW below \in [Calls(e) -> SearchStates(e)], NEW ref \in Seq(Everything(e.q)),
         NEW graphIo \in Seq(Everything(e.g)), NEW st \in SearchStates(e)
  PROVE  PairAll(below, ref, graphIo, st) \in SearchStates(e)
<1>0. Len(ref) \in Nat
  OBVIOUS
<1>1. PICK f : PairTurns(f, below, ref, graphIo, st) /\ PairAll(below, ref, graphIo, st) = f[Len(ref)]
  BY PairAllUnfolds
<1> DEFINE T == {i \in 0 .. Len(ref) : f[i] \in SearchStates(e)}
<1>2. 0 \in T
  BY <1>0, <1>1 DEF PairTurns
<1>3. \A i \in 1 .. Len(ref) : i - 1 \in T => i \in T
  <2> SUFFICES ASSUME NEW i \in 1 .. Len(ref), i - 1 \in T PROVE f[i] \in SearchStates(e)
    BY <1>0
  <2>1. f[i] = PairNext(below, ref, graphIo, f[i - 1], i)
    BY <1>1 DEF PairTurns
  <2>2. f[i - 1] \in SearchStates(e)
    OBVIOUS
  <2> QED BY <2>1, <2>2, PairNextType
<1>4. Len(ref) \in T
  <2> HIDE DEF T
  <2> QED BY <1>0, <1>2, <1>3, AfterTheTurns
<1> QED BY <1>1, <1>4

LEMMA UnassignedFacts ==
  ASSUME NEW e, IsPair(e), NEW ref, NEW st \in SearchStates(e)
  PROVE  /\ Unassigned(e, ref, st) \in SearchStates(e)
         /\ Unassigned(e, ref, st).match = st.match /\ Unassigned(e, ref, st).stale = st.stale
         /\ Unassigned(e, ref, st).private = st.private /\ Unassigned(e, ref, st).beyond = st.beyond
BY DEF Unassigned, SearchStates, IsPair

LEMMA PermutationType ==
  ASSUME NEW e, IsPair(e), NEW below \in [Calls(e) -> SearchStates(e)], NEW ref \in Seq(Everything(e.q)),
         NEW graphIo \in Seq(Everything(e.g)), NEW st \in SearchStates(e), NEW more \in BOOLEAN
  PROVE  find_matching_permutation(e, below, ref, graphIo, st, more) \in SearchStates(e)
<1>1. Fail(st) \in SearchStates(e)
  BY OperationTypes
<1>2. Unassigned(e, ref, st) \in SearchStates(e)
  BY UnassignedFacts
<1>3. PairAll(below, ref, graphIo, Unassigned(e, ref, st)) \in SearchStates(e)
  BY <1>2, PairAllType
<1> QED BY <1>1, <1>3 DEF find_matching_permutation

LEMMA InsertType ==
  ASSUME NEW e, NEW st \in SearchStates(e), NEW ref \in Everything(e.q), NEW n \in Everything(e.g)
  PROVE  insert_match(st, ref, n) \in SearchStates(e)
<1> DEFINE h == [st.match EXCEPT ![ref] = n]
           p == st.private \cup {ref}
<1>1. h \in [Everything(e.q) -> Everything(e.g) \cup {NoNode}] /\ p \in SUBSET Everything(e.q)
  BY StateFields
<1>2. insert_match(st, ref, n) = st \/ insert_match(st, ref, n) = [st EXCEPT !.match = h, !.private = p]
  BY DEF insert_match
<1> HIDE DEF h, p
<1>3. [st EXCEPT !.match = h, !.private = p] \in SearchStates(e)
  BY <1>1 DEF SearchStates
<1> QED BY <1>2, <1>3

(* The lists of a net are lists of nodes. *)
LEMMA NetFacts ==
  ASSUME NEW G, IsGraph(G), NEW n \in DOMAIN G.nets
  PROVE  /\ G.nets[n].direction \in {"in", "out", "unknown"}
         /\ G.nets[n].drivers \in Seq(DOMAIN G.nodes) /\ G.nets[n].endpoints \in Seq(DOMAIN G.nodes)
         /\ G.nets[n].drivers \in Seq(Everything(G)) /\ G.nets[n].endpoints \in Seq(Everything(G))
         /\ n \in Everything(G)
<1>1. DOMAIN G.nodes \subseteq Everything(G) /\ n \in Everything(G)
  BY DEF Everything
<1>2. \A s \in Seq(DOMAIN G.nodes) : s \in Seq(Everything(G))
  BY <1>1
<1>3. /\ G.nets[n].direction \in {"in", "out", "unknown"}
      /\ G.nets[n].drivers \in Seq(DOMAIN G.nodes) /\ G.nets[n].endpoints \in Seq(DOMAIN G.nodes)
  BY DEF IsGraph
<1> QED BY <1>1, <1>2, <1>3

LEMMA MatchIoType ==
  ASSUME NEW e, IsPair(e), NEW below \in [Calls(e) -> SearchStates(e)],
         NEW ref \in DOMAIN e.q.nets, NEW n \in DOMAIN e.g.nets, NEW st \in SearchStates(e)
  PROVE  match_io(e, below, e.q.nets[ref], e.g.nets[n], st) \in SearchStates(e)
<1> DEFINE r == e.q.nets[ref]
           g == e.g.nets[n]
           d == match_drivers(e, below, r, g, Enter(st))
           p == match_endpoints(e, below, r, g, d)
<1>1. /\ r.drivers \in Seq(Everything(e.q)) /\ r.endpoints \in Seq(Everything(e.q))
      /\ g.drivers \in Seq(Everything(e.g)) /\ g.endpoints \in Seq(Everything(e.g))
  BY NetFacts DEF IsPair
<1>2. Enter(st) \in SearchStates(e)
  BY OperationTypes
<1> HIDE DEF r, g
<1>3. d \in SearchStates(e)
  BY <1>1, <1>2, PermutationType DEF match_drivers
<1> HIDE DEF d
<1>4. p \in SearchStates(e)
  BY <1>1, <1>3, PermutationType DEF match_endpoints
<1> HIDE DEF p
<1>5. Leave(st, p) \in SearchStates(e)
  BY <1>4, OperationTypes
<1> QED BY <1>5 DEF match_io, r, g, d, p

LEMMA MatchNetType ==
  ASSUME NEW e, IsPair(e), NEW below \in [Calls(e) -> SearchStates(e)],
         NEW ref \in DOMAIN e.q.nets, NEW n \in DOMAIN e.g.nets, NEW st \in SearchStates(e)
  PROVE  match_net(e, below, ref, n, st) \in SearchStates(e)
<1>1. ref \in Everything(e.q) /\ n \in Everything(e.g)
  BY DEF Everything
<1>2. insert_match(st, ref, n) \in SearchStates(e)
  BY <1>1, InsertType
<1>3. Fail(st) \in SearchStates(e) /\ Fail(insert_match(st, ref, n)) \in SearchStates(e)
  BY <1>2, OperationTypes
<1>4. match_io(e, below, e.q.nets[ref], e.g.nets[n], insert_match(st, ref, n)) \in SearchStates(e)
  BY <1>2, MatchIoType
<1> QED BY <1>2, <1>3, <1>4 DEF match_net

(* The operands of a node are lists of nets, its arms lists of nodes. *)
LEMMA OperandFacts ==
  ASSUME NEW G, IsGraph(G)
  PROVE  /\ \A s \in Seq(DOMAIN G.nets) : s \in Seq(Everything(G))
         /\ \A s \in Seq(DOMAIN G.nodes) : s \in Seq(Everything(G))
         /\ \A x \in DOMAIN G.nets, y \in DOMAIN G.nets : <<x, y>> \in Seq(DOMAIN G.nets)
         /\ \A x \in DOMAIN G.nets : <<x>> \in Seq(DOMAIN G.nets)
         /\ \A x \in DOMAIN G.nets, s \in Seq(DOMAIN G.nets) : <<x>> \o s \in Seq(DOMAIN G.nets)
<1>1. DOMAIN G.nodes \subseteq Everything(G) /\ DOMAIN G.nets \subseteq Everything(G)
  BY DEF Everything
<1>2. /\ \A s \in Seq(DOMAIN G.nets) : s \in Seq(Everything(G))
      /\ \A s \in Seq(DOMAIN G.nodes) : s \in Seq(Everything(G))
  BY <1>1
<1>3. \A x \in DOMAIN G.nets, y \in DOMAIN G.nets : <<x, y>> \in Seq(DOMAIN G.nets)
  BY TwoOf
<1>4. \A x \in DOMAIN G.nets : <<x>> \in Seq(DOMAIN G.nets)
  BY OneOf
<1>5. \A x \in DOMAIN G.nets, s \in Seq(DOMAIN G.nets) : <<x>> \o s \in Seq(DOMAIN G.nets)
  BY OneMore
<1> QED BY <1>2, <1>3, <1>4, <1>5

(* The lists that match_call and match_assignment give to MatchAll. *)
LEMMA CallLists ==
  ASSUME NEW e, IsPair(e), NEW ref \in DOMAIN e.q.nodes, NEW n \in DOMAIN e.g.nodes,
         e.q.nodes[ref].kind = "call", e.g.nodes[n].kind = "call"
  PROVE  /\ e.q.nodes[ref].args \in Seq(DOMAIN e.q.nets) /\ e.q.nodes[ref].res \in DOMAIN e.q.nets
         /\ e.g.nodes[n].args \in Seq(DOMAIN e.g.nets) /\ e.g.nodes[n].res \in DOMAIN e.g.nets
         /\ <<e.q.nodes[ref].res>> \o e.q.nodes[ref].args \in Seq(DOMAIN e.q.nets)
         /\ <<e.g.nodes[n].res>> \o e.g.nodes[n].args \in Seq(DOMAIN e.g.nets)
         /\ <<e.q.nodes[ref].res>> \o e.q.nodes[ref].args \in Seq(Everything(e.q))
         /\ <<e.g.nodes[n].res>> \o e.g.nodes[n].args \in Seq(Everything(e.g))
<1>0. IsGraph(e.q) /\ IsGraph(e.g)
  BY DEF IsPair
<1>1. /\ e.q.nodes[ref].args \in Seq(DOMAIN e.q.nets) /\ e.q.nodes[ref].res \in DOMAIN e.q.nets
      /\ e.g.nodes[n].args \in Seq(DOMAIN e.g.nets) /\ e.g.nodes[n].res \in DOMAIN e.g.nets
  BY <1>0, NodeFacts
<1>2. /\ <<e.q.nodes[ref].res>> \o e.q.nodes[ref].args \in Seq(DOMAIN e.q.nets)
      /\ <<e.g.nodes[n].res>> \o e.g.nodes[n].args \in Seq(DOMAIN e.g.nets)
  BY <1>0, <1>1, OperandFacts
<1> QED BY <1>0, <1>1, <1>2, OperandFacts

LEMMA AssignLists ==
  ASSUME NEW e, IsPair(e), NEW ref \in DOMAIN e.q.nodes, NEW n \in DOMAIN e.g.nodes,
         e.q.nodes[ref].kind = "assign", e.g.nodes[n].kind = "assign"
  PROVE  /\ <<e.q.nodes[ref].dst, e.q.nodes[ref].src>> \in Seq(DOMAIN e.q.nets)
         /\ <<e.g.nodes[n].dst, e.g.nodes[n].src>> \in Seq(DOMAIN e.g.nets)
         /\ <<e.q.nodes[ref].dst, e.q.nodes[ref].src>> \in Seq(Everything(e.q))
         /\ <<e.g.nodes[n].dst, e.g.nodes[n].src>> \in Seq(Everything(e.g))
<1>0. IsGraph(e.q) /\ IsGraph(e.g)
  BY DEF IsPair
<1>1. /\ e.q.nodes[ref].dst \in DOMAIN e.q.nets /\ e.q.nodes[ref].src \in DOMAIN e.q.nets
      /\ e.g.nodes[n].dst \in DOMAIN e.g.nets /\ e.g.nodes[n].src \in DOMAIN e.g.nets
  BY <1>0, NodeFacts
<1>2. /\ <<e.q.nodes[ref].dst, e.q.nodes[ref].src>> \in Seq(DOMAIN e.q.nets)
      /\ <<e.g.nodes[n].dst, e.g.nodes[n].src>> \in Seq(DOMAIN e.g.nets)
  BY <1>0, <1>1, OperandFacts
<1> QED BY <1>0, <1>2, OperandFacts

LEMMA MatchCallType ==
  ASSUME NEW e, IsPair(e), NEW below \in [Calls(e) -> SearchStates(e)],
         NEW ref \in DOMAIN e.q.nodes, NEW n \in DOMAIN e.g.nodes, NEW st \in SearchStates(e),
         e.q.nodes[ref].kind = "call", e.g.nodes[n].kind = "call"
  PROVE  match_call(e, below, ref, n, st) \in SearchStates(e)
<1> DEFINE refs == <<e.q.nodes[ref].res>> \o e.q.nodes[ref].args
           ns == <<e.g.nodes[n].res>> \o e.g.nodes[n].args
<1>1. refs \in Seq(Everything(e.q)) /\ ns \in Seq(Everything(e.g))
  BY CallLists
<1>2. Fail(st) \in SearchStates(e) /\ insert_match(st, ref, n) \in SearchStates(e)
  BY OperationTypes, InsertType DEF Everything
<1> HIDE DEF refs, ns
<1>3. MatchAll(below, refs, ns, insert_match(st, ref, n)) \in SearchStates(e)
  BY <1>1, <1>2, MatchAllType
<1> QED BY <1>2, <1>3 DEF match_call, refs, ns

LEMMA MatchAssignmentType ==
  ASSUME NEW e, IsPair(e), NEW below \in [Calls(e) -> SearchStates(e)],
         NEW ref \in DOMAIN e.q.nodes, NEW n \in DOMAIN e.g.nodes, NEW st \in SearchStates(e),
         e.q.nodes[ref].kind = "assign", e.g.nodes[n].kind = "assign"
  PROVE  match_assignment(below, e.q.nodes[ref], e.g.nodes[n], st) \in SearchStates(e)
<1> DEFINE refs == <<e.q.nodes[ref].dst, e.q.nodes[ref].src>>
           ns == <<e.g.nodes[n].dst, e.g.nodes[n].src>>
<1>1. refs \in Seq(Everything(e.q)) /\ ns \in Seq(Everything(e.g))
  BY AssignLists
<1> HIDE DEF refs, ns
<1>3. MatchAll(below, refs, ns, st) \in SearchStates(e)
  BY <1>1, MatchAllType
<1> QED BY <1>3 DEF match_assignment, refs, ns

(* The branches of two ifs with as many conditions. *)
LEMMA BranchLists ==
  ASSUME NEW e, IsPair(e), NEW ref \in DOMAIN e.q.nodes, NEW n \in DOMAIN e.g.nodes,
         e.q.nodes[ref].kind = "if", e.g.nodes[n].kind = "if",
         Len(e.q.nodes[ref].conds) = Len(e.g.nodes[n].conds), NEW i \in 1 .. Len(e.q.nodes[ref].conds)
  PROVE  LET r == e.q.nodes[ref]
             g == e.g.nodes[n]
             ga == IF i = 1 THEN Last(g.arms) ELSE g.arms[i]
         IN  /\ r.conds[i] \in DOMAIN e.q.nets /\ g.conds[i] \in DOMAIN e.g.nets
             /\ <<r.conds[i]>> \in Seq(Everything(e.q)) /\ <<g.conds[i]>> \in Seq(Everything(e.g))
             /\ r.arms[i] \in Seq(DOMAIN e.q.nodes) /\ ga \in Seq(DOMAIN e.g.nodes)
             /\ r.arms[i] \in Seq(Everything(e.q)) /\ ga \in Seq(Everything(e.g))
<1> DEFINE r == e.q.nodes[ref]
           g == e.g.nodes[n]
           ga == IF i = 1 THEN Last(g.arms) ELSE g.arms[i]
<1>0. IsGraph(e.q) /\ IsGraph(e.g)
  BY DEF IsPair
<1>1. i \in DOMAIN r.conds
  <2>1. r.conds \in Seq(DOMAIN e.q.nets)
    BY <1>0, NodeFacts
  <2> QED BY <2>1
<1>2. /\ r.conds[i] \in DOMAIN e.q.nets /\ g.conds[i] \in DOMAIN e.g.nets
      /\ r.arms[i] \in Seq(DOMAIN e.q.nodes) /\ ga \in Seq(DOMAIN e.g.nodes)
  BY <1>0, <1>1, ArmFacts
<1> HIDE DEF r, g, ga
<1>3. /\ r.conds[i] \in Everything(e.q) /\ g.conds[i] \in Everything(e.g)
  BY <1>2 DEF Everything
<1>4. <<r.conds[i]>> \in Seq(Everything(e.q)) /\ <<g.conds[i]>> \in Seq(Everything(e.g))
  BY <1>3, OneOf
<1>5. r.arms[i] \in Seq(Everything(e.q)) /\ ga \in Seq(Everything(e.g))
  BY <1>0, <1>2, OperandFacts
<1> QED BY <1>2, <1>4, <1>5 DEF r, g, ga

LEMMA BranchNextType ==
  ASSUME NEW e, IsPair(e), NEW below \in [Calls(e) -> SearchStates(e)],
         NEW ref \in DOMAIN e.q.nodes, NEW n \in DOMAIN e.g.nodes, NEW st \in SearchStates(e),
         e.q.nodes[ref].kind = "if", e.g.nodes[n].kind = "if",
         Len(e.q.nodes[ref].conds) = Len(e.g.nodes[n].conds), NEW i \in 1 .. Len(e.q.nodes[ref].conds)
  PROVE  BranchNext(below, e.q.nodes[ref], e.g.nodes[n], st, i) \in SearchStates(e)
<1> DEFINE r == e.q.nodes[ref]
           g == e.g.nodes[n]
           ra == r.arms[i]
           ga == IF i = 1 THEN Last(g.arms) ELSE g.arms[i]
           rc == <<r.conds[i]>>
           gc == <<g.conds[i]>>
<1>1. /\ rc \in Seq(Everything(e.q)) /\ gc \in Seq(Everything(e.g))
      /\ ra \in Seq(Everything(e.q)) /\ ga \in Seq(Everything(e.g))
  BY BranchLists
<1>2. BranchNext(below, r, g, st, i) = MatchAll(below, ra, ga, MatchAll(below, rc, gc, st))
  BY DEF BranchNext, match_branch
<1> HIDE DEF ra, ga, rc, gc
<1>3. MatchAll(below, rc, gc, st) \in SearchStates(e)
  BY <1>1, MatchAllType
<1>4. MatchAll(below, ra, ga, MatchAll(below, rc, gc, st)) \in SearchStates(e)
  BY <1>1, <1>3, MatchAllType
<1> QED BY <1>2, <1>4

(* The turns of match_if. *)
BranchTurns(f, below, r, g, st) ==
  f[0] = st /\ \A i \in 1 .. Len(r.conds) : f[i] = BranchNext(below, r, g, f[i - 1], i)

LEMMA MatchIfUnfolds ==
  ASSUME NEW e, IsPair(e), NEW below \in [Calls(e) -> SearchStates(e)],
         NEW ref \in DOMAIN e.q.nodes, NEW n \in DOMAIN e.g.nodes, NEW st \in SearchStates(e),
         e.q.nodes[ref].kind = "if", e.g.nodes[n].kind = "if",
         Len(e.q.nodes[ref].conds) = Len(e.g.nodes[n].conds), e.q.nodes[ref].hasElse = e.g.nodes[n].hasElse
  PROVE  \E f : /\ BranchTurns(f, below, e.q.nodes[ref], e.g.nodes[n], st)
                /\ match_if(below, e.q.nodes[ref], e.g.nodes[n], st) = f[Len(e.q.nodes[ref].conds)]
<1> DEFINE r == e.q.nodes[ref]
           g == e.g.nodes[n]
           S == SearchStates(e)
           N == Len(r.conds)
           upto[i \in 0 .. N] == IF i = 0 THEN st ELSE BranchNext(below, r, g, upto[i - 1], i)
           F == [x \in (1 .. N) \X S |-> BranchNext(below, r, g, x[2], x[1])]
           Is(h) == h = [i \in 0 .. N |-> IF i = 0 THEN st ELSE BranchNext(below, r, g, h[i - 1], i)]
<1>0. N \in Nat /\ 0 \in 0 .. N /\ N \in 0 .. N
  <2>1. r.conds \in Seq(DOMAIN e.q.nets)
    BY NodeFacts DEF IsPair
  <2> QED BY <2>1
<1>1. F \in [(1 .. N) \X S -> S]
  BY BranchNextType
<1>2. PICK f \in [0 .. N -> S] : Loop(f, N, st, F)
  <2>1. st \in S
    OBVIOUS
  <2> HIDE DEF F, S, N
  <2> QED BY <1>0, <1>1, <2>1, LoopExists
<1>3. ASSUME NEW i \in 1 .. N PROVE f[i] = BranchNext(below, r, g, f[i - 1], i)
  <2>1. i - 1 \in 0 .. N
    BY <1>0
  <2>2. <<i, f[i - 1]>> \in (1 .. N) \X S
    BY <2>1
  <2>3. f[i] = F[<<i, f[i - 1]>>]
    BY <1>2 DEF Loop
  <2> HIDE DEF S, N, r, g
  <2> QED BY <2>2, <2>3
<1>4. Is(f)
  <2> SUFFICES ASSUME NEW i \in 0 .. N
               PROVE  f[i] = IF i = 0 THEN st ELSE BranchNext(below, r, g, f[i - 1], i)
    OBVIOUS
  <2> HIDE DEF r, g
  <2>1. CASE i = 0   BY <2>1, <1>2 DEF Loop
  <2>2. CASE i # 0
    <3>1. i \in 1 .. N
      BY <2>2, <1>0
    <3> QED BY <2>2, <3>1, <1>3
  <2> QED BY <2>1, <2>2
<1>5. upto = CHOOSE h : Is(h)
  OBVIOUS
<1>6. Is(upto)
  <2> HIDE DEF upto, Is
  <2> QED BY <1>4, <1>5
<1>7. match_if(below, r, g, st) = upto[N]
  BY DEF match_if
<1>8. BranchTurns(upto, below, r, g, st)
  <2> HIDE DEF upto, N, r, g
  <2>1. upto[0] = st
    BY <1>6, <1>0
  <2>2. ASSUME NEW i \in 1 .. N PROVE upto[i] = BranchNext(below, r, g, upto[i - 1], i)
    <3>1. i \in 0 .. N /\ i # 0
      BY <1>0
    <3> QED BY <1>6, <3>1
  <2> QED BY <2>1, <2>2 DEF BranchTurns, N
<1> HIDE DEF upto
<1> QED BY <1>7, <1>8

LEMMA MatchIfType ==
  ASSUME NEW e, IsPair(e), NEW below \in [Calls(e) -> SearchStates(e)],
         NEW ref \in DOMAIN e.q.nodes, NEW n \in DOMAIN e.g.nodes, NEW st \in SearchStates(e),
         e.q.nodes[ref].kind = "if", e.g.nodes[n].kind = "if"
  PROVE  match_if(below, e.q.nodes[ref], e.g.nodes[n], st) \in SearchStates(e)
<1> DEFINE r == e.q.nodes[ref]
           g == e.g.nodes[n]
           N == Len(r.conds)
<1>0. N \in Nat
  <2>1. r.conds \in Seq(DOMAIN e.q.nets)
    BY NodeFacts DEF IsPair
  <2> QED BY <2>1
<1>1. CASE N # Len(g.conds) \/ r.hasElse # g.hasElse
  <2>1. match_if(below, r, g, st) = Fail(st)
    BY <1>1 DEF match_if
  <2> QED BY <2>1, OperationTypes
<1>2. CASE N = Len(g.conds) /\ r.hasElse = g.hasElse
  <2>1. PICK f : BranchTurns(f, below, r, g, st) /\ match_if(below, r, g, st) = f[N]
    BY <1>2, MatchIfUnfolds
  <2> DEFINE T == {i \in 0 .. N : f[i] \in SearchStates(e)}
  <2>2. 0 \in T
    <3> HIDE DEF r, g
    <3>1. f[0] = st
      BY <2>1 DEF BranchTurns
    <3> QED BY <3>1, <1>0
  <2>3. \A i \in 1 .. N : i - 1 \in T => i \in T
    <3> SUFFICES ASSUME NEW i \in 1 .. N, i - 1 \in T PROVE f[i] \in SearchStates(e)
      BY <1>0
    <3>1. f[i] = BranchNext(below, r, g, f[i - 1], i)
      BY <2>1 DEF BranchTurns
    <3>2. f[i - 1] \in SearchStates(e)
      OBVIOUS
    <3>3. BranchNext(below, r, g, f[i - 1], i) \in SearchStates(e)
      BY <3>2, <1>2, BranchNextType
    <3> QED BY <3>1, <3>3
  <2>4. N \in T
    <3> HIDE DEF T, N
    <3> QED BY <1>0, <2>2, <2>3, AfterTheTurns
  <2> QED BY <2>1, <2>4
<1> QED BY <1>1, <1>2

LEMMA MatchNodeType ==
  ASSUME NEW e, IsPair(e), NEW below \in [Calls(e) -> SearchStates(e)],
         NEW ref \in Everything(e.q), NEW n \in Everything(e.g), NEW st \in SearchStates(e)
  PROVE  match_node(e, below, ref, n, st) \in SearchStates(e)
<1> DEFINE Both(kind) == ref \in DOMAIN e.q.nodes /\ n \in DOMAIN e.g.nodes
                           /\ e.q.nodes[ref].kind = kind /\ e.g.nodes[n].kind = kind
           m == match_node(e, below, ref, n, st)
<1>0. \/ ref \in DOMAIN e.q.nets /\ n \in DOMAIN e.g.nets /\ m = match_net(e, below, ref, n, st)
      \/ Both("call") /\ m = match_call(e, below, ref, n, st)
      \/ Both("assign") /\ m = match_assignment(below, e.q.nodes[ref], e.g.nodes[n], st)
      \/ Both("if") /\ m = match_if(below, e.q.nodes[ref], e.g.nodes[n], st)
      \/ m = Fail(st)
  BY DEF match_node
<1> HIDE DEF m
<1>1. Both("call") => match_call(e, below, ref, n, st) \in SearchStates(e)
  BY MatchCallType
<1>2. Both("assign") => match_assignment(below, e.q.nodes[ref], e.g.nodes[n], st) \in SearchStates(e)
  BY MatchAssignmentType
<1>3. Both("if") => match_if(below, e.q.nodes[ref], e.g.nodes[n], st) \in SearchStates(e)
  BY MatchIfType
<1>4. ref \in DOMAIN e.q.nets /\ n \in DOMAIN e.g.nets => match_net(e, below, ref, n, st) \in SearchStates(e)
  BY MatchNetType
<1>5. Fail(st) \in SearchStates(e)
  BY OperationTypes
<1> HIDE DEF Both
<1>6. m \in SearchStates(e)
  BY <1>0, <1>1, <1>2, <1>3, <1>4, <1>5
<1> QED BY <1>6 DEF m

-----------------------------------------------------------------------------
(* find_matching_permutation fails, or finds one of graphIo for every one  *)
(* of ref.                                                                 *)
LEMMA PermutationDone ==
  ASSUME NEW e, IsPair(e), NEW k \in 0 .. MaxDepth, NEW below, Hyp(e, k, below),
         NEW ref \in Seq(Everything(e.q)), NEW graphIo \in Seq(Everything(e.g)),
         NEW st, Good(e, st), Goes(st), NEW more \in BOOLEAN
  PROVE  LET r == find_matching_permutation(e, below, ref, graphIo, st, more)
         IN  /\ Stage(e, st, r)
             /\ Goes(r) => /\ Len(ref) <= Len(graphIo) /\ (~ more => Len(ref) = Len(graphIo))
                           /\ \A i \in 1 .. Len(ref) : \E j \in 1 .. Len(graphIo) :
                                Done(e, k, r.match, ref[i], graphIo[j])
<1> DEFINE r == find_matching_permutation(e, below, ref, graphIo, st, more)
           u == Unassigned(e, ref, st)
           p == PairAll(below, ref, graphIo, u)
<1>0. Len(ref) \in Nat /\ Len(graphIo) \in Nat /\ st \in SearchStates(e)
  BY DEF Good
<1>1. CASE Len(graphIo) < Len(ref) \/ (~ more /\ Len(graphIo) > Len(ref))
  <2>1. r = Fail(st)
    BY <1>1 DEF find_matching_permutation
  <2> HIDE DEF r
  <2>2. Stage(e, st, r) /\ ~ Goes(r)
    BY <2>1, FailFacts
  <2> QED BY <2>2 DEF r
<1>2. CASE ~ (Len(graphIo) < Len(ref) \/ (~ more /\ Len(graphIo) > Len(ref)))
  <2>1. r = p
    BY <1>2 DEF find_matching_permutation
  <2>2. /\ u \in SearchStates(e) /\ u.match = st.match /\ u.stale = st.stale
        /\ u.private = st.private /\ u.beyond = st.beyond
    BY <1>0, UnassignedFacts
  <2> HIDE DEF u
  <2>3. Stage(e, st, u)
    <3>1. Matched(u) = Matched(st)
      BY <2>2 DEF Matched
    <3>2. Good(e, u)
      BY <2>2, <3>1 DEF Good
    <3>3. Grows(st, u)
      BY <2>2 DEF Grows, Extends
    <3>4. Sound(e, st, u)
      BY <3>1 DEF Sound
    <3> QED BY <3>2, <3>3, <3>4 DEF Stage
  <2>4. /\ Stage(e, u, p)
        /\ Goes(p) => \A i \in 1 .. Len(ref) : \E j \in 1 .. Len(graphIo) : Done(e, k, p.match, ref[i], graphIo[j])
    <3>1. Good(e, u)
      BY <2>3 DEF Stage
    <3> QED BY <3>1, PairAllDone
  <2> HIDE DEF p, r
  <2>5. Stage(e, st, p)
    BY <2>3, <2>4, StageTransitive
  <2>6. Len(ref) <= Len(graphIo) /\ (~ more => Len(ref) = Len(graphIo))
    BY <1>0, <1>2
  <2> QED BY <2>1, <2>4, <2>5, <2>6 DEF r
<1> QED BY <1>1, <1>2

(* What the two halves of match_io find. *)
DriversDone(e, k, h, r, g) ==
  r.direction = "in" \/
    /\ Len(r.drivers) = Len(g.drivers)
    /\ \A i \in 1 .. Len(r.drivers) : \E j \in 1 .. Len(g.drivers) : Done(e, k, h, r.drivers[i], g.drivers[j])

EndpointsDone(e, k, h, r, g) ==
  r.direction = "out" \/
    /\ Len(r.endpoints) <= Len(g.endpoints)
    /\ \A i \in 1 .. Len(r.endpoints) : \E j \in 1 .. Len(g.endpoints) :
         Done(e, k, h, r.endpoints[i], g.endpoints[j])

LEMMA DriversDoneStay ==
  ASSUME NEW e, IsPair(e), NEW a, NEW b, Good(e, a), Stage(e, a, b), NEW k \in 0 .. MaxDepth,
         NEW r, NEW g, DriversDone(e, k, a.match, r, g)
  PROVE  DriversDone(e, k, b.match, r, g)
<1>1. \A i, j : Done(e, k, a.match, r.drivers[i], g.drivers[j]) => Done(e, k, b.match, r.drivers[i], g.drivers[j])
  BY DoneStays
<1> QED BY <1>1 DEF DriversDone

LEMMA MatchDriversDone ==
  ASSUME NEW e, IsPair(e), NEW k \in 0 .. MaxDepth, NEW below, Hyp(e, k, below),
         NEW ref \in DOMAIN e.q.nets, NEW n \in DOMAIN e.g.nets, NEW st, Good(e, st), Goes(st)
  PROVE  LET d == match_drivers(e, below, e.q.nets[ref], e.g.nets[n], st)
         IN  Stage(e, st, d) /\ (Goes(d) => DriversDone(e, k, d.match, e.q.nets[ref], e.g.nets[n]))
<1> DEFINE r == e.q.nets[ref]
           g == e.g.nets[n]
           d == match_drivers(e, below, r, g, st)
           rs == r.drivers
           gs == g.drivers
           more == FALSE
           p == find_matching_permutation(e, below, rs, gs, st, more)
<1>1. r.drivers \in Seq(Everything(e.q)) /\ g.drivers \in Seq(Everything(e.g))
  BY NetFacts DEF IsPair
<1>2. CASE r.direction = "in"
  <2>1. d = st
    BY <1>2 DEF match_drivers
  <2> HIDE DEF d
  <2>2. Stage(e, st, st)
    BY StageReflexive
  <2> QED BY <2>1, <2>2, <1>2 DEF d, DriversDone
<1>3. CASE r.direction # "in"
  <2>1. d = p
    BY <1>3 DEF match_drivers
  <2>2. /\ Stage(e, st, p)
        /\ Goes(p) => /\ Len(rs) = Len(gs)
                      /\ \A i \in 1 .. Len(rs) : \E j \in 1 .. Len(gs) : Done(e, k, p.match, rs[i], gs[j])
    <3>1. rs \in Seq(Everything(e.q)) /\ gs \in Seq(Everything(e.g)) /\ more \in BOOLEAN /\ ~ more
      BY <1>1
    <3> HIDE DEF rs, gs, more
    <3> QED BY <3>1, PermutationDone
  <2> HIDE DEF d, p
  <2> QED BY <2>1, <2>2 DEF d, DriversDone
<1> QED BY <1>2, <1>3

LEMMA MatchEndpointsDone ==
  ASSUME NEW e, IsPair(e), NEW k \in 0 .. MaxDepth, NEW below, Hyp(e, k, below),
         NEW ref \in DOMAIN e.q.nets, NEW n \in DOMAIN e.g.nets, NEW st, Good(e, st)
  PROVE  LET d == match_endpoints(e, below, e.q.nets[ref], e.g.nets[n], st)
         IN  Stage(e, st, d) /\ (Goes(d) => EndpointsDone(e, k, d.match, e.q.nets[ref], e.g.nets[n]))
<1> DEFINE r == e.q.nets[ref]
           g == e.g.nets[n]
           d == match_endpoints(e, below, r, g, st)
           more == r.direction = "in"
           rs == r.endpoints
           gs == g.endpoints
           p == find_matching_permutation(e, below, rs, gs, st, more)
<1>1. r.endpoints \in Seq(Everything(e.q)) /\ g.endpoints \in Seq(Everything(e.g))
  BY NetFacts DEF IsPair
<1>2. CASE r.direction = "out" \/ ~ Goes(st)
  <2>1. d = st
    BY <1>2 DEF match_endpoints
  <2> HIDE DEF d
  <2>2. Stage(e, st, st)
    BY StageReflexive
  <2> QED BY <2>1, <2>2, <1>2 DEF d, EndpointsDone
<1>3. CASE ~ (r.direction = "out" \/ ~ Goes(st))
  <2>1. d = p
    BY <1>3 DEF match_endpoints
  <2>2. /\ Stage(e, st, p)
        /\ Goes(p) => /\ Len(rs) <= Len(gs)
                      /\ \A i \in 1 .. Len(rs) : \E j \in 1 .. Len(gs) : Done(e, k, p.match, rs[i], gs[j])
    <3>1. rs \in Seq(Everything(e.q)) /\ gs \in Seq(Everything(e.g)) /\ more \in BOOLEAN /\ Goes(st)
      BY <1>1, <1>3
    <3> HIDE DEF rs, gs, more
    <3> QED BY <3>1, PermutationDone
  <2> HIDE DEF d, p
  <2> QED BY <2>1, <2>2 DEF d, EndpointsDone
<1> QED BY <1>2, <1>3

LEMMA MatchIoDone ==
  ASSUME NEW e, IsPair(e), NEW k \in 0 .. MaxDepth, NEW below, Hyp(e, k, below),
         NEW ref \in DOMAIN e.q.nets, NEW n \in DOMAIN e.g.nets, NEW st, Good(e, st), Goes(st)
  PROVE  LET m == match_io(e, below, e.q.nets[ref], e.g.nets[n], st)
         IN  /\ Stage(e, st, m)
             /\ Goes(m) => /\ DriversDone(e, k, m.match, e.q.nets[ref], e.g.nets[n])
                           /\ EndpointsDone(e, k, m.match, e.q.nets[ref], e.g.nets[n])
<1> DEFINE r == e.q.nets[ref]
           g == e.g.nets[n]
           c == Enter(st)
           d == match_drivers(e, below, r, g, c)
           p == match_endpoints(e, below, r, g, d)
           m == match_io(e, below, r, g, st)
<1>1. Good(e, c) /\ Goes(c)
  BY EnterFacts
<1>2. m = Leave(st, p)
  BY DEF match_io
<1> HIDE DEF c, m
<1>3. Stage(e, c, d) /\ (Goes(d) => DriversDone(e, k, d.match, r, g))
  BY <1>1, MatchDriversDone
<1>4. Good(e, d)
  BY <1>3 DEF Stage
<1> HIDE DEF d
<1>5. Stage(e, d, p) /\ (Goes(p) => EndpointsDone(e, k, p.match, r, g))
  BY <1>4, MatchEndpointsDone
<1> HIDE DEF p, r, g
<1>6. Stage(e, c, p)
  BY <1>3, <1>5, StageTransitive
<1>7. Stage(e, st, m) /\ m.match = p.match /\ Goes(m) = Goes(p)
  BY <1>2, <1>6, LeaveFacts DEF c
<1>8. ASSUME Goes(m) PROVE DriversDone(e, k, m.match, r, g) /\ EndpointsDone(e, k, m.match, r, g)
  <2>1. Goes(p) /\ Goes(d)
    BY <1>5, <1>7, <1>8 DEF Stage
  <2>2. DriversDone(e, k, p.match, r, g)
    BY <2>1, <1>3, <1>4, <1>5, DriversDoneStay
  <2> QED BY <2>1, <2>2, <1>5, <1>7
<1> QED BY <1>7, <1>8 DEF m, r, g

(* Nodes that correspond by a call are a pair. *)
LEMMA DoneNodes ==
  ASSUME NEW e, IsPair(e), NEW k \in 0 .. MaxDepth, NEW h,
         NEW ref \in DOMAIN e.q.nodes, NEW n \in DOMAIN e.g.nodes, Done(e, k, h, ref, n)
  PROVE  CorrespondsAt(e, h, k)[<<ref, n>>] /\ Correspondence(e.q, e.g, h)[<<ref, n>>]
<1>1. ref \notin DOMAIN e.q.nets
  BY DEF IsPair, IsGraph
<1>2. <<ref, n>> \in Pairs(e) /\ CorrespondsAt(e, h, k)[<<ref, n>>]
  BY <1>1 DEF Done
<1> QED BY <1>2, CorrespondsAtEnd

LEMMA DoneNets ==
  ASSUME NEW e, IsPair(e), NEW k, NEW h, NEW ref \in DOMAIN e.q.nets, NEW n \in DOMAIN e.g.nets, Done(e, k, h, ref, n)
  PROVE  h[ref] = n
<1>1. ref \notin DOMAIN e.q.nodes
  BY DEF IsPair, IsGraph
<1>2. <<ref, n>> \notin Pairs(e)
  BY <1>1 DEF Pairs
<1> QED BY <1>2 DEF Done

LEMMA WithinDone ==
  ASSUME NEW e, IsPair(e), NEW k \in 0 .. MaxDepth, NEW h,
         NEW rs \in Seq(DOMAIN e.q.nodes), NEW gs \in Seq(DOMAIN e.g.nodes),
         \A i \in 1 .. Len(rs) : \E j \in 1 .. Len(gs) : Done(e, k, h, rs[i], gs[j])
  PROVE  Within(Correspondence(e.q, e.g, h), rs, gs)
<1> SUFFICES ASSUME NEW i \in DOMAIN rs PROVE \E j \in DOMAIN gs : Correspondence(e.q, e.g, h)[<<rs[i], gs[j]>>]
  BY DEF Within
<1>1. PICK j \in 1 .. Len(gs) : Done(e, k, h, rs[i], gs[j])
  OBVIOUS
<1>2. rs[i] \in DOMAIN e.q.nodes /\ gs[j] \in DOMAIN e.g.nodes /\ j \in DOMAIN gs
  OBVIOUS
<1>3. Correspondence(e.q, e.g, h)[<<rs[i], gs[j]>>]
  BY <1>1, <1>2, DoneNodes
<1> QED BY <1>2, <1>3

(* A net that match_net has taken and gone on with is an image. *)
LEMMA MatchNetDone ==
  ASSUME NEW e, IsPair(e), NEW k \in 0 .. MaxDepth, NEW below, Hyp(e, k, below),
         NEW ref \in DOMAIN e.q.nets, NEW n \in DOMAIN e.g.nets, NEW st, Good(e, st), Goes(st)
  PROVE  LET m == match_net(e, below, ref, n, st)
         IN  Stage(e, st, m) /\ (Goes(m) => m.match[ref] = n)
<1> DEFINE r == e.q.nets[ref]
           g == e.g.nets[n]
           b == insert_match(st, ref, n)
           p == match_io(e, below, r, g, b)
           m == match_net(e, below, ref, n, st)
<1>0. ref \in Everything(e.q) /\ n \in Everything(e.g) /\ n # NoNode
  BY DEF Everything, IsPair, IsGraph
<1>1. CASE CanNotMatch(st, ref, n)
  <2>1. m = Fail(st)
    BY <1>1 DEF match_net
  <2> HIDE DEF m
  <2>2. Stage(e, st, m) /\ ~ Goes(m)
    BY <2>1, FailFacts
  <2> QED BY <2>2 DEF m
<1>2. CASE ~ CanNotMatch(st, ref, n) /\ AlreadyMatches(st, ref, n)
  <2>1. m = st /\ st.match[ref] = n
    BY <1>2 DEF match_net, AlreadyMatches
  <2> HIDE DEF m
  <2>2. Stage(e, st, st)
    BY StageReflexive
  <2> QED BY <2>1, <2>2 DEF m
<1>3. CASE ~ CanNotMatch(st, ref, n) /\ ~ AlreadyMatches(st, ref, n)
  <2>1. /\ Good(e, b) /\ Grows(st, b) /\ b.match[ref] = n /\ Goes(b)
        /\ Matched(b) = Matched(st) \cup {ref} /\ b.stale = st.stale
    BY <1>0, <1>3, InsertFacts
  <2>2. CASE r.direction # "in" /\ (Len(r.drivers) # Len(g.drivers) \/ Len(r.endpoints) # Len(g.endpoints))
    <3>1. m = Fail(b)
      BY <1>3, <2>2 DEF match_net
    <3> HIDE DEF m, b
    <3>2. Stage(e, b, m) /\ ~ Goes(m)
      BY <2>1, <3>1, FailFacts
    <3>3. Good(e, m) /\ Grows(b, m)
      BY <3>2 DEF Stage
    <3>4. Grows(st, m)
      BY <2>1, <3>3, GrowsTransitive
    <3>5. Stage(e, st, m)
      BY <3>2, <3>3, <3>4 DEF Stage
    <3> QED BY <3>2, <3>5 DEF m
  <2>3. CASE ~ (r.direction # "in" /\ (Len(r.drivers) # Len(g.drivers) \/ Len(r.endpoints) # Len(g.endpoints)))
    <3>1. m = p
      BY <1>3, <2>3 DEF match_net
    <3> HIDE DEF m, b
    <3>2. /\ Stage(e, b, p)
          /\ Goes(p) => DriversDone(e, k, p.match, r, g) /\ EndpointsDone(e, k, p.match, r, g)
      BY <2>1, MatchIoDone
    <3> HIDE DEF p
    <3>3. Good(e, p) /\ Grows(b, p)
      BY <3>2 DEF Stage
    <3>4. Grows(st, p)
      BY <2>1, <3>3, GrowsTransitive
    <3>5. p.match[ref] = n
      <4>1. ref \in DOMAIN b.match
        BY <2>1, <1>0 DEF Matched
      <4> QED BY <4>1, <2>1, <3>3, <1>0 DEF Grows, Extends
    <3>6. ASSUME Goes(p) PROVE ImageOf(e.q, e.g, p.match, ref)
      <4> DEFINE c == Correspondence(e.q, e.g, p.match)
      <4>1. /\ r.direction \in {"in", "out", "unknown"}
            /\ r.drivers \in Seq(DOMAIN e.q.nodes) /\ r.endpoints \in Seq(DOMAIN e.q.nodes)
            /\ g.drivers \in Seq(DOMAIN e.g.nodes) /\ g.endpoints \in Seq(DOMAIN e.g.nodes)
        BY NetFacts DEF IsPair
      <4>2. DriversDone(e, k, p.match, r, g) /\ EndpointsDone(e, k, p.match, r, g)
        BY <3>2, <3>6
      <4> HIDE DEF r, g
      <4>3. r.direction = "in" \/ (Within(c, r.drivers, g.drivers) /\ Len(r.drivers) = Len(g.drivers))
        BY <4>1, <4>2, WithinDone DEF DriversDone
      <4>4. r.direction = "out" \/ (Within(c, r.endpoints, g.endpoints) /\ Len(r.endpoints) <= Len(g.endpoints))
        BY <4>1, <4>2, WithinDone DEF EndpointsDone
      <4> HIDE DEF c
      <4>5. Len(r.endpoints) \in Nat /\ Len(g.endpoints) \in Nat
        BY <4>1
      <4>6. NetsCorrespond(c, r, g)
        BY <4>1, <4>3, <4>4, <4>5, <2>3 DEF NetsCorrespond
      <4> QED BY <4>6, <3>5 DEF ImageOf, c, r, g
    <3>7. ASSUME Goes(p) PROVE Sound(e, st, p)
      <4> SUFFICES ASSUME NEW x \in Matched(p) \ (Matched(st) \cup p.stale) PROVE ImageOf(e.q, e.g, p.match, x)
        BY DEF Sound
      <4>1. CASE x = ref   BY <4>1, <3>6, <3>7
      <4>2. CASE x # ref
        <5>1. x \notin Matched(b)
          BY <2>1, <4>2
        <5>2. Sound(e, b, p)
          BY <3>2, <3>7 DEF Stage
        <5> QED BY <5>1, <5>2 DEF Sound
      <4> QED BY <4>1, <4>2
    <3>8. Stage(e, st, p)
      BY <3>3, <3>4, <3>7 DEF Stage
    <3> QED BY <3>1, <3>5, <3>8 DEF m
  <2> QED BY <2>2, <2>3
<1> QED BY <1>1, <1>2, <1>3

-----------------------------------------------------------------------------
(* Nets that correspond by calls are mapped. *)
LEMMA MapsDone ==
  ASSUME NEW e, IsPair(e), NEW k, NEW st, Good(e, st), NEW refs \in Seq(DOMAIN e.q.nets),
         NEW ns \in Seq(DOMAIN e.g.nets), Len(refs) <= Len(ns),
         \A i \in 1 .. Len(refs) : Done(e, k, st.match, refs[i], ns[i])
  PROVE  Maps(st.match, refs, ns)
<1> SUFFICES ASSUME NEW i \in DOMAIN refs PROVE refs[i] \in DOMAIN st.match /\ st.match[refs[i]] = ns[i]
  BY DEF Maps
<1>1. i \in 1 .. Len(refs) /\ refs[i] \in DOMAIN e.q.nets /\ ns[i] \in DOMAIN e.g.nets
  OBVIOUS
<1>2. st.match[refs[i]] = ns[i]
  BY <1>1, DoneNets
<1>3. DOMAIN st.match = Everything(e.q)
  BY StateFields DEF Good
<1> QED BY <1>1, <1>2, <1>3 DEF Everything

(* A call that match_call has taken and gone on with is an image. *)
LEMMA MatchCallDone ==
  ASSUME NEW e, IsPair(e), NEW k \in 0 .. MaxDepth, NEW below, Hyp(e, k, below),
         NEW ref \in DOMAIN e.q.nodes, NEW n \in DOMAIN e.g.nodes, NEW st, Good(e, st), Goes(st),
         e.q.nodes[ref].kind = "call", e.g.nodes[n].kind = "call"
  PROVE  LET m == match_call(e, below, ref, n, st)
         IN  Stage(e, st, m) /\ (Goes(m) => m.match[ref] = n)
<1> DEFINE r == e.q.nodes[ref]
           g == e.g.nodes[n]
           refs == <<r.res>> \o r.args
           ns == <<g.res>> \o g.args
           b == insert_match(st, ref, n)
           p == MatchAll(below, refs, ns, b)
           m == match_call(e, below, ref, n, st)
<1>0. ref \in Everything(e.q) /\ n \in Everything(e.g) /\ n # NoNode
  BY DEF Everything, IsPair, IsGraph
<1>1. CASE CanNotMatch(st, ref, n)
  <2>1. m = Fail(st)
    BY <1>1 DEF match_call
  <2> HIDE DEF m
  <2>2. Stage(e, st, m) /\ ~ Goes(m)
    BY <2>1, FailFacts
  <2> QED BY <2>2 DEF m
<1>2. CASE ~ CanNotMatch(st, ref, n) /\ AlreadyMatches(st, ref, n)
  <2>1. m = st /\ st.match[ref] = n
    BY <1>2 DEF match_call, AlreadyMatches
  <2> HIDE DEF m
  <2>2. Stage(e, st, st)
    BY StageReflexive
  <2> QED BY <2>1, <2>2 DEF m
<1>3. CASE ~ CanNotMatch(st, ref, n) /\ ~ AlreadyMatches(st, ref, n) /\ Len(r.args) # Len(g.args)
  <2>1. m = Fail(st)
    BY <1>3 DEF match_call
  <2> HIDE DEF m
  <2>2. Stage(e, st, m) /\ ~ Goes(m)
    BY <2>1, FailFacts
  <2> QED BY <2>2 DEF m
<1>4. CASE ~ CanNotMatch(st, ref, n) /\ ~ AlreadyMatches(st, ref, n) /\ Len(r.args) = Len(g.args)
  <2>1. /\ Good(e, b) /\ Grows(st, b) /\ b.match[ref] = n /\ Goes(b)
        /\ Matched(b) = Matched(st) \cup {ref} /\ b.stale = st.stale
    <3>1. ~ CanNotMatch(st, ref, n)
      BY <1>4
    <3> QED BY <1>0, <3>1, InsertFacts
  <2>2. m = p
    BY <1>4 DEF match_call
  <2>3. /\ refs \in Seq(DOMAIN e.q.nets) /\ ns \in Seq(DOMAIN e.g.nets)
        /\ refs \in Seq(Everything(e.q)) /\ ns \in Seq(Everything(e.g))
    BY CallLists
  <2>4. Len(r.args) = Len(g.args)
    BY <1>4
  <2> HIDE DEF m, b, refs, ns, r, g
  <2>5. /\ Stage(e, b, p)
        /\ Goes(p) => Len(refs) <= Len(ns) /\ \A i \in 1 .. Len(refs) : Done(e, k, p.match, refs[i], ns[i])
    BY <2>1, <2>3, MatchAllDone
  <2> HIDE DEF p
  <2>6. Good(e, p) /\ Grows(b, p)
    BY <2>5 DEF Stage
  <2>7. Grows(st, p)
    BY <2>1, <2>6, GrowsTransitive
  <2>8. p.match[ref] = n
    <3>1. ref \in DOMAIN b.match
      BY <2>1, <1>0 DEF Matched
    <3> QED BY <3>1, <2>1, <2>6, <1>0 DEF Grows, Extends
  <2>9. ASSUME Goes(p) PROVE ImageOf(e.q, e.g, p.match, ref)
    <3>1. Maps(p.match, refs, ns)
      BY <2>3, <2>5, <2>6, <2>9, MapsDone
    <3>2. CallsCorrespond(p.match, r, g)
      BY <3>1, <2>4 DEF CallsCorrespond, refs, ns
    <3> QED BY <3>2, <2>8 DEF ImageOf, CallNodes, r, g
  <2>10. ASSUME Goes(p) PROVE Sound(e, st, p)
    <3> SUFFICES ASSUME NEW x \in Matched(p) \ (Matched(st) \cup p.stale) PROVE ImageOf(e.q, e.g, p.match, x)
      BY DEF Sound
    <3>1. CASE x = ref   BY <3>1, <2>9, <2>10
    <3>2. CASE x # ref
      <4>1. x \notin Matched(b)
        BY <2>1, <3>2
      <4>2. Sound(e, b, p)
        BY <2>5, <2>10 DEF Stage
      <4> QED BY <4>1, <4>2 DEF Sound
    <3> QED BY <3>1, <3>2
  <2>11. Stage(e, st, p)
    BY <2>6, <2>7, <2>10 DEF Stage
  <2> QED BY <2>2, <2>8, <2>11 DEF m
<1> QED BY <1>1, <1>2, <1>3, <1>4

LEMMA MatchAssignmentDone ==
  ASSUME NEW e, IsPair(e), NEW k \in 0 .. MaxDepth, NEW below, Hyp(e, k, below),
         NEW ref \in DOMAIN e.q.nodes, NEW n \in DOMAIN e.g.nodes, NEW st, Good(e, st),
         e.q.nodes[ref].kind = "assign", e.g.nodes[n].kind = "assign"
  PROVE  LET m == match_assignment(below, e.q.nodes[ref], e.g.nodes[n], st)
         IN  /\ Stage(e, st, m)
             /\ Goes(m) => Maps(m.match, <<e.q.nodes[ref].dst, e.q.nodes[ref].src>>,
                                         <<e.g.nodes[n].dst, e.g.nodes[n].src>>)
<1> DEFINE refs == <<e.q.nodes[ref].dst, e.q.nodes[ref].src>>
           ns == <<e.g.nodes[n].dst, e.g.nodes[n].src>>
           m == match_assignment(below, e.q.nodes[ref], e.g.nodes[n], st)
<1>1. /\ refs \in Seq(DOMAIN e.q.nets) /\ ns \in Seq(DOMAIN e.g.nets)
      /\ refs \in Seq(Everything(e.q)) /\ ns \in Seq(Everything(e.g))
  BY AssignLists
<1>2. m = MatchAll(below, refs, ns, st)
  BY DEF match_assignment
<1> HIDE DEF refs, ns, m
<1>3. /\ Stage(e, st, m)
      /\ Goes(m) => Len(refs) <= Len(ns) /\ \A i \in 1 .. Len(refs) : Done(e, k, m.match, refs[i], ns[i])
  BY <1>1, <1>2, MatchAllDone
<1>4. ASSUME Goes(m) PROVE Maps(m.match, refs, ns)
  <2>1. Good(e, m)
    BY <1>3 DEF Stage
  <2> QED BY <1>1, <1>3, <1>4, <2>1, MapsDone
<1> QED BY <1>3, <1>4 DEF refs, ns, m

(* What a branch of an if finds. *)
BranchDone(e, k, h, r, g, i) ==
  LET ga == IF i = 1 THEN Last(g.arms) ELSE g.arms[i]
  IN  /\ Done(e, k, h, r.conds[i], g.conds[i])
      /\ Len(r.arms[i]) <= Len(ga)
      /\ \A j \in 1 .. Len(r.arms[i]) : Done(e, k, h, r.arms[i][j], ga[j])

LEMMA BranchDoneStays ==
  ASSUME NEW e, IsPair(e), NEW a, NEW b, Good(e, a), Stage(e, a, b), NEW k \in 0 .. MaxDepth,
         NEW r, NEW g, NEW i, BranchDone(e, k, a.match, r, g, i)
  PROVE  BranchDone(e, k, b.match, r, g, i)
<1>1. \A x, y : Done(e, k, a.match, x, y) => Done(e, k, b.match, x, y)
  BY DoneStays
<1> QED BY <1>1 DEF BranchDone

LEMMA BranchNextDone ==
  ASSUME NEW e, IsPair(e), NEW k \in 0 .. MaxDepth, NEW below, Hyp(e, k, below),
         NEW ref \in DOMAIN e.q.nodes, NEW n \in DOMAIN e.g.nodes, NEW st, Good(e, st),
         e.q.nodes[ref].kind = "if", e.g.nodes[n].kind = "if",
         Len(e.q.nodes[ref].conds) = Len(e.g.nodes[n].conds), NEW i \in 1 .. Len(e.q.nodes[ref].conds)
  PROVE  LET m == BranchNext(below, e.q.nodes[ref], e.g.nodes[n], st, i)
         IN  Stage(e, st, m) /\ (Goes(m) => BranchDone(e, k, m.match, e.q.nodes[ref], e.g.nodes[n], i))
<1> DEFINE r == e.q.nodes[ref]
           g == e.g.nodes[n]
           ra == r.arms[i]
           ga == IF i = 1 THEN Last(g.arms) ELSE g.arms[i]
           rc == <<r.conds[i]>>
           gc == <<g.conds[i]>>
           c == MatchAll(below, rc, gc, st)
           m == BranchNext(below, r, g, st, i)
<1>1. /\ rc \in Seq(Everything(e.q)) /\ gc \in Seq(Everything(e.g))
      /\ ra \in Seq(Everything(e.q)) /\ ga \in Seq(Everything(e.g))
  BY BranchLists
<1>2. m = MatchAll(below, ra, ga, c)
  BY DEF BranchNext, match_branch
<1>3. Len(rc) = 1 /\ rc[1] = r.conds[i] /\ gc[1] = g.conds[i]
  OBVIOUS
<1> HIDE DEF ra, ga, rc, gc, m
<1>4. /\ Stage(e, st, c)
      /\ Goes(c) => \A j \in 1 .. Len(rc) : Done(e, k, c.match, rc[j], gc[j])
  BY <1>1, MatchAllDone
<1> HIDE DEF c
<1>5. Good(e, c)
  BY <1>4 DEF Stage
<1>6. /\ Stage(e, c, m)
      /\ Goes(m) => Len(ra) <= Len(ga) /\ \A j \in 1 .. Len(ra) : Done(e, k, m.match, ra[j], ga[j])
  BY <1>1, <1>2, <1>5, MatchAllDone
<1>7. Stage(e, st, m)
  BY <1>4, <1>6, StageTransitive
<1>8. ASSUME Goes(m) PROVE BranchDone(e, k, m.match, r, g, i)
  <2>1. Goes(c)
    BY <1>6, <1>8 DEF Stage
  <2>2. Done(e, k, c.match, r.conds[i], g.conds[i])
    <3>1. 1 \in 1 .. Len(rc)
      BY <1>3
    <3>2. Done(e, k, c.match, rc[1], gc[1])
      BY <1>4, <2>1, <3>1
    <3> QED BY <3>2, <1>3
  <2>3. Done(e, k, m.match, r.conds[i], g.conds[i])
    BY <1>5, <1>6, <2>2, DoneStays
  <2> QED BY <1>6, <1>8, <2>3 DEF BranchDone, ra, ga
<1> QED BY <1>7, <1>8 DEF m

LEMMA MatchIfDone ==
  ASSUME NEW e, IsPair(e), NEW k \in 0 .. MaxDepth, NEW below, Hyp(e, k, below),
         NEW ref \in DOMAIN e.q.nodes, NEW n \in DOMAIN e.g.nodes, NEW st, Good(e, st),
         e.q.nodes[ref].kind = "if", e.g.nodes[n].kind = "if"
  PROVE  LET m == match_if(below, e.q.nodes[ref], e.g.nodes[n], st)
         IN  /\ Stage(e, st, m)
             /\ Goes(m) => /\ Len(e.q.nodes[ref].conds) = Len(e.g.nodes[n].conds)
                           /\ e.q.nodes[ref].hasElse = e.g.nodes[n].hasElse
                           /\ \A i \in 1 .. Len(e.q.nodes[ref].conds) :
                                BranchDone(e, k, m.match, e.q.nodes[ref], e.g.nodes[n], i)
<1> DEFINE r == e.q.nodes[ref]
           g == e.g.nodes[n]
           N == Len(r.conds)
           m == match_if(below, r, g, st)
<1>0. N \in Nat
  <2>1. r.conds \in Seq(DOMAIN e.q.nets)
    BY NodeFacts DEF IsPair
  <2> QED BY <2>1
<1>1. CASE N # Len(g.conds) \/ r.hasElse # g.hasElse
  <2>1. m = Fail(st)
    BY <1>1 DEF match_if
  <2> HIDE DEF m
  <2>2. Stage(e, st, m) /\ ~ Goes(m)
    BY <2>1, FailFacts
  <2> QED BY <2>2 DEF m
<1>2. CASE N = Len(g.conds) /\ r.hasElse = g.hasElse
  <2>0. st \in SearchStates(e) /\ below \in [Calls(e) -> SearchStates(e)]
    BY DEF Good, Hyp
  <2>1. PICK f : BranchTurns(f, below, r, g, st) /\ m = f[N]
    BY <1>2, <2>0, MatchIfUnfolds
  <2> HIDE DEF m
  <2> DEFINE Inv(i) == /\ Stage(e, st, f[i])
                       /\ Goes(f[i]) => \A j \in 1 .. i : BranchDone(e, k, f[i].match, r, g, j)
             T == {i \in 0 .. N : Inv(i)}
  <2>2. 0 \in T
    <3>1. f[0] = st
      <4> HIDE DEF r, g
      <4> QED BY <2>1 DEF BranchTurns
    <3>2. Stage(e, st, f[0])
      BY <3>1, StageReflexive
    <3>3. \A j \in 1 .. 0 : BranchDone(e, k, f[0].match, r, g, j)
      OBVIOUS
    <3> QED BY <3>2, <3>3, <1>0
  <2>3. \A i \in 1 .. N : i - 1 \in T => i \in T
    <3> SUFFICES ASSUME NEW i \in 1 .. N, i - 1 \in T PROVE Inv(i)
      BY <1>0
    <3> DEFINE a == f[i - 1]
               b == f[i]
    <3>1. /\ Stage(e, st, a) /\ Good(e, a)
          /\ Goes(a) => \A j \in 1 .. i - 1 : BranchDone(e, k, a.match, r, g, j)
      BY DEF Stage
    <3>2. b = BranchNext(below, r, g, a, i)
      BY <2>1 DEF BranchTurns
    <3> HIDE DEF a, b
    <3>3. Stage(e, a, b) /\ (Goes(b) => BranchDone(e, k, b.match, r, g, i))
      BY <3>1, <3>2, <1>2, BranchNextDone
    <3>4. Stage(e, st, b)
      BY <3>1, <3>3, StageTransitive
    <3>5. ASSUME Goes(b), NEW j \in 1 .. i PROVE BranchDone(e, k, b.match, r, g, j)
      <4>1. CASE j = i   BY <4>1, <3>3, <3>5
      <4>2. CASE j # i
        <5>1. j \in 1 .. i - 1
          BY <4>2, <1>0
        <5>2. Goes(a)
          BY <3>3, <3>5 DEF Stage
        <5>3. BranchDone(e, k, a.match, r, g, j)
          BY <5>1, <5>2, <3>1
        <5> HIDE DEF r, g
        <5> QED BY <5>3, <3>1, <3>3, BranchDoneStays
      <4> QED BY <4>1, <4>2
    <3> QED BY <3>4, <3>5 DEF b
  <2>4. N \in T
    <3> HIDE DEF T, N
    <3> QED BY <1>0, <2>2, <2>3, AfterTheTurns
  <2> QED BY <2>1, <2>4, <1>2 DEF m
<1> QED BY <1>1, <1>2

-----------------------------------------------------------------------------
(* A branch that is done is a branch that corresponds. *)
LEMMA IfsDone ==
  ASSUME NEW e, IsPair(e), NEW k \in 0 .. MaxDepth,
         NEW ref \in DOMAIN e.q.nodes, NEW n \in DOMAIN e.g.nodes, NEW st, Good(e, st),
         e.q.nodes[ref].kind = "if", e.g.nodes[n].kind = "if",
         Len(e.q.nodes[ref].conds) = Len(e.g.nodes[n].conds), e.q.nodes[ref].hasElse = e.g.nodes[n].hasElse,
         \A i \in 1 .. Len(e.q.nodes[ref].conds) : BranchDone(e, k, st.match, e.q.nodes[ref], e.g.nodes[n], i)
  PROVE  IfsCorrespond(st.match, CorrespondsAt(e, st.match, k), e.q.nodes[ref], e.g.nodes[n])
<1> DEFINE r == e.q.nodes[ref]
           g == e.g.nodes[n]
           h == st.match
<1>1. r.conds \in Seq(DOMAIN e.q.nets) /\ g.conds \in Seq(DOMAIN e.g.nets) /\ Len(r.conds) = Len(g.conds)
  BY NodeFacts DEF IsPair
<1>2. Maps(h, r.conds, g.conds)
  <2> DEFINE refs == r.conds
             ns == g.conds
  <2>1. \A i \in 1 .. Len(refs) : Done(e, k, h, refs[i], ns[i])
    BY DEF BranchDone
  <2>2. refs \in Seq(DOMAIN e.q.nets) /\ ns \in Seq(DOMAIN e.g.nets) /\ Len(refs) <= Len(ns)
    BY <1>1
  <2> HIDE DEF refs, ns
  <2>3. Maps(h, refs, ns)
    BY <2>1, <2>2, MapsDone
  <2> QED BY <2>3 DEF refs, ns
<1>3. ASSUME NEW i \in DOMAIN r.conds
      PROVE  AllCorrespond(CorrespondsAt(e, h, k), r.arms[i], IF i = 1 THEN Last(g.arms) ELSE g.arms[i])
  <2> DEFINE ra == r.arms[i]
             ga == IF i = 1 THEN Last(g.arms) ELSE g.arms[i]
  <2>0. i \in 1 .. Len(r.conds)
    BY <1>1
  <2>1. ra \in Seq(DOMAIN e.q.nodes) /\ ga \in Seq(DOMAIN e.g.nodes)
    BY <2>0, BranchLists
  <2>2. Len(ra) <= Len(ga) /\ \A j \in 1 .. Len(ra) : Done(e, k, h, ra[j], ga[j])
    BY <2>0 DEF BranchDone
  <2> HIDE DEF ra, ga
  <2>3. \A j \in DOMAIN ra : CorrespondsAt(e, h, k)[<<ra[j], ga[j]>>]
    <3> SUFFICES ASSUME NEW j \in DOMAIN ra PROVE CorrespondsAt(e, h, k)[<<ra[j], ga[j]>>]
      OBVIOUS
    <3>1. j \in 1 .. Len(ra) /\ ra[j] \in DOMAIN e.q.nodes /\ ga[j] \in DOMAIN e.g.nodes
      BY <2>1, <2>2
    <3>2. Done(e, k, h, ra[j], ga[j])
      BY <3>1, <2>2
    <3> QED BY <3>1, <3>2, DoneNodes
  <2> QED BY <2>2, <2>3 DEF AllCorrespond, ra, ga
<1> HIDE DEF r, g
<1> QED BY <1>1, <1>2, <1>3 DEF IfsCorrespond, r, g

(* Nodes of which one depth less corresponds correspond. *)
LEMMA NodeDone ==
  ASSUME NEW e, IsPair(e), NEW h, NEW k \in 1 .. MaxDepth,
         NEW ref \in DOMAIN e.q.nodes, NEW n \in DOMAIN e.g.nodes,
         NodesCorrespond(e.q, e.g, h, CorrespondsAt(e, h, k - 1), ref, n)
  PROVE  Done(e, k, h, ref, n)
<1> DEFINE p == <<ref, n>>
<1>1. p \in Pairs(e) /\ p[1] = ref /\ p[2] = n
  BY DEF Pairs
<1> HIDE DEF p
<1>2. CorrespondsAt(e, h, k)[p]
  BY <1>1, CorrespondsNext
<1> QED BY <1>1, <1>2 DEF Done, p

(* match_node does at one level what search_recurse does at the next. *)
LEMMA MatchNodeDone ==
  ASSUME NEW e, IsPair(e), NEW k \in 1 .. MaxDepth, NEW below, Hyp(e, k - 1, below),
         NEW ref \in Everything(e.q), NEW n \in Everything(e.g), NEW st, Good(e, st), Goes(st)
  PROVE  LET m == match_node(e, below, ref, n, st)
         IN  Stage(e, st, m) /\ (Goes(m) => Done(e, k, m.match, ref, n))
<1> DEFINE Both(kind) == ref \in DOMAIN e.q.nodes /\ n \in DOMAIN e.g.nodes
                           /\ e.q.nodes[ref].kind = kind /\ e.g.nodes[n].kind = kind
           m == match_node(e, below, ref, n, st)
           Fine(x) == Stage(e, st, x) /\ (Goes(x) => Done(e, k, x.match, ref, n))
<1>0. MaxDepth \in Nat /\ k - 1 \in 0 .. MaxDepth
  BY MaxDepthAssumption
<1>1. \/ ref \in DOMAIN e.q.nets /\ n \in DOMAIN e.g.nets /\ m = match_net(e, below, ref, n, st)
      \/ Both("call") /\ m = match_call(e, below, ref, n, st)
      \/ Both("assign") /\ m = match_assignment(below, e.q.nodes[ref], e.g.nodes[n], st)
      \/ Both("if") /\ m = match_if(below, e.q.nodes[ref], e.g.nodes[n], st)
      \/ m = Fail(st)
  BY DEF match_node
<1> HIDE DEF m
<1>2. CASE ref \in DOMAIN e.q.nets /\ n \in DOMAIN e.g.nets /\ m = match_net(e, below, ref, n, st)
  <2>1. Stage(e, st, m) /\ (Goes(m) => m.match[ref] = n)
    BY <1>0, <1>2, MatchNetDone
  <2> QED BY <1>2, <2>1 DEF Done, m
<1>3. CASE Both("call") /\ m = match_call(e, below, ref, n, st)
  <2>1. Stage(e, st, m) /\ (Goes(m) => m.match[ref] = n)
    BY <1>0, <1>3, MatchCallDone
  <2>2. ASSUME Goes(m) PROVE Done(e, k, m.match, ref, n)
    <3>1. DOMAIN m.match = Everything(e.q)
      BY <2>1, StateFields DEF Stage, Good
    <3>2. ref \in DOMAIN m.match /\ m.match[ref] = n
      BY <2>1, <2>2, <3>1
    <3>3. Maps(m.match, <<ref>>, <<n>>)
      BY <3>2 DEF Maps
    <3>4. NodesCorrespond(e.q, e.g, m.match, CorrespondsAt(e, m.match, k - 1), ref, n)
      BY <1>3, <3>3 DEF NodesCorrespond
    <3> QED BY <1>3, <3>4, NodeDone
  <2> QED BY <2>1, <2>2 DEF m
<1>4. CASE Both("assign") /\ m = match_assignment(below, e.q.nodes[ref], e.g.nodes[n], st)
  <2>1. /\ Stage(e, st, m)
        /\ Goes(m) => Maps(m.match, <<e.q.nodes[ref].dst, e.q.nodes[ref].src>>,
                                    <<e.g.nodes[n].dst, e.g.nodes[n].src>>)
    BY <1>0, <1>4, MatchAssignmentDone
  <2>2. ASSUME Goes(m) PROVE Done(e, k, m.match, ref, n)
    <3>1. NodesCorrespond(e.q, e.g, m.match, CorrespondsAt(e, m.match, k - 1), ref, n)
      BY <1>4, <2>1, <2>2 DEF NodesCorrespond
    <3> QED BY <1>4, <3>1, NodeDone
  <2> QED BY <2>1, <2>2 DEF m
<1>5. CASE Both("if") /\ m = match_if(below, e.q.nodes[ref], e.g.nodes[n], st)
  <2>1. /\ Stage(e, st, m)
        /\ Goes(m) => /\ Len(e.q.nodes[ref].conds) = Len(e.g.nodes[n].conds)
                      /\ e.q.nodes[ref].hasElse = e.g.nodes[n].hasElse
                      /\ \A i \in 1 .. Len(e.q.nodes[ref].conds) :
                           BranchDone(e, k - 1, m.match, e.q.nodes[ref], e.g.nodes[n], i)
    BY <1>0, <1>5, MatchIfDone
  <2>2. ASSUME Goes(m) PROVE Done(e, k, m.match, ref, n)
    <3>1. Good(e, m)
      BY <2>1 DEF Stage
    <3>2. IfsCorrespond(m.match, CorrespondsAt(e, m.match, k - 1), e.q.nodes[ref], e.g.nodes[n])
      BY <1>0, <1>5, <2>1, <2>2, <3>1, IfsDone
    <3>3. NodesCorrespond(e.q, e.g, m.match, CorrespondsAt(e, m.match, k - 1), ref, n)
      BY <1>5, <3>2 DEF NodesCorrespond
    <3> QED BY <1>5, <3>3, NodeDone
  <2> QED BY <2>1, <2>2 DEF m
<1>6. CASE m = Fail(st)
  <2>1. Stage(e, st, m) /\ ~ Goes(m)
    BY <1>6, FailFacts
  <2> QED BY <2>1 DEF m
<1> QED BY <1>1, <1>2, <1>3, <1>4, <1>5, <1>6

-----------------------------------------------------------------------------
(* The levels of Recursion, each of which calls the one before. *)
Levels(e, f) ==
  /\ f[0] = [c \in Calls(e) |-> Overrun(c.st)]
  /\ \A k \in 1 .. MaxDepth : f[k] = [c \in Calls(e) |-> match_node(e, f[k - 1], c.ref, c.n, c.st)]

LEMMA RecursionUnfolds ==
  ASSUME NEW e, IsPair(e)
  PROVE  \E f : Levels(e, f) /\ Recursion(e) = f[MaxDepth]
<1> DEFINE S == [Calls(e) -> SearchStates(e)]
           b == [c \in Calls(e) |-> Overrun(c.st)]
           level[k \in 0 .. MaxDepth] ==
             [c \in Calls(e) |-> IF k = 0 THEN Overrun(c.st) ELSE match_node(e, level[k - 1], c.ref, c.n, c.st)]
           F == [x \in (1 .. MaxDepth) \X S |-> [c \in Calls(e) |-> match_node(e, x[2], c.ref, c.n, c.st)]]
           Is(g) == g = [k \in 0 .. MaxDepth |->
                           [c \in Calls(e) |-> IF k = 0 THEN Overrun(c.st)
                                               ELSE match_node(e, g[k - 1], c.ref, c.n, c.st)]]
<1>0. MaxDepth \in Nat /\ 0 \in 0 .. MaxDepth /\ MaxDepth \in 0 .. MaxDepth
  BY MaxDepthAssumption
<1>a. \A c \in Calls(e) : c.ref \in Everything(e.q) /\ c.n \in Everything(e.g) /\ c.st \in SearchStates(e)
  BY DEF Calls
<1>1. F \in [(1 .. MaxDepth) \X S -> S]
  <2>1. \A below \in S : \A c \in Calls(e) : match_node(e, below, c.ref, c.n, c.st) \in SearchStates(e)
    BY <1>a, MatchNodeType
  <2>2. \A below \in S : [c \in Calls(e) |-> match_node(e, below, c.ref, c.n, c.st)] \in S
    BY <2>1
  <2> HIDE DEF S
  <2> QED BY <2>2
<1>b. b \in S
  BY <1>a, OperationTypes
<1>2. PICK f \in [0 .. MaxDepth -> S] : Loop(f, MaxDepth, b, F)
  <2> HIDE DEF F, S, b
  <2> QED BY <1>0, <1>1, <1>b, LoopExists
<1>3. ASSUME NEW k \in 1 .. MaxDepth
      PROVE  f[k] = [c \in Calls(e) |-> match_node(e, f[k - 1], c.ref, c.n, c.st)]
  <2>1. k - 1 \in 0 .. MaxDepth
    BY <1>0
  <2>2. <<k, f[k - 1]>> \in (1 .. MaxDepth) \X S
    BY <2>1
  <2>3. f[k] = F[<<k, f[k - 1]>>]
    BY <1>2 DEF Loop
  <2> HIDE DEF S
  <2> QED BY <2>2, <2>3
<1>4. Is(f)
  <2> SUFFICES ASSUME NEW k \in 0 .. MaxDepth
               PROVE  f[k] = [c \in Calls(e) |-> IF k = 0 THEN Overrun(c.st)
                                                 ELSE match_node(e, f[k - 1], c.ref, c.n, c.st)]
    OBVIOUS
  <2>1. CASE k = 0   BY <2>1, <1>2 DEF Loop
  <2>2. CASE k # 0
    <3>1. k \in 1 .. MaxDepth
      BY <2>2, <1>0
    <3> QED BY <2>2, <3>1, <1>3
  <2> QED BY <2>1, <2>2
<1>5. level = CHOOSE g : Is(g)
  OBVIOUS
<1>6. Is(level)
  <2> HIDE DEF level, Is
  <2> QED BY <1>4, <1>5
<1>7. Recursion(e) = level[MaxDepth]
  BY DEF Recursion
<1>8. Levels(e, level)
  <2> HIDE DEF level
  <2>1. level[0] = b
    BY <1>6, <1>0
  <2>2. ASSUME NEW k \in 1 .. MaxDepth
        PROVE  level[k] = [c \in Calls(e) |-> match_node(e, level[k - 1], c.ref, c.n, c.st)]
    <3>1. k \in 0 .. MaxDepth /\ k # 0
      BY <1>0
    <3>2. level[k] = [c \in Calls(e) |-> IF k = 0 THEN Overrun(c.st)
                                         ELSE match_node(e, level[k - 1], c.ref, c.n, c.st)]
      BY <1>6, <3>1
    <3> QED BY <3>1, <3>2
  <2> QED BY <2>1, <2>2 DEF Levels
<1> HIDE DEF level
<1> QED BY <1>7, <1>8

(* What search_recurse promises, however deep the calls nest. *)
LEMMA RecursionDone ==
  ASSUME NEW e, IsPair(e)
  PROVE  Hyp(e, MaxDepth, Recursion(e))
<1>0. MaxDepth \in Nat
  BY MaxDepthAssumption
<1>1. PICK f : Levels(e, f) /\ Recursion(e) = f[MaxDepth]
  BY RecursionUnfolds
<1>a. \A c \in Calls(e) : c.ref \in Everything(e.q) /\ c.n \in Everything(e.g) /\ c.st \in SearchStates(e)
  BY DEF Calls
<1>b. \A g, ref, n, st : search_recurse(g, ref, n, st) = g[[ref |-> ref, n |-> n, st |-> st]]
  BY DEF search_recurse
<1>c. \A ref \in Everything(e.q), n \in Everything(e.g), st \in SearchStates(e) :
        [ref |-> ref, n |-> n, st |-> st] \in Calls(e)
  BY DEF Calls
<1> DEFINE T == {k \in 0 .. MaxDepth : Hyp(e, k, f[k])}
<1>2. 0 \in T
  <2>1. f[0] = [c \in Calls(e) |-> Overrun(c.st)]
    BY <1>1 DEF Levels
  <2>2. f[0] \in [Calls(e) -> SearchStates(e)]
    BY <2>1, <1>a, OperationTypes
  <2>3. ASSUME NEW ref \in Everything(e.q), NEW n \in Everything(e.g), NEW st \in SearchStates(e), Good(e, st)
        PROVE  /\ Stage(e, st, search_recurse(f[0], ref, n, st))
               /\ ~ Goes(search_recurse(f[0], ref, n, st))
    <3> DEFINE c == [ref |-> ref, n |-> n, st |-> st]
    <3>1. c \in Calls(e) /\ c.st = st
      BY <1>c
    <3> HIDE DEF c
    <3>2. f[0][c] = Overrun(st)
      BY <2>1, <3>1
    <3>3. search_recurse(f[0], ref, n, st) = Overrun(st)
      BY <3>2, <1>b DEF c
    <3> QED BY <2>3, <3>3, OverrunFacts
  <2>4. Hyp(e, 0, f[0])
    BY <2>2, <2>3 DEF Hyp
  <2> QED BY <2>4, <1>0
<1>3. \A k \in 1 .. MaxDepth : k - 1 \in T => k \in T
  <2> SUFFICES ASSUME NEW k \in 1 .. MaxDepth, k - 1 \in T PROVE Hyp(e, k, f[k])
    BY <1>0
  <2> DEFINE a == f[k - 1]
             b == f[k]
  <2>1. Hyp(e, k - 1, a) /\ a \in [Calls(e) -> SearchStates(e)]
    BY DEF Hyp
  <2>2. b = [c \in Calls(e) |-> match_node(e, a, c.ref, c.n, c.st)]
    BY <1>1 DEF Levels
  <2> HIDE DEF a, b
  <2>3. b \in [Calls(e) -> SearchStates(e)]
    <3>1. \A c \in Calls(e) : match_node(e, a, c.ref, c.n, c.st) \in SearchStates(e)
      BY <1>a, <2>1, MatchNodeType
    <3> QED BY <2>2, <3>1
  <2>4. ASSUME NEW ref \in Everything(e.q), NEW n \in Everything(e.g), NEW st \in SearchStates(e),
               Good(e, st), Goes(st)
        PROVE  /\ Stage(e, st, search_recurse(b, ref, n, st))
               /\ Goes(search_recurse(b, ref, n, st)) =>
                    Done(e, k, search_recurse(b, ref, n, st).match, ref, n)
    <3> DEFINE c == [ref |-> ref, n |-> n, st |-> st]
               m == match_node(e, a, ref, n, st)
    <3>1. c \in Calls(e) /\ c.st = st /\ c.ref = ref /\ c.n = n
      BY <1>c
    <3> HIDE DEF c
    <3>2. b[c] = m
      BY <2>2, <3>1
    <3>3. search_recurse(b, ref, n, st) = m
      BY <3>2, <1>b DEF c
    <3>4. Stage(e, st, m) /\ (Goes(m) => Done(e, k, m.match, ref, n))
      BY <2>1, <2>4, MatchNodeDone
    <3> HIDE DEF m
    <3> QED BY <3>3, <3>4
  <2>5. Hyp(e, k, b)
    BY <2>3, <2>4 DEF Hyp
  <2> QED BY <2>5 DEF b
<1>4. MaxDepth \in T
  <2> HIDE DEF T
  <2> QED BY <1>0, <1>2, <1>3, AfterTheTurns
<1> QED BY <1>1, <1>4

(* A search that succeeds and has left nothing of a failed branch maps the *)
(* first net to the root, and every entry of its match is an image.        *)
LEMMA SearchFromDone ==
  ASSUME NEW e, IsPair(e), e.q.order # << >>, NEW root \in DOMAIN e.g.nets
  PROVE  LET r == SearchFrom(e, root)
         IN  /\ r \in SearchStates(e)
             /\ Goes(r) => r.match[e.q.order[1]] = root
             /\ Goes(r) /\ r.stale = {} => \A x \in Matched(r) : ImageOf(e.q, e.g, r.match, x)
<1> DEFINE r == SearchFrom(e, root)
           first == e.q.order[1]
<1>1. first \in DOMAIN e.q.nets
  BY DEF IsPair, IsGraph
<1>2. Hyp(e, MaxDepth, Recursion(e)) /\ MaxDepth \in 0 .. MaxDepth
  BY RecursionDone, MaxDepthAssumption
<1>3. Good(e, NewContext(e)) /\ Matched(NewContext(e)) = {} /\ Goes(NewContext(e))
  BY NewContextFacts
<1>4. r = match_net(e, Recursion(e), first, root, NewContext(e))
  BY DEF SearchFrom
<1> HIDE DEF r, first
<1>5. Stage(e, NewContext(e), r) /\ (Goes(r) => r.match[first] = root)
  BY <1>1, <1>2, <1>3, <1>4, MatchNetDone
<1>6. Goes(r) /\ r.stale = {} => \A x \in Matched(r) : ImageOf(e.q, e.g, r.match, x)
  BY <1>3, <1>5 DEF Stage, Sound
<1>7. r \in SearchStates(e)
  BY <1>5 DEF Stage, Good
<1> QED BY <1>5, <1>6, <1>7 DEF r, first

-----------------------------------------------------------------------------
(* The levels of Named. *)
NamedLevels(q, f) ==
  /\ f[0] = [m \in DOMAIN q.nodes |-> {}]
  /\ \A k \in 1 .. MaxDepth : f[k] = [m \in DOMAIN q.nodes |-> NamedNext(q, f[k - 1], m)]

(* A node of a graph names nets. *)
LEMMA NamedNextType ==
  ASSUME NEW q, IsGraph(q), NEW below \in [DOMAIN q.nodes -> SUBSET DOMAIN q.nets], NEW n \in DOMAIN q.nodes
  PROVE  NamedNext(q, below, n) \in SUBSET DOMAIN q.nets
<1> DEFINE r == q.nodes[n]
<1>1. /\ r.kind \in {"call", "assign", "if"}
      /\ r.args \in Seq(DOMAIN q.nets) /\ r.conds \in Seq(DOMAIN q.nets) /\ r.arms \in Seq(Seq(DOMAIN q.nodes))
      /\ r.kind = "call" => r.res \in DOMAIN q.nets
      /\ r.kind = "assign" => r.dst \in DOMAIN q.nets /\ r.src \in DOMAIN q.nets
      /\ r.kind = "if" => Len(r.arms) = Len(r.conds) + 1
  BY NodeFacts
<1>2. NamedNext(q, below, n) =
        CASE r.kind = "call" -> {r.res} \cup ToSet(r.args)
          [] r.kind = "assign" -> {r.dst, r.src}
          [] r.kind = "if" -> ToSet(r.conds) \cup UNION {UNION {below[m] : m \in ToSet(r.arms[i])} : i \in DOMAIN r.conds}
  BY DEF NamedNext
<1> HIDE DEF r
<1>3. ToSet(r.args) \subseteq DOMAIN q.nets /\ ToSet(r.conds) \subseteq DOMAIN q.nets
  BY <1>1 DEF ToSet
<1>4. CASE r.kind = "call"   BY <1>1, <1>2, <1>3, <1>4
<1>5. CASE r.kind = "assign"   BY <1>1, <1>2, <1>5
<1>6. CASE r.kind = "if"
  <2>1. \A i \in DOMAIN r.conds : \A m \in ToSet(r.arms[i]) : below[m] \in SUBSET DOMAIN q.nets
    <3> SUFFICES ASSUME NEW i \in DOMAIN r.conds, NEW m \in ToSet(r.arms[i]) PROVE m \in DOMAIN q.nodes
      OBVIOUS
    <3>1. i \in 1 .. Len(r.arms)
      BY <1>1, <1>6
    <3>2. r.arms[i] \in Seq(DOMAIN q.nodes)
      BY <3>1, <1>1
    <3> QED BY <3>2 DEF ToSet
  <2>2. UNION {UNION {below[m] : m \in ToSet(r.arms[i])} : i \in DOMAIN r.conds} \in SUBSET DOMAIN q.nets
    BY <2>1
  <2> QED BY <1>2, <1>3, <1>6, <2>2
<1> QED BY <1>1, <1>4, <1>5, <1>6

LEMMA NamedUnfolds ==
  ASSUME NEW q, IsGraph(q)
  PROVE  \E f : NamedLevels(q, f) /\ \A n \in DOMAIN q.nodes : Named(q, n) = f[MaxDepth][n]
<1> DEFINE S == [DOMAIN q.nodes -> SUBSET DOMAIN q.nets]
           b == [m \in DOMAIN q.nodes |-> {}]
           named[k \in 0 .. MaxDepth] ==
             [m \in DOMAIN q.nodes |-> IF k = 0 THEN {} ELSE NamedNext(q, named[k - 1], m)]
           F == [x \in (1 .. MaxDepth) \X S |-> [m \in DOMAIN q.nodes |-> NamedNext(q, x[2], m)]]
           Is(g) == g = [k \in 0 .. MaxDepth |->
                           [m \in DOMAIN q.nodes |-> IF k = 0 THEN {} ELSE NamedNext(q, g[k - 1], m)]]
<1>0. MaxDepth \in Nat /\ 0 \in 0 .. MaxDepth /\ MaxDepth \in 0 .. MaxDepth
  BY MaxDepthAssumption
<1>1. F \in [(1 .. MaxDepth) \X S -> S]
  <2>1. \A below \in S : \A m \in DOMAIN q.nodes : NamedNext(q, below, m) \in SUBSET DOMAIN q.nets
    BY NamedNextType
  <2>2. \A below \in S : [m \in DOMAIN q.nodes |-> NamedNext(q, below, m)] \in S
    BY <2>1
  <2> HIDE DEF S
  <2> QED BY <2>2
<1>b. b \in S
  OBVIOUS
<1>2. PICK f \in [0 .. MaxDepth -> S] : Loop(f, MaxDepth, b, F)
  <2> HIDE DEF F, S, b
  <2> QED BY <1>0, <1>1, <1>b, LoopExists
<1>3. ASSUME NEW k \in 1 .. MaxDepth PROVE f[k] = [m \in DOMAIN q.nodes |-> NamedNext(q, f[k - 1], m)]
  <2>1. k - 1 \in 0 .. MaxDepth
    BY <1>0
  <2>2. <<k, f[k - 1]>> \in (1 .. MaxDepth) \X S
    BY <2>1
  <2>3. f[k] = F[<<k, f[k - 1]>>]
    BY <1>2 DEF Loop
  <2> HIDE DEF S
  <2> QED BY <2>2, <2>3
<1>4. Is(f)
  <2> SUFFICES ASSUME NEW k \in 0 .. MaxDepth
               PROVE  f[k] = [m \in DOMAIN q.nodes |-> IF k = 0 THEN {} ELSE NamedNext(q, f[k - 1], m)]
    OBVIOUS
  <2>1. CASE k = 0   BY <2>1, <1>2 DEF Loop
  <2>2. CASE k # 0
    <3>1. k \in 1 .. MaxDepth
      BY <2>2, <1>0
    <3> QED BY <2>2, <3>1, <1>3
  <2> QED BY <2>1, <2>2
<1>5. named = CHOOSE g : Is(g)
  OBVIOUS
<1>6. Is(named)
  <2> HIDE DEF named, Is
  <2> QED BY <1>4, <1>5
<1>7. \A n \in DOMAIN q.nodes : Named(q, n) = named[MaxDepth][n]
  BY DEF Named
<1>8. NamedLevels(q, named)
  <2> HIDE DEF named
  <2>1. named[0] = b
    BY <1>6, <1>0
  <2>2. ASSUME NEW k \in 1 .. MaxDepth PROVE named[k] = [m \in DOMAIN q.nodes |-> NamedNext(q, named[k - 1], m)]
    <3>1. k \in 0 .. MaxDepth /\ k # 0
      BY <1>0
    <3>2. named[k] = [m \in DOMAIN q.nodes |-> IF k = 0 THEN {} ELSE NamedNext(q, named[k - 1], m)]
      BY <1>6, <3>1
    <3> QED BY <3>1, <3>2
  <2> QED BY <2>1, <2>2 DEF NamedLevels
<1> HIDE DEF named
<1> QED BY <1>7, <1>8

LEMMA MapsWithin ==
  ASSUME NEW h, NEW refs, NEW ns, Maps(h, refs, ns)
  PROVE  ToSet(refs) \subseteq DOMAIN h
BY DEF Maps, ToSet

(* A node that corresponds names only what the match holds, as deep as its *)
(* names are looked for, when the calls in the match are images.           *)
LEMMA NamesMatched ==
  ASSUME NEW e, IsPair(e), NEW h, \A x \in DOMAIN h : ImageOf(e.q, e.g, h, x),
         NEW f, NamedLevels(e.q, f), NEW k \in 0 .. MaxDepth, NEW p \in Pairs(e), CorrespondsAt(e, h, k)[p]
  PROVE  f[MaxDepth][p[1]] \subseteq DOMAIN h
<1> DEFINE Within1(i, j) == \A x \in Pairs(e) : CorrespondsAt(e, h, i)[x] => f[j][x[1]] \subseteq DOMAIN h
           T == {i \in 0 .. MaxDepth : \A j \in 0 .. MaxDepth : Within1(i, j)}
<1>0. MaxDepth \in Nat /\ IsGraph(e.q) /\ IsGraph(e.g)
  BY MaxDepthAssumption DEF IsPair
<1>1. 0 \in T
  BY <1>0, CorrespondsNowhere
<1>2. \A i \in 1 .. MaxDepth : i - 1 \in T => i \in T
  <2> SUFFICES ASSUME NEW i \in 1 .. MaxDepth, i - 1 \in T, NEW j \in 0 .. MaxDepth,
                      NEW x \in Pairs(e), CorrespondsAt(e, h, i)[x]
               PROVE  f[j][x[1]] \subseteq DOMAIN h
    BY <1>0
  <2> DEFINE ref == x[1]
             n == x[2]
             r == e.q.nodes[ref]
             g == e.g.nodes[n]
             b == CorrespondsAt(e, h, i - 1)
  <2>1. ref \in DOMAIN e.q.nodes /\ n \in DOMAIN e.g.nodes
    BY DEF Pairs
  <2>2. NodesCorrespond(e.q, e.g, h, b, ref, n)
    BY CorrespondsNext
  <2>3. CASE j = 0
    <3>1. f[0] = [m \in DOMAIN e.q.nodes |-> {}]
      BY DEF NamedLevels
    <3>2. f[0][ref] = {}
      BY <2>1, <3>1
    <3> QED BY <2>3, <3>2
  <2>4. CASE j # 0
    <3> DEFINE l == f[j - 1]
    <3>1. j \in 1 .. MaxDepth /\ j - 1 \in 0 .. MaxDepth
      BY <2>4, <1>0
    <3>2. f[j] = [m \in DOMAIN e.q.nodes |-> NamedNext(e.q, l, m)]
      BY <3>1 DEF NamedLevels
    <3> HIDE DEF l
    <3>3. f[j][ref] = NamedNext(e.q, l, ref)
      BY <3>2, <2>1
    <3>4. \A y \in Pairs(e) : b[y] => l[y[1]] \subseteq DOMAIN h
      BY <3>1 DEF l
    <3>5. /\ r.kind \in {"call", "assign", "if"} /\ r.kind = g.kind
      BY <1>0, <2>1, <2>2, NodeFacts DEF NodesCorrespond
    <3>6. CASE r.kind = "call"
      <4>1. Maps(h, <<ref>>, <<n>>)
        BY <2>2, <3>6 DEF NodesCorrespond
      <4>2. ref \in DOMAIN h /\ h[ref] = n
        BY <4>1 DEF Maps
      <4>3. ImageOf(e.q, e.g, h, ref) /\ ref \notin DOMAIN e.q.nets
        BY <4>2, <2>1, <1>0 DEF IsGraph
      <4>4. CallsCorrespond(h, r, g)
        BY <4>2, <4>3 DEF ImageOf
      <4>5. r.args \in Seq(DOMAIN e.q.nets)
        BY <1>0, <2>1, NodeFacts
      <4>6. NamedNext(e.q, l, ref) = {r.res} \cup ToSet(r.args)
        BY <3>6 DEF NamedNext
      <4> HIDE DEF r, g
      <4>7. ToSet(<<r.res>> \o r.args) \subseteq DOMAIN h
        BY <4>4, MapsWithin DEF CallsCorrespond
      <4>8. {r.res} \cup ToSet(r.args) \subseteq ToSet(<<r.res>> \o r.args)
        <5> DEFINE s == <<r.res>> \o r.args
        <5>1. /\ Len(s) = Len(r.args) + 1 /\ DOMAIN s = 1 .. Len(s) /\ s[1] = r.res
              /\ \A m \in 1 .. Len(r.args) : s[m + 1] = r.args[m]
          BY <4>5
        <5> HIDE DEF s
        <5>2. r.res \in ToSet(s)
          BY <5>1, <4>5 DEF ToSet
        <5>3. ASSUME NEW y \in ToSet(r.args) PROVE y \in ToSet(s)
          <6>1. PICK m \in 1 .. Len(r.args) : r.args[m] = y
            BY <4>5 DEF ToSet
          <6>2. m + 1 \in DOMAIN s /\ s[m + 1] = y
            BY <6>1, <5>1, <4>5
          <6> QED BY <6>2 DEF ToSet
        <5> QED BY <5>2, <5>3 DEF s
      <4> QED BY <3>3, <4>6, <4>7, <4>8
    <3>7. CASE r.kind = "assign"
      <4>1. Maps(h, <<r.dst, r.src>>, <<g.dst, g.src>>)
        BY <2>2, <3>7 DEF NodesCorrespond
      <4>2. NamedNext(e.q, l, ref) = {r.dst, r.src}
        BY <3>7 DEF NamedNext
      <4> HIDE DEF r, g
      <4>3. ToSet(<<r.dst, r.src>>) \subseteq DOMAIN h
        BY <4>1, MapsWithin
      <4>4. r.dst \in ToSet(<<r.dst, r.src>>) /\ r.src \in ToSet(<<r.dst, r.src>>)
        BY DEF ToSet
      <4> QED BY <3>3, <4>2, <4>3, <4>4
    <3>8. CASE r.kind = "if"
      <4>1. IfsCorrespond(h, b, r, g)
        BY <2>2, <3>8 DEF NodesCorrespond
      <4>2. ToSet(r.conds) \subseteq DOMAIN h
        <5> HIDE DEF r, g
        <5> QED BY <4>1, MapsWithin DEF IfsCorrespond
      <4>3. NamedNext(e.q, l, ref) =
              ToSet(r.conds) \cup UNION {UNION {l[m] : m \in ToSet(r.arms[z])} : z \in DOMAIN r.conds}
        BY <3>8 DEF NamedNext
      <4>4. ASSUME NEW z \in DOMAIN r.conds, NEW m \in ToSet(r.arms[z]) PROVE l[m] \subseteq DOMAIN h
        <5> DEFINE ra == r.arms[z]
                   ga == IF z = 1 THEN Last(g.arms) ELSE g.arms[z]
        <5>1. ra \in Seq(DOMAIN e.q.nodes) /\ ga \in Seq(DOMAIN e.g.nodes)
          <6>1. Len(r.conds) = Len(g.conds)
            BY <4>1 DEF IfsCorrespond
          <6> QED BY <6>1, <1>0, <2>1, <3>5, <3>8, ArmFacts
        <5>2. AllCorrespond(b, ra, ga)
          BY <4>1 DEF IfsCorrespond
        <5> HIDE DEF ra, ga, b, l
        <5>3. PICK y \in DOMAIN ra : ra[y] = m
          BY DEF ToSet, ra
        <5>4. ra[y] \in DOMAIN e.q.nodes /\ ga[y] \in DOMAIN e.g.nodes
          BY <5>1, <5>2 DEF AllCorrespond
        <5>5. b[<<ra[y], ga[y]>>]
          BY <5>2 DEF AllCorrespond
        <5>6. l[ra[y]] \subseteq DOMAIN h
          <6> DEFINE pr == <<ra[y], ga[y]>>
          <6>1. pr \in Pairs(e) /\ pr[1] = ra[y] /\ b[pr]
            BY <5>4, <5>5 DEF Pairs
          <6> HIDE DEF pr
          <6> QED BY <6>1, <3>4
        <5> QED BY <5>3, <5>6
      <4>5. UNION {UNION {l[m] : m \in ToSet(r.arms[z])} : z \in DOMAIN r.conds} \subseteq DOMAIN h
        <5> HIDE DEF r
        <5> QED BY <4>4
      <4> QED BY <3>3, <4>2, <4>3, <4>5
    <3> QED BY <3>5, <3>6, <3>7, <3>8
  <2> QED BY <2>3, <2>4
<1>3. k \in T
  <2> HIDE DEF T
  <2> QED BY <1>0, <1>1, <1>2, TurnInduction
<1> QED BY <1>0, <1>3

LEMMA NamedType ==
  ASSUME NEW q, IsGraph(q), NEW n \in DOMAIN q.nodes
  PROVE  Named(q, n) \subseteq DOMAIN q.nets
<1>1. PICK f : NamedLevels(q, f) /\ \A m \in DOMAIN q.nodes : Named(q, m) = f[MaxDepth][m]
  BY NamedUnfolds
<1> DEFINE T == {k \in 0 .. MaxDepth : f[k] \in [DOMAIN q.nodes -> SUBSET DOMAIN q.nets]}
<1>0. MaxDepth \in Nat
  BY MaxDepthAssumption
<1>2. 0 \in T
  BY <1>0, <1>1 DEF NamedLevels
<1>3. \A k \in 1 .. MaxDepth : k - 1 \in T => k \in T
  <2> SUFFICES ASSUME NEW k \in 1 .. MaxDepth, k - 1 \in T
               PROVE  f[k] \in [DOMAIN q.nodes -> SUBSET DOMAIN q.nets]
    BY <1>0
  <2>1. f[k] = [m \in DOMAIN q.nodes |-> NamedNext(q, f[k - 1], m)]
    BY <1>1 DEF NamedLevels
  <2>2. f[k - 1] \in [DOMAIN q.nodes -> SUBSET DOMAIN q.nets]
    OBVIOUS
  <2>3. \A m \in DOMAIN q.nodes : NamedNext(q, f[k - 1], m) \in SUBSET DOMAIN q.nets
    BY <2>2, NamedNextType
  <2> QED BY <2>1, <2>3
<1>4. MaxDepth \in T
  <2> HIDE DEF T
  <2> QED BY <1>0, <1>2, <1>3, AfterTheTurns
<1>5. f[MaxDepth][n] \in SUBSET DOMAIN q.nets
  BY <1>4
<1> QED BY <1>1, <1>5

(* The nets of the match are closed under what the search follows, so a    *)
(* match of a connected query holds all that its nodes name.               *)
LEMMA MatchIsWhole ==
  ASSUME NEW e, IsPair(e), e.q.order # << >>, Connected(e.q), NEW h,
         e.q.order[1] \in DOMAIN h, \A x \in DOMAIN h : ImageOf(e.q, e.g, h, x)
  PROVE  NamedByNodes(e.q) \subseteq DOMAIN h
<1> DEFINE S == DOMAIN h \cap DOMAIN e.q.nets
           q == e.q
           c == Correspondence(e.q, e.g, h)
<1>0. IsGraph(e.q) /\ IsGraph(e.g) /\ MaxDepth \in 0 .. MaxDepth
  BY MaxDepthAssumption DEF IsPair
<1>1. e.q.order[1] \in S
  BY <1>0 DEF IsGraph
<1>2. PICK f : NamedLevels(e.q, f) /\ \A n \in DOMAIN e.q.nodes : Named(e.q, n) = f[MaxDepth][n]
  BY <1>0, NamedUnfolds
<1>3. ASSUME NEW ref \in S, NEW n \in Followed(e.q, ref) PROVE Named(e.q, n) \subseteq S
  <2> DEFINE r == e.q.nets[ref]
             g == e.g.nets[h[ref]]
  <2>1. ImageOf(e.q, e.g, h, ref) /\ ref \notin DOMAIN e.q.nodes
    BY <1>0 DEF IsGraph
  <2>2. h[ref] \in DOMAIN e.g.nets /\ NetsCorrespond(c, r, g)
    BY <2>1 DEF ImageOf, CallNodes
  <2>3. /\ r.drivers \in Seq(DOMAIN e.q.nodes) /\ r.endpoints \in Seq(DOMAIN e.q.nodes)
        /\ g.drivers \in Seq(DOMAIN e.g.nodes) /\ g.endpoints \in Seq(DOMAIN e.g.nodes)
    BY <1>0, <2>2, NetFacts
  <2>4. \/ r.direction # "in" /\ n \in ToSet(r.drivers)
        \/ r.direction # "out" /\ n \in ToSet(r.endpoints)
    BY DEF Followed
  <2> HIDE DEF r, g, c
  <2>5. \A rs \in Seq(DOMAIN e.q.nodes), gs \in Seq(DOMAIN e.g.nodes) :
          Within(c, rs, gs) /\ n \in ToSet(rs) => \E m \in DOMAIN e.g.nodes : c[<<n, m>>] /\ n \in DOMAIN e.q.nodes
    <3> SUFFICES ASSUME NEW rs \in Seq(DOMAIN e.q.nodes), NEW gs \in Seq(DOMAIN e.g.nodes),
                        Within(c, rs, gs), n \in ToSet(rs)
                 PROVE  \E m \in DOMAIN e.g.nodes : c[<<n, m>>] /\ n \in DOMAIN e.q.nodes
      OBVIOUS
    <3>1. PICK i \in DOMAIN rs : rs[i] = n
      BY DEF ToSet
    <3>2. PICK j \in DOMAIN gs : c[<<rs[i], gs[j]>>]
      BY DEF Within
    <3>3. gs[j] \in DOMAIN e.g.nodes /\ n \in DOMAIN e.q.nodes
      BY <3>1
    <3> QED BY <3>1, <3>2, <3>3
  <2>6. \E m \in DOMAIN e.g.nodes : c[<<n, m>>] /\ n \in DOMAIN e.q.nodes
    BY <2>2, <2>3, <2>4, <2>5 DEF NetsCorrespond
  <2>7. PICK m \in DOMAIN e.g.nodes : c[<<n, m>>] /\ n \in DOMAIN e.q.nodes
    BY <2>6
  <2> DEFINE p == <<n, m>>
  <2>8. p \in Pairs(e) /\ p[1] = n /\ CorrespondsAt(e, h, MaxDepth)[p]
    <3>1. p \in Pairs(e) /\ p[1] = n
      BY <2>7 DEF Pairs
    <3>2. c = CorrespondsAt(e, h, MaxDepth)
      BY CorrespondenceEnd DEF c
    <3> QED BY <2>7, <3>1, <3>2
  <2> HIDE DEF p
  <2>9. f[MaxDepth][n] \subseteq DOMAIN h
    BY <1>0, <1>2, <2>8, NamesMatched
  <2>10. Named(e.q, n) \subseteq DOMAIN h
    BY <1>2, <2>7, <2>9
  <2>11. Named(e.q, n) \subseteq DOMAIN e.q.nets
    BY <1>0, <2>7, NamedType
  <2> QED BY <2>10, <2>11
<1>4. S \in SUBSET DOMAIN e.q.nets
  OBVIOUS
<1> HIDE DEF S
<1>5. NamedByNodes(e.q) \subseteq S
  BY <1>1, <1>3, <1>4 DEF Connected
<1> QED BY <1>5 DEF S

-----------------------------------------------------------------------------
(* One try of the search keeps what MatchesHold says of it. *)
Holds(q, g, t) ==
  t.found /\ t.stale = {} =>
    /\ q.order[1] \in DOMAIN t.match /\ t.match[q.order[1]] = t.root
    /\ \A ref \in DOMAIN t.match : ImageOf(q, g, t.match, ref)
    /\ NamedByNodes(q) \subseteq DOMAIN t.match \/ ~ Connected(q)

LEMMA TryHolds ==
  ASSUME NEW e, IsPair(e), e.q.order # << >>, NEW root \in DOMAIN e.g.nets
  PROVE  Holds(e.q, e.g, Try(root, SearchFrom(e, root)))
<1> DEFINE r == SearchFrom(e, root)
           first == e.q.order[1]
           h == Restrict(r.match, Matched(r))
           t == Try(root, r)
<1>0. first \in DOMAIN e.q.nets /\ root # NoNode
  BY DEF IsPair, IsGraph, Everything
<1>1. /\ r \in SearchStates(e)
      /\ Goes(r) => r.match[first] = root
      /\ Goes(r) /\ r.stale = {} => \A x \in Matched(r) : ImageOf(e.q, e.g, r.match, x)
  BY SearchFromDone
<1>2. t.root = root /\ t.found = Goes(r) /\ t.match = h /\ t.stale = r.stale
  BY DEF Try
<1> HIDE DEF r, first
<1>3. DOMAIN h = Matched(r) /\ \A x \in Matched(r) : h[x] = r.match[x]
  BY DEF Restrict
<1>4. /\ Matched(r) = {x \in Everything(e.q) : r.match[x] # NoNode}
      /\ DOMAIN r.match = Everything(e.q)
  BY <1>1, StateFields
<1> HIDE DEF h, t
<1>5. Extends(r.match, h)
  BY <1>3, <1>4 DEF Extends
<1>6. ASSUME Goes(r), r.stale = {}
      PROVE  /\ first \in DOMAIN h /\ h[first] = root
             /\ \A x \in DOMAIN h : ImageOf(e.q, e.g, h, x)
  <2>1. first \in Matched(r)
    BY <1>0, <1>1, <1>4, <1>6 DEF Everything
  <2>2. ASSUME NEW x \in DOMAIN h PROVE ImageOf(e.q, e.g, h, x)
    <3>1. x \in Matched(r) /\ x \in DOMAIN r.match
      BY <1>3, <1>4
    <3>2. ImageOf(e.q, e.g, r.match, x)
      BY <3>1, <1>1, <1>6
    <3> QED BY <3>1, <3>2, <1>5, ImageStays
  <2> QED BY <2>1, <2>2, <1>1, <1>3, <1>6
<1>7. ASSUME Goes(r), r.stale = {}, Connected(e.q) PROVE NamedByNodes(e.q) \subseteq DOMAIN h
  BY <1>6, <1>7, MatchIsWhole DEF first
<1> QED BY <1>2, <1>6, <1>7 DEF Holds, first, r, t

(* The inductive invariant: the search goes through the nets of one of the *)
(* netlists, and every try so far holds.                                   *)
Tries(q, g) ==
  [root : DOMAIN g.nets, found : BOOLEAN,
   match : UNION {[D -> Everything(g) \cup {NoNode}] : D \in SUBSET Everything(q)},
   stale : SUBSET Everything(q), guessed : BOOLEAN]

SearchInv ==
  /\ \E s \in Searches : query = s.query /\ netlist = s.netlist
  /\ todo \in Seq(DOMAIN netlist.nets)
  /\ tries \in Seq(Tries(query, netlist))
  /\ crashed \in BOOLEAN
  /\ \A i \in 1 .. Len(tries) : Holds(query, netlist, tries[i])

LEMMA TryType ==
  ASSUME NEW e, NEW root \in DOMAIN e.g.nets, NEW r \in SearchStates(e)
  PROVE  Try(root, r) \in Tries(e.q, e.g)
<1> DEFINE h == Restrict(r.match, Matched(r))
           M == UNION {[D -> Everything(e.g) \cup {NoNode}] : D \in SUBSET Everything(e.q)}
<1>1. /\ Matched(r) \in SUBSET Everything(e.q)
      /\ \A x \in Matched(r) : r.match[x] \in Everything(e.g) \cup {NoNode}
  BY StateFields
<1>2. h \in [Matched(r) -> Everything(e.g) \cup {NoNode}]
  BY <1>1 DEF Restrict
<1>3. h \in M
  BY <1>1, <1>2
<1>4. Goes(r) \in BOOLEAN /\ r.stale \in SUBSET Everything(e.q) /\ r.guessed \in BOOLEAN
  BY StateFields DEF Goes
<1> HIDE DEF h, M
<1>5. Try(root, r) = [root |-> root, found |-> Goes(r), match |-> h, stale |-> r.stale, guessed |-> r.guessed]
  BY DEF Try, h
<1> QED BY <1>3, <1>4, <1>5 DEF Tries, M

LEMMA InitSearch == Init => SearchInv
<1> SUFFICES ASSUME Init PROVE SearchInv
  OBVIOUS
<1>1. PICK s \in Searches : query = s.query /\ netlist = s.netlist
  BY DEF Init
<1>2. IsGraph(netlist)
  BY <1>1, SearchesAssumption
<1>3. todo \in Seq(DOMAIN netlist.nets)
  BY <1>2 DEF Init, IsGraph
<1>4. tries = << >> /\ crashed = FALSE
  BY DEF Init
<1>5. tries \in Seq(Tries(query, netlist)) /\ Len(tries) = 0
  BY <1>4
<1>6. \A i \in 1 .. Len(tries) : Holds(query, netlist, tries[i])
  BY <1>5
<1>7. crashed \in BOOLEAN
  BY <1>4
<1> QED BY <1>1, <1>3, <1>5, <1>6, <1>7 DEF SearchInv

LEMMA SearchStep == SearchInv /\ search => SearchInv'
<1> SUFFICES ASSUME SearchInv, search PROVE SearchInv'
  OBVIOUS
<1>1. PICK s \in Searches : query = s.query /\ netlist = s.netlist
  BY DEF SearchInv
<1>2. PICK junk \in BOOLEAN :
        \E r \in {SearchFrom([q |-> query, g |-> netlist, junk |-> junk], Head(todo))} :
          crashed' = r.beyond /\ tries' = Append(tries, Try(Head(todo), r))
  BY DEF search
<1> DEFINE e == [q |-> query, g |-> netlist, junk |-> junk]
           root == Head(todo)
           r == SearchFrom(e, root)
           t == Try(root, r)
<1>3. crashed' = r.beyond /\ tries' = Append(tries, t)
  BY <1>2
<1>4. todo # << >> /\ todo' = Tail(todo) /\ query' = query /\ netlist' = netlist
  BY DEF search
<1>5. todo \in Seq(DOMAIN netlist.nets)
  BY DEF SearchInv
<1>6. root \in DOMAIN netlist.nets /\ todo' \in Seq(DOMAIN netlist.nets)
  BY <1>4, <1>5
<1>7. e.q = query /\ e.g = netlist /\ e.junk = junk
  OBVIOUS
<1>8. IsPair(e) /\ e.q.order # << >>
  BY <1>1, <1>7, SearchesAssumption DEF IsPair, search
<1> HIDE DEF e, root
<1>9. r \in SearchStates(e)
  BY <1>6, <1>7, <1>8, SearchFromDone
<1>10. Holds(query, netlist, t)
  BY <1>6, <1>7, <1>8, TryHolds
<1>11. t \in Tries(query, netlist)
  BY <1>6, <1>7, <1>9, TryType
<1>12. r.beyond \in BOOLEAN
  BY <1>9, StateFields
<1> HIDE DEF r, t
<1>13. tries \in Seq(Tries(query, netlist)) /\ \A i \in 1 .. Len(tries) : Holds(query, netlist, tries[i])
  BY DEF SearchInv
<1>14. /\ tries' \in Seq(Tries(query, netlist)) /\ Len(tries') = Len(tries) + 1 /\ Len(tries) \in Nat
       /\ \A i \in 1 .. Len(tries) : tries'[i] = tries[i]
       /\ tries'[Len(tries) + 1] = t
  <2> DEFINE Q == Tries(query, netlist)
  <2>1. tries \in Seq(Q) /\ t \in Q
    BY <1>11, <1>13
  <2> HIDE DEF Q
  <2>2. /\ Append(tries, t) \in Seq(Q) /\ Len(Append(tries, t)) = Len(tries) + 1 /\ Len(tries) \in Nat
        /\ \A i \in 1 .. Len(tries) : Append(tries, t)[i] = tries[i]
        /\ Append(tries, t)[Len(tries) + 1] = t
    BY <2>1
  <2> QED BY <2>2, <1>3 DEF Q
<1>15. \A i \in 1 .. Len(tries') : Holds(query, netlist, tries'[i])
  <2> SUFFICES ASSUME NEW i \in 1 .. Len(tries') PROVE Holds(query, netlist, tries'[i])
    OBVIOUS
  <2>1. CASE i \in 1 .. Len(tries)   BY <2>1, <1>13, <1>14
  <2>2. CASE i \notin 1 .. Len(tries)
    <3>1. i = Len(tries) + 1
      BY <2>2, <1>14
    <3> QED BY <3>1, <1>10, <1>14
  <2> QED BY <2>1, <2>2
<1> QED BY <1>1, <1>3, <1>4, <1>6, <1>12, <1>14, <1>15 DEF SearchInv, Holds

(* The search goes through the nets of one netlist, and every try it has   *)
(* made holds (QueryMatch::search, query_match.cpp:21-31).                 *)
THEOREM TriesHold == Spec => []SearchInv
<1>1. SearchInv /\ UNCHANGED vars => SearchInv'
  BY DEF SearchInv, vars
<1>2. SearchInv /\ [Next]_vars => SearchInv'
  BY <1>1, SearchStep DEF Next
<1> QED BY InitSearch, <1>2, PTL DEF Spec

(* A match without entries of failed branches maps the first net to the    *)
(* root, every net and every call it holds to one that does the same, and  *)
(* holds all that the nodes of a connected query name (query_match.cpp,    *)
(* backtrack_context.cpp).                                                 *)
THEOREM MatchesAlwaysHold == Spec => []MatchesHold
<1>1. SearchInv => MatchesHold
  <2> SUFFICES ASSUME SearchInv, NEW i \in DOMAIN tries PROVE Holds(query, netlist, tries[i])
    BY DEF MatchesHold, Holds
  <2>1. i \in 1 .. Len(tries)
    BY DEF SearchInv
  <2> QED BY <2>1 DEF SearchInv
<1> QED BY <1>1, TriesHold, PTL
=============================================================================
