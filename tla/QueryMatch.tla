----------------------------- MODULE QueryMatch ------------------------------
(***************************************************************************)
(* query::QueryMatch and ::BackTrackingContext (src/query/query_match.cpp, *)
(* backtrack_context.cpp): the pattern query.  A query is a netlist; the   *)
(* search tries every net of the queried netlist as the image of the first *)
(* net of the query and follows the drivers and the endpoints of both in   *)
(* step.                                                                   *)
(*                                                                         *)
(* A graph has nets, each with a direction and its drivers and endpoints   *)
(* in the order of their insertion, and nodes: calls (args, res),          *)
(* assignments (dst, src), and ifs (conds, arms, hasElse), whose           *)
(* statements are nodes as well.                                           *)
(***************************************************************************)
EXTENDS Integers, Sequences, FiniteSets, SequencesExt, Functions, TLC

CONSTANTS Searches,     \* pairs of a query and a netlist
          NoNode,       \* where a map has no entry
          MaxDepth      \* how deep the calls of search_recurse nest

VARIABLES query, netlist, todo, tries, crashed

vars == <<query, netlist, todo, tries, crashed>>

-----------------------------------------------------------------------------
Everything(G) == DOMAIN G.nets \cup DOMAIN G.nodes

IsNode(G, r) ==
  /\ r.kind \in {"call", "assign", "if"}
  /\ r.args \in Seq(DOMAIN G.nets) /\ r.conds \in Seq(DOMAIN G.nets)
  /\ r.arms \in Seq(Seq(DOMAIN G.nodes))
  /\ r.kind = "call" => r.res \in DOMAIN G.nets
  /\ r.kind = "assign" => r.dst \in DOMAIN G.nets /\ r.src \in DOMAIN G.nets
  /\ r.kind = "if" => Len(r.conds) > 0 /\ Len(r.arms) = Len(r.conds) + 1

IsGraph(G) ==
  /\ NoNode \notin Everything(G) /\ DOMAIN G.nets \cap DOMAIN G.nodes = {}
  /\ G.order \in Seq(DOMAIN G.nets)
  /\ \A n \in DOMAIN G.nets :
       /\ G.nets[n].direction \in {"in", "out", "unknown"}
       /\ G.nets[n].drivers \in Seq(DOMAIN G.nodes) /\ G.nets[n].endpoints \in Seq(DOMAIN G.nodes)
  /\ \A n \in DOMAIN G.nodes : IsNode(G, G.nodes[n])

(* The nets that a node names outside of the else branches. *)
NamedNext(q, below, n) ==
  LET r == q.nodes[n]
  IN  CASE r.kind = "call" -> {r.res} \cup ToSet(r.args)
        [] r.kind = "assign" -> {r.dst, r.src}
        [] r.kind = "if" -> ToSet(r.conds) \cup UNION {UNION {below[m] : m \in ToSet(r.arms[i])} : i \in DOMAIN r.conds}

Named(q, n) ==
  LET named[k \in 0 .. MaxDepth] ==
        [m \in DOMAIN q.nodes |-> IF k = 0 THEN {} ELSE NamedNext(q, named[k - 1], m)]
  IN  named[MaxDepth][n]

(* The nodes that the search follows from a net. *)
Followed(q, ref) ==
  (IF q.nets[ref].direction = "in" THEN {} ELSE ToSet(q.nets[ref].drivers))
    \cup (IF q.nets[ref].direction = "out" THEN {} ELSE ToSet(q.nets[ref].endpoints))

NamedByNodes(q) ==
  UNION {Named(q, n) : n \in UNION {ToSet(q.nets[ref].drivers) \cup ToSet(q.nets[ref].endpoints) :
                                      ref \in DOMAIN q.nets}}

(* A query has a single component (query_match.h:16).  That is: the search *)
(* from the first net, which does not go from an input to its drivers nor  *)
(* from an output to its endpoints, leaves no net out.                     *)
Connected(q) ==
  \A S \in SUBSET DOMAIN q.nets :
    q.order[1] \in S /\ (\A ref \in S : \A n \in Followed(q, ref) : Named(q, n) \subseteq S)
      => NamedByNodes(q) \subseteq S

ASSUME SearchesAssumption ==
  \A s \in Searches : IsGraph(s.query) /\ IsGraph(s.netlist)
ASSUME MaxDepthAssumption == MaxDepth \in Nat

-----------------------------------------------------------------------------
(* The state of a search of e.q, the query, in e.g, the netlist: the       *)
(* match, shared by all contexts; private, what the context at hand has    *)
(* inserted; stale, a history of what is left of the contexts of failed    *)
(* branches; ok; whether that was an uninitialised value once; and whether *)
(* a list was read past its end, or the stack was at its end.              *)
SearchStates(e) ==
  [match : [Everything(e.q) -> Everything(e.g) \cup {NoNode}],
   private : SUBSET Everything(e.q), stale : SUBSET Everything(e.q),
   ok : BOOLEAN, guessed : BOOLEAN, beyond : BOOLEAN]

NewContext(e) ==
  [match |-> [x \in Everything(e.q) |-> NoNode], private |-> {}, stale |-> {},
   ok |-> TRUE, guessed |-> FALSE, beyond |-> FALSE]

Fail(st) == [st EXCEPT !.ok = FALSE]
Overrun(st) == [st EXCEPT !.beyond = TRUE]
Goes(st) == st.ok /\ ~ st.beyond

Matched(st) == {x \in DOMAIN st.match : st.match[x] # NoNode}
AlreadyMatches(st, ref, n) == st.match[ref] = n
CanNotMatch(st, ref, n) == st.match[ref] \notin {n, NoNode}

insert_match(st, ref, n) ==
  IF ref \in Matched(st) THEN st ELSE [st EXCEPT !.match[ref] = n, !.private = @ \cup {ref}]

(* What a child context has inserted is not its parent's. *)
Enter(st) == [st EXCEPT !.private = {}]
Leave(st, r) == [r EXCEPT !.private = st.private]

(* Mutant: nothing is taken back. *)
discard_nothing(before, r) == [r EXCEPT !.ok = TRUE]

(* The match loses what the context itself has inserted, but not what its  *)
(* children have.                                                          *)
discard(before, r) ==
  LET kept == Matched(r) \ r.private
  IN  [r EXCEPT !.match = [x \in DOMAIN @ |-> IF x \in r.private THEN NoNode ELSE @[x]], !.ok = TRUE,
                !.stale = (@ \cup (kept \ Matched(before))) \cap kept]

-----------------------------------------------------------------------------
(* below: search_recurse as it is called one level deeper. *)
Calls(e) == [ref : Everything(e.q), n : Everything(e.g), st : SearchStates(e)]
search_recurse(below, ref, n, st) == below[[ref |-> ref, n |-> n, st |-> st]]

MatchNext(below, refs, ns, st, i) ==
  IF ~ Goes(st) THEN st
  ELSE IF i > Len(ns) THEN Overrun(st)
  ELSE search_recurse(below, refs[i], ns[i], st)

MatchAll(below, refs, ns, st) ==
  LET upto[i \in 0 .. Len(refs)] == IF i = 0 THEN st ELSE MatchNext(below, refs, ns, upto[i - 1], i)
  IN  upto[Len(refs)]

(* The first of the items that matches, in one context for all. *)
Tried(before, m) ==
  IF Goes(m) \/ m.beyond THEN [done |-> TRUE, st |-> m]
  ELSE [done |-> FALSE, st |-> discard(before, m)]

TryNext(below, ref, items, r, i) ==
  IF r.done THEN r ELSE Tried(r.st, search_recurse(below, ref, items[i], r.st))

Outcome(last) == IF last.done THEN last.st ELSE Fail(last.st)

match_any(below, ref, items, st) ==
  LET upto[i \in 0 .. Len(items)] == IF i = 0 THEN [done |-> FALSE, st |-> st]
                                     ELSE TryNext(below, ref, items, upto[i - 1], i)
  IN  Outcome(upto[Len(items)])

(* match_found has no value when there is nothing to match. *)
Unassigned(e, ref, st) == IF ref = << >> THEN [st EXCEPT !.ok = e.junk, !.guessed = TRUE] ELSE st

PairNext(below, ref, graphIo, st, i) ==
  IF Goes(st) THEN Leave(st, match_any(below, ref[i], graphIo, Enter(st))) ELSE st

PairAll(below, ref, graphIo, st) ==
  LET upto[i \in 0 .. Len(ref)] == IF i = 0 THEN st ELSE PairNext(below, ref, graphIo, upto[i - 1], i)
  IN  upto[Len(ref)]

(* Mutant: the sizes are not compared. *)
find_matching_permutation_any(e, below, ref, graphIo, st, allow_more_in_graph) ==
  PairAll(below, ref, graphIo, Unassigned(e, ref, st))

find_matching_permutation(e, below, ref, graphIo, st, allow_more_in_graph) ==
  IF Len(graphIo) < Len(ref) \/ (~ allow_more_in_graph /\ Len(graphIo) > Len(ref)) THEN Fail(st)
  ELSE PairAll(below, ref, graphIo, Unassigned(e, ref, st))

match_drivers(e, below, r, g, st) ==
  IF r.direction = "in" THEN st
  ELSE find_matching_permutation(e, below, r.drivers, g.drivers, st, FALSE)

match_endpoints(e, below, r, g, st) ==
  IF r.direction = "out" \/ ~ Goes(st) THEN st
  ELSE find_matching_permutation(e, below, r.endpoints, g.endpoints, st, r.direction = "in")

match_io(e, below, r, g, st) ==
  Leave(st, match_endpoints(e, below, r, g, match_drivers(e, below, r, g, Enter(st))))

match_net(e, below, ref, n, st) ==
  LET r == e.q.nets[ref]
      g == e.g.nets[n]
  IN  IF CanNotMatch(st, ref, n) THEN Fail(st)
      ELSE IF AlreadyMatches(st, ref, n) THEN st
      ELSE IF r.direction # "in" /\ (Len(r.drivers) # Len(g.drivers) \/ Len(r.endpoints) # Len(g.endpoints))
      THEN Fail(insert_match(st, ref, n))
      ELSE match_io(e, below, r, g, insert_match(st, ref, n))

(* The functions are not compared. *)
match_call(e, below, ref, n, st) ==
  LET r == e.q.nodes[ref]
      g == e.g.nodes[n]
  IN  IF CanNotMatch(st, ref, n) THEN Fail(st)
      ELSE IF AlreadyMatches(st, ref, n) THEN st
      ELSE IF Len(r.args) # Len(g.args) THEN Fail(st)
      ELSE MatchAll(below, <<r.res>> \o r.args, <<g.res>> \o g.args, insert_match(st, ref, n))

match_assignment(below, r, g, st) == MatchAll(below, <<r.dst, r.src>>, <<g.dst, g.src>>, st)

(* ifTrue of the query is compared with ifFalse of the netlist, whatever   *)
(* their sizes; then the elifs.                                            *)
match_branch(below, cond, gcond, arm, garm, st) ==
  MatchAll(below, arm, garm, MatchAll(below, <<cond>>, <<gcond>>, st))

BranchNext(below, r, g, st, i) ==
  match_branch(below, r.conds[i], g.conds[i], r.arms[i], IF i = 1 THEN Last(g.arms) ELSE g.arms[i], st)

match_if(below, r, g, st) ==
  LET upto[i \in 0 .. Len(r.conds)] == IF i = 0 THEN st ELSE BranchNext(below, r, g, upto[i - 1], i)
  IN  IF Len(r.conds) # Len(g.conds) \/ r.hasElse # g.hasElse THEN Fail(st) ELSE upto[Len(r.conds)]

match_node(e, below, ref, n, st) ==
  LET both(kind) == ref \in DOMAIN e.q.nodes /\ n \in DOMAIN e.g.nodes
                      /\ e.q.nodes[ref].kind = kind /\ e.g.nodes[n].kind = kind
  IN  IF ref \in DOMAIN e.q.nets /\ n \in DOMAIN e.g.nets THEN match_net(e, below, ref, n, st)
      ELSE IF both("call") THEN match_call(e, below, ref, n, st)
      ELSE IF both("assign") THEN match_assignment(below, e.q.nodes[ref], e.g.nodes[n], st)
      ELSE IF both("if") THEN match_if(below, e.q.nodes[ref], e.g.nodes[n], st)
      ELSE Fail(st)

Recursion(e) ==
  LET level[k \in 0 .. MaxDepth] ==
        [c \in Calls(e) |-> IF k = 0 THEN Overrun(c.st) ELSE match_node(e, level[k - 1], c.ref, c.n, c.st)]
  IN  level[MaxDepth]

-----------------------------------------------------------------------------
Init ==
  /\ \E s \in Searches : query = s.query /\ netlist = s.netlist
  /\ todo = netlist.order
  /\ tries = << >>
  /\ crashed = FALSE

Try(root, r) ==
  [root |-> root, found |-> Goes(r), match |-> Restrict(r.match, Matched(r)), stale |-> r.stale,
   guessed |-> r.guessed]

SearchFrom(e, root) == match_net(e, Recursion(e), e.q.order[1], root, NewContext(e))

(* One net of the netlist as the image of the first net of the query. *)
search ==
  /\ query.order # << >> /\ todo # << >> /\ ~ crashed
  /\ \E junk \in BOOLEAN :
       \E r \in {SearchFrom([q |-> query, g |-> netlist, junk |-> junk], Head(todo))} :
         /\ crashed' = r.beyond
         /\ tries' = Append(tries, Try(Head(todo), r))
  /\ todo' = Tail(todo)
  /\ UNCHANGED <<query, netlist>>

Next == search

Spec == Init /\ [][Next]_vars
-----------------------------------------------------------------------------
(* h maps an operand to the operand, and a node of a net to a node of its  *)
(* image: a call to the call that it has for it, an if to one whose else   *)
(* does what its first branch does.                                        *)
Maps(h, refs, ns) ==
  Len(refs) <= Len(ns) /\ \A i \in DOMAIN refs : refs[i] \in DOMAIN h /\ h[refs[i]] = ns[i]

AllCorrespond(below, refs, ns) ==
  Len(refs) <= Len(ns) /\ \A i \in DOMAIN refs : below[<<refs[i], ns[i]>>]

IfsCorrespond(h, below, r, g) ==
  /\ Len(r.conds) = Len(g.conds) /\ Maps(h, r.conds, g.conds)
  /\ r.hasElse = g.hasElse
  /\ \A i \in DOMAIN r.conds :
       AllCorrespond(below, r.arms[i], IF i = 1 THEN Last(g.arms) ELSE g.arms[i])

CallsCorrespond(h, r, g) ==
  Len(r.args) = Len(g.args) /\ Maps(h, <<r.res>> \o r.args, <<g.res>> \o g.args)

NodesCorrespond(q, graph, h, below, ref, n) ==
  LET r == q.nodes[ref]
      g == graph.nodes[n]
  IN  /\ r.kind = g.kind
      /\ r.kind = "call" => Maps(h, <<ref>>, <<n>>)
      /\ r.kind = "assign" => Maps(h, <<r.dst, r.src>>, <<g.dst, g.src>>)
      /\ r.kind = "if" => IfsCorrespond(h, below, r, g)

Correspondence(q, graph, h) ==
  LET same[k \in 0 .. MaxDepth] ==
        [p \in (DOMAIN q.nodes) \X (DOMAIN graph.nodes) |->
           IF k = 0 THEN FALSE ELSE NodesCorrespond(q, graph, h, same[k - 1], p[1], p[2])]
  IN  same[MaxDepth]

(* What the directions of the query let the image have in addition. *)
Within(same, rs, gs) == \A i \in DOMAIN rs : \E j \in DOMAIN gs : same[<<rs[i], gs[j]>>]

NetsCorrespond(same, r, g) ==
  /\ r.direction = "in" \/ (Within(same, r.drivers, g.drivers) /\ Len(r.drivers) = Len(g.drivers))
  /\ r.direction = "out" \/ Within(same, r.endpoints, g.endpoints)
  /\ Len(r.endpoints) <= Len(g.endpoints)
  /\ r.direction = "in" \/ Len(r.endpoints) = Len(g.endpoints)

CallNodes(graph) == {n \in DOMAIN graph.nodes : graph.nodes[n].kind = "call"}

ImageOf(q, graph, h, ref) ==
  \/ /\ ref \in DOMAIN q.nets /\ h[ref] \in DOMAIN graph.nets
     /\ NetsCorrespond(Correspondence(q, graph, h), q.nets[ref], graph.nets[h[ref]])
  \/ /\ ref \in CallNodes(q) /\ h[ref] \in CallNodes(graph)
     /\ CallsCorrespond(h, q.nodes[ref], graph.nodes[h[ref]])

IsImage(h) ==
  \A ref \in DOMAIN query.nets \cup CallNodes(query) : ref \in DOMAIN h /\ ImageOf(query, netlist, h, ref)

(* The images of the query: the calls decide about their nets. *)
Forced(f) ==
  UNION {{<<c, f[c]>>, <<query.nodes[c].res, netlist.nodes[f[c]].res>>}
         \cup {<<query.nodes[c].args[i], netlist.nodes[f[c]].args[i]>> : i \in DOMAIN query.nodes[c].args} :
    c \in DOMAIN f}

Images(root) ==
  LET calls == {f \in [CallNodes(query) -> CallNodes(netlist)] :
                  /\ \A c \in DOMAIN f : Len(query.nodes[c].args) = Len(netlist.nodes[f[c]].args)
                  /\ \A x, y \in Forced(f) : x[1] = y[1] => x = y}
      forced(f) == [d \in {x[1] : x \in Forced(f)} |-> (CHOOSE x \in Forced(f) : x[1] = d)[2]]
      all(f) == {forced(f) @@ h : h \in [DOMAIN query.nets \ DOMAIN forced(f) -> DOMAIN netlist.nets]}
  IN  {h \in UNION {all(f) : f \in calls} : h[query.order[1]] = root /\ IsImage(h)}

(* A match maps the first net to the root, and every net and every call    *)
(* that it holds to one that does the same, and it holds all of a query    *)
(* that is connected, whatever the functions of its calls and its else     *)
(* branches are - unless entries of a branch that failed were left in it:  *)
(* these pass for what was found (backtrack_context.cpp:27-36, 63-67).     *)
MatchesHold ==
  \A i \in DOMAIN tries : tries[i].found /\ tries[i].stale = {} =>
    /\ query.order[1] \in DOMAIN tries[i].match /\ tries[i].match[query.order[1]] = tries[i].root
    /\ \A ref \in DOMAIN tries[i].match : ImageOf(query, netlist, tries[i].match, ref)
    /\ NamedByNodes(query) \subseteq DOMAIN tries[i].match \/ ~ Connected(query)

(* A net that is the root of an image is missed only when such entries     *)
(* were in the way, or when the answer was an uninitialised value          *)
(* (query_match.cpp:51-86).                                                *)
MissesExplained ==
  \A i \in DOMAIN tries :
    ~ tries[i].found /\ ~ tries[i].guessed /\ tries[i].stale = {} /\ ~ (crashed /\ i = Len(tries)) =>
      Images(tries[i].root) = {}
=============================================================================
