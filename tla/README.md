# netlistDB: a TLA+ model

netlistDB stores digital circuits as a graph of nets and operations, searches and transforms it with a thread pool, and
writes it as Verilog. This directory holds TLA+ modules of its core, TLC models that explore them, and TLAPS proofs.
`tlc -config X.cfg M` runs a model, `tlapm M.tla` a proof. `PROJECT.json` maps every definition to source lines.

## Inventory

Paths are relative to `src/` (headers `include/netlistDB/`, code `src/`).

| Component | State | Operations | Interaction | What makes it correct |
|---|---|---|---|---|
| `utils/ordered_set.h`, `erase_if.h` | vector, shadow hash set | push_back, discard, contains, extend | container of all edges; callers also change the base vector | no duplicates; set and vector tell the same |
| `utils/thread_pool` | io_service queue, worker stacks, two counters per group | run, wait, parallel_for, destruction | used by queries and transformations; waiting threads run other tasks | counters exact; no task outlives its group; no livelock; nothing lost |
| `query/query_traverse` | visited flags, stacks, tasks | traverse, clean_visit_flags | tasks in TaskGroups; callback chooses successors | each node once; flags = reachable |
| `netlist`, `net`, `istatement`, `statement_if`, `statement_assignment`, `function_call` | nodes, nets, indexes, edges on both ends, usage caches, parents, ranks | sig, operators, assignment, If/Elif/Else | built by one thread; read by everything else | the redundant parts agree |
| `transform/remove_useless`, `remove_by_mask` | mask, matrix of sets, netlist | apply | QueryTraverse, then two rounds of tasks, then packing | keeps what outputs depend on; nothing dangles; tasks never share a net |
| `serializer/namescope` | levels of names, counters per prefix, given names | checkedName, level_push/pop | serializer asks for every module, net, process, instance | names apart; every object gets one |
| `component_map` | ports of two netlists | connect | edge between netlists | both ends agree |
| `query/query_structural_*` | none | is_same, is_mergable, effect of conditions | reduce_statement | what is taken for the same is the same |
| `query/query_enclosure`, `query_sensitivity`, `expr_sensitivity_probe`, `query_public_net` | results stored in statements | apply | statement_to_hwprocess | equal to what the statements do and read |
| `transform/reduce_statement` | statement trees, edges of nets | apply, merges | structural queries; HwProcess | meaning kept; edges follow; nothing freed in use |
| `transform/statement_to_hwprocess`, `to_hdl_friendly`, `mark_inter_process_nets` | statements, processes | apply, cut off, enclose, merge | all of the above | processes mean and listen to what the statements did |
| `query/query_match`, `backtrack_context` | match, private matches of nested contexts | search | user | finds the images of the query and nothing else |
| `serializer/verilog*`, `serializer.cpp` | levels of names, text | serialize | namescope, serializer_io, the processes | the text means the circuit; definitions before uses |
| `serializer/serializer_io` | scope, open file, directories | hierarchy_push, hierarchy_pop | serializer | all text arrives in a file |
| `hw_type/*`, `bit_utils` | big integers, masks | arithmetic, slices | constants | width |

The hard behaviour: tasks that wait for tasks on the threads that run them; racing claims of a node; work divided among
tasks so that no lock is needed; one fact stored in several places; flags and caches that survive what they were made
for; slots that are emptied by pointers and packed much later; statement trees that are rewritten while nets, parents
and processes point into them; a search that must take back what a failed branch has assumed; text whose meaning depends
on what stands next to it.

## Modules

```
InsertionSet  <--implements--  OrderedSet
ForkJoin      <--implements--  TaskGroup
ForkJoin      <--uses--        QueryTraverse  --promise-->  RemoveUseless  <--circuits--  Netlist
UniqueSeq: sequences without duplicates, for all of the above

Statements --> ReduceStatement --> HwProcess --> ToVerilog        (each EXTENDS the one before)
NameScope, SerializerIO --> Verilog2001                           (composition)
Verilog2001, VerilogExpr --> VerilogUsages                        (the text of port connections)
QueryMatch
```

Every `XProofs` holds the proofs about `X`, every `MCX` an instance for TLC. `VerilogProofs` is about NameScope and
Verilog2001, which is made of its actions; `QueryTraverseProofs` has what it needs of ForkJoin; `MCVerilog` is an instance
of VerilogUsages. Definitions named "Mutant" are wrong
variants of the definition that follows them; they are not part of a specification, and serve to see that a property
fails when the code would be wrong that way.

**OrderedSet.** `vec` is the base vector, `set` is `_set`. `push_back` has the two paths of the code, below and from
the limit on; `extend` pushes one item per step. `erase_if_seq` and `clear` change the vector only, which is what
`Net::forward_disconnect` and `clean_signal_meta` do through the public base class; a predicate that erases several
items is several steps. `InsertionSet` is what the class promises: one insertion-ordered set. `changed_by` records
whether somebody has reached past the class; up to then the promise holds, from then on only the absence of duplicates
and of false negatives does.

**TaskGroup.** `queue` is the `io_service`, `stack` the jobs on each thread's call stack. Each job owns a group with
the counters `dispatched` and `completed`. `wait` polls: the thread takes handlers from the queue and runs them on top
of the waiting job; the destructor of a group is a wait as well. `run` counts and posts in one step, as only the
dispatching job reads `dispatched`. `ForkJoin` is the promise (structured concurrency) and `TaskGroup` implements it.
A handler that throws is not modelled, none in the repository does.

**QueryTraverse.** A job is the caller, a batch of `parallel_for`, or a node whose walk was handed to a task. Its frame
is the local state of `traverse(iNode &)`: stack, count, and what the running callback has yet to select. Reading and
setting the atomic flag of a node is one step with what the frame does with the answer: its own stack, its own count
and the queue. The flags begin with any value, since the constructor leaves them uninitialised. `Step` keeps the
precedence of `last - first / size`. Which nodes the callback selects is an input.

**Netlist.** One action per public operation. The state is the redundant one of the code: `nodes` with empty slots and
`index`, `nets` and `net_index`, `drivers`/`endpoints` against `ins`/`outs`, `usage_cache` against the calls, `parent`.
`_register_stements` moves the edges to the outermost statement and empties the slots. An operation that the code's
assertions forbid is not enabled; nor is nesting a statement into itself, on which `_set_parent_stm` does not return.
The order in a set of edges is not modelled; `OrderedSet` is. `late` records the if statements that got a branch when
nested already.

**RemoveUseless.** Takes a circuit as Netlist leaves it (`CircuitsAssumption` is what SlotsAgree and EdgesAgree
say of it) and runs `apply`. What QueryTraverse leaves is taken from its promise, ResultIsReach, and, without
outputs, from its divergence: any flags. One step of `collect` is one slot of one task, one step of `disconnect` one
item of one column. `fault` names the bad access the code would make: to an empty slot, to the null of a failed cast,
to a deleted node. Erasing and renumbering run on the calling thread only and are one step.

**NameScope.** A name is a stem, the numbers appended to it and whether it ends in "_", with a folded case. `items` and
`cntrs` are the levels, `all_names` the answers. `get_child` is translated as it is, and never finds a child. The
exception that leaves `checkedName` ends the behaviour, in `occupied`.

**Statements, ReduceStatement.** A netlist's statements are records in one graph: conditions, arms, parent, rank, inputs
and outputs, with the drivers and endpoints of the nets and the registered nodes. `Build` is what constructing them
leaves (Netlist shows how). The structural queries and the merging of lists, ranks and ifs are operators that take the
graph and return it changed, in the order of the code. What goes wrong silently is noted in `faults`, what ends the
program in `threw`, so that a property can say what holds otherwise: "unlike" (ifs with unlike branches were merged),
"lost" (a statement was dropped), "mistaken" (ifs with different elifs were taken for the same), "unfilled", "missed".

**HwProcess.** The steps of `TransformToHdlFriendly` as actions: every output of a top statement becomes public, the
statements leave the netlist, each is reduced and becomes a process, processes of one rank are merged, and the processes
are registered. A combinational loop is tried again with the drivers cut off, which the code can do for whole ifs only;
anything else ends in its exception. `Addr` gives nets an address, since the code sorts and intersects by address.

**ToVerilog.** Adds the serialization of processes. A text is a sequence of tokens (assign, set, if, else, begin, end);
`ReadStm` is a reader that binds an else to the nearest if, as the grammar of Verilog does.

**VerilogExpr.** The text of a use of a net: name, literal, or operators with brackets by `opPrecedence`. `ReadUsage` reads
it back with the precedences of Verilog, `BitsOf` says what each bit of a literal is. `mask`, `select_bits` are `bit_utils`.

**SerializerIO.** The directories, the scope and the open file. A file whose directory does not exist is not opened, and
what is written to it is gone.

**Verilog2001.** One frame of `stack` per `serialize` on the call stack; its actions are the dependencies, the name of the
module, its head, a declaration, an instance and the end. Names are the actions of NameScope, the paths those of
SerializerIO. How a use of a net is written is a constant, `serialize_use`, with `Unwritable` for the uses on which the
serializer dereferences null. `NameOccupiedErr` ends a behaviour, so does a null dereference. Sorting is by name, then by
index: `place` counts what comes before. `DesignsAssumption` is what the constructors and ComponentMap leave: every named
object is one of its own, a component connects ports of its netlist, and no netlist contains itself, on which `serialize`
would not return.

**VerilogUsages.** Verilog2001 with VerilogExpr: `serialize_use` is `serialize_net_usage`, `Unwritable` is `Crashes`. It
is a module of its own since the expressions are recursive.

**QueryMatch.** One step of `search` tries one net as the image of the first net of the query. The state of the recursive
search is a record that is passed along: the shared match, what the context at hand has inserted, and `stale`, what failed
contexts have left in it. `junk` is the value of the uninitialised `match_found`, chosen once per root. The recursion is a
function by levels: `below` is `search_recurse` as it is called one level deeper, and on level `MaxDepth` the stack is at
its end, which, like reading a list past its end, ends the behaviour. A loop over a list is a function of the turns done.

## Runs

| Run | Instance | Shows |
|---|---|---|
| `ordered_set` | 4 items, limit 3 | both sides of the limit and every way across, with bypasses |
| `ordered_set_bypass` | same | violation: the set keeps what the vector lost |
| `task_group` | 2 workers and the owner, 4 jobs | all nestings of 3 tasks, all of them waiting at once |
| `query_traverse` | 4 nodes, 5 start lists, 81 callbacks | cycles, shared successors, stack and task walks, repeated calls |
| `query_traverse_empty` | same | violation: no start, no clean flags |
| `netlist` | 3 nets, 3 operations, 1 elif | three levels of statements, calls of calls, indexed destinations |
| `remove_useless` | 3 nets, 3 operations, 3 threads, 2 passes | all the faults, an idempotent second pass |
| `remove_useless_slots` | same, 1 pass | violation: an empty slot is followed |
| `name_scope` | 4 objects, 5 suggestions, 3 levels, symmetric objects | every kind of collision, keywords, case, popped levels |
| `to_verilog` | 1 to 3 statements, 14 nets, 2014 programs | ifs of every shape: nested, elifs, edges, latches, loops, constants |
| `verilog` | up to 4 netlists; 2644 expressions of up to 3 levels; literals of 1 to 6 bits | shared components, clashing names, all 8 ways to write files |
| `query_match` | queries of 1 to 3 nodes, netlists of 3 or 4 calls or of ifs | shared, permuted and repeated operands, several drivers |

Why the bounds are enough. The limit of OrderedSet matters relative to the size, and four items with limit three reach
one above it and return. The repository's limit is four; nothing depends on its value, which the proofs confirm. Two
workers and the owner are the smallest pool in which a waiting thread runs a task that waits itself while another
worker does the same. Four nodes suffice for two frames to race for a node that a third hands to a task. Three threads
make the columns of the matrix differ from its rows. Bounds named in the modules: `MaxSig`, `MaxElif`, `MaxStarts`,
`MaxPasses`, `MaxLevel`, `MaxDepth`, and the size of the sets.

Each program of `to_verilog` takes two statements because merging is of pairs, three where the order of ranks matters,
and all shapes of an if with up to one elif and two levels, which the recursion repeats. In `verilog` three levels of
operators decide an associativity on both sides, six bits make a full and a partial hexadecimal digit, and four netlists
a component that is reached on two ways. In `query_match` two calls that share a net are what backtracking needs, and no search comes to
the 20 levels of `MaxDepth`; some need more than 12.

Deadlock is not looked for where a user may stop calling (`Netlist`, `RemoveUseless`, `NameScope`) or the program
comes to its end (`ToVerilog`, `Verilog2001`, `QueryMatch`); in the models of the pool and the walk it is.

Fairness. TaskGroup assumes that every thread that can run does (weak fairness per thread), and that jobs return: their
code dispatches finitely many tasks. No fairness between tasks is needed, the queue is first in, first out. QueryTraverse
assumes that the pool runs what there is to run, which is `ShutsDown` and `NoLivelock` of TaskGroup, and that callbacks
return. RemoveUseless assumes the same of its tasks, and that the calling thread goes on. Users are never forced.

## Divergences

Three runs show the code to differ from what it says of itself (`findings` in `PROJECT.json`): a bypassed OrderedSet,
the flags without start nodes, and the empty slot in `TransformRemoveUseless`.

The other properties say exactly where the code does less than one would expect; the exceptions are part of the property,
and the run shows that there are no others.

- Netlist: a rank misses late branches of nested statements (`istatement.cpp:70` against `netlist.h:64`), which
  `RankCountsBranches` excludes by `late`. RemoveUseless: an operation with a useful and a useless output is cast to null
  (`remove_by_mask.cpp:92`), a case of `FaultsExplained`.
- NameScope: `namescope.h:50` promises a name that collides with nothing; `get_usable_name` throws NameOccupiedErr in the
  cases of `OccupiedExplained`. `SameNameNeverWritten` is one consequence: a netlist with components of two different
  netlists of one name can not be written at all.
- Merging of ifs (`MeaningKept`): `is_mergable` compares the first branch with itself (`query_structural_compatible.cpp:28`),
  so unlike ifs are merged; lists of unequal length lose their rest, and the merged list of two processes is dropped
  (`statement_to_hwprocess.cpp:415`); with three statements of a rank a deleted one may be used; ifs that differ in their
  number of elifs only may be taken for the same, as the sizes are joined by `and` (`query_structural_cmp.cpp:33`).
- Edges (`EdgesFollow`): the statements that a top if is reduced to stay registered next to their process, and the
  serializer then refuses the netlist.
- Loops (`LoopsFound`): `set_intersection` of unsorted lists misses some; a loop that is found ends in an exception in
  all cases but a reduction that removes it. The assignment that encloses a latch is put into a copy and lost.
- Text (`StatementsReadBack`): a single statement is written without begin and end, so that an else may bind to an if
  inside; an empty first branch is not written. An if of several statements that waits for an edge is written bare.
- Uses (`UsagesReadBack`): `~(a*b)` and `a/(b*c)` lose their brackets, as `OpMul` has precedence 3
  (`verilog_constants.cpp:36`); `~(~a)` and `~{a,b}` dereference null. Values that are not trimmed to their width, which
  the comment of `hw_int.h:26` excludes, are still written right.
- Modules (`ModulesInOrder`): a component that is used on several ways is defined once for each of them. The name of an
  instance is made but not written.
- Files (`FilesComplete`): the top directory is the one of the first module that is pushed, the deepest; with the default
  options the text of every hierarchy is lost in part, without an error, against `serialization_io.h:62`.
- Patterns (`MatchesHold`, `MissesExplained`): functions of calls are not compared, two nets of the query may have one
  image, the first branch of an if is compared with the else branch of the other and the else branch with nothing, lists
  may be read past their end, an empty list gives an uninitialised answer, and entries of failed contexts stay.

## Proofs

Each is for every value of the constants that satisfies the named assumptions, by an inductive invariant `IInv`, which
is larger than the property since none of the properties is inductive alone.

- **OrderedSet**: `IInv` relates the set to the vector on both sides of the limit. Below the limit after a bypass the
  set may hold anything, which is why `SetMirrorsVector` needs `changed_by`. `ImplementsInsertionSet` is a refinement:
  every step of the class is a step of InsertionSet or a stutter.
- **TaskGroup**: the counters need where each unfinished task is (one queue position or one stack position), that a
  dispatched task belongs to a group of a running job, and that jobs further down on a stack wait. `NoLivelock` rests
  on the order in which jobs started (`live`): the youngest cannot wait for an older one. `Implementation` maps the
  program counters to the four states of ForkJoin.
- **ForkJoin** (in QueryTraverseProofs): `RootLast`, that every task ever forked is over when the root call is. It is
  what lets the walk be asked for its result when `traverse` returns.
- **QueryTraverse**: `IInv` accounts for every claimed node (one stack, one task, or called) and closes the claimed set
  under successors but for what running callbacks have yet to select; at the end nothing is left to select, hence
  `ResultIsReach`. Both this module's and TaskGroup's theorems assume nothing of the number of threads but that there
  are some.
- **Netlist**: `SlotsAgree`, `EdgesAgree`, `ExpressionsShared`. `IInv` adds that registered objects are numbered without
  duplicates and that unused addresses have no edges. `TopHoldsIO` needs to know what the ancestors of a statement are,
  which are a recursive function of the state. `Nested` says that parents form a forest, by a height that decreases
  towards the tops; then the equation of `Ancestors` has one solution (`AncestryUnique`), and `BranchAncestors` gives the
  solution after a branch from that before. `Ranks` is `RankCountsBranches` of every operation, whatever it is. A branch
  adds to the statement and to what is around it, and what it adds was inside of none of these before, as every statement
  has one top; the rest is that sums over finite sets may be taken in any order and in parts (`SumRemove`, `SumUnion`,
  `SumFamily`).
- **RemoveUseless**: all safety properties. `ColumnsDisjoint` is the reason why `forward_disconnect` needs no lock: a
  collected node is in the column of its index modulo the number of threads, and a cell determines its column. For
  `KeepsUseful`, `NothingDangles` and `FaultsExplained` `IInv` says, of every phase, which slots the tasks have been at
  and which edges they have cut off so far, and that a second pass begins where the first one ended: with a packed netlist
  of the useful nodes only. What `erase_if_seq` leaves is `Kept`, whose lemmas are in UniqueSeqProofs.
- **NameScope** (in VerilogProofs): `NamesDistinct` and `OccupiedExplained`. `IInv` adds that an object is registered under
  its name at its level as long as this lives, in which order the objects of one folded name and different levels came
  (`Shadowing`), and that a numbered name of a level is below the level's counter of its prefix (`Counted`): so a level
  never collides with its own count. The one assumption beyond types is `KeywordsAssumption`: no reserved word is a prefix
  with a number, true of the list in `verilog_constants.cpp`.
- **Verilog2001**: `ModulesInOrder`, `SameNameNeverWritten` and `FilesComplete`, for every design, every way to write uses,
  and all options of the files. `VerilogInv` takes NameScope's `IInv` along and adds five things.
  The stack is a path of netlists each of which waits for the next, a module whose dependency is done with is there, and
  there are two levels of names inside of a body and one outside (`Struct`). The text is a series of definitions, each of
  the parts that `Body` lists in that order, and all of them complete but the one that is being written (`TextInv`); so the
  k-th line of a definition is known, and with it its kind and its object. The parts of a netlist are named all, none, or as
  far as the body has come (`PartsInv`), since a second definition of a netlist finds all the names of the first; within a
  body the names differ because they were given in one level, and they still do when the level is gone.
  `SameNameNeverWritten` rests on `ClashInv`: the global level has counted a prefix only if its number 0 is taken, and a
  body's level has counted a prefix only if it is not, so the first of two instances that share a name must throw.
  `Balance` counts: the definitions of a netlist are the components in definitions that are of it (`Needed`), those that the
  frames are done with whose own definition has not begun (`Pending`), and one for the top; at the end nothing is pending.
  `FilesInv` says that the directories are the root and, with `to_top_dir`, the one of the first module written, and
  that the last line written in a body went to the file that is open. A design with one module has one definition, by the
  count; this is where `FilesComplete` needs `Balance`.

- **QueryMatch**: `MatchesHold`, for every query, netlist and depth. The invariant of the state machine, `SearchInv`, only
  says that every try so far holds; the work is in what one call of the recursive search does. `Hyp` states it of the
  calls one level deeper, `MatchNodeDone` derives it of a call from that, operation by operation, and `RecursionDone`
  goes up the levels. It has three parts. Entries of the match are never changed, only added or taken back (`Grows`,
  `Stage`). What is taken back is what a context itself has inserted; what remains of a failed branch is in `stale`
  (`DiscardFacts`). And when a call succeeds without stale entries, every entry that is new since it began is an image
  already (`Sound`), those that were there before being the business of the calls around it; for an if or an assignment, which the match does not
  hold, its operands correspond at every depth (`CorrespondenceStays`). Loops are by induction on turns (`TurnInduction`).
  Wholeness is of the result alone (`MatchIsWhole`): the nets of a match are closed under what the search follows, and in
  a connected query nothing else is closed. `Connected` is the "single component" that `query_match.h:16` asks
  for, said of the paths that are followed: a query whose output is also read inside can be one component and be left
  in part, as endpoints of outputs are not looked at. The theorem does not need more: queries may be empty, and lists may be
  shorter than what they are compared with.

Induction over data by the library's theorems is not possible here. Where a proof needs it the module is free of RECURSIVE
operators, and the least counterexample takes its place: `LeastNumber`, from the library's theorem on well-founded
orders over sets, for lengths (`KeptFacts`), heights (`LeastHeight`), cardinalities (`LeastPart`), and turns of a loop and
levels of a recursion (`TurnInduction`).

Only model-checked:

- `ShutsDown`, `CallsReturn` and `ApplyReturns`: liveness, which the prover does not reach.
- `MissesExplained`: that the search finds what there is. It holds in the instances; as a theorem it would have to say that a
  greedy choice of an image, which is not taken back when a later one fails, never hides another one, and we do not
  know that it is true of every query.
- The properties of HwProcess and ToVerilog (`MeaningKept`, `EdgesFollow`, `ProcessesListen`, `LoopsFound`,
  `EnclosureExact`, `StatementsReadBack`, `AssignmentsLegal`) and `UsagesReadBack`. Their modules are recursive over
  statements and expressions, as the code is, with operators that take a whole graph and return it changed at each
  level. The prover cannot expand a recursive operator, and each of these properties is about what the recursion computes:
  nothing of it is left when the recursion is a constant.

Every other property of a passing run is a theorem.

## Not modelled, and the plan

1. Proofs: Statements, ReduceStatement and HwProcess in the form of QueryMatch, functions by levels instead of recursive
   operators; then what they keep of the edges and of the meaning.
2. Netlist composed with RemoveUseless: construction after removal, where the usage caches of kept nets still name
   deleted ones (the one hazard without a property).
3. ComponentMap: edges between two netlists; event dependency and constant nets in Netlist.
4. The rest of the text: names of processes, types, indexed destinations, blocking against non-blocking assignments.
5. `QueryPath`, `StatementVisitor`: walks that nothing above calls.

Left out for good: the arithmetic library behind `aint`, the stop watch, comments and layout of the text, a job that
throws (none does), and the transformations that throw "not implemented" themselves.
