---------------------------- MODULE QueryTraverse ----------------------------
(***************************************************************************)
(* query::QueryTraverse (src/query/query_traverse.cpp): the parallel       *)
(* depth-first walk that calls a callback once on every node it reaches.   *)
(*                                                                         *)
(* Its tasks run in TaskGroups, of which only the promise is used here:    *)
(* ForkJoin, which module TaskGroup implements.  A job is the call itself, *)
(* a batch of parallel_for over the start nodes, or a node whose subtree   *)
(* was handed to a task of its own.  A job's frame is that of              *)
(* traverse(iNode &): a stack, the count of claimed nodes, and the         *)
(* successors the running callback has still to select.                    *)
(***************************************************************************)
EXTENDS Integers, Sequences, UniqueSeq

CONSTANTS Nodes,        \* the nodes of the netlist, max_items of them
          Callbacks,    \* what a callback selects: a set of [Nodes -> SUBSET Nodes]
          StartLists,   \* the start vectors traverse is called with
          MaxStarts,    \* their greatest length
          LIMIT,        \* load_balance_limit
          POOL,         \* thread_pool.size()
          Call,         \* the job of the caller of traverse
          NoGroup       \* stands for "forked by nobody"

Batches == 0 .. MaxStarts - 1

Workload == Batches \cup Nodes          \* the jobs that have a frame

Jobs == Workload \cup {Call}

ASSUME LimitsAssumption ==
  LIMIT \in Nat /\ POOL \in Nat \ {0} /\ MaxStarts \in Nat \ {0}
ASSUME CallbacksAssumption == Callbacks \subseteq [Nodes -> SUBSET Nodes]
ASSUME StartsAssumption ==
  /\ StartLists \subseteq Seq(Nodes)
  /\ \A s \in StartLists : Len(s) <= MaxStarts
ASSUME JobsAssumption ==
  Batches \cap Nodes = {} /\ Call \notin Workload /\ NoGroup \notin Jobs

VARIABLES visited,        \* the nodes whose flag is set; the flags start uninitialised
          visited_clean,
          dirty,          \* flags that a running clean_visit_flags has yet to reset
          call,           \* where the caller is: "idle", "clean", "run", "returned"
          starts,         \* arguments of the current call
          succ,
          status, group,  \* the jobs, as in ForkJoin
          at,             \* job -> "out", "batch", "loop" or "callback"
          next,           \* batch -> the index it looks at next
          stack,          \* job -> claimed nodes of its frame
          to_visit,       \* job -> nodes claimed by its frame
          todo,           \* job -> what its running callback has yet to select
          called          \* history: node -> callback calls in this traversal

vars == <<visited, visited_clean, dirty, call, starts, succ, status, group,
          at, next, stack, to_visit, todo, called>>

frames == <<at, next, stack, to_visit, todo>>

FJ == INSTANCE ForkJoin WITH Root <- Call

(* TaskGroup::parallel_for: the division binds tighter than the minus. *)
Step(first, last) ==
  LET step == last - first \div POOL IN IF step = 0 THEN 1 ELSE step

BatchStarts(first, last) ==
  {i \in first .. last - 1 : (i - first) % Step(first, last) = 0}

BatchEnd(start, first, last) ==
  IF start + Step(first, last) < last THEN start + Step(first, last) ELSE last

(* What can be reached from the start nodes by what the callback selects. *)
Closed(C) == \A n \in C : succ[n] \subseteq C

Reach == {n \in Nodes : \A C \in SUBSET Nodes : Elements(starts) \subseteq C /\ Closed(C) => n \in C}

Init ==
  /\ visited \in SUBSET Nodes
  /\ visited_clean = FALSE
  /\ dirty = {}
  /\ call = "idle"
  /\ starts = << >>
  /\ succ = [n \in Nodes |-> {}]
  /\ FJ!Init
  /\ at = [j \in Workload |-> "out"]
  /\ next = [b \in Batches |-> 0]
  /\ stack = [j \in Workload |-> << >>]
  /\ to_visit = [j \in Workload |-> 0]
  /\ todo = [j \in Workload |-> {}]
  /\ called = [n \in Nodes |-> 0]

-----------------------------------------------------------------------------
(* clean_visit_flags, called by the user or by traverse: a parallel_for    *)
(* over the flags that is waited for.                                      *)
clean_visit_flags ==
  /\ call = "idle"
  /\ call' = "clean"
  /\ dirty' = Nodes
  /\ starts' = << >>
  /\ UNCHANGED <<visited, visited_clean, succ, status, group, frames, called>>

clean(n) ==
  /\ call = "clean"
  /\ n \in dirty
  /\ visited' = visited \ {n}
  /\ dirty' = dirty \ {n}
  /\ UNCHANGED <<visited_clean, call, starts, succ, status, group, frames, called>>

(* The caller goes on to traverse, if that is what asked for clean flags. *)
clean_return ==
  /\ call = "clean"
  /\ dirty = {}
  /\ call' = IF starts = << >> THEN "idle" ELSE "run"
  /\ visited_clean' = (starts = << >>)
  /\ UNCHANGED <<visited, dirty, starts, succ, status, group, frames, called>>

(* Mutant: the flags of an earlier call are taken for clean ones. *)
traverse_unclean(s, g) ==
  /\ call = "idle"
  /\ starts' = s
  /\ succ' = g
  /\ called' = [n \in Nodes |-> 0]
  /\ call' = IF s = << >> THEN "returned" ELSE "run"
  /\ UNCHANGED <<visited, visited_clean, dirty, status, group, frames>>

(* traverse(starts, callback): without start nodes it returns at once.     *)
traverse(s, g) ==
  /\ call = "idle"
  /\ starts' = s
  /\ succ' = g
  /\ called' = [n \in Nodes |-> 0]
  /\ \/ s = << >> /\ call' = "returned" /\ UNCHANGED <<visited_clean, dirty>>
     \/ s # << >> /\ visited_clean /\ call' = "run" /\ visited_clean' = FALSE
        /\ UNCHANGED dirty
     \/ s # << >> /\ ~visited_clean /\ call' = "clean" /\ dirty' = Nodes
        /\ UNCHANGED visited_clean
  /\ UNCHANGED <<visited, status, group, frames>>

(* parallel_for dispatches the batches of start nodes. *)
dispatch_batch(b) ==
  /\ call = "run"
  /\ b \in BatchStarts(0, Len(starts))
  /\ FJ!Fork(Call, b)
  /\ UNCHANGED <<visited, visited_clean, dirty, call, starts, succ, frames, called>>

(* g.wait() of the caller. *)
traverse_return ==
  /\ call = "run"
  /\ \A b \in BatchStarts(0, Len(starts)) : status[b] # "idle"
  /\ FJ!End(Call)
  /\ call' = "returned"
  /\ UNCHANGED <<visited, visited_clean, dirty, starts, succ, frames, called>>

(* The user has read the flags; the next call has task groups of its own. *)
result_used ==
  /\ call = "returned"
  /\ call' = "idle"
  /\ status' = FJ!Idle
  /\ group' = FJ!Ungrouped
  /\ starts' = << >>
  /\ succ' = [n \in Nodes |-> {}]
  /\ called' = [n \in Nodes |-> 0]
  /\ next' = [b \in Batches |-> 0]
  /\ to_visit' = [j \in Workload |-> 0]
  /\ UNCHANGED <<visited, visited_clean, dirty, at, stack, todo>>

batch_start(b) ==
  /\ FJ!Start(b)
  /\ at' = [at EXCEPT ![b] = "batch"]
  /\ next' = [next EXCEPT ![b] = b]
  /\ UNCHANGED <<visited, visited_clean, dirty, call, starts, succ, stack, to_visit, todo, called>>

(* Mutant: the start node is not claimed before it is walked. *)
batch_item_unclaimed(b) ==
  /\ at[b] = "batch"
  /\ next[b] < BatchEnd(b, 0, Len(starts))
  /\ LET item == starts[next[b] + 1]
     IN  IF item \in visited THEN UNCHANGED <<at, stack, to_visit>>
         ELSE /\ at' = [at EXCEPT ![b] = "loop"]
              /\ stack' = [stack EXCEPT ![b] = <<item>>]
              /\ to_visit' = [to_visit EXCEPT ![b] = 0]
  /\ next' = [next EXCEPT ![b] = @ + 1]
  /\ UNCHANGED <<visited, visited_clean, dirty, call, starts, succ, status, group, todo, called>>

(* One index of the batch: claim the start node and walk from it. *)
batch_item(b) ==
  /\ at[b] = "batch"
  /\ next[b] < BatchEnd(b, 0, Len(starts))
  /\ LET item == starts[next[b] + 1]
     IN  /\ visited' = visited \cup {item}
         /\ IF item \in visited THEN UNCHANGED <<at, stack, to_visit>>
            ELSE /\ at' = [at EXCEPT ![b] = "loop"]
                 /\ stack' = [stack EXCEPT ![b] = <<item>>]
                 /\ to_visit' = [to_visit EXCEPT ![b] = 0]
  /\ next' = [next EXCEPT ![b] = @ + 1]
  /\ UNCHANGED <<visited_clean, dirty, call, starts, succ, status, group, todo, called>>

batch_end(b) ==
  /\ at[b] = "batch"
  /\ next[b] >= BatchEnd(b, 0, Len(starts))
  /\ FJ!End(b)
  /\ at' = [at EXCEPT ![b] = "out"]
  /\ UNCHANGED <<visited, visited_clean, dirty, call, starts, succ, next, stack, to_visit, todo,
                 called>>

(* A task starts to walk from the node it was dispatched for. *)
task_start(n) ==
  /\ FJ!Start(n)
  /\ at' = [at EXCEPT ![n] = "loop"]
  /\ stack' = [stack EXCEPT ![n] = <<n>>]
  /\ to_visit' = [to_visit EXCEPT ![n] = 0]
  /\ UNCHANGED <<visited, visited_clean, dirty, call, starts, succ, next, todo, called>>

(* Take the node on top of the stack and call the callback on it. *)
pop(j) ==
  /\ at[j] = "loop"
  /\ stack[j] # << >>
  /\ LET n == stack[j][Len(stack[j])]
     IN  /\ called' = [called EXCEPT ![n] = @ + 1]
         /\ todo' = [todo EXCEPT ![j] = succ[n]]
  /\ stack' = [stack EXCEPT ![j] = SubSeq(@, 1, Len(@) - 1)]
  /\ at' = [at EXCEPT ![j] = "callback"]
  /\ UNCHANGED <<visited, visited_clean, dirty, call, starts, succ, status, group, next, to_visit>>

(* Mutant: the flag is read, but not set. *)
claim_unmarked(j, n) ==
  /\ UNCHANGED visited
  /\ IF n \in visited THEN UNCHANGED <<stack, to_visit, status, group>>
     ELSE /\ to_visit' = [to_visit EXCEPT ![j] = @ + 1]
          /\ IF to_visit[j] + 1 < LIMIT
             THEN /\ stack' = [stack EXCEPT ![j] = Append(@, n)]
                  /\ UNCHANGED <<status, group>>
             ELSE FJ!Fork(j, n) /\ UNCHANGED stack

(* Mutant: to_visit counts down. *)
claim_countdown(j, n) ==
  /\ visited' = visited \cup {n}
  /\ IF n \in visited THEN UNCHANGED <<stack, to_visit, status, group>>
     ELSE /\ to_visit' = [to_visit EXCEPT ![j] = @ - 1]
          /\ stack' = [stack EXCEPT ![j] = Append(@, n)]
          /\ UNCHANGED <<status, group>>

(* process_item: claim the node the callback selects; walk it in this      *)
(* frame, or dispatch it once the frame has claimed enough.                *)
claim(j, n) ==
  /\ visited' = visited \cup {n}
  /\ IF n \in visited THEN UNCHANGED <<stack, to_visit, status, group>>
     ELSE /\ to_visit' = [to_visit EXCEPT ![j] = @ + 1]
          /\ IF to_visit[j] + 1 < LIMIT
             THEN /\ stack' = [stack EXCEPT ![j] = Append(@, n)]
                  /\ UNCHANGED <<status, group>>
             ELSE FJ!Fork(j, n) /\ UNCHANGED stack

select(j, n) ==
  /\ at[j] = "callback"
  /\ n \in todo[j]
  /\ claim(j, n)
  /\ todo' = [todo EXCEPT ![j] = @ \ {n}]
  /\ UNCHANGED <<visited_clean, dirty, call, starts, succ, at, next, called>>

callback_return(j) ==
  /\ at[j] = "callback"
  /\ todo[j] = {}
  /\ at' = [at EXCEPT ![j] = "loop"]
  /\ UNCHANGED <<visited, visited_clean, dirty, call, starts, succ, status, group, next, stack,
                 to_visit, todo, called>>

(* g.wait() and the return from traverse(iNode &): back to the batch that  *)
(* called it, or to the end of the task.                                   *)
leave(j) ==
  /\ at[j] = "loop"
  /\ stack[j] = << >>
  /\ \A c \in Jobs : group[c] = j => status[c] = "done"
  /\ at' = [at EXCEPT ![j] = IF j \in Batches THEN "batch" ELSE "out"]
  /\ IF j \in Batches THEN UNCHANGED <<status, group>> ELSE FJ!End(j)
  /\ UNCHANGED <<visited, visited_clean, dirty, call, starts, succ, next, stack, to_visit, todo,
                 called>>

User == \/ clean_visit_flags
        \/ \E s \in StartLists, g \in Callbacks : traverse(s, g)
        \/ result_used

Internal == \/ clean_return
            \/ \E n \in Nodes : clean(n) \/ task_start(n)
            \/ traverse_return
            \/ \E b \in Batches :
                 dispatch_batch(b) \/ batch_start(b) \/ batch_item(b) \/ batch_end(b)
            \/ \E j \in Workload :
                 \/ pop(j) \/ callback_return(j) \/ leave(j)
                 \/ \E n \in Nodes : select(j, n)

Next == User \/ Internal

Spec == Init /\ [][Next]_vars

(* The pool keeps running what there is to run (TaskGroup!ShutsDown), and  *)
(* callbacks return.                                                       *)
FairSpec == Spec /\ WF_vars(Internal)

-----------------------------------------------------------------------------
(* The types of the flags, the jobs and their frames. *)
TypeOK ==
  /\ visited \in SUBSET Nodes
  /\ visited_clean \in BOOLEAN
  /\ dirty \in SUBSET Nodes
  /\ call \in {"idle", "clean", "run", "returned"}
  /\ starts \in Seq(Nodes) /\ Len(starts) <= MaxStarts
  /\ succ \in [Nodes -> SUBSET Nodes]
  /\ status \in [Jobs -> {"idle", "pending", "running", "done"}]
  /\ group \in [Jobs -> Jobs \cup {NoGroup}]
  /\ at \in [Workload -> {"out", "batch", "loop", "callback"}]
  /\ next \in [Batches -> Nat]
  /\ stack \in [Workload -> Seq(Nodes)]
  /\ to_visit \in [Workload -> Nat]
  /\ todo \in [Workload -> SUBSET Nodes]
  /\ called \in [Nodes -> Nat]

(* The header: the callback is called on each visited node exactly once;   *)
(* here, never twice, whichever frames race to claim the node.             *)
AtMostOnce == \A n \in Nodes : called[n] <= 1

(* While the walk runs, a claimed node is either called already or waits   *)
(* in exactly one place: one position of one stack, or its own task.       *)
Waiting(n) ==
  UNION {{<<j, i>> : i \in {k \in DOMAIN stack[j] : stack[j][k] = n}} : j \in Workload}

ClaimedOnce ==
  call = "run" =>
    \A n \in Nodes :
      CASE n \notin visited -> called[n] = 0 /\ Waiting(n) = {} /\ status[n] = "idle"
        [] status[n] = "pending" -> called[n] = 0 /\ Waiting(n) = {} /\ n \in visited
        [] OTHER -> \/ called[n] = 1 /\ Waiting(n) = {}
                    \/ called[n] = 0 /\ \E w \in Waiting(n) : Waiting(n) = {w}

(* When traverse returns, with the start nodes it was given, the flags     *)
(* mark exactly what can be reached, and each of it was called once: this  *)
(* is what TransformRemoveUseless reads the flags for.                     *)
ResultIsReach ==
  call = "returned" /\ starts # << >> =>
    /\ visited = Reach
    /\ \A n \in Nodes : called[n] = IF n \in Reach THEN 1 ELSE 0

(* Every call returns. *)
CallsReturn == call \in {"clean", "run"} ~> call \in {"idle", "returned"}

(* remove_useless.cpp takes every node whose flag is not set for one that  *)
(* the walk from the outputs did not visit, outputs or not.                *)
FlagsMarkVisited ==
  call = "returned" => visited = Reach
=============================================================================
