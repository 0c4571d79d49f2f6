------------------------------ MODULE TaskGroup ------------------------------
(***************************************************************************)
(* utils::ThreadPool and utils::TaskGroup (src/utils/thread_pool.cpp).     *)
(*                                                                         *)
(* The pool's workers and the thread that owns the pool share one          *)
(* io_service queue.  Every job of this model has a TaskGroup in its frame *)
(* (QueryTraverse::traverse, TransformRemoveByMask::apply are such jobs):  *)
(* it dispatches tasks into it, may wait for them in between, and waits    *)
(* for them when the frame is left, because ~TaskGroup calls wait.         *)
(* A thread that waits helps: it runs whatever is in the queue, on top of  *)
(* the waiting job's own stack.                                            *)
(***************************************************************************)
EXTENDS Naturals, Sequences, FiniteSets, UniqueSeq

CONSTANTS Jobs,         \* Root and every task that may ever be dispatched
          Root,         \* what the thread that owns the pool executes
          NoGroup,      \* stands for "in no group"
          Workers,      \* the threads of the pool
          Main          \* the thread that constructs and destroys the pool

Threads == Workers \cup {Main}

ASSUME RootAssumption   == Root \in Jobs
ASSUME NoGroupAssumption == NoGroup \notin Jobs
ASSUME JobsAssumption   == IsFiniteSet(Jobs)
(* ThreadPool's constructor asserts pool_size > 0. *)
ASSUME ThreadsAssumption == Main \notin Workers /\ Workers # {}

VARIABLES queue,        \* handlers posted to the io_service, oldest first
          stack,        \* thread -> the jobs on its call stack, innermost last
          pc,           \* job -> where it is
          closing,      \* job -> its wait is the one of ~TaskGroup
          group,        \* task -> the job whose TaskGroup it was dispatched to
          dispatched,   \* job -> TaskGroup::dispatched of its group
          completed,    \* job -> TaskGroup::completed of its group
          pool,         \* "running", "stopping" (ios.stop()) or "joined"
          exited,       \* the workers that have left io_service::run
          live          \* history: the jobs on the stacks, in starting order

vars == <<queue, stack, pc, closing, group, dispatched, completed, pool, exited, live>>

(* pc: not dispatched; in the queue; in its own code; before the test of   *)
(* wait's loop; in ios.poll(); returned but not yet counted; counted.      *)
Started == {"body", "wait", "poll", "returned"}
PC == Started \cup {"idle", "queued", "done"}

Busy(t) == stack[t] # << >>

Top(t) == stack[t][Len(stack[t])]

(* The thread t executes the code of job j at p. *)
At(t, j, p) == Busy(t) /\ j = Top(t) /\ pc[j] = p

Pop(s) == SubSeq(s, 1, Len(s) - 1)

Tasks(j) == {c \in Jobs : group[c] = j}

Unfinished(c) == pc[c] \in Started \cup {"queued"}

Init ==
  /\ queue = << >>
  /\ stack = [t \in Threads |-> IF t = Main THEN <<Root>> ELSE << >>]
  /\ pc = [j \in Jobs |-> IF j = Root THEN "body" ELSE "idle"]
  /\ closing = [j \in Jobs |-> FALSE]
  /\ group = [j \in Jobs |-> NoGroup]
  /\ dispatched = [j \in Jobs |-> 0]
  /\ completed = [j \in Jobs |-> 0]
  /\ pool = "running"
  /\ exited = {}
  /\ live = <<Root>>

-----------------------------------------------------------------------------
(* run: count the task, then post it.  Only the job itself reads and       *)
(* writes dispatched, so the two are one step.                             *)
run(t, j, c) ==
  /\ At(t, j, "body")
  /\ pc[c] = "idle"
  /\ dispatched' = [dispatched EXCEPT ![j] = @ + 1]
  /\ group' = [group EXCEPT ![c] = j]
  /\ queue' = Append(queue, c)
  /\ pc' = [pc EXCEPT ![c] = "queued"]
  /\ UNCHANGED <<stack, closing, completed, pool, exited, live>>

(* An explicit wait; without a dispatched task it would return at once. *)
wait(t, j) ==
  /\ At(t, j, "body")
  /\ dispatched[j] > 0
  /\ pc' = [pc EXCEPT ![j] = "wait"]
  /\ UNCHANGED <<queue, stack, closing, group, dispatched, completed, pool, exited, live>>

(* Mutant: the group's destructor does not wait. *)
destroy_no_wait(t, j) ==
  /\ At(t, j, "body")
  /\ pc' = [pc EXCEPT ![j] = "returned"]
  /\ UNCHANGED <<queue, stack, closing, group, dispatched, completed, pool, exited, live>>

(* The job returns: ~TaskGroup calls wait. *)
destroy(t, j) ==
  /\ At(t, j, "body")
  /\ pc' = [pc EXCEPT ![j] = "wait"]
  /\ closing' = [closing EXCEPT ![j] = TRUE]
  /\ UNCHANGED <<queue, stack, group, dispatched, completed, pool, exited, live>>

wait_loop(t, j) ==
  /\ At(t, j, "wait")
  /\ completed[j] # dispatched[j]
  /\ pc' = [pc EXCEPT ![j] = "poll"]
  /\ UNCHANGED <<queue, stack, closing, group, dispatched, completed, pool, exited, live>>

(* Mutant: wait returns with a task that is still to be completed. *)
wait_return_early(t, j) ==
  /\ At(t, j, "wait")
  /\ completed[j] + 1 >= dispatched[j]
  /\ completed' = [completed EXCEPT ![j] = 0]
  /\ dispatched' = [dispatched EXCEPT ![j] = 0]
  /\ pc' = [pc EXCEPT ![j] = IF closing[j] THEN "returned" ELSE "body"]
  /\ UNCHANGED <<queue, stack, closing, group, pool, exited, live>>

(* Mutant: wait leaves dispatched as it is. *)
wait_return_half_reset(t, j) ==
  /\ At(t, j, "wait")
  /\ completed[j] = dispatched[j]
  /\ completed' = [completed EXCEPT ![j] = 0]
  /\ pc' = [pc EXCEPT ![j] = IF closing[j] THEN "returned" ELSE "body"]
  /\ UNCHANGED <<queue, stack, closing, group, dispatched, pool, exited, live>>

wait_return(t, j) ==
  /\ At(t, j, "wait")
  /\ completed[j] = dispatched[j]
  /\ completed' = [completed EXCEPT ![j] = 0]
  /\ dispatched' = [dispatched EXCEPT ![j] = 0]
  /\ pc' = [pc EXCEPT ![j] = IF closing[j] THEN "returned" ELSE "body"]
  /\ UNCHANGED <<queue, stack, closing, group, pool, exited, live>>

(* The thread t takes the oldest handler of the queue and enters wrap_job. *)
Enter(t) ==
  /\ queue # << >>
  /\ queue' = Tail(queue)
  /\ stack' = [stack EXCEPT ![t] = Append(@, Head(queue))]
  /\ pc' = [pc EXCEPT ![Head(queue)] = "body"]
  /\ live' = Append(live, Head(queue))
  /\ UNCHANGED <<closing, group, dispatched, completed, pool, exited>>

(* Mutant: a wait that spins without running anything itself. *)
poll_nothing(t, j) == FALSE

(* ios.poll(): run ready handlers until there is none. *)
poll_one(t, j) == At(t, j, "poll") /\ Enter(t)

poll_return(t, j) ==
  /\ At(t, j, "poll")
  /\ queue = << >>
  /\ pc' = [pc EXCEPT ![j] = "wait"]
  /\ UNCHANGED <<queue, stack, closing, group, dispatched, completed, pool, exited, live>>

wrap_job_end(t, j) ==
  /\ At(t, j, "returned")
  /\ completed' = IF j = Root THEN completed
                  ELSE [completed EXCEPT ![group[j]] = @ + 1]
  /\ pc' = [pc EXCEPT ![j] = "done"]
  /\ stack' = [stack EXCEPT ![t] = Pop(@)]
  /\ live' = Without(live, j)
  /\ UNCHANGED <<queue, closing, group, dispatched, pool, exited>>

(* A worker in io_service::run. *)
io_service_run(w) == w \in Workers /\ ~Busy(w) /\ pool = "running" /\ Enter(w)

(* ~ThreadPool once the owner's call is over: ios.stop(), join_all(). *)
stop ==
  /\ ~Busy(Main)
  /\ pool = "running"
  /\ pool' = "stopping"
  /\ UNCHANGED <<queue, stack, pc, closing, group, dispatched, completed, exited, live>>

io_service_run_return(w) ==
  /\ w \in Workers \ exited
  /\ ~Busy(w)
  /\ pool = "stopping"
  /\ exited' = exited \cup {w}
  /\ UNCHANGED <<queue, stack, pc, closing, group, dispatched, completed, pool, live>>

join_all ==
  /\ pool = "stopping"
  /\ exited = Workers
  /\ pool' = "joined"
  /\ UNCHANGED <<queue, stack, pc, closing, group, dispatched, completed, exited, live>>

JobStep(t, j) ==
  \/ \E c \in Jobs : run(t, j, c)
  \/ wait(t, j)
  \/ destroy(t, j)
  \/ wait_loop(t, j)
  \/ wait_return(t, j)
  \/ poll_one(t, j)
  \/ poll_return(t, j)
  \/ wrap_job_end(t, j)

Step(t) == \/ \E j \in Jobs : JobStep(t, j)
           \/ io_service_run(t)
           \/ io_service_run_return(t)
           \/ t = Main /\ (stop \/ join_all)

Terminated == pool = "joined" /\ UNCHANGED vars

Next == (\E t \in Threads : Step(t)) \/ Terminated

(* The operating system runs every thread that can run, and the code of a  *)
(* job returns: a job dispatches finitely many tasks, here those of Jobs.  *)
Fairness == \A t \in Threads : WF_vars(Step(t))

Spec == Init /\ [][Next]_vars

FairSpec == Spec /\ Fairness

-----------------------------------------------------------------------------
(* The types of the queue, the stacks, the counters and the pool. *)
TypeOK ==
  /\ queue \in Seq(Jobs)
  /\ stack \in [Threads -> Seq(Jobs)]
  /\ pc \in [Jobs -> PC]
  /\ closing \in [Jobs -> BOOLEAN]
  /\ group \in [Jobs -> Jobs \cup {NoGroup}]
  /\ dispatched \in [Jobs -> Nat]
  /\ completed \in [Jobs -> Nat]
  /\ pool \in {"running", "stopping", "joined"}
  /\ exited \in SUBSET Workers
  /\ live \in Seq(Jobs)

(* The two counters of a group differ by exactly the tasks that are still  *)
(* queued or on some thread's stack, across every reset by wait.           *)
CountersAgree ==
  \A j \in Jobs :
    completed[j] + Cardinality({c \in Tasks(j) : Unfinished(c)}) = dispatched[j]

(* A task increments completed in the frame of the job that dispatched it: *)
(* until it has, that job has not left its frame.                          *)
GroupOutlivesTasks ==
  \A c \in Jobs :
    Unfinished(c) /\ c # Root =>
      group[c] \in Jobs /\ pc[group[c]] \in {"body", "wait", "poll"}

(* ios.stop() drops what is queued and join_all waits for what runs: by    *)
(* then there is neither.                                                  *)
NothingDropped ==
  pool # "running" => queue = << >> /\ \A j \in Jobs : ~Unfinished(j)

(* wait's busy loop cannot become a livelock: as long as the owner's call  *)
(* is not over some thread can do more than test its counters again.       *)
CanAdvance(t) ==
  /\ Busy(t)
  /\ \/ pc[Top(t)] \in {"body", "returned"}
     \/ completed[Top(t)] = dispatched[Top(t)]
     \/ queue # << >>

NoLivelock == pc[Root] # "done" => \E t \in Threads : CanAdvance(t)

(* The owner's call returns and the pool is shut down, whatever mix of     *)
(* workers and waiting threads runs the tasks: with NothingDropped, every  *)
(* dispatched task has then been run to its end.                           *)
ShutsDown == <>(pool = "joined")

(* The pool and its groups implement fork-join. *)
Status(j) == CASE pc[j] \in Started -> "running"
               [] pc[j] = "queued"  -> "pending"
               [] OTHER             -> pc[j]

Abs == INSTANCE ForkJoin WITH status <- [j \in Jobs |-> Status(j)]

ImplementsForkJoin == Abs!Spec
=============================================================================
