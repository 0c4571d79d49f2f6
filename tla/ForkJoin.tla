------------------------------ MODULE ForkJoin ------------------------------
(***************************************************************************)
(* What utils::TaskGroup promises the code that uses it: structured        *)
(* concurrency.  A running job forks tasks, a task runs once, and a job is *)
(* over only when every task it forked is over, so that a task may use     *)
(* whatever lives in the frame of the job that forked it.  Nothing is said *)
(* about threads: any number of pending tasks may run at once.             *)
(***************************************************************************)
CONSTANTS Jobs,         \* Root and every task that may ever be forked
          Root,         \* the call that the program's own thread executes
          NoGroup       \* stands for "forked by nobody"

VARIABLES status,       \* job -> "idle", "pending", "running" or "done"
          group         \* task -> the job that forked it

fvars == <<status, group>>

Idle == [j \in Jobs |-> IF j = Root THEN "running" ELSE "idle"]
Ungrouped == [j \in Jobs |-> NoGroup]

Init == status = Idle /\ group = Ungrouped

Fork(j, c) ==
  /\ status[j] = "running"
  /\ status[c] = "idle"
  /\ status' = [status EXCEPT ![c] = "pending"]
  /\ group' = [group EXCEPT ![c] = j]

Start(c) ==
  /\ status[c] = "pending"
  /\ status' = [status EXCEPT ![c] = "running"]
  /\ UNCHANGED group

End(j) ==
  /\ status[j] = "running"
  /\ \A c \in Jobs : group[c] = j => status[c] = "done"
  /\ status' = [status EXCEPT ![j] = "done"]
  /\ UNCHANGED group

Next == \/ \E j, c \in Jobs : Fork(j, c)
        \/ \E j \in Jobs : Start(j) \/ End(j)

Spec == Init /\ [][Next]_fvars
=============================================================================
