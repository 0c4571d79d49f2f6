-------------------------- MODULE TaskGroupProofs ---------------------------
(***************************************************************************)
(* Proofs about TaskGroup, for every finite set of jobs and every set of   *)
(* workers: the group counters, the lifetime of a group, that shutting the *)
(* pool down drops nothing, that waiting threads cannot all spin, and that *)
(* the whole implements fork-join.                                         *)
(*                                                                         *)
(* The key to NoLivelock is the order in which jobs started: a task starts *)
(* after the job that dispatched it, and whatever stands above a waiting   *)
(* job on a stack started after it.  The job that started last therefore   *)
(* is on top of its stack and waits for nothing that has started.          *)
(***************************************************************************)
EXTENDS TaskGroup, UniqueSeqProofs, FiniteSetTheorems

Open(j) == {c \in Tasks(j) : Unfinished(c)}

(* The queue holds exactly the queued jobs, each once. *)
QueueInv == /\ Unique(queue)
            /\ \A c \in Jobs : pc[c] = "queued" <=> In(c, queue)

(* The history holds exactly the started jobs, each once. *)
LiveInv == /\ Unique(live)
           /\ \A j \in Jobs : pc[j] \in Started <=> In(j, live)

(* Every started job has one frame on one stack, what is not on top polls, *)
(* and a stack grows upwards in starting order.                            *)
Located == \A j \in Jobs : pc[j] \in Started =>
             \E t \in Threads : \E i \in DOMAIN stack[t] : stack[t][i] = j

Framed == \A t \in Threads : \A i \in DOMAIN stack[t] :
            /\ pc[stack[t][i]] \in Started
            /\ i # Len(stack[t]) => pc[stack[t][i]] = "poll"

OneFrame == \A t, u \in Threads : \A i \in DOMAIN stack[t], k \in DOMAIN stack[u] :
              stack[t][i] = stack[u][k] => t = u /\ i = k

Ordered == \A t \in Threads : \A i, k \in DOMAIN stack[t] :
             i < k => Before(live, stack[t][i], stack[t][k])

StackInv == Located /\ Framed /\ OneFrame /\ Ordered

(* A dispatched task knows its group and starts after the group's job. *)
GroupInv ==
  \A c \in Jobs :
    /\ pc[c] = "idle" \/ c = Root => group[c] = NoGroup
    /\ pc[c] # "idle" /\ c # Root => group[c] \in Jobs
    /\ pc[c] \in Started /\ c # Root => Before(live, group[c], c)

(* The owner's call stays at the bottom of Main's stack until it is over. *)
RootInv ==
  /\ pc[Root] \in Started \cup {"done"}
  /\ pc[Root] # "done" => Busy(Main) /\ stack[Main][1] = Root
  /\ pool # "running" => pc[Root] = "done"

IInv == /\ TypeOK
        /\ QueueInv
        /\ LiveInv
        /\ StackInv
        /\ GroupInv
        /\ RootInv
        /\ CountersAgree
        /\ GroupOutlivesTasks

-----------------------------------------------------------------------------
LEMMA InitInv == Init => IInv
<1> SUFFICES ASSUME Init PROVE IInv
  OBVIOUS
<1> USE RootAssumption, NoGroupAssumption, ThreadsAssumption DEF Init
<1>1. /\ stack[Main] = <<Root>> /\ DOMAIN stack[Main] = {1} /\ stack[Main][1] = Root
      /\ \A t \in Threads : t # Main => stack[t] = << >> /\ DOMAIN stack[t] = {}
      /\ Len(stack[Main]) = 1
  BY DEF Threads
<1>2. /\ \A j \in Jobs : pc[j] = IF j = Root THEN "body" ELSE "idle"
      /\ Elements(live) = {Root} /\ Unique(live)
      /\ Elements(queue) = {} /\ Unique(queue)
  BY DEF Elements, Unique
<1>3. TypeOK
  <2>1. stack \in [Threads -> Seq(Jobs)]   BY DEF Threads
  <2>2. queue \in Seq(Jobs) /\ live \in Seq(Jobs)   OBVIOUS
  <2>3. pc \in [Jobs -> PC]   BY DEF PC, Started
  <2>4. closing \in [Jobs -> BOOLEAN]   OBVIOUS
  <2>5. group \in [Jobs -> Jobs \cup {NoGroup}] /\ dispatched \in [Jobs -> Nat]
    OBVIOUS
  <2>6. completed \in [Jobs -> Nat]   OBVIOUS
  <2>7. pool \in {"running", "stopping", "joined"} /\ exited \in SUBSET Workers   OBVIOUS
  <2> QED BY <2>1, <2>2, <2>3, <2>4, <2>5, <2>6, <2>7 DEF TypeOK
<1>4. QueueInv   BY <1>2 DEF QueueInv, In
<1>5. LiveInv    BY <1>2 DEF LiveInv, In, Started
<1>6. StackInv
  <2>1. Located    BY <1>1, <1>2 DEF Located, Started, Threads
  <2>2. Framed     BY <1>1, <1>2 DEF Framed, Started
  <2>3. OneFrame   BY <1>1 DEF OneFrame
  <2>4. Ordered    BY <1>1 DEF Ordered
  <2> QED BY <2>1, <2>2, <2>3, <2>4 DEF StackInv
<1>7. GroupInv   BY <1>2 DEF GroupInv, Started
<1>8. RootInv    BY <1>1, <1>2 DEF RootInv, Busy, Started
<1>9. CountersAgree
  <2> SUFFICES ASSUME NEW j \in Jobs
               PROVE  completed[j] + Cardinality(Open(j)) = dispatched[j]
    BY DEF CountersAgree, Open
  <2>1. Open(j) = {}   BY DEF Open, Tasks
  <2>2. completed[j] = 0 /\ dispatched[j] = 0   OBVIOUS
  <2> QED BY <2>1, <2>2, FS_EmptySet
<1>10. GroupOutlivesTasks   BY <1>2 DEF GroupOutlivesTasks, Unfinished, Started
<1> QED BY <1>3, <1>4, <1>5, <1>6, <1>7, <1>8, <1>9, <1>10 DEF IInv

-----------------------------------------------------------------------------
(* What being at a point of the code means for the thread's stack. *)
LEMMA AtFacts ==
  ASSUME TypeOK, NEW t \in Threads, NEW j, NEW p, At(t, j, p)
  PROVE  /\ j \in Jobs /\ pc[j] = p
         /\ stack[t] \in Seq(Jobs) /\ stack[t] # << >>
         /\ Len(stack[t]) \in DOMAIN stack[t]
         /\ stack[t][Len(stack[t])] = j
         /\ Len(stack[t]) \in Nat /\ Len(stack[t]) > 0
         /\ DOMAIN stack[t] = 1 .. Len(stack[t])
<1>1. stack[t] \in Seq(Jobs) /\ stack[t] # << >> /\ j = stack[t][Len(stack[t])] /\ pc[j] = p
  BY DEF At, Busy, Top, TypeOK
<1> QED BY <1>1

(* The tasks of a group that are not finished are finitely many. *)
LEMMA OpenFinite ==
  \A j : /\ IsFiniteSet(Open(j)) /\ Cardinality(Open(j)) \in Nat
         /\ Cardinality(Open(j)) = 0 => Open(j) = {}
<1> TAKE j
<1>1. Open(j) \subseteq Jobs   BY DEF Open, Tasks
<1> QED BY <1>1, JobsAssumption, FS_Subset, FS_CardinalityType, FS_EmptySet

(* The counting invariant, in terms of Open. *)
LEMMA CountersOpen ==
  CountersAgree <=> \A j \in Jobs : completed[j] + Cardinality(Open(j)) = dispatched[j]
BY DEF CountersAgree, Open

(* wait, ~TaskGroup, the test of wait's loop and the return of poll only   *)
(* move a job between three points of its code.                            *)
LEMMA QuietInv ==
  ASSUME IInv, NEW t \in Threads, NEW j, NEW p \in {"body", "wait", "poll"},
         NEW q \in {"wait", "poll"}, At(t, j, p),
         pc' = [pc EXCEPT ![j] = q], closing' \in [Jobs -> BOOLEAN],
         UNCHANGED <<queue, stack, group, dispatched, completed, pool, exited, live>>
  PROVE  IInv'
<1>0. TypeOK   BY DEF IInv
<1>1. j \in Jobs /\ pc[j] = p /\ stack[t][Len(stack[t])] = j /\ Len(stack[t]) \in DOMAIN stack[t]
  BY <1>0, AtFacts
<1>2. /\ pc \in [Jobs -> PC]
      /\ pc'[j] = q /\ \A c \in Jobs : c # j => pc'[c] = pc[c]
  BY <1>0, <1>1 DEF TypeOK
<1>3. \A c \in Jobs : /\ pc'[c] \in Started <=> pc[c] \in Started
                      /\ Unfinished(c)' <=> Unfinished(c)
                      /\ pc'[c] \in {"body", "wait", "poll"} <=> pc[c] \in {"body", "wait", "poll"}
                      /\ pc'[c] = "queued" <=> pc[c] = "queued"
                      /\ pc'[c] = "idle" <=> pc[c] = "idle"
                      /\ pc'[c] = "done" <=> pc[c] = "done"
  BY <1>1, <1>2 DEF Started, Unfinished
<1>4. TypeOK'
  <2>1. pc' \in [Jobs -> PC]   BY <1>2 DEF PC, Started
  <2> QED BY <1>0, <2>1 DEF TypeOK
<1>5. QueueInv'   BY <1>3 DEF IInv, QueueInv
<1>6. LiveInv'    BY <1>3 DEF IInv, LiveInv
<1>7. StackInv'
  <2>1. Located'    BY <1>3 DEF IInv, StackInv, Located
  <2>2. Framed'
    <3> SUFFICES ASSUME NEW u \in Threads, NEW i \in DOMAIN stack[u]
                 PROVE  /\ pc'[stack[u][i]] \in Started
                        /\ i # Len(stack[u]) => pc'[stack[u][i]] = "poll"
      BY DEF Framed
    <3>1. stack[u][i] \in Jobs   BY <1>0 DEF TypeOK
    <3>2. pc[stack[u][i]] \in Started /\ (i # Len(stack[u]) => pc[stack[u][i]] = "poll")
      BY DEF IInv, StackInv, Framed
    <3>3. stack[u][i] = j => u = t /\ i = Len(stack[t])
      BY <1>1 DEF IInv, StackInv, OneFrame
    <3> QED BY <1>2, <1>3, <3>1, <3>2, <3>3
  <2>3. OneFrame'   BY DEF IInv, StackInv, OneFrame
  <2>4. Ordered'    BY DEF IInv, StackInv, Ordered
  <2> QED BY <2>1, <2>2, <2>3, <2>4 DEF StackInv
<1>8. GroupInv'   BY <1>3 DEF IInv, GroupInv
<1>9. RootInv'
  BY <1>3, RootAssumption DEF IInv, RootInv, Busy
<1>10. CountersAgree'
  <2>1. \A k \in Jobs : Open(k)' = Open(k)   BY <1>3 DEF Open, Tasks
  <2>2. \A k \in Jobs : completed[k] + Cardinality(Open(k)) = dispatched[k]
    BY CountersOpen DEF IInv
  <2>3. \A k \in Jobs : (completed[k] + Cardinality(Open(k)) = dispatched[k])'
    BY <2>1, <2>2
  <2> QED BY <2>3 DEF CountersAgree, Open
<1>11. GroupOutlivesTasks'   BY <1>3 DEF IInv, GroupOutlivesTasks
<1> QED BY <1>4, <1>5, <1>6, <1>7, <1>8, <1>9, <1>10, <1>11 DEF IInv

(* wait returns: the counters are equal, so that no task of the group is   *)
(* left, and both start again from zero.                                   *)
LEMMA WaitReturnInv ==
  ASSUME IInv, NEW t \in Threads, NEW j, wait_return(t, j)
  PROVE  IInv'
<1>0. TypeOK   BY DEF IInv
<1>1. /\ j \in Jobs /\ pc[j] = "wait"
      /\ stack[t][Len(stack[t])] = j /\ Len(stack[t]) \in DOMAIN stack[t]
  BY <1>0, AtFacts DEF wait_return
<1>2. PICK q \in {"returned", "body"} :
        pc'[j] = q /\ \A c \in Jobs : c # j => pc'[c] = pc[c]
  BY <1>0, <1>1 DEF wait_return, TypeOK
<1>3. \A c \in Jobs : /\ pc'[c] \in Started <=> pc[c] \in Started
                      /\ Unfinished(c)' <=> Unfinished(c)
                      /\ pc'[c] = "queued" <=> pc[c] = "queued"
                      /\ pc'[c] = "idle" <=> pc[c] = "idle"
                      /\ pc'[c] = "done" <=> pc[c] = "done"
  BY <1>1, <1>2 DEF Started, Unfinished
<1>a. UNCHANGED <<queue, stack, closing, group, pool, exited, live>>
  BY DEF wait_return
<1>b. Open(j) = {}
  <2>1. completed[j] \in Nat /\ completed[j] = dispatched[j]
    BY <1>0, <1>1 DEF wait_return, TypeOK
  <2>2. completed[j] + Cardinality(Open(j)) = dispatched[j]
    BY <1>1, CountersOpen DEF IInv
  <2>3. Cardinality(Open(j)) = 0   BY <2>1, <2>2, OpenFinite
  <2> QED BY <2>3, OpenFinite
<1>4. TypeOK'
  <2>1. pc' \in [Jobs -> PC]   BY <1>0 DEF wait_return, TypeOK, PC, Started
  <2>2. completed' \in [Jobs -> Nat] /\ dispatched' \in [Jobs -> Nat]
    BY <1>0 DEF wait_return, TypeOK
  <2> QED BY <1>0, <1>a, <2>1, <2>2 DEF TypeOK
<1>5. QueueInv'   BY <1>3, <1>a DEF IInv, QueueInv
<1>6. LiveInv'    BY <1>3, <1>a DEF IInv, LiveInv
<1>7. StackInv'
  <2>1. Located'    BY <1>3, <1>a DEF IInv, StackInv, Located
  <2>2. Framed'
    <3> SUFFICES ASSUME NEW u \in Threads, NEW i \in DOMAIN stack[u]
                 PROVE  /\ pc'[stack[u][i]] \in Started
                        /\ i # Len(stack[u]) => pc'[stack[u][i]] = "poll"
      BY <1>a DEF Framed
    <3>1. stack[u][i] \in Jobs   BY <1>0 DEF TypeOK
    <3>2. pc[stack[u][i]] \in Started /\ (i # Len(stack[u]) => pc[stack[u][i]] = "poll")
      BY DEF IInv, StackInv, Framed
    <3>3. stack[u][i] = j => u = t /\ i = Len(stack[t])
      BY <1>1 DEF IInv, StackInv, OneFrame
    <3> QED BY <1>2, <1>3, <3>1, <3>2, <3>3
  <2>3. OneFrame'   BY <1>a DEF IInv, StackInv, OneFrame
  <2>4. Ordered'    BY <1>a DEF IInv, StackInv, Ordered
  <2> QED BY <2>1, <2>2, <2>3, <2>4 DEF StackInv
<1>8. GroupInv'   BY <1>3, <1>a DEF IInv, GroupInv
<1>9. RootInv'
  BY <1>3, <1>a, RootAssumption DEF IInv, RootInv, Busy
<1>10. CountersAgree'
  <2>1. \A k \in Jobs : Open(k)' = Open(k)   BY <1>3, <1>a DEF Open, Tasks
  <2>2. \A k \in Jobs : completed[k] + Cardinality(Open(k)) = dispatched[k]
    BY CountersOpen DEF IInv
  <2>3. completed'[j] = 0 /\ dispatched'[j] = 0
    BY <1>0, <1>1 DEF wait_return, TypeOK
  <2>4. \A k \in Jobs : k # j => completed'[k] = completed[k] /\ dispatched'[k] = dispatched[k]
    BY <1>0 DEF wait_return, TypeOK
  <2>5. Cardinality(Open(j)) = 0   BY <1>b, FS_EmptySet
  <2>6. \A k \in Jobs : (completed[k] + Cardinality(Open(k)) = dispatched[k])'
    BY <2>1, <2>2, <2>3, <2>4, <2>5
  <2> QED BY <2>6 DEF CountersAgree, Open
<1>11. GroupOutlivesTasks'
  <2> SUFFICES ASSUME NEW c \in Jobs, Unfinished(c)', c # Root
               PROVE  group[c] \in Jobs /\ pc'[group[c]] \in {"body", "wait", "poll"}
    BY <1>a DEF GroupOutlivesTasks
  <2>1. Unfinished(c)   BY <1>3
  <2>2. group[c] \in Jobs /\ pc[group[c]] \in {"body", "wait", "poll"}
    BY <2>1 DEF IInv, GroupOutlivesTasks
  <2>3. group[c] # j   BY <1>b, <2>1 DEF Open, Tasks
  <2> QED BY <1>2, <2>2, <2>3
<1> QED BY <1>4, <1>5, <1>6, <1>7, <1>8, <1>9, <1>10, <1>11 DEF IInv

(* A task is dispatched. *)
LEMMA RunInv ==
  ASSUME IInv, NEW t \in Threads, NEW j, NEW c \in Jobs, run(t, j, c)
  PROVE  IInv'
<1>0. TypeOK   BY DEF IInv
<1>1. j \in Jobs /\ pc[j] = "body" /\ pc[c] = "idle" /\ c # Root /\ c # j
  <2>1. j \in Jobs /\ pc[j] = "body"   BY <1>0, AtFacts DEF run
  <2>2. pc[c] = "idle"   BY DEF run
  <2>3. c # Root   BY <2>2 DEF IInv, RootInv, Started
  <2> QED BY <2>1, <2>2, <2>3
<1>2. pc'[c] = "queued" /\ \A k \in Jobs : k # c => pc'[k] = pc[k]
  BY <1>0 DEF run, TypeOK
<1>3. group[c] = NoGroup /\ group'[c] = j /\ \A k \in Jobs : k # c => group'[k] = group[k]
  BY <1>0, <1>1 DEF run, TypeOK, IInv, GroupInv
<1>a. UNCHANGED <<stack, closing, completed, pool, exited, live>>
  BY DEF run
<1>b. \A k \in Jobs : pc'[k] \in Started <=> pc[k] \in Started
  BY <1>1, <1>2 DEF Started
<1>c. ~In(c, queue)   BY <1>1 DEF IInv, QueueInv
<1>4. TypeOK'
  <2>1. pc' \in [Jobs -> PC]   BY <1>0 DEF run, TypeOK, PC
  <2>2. dispatched' \in [Jobs -> Nat] /\ group' \in [Jobs -> Jobs \cup {NoGroup}]
    BY <1>0, <1>1 DEF run, TypeOK
  <2>3. queue' \in Seq(Jobs)   BY <1>0 DEF run, TypeOK
  <2> QED BY <1>0, <1>a, <2>1, <2>2, <2>3 DEF TypeOK
<1>5. QueueInv'
  <2>1. queue \in Seq(Jobs) /\ queue' = Append(queue, c)   BY <1>0 DEF TypeOK, run
  <2>2. Unique(queue') /\ Elements(queue') = Elements(queue) \cup {c}
    BY <1>c, <2>1, AppendFacts DEF IInv, QueueInv, In
  <2>3. \A k \in Jobs : pc'[k] = "queued" <=> In(k, queue')
    BY <1>2, <2>2 DEF IInv, QueueInv, In
  <2> QED BY <2>2, <2>3 DEF QueueInv
<1>6. LiveInv'    BY <1>a, <1>b DEF IInv, LiveInv
<1>7. StackInv'
  <2>1. Located'    BY <1>b, <1>a DEF IInv, StackInv, Located
  <2>2. Framed'
    <3> SUFFICES ASSUME NEW u \in Threads, NEW i \in DOMAIN stack[u]
                 PROVE  /\ pc'[stack[u][i]] \in Started
                        /\ i # Len(stack[u]) => pc'[stack[u][i]] = "poll"
      BY <1>a DEF Framed
    <3>1. stack[u][i] \in Jobs   BY <1>0 DEF TypeOK
    <3>2. pc[stack[u][i]] \in Started /\ (i # Len(stack[u]) => pc[stack[u][i]] = "poll")
      BY DEF IInv, StackInv, Framed
    <3>3. stack[u][i] # c   BY <1>1, <3>2 DEF Started
    <3> QED BY <1>2, <3>1, <3>2, <3>3
  <2>3. OneFrame'   BY <1>a DEF IInv, StackInv, OneFrame
  <2>4. Ordered'    BY <1>a DEF IInv, StackInv, Ordered
  <2> QED BY <2>1, <2>2, <2>3, <2>4 DEF StackInv
<1>8. GroupInv'
  <2> SUFFICES ASSUME NEW k \in Jobs
               PROVE  /\ pc'[k] = "idle" \/ k = Root => group'[k] = NoGroup
                      /\ pc'[k] # "idle" /\ k # Root => group'[k] \in Jobs
                      /\ pc'[k] \in Started /\ k # Root => Before(live, group'[k], k)
    BY <1>a DEF GroupInv
  <2>1. CASE k = c   BY <1>1, <1>2, <1>3, <2>1 DEF Started
  <2>2. CASE k # c   BY <1>2, <1>3, <2>2 DEF IInv, GroupInv
  <2> QED BY <2>1, <2>2
<1>9. RootInv'
  BY <1>1, <1>2, <1>a, RootAssumption DEF IInv, RootInv, Busy
<1>10. CountersAgree'
  <2>1. Open(j)' = Open(j) \cup {c} /\ c \notin Open(j)
    BY <1>1, <1>2, <1>3, NoGroupAssumption DEF Open, Tasks, Unfinished, Started
  <2>2. \A k \in Jobs : k # j => Open(k)' = Open(k)
    BY <1>1, <1>2, <1>3, NoGroupAssumption DEF Open, Tasks, Unfinished, Started
  <2>3. Cardinality(Open(j)') = Cardinality(Open(j)) + 1
    <3>1. IsFiniteSet(Open(j))
      BY OpenFinite
    <3>2. Cardinality(Open(j) \cup {c}) = Cardinality(Open(j)) + 1
      BY <2>1, <3>1, FS_AddElement
    <3> QED BY <2>1, <3>2
  <2>4. \A k \in Jobs : completed[k] + Cardinality(Open(k)) = dispatched[k]
    BY CountersOpen DEF IInv
  <2>5. /\ dispatched'[j] = dispatched[j] + 1
        /\ \A k \in Jobs : k # j => dispatched'[k] = dispatched[k]
        /\ \A k \in Jobs : completed[k] \in Nat /\ dispatched[k] \in Nat
        /\ Cardinality(Open(j)) \in Nat
    BY <1>0, <1>1, OpenFinite DEF run, TypeOK
  <2>6. \A k \in Jobs : (completed[k] + Cardinality(Open(k)) = dispatched[k])'
    BY <1>1, <1>a, <2>2, <2>3, <2>4, <2>5
  <2> QED BY <2>6 DEF CountersAgree, Open
<1>11. GroupOutlivesTasks'
  <2> SUFFICES ASSUME NEW k \in Jobs, Unfinished(k)', k # Root
               PROVE  group'[k] \in Jobs /\ pc'[group'[k]] \in {"body", "wait", "poll"}
    BY DEF GroupOutlivesTasks
  <2>1. CASE k = c   BY <1>1, <1>2, <1>3, <2>1
  <2>2. CASE k # c
    <3>1. Unfinished(k)   BY <1>2, <2>2 DEF Unfinished
    <3>2. group[k] \in Jobs /\ pc[group[k]] \in {"body", "wait", "poll"}
      BY <3>1 DEF IInv, GroupOutlivesTasks
    <3> QED BY <1>1, <1>2, <1>3, <2>2, <3>2
  <2> QED BY <2>1, <2>2
<1> QED BY <1>4, <1>5, <1>6, <1>7, <1>8, <1>9, <1>10, <1>11 DEF IInv

(* A thread that has nothing on its stack, or a polling job on top of it,  *)
(* takes the oldest task of the queue.                                     *)
LEMMA EnterInv ==
  ASSUME IInv, NEW t \in Threads, Enter(t), ~Busy(t) \/ pc[Top(t)] = "poll"
  PROVE  IInv'
<1> DEFINE c == Head(queue)
           n == Len(stack[t]) + 1
<1>0. TypeOK   BY DEF IInv
<1>1. /\ queue \in Seq(Jobs) /\ queue # << >> /\ Unique(queue)
      /\ queue' = Tail(queue) /\ stack' = [stack EXCEPT ![t] = Append(@, c)]
      /\ pc' = [pc EXCEPT ![c] = "body"] /\ live' = Append(live, c)
  BY <1>0 DEF Enter, TypeOK, IInv, QueueInv
<1>2. /\ c \in Jobs /\ In(c, queue) /\ Tail(queue) \in Seq(Jobs)
      /\ Unique(Tail(queue)) /\ Elements(Tail(queue)) = Elements(queue) \ {c}
  BY <1>1, TailFacts
<1> HIDE DEF c
<1>3. pc[c] = "queued" /\ c # Root
  <2>1. pc[c] = "queued"   BY <1>2 DEF IInv, QueueInv
  <2> QED BY <2>1 DEF IInv, RootInv, Started
<1>4. pc'[c] = "body" /\ \A k \in Jobs : k # c => pc'[k] = pc[k]
  BY <1>0, <1>1, <1>2 DEF TypeOK
<1>a. UNCHANGED <<closing, group, dispatched, completed, pool, exited>>
  BY DEF Enter
<1>b. ~In(c, live)   BY <1>2, <1>3 DEF IInv, LiveInv, Started
<1>c. /\ live \in Seq(Jobs) /\ live' \in Seq(Jobs) /\ Unique(live')
      /\ Elements(live') = Elements(live) \cup {c}
      /\ \A x, y : Before(live, x, y) => Before(live', x, y)
      /\ \A x : In(x, live) => Before(live', x, c)
  <2>1. live \in Seq(Jobs) /\ Unique(live)   BY <1>0 DEF TypeOK, IInv, LiveInv
  <2> QED BY <1>1, <1>2, <1>b, <2>1, AppendFacts DEF In
<1>d. /\ stack[t] \in Seq(Jobs) /\ Len(stack[t]) \in Nat
      /\ DOMAIN stack[t] = 1 .. Len(stack[t])
      /\ stack'[t] \in Seq(Jobs) /\ Len(stack'[t]) = n /\ DOMAIN stack'[t] = 1 .. n
      /\ stack'[t][n] = c
      /\ \A i \in DOMAIN stack[t] : stack'[t][i] = stack[t][i]
      /\ \A u \in Threads : u # t => stack'[u] = stack[u]
      /\ stack' \in [Threads -> Seq(Jobs)]
  <2>1. stack[t] \in Seq(Jobs) /\ stack'[t] = Append(stack[t], c)
    BY <1>0, <1>1 DEF TypeOK
  <2>2. stack' \in [Threads -> Seq(Jobs)] /\ \A u \in Threads : u # t => stack'[u] = stack[u]
    BY <1>0, <1>1, <1>2 DEF TypeOK
  <2> QED BY <1>2, <2>1, <2>2
<1>e. \A u \in Threads : \A i \in DOMAIN stack[u] :
        stack[u][i] \in Jobs /\ pc[stack[u][i]] \in Started /\ stack[u][i] # c
  BY <1>0, <1>3 DEF TypeOK, IInv, StackInv, Framed, Started
<1> HIDE DEF n
<1>5. TypeOK'
  <2>1. pc' \in [Jobs -> PC]   BY <1>0, <1>1 DEF TypeOK, PC, Started
  <2> QED BY <1>0, <1>1, <1>2, <1>a, <1>c, <1>d, <2>1 DEF TypeOK
<1>6. QueueInv'
  <2>1. \A k \in Jobs : pc'[k] = "queued" <=> In(k, queue')
    BY <1>1, <1>2, <1>4 DEF IInv, QueueInv, In
  <2> QED BY <1>1, <1>2, <2>1 DEF QueueInv
<1>7. LiveInv'
  <2>1. \A k \in Jobs : pc'[k] \in Started <=> In(k, live')
    BY <1>4, <1>c DEF IInv, LiveInv, In, Started
  <2> QED BY <1>c, <2>1 DEF LiveInv
<1>8. StackInv'
  <2>1. Located'
    <3> SUFFICES ASSUME NEW k \in Jobs, pc'[k] \in Started
                 PROVE  \E u \in Threads : \E i \in DOMAIN stack'[u] : stack'[u][i] = k
      BY DEF Located
    <3>1. CASE k = c
      <4>1. n \in DOMAIN stack'[t] /\ stack'[t][n] = c   BY <1>d DEF n
      <4> QED BY <3>1, <4>1
    <3>2. CASE k # c
      <4>0. PICK u \in Threads : \E i \in DOMAIN stack[u] : stack[u][i] = k
        BY <1>4, <3>2 DEF IInv, StackInv, Located
      <4>1. PICK i \in DOMAIN stack[u] : stack[u][i] = k   BY <4>0
      <4>2. CASE u = t   BY <1>d, <4>1, <4>2 DEF n
      <4>3. CASE u # t   BY <1>d, <4>1, <4>3
      <4> QED BY <4>2, <4>3
    <3> QED BY <3>1, <3>2
  <2>2. Framed'
    <3> SUFFICES ASSUME NEW u \in Threads, NEW i \in DOMAIN stack'[u]
                 PROVE  /\ pc'[stack'[u][i]] \in Started
                        /\ i # Len(stack'[u]) => pc'[stack'[u][i]] = "poll"
      BY DEF Framed
    <3>1. CASE u # t
      BY <1>4, <1>d, <1>e, <3>1 DEF IInv, StackInv, Framed
    <3>2. CASE u = t /\ i = n
      BY <1>4, <1>d, <3>2 DEF Started
    <3>3. CASE u = t /\ i # n
      <4>1. i \in DOMAIN stack[t] /\ stack'[t][i] = stack[t][i]   BY <1>d, <3>3 DEF n
      <4>2. pc[stack[t][i]] = "poll"
        <5>1. CASE i # Len(stack[t])   BY <4>1, <5>1 DEF IInv, StackInv, Framed
        <5>2. CASE i = Len(stack[t])
          <6>1. Busy(t)   BY <1>d, <4>1 DEF Busy
          <6> QED BY <5>2, <6>1 DEF Top
        <5> QED BY <5>1, <5>2
      <4> QED BY <1>4, <1>e, <3>3, <4>1, <4>2 DEF Started
    <3> QED BY <3>1, <3>2, <3>3
  <2>3. OneFrame'
    <3> SUFFICES ASSUME NEW u \in Threads, NEW v \in Threads,
                        NEW i \in DOMAIN stack'[u], NEW k \in DOMAIN stack'[v],
                        stack'[u][i] = stack'[v][k]
                 PROVE  u = v /\ i = k
      BY DEF OneFrame
    <3>1. ASSUME NEW w \in Threads, NEW m \in DOMAIN stack'[w]
          PROVE  \/ w = t /\ m = n
                 \/ m \in DOMAIN stack[w] /\ stack'[w][m] = stack[w][m]
      <4>1. CASE w = t /\ m # n
        <5>1. m \in DOMAIN stack[t]   BY <1>d, <3>1, <4>1 DEF n
        <5> QED BY <1>d, <4>1, <5>1
      <4>3. CASE w = t /\ m = n   BY <4>3
      <4>2. CASE w # t   BY <1>d, <3>1, <4>2
      <4> QED BY <4>1, <4>2, <4>3
    <3>2. (u = t /\ i = n) \/ (i \in DOMAIN stack[u] /\ stack'[u][i] = stack[u][i])
      BY <3>1
    <3>3. (v = t /\ k = n) \/ (k \in DOMAIN stack[v] /\ stack'[v][k] = stack[v][k])
      BY <3>1
    <3> QED BY <1>d, <1>e, <3>2, <3>3 DEF IInv, StackInv, OneFrame
  <2>4. Ordered'
    <3> SUFFICES ASSUME NEW u \in Threads, NEW i \in DOMAIN stack'[u],
                        NEW k \in DOMAIN stack'[u], i < k
                 PROVE  Before(live', stack'[u][i], stack'[u][k])
      BY DEF Ordered
    <3>1. CASE u # t
      <4>1. Before(live, stack[u][i], stack[u][k])
        BY <1>d, <3>1 DEF IInv, StackInv, Ordered
      <4> QED BY <1>c, <1>d, <3>1, <4>1
    <3>2. CASE u = t /\ k = n
      <4>1. i \in DOMAIN stack[t] /\ stack'[t][i] = stack[t][i]   BY <1>d, <3>2 DEF n
      <4>2. In(stack[t][i], live)   BY <1>e, <4>1 DEF IInv, LiveInv
      <4> QED BY <1>c, <1>d, <3>2, <4>1, <4>2
    <3>3. CASE u = t /\ k # n
      <4>1. /\ i \in DOMAIN stack[t] /\ stack'[t][i] = stack[t][i]
            /\ k \in DOMAIN stack[t] /\ stack'[t][k] = stack[t][k]
        BY <1>d, <3>3 DEF n
      <4>2. Before(live, stack[t][i], stack[t][k])   BY <4>1 DEF IInv, StackInv, Ordered
      <4> QED BY <1>c, <3>3, <4>1, <4>2
    <3> QED BY <3>1, <3>2, <3>3
  <2> QED BY <2>1, <2>2, <2>3, <2>4 DEF StackInv
<1>9. GroupInv'
  <2> SUFFICES ASSUME NEW k \in Jobs
               PROVE  /\ pc'[k] = "idle" \/ k = Root => group[k] = NoGroup
                      /\ pc'[k] # "idle" /\ k # Root => group[k] \in Jobs
                      /\ pc'[k] \in Started /\ k # Root => Before(live', group[k], k)
    BY <1>a DEF GroupInv
  <2>1. CASE k = c
    <3>1. group[c] \in Jobs /\ pc[group[c]] \in Started
      BY <1>2, <1>3 DEF IInv, GroupOutlivesTasks, Unfinished, Started
    <3>2. In(group[c], live)   BY <3>1 DEF IInv, LiveInv
    <3> QED BY <1>3, <1>4, <1>c, <2>1, <3>1, <3>2
  <2>2. CASE k # c   BY <1>4, <1>c, <2>2 DEF IInv, GroupInv
  <2> QED BY <2>1, <2>2
<1>10. RootInv'
  <2>1. pc'[Root] = pc[Root]   BY <1>3, <1>4, RootAssumption
  <2>2. Busy(Main) /\ stack[Main][1] = Root => Busy(Main)' /\ stack'[Main][1] = Root
    <3> SUFFICES ASSUME Busy(Main), stack[Main][1] = Root
                 PROVE  Busy(Main)' /\ stack'[Main][1] = Root
      OBVIOUS
    <3>1. CASE t = Main
      <4>1. Len(stack[t]) > 0 /\ 1 \in DOMAIN stack[t]   BY <1>d, <3>1 DEF Busy
      <4>2. stack'[t] # << >>   BY <1>d, <4>1 DEF n
      <4> QED BY <1>d, <3>1, <4>1, <4>2 DEF Busy
    <3>2. CASE t # Main   BY <1>d, <3>2 DEF Busy, Threads
    <3> QED BY <3>1, <3>2
  <2> QED BY <1>a, <2>1, <2>2 DEF IInv, RootInv
<1>11. CountersAgree'
  <2>1. \A k \in Jobs : Unfinished(k)' <=> Unfinished(k)
    BY <1>3, <1>4 DEF Unfinished, Started
  <2>2. \A k \in Jobs : Open(k)' = Open(k)   BY <1>a, <2>1 DEF Open, Tasks
  <2>3. \A k \in Jobs : completed[k] + Cardinality(Open(k)) = dispatched[k]
    BY CountersOpen DEF IInv
  <2>4. \A k \in Jobs : (completed[k] + Cardinality(Open(k)) = dispatched[k])'
    BY <1>a, <2>2, <2>3
  <2> QED BY <2>4 DEF CountersAgree, Open
<1>12. GroupOutlivesTasks'
  <2> SUFFICES ASSUME NEW k \in Jobs, Unfinished(k)', k # Root
               PROVE  group[k] \in Jobs /\ pc'[group[k]] \in {"body", "wait", "poll"}
    BY <1>a DEF GroupOutlivesTasks
  <2>1. Unfinished(k)   BY <1>3, <1>4 DEF Unfinished, Started
  <2>2. group[k] \in Jobs /\ pc[group[k]] \in {"body", "wait", "poll"}
    BY <2>1 DEF IInv, GroupOutlivesTasks
  <2>3. group[k] # c   BY <1>3, <2>2
  <2> QED BY <1>4, <2>2, <2>3
<1> QED BY <1>5, <1>6, <1>7, <1>8, <1>9, <1>10, <1>11, <1>12 DEF IInv

(* A task is over: its frame leaves the stack and its group counts it. *)
LEMMA EndInv ==
  ASSUME IInv, NEW t \in Threads, NEW j, wrap_job_end(t, j)
  PROVE  IInv'
<1> DEFINE n == Len(stack[t])
<1>h. PICK g : g = group[j]   OBVIOUS
<1>0. TypeOK   BY DEF IInv
<1>1. /\ j \in Jobs /\ pc[j] = "returned" /\ stack[t] \in Seq(Jobs)
      /\ n \in Nat /\ n > 0 /\ DOMAIN stack[t] = 1 .. n /\ stack[t][n] = j
  BY <1>0, AtFacts DEF wrap_job_end
<1>2. pc'[j] = "done" /\ \A k \in Jobs : k # j => pc'[k] = pc[k]
  BY <1>0, <1>1 DEF wrap_job_end, TypeOK
<1>a. UNCHANGED <<queue, closing, group, dispatched, pool, exited>>
  BY DEF wrap_job_end
<1>b. \A k \in Jobs : Unfinished(k)' <=> Unfinished(k) /\ k # j
  BY <1>2 DEF Unfinished, Started
<1>c. \A k \in Jobs : Unfinished(k) /\ k # Root => group[k] \in Jobs /\ group[k] # j
  BY <1>1 DEF IInv, GroupOutlivesTasks
<1>d. /\ live \in Seq(Jobs) /\ live' \in Seq(Jobs) /\ Unique(live')
      /\ Elements(live') = Elements(live) \ {j}
      /\ \A x, y : Before(live, x, y) /\ x # j /\ y # j => Before(live', x, y)
  <2>1. live \in Seq(Jobs) /\ Unique(live) /\ live' = Without(live, j)
    BY <1>0 DEF TypeOK, IInv, LiveInv, wrap_job_end
  <2> QED BY <2>1, WithoutFacts
<1>e. /\ stack' \in [Threads -> Seq(Jobs)] /\ Len(stack'[t]) = n - 1
      /\ DOMAIN stack'[t] = 1 .. n - 1
      /\ \A i \in 1 .. n - 1 : stack'[t][i] = stack[t][i]
      /\ \A u \in Threads : u # t => stack'[u] = stack[u]
  <2>1. stack' = [stack EXCEPT ![t] = SubSeq(stack[t], 1, n - 1)]
    BY DEF wrap_job_end, Pop
  <2> DEFINE s == SubSeq(stack[t], 1, n - 1)
  <2>2. /\ s \in Seq(Jobs) /\ Len(s) = n - 1 /\ DOMAIN s = 1 .. n - 1
        /\ \A i \in 1 .. n - 1 : s[i] = stack[t][i]
    BY <1>1
  <2>3. stack'[t] = s /\ \A u \in Threads : u # t => stack'[u] = stack[u]
    BY <1>0, <2>1 DEF TypeOK
  <2>4. stack' \in [Threads -> Seq(Jobs)]   BY <1>0, <2>1, <2>2 DEF TypeOK
  <2> QED BY <2>2, <2>3, <2>4
(* Every remaining frame stood there before and is not that of j. *)
<1>f. ASSUME NEW u \in Threads, NEW i \in DOMAIN stack'[u]
      PROVE  /\ i \in DOMAIN stack[u] /\ stack'[u][i] = stack[u][i] /\ stack[u][i] # j
             /\ stack[u][i] \in Jobs
             /\ i # Len(stack'[u]) => i # Len(stack[u])
  <2>1. /\ i \in DOMAIN stack[u] /\ stack'[u][i] = stack[u][i] /\ (u = t => i # n)
        /\ i # Len(stack'[u]) => i # Len(stack[u])
    <3>1. CASE u = t   BY <1>1, <1>e, <1>f, <3>1
    <3>2. CASE u # t   BY <1>e, <1>f, <3>2
    <3> QED BY <3>1, <3>2
  <2>2. n \in DOMAIN stack[t]   BY <1>1
  <2>3. stack[u][i] # j   BY <1>1, <2>1, <2>2 DEF IInv, StackInv, OneFrame
  <2>4. stack[u][i] \in Jobs   BY <1>0, <2>1 DEF TypeOK
  <2> QED BY <2>1, <2>3, <2>4
<1>g. j # Root => g \in Jobs
  BY <1>1, <1>h DEF IInv, GroupInv
<1> HIDE DEF n
<1>4. TypeOK'
  <2>1. pc' \in [Jobs -> PC]   BY <1>0, <1>1 DEF wrap_job_end, TypeOK, PC
  <2>2. completed' \in [Jobs -> Nat]   BY <1>0, <1>g, <1>h DEF wrap_job_end, TypeOK
  <2> QED BY <1>0, <1>a, <1>d, <1>e, <2>1, <2>2 DEF TypeOK
<1>5. QueueInv'   BY <1>1, <1>2, <1>a DEF IInv, QueueInv
<1>6. LiveInv'
  <2>1. \A k \in Jobs : pc'[k] \in Started <=> In(k, live')
    BY <1>1, <1>2, <1>d DEF IInv, LiveInv, In, Started
  <2> QED BY <1>d, <2>1 DEF LiveInv
<1>7. StackInv'
  <2>1. Located'
    <3> SUFFICES ASSUME NEW k \in Jobs, pc'[k] \in Started
                 PROVE  \E u \in Threads : \E i \in DOMAIN stack'[u] : stack'[u][i] = k
      BY DEF Located
    <3>0. k # j /\ pc[k] \in Started   BY <1>2 DEF Started
    <3>1. PICK u \in Threads : \E i \in DOMAIN stack[u] : stack[u][i] = k
      BY <3>0 DEF IInv, StackInv, Located
    <3>2. PICK i \in DOMAIN stack[u] : stack[u][i] = k   BY <3>1
    <3>3. CASE u = t
      <4>1. i \in 1 .. n - 1   BY <1>1, <3>0, <3>2, <3>3
      <4> QED BY <1>e, <3>2, <3>3, <4>1
    <3>4. CASE u # t   BY <1>e, <3>2, <3>4
    <3> QED BY <3>3, <3>4
  <2>2. Framed'
    <3> SUFFICES ASSUME NEW u \in Threads, NEW i \in DOMAIN stack'[u]
                 PROVE  /\ pc'[stack'[u][i]] \in Started
                        /\ i # Len(stack'[u]) => pc'[stack'[u][i]] = "poll"
      BY DEF Framed
    <3>1. /\ i \in DOMAIN stack[u] /\ stack'[u][i] = stack[u][i] /\ stack[u][i] # j
          /\ stack[u][i] \in Jobs
          /\ i # Len(stack'[u]) => i # Len(stack[u])
      BY <1>f
    <3> QED BY <1>2, <3>1 DEF IInv, StackInv, Framed
  <2>3. OneFrame'
    <3> SUFFICES ASSUME NEW u \in Threads, NEW v \in Threads,
                        NEW i \in DOMAIN stack'[u], NEW k \in DOMAIN stack'[v],
                        stack'[u][i] = stack'[v][k]
                 PROVE  u = v /\ i = k
      BY DEF OneFrame
    <3>1. i \in DOMAIN stack[u] /\ stack'[u][i] = stack[u][i]   BY <1>f
    <3>2. k \in DOMAIN stack[v] /\ stack'[v][k] = stack[v][k]   BY <1>f
    <3>3. stack[u][i] = stack[v][k]   BY <3>1, <3>2
    <3>4. OneFrame   BY DEF IInv, StackInv
    <3> QED BY <3>1, <3>2, <3>3, <3>4 DEF OneFrame
  <2>4. Ordered'
    <3> SUFFICES ASSUME NEW u \in Threads, NEW i \in DOMAIN stack'[u],
                        NEW k \in DOMAIN stack'[u], i < k
                 PROVE  Before(live', stack'[u][i], stack'[u][k])
      BY DEF Ordered
    <3>1. i \in DOMAIN stack[u] /\ stack'[u][i] = stack[u][i] /\ stack[u][i] # j   BY <1>f
    <3>2. k \in DOMAIN stack[u] /\ stack'[u][k] = stack[u][k] /\ stack[u][k] # j   BY <1>f
    <3>3. Before(live, stack[u][i], stack[u][k])
      BY <3>1, <3>2 DEF IInv, StackInv, Ordered
    <3> QED BY <1>d, <3>1, <3>2, <3>3
  <2> QED BY <2>1, <2>2, <2>3, <2>4 DEF StackInv
<1>8. GroupInv'
  <2> SUFFICES ASSUME NEW k \in Jobs
               PROVE  /\ pc'[k] = "idle" \/ k = Root => group[k] = NoGroup
                      /\ pc'[k] # "idle" /\ k # Root => group[k] \in Jobs
                      /\ pc'[k] \in Started /\ k # Root => Before(live', group[k], k)
    BY <1>a DEF GroupInv
  <2>1. CASE k = j   BY <1>1, <1>2, <2>1 DEF IInv, GroupInv, Started
  <2>2. CASE k # j
    <3>1. /\ pc[k] = "idle" \/ k = Root => group[k] = NoGroup
          /\ pc[k] # "idle" /\ k # Root => group[k] \in Jobs
          /\ pc[k] \in Started /\ k # Root => Before(live, group[k], k)
      BY DEF IInv, GroupInv
    <3>2. pc[k] \in Started /\ k # Root => group[k] # j   BY <1>c DEF Unfinished
    <3> QED BY <1>2, <1>d, <2>2, <3>1, <3>2
  <2> QED BY <2>1, <2>2
<1>9. RootInv'
  <2>1. CASE j = Root   BY <1>2, <1>a, <2>1 DEF RootInv
  <2>2. CASE j # Root
    <3>1. pc'[Root] = pc[Root]   BY <1>2, <2>2, RootAssumption
    <3>2. Busy(Main) /\ stack[Main][1] = Root => Busy(Main)' /\ stack'[Main][1] = Root
      <4> SUFFICES ASSUME Busy(Main), stack[Main][1] = Root
                   PROVE  Busy(Main)' /\ stack'[Main][1] = Root
        OBVIOUS
      <4>1. CASE t = Main
        <5>1. n # 1   BY <1>1, <2>2, <4>1
        <5>2. 1 \in 1 .. n - 1   BY <1>1, <5>1
        <5>3. stack'[t] # << >>   BY <1>e, <5>2
        <5> QED BY <1>e, <4>1, <5>2, <5>3 DEF Busy
      <4>2. CASE t # Main   BY <1>e, <4>2 DEF Busy, Threads
      <4> QED BY <4>1, <4>2
    <3> QED BY <1>a, <3>1, <3>2 DEF IInv, RootInv
  <2> QED BY <2>1, <2>2
<1>10. CountersAgree'
  <2>1. \A k \in Jobs : completed[k] + Cardinality(Open(k)) = dispatched[k]
    BY CountersOpen DEF IInv
  <2>2. CASE j = Root
    <3>1. \A k \in Jobs : Open(k)' = Open(k)
      BY <1>a, <1>b, <2>2, NoGroupAssumption DEF Open, Tasks, IInv, GroupInv
    <3>2. completed' = completed   BY <2>2 DEF wrap_job_end
    <3>3. \A k \in Jobs : (completed[k] + Cardinality(Open(k)) = dispatched[k])'
      BY <1>a, <2>1, <3>1, <3>2
    <3> QED BY <3>3 DEF CountersAgree, Open
  <2>3. CASE j # Root
    <3>1. g \in Jobs /\ j \in Open(g) /\ Open(g)' = Open(g) \ {j}
      BY <1>1, <1>a, <1>b, <1>g, <1>h, <2>3 DEF Open, Tasks, Unfinished, Started
    <3>2. \A k \in Jobs : k # g => Open(k)' = Open(k)
      BY <1>a, <1>b, <1>h DEF Open, Tasks
    <3>3. Cardinality(Open(g)') = Cardinality(Open(g)) - 1
      BY <3>1, OpenFinite, FS_RemoveElement
    <3>4. /\ completed'[g] = completed[g] + 1
          /\ \A k \in Jobs : k # g => completed'[k] = completed[k]
      BY <1>0, <1>h, <2>3, <3>1 DEF wrap_job_end, TypeOK
    <3>5. completed[g] \in Nat /\ Cardinality(Open(g)) \in Nat
      BY <1>0, <3>1, OpenFinite DEF TypeOK
    <3>6. completed'[g] + Cardinality(Open(g)') = dispatched'[g]
      BY <1>a, <2>1, <3>1, <3>3, <3>4, <3>5
    <3>7. ASSUME NEW k \in Jobs, k # g
          PROVE  completed'[k] + Cardinality(Open(k)') = dispatched'[k]
      BY <1>a, <2>1, <3>2, <3>4, <3>7
    <3>8. ASSUME NEW k \in Jobs
          PROVE  (completed[k] + Cardinality(Open(k)) = dispatched[k])'
      <4>1. CASE k = g   BY <3>6, <4>1
      <4>2. CASE k # g   BY <3>7, <4>2
      <4> QED BY <4>1, <4>2
    <3> QED BY <3>8 DEF CountersAgree, Open
  <2> QED BY <2>2, <2>3
<1>11. GroupOutlivesTasks'
  <2> SUFFICES ASSUME NEW k \in Jobs, Unfinished(k)', k # Root
               PROVE  group[k] \in Jobs /\ pc'[group[k]] \in {"body", "wait", "poll"}
    BY <1>a DEF GroupOutlivesTasks
  <2>1. Unfinished(k) /\ group[k] \in Jobs /\ group[k] # j   BY <1>b, <1>c
  <2>2. pc[group[k]] \in {"body", "wait", "poll"}
    BY <2>1 DEF IInv, GroupOutlivesTasks
  <2> QED BY <1>2, <2>1, <2>2
<1> QED BY <1>4, <1>5, <1>6, <1>7, <1>8, <1>9, <1>10, <1>11 DEF IInv

(* Shutting the pool down, which starts when Main's stack is empty. *)
LEMMA PoolInv ==
  ASSUME IInv, pool' \in {"running", "stopping", "joined"}, exited' \in SUBSET Workers,
         UNCHANGED <<queue, stack, pc, closing, group, dispatched, completed, live>>,
         pool' # "running" => pool # "running" \/ ~Busy(Main)
  PROVE  IInv'
<1>1. TypeOK'     BY DEF IInv, TypeOK
<1>2. QueueInv' /\ LiveInv'   BY DEF IInv, QueueInv, LiveInv
<1>3. StackInv'   BY DEF IInv, StackInv, Located, Framed, OneFrame, Ordered
<1>4. GroupInv'   BY DEF IInv, GroupInv
<1>5. RootInv'    BY DEF IInv, RootInv, Busy
<1>6. \A c \in Jobs : Unfinished(c)' = Unfinished(c)   BY DEF Unfinished
<1>7. CountersAgree'
  <2>1. \A k \in Jobs : Open(k)' = Open(k)   BY DEF Open, Tasks, Unfinished
  <2>2. \A k \in Jobs : completed[k] + Cardinality(Open(k)) = dispatched[k]
    BY CountersOpen DEF IInv
  <2>3. \A k \in Jobs : (completed[k] + Cardinality(Open(k)) = dispatched[k])'
    BY <2>1, <2>2
  <2> QED BY <2>3 DEF CountersAgree, Open
<1>8. GroupOutlivesTasks'   BY DEF IInv, GroupOutlivesTasks, Unfinished
<1> QED BY <1>1, <1>2, <1>3, <1>4, <1>5, <1>7, <1>8 DEF IInv

LEMMA StepInv ==
  ASSUME IInv, NEW t \in Threads, Step(t)
  PROVE  IInv'
<1>0. TypeOK   BY DEF IInv
<1>1. CASE \E j \in Jobs : JobStep(t, j)
  <2>0. PICK j \in Jobs : JobStep(t, j)   BY <1>1
  <2>1. CASE \E c \in Jobs : run(t, j, c)   BY <2>1, RunInv
  <2>2. CASE wait(t, j)          BY <1>0, <2>2, QuietInv DEF wait, TypeOK
  <2>3. CASE destroy(t, j)
    <3>1. closing' \in [Jobs -> BOOLEAN]   BY <1>0, <2>3 DEF destroy, TypeOK
    <3> QED BY <2>3, <3>1, QuietInv DEF destroy
  <2>4. CASE wait_loop(t, j)     BY <1>0, <2>4, QuietInv DEF wait_loop, TypeOK
  <2>5. CASE wait_return(t, j)   BY <2>5, WaitReturnInv
  <2>6. CASE poll_one(t, j)
    <3>1. pc[Top(t)] = "poll" /\ Enter(t)   BY <2>6 DEF poll_one, At
    <3> QED BY <3>1, EnterInv
  <2>7. CASE poll_return(t, j)   BY <1>0, <2>7, QuietInv DEF poll_return, TypeOK
  <2>8. CASE wrap_job_end(t, j)  BY <2>8, EndInv
  <2> QED BY <2>0, <2>1, <2>2, <2>3, <2>4, <2>5, <2>6, <2>7, <2>8 DEF JobStep
<1>2. CASE io_service_run(t)   BY <1>2, EnterInv DEF io_service_run
<1>3. CASE io_service_run_return(t)
  BY <1>0, <1>3, PoolInv DEF io_service_run_return, TypeOK
<1>4. CASE stop       BY <1>0, <1>4, PoolInv DEF stop, TypeOK
<1>5. CASE join_all   BY <1>0, <1>5, PoolInv DEF join_all, TypeOK
<1> QED BY <1>1, <1>2, <1>3, <1>4, <1>5 DEF Step

LEMMA NextInv == IInv /\ [Next]_vars => IInv'
<1> SUFFICES ASSUME IInv, [Next]_vars PROVE IInv'
  OBVIOUS
<1>1. CASE \E t \in Threads : Step(t)   BY <1>1, StepInv
<1>2. CASE UNCHANGED vars
  BY <1>2, PoolInv DEF vars, IInv, TypeOK
<1> QED BY <1>1, <1>2 DEF Next, Terminated

(* The inductive invariant holds. *)
THEOREM Invariant == Spec => []IInv
BY InitInv, NextInv, PTL DEF Spec

-----------------------------------------------------------------------------
(* The counters of every group differ by its unfinished tasks. *)
THEOREM Counting == Spec => []CountersAgree
<1>1. IInv => CountersAgree   BY DEF IInv
<1> QED BY <1>1, Invariant, PTL

(* A TaskGroup lives until each of its tasks has been counted: no task     *)
(* increments a counter in a frame that has been left.                     *)
THEOREM Lifetime == Spec => []GroupOutlivesTasks
<1>1. IInv => GroupOutlivesTasks   BY DEF IInv
<1> QED BY <1>1, Invariant, PTL

(* When the owner's call is over nothing has been started or queued: the   *)
(* oldest started job would be a task, started after its group's job.      *)
LEMMA RootLast ==
  ASSUME IInv, pc[Root] = "done"
  PROVE  queue = << >> /\ \A j \in Jobs : ~Unfinished(j)
<1>0. TypeOK /\ live \in Seq(Jobs) /\ Unique(live) /\ queue \in Seq(Jobs)
  BY DEF IInv, TypeOK, LiveInv
<1>1. live = << >>
  <2> SUFFICES ASSUME live # << >> PROVE FALSE
    OBVIOUS
  <2>1. /\ In(live[1], live) /\ live[1] \in Jobs
        /\ \A a : ~Before(live, a, live[1])
    BY <1>0, EndsFacts DEF In
  <2>2. pc[live[1]] \in Started   BY <2>1 DEF IInv, LiveInv
  <2>3. live[1] # Root   BY <2>2 DEF Started
  <2>4. Before(live, group[live[1]], live[1])   BY <2>1, <2>2, <2>3 DEF IInv, GroupInv
  <2> QED BY <2>1, <2>4
<1>2. \A j \in Jobs : pc[j] \notin Started
  BY <1>1 DEF IInv, LiveInv, In, Elements
<1>3. \A j \in Jobs : pc[j] # "queued"
  <2> SUFFICES ASSUME NEW j \in Jobs, pc[j] = "queued" PROVE FALSE
    OBVIOUS
  <2>1. j # Root   OBVIOUS
  <2>2. group[j] \in Jobs /\ pc[group[j]] \in {"body", "wait", "poll"}
    BY <2>1 DEF IInv, GroupOutlivesTasks, Unfinished
  <2> QED BY <1>2, <2>2 DEF Started
<1>4. queue = << >>
  <2> SUFFICES ASSUME queue # << >> PROVE FALSE
    OBVIOUS
  <2>1. Head(queue) \in Jobs /\ In(Head(queue), queue)
    BY <1>0, TailFacts DEF IInv, QueueInv
  <2> QED BY <1>3, <2>1 DEF IInv, QueueInv
<1> QED BY <1>2, <1>3, <1>4 DEF Unfinished

(* Stopping the io_service drops no queued task and interrupts none. *)
THEOREM CleanShutdown == Spec => []NothingDropped
<1>1. IInv => NothingDropped   BY RootLast DEF IInv, RootInv, NothingDropped
<1> QED BY <1>1, Invariant, PTL

(* Some thread can always do more than spin in wait: the one whose top job *)
(* started last.                                                           *)
LEMMA LastStartedAdvances == IInv => NoLivelock
<1> SUFFICES ASSUME IInv, pc[Root] # "done" PROVE \E t \in Threads : CanAdvance(t)
  BY DEF NoLivelock
<1>0. TypeOK /\ live \in Seq(Jobs) /\ Unique(live)
  BY DEF IInv, TypeOK, LiveInv
<1>1. live # << >>
  <2>1. In(Root, live)   BY RootAssumption DEF IInv, RootInv, LiveInv
  <2> QED BY <2>1 DEF In, Elements
<1> DEFINE last == live[Len(live)]
<1>2. /\ In(last, live) /\ last \in Jobs
      /\ \A a : ~Before(live, last, a)
  BY <1>0, <1>1, EndsFacts DEF In
<1> HIDE DEF last
<1>3. pc[last] \in Started   BY <1>2 DEF IInv, LiveInv
<1>4. PICK t \in Threads : \E i \in DOMAIN stack[t] : stack[t][i] = last
  BY <1>2, <1>3 DEF IInv, StackInv, Located
<1>5. PICK i \in DOMAIN stack[t] : stack[t][i] = last   BY <1>4
<1>6. Busy(t) /\ Top(t) = last
  <2>1. /\ stack[t] \in Seq(Jobs) /\ Len(stack[t]) \in Nat /\ DOMAIN stack[t] = 1 .. Len(stack[t])
        /\ i \in 1 .. Len(stack[t])
    BY <1>0 DEF TypeOK
  <2>2. Len(stack[t]) \in DOMAIN stack[t] /\ stack[t] # << >>   BY <2>1
  <2>3. ~(i < Len(stack[t]))
    BY <1>2, <1>5, <2>2 DEF IInv, StackInv, Ordered
  <2>4. i = Len(stack[t])   BY <2>1, <2>3
  <2> QED BY <1>5, <2>2, <2>4 DEF Busy, Top
<1>7. CASE Open(last) = {}
  <2>1. completed[last] \in Nat /\ completed[last] + Cardinality(Open(last)) = dispatched[last]
    BY <1>0, <1>2, CountersOpen DEF IInv, TypeOK
  <2>2. completed[last] = dispatched[last]   BY <1>7, <2>1, FS_EmptySet
  <2> QED BY <1>6, <2>2 DEF CanAdvance
<1>8. CASE Open(last) # {}
  <2>1. PICK c \in Jobs : group[c] = last /\ Unfinished(c)
    BY <1>8 DEF Open, Tasks
  <2>2. c # Root   BY <1>2, <2>1, NoGroupAssumption DEF IInv, GroupInv
  <2>3. pc[c] \notin Started
    BY <1>2, <2>1, <2>2 DEF IInv, GroupInv
  <2>4. In(c, queue)   BY <2>1, <2>3 DEF Unfinished, IInv, QueueInv
  <2>5. queue # << >>   BY <2>4 DEF In, Elements
  <2> QED BY <1>6, <2>5 DEF CanAdvance
<1> QED BY <1>7, <1>8

THEOREM NeverLivelocked == Spec => []NoLivelock
BY Invariant, LastStartedAdvances, PTL

-----------------------------------------------------------------------------
LEMMA InitRefines == Init => Abs!Init
<1> SUFFICES ASSUME Init PROVE Abs!Init
  OBVIOUS
<1>1. \A j \in Jobs : Status(j) = IF j = Root THEN "running" ELSE "idle"
  BY DEF Init, Status, Started
<1> QED BY <1>1 DEF Init, Abs!Init, Abs!Idle, Abs!Ungrouped

(* Steps that move jobs between started points of their code stutter. *)
LEMMA Stutters ==
  ASSUME TypeOK, NEW j, NEW q \in Started, pc[j] \in Started,
         pc' = [pc EXCEPT ![j] = q], UNCHANGED group
  PROVE  UNCHANGED Abs!fvars
<1>1. \A k \in Jobs : Status(k)' = Status(k)
  BY DEF TypeOK, Status, Started
<1> QED BY <1>1 DEF Abs!fvars

LEMMA StartRefines ==
  ASSUME IInv, NEW t \in Threads, Enter(t)
  PROVE  Abs!Next
<1> DEFINE c == Head(queue)
<1>1. TypeOK /\ queue \in Seq(Jobs) /\ queue # << >> /\ Unique(queue)
  BY DEF Enter, IInv, TypeOK, QueueInv
<1>2. c \in Jobs /\ pc[c] = "queued"
  BY <1>1, TailFacts DEF IInv, QueueInv
<1>3. pc' = [pc EXCEPT ![c] = "body"] /\ UNCHANGED group   BY DEF Enter
<1> HIDE DEF c
<1>4. Status(c) = "pending"   BY <1>2 DEF Status, Started
<1>5. \A k \in Jobs : Status(k)' = IF k = c THEN "running" ELSE Status(k)
  BY <1>1, <1>2, <1>3 DEF TypeOK, Status, Started
<1>6. Abs!Start(c)   BY <1>2, <1>3, <1>4, <1>5 DEF Abs!Start
<1> QED BY <1>2, <1>6 DEF Abs!Next

LEMMA ForkRefines ==
  ASSUME IInv, NEW t \in Threads, NEW j, NEW c \in Jobs, run(t, j, c)
  PROVE  Abs!Next
<1>1. TypeOK /\ j \in Jobs /\ pc[j] = "body" /\ pc[c] = "idle"
  BY AtFacts DEF run, IInv
<1>2. pc' = [pc EXCEPT ![c] = "queued"] /\ group' = [group EXCEPT ![c] = j]
  BY DEF run
<1>3. Status(j) = "running" /\ Status(c) = "idle"   BY <1>1 DEF Status, Started
<1>4. \A k \in Jobs : Status(k)' = IF k = c THEN "pending" ELSE Status(k)
  BY <1>1, <1>2 DEF TypeOK, Status, Started
<1>5. Abs!Fork(j, c)   BY <1>1, <1>2, <1>3, <1>4 DEF Abs!Fork
<1> QED BY <1>1, <1>5 DEF Abs!Next

(* A job ends with its tasks done: those unfinished would keep it waiting. *)
LEMMA EndRefines ==
  ASSUME IInv, NEW t \in Threads, NEW j, wrap_job_end(t, j)
  PROVE  Abs!Next
<1>1. TypeOK /\ j \in Jobs /\ pc[j] = "returned"
  BY AtFacts DEF wrap_job_end, IInv
<1>2. pc' = [pc EXCEPT ![j] = "done"] /\ UNCHANGED group   BY DEF wrap_job_end
<1>3. Status(j) = "running"   BY <1>1 DEF Status, Started
<1>4. \A k \in Jobs : Status(k)' = IF k = j THEN "done" ELSE Status(k)
  BY <1>1, <1>2 DEF TypeOK, Status, Started
<1>5. ASSUME NEW c \in Jobs, group[c] = j
      PROVE  Status(c) = "done"
  <2>1. c # Root /\ pc[c] # "idle"
    BY <1>1, <1>5, NoGroupAssumption DEF IInv, GroupInv
  <2>2. ~Unfinished(c)
    BY <1>1, <1>5, <2>1 DEF IInv, GroupOutlivesTasks
  <2>3. pc[c] = "done"   BY <1>1, <2>1, <2>2 DEF TypeOK, PC, Unfinished
  <2> QED BY <2>3 DEF Status, Started
<1>6. Abs!End(j)   BY <1>1, <1>2, <1>3, <1>4, <1>5 DEF Abs!End
<1> QED BY <1>1, <1>6 DEF Abs!Next

LEMMA StepRefines == IInv /\ [Next]_vars => [Abs!Next]_(Abs!fvars)
<1> SUFFICES ASSUME IInv, [Next]_vars PROVE [Abs!Next]_(Abs!fvars)
  OBVIOUS
<1>0. TypeOK   BY DEF IInv
<1>1. ASSUME NEW t \in Threads, NEW j \in Jobs, JobStep(t, j)
      PROVE  [Abs!Next]_(Abs!fvars)
  <2>1. CASE \E c \in Jobs : run(t, j, c)   BY <2>1, ForkRefines
  <2>2. CASE wait(t, j)         BY <1>0, <2>2, Stutters DEF wait, At, Started
  <2>3. CASE destroy(t, j)      BY <1>0, <2>3, Stutters DEF destroy, At, Started
  <2>4. CASE wait_loop(t, j)    BY <1>0, <2>4, Stutters DEF wait_loop, At, Started
  <2>5. CASE wait_return(t, j)  BY <1>0, <2>5, Stutters DEF wait_return, At, Started
  <2>6. CASE poll_one(t, j)     BY <2>6, StartRefines DEF poll_one
  <2>7. CASE poll_return(t, j)  BY <1>0, <2>7, Stutters DEF poll_return, At, Started
  <2>8. CASE wrap_job_end(t, j) BY <2>8, EndRefines
  <2> QED BY <1>1, <2>1, <2>2, <2>3, <2>4, <2>5, <2>6, <2>7, <2>8 DEF JobStep
<1>2. ASSUME NEW t \in Threads, Step(t)
      PROVE  [Abs!Next]_(Abs!fvars)
  <2>1. CASE \E j \in Jobs : JobStep(t, j)   BY <1>1, <2>1
  <2>2. CASE io_service_run(t)   BY <2>2, StartRefines DEF io_service_run
  <2>3. CASE UNCHANGED <<pc, group>>   BY <2>3 DEF Abs!fvars, Status
  <2> QED BY <1>2, <2>1, <2>2, <2>3 DEF Step, io_service_run_return, stop, join_all
<1>3. CASE UNCHANGED vars   BY <1>3 DEF vars, Abs!fvars, Status
<1> QED BY <1>2, <1>3 DEF Next, Terminated

(* Thread pool and task groups implement fork-join: every task runs once,  *)
(* after it was dispatched, and no job is over before its tasks are.       *)
THEOREM Implementation == Spec => ImplementsForkJoin
<1>1. Spec => Abs!Init /\ [][Abs!Next]_(Abs!fvars)
  BY InitRefines, StepRefines, Invariant, PTL DEF Spec
<1> QED BY <1>1 DEF ImplementsForkJoin, Abs!Spec
=============================================================================
