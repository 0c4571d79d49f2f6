------------------------- MODULE QueryTraverseProofs -------------------------
(***************************************************************************)
(* Proofs about QueryTraverse, for every graph, callback, list of start    *)
(* nodes and load balance limit: no node is called twice, a claimed node   *)
(* waits in one place, and the flags of a call that returns mark what can  *)
(* be reached.                                                             *)
(***************************************************************************)
EXTENDS QueryTraverse, TLAPS

(***************************************************************************)
(* What ForkJoin implies for the code that uses it: a task is outlived by  *)
(* the job that forked it, and when the root job is over nothing is left.  *)
(***************************************************************************)
Unfinished == {c \in Jobs : status[c] \in {"pending", "running"}}

FJTypeOK == /\ status \in [Jobs -> {"idle", "pending", "running", "done"}]
            /\ group \in [Jobs -> Jobs \cup {NoGroup}]

RootStarted == status[Call] \in {"running", "done"}

ForkerRuns ==
  \A c \in Unfinished \ {Call} : group[c] \in Jobs /\ status[group[c]] = "running"

(* Following group from a task never runs in a circle: every set of tasks  *)
(* that are not over has one that a job outside of the set forked.         *)
WellFounded ==
  \A S \in SUBSET (Unfinished \ {Call}) : S # {} => \E c \in S : group[c] \notin S

FJInv == Call \in Jobs /\ FJTypeOK /\ RootStarted /\ ForkerRuns /\ WellFounded

-----------------------------------------------------------------------------
LEMMA FJInit ==
  ASSUME Call \in Jobs, FJ!Init
  PROVE  FJInv
<1>1. status = FJ!Idle /\ group = FJ!Ungrouped   BY DEF FJ!Init
<1>2. Unfinished \ {Call} = {}   BY <1>1 DEF Unfinished, FJ!Idle
<1>3. FJTypeOK /\ RootStarted   BY <1>1 DEF FJTypeOK, RootStarted, FJ!Idle, FJ!Ungrouped
<1> QED BY <1>2, <1>3 DEF FJInv, ForkerRuns, WellFounded

(* A caller that begins another fork-join computation. *)
LEMMA FJReset ==
  ASSUME Call \in Jobs, status' = FJ!Idle, group' = FJ!Ungrouped
  PROVE  FJInv'
<1>1. Unfinished' \ {Call} = {}   BY DEF Unfinished, FJ!Idle
<1>2. FJTypeOK' /\ RootStarted'   BY DEF FJTypeOK, RootStarted, FJ!Idle, FJ!Ungrouped
<1> QED BY <1>1, <1>2 DEF FJInv, ForkerRuns, WellFounded

LEMMA FJFork ==
  ASSUME FJInv, NEW j \in Jobs, NEW c \in Jobs, FJ!Fork(j, c)
  PROVE  FJInv' /\ Unfinished' = Unfinished \cup {c}
<1>1. /\ status[j] = "running" /\ status[c] = "idle" /\ c # Call /\ c # j
      /\ status' = [status EXCEPT ![c] = "pending"] /\ group' = [group EXCEPT ![c] = j]
  BY DEF FJ!Fork, FJInv, RootStarted
<1>2. FJTypeOK' /\ RootStarted' /\ Call \in Jobs
  BY <1>1 DEF FJInv, FJTypeOK, RootStarted
<1>3. Unfinished' = Unfinished \cup {c} /\ c \notin Unfinished /\ j \in Unfinished
  BY <1>1 DEF Unfinished, FJInv, FJTypeOK
<1>4. \A d \in Unfinished \ {Call} : group'[d] = group[d] /\ group[d] # c
  BY <1>1, <1>3 DEF FJInv, FJTypeOK, ForkerRuns, Unfinished
<1>5. group'[c] = j   BY <1>1 DEF FJInv, FJTypeOK
<1>6. ForkerRuns'
  <2> SUFFICES ASSUME NEW d \in (Unfinished \ {Call})'
               PROVE  group'[d] \in Jobs /\ status'[group'[d]] = "running"
    BY DEF ForkerRuns
  <2>1. CASE d = c   BY <1>1, <1>5, <2>1 DEF FJInv, FJTypeOK
  <2>2. CASE d # c
    BY <1>1, <1>3, <1>4, <2>2 DEF FJInv, FJTypeOK, ForkerRuns
  <2> QED BY <2>1, <2>2
<1>7. WellFounded'
  <2> SUFFICES ASSUME NEW S \in SUBSET ((Unfinished \ {Call})'), S # {}
               PROVE  \E d \in S : group'[d] \notin S
    BY DEF WellFounded
  <2>1. CASE S \ {c} = {}
    <3>1. S = {c}   BY <2>1
    <3> QED BY <1>1, <1>5, <3>1
  <2>2. CASE S \ {c} # {}
    <3>1. S \ {c} \in SUBSET (Unfinished \ {Call})   BY <1>3
    <3>2. PICK d \in S \ {c} : group[d] \notin S \ {c}   BY <2>2, <3>1 DEF FJInv, WellFounded
    <3>3. group'[d] = group[d] /\ group[d] # c   BY <1>4, <3>1
    <3> QED BY <3>2, <3>3
  <2> QED BY <2>1, <2>2
<1> QED BY <1>2, <1>3, <1>6, <1>7 DEF FJInv

LEMMA FJStart ==
  ASSUME FJInv, NEW c \in Jobs, FJ!Start(c)
  PROVE  FJInv' /\ Unfinished' = Unfinished
<1>1. /\ status[c] = "pending" /\ c # Call /\ group' = group
      /\ status' = [status EXCEPT ![c] = "running"]
  BY DEF FJ!Start, FJInv, RootStarted
<1>2. FJTypeOK' /\ RootStarted' /\ Call \in Jobs
  BY <1>1 DEF FJInv, FJTypeOK, RootStarted
<1>3. Unfinished' = Unfinished
  BY <1>1 DEF Unfinished, FJInv, FJTypeOK
<1>4. ForkerRuns'   BY <1>1, <1>3 DEF FJInv, FJTypeOK, ForkerRuns
<1>5. WellFounded'  BY <1>1, <1>3 DEF FJInv, WellFounded
<1> QED BY <1>2, <1>3, <1>4, <1>5 DEF FJInv

LEMMA FJEnd ==
  ASSUME FJInv, NEW j \in Jobs, FJ!End(j)
  PROVE  FJInv' /\ Unfinished' = Unfinished \ {j}
<1>1. /\ status[j] = "running" /\ group' = group
      /\ status' = [status EXCEPT ![j] = "done"]
      /\ \A c \in Jobs : group[c] = j => status[c] = "done"
  BY DEF FJ!End
<1>2. FJTypeOK' /\ RootStarted' /\ Call \in Jobs
  BY <1>1 DEF FJInv, FJTypeOK, RootStarted
<1>3. Unfinished' = Unfinished \ {j}
  BY <1>1 DEF Unfinished, FJInv, FJTypeOK
<1>4. ForkerRuns'
  BY <1>1, <1>3 DEF FJInv, FJTypeOK, ForkerRuns, Unfinished
<1>5. WellFounded'
  BY <1>1, <1>3 DEF FJInv, WellFounded
<1> QED BY <1>2, <1>3, <1>4, <1>5 DEF FJInv

(* When the root job ends, every task that was ever forked has ended. *)
LEMMA FJRootEnds ==
  ASSUME FJInv, FJ!End(Call)
  PROVE  Unfinished' = {}
<1>1. Unfinished' = Unfinished \ {Call}   BY FJEnd DEF FJInv
<1>2. SUFFICES ASSUME Unfinished \ {Call} # {} PROVE FALSE
  BY <1>1
<1>3. PICK c \in Unfinished \ {Call} : group[c] \notin Unfinished \ {Call}
  BY <1>2 DEF FJInv, WellFounded
<1>4. group[c] \in Unfinished   BY <1>3 DEF FJInv, ForkerRuns, Unfinished
<1>5. group[c] = Call   BY <1>3, <1>4
<1>6. status[c] = "done"   BY <1>5 DEF FJ!End, Unfinished
<1> QED BY <1>6 DEF Unfinished

(* Fork-join: whatever tasks fork tasks, once the root job is over no task *)
(* is left that waits to run or runs.                                      *)
RootEndsLast == status[Call] = "done" => Unfinished = {}

THEOREM RootLast == FJ!Spec => []RootEndsLast
<1> DEFINE I == FJInv /\ RootEndsLast
<1>0. Call \in Jobs
  BY DEF Jobs
<1>1. FJ!Init => I
  <2>1. FJ!Init => RootEndsLast   BY <1>0 DEF FJ!Init, RootEndsLast, FJ!Idle
  <2> QED BY <1>0, <2>1, FJInit
<1>2. I /\ [FJ!Next]_(FJ!fvars) => I'
  <2> SUFFICES ASSUME I, [FJ!Next]_(FJ!fvars) PROVE I'
    OBVIOUS
  <2>1. ASSUME NEW j \in Jobs, NEW c \in Jobs, FJ!Fork(j, c) PROVE I'
    <3>1. status'[Call] = status[Call] /\ Unfinished # {}
      BY <2>1 DEF FJ!Fork, FJInv, FJTypeOK, RootStarted, Unfinished
    <3> QED BY <2>1, <3>1, FJFork DEF RootEndsLast
  <2>2. ASSUME NEW c \in Jobs, FJ!Start(c) PROVE I'
    <3>1. status'[Call] = status[Call]
      BY <2>2 DEF FJ!Start, FJInv, FJTypeOK, RootStarted
    <3> QED BY <2>2, <3>1, FJStart DEF RootEndsLast
  <2>3. ASSUME NEW j \in Jobs, FJ!End(j) PROVE I'
    <3>1. CASE j = Call   BY <2>3, <3>1, FJEnd, FJRootEnds DEF RootEndsLast
    <3>2. CASE j # Call
      <4>1. status'[Call] = status[Call]   BY <2>3, <3>2 DEF FJ!End, FJInv, FJTypeOK
      <4> QED BY <2>3, <4>1, FJEnd DEF RootEndsLast
    <3> QED BY <3>1, <3>2
  <2>4. CASE UNCHANGED FJ!fvars
    BY <2>4 DEF FJ!fvars, FJInv, FJTypeOK, RootStarted, ForkerRuns, WellFounded, Unfinished,
                RootEndsLast
  <2> QED BY <2>1, <2>2, <2>3, <2>4 DEF FJ!Next
<1>3. I => RootEndsLast   OBVIOUS
<1> QED BY <1>1, <1>2, <1>3, PTL DEF FJ!Spec

-----------------------------------------------------------------------------
(* A frame exists as long as its job runs, and holds no work once it is    *)
(* left or back in the batch that made it.                                 *)
Frames ==
  \A j \in Workload :
    /\ (at[j] # "out") <=> (status[j] = "running")
    /\ at[j] \in {"out", "batch"} => stack[j] = << >>
    /\ at[j] # "callback" => todo[j] = {}
    /\ at[j] = "batch" => j \in Batches

(* Nothing of a walk is left before and after it. *)
CallState ==
  /\ call = "run" => status[Call] = "running" /\ starts # << >>
  /\ call # "run" => \A j \in Workload : status[j] \notin {"pending", "running"}
  /\ call \in {"idle", "clean"} => status = FJ!Idle

(* visited_clean tells the truth, and a walk starts from clean flags. *)
Cleaning ==
  /\ visited_clean => call # "run"
  /\ visited_clean /\ call \in {"idle", "returned"} => visited = {}
  /\ call = "clean" => visited \subseteq dirty
  /\ call = "clean" /\ starts # << >> => \A n \in Nodes : called[n] = 0

(* The nodes that are not claimed, wait in the pool, wait on a stack. *)
UnclaimedUntouched == \A n \in Nodes : n \notin visited => called[n] = 0 /\ status[n] = "idle"

PendingFresh == \A n \in Nodes : status[n] = "pending" => called[n] = 0

StackFresh ==
  \A j \in Workload : \A i \in DOMAIN stack[j] :
    stack[j][i] \in visited /\ called[stack[j][i]] = 0 /\ status[stack[j][i]] # "pending"

StackUnique ==
  \A j, k \in Workload : \A i \in DOMAIN stack[j], l \in DOMAIN stack[k] :
    stack[j][i] = stack[k][l] => j = k /\ i = l

OnStack(n) == \E j \in Workload : \E i \in DOMAIN stack[j] : stack[j][i] = n

ClaimedKept ==
  \A n \in visited : called[n] # 0 \/ status[n] = "pending" \/ OnStack(n)

(* What the walk has claimed lies in every closed set with the start nodes. *)
NothingElse ==
  \A C \in SUBSET Nodes :
    Elements(starts) \subseteq C /\ Closed(C) =>
      visited \subseteq C /\ \A j \in Workload : todo[j] \subseteq C

(* The successors of a called node are claimed, or a callback has yet to   *)
(* select them; a start node is claimed, or a batch has yet to look at it. *)
SuccessorsSeen ==
  \A n \in Nodes : called[n] # 0 =>
    \A m \in succ[n] : m \in visited \/ \E j \in Workload : m \in todo[j]

InBatch(b, i) ==
  b \in BatchStarts(0, Len(starts)) /\ b < i /\ i <= BatchEnd(b, 0, Len(starts))

StartsSeen ==
  \A i \in DOMAIN starts :
    \/ starts[i] \in visited
    \/ \E b \in Batches : /\ InBatch(b, i)
                          /\ \/ status[b] \in {"idle", "pending"}
                             \/ at[b] # "out" /\ next[b] < i

Walk == /\ UnclaimedUntouched
        /\ PendingFresh
        /\ StackFresh
        /\ StackUnique
        /\ ClaimedKept
        /\ NothingElse
        /\ SuccessorsSeen
        /\ StartsSeen

IInv == /\ TypeOK
        /\ FJInv
        /\ Frames
        /\ CallState
        /\ Cleaning
        /\ AtMostOnce
        /\ call = "run" => Walk
        /\ ResultIsReach

-----------------------------------------------------------------------------
LEMMA JobFacts ==
  /\ Batches \subseteq Nat /\ Batches \subseteq Workload /\ Nodes \subseteq Workload
  /\ Workload \subseteq Jobs /\ Call \in Jobs /\ Call \notin Workload
  /\ \A b \in Batches : b \notin Nodes
BY JobsAssumption, LimitsAssumption DEF Batches, Workload, Jobs

(* The arithmetic of parallel_for: every index is in a batch. *)
LEMMA BatchesCover ==
  ASSUME NEW last \in Nat, last <= MaxStarts, NEW i \in 1 .. last
  PROVE  \E b \in Batches : b \in BatchStarts(0, last) /\ b < i /\ i <= BatchEnd(b, 0, last)
<1>1. 0 \div POOL = 0   BY LimitsAssumption
<1>2. Step(0, last) = last /\ last > 0   BY <1>1 DEF Step
<1>3. (0 - 0) % last = 0   BY <1>2
<1>4. 0 \in BatchStarts(0, last)   BY <1>2, <1>3 DEF BatchStarts
<1>5. BatchEnd(0, 0, last) = last   BY <1>2 DEF BatchEnd
<1> QED BY <1>4, <1>5, LimitsAssumption DEF Batches

LEMMA BatchStartsAreBatches ==
  ASSUME NEW last \in Nat, last <= MaxStarts
  PROVE  BatchStarts(0, last) \subseteq Batches
BY LimitsAssumption DEF BatchStarts, Batches

(* Pushing a node on the stack of a frame adds one slot. *)
LEMMA PushSlots ==
  ASSUME TypeOK, NEW j \in Workload, NEW n \in Nodes,
         stack' = [stack EXCEPT ![j] = Append(@, n)]
  PROVE  /\ stack' \in [Workload -> Seq(Nodes)]
         /\ \A k \in Workload : \A i \in DOMAIN stack'[k] :
              \/ k = j /\ i = Len(stack[j]) + 1 /\ stack'[k][i] = n
              \/ i \in DOMAIN stack[k] /\ stack'[k][i] = stack[k][i]
         /\ \A k \in Workload : \A i \in DOMAIN stack[k] :
              i \in DOMAIN stack'[k] /\ stack'[k][i] = stack[k][i]
         /\ \E i \in DOMAIN stack'[j] : stack'[j][i] = n
<1>1. stack \in [Workload -> Seq(Nodes)]   BY DEF TypeOK
<1>2. PICK s \in Seq(Nodes) : s = stack[j]   BY <1>1
<1>3. PICK r : r = Append(s, n)   OBVIOUS
<1>4. /\ r \in Seq(Nodes) /\ DOMAIN r = 1 .. Len(s) + 1 /\ DOMAIN s = 1 .. Len(s)
      /\ Len(s) \in Nat /\ r[Len(s) + 1] = n /\ \A i \in 1 .. Len(s) : r[i] = s[i]
  BY <1>3
<1>5. stack'[j] = r /\ \A k \in Workload \ {j} : stack'[k] = stack[k]
  BY <1>1, <1>2, <1>3
<1>6. stack' \in [Workload -> Seq(Nodes)]   BY <1>1, <1>2, <1>3, <1>4
<1>7. \A k \in Workload : \A i \in DOMAIN stack'[k] :
        \/ k = j /\ i = Len(stack[j]) + 1 /\ stack'[k][i] = n
        \/ i \in DOMAIN stack[k] /\ stack'[k][i] = stack[k][i]
  <2> SUFFICES ASSUME NEW k \in Workload, NEW i \in DOMAIN stack'[k]
               PROVE  \/ k = j /\ i = Len(stack[j]) + 1 /\ stack'[k][i] = n
                      \/ i \in DOMAIN stack[k] /\ stack'[k][i] = stack[k][i]
    OBVIOUS
  <2>1. CASE k = j   BY <1>2, <1>4, <1>5, <2>1
  <2>2. CASE k # j   BY <1>5, <2>2
  <2> QED BY <2>1, <2>2
<1>8. \A k \in Workload : \A i \in DOMAIN stack[k] :
        i \in DOMAIN stack'[k] /\ stack'[k][i] = stack[k][i]
  <2> SUFFICES ASSUME NEW k \in Workload, NEW i \in DOMAIN stack[k]
               PROVE  i \in DOMAIN stack'[k] /\ stack'[k][i] = stack[k][i]
    OBVIOUS
  <2>1. CASE k = j   BY <1>2, <1>4, <1>5, <2>1
  <2>2. CASE k # j   BY <1>5, <2>2
  <2> QED BY <2>1, <2>2
<1>9. \E i \in DOMAIN stack'[j] : stack'[j][i] = n
  <2>1. Len(s) + 1 \in DOMAIN stack'[j]   BY <1>4, <1>5
  <2> QED BY <1>4, <1>5, <2>1
<1> QED BY <1>6, <1>7, <1>8, <1>9

(* Taking the top node off the stack removes its slot. *)
LEMMA PopSlots ==
  ASSUME TypeOK, NEW j \in Workload, stack[j] # << >>,
         stack' = [stack EXCEPT ![j] = SubSeq(@, 1, Len(@) - 1)]
  PROVE  /\ stack' \in [Workload -> Seq(Nodes)]
         /\ Len(stack[j]) \in DOMAIN stack[j] /\ stack[j][Len(stack[j])] \in Nodes
         /\ \A k \in Workload : \A i \in DOMAIN stack'[k] :
              /\ i \in DOMAIN stack[k] /\ stack'[k][i] = stack[k][i]
              /\ ~(k = j /\ i = Len(stack[j]))
         /\ \A k \in Workload : \A i \in DOMAIN stack[k] :
              \/ k = j /\ i = Len(stack[j])
              \/ i \in DOMAIN stack'[k] /\ stack'[k][i] = stack[k][i]
<1>1. stack \in [Workload -> Seq(Nodes)]   BY DEF TypeOK
<1>2. PICK s \in Seq(Nodes) : s = stack[j]   BY <1>1
<1>3. PICK r : r = SubSeq(s, 1, Len(s) - 1)   OBVIOUS
<1>4. Len(s) \in Nat /\ Len(s) > 0 /\ DOMAIN s = 1 .. Len(s) /\ s[Len(s)] \in Nodes
  BY <1>2
<1>5. /\ r \in Seq(Nodes) /\ DOMAIN r = 1 .. Len(s) - 1
      /\ \A i \in 1 .. Len(s) - 1 : r[i] = s[i]
  BY <1>3, <1>4
<1>6. stack'[j] = r /\ \A k \in Workload \ {j} : stack'[k] = stack[k]
  BY <1>1, <1>2, <1>3
<1>7. stack' \in [Workload -> Seq(Nodes)]   BY <1>1, <1>2, <1>3, <1>5
<1>8. \A k \in Workload : \A i \in DOMAIN stack'[k] :
         /\ i \in DOMAIN stack[k] /\ stack'[k][i] = stack[k][i]
         /\ ~(k = j /\ i = Len(stack[j]))
  <2> SUFFICES ASSUME NEW k \in Workload, NEW i \in DOMAIN stack'[k]
               PROVE  /\ i \in DOMAIN stack[k] /\ stack'[k][i] = stack[k][i]
                      /\ ~(k = j /\ i = Len(stack[j]))
    OBVIOUS
  <2>1. CASE k = j   BY <1>2, <1>4, <1>5, <1>6, <2>1
  <2>2. CASE k # j   BY <1>6, <2>2
  <2> QED BY <2>1, <2>2
<1>9. \A k \in Workload : \A i \in DOMAIN stack[k] :
        \/ k = j /\ i = Len(stack[j])
        \/ i \in DOMAIN stack'[k] /\ stack'[k][i] = stack[k][i]
  <2> SUFFICES ASSUME NEW k \in Workload, NEW i \in DOMAIN stack[k]
               PROVE  \/ k = j /\ i = Len(stack[j])
                      \/ i \in DOMAIN stack'[k] /\ stack'[k][i] = stack[k][i]
    OBVIOUS
  <2>1. CASE k = j   BY <1>2, <1>4, <1>5, <1>6, <2>1
  <2>2. CASE k # j   BY <1>6, <2>2
  <2> QED BY <2>1, <2>2
<1> QED BY <1>2, <1>4, <1>7, <1>8, <1>9

-----------------------------------------------------------------------------
LEMMA JobsUnchanged ==
  ASSUME FJInv, UNCHANGED <<status, group>>
  PROVE  FJInv'
BY DEF FJInv, FJTypeOK, RootStarted, ForkerRuns, WellFounded, Unfinished

LEMMA IdleJobs ==
  ASSUME status = FJ!Idle
  PROVE  /\ status[Call] = "running" /\ \A j \in Workload : status[j] = "idle"
BY JobFacts DEF FJ!Idle

LEMMA InitInv == Init => IInv
<1> SUFFICES ASSUME Init PROVE IInv
  OBVIOUS
<1>1. /\ visited \in SUBSET Nodes /\ visited_clean = FALSE /\ dirty = {} /\ call = "idle"
      /\ starts = << >> /\ succ = [n \in Nodes |-> {}] /\ FJ!Init
      /\ at = [j \in Workload |-> "out"] /\ next = [b \in Batches |-> 0]
      /\ stack = [j \in Workload |-> << >>] /\ to_visit = [j \in Workload |-> 0]
      /\ todo = [j \in Workload |-> {}] /\ called = [n \in Nodes |-> 0]
  BY DEF Init
<1>2. status = FJ!Idle /\ group = FJ!Ungrouped   BY <1>1 DEF FJ!Init
<1>3. FJInv
  BY <1>1, JobFacts, FJInit
<1>4. TypeOK
  <2>1. starts \in Seq(Nodes) /\ Len(starts) <= MaxStarts   BY <1>1, LimitsAssumption
  <2>2. /\ status \in [Jobs -> {"idle", "pending", "running", "done"}]
        /\ group \in [Jobs -> Jobs \cup {NoGroup}]
    BY <1>2 DEF FJ!Idle, FJ!Ungrouped
  <2>3. stack \in [Workload -> Seq(Nodes)]   BY <1>1
  <2>4. /\ visited_clean \in BOOLEAN /\ dirty \in SUBSET Nodes
        /\ call \in {"idle", "clean", "run", "returned"} /\ succ \in [Nodes -> SUBSET Nodes]
        /\ at \in [Workload -> {"out", "batch", "loop", "callback"}]
        /\ next \in [Batches -> Nat] /\ to_visit \in [Workload -> Nat]
        /\ todo \in [Workload -> SUBSET Nodes] /\ called \in [Nodes -> Nat]
    BY <1>1
  <2> QED BY <1>1, <2>1, <2>2, <2>3, <2>4 DEF TypeOK
<1>5. Frames   BY <1>1, <1>2, IdleJobs DEF Frames
<1>6. CallState   BY <1>1, <1>2, IdleJobs DEF CallState
<1>7. Cleaning   BY <1>1 DEF Cleaning
<1>8. AtMostOnce   BY <1>1 DEF AtMostOnce
<1>9. call # "run" /\ ResultIsReach   BY <1>1 DEF ResultIsReach
<1> QED BY <1>3, <1>4, <1>5, <1>6, <1>7, <1>8, <1>9 DEF IInv

(* A walk begins with clean flags, idle jobs and empty frames. *)
LEMMA WalkBegins ==
  ASSUME TypeOK', Frames', status' = FJ!Idle, visited' = {}, \A n \in Nodes : called'[n] = 0
  PROVE  Walk'
<1>1. \A j \in Workload : status'[j] = "idle"   BY JobFacts DEF FJ!Idle
<1>2. \A j \in Workload : stack'[j] = << >> /\ todo'[j] = {}
  BY <1>1 DEF Frames, TypeOK
<1>3. \A j \in Workload : DOMAIN stack'[j] = {}   BY <1>2
<1>4. UnclaimedUntouched' /\ PendingFresh'
  BY <1>1, JobFacts DEF UnclaimedUntouched, PendingFresh
<1>5. StackFresh' /\ StackUnique'   BY <1>3 DEF StackFresh, StackUnique
<1>6. ClaimedKept' /\ NothingElse' /\ SuccessorsSeen'
  BY <1>2 DEF ClaimedKept, NothingElse, SuccessorsSeen
<1>7. StartsSeen'
  <2> SUFFICES ASSUME NEW i \in DOMAIN starts'
               PROVE  \E b \in Batches : InBatch(b, i)' /\ status'[b] = "idle"
    BY DEF StartsSeen
  <2>1. Len(starts') \in Nat /\ Len(starts') <= MaxStarts /\ i \in 1 .. Len(starts')
    BY DEF TypeOK
  <2>2. PICK b \in Batches : InBatch(b, i)'   BY <2>1, BatchesCover DEF InBatch
  <2> QED BY <1>1, <2>2, JobFacts
<1> QED BY <1>4, <1>5, <1>6, <1>7 DEF Walk

(* The steps of the caller outside of a walk. *)
LEMMA CleanVisitFlagsInv == IInv /\ clean_visit_flags => IInv'
<1> SUFFICES ASSUME IInv, clean_visit_flags PROVE IInv'
  OBVIOUS
<1>1. /\ call = "idle" /\ call' = "clean" /\ dirty' = Nodes /\ starts' = << >>
      /\ UNCHANGED <<visited, visited_clean, succ, status, group, at, next, stack, to_visit,
                     todo, called>>
  BY DEF clean_visit_flags, frames
<1>2. starts' \in Seq(Nodes) /\ Len(starts') <= MaxStarts   BY <1>1, LimitsAssumption
<1>3. TypeOK'   BY <1>1, <1>2 DEF IInv, TypeOK
<1>4. FJInv'   BY <1>1, JobsUnchanged DEF IInv
<1>5. Frames' /\ CallState' /\ Cleaning' /\ AtMostOnce'
  BY <1>1, <1>3 DEF IInv, TypeOK, Frames, CallState, Cleaning, AtMostOnce
<1>6. call' # "run" /\ ResultIsReach'   BY <1>1 DEF ResultIsReach
<1> QED BY <1>3, <1>4, <1>5, <1>6 DEF IInv

LEMMA CleanInv == ASSUME IInv, NEW n \in Nodes, clean(n) PROVE IInv'
<1>1. /\ call = "clean" /\ n \in dirty /\ visited' = visited \ {n} /\ dirty' = dirty \ {n}
      /\ UNCHANGED <<visited_clean, call, starts, succ, status, group, at, next, stack, to_visit,
                     todo, called>>
  BY DEF clean, frames
<1>2. TypeOK'   BY <1>1 DEF IInv, TypeOK
<1>3. FJInv'   BY <1>1, JobsUnchanged DEF IInv
<1>4. Frames' /\ CallState' /\ Cleaning' /\ AtMostOnce'
  BY <1>1 DEF IInv, Frames, CallState, Cleaning, AtMostOnce
<1>5. call' # "run" /\ ResultIsReach'   BY <1>1 DEF ResultIsReach
<1> QED BY <1>2, <1>3, <1>4, <1>5 DEF IInv

LEMMA CleanReturnInv == IInv /\ clean_return => IInv'
<1> SUFFICES ASSUME IInv, clean_return PROVE IInv'
  OBVIOUS
<1>1. /\ call = "clean" /\ dirty = {} /\ call' = (IF starts = << >> THEN "idle" ELSE "run")
      /\ visited_clean' = (starts = << >>)
      /\ UNCHANGED <<visited, dirty, starts, succ, status, group, at, next, stack, to_visit,
                     todo, called>>
  BY DEF clean_return, frames
<1>2. TypeOK'   BY <1>1 DEF IInv, TypeOK
<1>3. FJInv'   BY <1>1, JobsUnchanged DEF IInv
<1>4. visited = {} /\ status = FJ!Idle   BY <1>1 DEF IInv, Cleaning, CallState
<1>5. Frames' /\ AtMostOnce'   BY <1>1 DEF IInv, Frames, AtMostOnce
<1>6. CallState'   BY <1>1, <1>4, IdleJobs DEF CallState
<1>7. Cleaning'   BY <1>1, <1>4 DEF Cleaning
<1>8. ResultIsReach'   BY <1>1 DEF ResultIsReach
<1>9. ASSUME call' = "run" PROVE Walk'
  <2>1. starts # << >>   BY <1>1, <1>9
  <2>2. visited' = {} /\ status' = FJ!Idle /\ \A n \in Nodes : called'[n] = 0
    BY <1>1, <1>4, <2>1 DEF IInv, Cleaning
  <2> QED BY <1>2, <1>5, <2>2, WalkBegins
<1> QED BY <1>2, <1>3, <1>5, <1>6, <1>7, <1>8, <1>9 DEF IInv

LEMMA TraverseInv ==
  ASSUME IInv, NEW s \in StartLists, NEW g \in Callbacks, traverse(s, g)
  PROVE  IInv'
<1>1. /\ call = "idle" /\ starts' = s /\ succ' = g /\ called' = [n \in Nodes |-> 0]
      /\ UNCHANGED <<visited, status, group, at, next, stack, to_visit, todo>>
      /\ \/ s = << >> /\ call' = "returned" /\ UNCHANGED <<visited_clean, dirty>>
         \/ s # << >> /\ visited_clean /\ call' = "run" /\ visited_clean' = FALSE
            /\ UNCHANGED dirty
         \/ s # << >> /\ ~visited_clean /\ call' = "clean" /\ dirty' = Nodes
            /\ UNCHANGED visited_clean
  BY DEF traverse, frames
<1>2. TypeOK'
  BY <1>1, CallbacksAssumption, StartsAssumption DEF IInv, TypeOK
<1>3. FJInv'   BY <1>1, JobsUnchanged DEF IInv
<1>4. Frames'   BY <1>1 DEF IInv, Frames
<1>5. status = FJ!Idle   BY <1>1 DEF IInv, CallState
<1>6. CallState'   BY <1>1, <1>5, IdleJobs DEF CallState
<1>7. Cleaning'   BY <1>1 DEF IInv, TypeOK, Cleaning
<1>8. AtMostOnce'   BY <1>1 DEF AtMostOnce
<1>9. ResultIsReach'   BY <1>1 DEF ResultIsReach
<1>10. ASSUME call' = "run" PROVE Walk'
  <2>1. visited' = {} /\ status' = FJ!Idle /\ \A n \in Nodes : called'[n] = 0
    BY <1>1, <1>5, <1>10 DEF IInv, Cleaning
  <2> QED BY <1>2, <1>4, <2>1, WalkBegins
<1> QED BY <1>2, <1>3, <1>4, <1>6, <1>7, <1>8, <1>9, <1>10 DEF IInv

LEMMA ResultUsedInv == IInv /\ result_used => IInv'
<1> SUFFICES ASSUME IInv, result_used PROVE IInv'
  OBVIOUS
<1>1. /\ call = "returned" /\ call' = "idle" /\ status' = FJ!Idle /\ group' = FJ!Ungrouped
      /\ starts' = << >> /\ succ' = [n \in Nodes |-> {}] /\ called' = [n \in Nodes |-> 0]
      /\ next' = [b \in Batches |-> 0] /\ to_visit' = [j \in Workload |-> 0]
      /\ UNCHANGED <<visited, visited_clean, dirty, at, stack, todo>>
  BY DEF result_used
<1>2. TypeOK'
  <2>1. starts' \in Seq(Nodes) /\ Len(starts') <= MaxStarts   BY <1>1, LimitsAssumption
  <2>2. /\ status' \in [Jobs -> {"idle", "pending", "running", "done"}]
        /\ group' \in [Jobs -> Jobs \cup {NoGroup}]
    BY <1>1 DEF FJ!Idle, FJ!Ungrouped
  <2> QED BY <1>1, <2>1, <2>2 DEF IInv, TypeOK
<1>3. FJInv'
  <2>1. status' = FJ!Idle /\ group' = FJ!Ungrouped
    BY <1>1 DEF FJ!Idle, FJ!Ungrouped
  <2> QED BY <2>1, JobFacts, FJReset
<1>4. \A j \in Workload : status'[j] = "idle" /\ at[j] = "out"
  BY <1>1, JobFacts DEF IInv, Frames, CallState, FJ!Idle
<1>5. Frames'   BY <1>1, <1>4 DEF IInv, Frames
<1>6. CallState'   BY <1>1, <1>4 DEF CallState
<1>7. Cleaning'   BY <1>1 DEF IInv, Cleaning
<1>8. AtMostOnce' /\ ResultIsReach' /\ call' # "run"   BY <1>1 DEF AtMostOnce, ResultIsReach
<1> QED BY <1>2, <1>3, <1>5, <1>6, <1>7, <1>8 DEF IInv

-----------------------------------------------------------------------------
(* The steps of fork-join, for the jobs of a walk. *)
LEMMA ForkFacts ==
  ASSUME TypeOK, FJInv, NEW j \in Jobs, NEW c \in Jobs, FJ!Fork(j, c)
  PROVE  /\ FJInv' /\ status[j] = "running" /\ status[c] = "idle" /\ c # Call
         /\ status' = [status EXCEPT ![c] = "pending"]
         /\ status' \in [Jobs -> {"idle", "pending", "running", "done"}]
         /\ group' \in [Jobs -> Jobs \cup {NoGroup}]
<1>1. FJInv'   BY FJFork
<1> QED BY <1>1 DEF FJ!Fork, TypeOK, FJInv, RootStarted

LEMMA StartFacts ==
  ASSUME TypeOK, FJInv, NEW c \in Jobs, FJ!Start(c)
  PROVE  /\ FJInv' /\ status[c] = "pending" /\ c # Call /\ UNCHANGED group
         /\ status' = [status EXCEPT ![c] = "running"]
         /\ status' \in [Jobs -> {"idle", "pending", "running", "done"}]
<1>1. FJInv'   BY FJStart
<1> QED BY <1>1 DEF FJ!Start, TypeOK, FJInv, RootStarted

LEMMA EndFacts ==
  ASSUME TypeOK, FJInv, NEW j \in Jobs, FJ!End(j)
  PROVE  /\ FJInv' /\ status[j] = "running" /\ UNCHANGED group
         /\ status' = [status EXCEPT ![j] = "done"]
         /\ status' \in [Jobs -> {"idle", "pending", "running", "done"}]
<1>1. FJInv'   BY FJEnd
<1> QED BY <1>1 DEF FJ!End, TypeOK

(* A job that is not over belongs to a walk. *)
LEMMA InWalk ==
  ASSUME IInv, NEW j \in Workload, status[j] \in {"pending", "running"} \/ at[j] # "out"
  PROVE  /\ call = "run" /\ Walk /\ status[Call] = "running" /\ starts # << >>
         /\ ~visited_clean
BY DEF IInv, Frames, CallState, Cleaning

(* What a step of a walk keeps of the caller's state. *)
LEMMA CallerUnchanged ==
  ASSUME IInv, call = "run", UNCHANGED <<call, visited_clean, starts>>, status'[Call] = "running"
  PROVE  CallState' /\ Cleaning' /\ ResultIsReach'
BY DEF IInv, CallState, Cleaning, ResultIsReach

LEMMA DispatchBatchInv == ASSUME IInv, NEW b \in Batches, dispatch_batch(b) PROVE IInv'
<1>1. /\ call = "run" /\ FJ!Fork(Call, b)
      /\ UNCHANGED <<visited, visited_clean, dirty, call, starts, succ, at, next, stack, to_visit,
                     todo, called>>
  BY DEF dispatch_batch, frames
<1>2. b \in Jobs /\ b \in Workload /\ b \notin Nodes /\ Walk   BY <1>1, JobFacts DEF IInv
<1>3. /\ FJInv' /\ status[b] = "idle" /\ b # Call
      /\ status' = [status EXCEPT ![b] = "pending"]
      /\ status' \in [Jobs -> {"idle", "pending", "running", "done"}]
      /\ group' \in [Jobs -> Jobs \cup {NoGroup}]
  BY <1>1, <1>2, JobFacts, ForkFacts DEF IInv
<1>4. TypeOK'   BY <1>1, <1>3 DEF IInv, TypeOK
<1>5. Frames'   BY <1>1, <1>2, <1>3, JobFacts DEF IInv, TypeOK, Frames
<1>6. status'[Call] = "running"   BY <1>1, <1>3, JobFacts DEF IInv, TypeOK, CallState
<1>7. CallState' /\ Cleaning' /\ ResultIsReach'   BY <1>1, <1>6, CallerUnchanged
<1>8. AtMostOnce'   BY <1>1 DEF IInv, AtMostOnce
<1>9. \A n \in Nodes : status'[n] = status[n]   BY <1>2, <1>3, JobFacts DEF IInv, TypeOK
<1>10. /\ UnclaimedUntouched' /\ PendingFresh' /\ StackFresh' /\ StackUnique' /\ ClaimedKept'
       /\ NothingElse' /\ SuccessorsSeen'
  <2>1. UnclaimedUntouched' /\ PendingFresh'
    BY <1>1, <1>2, <1>9 DEF Walk, UnclaimedUntouched, PendingFresh
  <2>2. StackFresh' /\ StackUnique'
    BY <1>1, <1>2, <1>9 DEF Walk, StackFresh, StackUnique, IInv, TypeOK
  <2>3. ClaimedKept'
    <3>1. \A n \in visited : OnStack(n) => OnStack(n)'   BY <1>1 DEF OnStack
    <3>2. visited \subseteq Nodes   BY DEF IInv, TypeOK
    <3> QED BY <1>1, <1>2, <1>9, <3>1, <3>2 DEF Walk, ClaimedKept
  <2>4. NothingElse' /\ SuccessorsSeen'
    BY <1>1, <1>2 DEF Walk, NothingElse, Closed, SuccessorsSeen
  <2> QED BY <2>1, <2>2, <2>3, <2>4
<1>11. StartsSeen'
  <2>1. \A c \in Batches : status[c] \in {"idle", "pending"} => status'[c] \in {"idle", "pending"}
    BY <1>3, JobFacts DEF IInv, TypeOK
  <2> QED BY <1>1, <1>2, <2>1 DEF Walk, StartsSeen, InBatch
<1> QED BY <1>3, <1>4, <1>5, <1>7, <1>8, <1>10, <1>11 DEF IInv, Walk

(* The walk is over: its flags are closed under the callback. *)
LEMMA TraverseReturnInv == IInv /\ traverse_return => IInv'
<1> SUFFICES ASSUME IInv, traverse_return PROVE IInv'
  OBVIOUS
<1>1. /\ call = "run" /\ call' = "returned" /\ FJ!End(Call)
      /\ \A b \in BatchStarts(0, Len(starts)) : status[b] # "idle"
      /\ UNCHANGED <<visited, visited_clean, dirty, starts, succ, at, next, stack, to_visit, todo,
                     called>>
  BY DEF traverse_return, frames
<1>2. Walk /\ starts # << >> /\ TypeOK /\ FJInv /\ Frames
  BY <1>1 DEF IInv, CallState
<1>3. /\ FJInv' /\ UNCHANGED group /\ status' = [status EXCEPT ![Call] = "done"]
      /\ status' \in [Jobs -> {"idle", "pending", "running", "done"}]
  BY <1>1, <1>2, JobFacts, EndFacts
<1>4. \A j \in Workload : status'[j] = status[j] /\ status[j] \notin {"pending", "running"}
  <2>2. Unfinished' = {}   BY <1>1, <1>2, FJRootEnds
  <2>3. \A j \in Workload : status'[j] = status[j] /\ j \in Jobs
    BY <1>2, <1>3, JobFacts DEF TypeOK
  <2> QED BY <2>2, <2>3 DEF Unfinished
<1>5. \A j \in Workload : at[j] = "out" /\ stack[j] = << >> /\ todo[j] = {} /\ DOMAIN stack[j] = {}
  <2>1. \A j \in Workload : at[j] = "out"   BY <1>2, <1>4 DEF Frames
  <2> QED BY <1>2, <2>1 DEF Frames
<1>6. \A n \in Nodes : called[n] = IF n \in visited THEN 1 ELSE 0
  <2> SUFFICES ASSUME NEW n \in Nodes PROVE called[n] = IF n \in visited THEN 1 ELSE 0
    OBVIOUS
  <2>1. CASE n \in visited
    <3>1. status[n] # "pending" /\ ~OnStack(n)   BY <1>4, <1>5, JobFacts DEF OnStack
    <3>2. called[n] # 0   BY <1>2, <2>1, <3>1 DEF Walk, ClaimedKept
    <3> QED BY <1>2, <2>1, <3>2 DEF IInv, AtMostOnce, TypeOK
  <2>2. CASE n \notin visited   BY <1>2, <2>2 DEF Walk, UnclaimedUntouched
  <2> QED BY <2>1, <2>2
<1>7. Elements(starts) \subseteq visited
  <2> SUFFICES ASSUME NEW i \in DOMAIN starts PROVE starts[i] \in visited
    BY DEF Elements
  <2>1. SUFFICES ASSUME NEW b \in Batches, InBatch(b, i),
                        status[b] \in {"idle", "pending"} \/ at[b] # "out"
                 PROVE  FALSE
    BY <1>2 DEF Walk, StartsSeen
  <2> QED BY <1>1, <1>4, <1>5, <2>1, JobFacts DEF InBatch
<1>8. Closed(visited)
  <2> SUFFICES ASSUME NEW n \in visited, NEW m \in succ[n] PROVE m \in visited
    BY DEF Closed
  <2>1. n \in Nodes   BY <1>2 DEF TypeOK
  <2>2. called[n] # 0   BY <1>6, <2>1
  <2>3. m \in visited \/ \E j \in Workload : m \in todo[j]
    BY <1>2, <2>1, <2>2 DEF Walk, SuccessorsSeen
  <2> QED BY <1>5, <2>3
<1>9. visited = Reach
  <2>1. visited \subseteq Reach   BY <1>2 DEF Reach, Walk, NothingElse, TypeOK
  <2>2. Reach \subseteq visited   BY <1>2, <1>7, <1>8 DEF Reach, TypeOK
  <2> QED BY <2>1, <2>2
<1>10. ResultIsReach'
  <2>1. Reach' = Reach   BY <1>1 DEF Reach, Closed
  <2> QED BY <1>1, <1>6, <1>9, <2>1 DEF ResultIsReach
<1>11. TypeOK'   BY <1>1, <1>3 DEF IInv, TypeOK
<1>12. Frames'   BY <1>1, <1>4, <1>5 DEF Frames
<1>13. CallState' /\ Cleaning' /\ AtMostOnce'
  BY <1>1, <1>4 DEF IInv, CallState, Cleaning, AtMostOnce
<1> QED BY <1>1, <1>3, <1>10, <1>11, <1>12, <1>13 DEF IInv

LEMMA BatchStartInv == ASSUME IInv, NEW b \in Batches, batch_start(b) PROVE IInv'
<1>1. /\ FJ!Start(b) /\ at' = [at EXCEPT ![b] = "batch"] /\ next' = [next EXCEPT ![b] = b]
      /\ UNCHANGED <<visited, visited_clean, dirty, call, starts, succ, stack, to_visit, todo, called>>
  BY DEF batch_start
<1>2. b \in Jobs /\ b \in Workload /\ b \in Nat /\ b \notin Nodes   BY JobFacts
<1>3. /\ FJInv' /\ status[b] = "pending" /\ b # Call /\ UNCHANGED group
      /\ status' = [status EXCEPT ![b] = "running"]
      /\ status' \in [Jobs -> {"idle", "pending", "running", "done"}]
  BY <1>1, <1>2, StartFacts DEF IInv
<1>4. call = "run" /\ Walk /\ status[Call] = "running"   BY <1>2, <1>3, InWalk
<1>5. TypeOK'   BY <1>1, <1>2, <1>3 DEF IInv, TypeOK
<1>6. Frames'   BY <1>1, <1>2, <1>3, JobFacts DEF IInv, TypeOK, Frames
<1>7. CallState' /\ Cleaning' /\ ResultIsReach'
  <2>1. status'[Call] = "running"   BY <1>3, <1>4, JobFacts DEF IInv, TypeOK
  <2> QED BY <1>1, <1>4, <2>1, CallerUnchanged
<1>8. AtMostOnce'   BY <1>1 DEF IInv, AtMostOnce
<1>9. \A n \in Nodes : status'[n] = status[n]   BY <1>2, <1>3, JobFacts DEF IInv, TypeOK
<1>10. UnclaimedUntouched' /\ PendingFresh'
  BY <1>1, <1>4, <1>9 DEF Walk, UnclaimedUntouched, PendingFresh
<1>11. StackFresh' /\ StackUnique'
  BY <1>1, <1>4, <1>9 DEF Walk, StackFresh, StackUnique, IInv, TypeOK
<1>12. ClaimedKept'   BY <1>1, <1>4, <1>9 DEF Walk, ClaimedKept, OnStack, IInv, TypeOK
<1>13. NothingElse' /\ SuccessorsSeen'
  BY <1>1, <1>4 DEF Walk, NothingElse, Closed, SuccessorsSeen
<1>14. StartsSeen'
  <2> SUFFICES ASSUME NEW i \in DOMAIN starts, starts[i] \notin visited
               PROVE  \E c \in Batches : /\ InBatch(c, i)
                                         /\ \/ status'[c] \in {"idle", "pending"}
                                            \/ at'[c] # "out" /\ next'[c] < i
    BY <1>1 DEF StartsSeen, InBatch
  <2>1. PICK c \in Batches : /\ InBatch(c, i)
                             /\ \/ status[c] \in {"idle", "pending"}
                                \/ at[c] # "out" /\ next[c] < i
    BY <1>4 DEF Walk, StartsSeen
  <2>2. CASE c = b   BY <1>1, <1>2, <2>1, <2>2 DEF IInv, TypeOK, InBatch
  <2>3. CASE c # b
    <3>1. status'[c] = status[c] /\ at'[c] = at[c] /\ next'[c] = next[c]
      BY <1>1, <1>3, <2>3, JobFacts DEF IInv, TypeOK
    <3> QED BY <2>1, <3>1
  <2> QED BY <2>2, <2>3
<1> QED BY <1>3, <1>5, <1>6, <1>7, <1>8, <1>10, <1>11, <1>12, <1>13, <1>14 DEF IInv, Walk

(* What a claim keeps, wherever the claimed node goes to wait. *)
LEMMA ClaimSees ==
  ASSUME IInv, Walk, NEW n \in Nodes, visited' = visited \cup {n},
         UNCHANGED <<starts, succ, called>>,
         \A k \in Workload : todo'[k] \subseteq todo[k] /\ todo[k] \subseteq todo'[k] \cup {n},
         n \in Elements(starts) \/ \E k \in Workload : n \in todo[k]
  PROVE  NothingElse' /\ SuccessorsSeen'
<1>1. NothingElse'
  <2> SUFFICES ASSUME NEW C \in SUBSET Nodes, Elements(starts) \subseteq C, Closed(C)
               PROVE  visited' \subseteq C /\ \A k \in Workload : todo'[k] \subseteq C
    BY DEF NothingElse, Closed
  <2>1. visited \subseteq C /\ \A k \in Workload : todo[k] \subseteq C
    BY DEF Walk, NothingElse
  <2> QED BY <2>1
<1>2. SuccessorsSeen'
  <2> SUFFICES ASSUME NEW m \in Nodes, called[m] # 0, NEW o \in succ[m], o \notin visited'
               PROVE  \E k \in Workload : o \in todo'[k]
    BY DEF SuccessorsSeen
  <2>1. PICK k \in Workload : o \in todo[k]   BY DEF Walk, SuccessorsSeen
  <2> QED BY <2>1
<1> QED BY <1>1, <1>2

(* A claimed node that is pushed on the stack of the frame j. *)
LEMMA ClaimPush ==
  ASSUME IInv, Walk, NEW j \in Workload, NEW n \in Nodes, n \notin visited,
         visited' = visited \cup {n}, stack' = [stack EXCEPT ![j] = Append(@, n)],
         UNCHANGED <<status, called>>
  PROVE  /\ stack' \in [Workload -> Seq(Nodes)]
         /\ UnclaimedUntouched' /\ PendingFresh' /\ StackFresh' /\ StackUnique' /\ ClaimedKept'
<1>0. TypeOK   BY DEF IInv
<1>1. /\ stack' \in [Workload -> Seq(Nodes)]
      /\ \A k \in Workload : \A i \in DOMAIN stack'[k] :
           \/ k = j /\ i = Len(stack[j]) + 1 /\ stack'[k][i] = n
           \/ i \in DOMAIN stack[k] /\ stack'[k][i] = stack[k][i]
      /\ \A k \in Workload : \A i \in DOMAIN stack[k] :
           i \in DOMAIN stack'[k] /\ stack'[k][i] = stack[k][i]
      /\ \E i \in DOMAIN stack'[j] : stack'[j][i] = n
  BY <1>0, PushSlots
<1>2. called[n] = 0 /\ status[n] = "idle"   BY DEF Walk, UnclaimedUntouched
<1>3. UnclaimedUntouched' /\ PendingFresh'   BY DEF Walk, UnclaimedUntouched, PendingFresh
<1>4. \A k \in Workload : \A i \in DOMAIN stack[k] :
        /\ stack[k][i] \in visited /\ called[stack[k][i]] = 0 /\ status[stack[k][i]] # "pending"
        /\ stack[k][i] # n
  BY DEF Walk, StackFresh
<1>5. StackFresh'
  <2> SUFFICES ASSUME NEW k \in Workload, NEW i \in DOMAIN stack'[k]
               PROVE  /\ stack'[k][i] \in visited' /\ called[stack'[k][i]] = 0
                      /\ status[stack'[k][i]] # "pending"
    BY DEF StackFresh
  <2>1. stack'[k][i] = n \/ (i \in DOMAIN stack[k] /\ stack'[k][i] = stack[k][i])   BY <1>1
  <2> QED BY <1>2, <1>4, <2>1
<1>6. StackUnique'
  <2> SUFFICES ASSUME NEW k \in Workload, NEW h \in Workload, NEW i \in DOMAIN stack'[k],
                      NEW l \in DOMAIN stack'[h], stack'[k][i] = stack'[h][l]
               PROVE  k = h /\ i = l
    BY DEF StackUnique
  <2>1. \/ k = j /\ i = Len(stack[j]) + 1 /\ stack'[k][i] = n
        \/ i \in DOMAIN stack[k] /\ stack'[k][i] = stack[k][i] /\ stack'[k][i] # n
    BY <1>1, <1>4
  <2>2. \/ h = j /\ l = Len(stack[j]) + 1 /\ stack'[h][l] = n
        \/ l \in DOMAIN stack[h] /\ stack'[h][l] = stack[h][l] /\ stack'[h][l] # n
    BY <1>1, <1>4
  <2> QED BY <2>1, <2>2 DEF Walk, StackUnique
<1>7. ClaimedKept'
  <2>1. \A m : OnStack(m) => OnStack(m)'   BY <1>1 DEF OnStack
  <2>2. OnStack(n)'   BY <1>1 DEF OnStack
  <2> QED BY <2>1, <2>2 DEF Walk, ClaimedKept
<1> QED BY <1>1, <1>3, <1>5, <1>6, <1>7

LEMMA BatchItemInv == ASSUME IInv, NEW b \in Batches, batch_item(b) PROVE IInv'
<1> DEFINE item == starts[next[b] + 1]
<1>1. /\ at[b] = "batch" /\ next[b] < BatchEnd(b, 0, Len(starts)) /\ visited' = visited \cup {item}
      /\ next' = [next EXCEPT ![b] = @ + 1]
      /\ UNCHANGED <<visited_clean, dirty, call, starts, succ, status, group, todo, called>>
      /\ IF item \in visited THEN UNCHANGED <<at, stack, to_visit>>
         ELSE /\ at' = [at EXCEPT ![b] = "loop"] /\ stack' = [stack EXCEPT ![b] = <<item>>]
              /\ to_visit' = [to_visit EXCEPT ![b] = 0]
  BY DEF batch_item
<1>2. b \in Workload /\ b \in Nat /\ TypeOK /\ Frames   BY JobFacts DEF IInv
<1>3. call = "run" /\ Walk /\ status[Call] = "running"   BY <1>1, <1>2, InWalk
<1>4. /\ Len(starts) \in Nat /\ next[b] \in Nat /\ next[b] + 1 \in DOMAIN starts /\ item \in Nodes
      /\ item \in Elements(starts)
  <2>1. Len(starts) \in Nat /\ next[b] \in Nat /\ DOMAIN starts = 1 .. Len(starts)
    BY <1>2 DEF TypeOK
  <2>2. next[b] < Len(starts)
    <3>1. 0 \div POOL = 0   BY LimitsAssumption
    <3>2. Step(0, Len(starts)) \in Nat   BY <2>1, <3>1 DEF Step
    <3>3. BatchEnd(b, 0, Len(starts)) \in Nat /\ BatchEnd(b, 0, Len(starts)) <= Len(starts)
      BY <1>2, <2>1, <3>2 DEF BatchEnd
    <3> QED BY <1>1, <2>1, <3>3
  <2>3. next[b] + 1 \in DOMAIN starts   BY <2>1, <2>2
  <2> QED BY <1>2, <2>1, <2>3 DEF TypeOK, Elements
<1>5. FJInv' /\ AtMostOnce'   BY <1>1, JobsUnchanged DEF IInv, AtMostOnce
<1>6. CallState' /\ Cleaning' /\ ResultIsReach'   BY <1>1, <1>3, CallerUnchanged
<1>7. NothingElse' /\ SuccessorsSeen'   BY <1>1, <1>3, <1>4, ClaimSees
<1>8. \A c \in Batches : /\ at'[c] # "out" <=> at[c] # "out"
                         /\ next'[c] = IF c = b THEN next[c] + 1 ELSE next[c]
  BY <1>1, <1>2, JobFacts DEF TypeOK
<1>9. StartsSeen'
  <2> SUFFICES ASSUME NEW i \in DOMAIN starts, starts[i] \notin visited'
               PROVE  \E c \in Batches : /\ InBatch(c, i)
                                         /\ \/ status[c] \in {"idle", "pending"}
                                            \/ at'[c] # "out" /\ next'[c] < i
    BY <1>1 DEF StartsSeen, InBatch
  <2>1. PICK c \in Batches : /\ InBatch(c, i)
                             /\ \/ status[c] \in {"idle", "pending"}
                                \/ at[c] # "out" /\ next[c] < i
    BY <1>1, <1>3 DEF Walk, StartsSeen
  <2>2. i # next[b] + 1   BY <1>1
  <2>3. i \in Nat   BY <1>2 DEF TypeOK
  <2> QED BY <1>4, <1>8, <2>1, <2>2, <2>3
<1>10. next' \in [Batches -> Nat]   BY <1>1, <1>2, <1>4 DEF TypeOK
<1>11. CASE item \in visited
  <2>1. visited' = visited /\ UNCHANGED <<at, stack, to_visit>>   BY <1>1, <1>11
  <2>2. TypeOK' /\ Frames'   BY <1>1, <1>2, <1>10, <2>1 DEF TypeOK, Frames
  <2>3. UnclaimedUntouched' /\ PendingFresh' /\ StackFresh' /\ StackUnique'
    BY <1>1, <1>3, <2>1 DEF Walk, UnclaimedUntouched, PendingFresh, StackFresh, StackUnique
  <2>4. ClaimedKept'
    BY <1>1, <1>3, <2>1 DEF Walk, ClaimedKept, OnStack
  <2> QED BY <1>5, <1>6, <1>7, <1>9, <2>2, <2>3, <2>4 DEF IInv, Walk
<1>12. CASE item \notin visited
  <2>1. /\ at' = [at EXCEPT ![b] = "loop"] /\ stack' = [stack EXCEPT ![b] = <<item>>]
        /\ to_visit' = [to_visit EXCEPT ![b] = 0]
    BY <1>1, <1>12
  <2>2. stack[b] = << >>   BY <1>1, <1>2 DEF Frames
  <2>3. stack' = [stack EXCEPT ![b] = Append(@, item)]
    <3>1. Append(<< >>, item) = <<item>>   OBVIOUS
    <3> QED BY <2>1, <2>2, <3>1
  <2>4. /\ stack' \in [Workload -> Seq(Nodes)]
        /\ UnclaimedUntouched' /\ PendingFresh' /\ StackFresh' /\ StackUnique' /\ ClaimedKept'
    BY <1>1, <1>2, <1>3, <1>4, <1>12, <2>3, ClaimPush
  <2>5. TypeOK'   BY <1>1, <1>2, <1>4, <1>10, <2>1, <2>4 DEF TypeOK
  <2>6. Frames'   BY <1>1, <1>2, <2>1 DEF TypeOK, Frames
  <2> QED BY <1>5, <1>6, <1>7, <1>9, <2>4, <2>5, <2>6 DEF IInv, Walk
<1> QED BY <1>11, <1>12

(* What the walk has claimed and seen, when only at, next and the status   *)
(* of a job that is not pending change.                                    *)
LEMMA WalkUnchanged ==
  ASSUME IInv, Walk, UNCHANGED <<visited, starts, succ, stack, todo, called>>,
         \A n \in Nodes : \/ status'[n] = status[n]
                          \/ n \in visited /\ status[n] # "pending" /\ status'[n] # "pending"
  PROVE  /\ UnclaimedUntouched' /\ PendingFresh' /\ StackFresh' /\ StackUnique' /\ ClaimedKept'
         /\ NothingElse' /\ SuccessorsSeen'
<1>0. visited \subseteq Nodes   BY DEF IInv, TypeOK
<1>1. UnclaimedUntouched' /\ PendingFresh'   BY DEF Walk, UnclaimedUntouched, PendingFresh
<1>2. StackUnique'   BY DEF Walk, StackUnique
<1>3. StackFresh'
  <2> SUFFICES ASSUME NEW j \in Workload, NEW i \in DOMAIN stack[j]
               PROVE  /\ stack[j][i] \in visited /\ called[stack[j][i]] = 0
                      /\ status'[stack[j][i]] # "pending"
    BY DEF StackFresh
  <2>1. stack[j][i] \in visited /\ called[stack[j][i]] = 0 /\ status[stack[j][i]] # "pending"
    BY DEF Walk, StackFresh
  <2> QED BY <1>0, <2>1
<1>4. ClaimedKept'
  <2>1. \A n \in visited : OnStack(n) => OnStack(n)'   BY DEF OnStack
  <2> QED BY <1>0, <2>1 DEF Walk, ClaimedKept
<1>5. NothingElse' /\ SuccessorsSeen'   BY DEF Walk, NothingElse, Closed, SuccessorsSeen
<1> QED BY <1>1, <1>2, <1>3, <1>4, <1>5

LEMMA BatchEndInv == ASSUME IInv, NEW b \in Batches, batch_end(b) PROVE IInv'
<1>1. /\ at[b] = "batch" /\ next[b] >= BatchEnd(b, 0, Len(starts)) /\ FJ!End(b)
      /\ at' = [at EXCEPT ![b] = "out"]
      /\ UNCHANGED <<visited, visited_clean, dirty, call, starts, succ, next, stack, to_visit, todo,
                     called>>
  BY DEF batch_end
<1>2. /\ b \in Workload /\ b \in Jobs /\ b \in Nat /\ b \notin Nodes /\ b # Call
      /\ TypeOK /\ Frames /\ FJInv
  BY JobFacts DEF IInv
<1>3. /\ FJInv' /\ UNCHANGED group /\ status' = [status EXCEPT ![b] = "done"]
      /\ status' \in [Jobs -> {"idle", "pending", "running", "done"}]
  BY <1>1, <1>2, EndFacts
<1>4. call = "run" /\ Walk /\ status[Call] = "running"   BY <1>1, <1>2, InWalk
<1>5. TypeOK'   BY <1>1, <1>2, <1>3 DEF TypeOK
<1>6. Frames'   BY <1>1, <1>2, <1>3, JobFacts DEF TypeOK, Frames
<1>7. CallState' /\ Cleaning' /\ ResultIsReach'
  <2>1. status'[Call] = "running"   BY <1>2, <1>3, <1>4, JobFacts DEF TypeOK
  <2> QED BY <1>1, <1>4, <2>1, CallerUnchanged
<1>8. AtMostOnce'   BY <1>1 DEF IInv, AtMostOnce
<1>9. \A n \in Nodes : status'[n] = status[n]   BY <1>2, <1>3, JobFacts DEF TypeOK
<1>10. /\ UnclaimedUntouched' /\ PendingFresh' /\ StackFresh' /\ StackUnique' /\ ClaimedKept'
       /\ NothingElse' /\ SuccessorsSeen'
  BY <1>1, <1>4, <1>9, WalkUnchanged
<1>11. StartsSeen'
  <2> SUFFICES ASSUME NEW i \in DOMAIN starts, starts[i] \notin visited
               PROVE  \E c \in Batches : /\ InBatch(c, i)
                                         /\ \/ status'[c] \in {"idle", "pending"}
                                            \/ at'[c] # "out" /\ next[c] < i
    BY <1>1 DEF StartsSeen, InBatch
  <2>1. PICK c \in Batches : /\ InBatch(c, i)
                             /\ \/ status[c] \in {"idle", "pending"}
                                \/ at[c] # "out" /\ next[c] < i
    BY <1>4 DEF Walk, StartsSeen
  <2>2. c # b
    <3>1. SUFFICES ASSUME c = b PROVE FALSE
      OBVIOUS
    <3>2. status[b] = "running"   BY <1>1, <1>2 DEF Frames
    <3>3. next[b] < i /\ i <= BatchEnd(b, 0, Len(starts))   BY <2>1, <3>1, <3>2 DEF InBatch
    <3>4. i \in Nat /\ next[b] \in Nat /\ Len(starts) \in Nat   BY <1>2 DEF TypeOK
    <3>5. 0 \div POOL = 0   BY LimitsAssumption
    <3>6. Step(0, Len(starts)) \in Nat   BY <3>4, <3>5 DEF Step
    <3>7. BatchEnd(b, 0, Len(starts)) \in Nat   BY <1>2, <3>4, <3>6 DEF BatchEnd
    <3> QED BY <1>1, <3>3, <3>4, <3>7
  <2>3. status'[c] = status[c] /\ at'[c] = at[c]
    BY <1>1, <1>2, <1>3, <2>2, JobFacts DEF TypeOK
  <2> QED BY <2>1, <2>3
<1> QED BY <1>3, <1>5, <1>6, <1>7, <1>8, <1>10, <1>11 DEF IInv, Walk

LEMMA TaskStartInv == ASSUME IInv, NEW n \in Nodes, task_start(n) PROVE IInv'
<1>1. /\ FJ!Start(n) /\ at' = [at EXCEPT ![n] = "loop"] /\ stack' = [stack EXCEPT ![n] = <<n>>]
      /\ to_visit' = [to_visit EXCEPT ![n] = 0]
      /\ UNCHANGED <<visited, visited_clean, dirty, call, starts, succ, next, todo, called>>
  BY DEF task_start
<1>2. n \in Workload /\ n \in Jobs /\ n \notin Batches /\ TypeOK /\ Frames /\ FJInv
  BY JobFacts DEF IInv
<1>3. /\ FJInv' /\ status[n] = "pending" /\ n # Call /\ UNCHANGED group
      /\ status' = [status EXCEPT ![n] = "running"]
      /\ status' \in [Jobs -> {"idle", "pending", "running", "done"}]
  BY <1>1, <1>2, StartFacts
<1>4. call = "run" /\ Walk /\ status[Call] = "running"   BY <1>2, <1>3, InWalk
<1>5. at[n] = "out" /\ stack[n] = << >> /\ todo[n] = {}   BY <1>2, <1>3 DEF Frames
<1>6. stack' = [stack EXCEPT ![n] = Append(@, n)]
  <2>1. Append(<< >>, n) = <<n>>   OBVIOUS
  <2> QED BY <1>1, <1>5, <2>1
<1>7. /\ stack' \in [Workload -> Seq(Nodes)]
      /\ \A k \in Workload : \A i \in DOMAIN stack'[k] :
           \/ k = n /\ i = Len(stack[n]) + 1 /\ stack'[k][i] = n
           \/ i \in DOMAIN stack[k] /\ stack'[k][i] = stack[k][i]
      /\ \A k \in Workload : \A i \in DOMAIN stack[k] :
           i \in DOMAIN stack'[k] /\ stack'[k][i] = stack[k][i]
      /\ \E i \in DOMAIN stack'[n] : stack'[n][i] = n
  BY <1>2, <1>6, PushSlots
<1>8. TypeOK'   BY <1>1, <1>2, <1>3, <1>7 DEF TypeOK
<1>9. Frames'   BY <1>1, <1>2, <1>3, <1>5, JobFacts DEF TypeOK, Frames
<1>10. CallState' /\ Cleaning' /\ ResultIsReach'
  <2>1. status'[Call] = "running"   BY <1>2, <1>3, <1>4, JobFacts DEF TypeOK
  <2> QED BY <1>1, <1>4, <2>1, CallerUnchanged
<1>11. AtMostOnce'   BY <1>1 DEF IInv, AtMostOnce
<1>12. n \in visited /\ called[n] = 0
  BY <1>3, <1>4 DEF Walk, UnclaimedUntouched, PendingFresh
<1>13. \A m \in Nodes : status'[m] = IF m = n THEN "running" ELSE status[m]
  BY <1>2, <1>3, JobFacts DEF TypeOK
<1>14. UnclaimedUntouched' /\ PendingFresh'
  BY <1>1, <1>4, <1>12, <1>13 DEF Walk, UnclaimedUntouched, PendingFresh
<1>15. \A k \in Workload : \A i \in DOMAIN stack[k] :
         /\ stack[k][i] \in Nodes /\ stack[k][i] \in visited /\ called[stack[k][i]] = 0
         /\ status[stack[k][i]] # "pending" /\ stack[k][i] # n
  BY <1>2, <1>3, <1>4 DEF Walk, StackFresh, TypeOK
<1>16. StackFresh'
  <2> SUFFICES ASSUME NEW k \in Workload, NEW i \in DOMAIN stack'[k]
               PROVE  /\ stack'[k][i] \in visited /\ called[stack'[k][i]] = 0
                      /\ status'[stack'[k][i]] # "pending"
    BY <1>1 DEF StackFresh
  <2>1. stack'[k][i] = n \/ (i \in DOMAIN stack[k] /\ stack'[k][i] = stack[k][i])   BY <1>7
  <2> QED BY <1>12, <1>13, <1>15, <2>1
<1>17. StackUnique'
  <2> SUFFICES ASSUME NEW k \in Workload, NEW h \in Workload, NEW i \in DOMAIN stack'[k],
                      NEW l \in DOMAIN stack'[h], stack'[k][i] = stack'[h][l]
               PROVE  k = h /\ i = l
    BY DEF StackUnique
  <2>1. \/ k = n /\ i = Len(stack[n]) + 1 /\ stack'[k][i] = n
        \/ i \in DOMAIN stack[k] /\ stack'[k][i] = stack[k][i] /\ stack'[k][i] # n
    BY <1>7, <1>15
  <2>2. \/ h = n /\ l = Len(stack[n]) + 1 /\ stack'[h][l] = n
        \/ l \in DOMAIN stack[h] /\ stack'[h][l] = stack[h][l] /\ stack'[h][l] # n
    BY <1>7, <1>15
  <2> QED BY <1>4, <2>1, <2>2 DEF Walk, StackUnique
<1>18. ClaimedKept'
  <2>1. \A m \in visited : OnStack(m) => OnStack(m)'   BY <1>7 DEF OnStack
  <2>2. OnStack(n)'   BY <1>2, <1>7 DEF OnStack
  <2>3. visited \subseteq Nodes   BY <1>2 DEF TypeOK
  <2> QED BY <1>1, <1>4, <1>13, <2>1, <2>2, <2>3 DEF Walk, ClaimedKept
<1>19. NothingElse' /\ SuccessorsSeen'
  BY <1>1, <1>4 DEF Walk, NothingElse, Closed, SuccessorsSeen
<1>20. StartsSeen'
  <2>1. \A c \in Batches : status'[c] = status[c] /\ at'[c] = at[c]
    BY <1>1, <1>2, <1>3, JobFacts DEF TypeOK
  <2> QED BY <1>1, <1>4, <2>1 DEF Walk, StartsSeen, InBatch
<1> QED BY <1>3, <1>8, <1>9, <1>10, <1>11, <1>14, <1>16, <1>17, <1>18, <1>19, <1>20 DEF IInv, Walk

LEMMA PopInv == ASSUME IInv, NEW j \in Workload, pop(j) PROVE IInv'
<1>0. TypeOK /\ Frames /\ FJInv   BY DEF IInv
<1>1. PICK n : n = stack[j][Len(stack[j])]   OBVIOUS
<1>2. /\ at[j] = "loop" /\ stack[j] # << >> /\ called' = [called EXCEPT ![n] = @ + 1]
      /\ todo' = [todo EXCEPT ![j] = succ[n]]
      /\ stack' = [stack EXCEPT ![j] = SubSeq(@, 1, Len(@) - 1)]
      /\ at' = [at EXCEPT ![j] = "callback"]
      /\ UNCHANGED <<visited, visited_clean, dirty, call, starts, succ, status, group, next,
                     to_visit>>
  BY <1>1 DEF pop
<1>3. call = "run" /\ Walk /\ status[Call] = "running"   BY <1>2, InWalk
<1>4. /\ stack' \in [Workload -> Seq(Nodes)]
      /\ Len(stack[j]) \in DOMAIN stack[j] /\ n \in Nodes
      /\ \A k \in Workload : \A i \in DOMAIN stack'[k] :
           /\ i \in DOMAIN stack[k] /\ stack'[k][i] = stack[k][i]
           /\ ~(k = j /\ i = Len(stack[j]))
      /\ \A k \in Workload : \A i \in DOMAIN stack[k] :
           \/ k = j /\ i = Len(stack[j])
           \/ i \in DOMAIN stack'[k] /\ stack'[k][i] = stack[k][i]
  BY <1>0, <1>1, <1>2, PopSlots
<1>5. n \in visited /\ called[n] = 0 /\ status[n] # "pending"
  BY <1>1, <1>3, <1>4 DEF Walk, StackFresh
<1>6. \A m \in Nodes : called'[m] = IF m = n THEN 1 ELSE called[m]
  BY <1>0, <1>2, <1>5 DEF TypeOK
<1>7. \A k \in Workload : todo'[k] = IF k = j THEN succ[n] ELSE todo[k]
  BY <1>0, <1>2 DEF TypeOK
<1>8. todo[j] = {}   BY <1>0, <1>2 DEF Frames
<1>9. TypeOK'   BY <1>0, <1>2, <1>4 DEF TypeOK
<1>10. Frames'   BY <1>0, <1>2 DEF TypeOK, Frames
<1>11. FJInv'   BY <1>0, <1>2, JobsUnchanged
<1>12. CallState' /\ Cleaning' /\ ResultIsReach'   BY <1>2, <1>3, CallerUnchanged
<1>13. AtMostOnce'   BY <1>6 DEF IInv, AtMostOnce
<1>14. UnclaimedUntouched' /\ PendingFresh'
  BY <1>2, <1>3, <1>5, <1>6 DEF Walk, UnclaimedUntouched, PendingFresh
<1>15. StackFresh'
  <2> SUFFICES ASSUME NEW k \in Workload, NEW i \in DOMAIN stack'[k]
               PROVE  /\ stack'[k][i] \in visited /\ called'[stack'[k][i]] = 0
                      /\ status[stack'[k][i]] # "pending"
    BY <1>2 DEF StackFresh
  <2>1. i \in DOMAIN stack[k] /\ stack'[k][i] = stack[k][i] /\ ~(k = j /\ i = Len(stack[j]))
    BY <1>4
  <2>2. stack[k][i] # n   BY <1>1, <1>3, <1>4, <2>1 DEF Walk, StackUnique
  <2>3. stack[k][i] \in visited /\ called[stack[k][i]] = 0 /\ status[stack[k][i]] # "pending"
    BY <1>3, <2>1 DEF Walk, StackFresh
  <2>4. stack[k][i] \in Nodes   BY <1>0, <2>3 DEF TypeOK
  <2> QED BY <1>6, <2>1, <2>2, <2>3, <2>4
<1>16. StackUnique'
  <2> SUFFICES ASSUME NEW k \in Workload, NEW h \in Workload, NEW i \in DOMAIN stack'[k],
                      NEW l \in DOMAIN stack'[h], stack'[k][i] = stack'[h][l]
               PROVE  k = h /\ i = l
    BY DEF StackUnique
  <2>1. /\ i \in DOMAIN stack[k] /\ stack'[k][i] = stack[k][i]
        /\ l \in DOMAIN stack[h] /\ stack'[h][l] = stack[h][l]
    BY <1>4
  <2>2. stack[k][i] = stack[h][l]   BY <2>1
  <2>3. StackUnique   BY <1>3 DEF Walk
  <2> QED BY <2>1, <2>2, <2>3 DEF StackUnique
<1>17. ClaimedKept'
  <2> SUFFICES ASSUME NEW m \in visited, called'[m] = 0, status[m] # "pending"
               PROVE  OnStack(m)'
    BY <1>2 DEF ClaimedKept
  <2>1. m \in Nodes   BY <1>0 DEF TypeOK
  <2>2. m # n /\ called[m] = 0   BY <1>6, <2>1
  <2>3. OnStack(m)   BY <1>3, <2>2 DEF Walk, ClaimedKept
  <2>4. PICK k \in Workload : \E i \in DOMAIN stack[k] : stack[k][i] = m   BY <2>3 DEF OnStack
  <2>5. PICK i \in DOMAIN stack[k] : stack[k][i] = m   BY <2>4
  <2>6. ~(k = j /\ i = Len(stack[j]))   BY <1>1, <2>2, <2>5
  <2>7. i \in DOMAIN stack'[k] /\ stack'[k][i] = m   BY <1>4, <2>5, <2>6
  <2> QED BY <2>7 DEF OnStack
<1>18. NothingElse'
  <2> SUFFICES ASSUME NEW C \in SUBSET Nodes, Elements(starts) \subseteq C, Closed(C)
               PROVE  visited \subseteq C /\ \A k \in Workload : todo'[k] \subseteq C
    BY <1>2 DEF NothingElse, Closed
  <2>1. visited \subseteq C /\ \A k \in Workload : todo[k] \subseteq C
    BY <1>3 DEF Walk, NothingElse
  <2>2. succ[n] \subseteq C   BY <1>5, <2>1 DEF Closed
  <2> QED BY <1>7, <2>1, <2>2
<1>19. SuccessorsSeen'
  <2> SUFFICES ASSUME NEW m \in Nodes, called'[m] # 0, NEW o \in succ[m], o \notin visited
               PROVE  \E k \in Workload : o \in todo'[k]
    BY <1>2 DEF SuccessorsSeen
  <2>1. CASE m = n   BY <1>7, <2>1
  <2>2. CASE m # n
    <3>1. called[m] # 0   BY <1>6, <2>2
    <3>2. PICK k \in Workload : o \in todo[k]   BY <1>3, <3>1 DEF Walk, SuccessorsSeen
    <3> QED BY <1>7, <1>8, <3>2
  <2> QED BY <2>1, <2>2
<1>20. StartsSeen'
  <2>1. \A c \in Batches : at[c] # "out" => at'[c] # "out"
    BY <1>0, <1>2, JobFacts DEF TypeOK
  <2> QED BY <1>2, <1>3, <2>1 DEF Walk, StartsSeen, InBatch
<1> QED BY <1>9, <1>10, <1>11, <1>12, <1>13, <1>14, <1>15, <1>16, <1>17, <1>18, <1>19, <1>20
        DEF IInv, Walk

LEMMA SelectInv ==
  ASSUME IInv, NEW j \in Workload, NEW n \in Nodes, select(j, n)
  PROVE  IInv'
<1>0. TypeOK /\ Frames /\ FJInv   BY DEF IInv
<1>1. /\ at[j] = "callback" /\ n \in todo[j] /\ visited' = visited \cup {n}
      /\ todo' = [todo EXCEPT ![j] = @ \ {n}]
      /\ UNCHANGED <<visited_clean, dirty, call, starts, succ, at, next, called>>
      /\ IF n \in visited THEN UNCHANGED <<stack, to_visit, status, group>>
         ELSE /\ to_visit' = [to_visit EXCEPT ![j] = @ + 1]
              /\ IF to_visit[j] + 1 < LIMIT
                 THEN stack' = [stack EXCEPT ![j] = Append(@, n)] /\ UNCHANGED <<status, group>>
                 ELSE FJ!Fork(j, n) /\ UNCHANGED stack
  BY DEF select, claim
<1>2. call = "run" /\ Walk /\ status[Call] = "running"   BY <1>1, InWalk
<1>3. \A k \in Workload : todo'[k] = IF k = j THEN todo[j] \ {n} ELSE todo[k]
  BY <1>0, <1>1 DEF TypeOK
<1>4. todo' \in [Workload -> SUBSET Nodes]   BY <1>0, <1>1 DEF TypeOK
<1>5. NothingElse' /\ SuccessorsSeen'
  <2>1. \A k \in Workload : todo'[k] \subseteq todo[k] /\ todo[k] \subseteq todo'[k] \cup {n}
    BY <1>3
  <2>2. \E k \in Workload : n \in todo[k]   BY <1>1
  <2> QED BY <1>1, <1>2, <2>1, <2>2, ClaimSees
<1>6. AtMostOnce'   BY <1>1 DEF IInv, AtMostOnce
<1>7. CASE n \in visited
  <2>1. visited' = visited /\ UNCHANGED <<stack, to_visit, status, group>>   BY <1>1, <1>7
  <2>2. TypeOK'   BY <1>0, <1>1, <1>4, <2>1 DEF TypeOK
  <2>3. Frames'   BY <1>0, <1>1, <1>3, <2>1 DEF Frames
  <2>4. FJInv'   BY <1>0, <2>1, JobsUnchanged
  <2>5. CallState' /\ Cleaning' /\ ResultIsReach'   BY <1>1, <1>2, <2>1, CallerUnchanged
  <2>6. UnclaimedUntouched' /\ PendingFresh' /\ StackFresh' /\ StackUnique'
    BY <1>1, <1>2, <2>1 DEF Walk, UnclaimedUntouched, PendingFresh, StackFresh, StackUnique
  <2>7. ClaimedKept'   BY <1>1, <1>2, <2>1 DEF Walk, ClaimedKept, OnStack
  <2>8. StartsSeen'   BY <1>1, <1>2, <2>1 DEF Walk, StartsSeen, InBatch
  <2> QED BY <1>5, <1>6, <2>2, <2>3, <2>4, <2>5, <2>6, <2>7, <2>8 DEF IInv, Walk
<1>8. CASE n \notin visited /\ to_visit[j] + 1 < LIMIT
  <2>1. /\ to_visit' = [to_visit EXCEPT ![j] = @ + 1] /\ UNCHANGED <<status, group>>
        /\ stack' = [stack EXCEPT ![j] = Append(@, n)]
    BY <1>1, <1>8
  <2>2. /\ stack' \in [Workload -> Seq(Nodes)]
        /\ UnclaimedUntouched' /\ PendingFresh' /\ StackFresh' /\ StackUnique' /\ ClaimedKept'
    BY <1>1, <1>2, <1>8, <2>1, ClaimPush
  <2>3. TypeOK'   BY <1>0, <1>1, <1>4, <2>1, <2>2 DEF TypeOK
  <2>4. Frames'   BY <1>0, <1>1, <1>3, <2>1 DEF TypeOK, Frames
  <2>5. FJInv'   BY <1>0, <2>1, JobsUnchanged
  <2>6. CallState' /\ Cleaning' /\ ResultIsReach'   BY <1>1, <1>2, <2>1, CallerUnchanged
  <2>7. StartsSeen'   BY <1>1, <1>2, <2>1 DEF Walk, StartsSeen, InBatch
  <2> QED BY <1>5, <1>6, <2>2, <2>3, <2>4, <2>5, <2>6, <2>7 DEF IInv, Walk
<1>9. CASE n \notin visited /\ ~(to_visit[j] + 1 < LIMIT)
  <2>1. to_visit' = [to_visit EXCEPT ![j] = @ + 1] /\ FJ!Fork(j, n) /\ stack' = stack
    BY <1>1, <1>9
  <2>2. n \in Workload /\ n \notin Batches /\ n \in Jobs /\ j \in Jobs   BY JobFacts
  <2>3. /\ FJInv' /\ status[n] = "idle" /\ n # Call
        /\ status' = [status EXCEPT ![n] = "pending"]
        /\ status' \in [Jobs -> {"idle", "pending", "running", "done"}]
        /\ group' \in [Jobs -> Jobs \cup {NoGroup}]
    BY <1>0, <2>1, <2>2, ForkFacts
  <2>4. TypeOK'   BY <1>0, <1>1, <1>4, <2>1, <2>3 DEF TypeOK
  <2>5. Frames'   BY <1>0, <1>1, <1>3, <2>1, <2>2, <2>3, JobFacts DEF TypeOK, Frames
  <2>6. CallState' /\ Cleaning' /\ ResultIsReach'
    <3>1. status'[Call] = "running"   BY <1>0, <1>2, <2>3, JobFacts DEF TypeOK
    <3> QED BY <1>1, <1>2, <3>1, CallerUnchanged
  <2>7. called[n] = 0   BY <1>2, <1>9 DEF Walk, UnclaimedUntouched
  <2>8. \A m \in Nodes : status'[m] = IF m = n THEN "pending" ELSE status[m]
    BY <1>0, <2>2, <2>3, JobFacts DEF TypeOK
  <2>9. UnclaimedUntouched' /\ PendingFresh'
    BY <1>1, <1>2, <2>7, <2>8 DEF Walk, UnclaimedUntouched, PendingFresh
  <2>10. StackUnique'   BY <1>2, <2>1 DEF Walk, StackUnique
  <2>11. StackFresh'
    <3> SUFFICES ASSUME NEW k \in Workload, NEW i \in DOMAIN stack[k]
                 PROVE  /\ stack[k][i] \in visited' /\ called[stack[k][i]] = 0
                        /\ status'[stack[k][i]] # "pending"
      BY <1>1, <2>1 DEF StackFresh
    <3>1. /\ stack[k][i] \in visited /\ called[stack[k][i]] = 0
          /\ status[stack[k][i]] # "pending"
      BY <1>2 DEF Walk, StackFresh
    <3>2. stack[k][i] \in Nodes /\ stack[k][i] # n   BY <1>0, <1>9, <3>1 DEF TypeOK
    <3> QED BY <1>1, <2>8, <3>1, <3>2
  <2>12. ClaimedKept'
    <3> SUFFICES ASSUME NEW m \in visited', called[m] = 0, status'[m] # "pending"
                 PROVE  OnStack(m)'
      BY <1>1 DEF ClaimedKept
    <3>1. m \in Nodes /\ m # n /\ m \in visited /\ status[m] # "pending"
      BY <1>0, <1>1, <2>8 DEF TypeOK
    <3>2. OnStack(m)   BY <1>2, <3>1 DEF Walk, ClaimedKept
    <3> QED BY <2>1, <3>2 DEF OnStack
  <2>13. StartsSeen'
    <3>1. \A c \in Batches : status'[c] = status[c]
      BY <1>0, <2>2, <2>3, JobFacts DEF TypeOK
    <3> QED BY <1>1, <1>2, <3>1 DEF Walk, StartsSeen, InBatch
  <2> QED BY <1>5, <1>6, <2>3, <2>4, <2>5, <2>6, <2>9, <2>10, <2>11, <2>12, <2>13 DEF IInv, Walk
<1> QED BY <1>7, <1>8, <1>9

LEMMA CallbackReturnInv == ASSUME IInv, NEW j \in Workload, callback_return(j) PROVE IInv'
<1>0. TypeOK /\ Frames /\ FJInv   BY DEF IInv
<1>1. /\ at[j] = "callback" /\ todo[j] = {} /\ at' = [at EXCEPT ![j] = "loop"]
      /\ UNCHANGED <<visited, visited_clean, dirty, call, starts, succ, status, group, next, stack,
                     to_visit, todo, called>>
  BY DEF callback_return
<1>2. call = "run" /\ Walk /\ status[Call] = "running"   BY <1>1, InWalk
<1>3. TypeOK'   BY <1>0, <1>1 DEF TypeOK
<1>4. Frames'   BY <1>0, <1>1 DEF TypeOK, Frames
<1>5. FJInv' /\ AtMostOnce'   BY <1>0, <1>1, JobsUnchanged DEF IInv, AtMostOnce
<1>6. CallState' /\ Cleaning' /\ ResultIsReach'   BY <1>1, <1>2, CallerUnchanged
<1>7. /\ UnclaimedUntouched' /\ PendingFresh' /\ StackFresh' /\ StackUnique' /\ ClaimedKept'
      /\ NothingElse' /\ SuccessorsSeen'
  BY <1>1, <1>2, WalkUnchanged
<1>8. StartsSeen'
  <2>1. \A c \in Batches : at[c] # "out" => at'[c] # "out"
    BY <1>0, <1>1, JobFacts DEF TypeOK
  <2> QED BY <1>1, <1>2, <2>1 DEF Walk, StartsSeen, InBatch
<1> QED BY <1>3, <1>4, <1>5, <1>6, <1>7, <1>8 DEF IInv, Walk

LEMMA LeaveInv == ASSUME IInv, NEW j \in Workload, leave(j) PROVE IInv'
<1>0. TypeOK /\ Frames /\ FJInv   BY DEF IInv
<1>1. /\ at[j] = "loop" /\ stack[j] = << >>
      /\ at' = [at EXCEPT ![j] = IF j \in Batches THEN "batch" ELSE "out"]
      /\ IF j \in Batches THEN UNCHANGED <<status, group>> ELSE FJ!End(j)
      /\ UNCHANGED <<visited, visited_clean, dirty, call, starts, succ, next, stack, to_visit, todo,
                     called>>
  BY DEF leave
<1>2. call = "run" /\ Walk /\ status[Call] = "running"   BY <1>1, InWalk
<1>3. todo[j] = {} /\ status[j] = "running"   BY <1>0, <1>1 DEF Frames
<1>4. AtMostOnce'   BY <1>1 DEF IInv, AtMostOnce
<1>5. CASE j \in Batches
  <2>1. at' = [at EXCEPT ![j] = "batch"] /\ UNCHANGED <<status, group>>   BY <1>1, <1>5
  <2>2. TypeOK'   BY <1>0, <1>1, <2>1 DEF TypeOK
  <2>3. Frames'   BY <1>0, <1>1, <1>3, <1>5, <2>1 DEF TypeOK, Frames
  <2>4. FJInv'   BY <1>0, <2>1, JobsUnchanged
  <2>5. CallState' /\ Cleaning' /\ ResultIsReach'   BY <1>1, <1>2, <2>1, CallerUnchanged
  <2>6. /\ UnclaimedUntouched' /\ PendingFresh' /\ StackFresh' /\ StackUnique' /\ ClaimedKept'
        /\ NothingElse' /\ SuccessorsSeen'
    BY <1>1, <1>2, <2>1, WalkUnchanged
  <2>7. StartsSeen'
    <3>1. \A c \in Batches : at[c] # "out" => at'[c] # "out"
      BY <1>0, <2>1, JobFacts DEF TypeOK
    <3> QED BY <1>1, <1>2, <2>1, <3>1 DEF Walk, StartsSeen, InBatch
  <2> QED BY <1>4, <2>2, <2>3, <2>4, <2>5, <2>6, <2>7 DEF IInv, Walk
<1>6. CASE j \notin Batches
  <2>1. at' = [at EXCEPT ![j] = "out"] /\ FJ!End(j)   BY <1>1, <1>6
  <2>2. j \in Nodes /\ j \in Jobs /\ j # Call   BY <1>6, JobFacts DEF Workload
  <2>3. /\ FJInv' /\ UNCHANGED group /\ status' = [status EXCEPT ![j] = "done"]
        /\ status' \in [Jobs -> {"idle", "pending", "running", "done"}]
    BY <1>0, <2>1, <2>2, EndFacts
  <2>4. TypeOK'   BY <1>0, <1>1, <2>1, <2>3 DEF TypeOK
  <2>5. Frames'   BY <1>0, <1>1, <1>3, <2>1, <2>2, <2>3, JobFacts DEF TypeOK, Frames
  <2>6. CallState' /\ Cleaning' /\ ResultIsReach'
    <3>1. status'[Call] = "running"   BY <1>0, <1>2, <2>2, <2>3, JobFacts DEF TypeOK
    <3> QED BY <1>1, <1>2, <3>1, CallerUnchanged
  <2>7. \A m \in Nodes : status'[m] = IF m = j THEN "done" ELSE status[m]
    BY <1>0, <2>2, <2>3, JobFacts DEF TypeOK
  <2>8. j \in visited   BY <1>2, <1>3, <2>2 DEF Walk, UnclaimedUntouched
  <2>9. /\ UnclaimedUntouched' /\ PendingFresh' /\ StackFresh' /\ StackUnique' /\ ClaimedKept'
        /\ NothingElse' /\ SuccessorsSeen'
    BY <1>1, <1>2, <1>3, <2>7, <2>8, WalkUnchanged
  <2>10. StartsSeen'
    <3>1. \A c \in Batches : status'[c] = status[c] /\ at'[c] = at[c]
      BY <1>0, <1>6, <2>1, <2>3, JobFacts DEF TypeOK
    <3> QED BY <1>1, <1>2, <3>1 DEF Walk, StartsSeen, InBatch
  <2> QED BY <1>4, <2>3, <2>4, <2>5, <2>6, <2>9, <2>10 DEF IInv, Walk
<1> QED BY <1>5, <1>6

LEMMA NextInv == IInv /\ [Next]_vars => IInv'
<1> SUFFICES ASSUME IInv, [Next]_vars PROVE IInv'
  OBVIOUS
<1>1. CASE User
  <2>1. CASE clean_visit_flags   BY <2>1, CleanVisitFlagsInv
  <2>2. CASE \E s \in StartLists, g \in Callbacks : traverse(s, g)   BY <2>2, TraverseInv
  <2>3. CASE result_used   BY <2>3, ResultUsedInv
  <2> QED BY <1>1, <2>1, <2>2, <2>3 DEF User
<1>2. CASE Internal
  <2>1. CASE clean_return   BY <2>1, CleanReturnInv
  <2>2. CASE \E n \in Nodes : clean(n) \/ task_start(n)   BY <2>2, CleanInv, TaskStartInv
  <2>3. CASE traverse_return   BY <2>3, TraverseReturnInv
  <2>4. CASE \E b \in Batches :
               dispatch_batch(b) \/ batch_start(b) \/ batch_item(b) \/ batch_end(b)
    BY <2>4, DispatchBatchInv, BatchStartInv, BatchItemInv, BatchEndInv
  <2>5. ASSUME NEW j \in Workload,
               \/ pop(j) \/ callback_return(j) \/ leave(j)
               \/ \E n \in Nodes : select(j, n)
        PROVE  IInv'
    BY <2>5, PopInv, CallbackReturnInv, LeaveInv, SelectInv
  <2> QED BY <1>2, <2>1, <2>2, <2>3, <2>4, <2>5 DEF Internal
<1>3. CASE UNCHANGED vars
  <2>1. UNCHANGED <<visited, visited_clean, dirty, call, starts, succ, status, group, at, next,
                    stack, to_visit, todo, called>>
    BY <1>3 DEF vars
  <2>2. TypeOK'   BY <2>1 DEF IInv, TypeOK
  <2>3. FJInv'   BY <2>1, JobsUnchanged DEF IInv
  <2>4. Frames' /\ CallState' /\ Cleaning' /\ AtMostOnce'
    BY <2>1 DEF IInv, Frames, CallState, Cleaning, AtMostOnce
  <2>5. ResultIsReach'
    <3>1. Reach' = Reach   BY <2>1 DEF Reach, Closed
    <3> QED BY <2>1, <3>1 DEF IInv, ResultIsReach
  <2>6. ASSUME call = "run" PROVE Walk'
    <3>1. Walk   BY <2>6 DEF IInv
    <3>2. /\ UnclaimedUntouched' /\ PendingFresh' /\ StackFresh' /\ StackUnique' /\ ClaimedKept'
          /\ NothingElse' /\ SuccessorsSeen'
      BY <2>1, <3>1, WalkUnchanged
    <3>3. StartsSeen'   BY <2>1, <3>1 DEF Walk, StartsSeen, InBatch
    <3> QED BY <3>2, <3>3 DEF Walk
  <2> QED BY <2>1, <2>2, <2>3, <2>4, <2>5, <2>6 DEF IInv
<1> QED BY <1>1, <1>2, <1>3 DEF Next

(* The flags, the frames and the claims are always as IInv says. *)
THEOREM Invariant == Spec => []IInv
<1> QED BY InitInv, NextInv, PTL DEF Spec

(* The types of the flags, the jobs and their frames. *)
THEOREM TypeCorrect == Spec => []TypeOK
<1>1. IInv => TypeOK   BY DEF IInv
<1> QED BY <1>1, Invariant, PTL

(* The callback is never called twice on a node, whichever frames race to  *)
(* claim it.                                                               *)
THEOREM CalledAtMostOnce == Spec => []AtMostOnce
<1>1. IInv => AtMostOnce   BY DEF IInv
<1> QED BY <1>1, Invariant, PTL

(* When traverse returns, the flags mark what can be reached from the      *)
(* start nodes, and each node of it was called once.                       *)
THEOREM FlagsAreReach == Spec => []ResultIsReach
<1>1. IInv => ResultIsReach   BY DEF IInv
<1> QED BY <1>1, Invariant, PTL

(* A claimed node is called or waits in exactly one place. *)
THEOREM WaitsOnce == Spec => []ClaimedOnce
<1>1. IInv => ClaimedOnce
  <2> SUFFICES ASSUME IInv, call = "run", NEW n \in Nodes
               PROVE  CASE n \notin visited ->
                             called[n] = 0 /\ Waiting(n) = {} /\ status[n] = "idle"
                        [] status[n] = "pending" ->
                             called[n] = 0 /\ Waiting(n) = {} /\ n \in visited
                        [] OTHER -> \/ called[n] = 1 /\ Waiting(n) = {}
                                    \/ called[n] = 0 /\ \E w \in Waiting(n) : Waiting(n) = {w}
    BY DEF ClaimedOnce
  <2>1. Walk   BY DEF IInv
  <2>2. \A w : w \in Waiting(n) <=>
               \E j \in Workload : \E i \in DOMAIN stack[j] : w = <<j, i>> /\ stack[j][i] = n
    BY DEF Waiting
  <2>3. Waiting(n) # {} => n \in visited /\ called[n] = 0 /\ status[n] # "pending"
    BY <2>1, <2>2 DEF Walk, StackFresh
  <2>4. \A w, v \in Waiting(n) : w = v   BY <2>1, <2>2 DEF Walk, StackUnique
  <2>5. CASE n \notin visited   BY <2>1, <2>3, <2>5 DEF Walk, UnclaimedUntouched
  <2>6. CASE n \in visited /\ status[n] = "pending"
    BY <2>1, <2>3, <2>6 DEF Walk, PendingFresh
  <2>7. CASE n \in visited /\ status[n] # "pending"
    <3>1. called[n] \in {0, 1}   BY DEF IInv, TypeOK, AtMostOnce
    <3>2. CASE called[n] = 1   BY <2>3, <2>7, <3>2
    <3>3. CASE called[n] = 0
      <4>1. OnStack(n)   BY <2>1, <2>7, <3>3 DEF Walk, ClaimedKept
      <4>2. PICK w : w \in Waiting(n)   BY <2>2, <4>1 DEF OnStack
      <4>3. Waiting(n) = {w}   BY <2>4, <4>2
      <4> QED BY <2>7, <3>3, <4>2, <4>3
    <3> QED BY <3>1, <3>2, <3>3
  <2> QED BY <2>5, <2>6, <2>7
<1> QED BY <1>1, Invariant, PTL
=============================================================================
