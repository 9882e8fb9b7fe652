----------------------------- MODULE TaskRuntime -----------------------------
(***************************************************************************)
(* The tasking core of the OpenUH OpenMP runtime (osprey/libopenmp): one   *)
(* level-1 parallel region executed by a team of threads over the default  *)
(* task pool.  Modelled: omp_task.c (create, switch, wait, exit),          *)
(* omp_task_pool.c (add, remove), the task-draining team barrier of        *)
(* omp_thread.h and the region-end barrier of omp_thread.c.                *)
(*                                                                         *)
(* A thread runs the task on top of its call stack; a task that waits      *)
(* (taskwait, barrier, exit with blocking children, failed enqueue) runs   *)
(* other tasks on top of itself.  Each atomic read-modify-write and each   *)
(* racy read of the C code is a step of its own; a queue operation is one  *)
(* step (the queues' locks are the subject of ArrayDeque).                 *)
(***************************************************************************)
EXTENDS Naturals, FiniteSets, SequencesExt

CONSTANTS
    Thread,        \* the team; thread t's implicit task is also named t
    Master,        \* vthread 0, the one that forks and joins the region
    MaxTasks,      \* bound: explicit tasks the program may create
    QueueCap,      \* slots a pool queue can fill (num_slots - 1)
    NumBarriers,   \* bound: explicit barriers in the region's body
    Kinds,         \* task kinds of the program: tied, blocks_parent, may_delay
    GetEnd,        \* end __ompc_task_queue_get serves: "tail" (DEQUE, LIFO)
    StealEnd       \* end __ompc_task_queue_steal serves: "head" (DEQUE, FIFO)

TaskKind == [tied : BOOLEAN, blocks : BOOLEAN, mayDelay : BOOLEAN]
Explicit == 1..MaxTasks
Task == Thread \cup Explicit

ASSUME TeamAssumption == IsFiniteSet(Thread) /\ Master \in Thread
ASSUME BoundAssumption == /\ MaxTasks \in Nat /\ QueueCap \in Nat
                          /\ NumBarriers \in Nat /\ Thread \cap Explicit = {}
ASSUME KindAssumption == Kinds \subseteq TaskKind
ASSUME EndAssumption == GetEnd \in {"head", "tail"} /\ StealEnd \in {"head", "tail"}

VARIABLES
    created,        \* number of explicit tasks created so far
    kind, parent,   \* flags and parent link of each explicit task
    state,          \* omp_task_state_t of each task
    numChildren, numBlocking,   \* num_children, num_blocking_children
    sdepth,         \* switching depth recorded in the task
    siblings,       \* num_siblings, the local of a running task_exit
    mem,            \* lifetime of the omp_task_t: unused, live or deleted
    pc,             \* where each task's code is
    stack,          \* tasks on each thread's call stack, innermost last
    suspended,      \* num_suspended_tied_tasks of each thread
    tiedQ, untiedQ, \* the two pool queues of each thread
    numPending,     \* num_pending_tasks of the pool
    barrierCount, barrierCount2, barrierFlag, savedFlag, exitCount,
    phase           \* explicit barriers each thread has completed

taskVars == <<created, kind, parent, mem>>
countVars == <<numChildren, numBlocking, numPending, siblings>>
queueVars == <<tiedQ, untiedQ>>
stackVars == <<stack, suspended, sdepth>>
barrierVars == <<barrierCount, barrierCount2, barrierFlag, savedFlag,
                 exitCount, phase>>
vars == <<taskVars, countVars, queueVars, stackVars, barrierVars, state, pc>>

-----------------------------------------------------------------------------
(* Vocabulary of the C code *)

Current(t) == Last(stack[t])                    \* __omp_current_task
At(t, label) == pc[Current(t)] = label
IsImplicit(c) == c \in Thread
IsTied(c) == IsImplicit(c) \/ kind[c].tied
IsDeferred(c) == ~IsImplicit(c) /\ kind[c].mayDelay
InBarrier(c) == state[c] = "IN_BARRIER"
\* the suspended task counts against stealing while another runs above it
Suspends(c) == IsTied(c) /\ ~InBarrier(c)

States == {"UNSCHEDULED", "READY", "RUNNING", "WAITING", "IN_BARRIER",
           "EXITING", "FINISHED"}

Init ==
    /\ created = 0
    /\ kind = [n \in Explicit |-> [tied |-> TRUE, blocks |-> FALSE, mayDelay |-> TRUE]]
    /\ parent = [n \in Explicit |-> Master]
    /\ mem = [c \in Task |-> IF IsImplicit(c) THEN "live" ELSE "unused"]
    /\ state = [c \in Task |-> IF IsImplicit(c) THEN "RUNNING" ELSE "UNSCHEDULED"]
    /\ pc = [c \in Task |-> IF IsImplicit(c) THEN "body" ELSE "unused"]
    /\ numChildren = [c \in Task |-> 0]
    /\ numBlocking = [c \in Task |-> 0]
    /\ siblings = [c \in Task |-> 0]
    /\ sdepth = [c \in Task |-> 0]
    /\ stack = [t \in Thread |-> <<t>>]
    /\ suspended = [t \in Thread |-> 0]
    /\ tiedQ = [t \in Thread |-> <<>>]
    /\ untiedQ = [t \in Thread |-> <<>>]
    /\ numPending = 0
    /\ barrierCount = 0 /\ barrierCount2 = 0 /\ barrierFlag = 0 /\ exitCount = 0
    /\ savedFlag = [t \in Thread |-> 0]
    /\ phase = [t \in Thread |-> 0]

-----------------------------------------------------------------------------
(* __ompc_remove_task_from_pool_default: every task the thread may get,    *)
(* with the queues it leaves.  The scan over victims is not atomic: a      *)
(* steal of a tied task may overlook an untied one put behind the scan.    *)

\* mutant: the steal reads one end of the queue and advances the other
TakeFromOtherEnd(q, t, end) ==
    [q EXCEPT ![t] = IF end = "tail" THEN Tail(@) ELSE Front(@)]
TakeFrom(q, t, end) ==
    [q EXCEPT ![t] = IF end = "tail" THEN Front(@) ELSE Tail(@)]
ItemAt(s, end) == IF end = "tail" THEN Last(s) ELSE Head(s)

\* mutant: a tied task that waits outside a barrier may steal tied tasks
MayStealTiedAnywhere(t) == suspended[t] = 0
MayStealTied(t) == /\ suspended[t] = 0
                   /\ InBarrier(Current(t)) \/ ~IsTied(Current(t))

Removable(t) ==
    LET others(q) == {v \in Thread \ {t} : q[v] # <<>>}
    IN  IF tiedQ[t] # <<>>
        THEN {[task |-> Last(tiedQ[t]), tied |-> TakeFrom(tiedQ, t, "tail"),
               untied |-> untiedQ]}
        ELSE IF untiedQ[t] # <<>>
        THEN {[task |-> ItemAt(untiedQ[t], GetEnd), tied |-> tiedQ,
               untied |-> TakeFrom(untiedQ, t, GetEnd)]}
        ELSE {[task |-> ItemAt(untiedQ[v], StealEnd), tied |-> tiedQ,
               untied |-> TakeFrom(untiedQ, v, StealEnd)] : v \in others(untiedQ)}
             \cup
             {[task |-> Head(tiedQ[v]), tied |-> TakeFrom(tiedQ, v, "head"),
               untied |-> untiedQ]
                 : v \in IF MayStealTied(t) THEN others(tiedQ) ELSE {}}

(* __ompc_task_switch up to the call of the task's function: the caller    *)
(* stays on the stack with pc "label", where it continues on return.       *)
Switch(t, n, label) ==
    LET c == Current(t)
    IN  /\ stack' = [stack EXCEPT ![t] = Append(@, n)]
        /\ suspended' = [suspended EXCEPT ![t] = IF Suspends(c) THEN @ + 1 ELSE @]
        /\ sdepth' = [sdepth EXCEPT ![n] = sdepth[c] + 1]
        /\ pc' = [pc EXCEPT ![c] = label, ![n] = "body"]

\* remove a task from the pool and run it on top of the current one
TakeAndSwitch(t, label) ==
    \E r \in Removable(t) :
        /\ tiedQ' = r.tied /\ untiedQ' = r.untied
        /\ state' = [state EXCEPT ![r.task] = "RUNNING"]
        /\ Switch(t, r.task, label)
        /\ UNCHANGED <<taskVars, countVars, barrierVars>>

\* the scan found nothing, or what it saw was gone when it got there
RemoveMiss(t, label) ==
    /\ tiedQ[t] = <<>> /\ untiedQ[t] = <<>>
    /\ pc' = [pc EXCEPT ![Current(t)] = label]
    /\ UNCHANGED <<taskVars, countVars, queueVars, stackVars, barrierVars, state>>

-----------------------------------------------------------------------------
(* __ompc_task_create *)

NewTask(t, k) ==
    LET c == Current(t)
        n == created + 1
    IN  /\ At(t, "body") /\ created < MaxTasks
        /\ created' = n
        /\ kind' = [kind EXCEPT ![n] = k]
        /\ parent' = [parent EXCEPT ![n] = c]
        /\ mem' = [mem EXCEPT ![n] = "live"]

\* may_delay: the task is counted by its parent and by the pool, then enqueued
CreateDeferred(t, k) ==
    LET c == Current(t)
        n == created + 1
    IN  /\ k.mayDelay
        /\ NewTask(t, k)
        /\ numChildren' = [numChildren EXCEPT ![c] = @ + 1]
        /\ numBlocking' = [numBlocking EXCEPT ![c] = IF k.blocks THEN @ + 1 ELSE @]
        /\ numPending' = numPending + 1
        /\ pc' = [pc EXCEPT ![c] = "put", ![n] = "created"]
        /\ UNCHANGED <<siblings, state, queueVars, stackVars, barrierVars>>

Fresh(t) == CHOOSE n \in Explicit : pc[n] = "created" /\ parent[n] = Current(t)

Enqueued(q, t, n) == [q EXCEPT ![t] = Append(@, n)]
HasRoom(q, t) == Len(q[t]) < QueueCap

\* __ompc_add_task_to_pool_default: tied and untied tasks have a queue each
Put(t) ==
    LET c == Current(t)
        n == Fresh(t)
    IN  /\ At(t, "put")
        /\ \/ /\ IsTied(n) /\ HasRoom(tiedQ, t)
              /\ tiedQ' = Enqueued(tiedQ, t, n) /\ UNCHANGED untiedQ
           \/ /\ ~IsTied(n) /\ HasRoom(untiedQ, t)
              /\ untiedQ' = Enqueued(untiedQ, t, n) /\ UNCHANGED tiedQ
        /\ pc' = [pc EXCEPT ![c] = "body", ![n] = "queued"]
        /\ UNCHANGED <<taskVars, countVars, stackVars, barrierVars, state>>

\* the queue is full: run the new task at once, on top of its creator
PutFull(t) ==
    LET c == Current(t)
        n == Fresh(t)
    IN  /\ At(t, "put")
        /\ ~HasRoom(IF IsTied(n) THEN tiedQ ELSE untiedQ, t)
        /\ state' = [state EXCEPT ![c] = "READY", ![n] = "RUNNING"]
        /\ Switch(t, n, "createReturn")
        /\ UNCHANGED <<taskVars, countVars, queueVars, barrierVars>>

\* may_delay = 0: the task object lives in the creator's frame (memset to 0)
CreateImmediate(t, k) ==
    LET c == Current(t)
        n == created + 1
    IN  /\ ~k.mayDelay
        /\ NewTask(t, k)
        /\ state' = [state EXCEPT ![c] = "READY"]
        /\ stack' = [stack EXCEPT ![t] = Append(@, n)]
        /\ suspended' = [suspended EXCEPT ![t] = IF IsTied(c) THEN @ + 1 ELSE @]
        /\ pc' = [pc EXCEPT ![c] = "createReturn", ![n] = "body"]
        /\ UNCHANGED <<sdepth, countVars, queueVars, barrierVars>>

-----------------------------------------------------------------------------
(* __ompc_task_wait *)

\* a taskwait without children changes nothing and is not modelled
Wait(t) ==
    LET c == Current(t)
    IN  /\ At(t, "body") /\ numChildren[c] > 0
        /\ state' = [state EXCEPT ![c] = "WAITING"]
        /\ pc' = [pc EXCEPT ![c] = "waitTest"]
        /\ UNCHANGED <<taskVars, countVars, queueVars, stackVars, barrierVars>>

\* mutant: taskwait polls num_blocking_children instead of num_children
WaitTestBlocking(t) ==
    LET c == Current(t)
        over == numBlocking[c] = 0
    IN  /\ At(t, "waitTest")
        /\ state' = [state EXCEPT ![c] = IF over THEN "RUNNING" ELSE @]
        /\ pc' = [pc EXCEPT ![c] = IF over THEN "body" ELSE "waitTake"]
        /\ UNCHANGED <<taskVars, countVars, queueVars, stackVars, barrierVars>>

WaitTest(t) ==
    LET c == Current(t)
        over == numChildren[c] = 0
    IN  /\ At(t, "waitTest")
        /\ state' = [state EXCEPT ![c] = IF over THEN "RUNNING" ELSE @]
        /\ pc' = [pc EXCEPT ![c] = IF over THEN "body" ELSE "waitTake"]
        /\ UNCHANGED <<taskVars, countVars, queueVars, stackVars, barrierVars>>

WaitTake(t) == At(t, "waitTake") /\ TakeAndSwitch(t, "waitTest")
WaitMiss(t) == At(t, "waitTake") /\ RemoveMiss(t, "waitTest")

-----------------------------------------------------------------------------
(* __ompc_task_exit, called at the end of every task body *)

\* an implicit task exits once its thread has passed every explicit barrier
Exit(t) ==
    LET c == Current(t)
    IN  /\ At(t, "body") /\ (IsImplicit(c) => phase[t] = NumBarriers)
        /\ state' = [state EXCEPT ![c] = "EXITING"]
        /\ numPending' = IF IsDeferred(c) THEN numPending - 1 ELSE numPending
        /\ pc' = [pc EXCEPT ![c] = IF IsDeferred(c) THEN "exitDec" ELSE "exitBlock"]
        /\ UNCHANGED <<numChildren, numBlocking, siblings, taskVars, queueVars,
                       stackVars, barrierVars>>

ExitDec(t) ==
    LET c == Current(t)
        p == parent[c]
    IN  /\ At(t, "exitDec")
        /\ numChildren' = [numChildren EXCEPT ![p] = @ - 1]
        /\ siblings' = [siblings EXCEPT ![c] = numChildren[p] - 1]
        /\ pc' = [pc EXCEPT ![c] = "exitCheck"]
        /\ UNCHANGED <<numBlocking, numPending, taskVars, queueVars, stackVars,
                       barrierVars, state>>

\* the last child deletes a FINISHED parent; after a deletion the fields read
\* are whatever the allocator left, and a second deletion changes nothing here
ExitCheck(t) ==
    LET c == Current(t)
        p == parent[c]
    IN  /\ At(t, "exitCheck")
        /\ mem' = [mem EXCEPT ![p] =
                     IF IsDeferred(p) /\ siblings[c] = 0 /\ state[p] = "FINISHED"
                     THEN "deleted" ELSE @]
        /\ pc' = [pc EXCEPT ![c] = "exitBlock"]
        /\ UNCHANGED <<created, kind, parent, countVars, queueVars, stackVars,
                       barrierVars, state>>

\* the two halves of the last test of __ompc_task_exit; the mutants are a
\* task that tells the parent whatever its flags, and one that does not wait
TellsParentAlways(c) == IsDeferred(c)
TellsParent(c) == IsDeferred(c) /\ kind[c].blocks
MayLeaveAtOnce(c) == TRUE
MayLeave(c) == numBlocking[c] = 0

\* leave once no descendant needs this frame, and tell the parent
ExitBlock(t) ==
    LET c == Current(t)
        over == MayLeave(c)
    IN  /\ At(t, "exitBlock")
        /\ numBlocking' = IF over /\ TellsParent(c)
                          THEN [numBlocking EXCEPT ![parent[c]] = @ - 1]
                          ELSE numBlocking
        /\ pc' = [pc EXCEPT ![c] = IF over THEN "returned" ELSE "exitTake"]
        /\ UNCHANGED <<numChildren, numPending, siblings, taskVars, queueVars,
                       stackVars, barrierVars, state>>

ExitTake(t) == At(t, "exitTake") /\ TakeAndSwitch(t, "exitBlock")
ExitMiss(t) == At(t, "exitTake") /\ RemoveMiss(t, "exitBlock")

-----------------------------------------------------------------------------
(* The end of __ompc_task_switch, and of the undeferred call in            *)
(* __ompc_task_create: back in the task below.                             *)

PopTo(t, finalState) ==
    LET c == Current(t)
        o == stack[t][Len(stack[t]) - 1]
        resumed == pc[o] = "createReturn"
    IN  /\ stack' = [stack EXCEPT ![t] = Front(@)]
        /\ suspended' = [suspended EXCEPT ![t] = IF Suspends(o) THEN @ - 1 ELSE @]
        /\ state' = [state EXCEPT ![c] = finalState,
                                  ![o] = IF resumed THEN "RUNNING" ELSE @]
        /\ pc' = [pc EXCEPT ![c] = "done", ![o] = IF resumed THEN "body" ELSE @]
        /\ UNCHANGED <<sdepth, created, kind, parent, countVars, queueVars, barrierVars>>

\* num_children is read once: 0 deletes the task here ...
ReturnDelete(t) ==
    LET c == Current(t)
    IN  /\ At(t, "returned") /\ ~IsImplicit(c)
        /\ IsDeferred(c) => numChildren[c] = 0
        /\ mem' = [mem EXCEPT ![c] = "deleted"]
        /\ PopTo(t, state[c])

\* ... otherwise its last child is to delete it, once it is marked FINISHED
ReturnKeep(t) ==
    LET c == Current(t)
    IN  /\ At(t, "returned") /\ IsDeferred(c) /\ numChildren[c] # 0
        /\ pc' = [pc EXCEPT ![c] = "finish"]
        /\ UNCHANGED <<taskVars, countVars, queueVars, stackVars, barrierVars, state>>

MarkFinished(t) ==
    /\ At(t, "finish")
    /\ PopTo(t, "FINISHED")
    /\ UNCHANGED mem

-----------------------------------------------------------------------------
(* __ompc_barrier_wait: the team barrier inside the region *)

TeamSize == Cardinality(Thread)

BarrierArrive(t) ==
    /\ At(t, "body") /\ IsImplicit(Current(t)) /\ phase[t] < NumBarriers
    /\ savedFlag' = [savedFlag EXCEPT ![t] = barrierFlag]
    /\ state' = [state EXCEPT ![t] = "IN_BARRIER"]
    /\ barrierCount' = barrierCount + 1
    /\ pc' = [pc EXCEPT ![t] = "barrier"]
    /\ UNCHANGED <<barrierCount2, barrierFlag, exitCount, phase, taskVars,
                   countVars, queueVars, stackVars>>

\* both barriers drain the pool while they wait
Draining == {"barrier", "endBarrier"}
BarrierTake(t) ==
    /\ pc[Current(t)] \in Draining /\ numPending > 0
    /\ TakeAndSwitch(t, pc[Current(t)])

\* mutant: the barrier opens without waiting for the pending tasks
AllArrivedNoDrain == barrierCount >= TeamSize
AllArrived == barrierCount >= TeamSize /\ numPending = 0

BarrierPass(t) ==
    /\ At(t, "barrier") /\ AllArrived
    /\ barrierCount2' = barrierCount2 + 1
    /\ pc' = [pc EXCEPT ![t] = IF barrierCount2 + 1 = TeamSize
                               THEN "barrierReset" ELSE "barrierWait"]
    /\ UNCHANGED <<barrierCount, barrierFlag, savedFlag, exitCount, phase,
                   taskVars, countVars, queueVars, stackVars, state>>

\* mutant: the last thread leaves barrier_count as it is
BarrierResetHalf(t) ==
    /\ At(t, "barrierReset")
    /\ barrierCount2' = 0
    /\ pc' = [pc EXCEPT ![t] = "barrierToggle"]
    /\ UNCHANGED <<barrierCount, barrierFlag, savedFlag, exitCount, phase,
                   taskVars, countVars, queueVars, stackVars, state>>

BarrierReset(t) ==
    /\ At(t, "barrierReset")
    /\ barrierCount' = 0 /\ barrierCount2' = 0
    /\ pc' = [pc EXCEPT ![t] = "barrierToggle"]
    /\ UNCHANGED <<barrierFlag, savedFlag, exitCount, phase,
                   taskVars, countVars, queueVars, stackVars, state>>

\* mutant: the flag is stored back untoggled
BarrierToggleNot(t) ==
    /\ At(t, "barrierToggle")
    /\ barrierFlag' = savedFlag[t]
    /\ pc' = [pc EXCEPT ![t] = "barrierWait"]
    /\ UNCHANGED <<barrierCount, barrierCount2, savedFlag, exitCount, phase,
                   taskVars, countVars, queueVars, stackVars, state>>

BarrierToggle(t) ==
    /\ At(t, "barrierToggle")
    /\ barrierFlag' = 1 - savedFlag[t]
    /\ pc' = [pc EXCEPT ![t] = "barrierWait"]
    /\ UNCHANGED <<barrierCount, barrierCount2, savedFlag, exitCount, phase,
                   taskVars, countVars, queueVars, stackVars, state>>

BarrierLeave(t) ==
    /\ At(t, "barrierWait") /\ barrierFlag # savedFlag[t]
    /\ state' = [state EXCEPT ![t] = "RUNNING"]
    /\ phase' = [phase EXCEPT ![t] = @ + 1]
    /\ pc' = [pc EXCEPT ![t] = "body"]
    /\ UNCHANGED <<barrierCount, barrierCount2, barrierFlag, savedFlag, exitCount,
                   taskVars, countVars, queueVars, stackVars>>

-----------------------------------------------------------------------------
(* __ompc_level_1_barrier: the end of the region *)

EndArrive(t) ==
    /\ At(t, "returned") /\ IsImplicit(Current(t))
    /\ state' = [state EXCEPT ![t] = "IN_BARRIER"]
    /\ barrierCount' = barrierCount + 1
    /\ pc' = [pc EXCEPT ![t] = "endBarrier"]
    /\ UNCHANGED <<barrierCount2, barrierFlag, savedFlag, exitCount, phase,
                   taskVars, countVars, queueVars, stackVars>>

EndPass(t) ==
    /\ At(t, "endBarrier") /\ AllArrived
    /\ mem' = [mem EXCEPT ![t] = "deleted"]
    /\ suspended' = [suspended EXCEPT ![t] = 0]
    /\ exitCount' = exitCount + 1
    /\ pc' = [pc EXCEPT ![t] = IF t = Master THEN "join" ELSE "gone"]
    /\ UNCHANGED <<barrierCount, barrierCount2, barrierFlag, savedFlag, phase,
                   created, kind, parent, countVars, queueVars, stack, sdepth, state>>

MasterJoin(t) ==
    /\ t = Master /\ At(t, "join") /\ exitCount = TeamSize
    /\ exitCount' = 0 /\ barrierCount' = 0
    /\ pc' = [pc EXCEPT ![t] = "gone"]
    /\ UNCHANGED <<barrierCount2, barrierFlag, savedFlag, phase,
                   taskVars, countVars, queueVars, stackVars, state>>

-----------------------------------------------------------------------------
RegionOver == \A t \in Thread : pc[t] = "gone"
Over == RegionOver /\ UNCHANGED vars

Program(t) == \/ \E k \in Kinds : CreateDeferred(t, k) \/ CreateImmediate(t, k)
              \/ Wait(t) \/ Exit(t) \/ BarrierArrive(t)
Take(t) == WaitTake(t) \/ ExitTake(t) \/ BarrierTake(t)
Miss(t) == WaitMiss(t) \/ ExitMiss(t)
Runtime(t) ==
    \/ Put(t) \/ PutFull(t)
    \/ WaitTest(t) \/ ExitDec(t) \/ ExitCheck(t) \/ ExitBlock(t)
    \/ ReturnDelete(t) \/ ReturnKeep(t) \/ MarkFinished(t)
    \/ BarrierPass(t) \/ BarrierReset(t) \/ BarrierToggle(t) \/ BarrierLeave(t)
    \/ EndArrive(t) \/ EndPass(t) \/ MasterJoin(t)

Next == (\E t \in Thread : Program(t) \/ Take(t) \/ Miss(t) \/ Runtime(t)) \/ Over

Spec == Init /\ [][Next]_vars

(* Fairness: the operating system runs every thread; a user task body      *)
(* ends; a thread that keeps scanning the pool eventually gets a task that *)
(* is there again and again (a steal can miss, but not forever).           *)
Fairness == \A t \in Thread : /\ WF_vars(Program(t))
                              /\ WF_vars(Miss(t) \/ Runtime(t))
                              /\ SF_vars(Take(t))
FairSpec == Spec /\ Fairness
=============================================================================
