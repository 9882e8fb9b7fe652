---------------------------- MODULE TaskRuntimeProps ----------------------------
(***************************************************************************)
(* Properties of TaskRuntime, and the inductive invariant they follow      *)
(* from.                                                                   *)
(***************************************************************************)
EXTENDS TaskRuntime

Labels == {"unused", "created", "queued", "body", "put", "createReturn", "waitTest",
           "waitTake", "exitDec", "exitCheck", "exitBlock", "exitTake", "returned",
           "finish", "done", "barrier", "barrierReset", "barrierToggle",
           "barrierWait", "endBarrier", "join", "gone"}

TypeOK ==
    /\ created \in 0..MaxTasks
    /\ kind \in [Explicit -> TaskKind]
    /\ parent \in [Explicit -> Task]
    /\ state \in [Task -> States]
    /\ mem \in [Task -> {"unused", "live", "deleted"}]
    /\ pc \in [Task -> Labels]
    /\ numChildren \in [Task -> 0..MaxTasks]
    /\ numBlocking \in [Task -> 0..MaxTasks]
    /\ siblings \in [Task -> 0..MaxTasks]
    /\ sdepth \in [Task -> 0..MaxTasks]
    /\ numPending \in 0..MaxTasks
    /\ stack \in [Thread -> BoundedSeq(Task, MaxTasks + 1)]
    /\ tiedQ \in [Thread -> BoundedSeq(Explicit, QueueCap)]
    /\ untiedQ \in [Thread -> BoundedSeq(Explicit, QueueCap)]
    /\ suspended \in [Thread -> 0..MaxTasks]
    /\ barrierCount \in 0..TeamSize /\ barrierCount2 \in 0..TeamSize
    /\ barrierFlag \in {0, 1} /\ savedFlag \in [Thread -> {0, 1}]
    /\ exitCount \in 0..TeamSize
    /\ phase \in [Thread -> 0..NumBarriers]

-----------------------------------------------------------------------------
Used == 1..created
Uncounted == {"exitCheck", "exitBlock", "exitTake", "returned", "finish", "done"}
Gone == {"returned", "finish", "done"}
BodyOver == Uncounted \cup {"exitDec"}
Children(c) == {n \in Used : parent[n] = c /\ IsDeferred(n)}
Pending == {n \in Used : IsDeferred(n) /\ pc[n] \notin BodyOver}
Finished == {n \in Used : IsDeferred(n) /\ pc[n] \in BodyOver}
Counted(c) == {n \in Children(c) : pc[n] \notin Uncounted}
Blocking(c) == {n \in Children(c) : kind[n].blocks /\ pc[n] \notin Gone}

(* The three counters the waits and the barriers poll agree with what the  *)
(* tasks have done: num_pending_tasks counts deferred tasks whose body is  *)
(* not over, num_children the children yet to decrement it, and            *)
(* num_blocking_children those that still use the parent's frame.          *)
CountersExact ==
    /\ numPending = Cardinality(Pending)
    /\ \A c \in Task : /\ numChildren[c] = Cardinality(Counted(c))
                       /\ numBlocking[c] = Cardinality(Blocking(c))

(* A task is in one queue or on one call stack, never in two places and    *)
(* never nowhere: no task is lost or run twice, also when a put fails      *)
(* (omp_task.c:136-141, omp_task_pool.c:201-330).                          *)
PlacesIn(f, what, n) ==
    UNION {{<<what, t, i>> : i \in {j \in DOMAIN f[t] : f[t][j] = n}} : t \in Thread}
Places(n) == PlacesIn(tiedQ, "tied", n) \cup PlacesIn(untiedQ, "untied", n)
                \cup PlacesIn(stack, "stack", n)
OnePlace ==
    \A n \in Used : Cardinality(Places(n)) = IF pc[n] \in {"created", "done"} THEN 0 ELSE 1

(* The scheduling constraint stated at omp_task_pool.c:239-241: a tied     *)
(* task runs above a suspended tied task that is not at a barrier only if  *)
(* it descends from it.                                                    *)
Lines == {S \in SUBSET Task : \A x \in S \cap Used : parent[x] \in S}
Ancestors(n) == {a \in Task : \A S \in Lines : parent[n] \in S => a \in S}
TiedScheduling ==
    \A t \in Thread : \A i, j \in DOMAIN stack[t] :
        LET a == stack[t][i]
            b == stack[t][j]
        IN  i < j /\ Suspends(a) /\ IsTied(b) => a \in Ancestors(b)

(* While a blocking child may still use its parent's stack frame, the      *)
(* parent has not returned (omp_task.c:251-259).                           *)
BlockingFrames ==
    \A n \in Used : IsDeferred(n) /\ kind[n].blocks /\ pc[n] \notin Gone
        => \E t \in Thread : parent[n] \in ToSet(stack[t])

(* A taskwait returns only when every child created before it has finished *)
(* its body and its last update of the waiting task (omp_task.c:201-208).  *)
TaskwaitComplete ==
    [][\A c \in Task : state[c] = "WAITING" /\ state'[c] = "RUNNING"
          => \A n \in Children(c) : pc[n] \in Uncounted]_vars

-----------------------------------------------------------------------------
(* The barriers hold the team until every thread is there and every task   *)
(* spawned before is finished: TaskRuntime implements TaskRegion           *)
(* (omp_thread.h:326-403, omp_thread.c:989-1058).                          *)
AtBarrier == {"barrier", "barrierReset", "barrierToggle", "barrierWait",
              "endBarrier", "join", "gone"}
PastBarrier == AtBarrier \ {"barrier", "endBarrier"}
Reached(t, labels) == phase[t] + IF pc[t] \in labels THEN 1 ELSE 0

Arrived == [t \in Thread |-> Reached(t, AtBarrier)]
Released == Max({Reached(t, PastBarrier) : t \in Thread})

Region == INSTANCE TaskRegion WITH
    TaskId <- Explicit, Episodes <- NumBarriers + 1,
    arrived <- Arrived, left <- phase, released <- Released,
    unfinished <- Pending, finished <- Finished
ImplementsRegion == Region!Spec

-----------------------------------------------------------------------------
(* The inductive invariant, first part: where the tasks are *)

\* where a task can be that another one runs above of
Below == {"waitTest", "exitBlock", "createReturn", "barrier", "endBarrier"}
Started == {"body", "put", "createReturn", "waitTest", "waitTake", "exitBlock",
            "exitTake", "returned"}
OwnLabels == Started \cup {"exitDec", "exitCheck", "finish"}

PcInv ==
    /\ \A t \in Thread : pc[t] \in Started \cup AtBarrier
    /\ \A n \in Used : /\ pc[n] \in OwnLabels \cup {"created", "queued", "done"}
                       /\ pc[n] \in {"exitDec", "exitCheck", "finish"} => IsDeferred(n)
    /\ \A n \in Explicit \ Used : pc[n] = "unused"

Once(f) == \A t, u \in Thread : \A i \in DOMAIN f[t], j \in DOMAIN f[u] :
               f[t][i] = f[u][j] => t = u /\ i = j
Within(n, f) == \E t \in Thread : \E i \in DOMAIN f[t] : f[t][i] = n

StackInv ==
    /\ \A t \in Thread : /\ stack[t] # <<>> /\ stack[t][1] = t
                         /\ \A i \in 2..Len(stack[t]) : stack[t][i] \in Used
                         /\ \A i \in 1..(Len(stack[t]) - 1) : pc[stack[t][i]] \in Below
    /\ Once(stack)
    /\ \A n \in Used : Within(n, stack) <=> pc[n] \in OwnLabels

QueueInv ==
    /\ Once(tiedQ) /\ Once(untiedQ)
    /\ \A n \in Explicit :
         /\ Within(n, tiedQ) <=> n \in Used /\ pc[n] = "queued" /\ IsTied(n)
         /\ Within(n, untiedQ) <=> n \in Used /\ pc[n] = "queued" /\ ~IsTied(n)
    /\ \A t \in Thread : Len(tiedQ[t]) <= QueueCap /\ Len(untiedQ[t]) <= QueueCap

\* between its creation and its put a task is known to its creator only
FreshInv ==
    /\ \A n \in Used : pc[n] \in {"created", "queued"} => IsDeferred(n)
    /\ \A n \in Used : pc[n] = "created" => pc[parent[n]] = "put"
    /\ \A m, n \in Used : pc[m] = "created" /\ pc[n] = "created" /\ parent[m] = parent[n]
                             => m = n
    /\ \A c \in Task : pc[c] = "put" => \E n \in Used : pc[n] = "created" /\ parent[n] = c

\* the creator of a task has started before it
ParentInv == \A n \in Used :
    /\ parent[n] \in Used \cup Thread
    /\ pc[parent[n]] \notin {"created", "queued"}

PlaceInv == PcInv /\ StackInv /\ QueueInv /\ FreshInv /\ ParentInv

-----------------------------------------------------------------------------
(* Second part: what the counters and the states are worth *)

Types ==
    /\ created \in 0..MaxTasks
    /\ kind \in [Explicit -> TaskKind] /\ parent \in [Explicit -> Task]
    /\ state \in [Task -> States] /\ pc \in [Task -> Labels]
    /\ mem \in [Task -> {"unused", "live", "deleted"}]
    /\ numChildren \in [Task -> Nat] /\ numBlocking \in [Task -> Nat]
    /\ siblings \in [Task -> 0..MaxTasks] /\ numPending \in Nat
    /\ stack \in [Thread -> Seq(Task)] /\ sdepth \in [Task -> Nat]
    /\ suspended \in [Thread -> Nat]
    /\ tiedQ \in [Thread -> Seq(Explicit)] /\ untiedQ \in [Thread -> Seq(Explicit)]
    /\ barrierCount \in Nat /\ barrierCount2 \in Nat /\ exitCount \in Nat
    /\ barrierFlag \in {0, 1} /\ savedFlag \in [Thread -> {0, 1}]
    /\ phase \in [Thread -> Nat]

\* who returned has no blocking child left
FrameInv == \A c \in Used : pc[c] \in Gone => Blocking(c) = {}

StateInv ==
    /\ \A c \in Task : state[c] = "WAITING" => pc[c] \in {"waitTest", "waitTake"}
    /\ \A c \in Task : InBarrier(c) <=> c \in Thread /\ pc[c] \in AtBarrier

\* num_suspended_tied_tasks counts the suspended tied tasks of the call stack
Suspended(t) == {i \in 1..(Len(stack[t]) - 1) : Suspends(stack[t][i])}
SuspendInv == \A t \in Thread : suspended[t] = Cardinality(Suspended(t))

\* switching depths grow along the call stack
DepthInv ==
    /\ \A t \in Thread : \A i \in 1..Len(stack[t]) : sdepth[stack[t][i]] < i
    /\ \A n \in Explicit : sdepth[n] <= MaxTasks
    /\ \A n \in Explicit \ Used : sdepth[n] = 0

\* below an undeferred task is the deferred or implicit one that came to it
CreatorInv ==
    \A t \in Thread : \A i \in 1..Len(stack[t]) :
        IsImplicit(stack[t][i]) \/ IsDeferred(stack[t][i])
        \/ \E j \in 1..(i - 1) :
              /\ pc[stack[t][j]] = "createReturn"
              /\ IsImplicit(stack[t][j]) \/ IsDeferred(stack[t][j])

-----------------------------------------------------------------------------
(* Third part: the two barriers *)

Inside == {"barrier", "barrierReset", "barrierToggle", "barrierWait"}
Ended == {"endBarrier", "join", "gone"}
Waiting == {t \in Thread : pc[t] \in Inside /\ savedFlag[t] = barrierFlag}
Passed == {t \in Waiting : pc[t] # "barrier"}
Resetting == {t \in Thread : pc[t] \in {"barrierReset", "barrierToggle"}}
AtEnd == {t \in Thread : pc[t] \in Ended}
Left == {t \in Thread : pc[t] \in {"join", "gone"}}

\* the barriers that have opened for a thread, whether or not it has left
Opened(t) == phase[t] + IF pc[t] = "barrierWait" /\ savedFlag[t] # barrierFlag THEN 1 ELSE 0

PhaseInv ==
    \A t \in Thread :
        /\ phase[t] <= NumBarriers
        /\ pc[t] \in Inside => phase[t] < NumBarriers
        /\ pc[t] \in Ended \cup {"exitBlock", "exitTake", "returned"} => phase[t] = NumBarriers
        /\ pc[t] \in Inside \ {"barrierWait"} => savedFlag[t] = barrierFlag
        /\ pc[t] = "join" => t = Master

\* the threads are in step, and one of them resets the barrier, the last one
StepInv ==
    /\ \A t, u \in Thread : Opened(t) = Opened(u)
    /\ \A t \in Resetting : \A u \in Thread \ {t} :
          pc[u] = "barrierWait" /\ savedFlag[u] = barrierFlag

\* a barrier that has let somebody go is complete and has nothing to drain
DrainInv ==
    /\ Passed # {} => Waiting = Thread /\ Pending = {}
    /\ Left # {} => AtEnd = Thread /\ Pending = {}

TurnInv ==
    \/ /\ \E t \in Thread : pc[t] = "barrierToggle"
       /\ barrierCount = 0 /\ barrierCount2 = 0 /\ exitCount = 0
    \/ /\ \A t \in Thread : pc[t] = "gone"
       /\ barrierCount = 0 /\ barrierCount2 = 0 /\ exitCount = 0
    \/ /\ \A t \in Thread : pc[t] # "barrierToggle"
       /\ pc[Master] # "gone"
       /\ barrierCount = Cardinality(Waiting \cup AtEnd)
       /\ barrierCount2 = Cardinality(Passed)
       /\ exitCount = Cardinality(Left)

BarrierInv == PhaseInv /\ StepInv /\ DrainInv /\ TurnInv

-----------------------------------------------------------------------------
CountInv == CountersExact /\ FrameInv
RunInv == StateInv /\ SuspendInv /\ DepthInv /\ CreatorInv
IInv == Types /\ PlaceInv /\ CountInv /\ RunInv /\ BarrierInv

-----------------------------------------------------------------------------
(* Programs whose tasks are all tied: what the queue of a thread holds     *)
(* and where its tasks come from                                           *)

AllTied == \A k \in Kinds : k.tied

OnStackOf(t, c) == \E i \in DOMAIN stack[t] : stack[t][i] = c

\* who waits on a stack finds its queued children in that thread's queue
ChildrenInv ==
    \A t \in Thread : \A n \in Used :
        pc[n] = "queued" /\ OnStackOf(t, parent[n]) => \E k \in DOMAIN tiedQ[t] : tiedQ[t][k] = n

\* ... behind what was there before it started ...
SuffixInv ==
    \A t \in Thread : \A a \in Task : OnStackOf(t, a) /\ ~InBarrier(a) =>
        \A k, m \in DOMAIN tiedQ[t] :
            k < m /\ a \in Ancestors(tiedQ[t][k]) => a \in Ancestors(tiedQ[t][m])

\* ... so that, once another thread has one of them, nothing else is left
StolenInv ==
    \A t, u \in Thread : \A n \in Used :
        t # u /\ OnStackOf(u, n) /\ OnStackOf(t, parent[n]) /\ ~InBarrier(parent[n])
            => \A k \in DOMAIN tiedQ[t] : parent[n] \in Ancestors(tiedQ[t][k])

\* who is about to take a task finds its own descendants
TakeInv ==
    \A t \in Thread : pc[Current(t)] \in {"waitTake", "exitTake"} /\ tiedQ[t] # <<>>
        => Current(t) \in Ancestors(Last(tiedQ[t]))

AboveInv ==
    \A t \in Thread : \A i, j \in DOMAIN stack[t] :
        stack[t][j] \in Used /\ stack[t][i] = parent[stack[t][j]] => i < j

KindInv == \A n \in Explicit : kind[n].tied
\* a barrier opens when nothing is queued
DrainedInv == \A t \in Thread : pc[t] \in PastBarrier => tiedQ[t] = <<>>

TiedInv ==
    /\ KindInv /\ DrainedInv
    /\ ChildrenInv /\ SuffixInv /\ StolenInv /\ TakeInv /\ AboveInv /\ TiedScheduling
=============================================================================
