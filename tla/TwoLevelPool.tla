----------------------------- MODULE TwoLevelPool -----------------------------
(***************************************************************************)
(* The two-level task pool (other_taskpools/omp_task_pool_simple_2level.c): *)
(* a queue per thread and one for the community.  A task that does not fit *)
(* into the queue of its thread is donated to the community; a thread      *)
(* whose queue is empty takes a chunk from the community: it keeps the     *)
(* first task and copies the others into its own queue, whose locks it     *)
(* does not take (omp_queue.c:290-379, 461-553).                           *)
(*                                                                         *)
(* A call on a queue is two steps here, as ArrayDeque and CFifo have the   *)
(* others: one that takes the lock, tests and moves, and one that writes   *)
(* is_empty and unlocks.  The threads are in a barrier or in untied tasks, *)
(* so that each may look for tasks in other queues.                        *)
(***************************************************************************)
EXTENDS Naturals, FiniteSets, FiniteSetsExt

CONSTANTS
    Thread,
    Cfifo,         \* O64_OMP_TASK_QUEUE: CFIFO, or the default DEQUE
    NumSlots,      \* O64_OMP_TASK_QUEUE_NUM_SLOTS; the community has twice as many
    ChunkSize,     \* O64_OMP_TASK_CHUNK_SIZE
    MaxTasks       \* bound: tasks created

Community == "community"
Queue == Thread \cup {Community}
Size(q) == IF q = Community THEN 2 * NumSlots ELSE NumSlots
Free == "free"
Task == 1..MaxTasks
NoTask == 0

VARIABLES
    slots, headIndex, tailIndex, isEmpty, lock1, lock2,   \* of each queue
    created,       \* tasks 1..created exist
    done,          \* tasks taken out of the pool, or run at once
    pc, at, task,  \* each thread's step, the queue it is at, the task in hand
    todo           \* the victims a thread has still to look at

ringVars == <<slots, headIndex, tailIndex>>
lockVars == <<lock1, lock2>>
vars == <<ringVars, isEmpty, lockVars, created, done, pc, at, task, todo>>

Init ==
    /\ slots = [q \in Queue |-> [i \in 0..(Size(q) - 1) |-> NoTask]]
    /\ headIndex = [q \in Queue |-> 0]
    /\ tailIndex = [q \in Queue |-> 0]
    /\ isEmpty = [q \in Queue |-> TRUE]
    /\ lock1 = [q \in Queue |-> Free]
    /\ lock2 = [q \in Queue |-> Free]
    /\ created = 0 /\ done = {}
    /\ pc = [t \in Thread |-> "idle"]
    /\ at = [t \in Thread |-> t]
    /\ task = [t \in Thread |-> NoTask]
    /\ todo = [t \in Thread |-> {}]

Succ(q, i) == (i + 1) % Size(q)
Pred(q, i) == IF i # 0 THEN i - 1 ELSE Size(q) - 1
Used(q) == (tailIndex[q] + Size(q) - headIndex[q]) % Size(q)
Full(q) == Used(q) = Size(q) - 1

Goto(t, label) == pc' = [pc EXCEPT ![t] = label]
GoAt(t, q, label) == Goto(t, label) /\ at' = [at EXCEPT ![t] = q]
\* the thread has its answer
Leave(t) == GoAt(t, t, "idle") /\ task' = [task EXCEPT ![t] = NoTask]

-----------------------------------------------------------------------------
(* __ompc_add_task_to_pool_simple_2level *)

\* a queue that looks full is not tried
Add(t) ==
    /\ pc[t] = "idle" /\ created < MaxTasks
    /\ created' = created + 1
    /\ task' = [task EXCEPT ![t] = created + 1]
    /\ GoAt(t, IF Full(t) THEN Community ELSE t, "put")
    /\ UNCHANGED <<ringVars, isEmpty, lockVars, done, todo>>

\* CFIFO guards the tail with lock2
PutLockFree(q) == (IF Cfifo THEN lock2 ELSE lock1)[q] = Free
PutLock(q, holder) == IF Cfifo
    THEN lock2' = [lock2 EXCEPT ![q] = holder] /\ UNCHANGED lock1
    ELSE lock1' = [lock1 EXCEPT ![q] = holder] /\ UNCHANGED lock2

\* at the tail, in either queue: with this pool a donation is a put
\* (omp_thread.c:842-843)
Put(t) ==
    LET q == at[t]
        i == Succ(q, tailIndex[q])
    IN /\ pc[t] = "put" /\ PutLockFree(q) /\ ~Full(q)
       /\ slots' = [slots EXCEPT ![q][i] = task[t]]
       /\ tailIndex' = [tailIndex EXCEPT ![q] = i]
       /\ PutLock(q, t)
       /\ Goto(t, "putFlag")
       /\ UNCHANGED <<headIndex, isEmpty, created, done, at, task, todo>>

PutFlag(t) ==
    /\ pc[t] = "putFlag"
    /\ isEmpty' = [isEmpty EXCEPT ![at[t]] = FALSE]
    /\ PutLock(at[t], Free)
    /\ Leave(t)
    /\ UNCHANGED <<ringVars, created, done, todo>>

\* the own queue is full after all; the community's: the creator runs the task
PutRefused(t) ==
    /\ pc[t] = "put" /\ PutLockFree(at[t]) /\ Full(at[t])
    /\ IF at[t] = t
       THEN GoAt(t, Community, "put") /\ UNCHANGED <<done, task>>
       ELSE Leave(t) /\ done' = done \cup {task[t]}
    /\ UNCHANGED <<ringVars, isEmpty, lockVars, created, todo>>

-----------------------------------------------------------------------------
(* __ompc_remove_task_from_pool_simple_2level: the own queue *)

Remove(t) ==
    /\ pc[t] = "idle"
    /\ Goto(t, IF ~Cfifo /\ isEmpty[t] THEN "chunk" ELSE "get")
    /\ UNCHANGED <<ringVars, isEmpty, lockVars, created, done, at, task, todo>>

\* with lock1: the task at the head, or of a deque's owner at the tail
TakeHead(q) == /\ headIndex' = [headIndex EXCEPT ![q] = Succ(q, headIndex[q])]
               /\ UNCHANGED <<slots, tailIndex>>
TakeTail(q) == /\ tailIndex' = [tailIndex EXCEPT ![q] = Pred(q, tailIndex[q])]
               /\ UNCHANGED <<slots, headIndex>>
First(q) == slots[q][Succ(q, headIndex[q])]
Last(q) == slots[q][tailIndex[q]]

Get(t) ==
    /\ pc[t] = "get" /\ lock1[t] = Free
    /\ IF isEmpty[t]
       THEN Goto(t, "chunk") /\ UNCHANGED <<ringVars, lock1, task>>
       ELSE /\ IF Cfifo THEN TakeHead(t) ELSE TakeTail(t)
            /\ task' = [task EXCEPT ![t] = IF Cfifo THEN First(t) ELSE Last(t)]
            /\ lock1' = [lock1 EXCEPT ![t] = t]
            /\ Goto(t, "takeFlag")
    /\ UNCHANGED <<isEmpty, lock2, created, done, at, todo>>

\* is_empty of CFIFO is written with lock2 too
TakeFlag(t) ==
    LET q == at[t] IN
    /\ pc[t] = "takeFlag"
    /\ Cfifo /\ Used(q) = 0 => lock2[q] = Free
    /\ isEmpty' = [isEmpty EXCEPT ![q] = isEmpty[q] \/ Used(q) = 0]
    /\ lock1' = [lock1 EXCEPT ![q] = Free]
    /\ done' = done \cup {task[t]}
    /\ Leave(t)
    /\ UNCHANGED <<ringVars, lock2, created, todo>>

-----------------------------------------------------------------------------
(* a chunk of the community's tasks *)

ChunkPeek(t) ==
    /\ pc[t] = "chunk"
    /\ IF isEmpty[Community]
       THEN GoAt(t, t, "scan") /\ todo' = [todo EXCEPT ![t] = Thread \ {t}]
       ELSE GoAt(t, Community, "copy") /\ UNCHANGED todo
    /\ UNCHANGED <<ringVars, isEmpty, lockVars, created, done, task>>

CopyMiss(t) ==
    /\ pc[t] = "copy" /\ lock1[Community] = Free /\ isEmpty[Community]
    /\ GoAt(t, t, "scan")
    /\ todo' = [todo EXCEPT ![t] = Thread \ {t}]
    /\ UNCHANGED <<ringVars, isEmpty, lockVars, created, done, task>>

\* what there is, at most a chunk, at most the slots of the own queue
ChunkTaken == Min({ChunkSize, Used(Community), NumSlots})

\* mutant: the first task of the chunk stays in the thread's own queue too
CopyAll(t) ==
    LET h == headIndex[Community]
        n == ChunkTaken
    IN /\ pc[t] = "copy" /\ lock1[Community] = Free /\ ~isEmpty[Community]
       /\ task' = [task EXCEPT ![t] = First(Community)]
       /\ slots' = [slots EXCEPT ![t] = [i \in DOMAIN @ |->
                      IF i \in 1..n THEN slots[Community][(h + i) % Size(Community)] ELSE @[i]]]
       /\ headIndex' = [headIndex EXCEPT ![Community] = (h + n) % Size(Community), ![t] = 0]
       /\ tailIndex' = [tailIndex EXCEPT ![t] = n]
       /\ lock1' = [lock1 EXCEPT ![Community] = t]
       /\ Goto(t, "ownFlag")
       /\ UNCHANGED <<isEmpty, lock2, created, done, at, todo>>

\* the chunk starts after the head; its first task is the answer, the others go
\* to the slots 1.. of the thread's own queue
Copy(t) ==
    LET h == headIndex[Community]
        n == ChunkTaken
    IN /\ pc[t] = "copy" /\ lock1[Community] = Free /\ ~isEmpty[Community]
       /\ task' = [task EXCEPT ![t] = First(Community)]
       /\ slots' = [slots EXCEPT ![t] = [i \in DOMAIN @ |->
                      IF i \in 1..(n - 1)
                      THEN slots[Community][(h + 1 + i) % Size(Community)] ELSE @[i]]]
       /\ headIndex' = [headIndex EXCEPT ![Community] = (h + n) % Size(Community), ![t] = 0]
       /\ tailIndex' = [tailIndex EXCEPT ![t] = n - 1]
       /\ lock1' = [lock1 EXCEPT ![Community] = t]
       /\ Goto(t, "ownFlag")
       /\ UNCHANGED <<isEmpty, lock2, created, done, at, todo>>

\* mutant: the own queue is not declared filled
OwnFlagLeft(t) ==
    /\ pc[t] = "ownFlag"
    /\ Goto(t, "takeFlag")
    /\ UNCHANGED <<ringVars, isEmpty, lockVars, created, done, at, task, todo>>

\* dst->is_empty, the last write to the own queue; then the community's
OwnFlag(t) ==
    /\ pc[t] = "ownFlag"
    /\ isEmpty' = [isEmpty EXCEPT ![t] = tailIndex[t] = 0]
    /\ Goto(t, "takeFlag")
    /\ UNCHANGED <<ringVars, lockVars, created, done, at, task, todo>>

-----------------------------------------------------------------------------
(* the queues of other threads, round and round until one gives a task or  *)
(* all have been seen to be empty                                          *)

Scan(t) ==
    /\ pc[t] = "scan"
    /\ \E v \in todo[t] :
         IF isEmpty[v]
         THEN todo' = [todo EXCEPT ![t] = @ \ {v}] /\ UNCHANGED <<pc, at>>
         ELSE GoAt(t, v, "steal") /\ UNCHANGED todo
    /\ UNCHANGED <<ringVars, isEmpty, lockVars, created, done, task>>

ScanMiss(t) ==
    /\ pc[t] = "scan" /\ todo[t] = {}
    /\ Leave(t)
    /\ UNCHANGED <<ringVars, isEmpty, lockVars, created, done, todo>>

Steal(t) ==
    LET q == at[t] IN
    /\ pc[t] = "steal" /\ lock1[q] = Free /\ ~isEmpty[q]
    /\ TakeHead(q)
    /\ task' = [task EXCEPT ![t] = First(q)]
    /\ lock1' = [lock1 EXCEPT ![q] = t]
    /\ todo' = [todo EXCEPT ![t] = {}]
    /\ Goto(t, "takeFlag")
    /\ UNCHANGED <<isEmpty, lock2, created, done, at>>

\* a deque's steal does not wait for the lock
StealMiss(t) ==
    /\ pc[t] = "steal"
    /\ IF lock1[at[t]] = Free THEN isEmpty[at[t]] ELSE ~Cfifo
    /\ GoAt(t, t, "scan")
    /\ UNCHANGED <<ringVars, isEmpty, lockVars, created, done, task, todo>>

Progress(t) == \/ Put(t) \/ PutFlag(t) \/ PutRefused(t)
               \/ Remove(t) \/ Get(t) \/ TakeFlag(t)
               \/ ChunkPeek(t) \/ CopyMiss(t) \/ Copy(t) \/ OwnFlag(t)
               \/ Scan(t) \/ ScanMiss(t) \/ Steal(t) \/ StealMiss(t)

Next == \E t \in Thread : Add(t) \/ Progress(t)

\* a thread in a barrier keeps asking for tasks
Spec == Init /\ [][Next]_vars /\ \A t \in Thread : WF_vars(Progress(t))

-----------------------------------------------------------------------------
(* Properties *)

Live(q) == {(headIndex[q] + i) % Size(q) : i \in 1..Used(q)}

\* omp_queue.c:332-361: a task is in one slot of one queue, in a thread's hands,
\* or out of the pool; none is lost or copied when a chunk moves.
OnePlace ==
    \A k \in 1..created :
        Cardinality({s \in Queue \X (0..(2 * NumSlots - 1)) :
                       s[2] \in Live(s[1]) /\ slots[s[1]][s[2]] = k})
        + Cardinality({t \in Thread : task[t] = k /\ pc[t] # "putFlag"})
        + (IF k \in done THEN 1 ELSE 0) = 1

-----------------------------------------------------------------------------
(* Why: the inductive invariant *)

Labels == {"idle", "put", "putFlag", "get", "takeFlag", "chunk", "copy", "ownFlag",
           "scan", "steal"}
TypeInv ==
    /\ slots = [q \in Queue |-> slots[q]]
    /\ \A q \in Queue : slots[q] \in [0..(Size(q) - 1) -> Task \cup {NoTask}]
    /\ headIndex \in [Queue -> Nat] /\ tailIndex \in [Queue -> Nat]
    /\ \A q \in Queue : headIndex[q] < Size(q) /\ tailIndex[q] < Size(q)
    /\ isEmpty \in [Queue -> BOOLEAN]
    /\ lock1 \in [Queue -> Thread \cup {Free}] /\ lock2 \in [Queue -> Thread \cup {Free}]
    /\ created \in 0..MaxTasks
    /\ pc \in [Thread -> Labels] /\ at \in [Thread -> Queue]
    /\ task \in [Thread -> 0..created]
    /\ todo \in [Thread -> SUBSET Thread]

\* Where a thread is, and with what; who writes is_empty holds the lock.
Taking == {"ownFlag", "takeFlag"}
Puts(t, q) == pc[t] = "putFlag" /\ at[t] = q
Takes(t, q) == pc[t] \in Taking /\ at[t] = q
PlaceInv ==
    \A t \in Thread :
        /\ pc[t] \in {"idle", "get", "chunk", "scan"} => at[t] = t
        /\ pc[t] \in {"put", "putFlag"} => at[t] \in {t, Community}
        /\ pc[t] \in {"copy", "ownFlag"} => at[t] = Community
        /\ task[t] = NoTask <=> pc[t] \notin {"put", "putFlag"} \cup Taking
LockInv ==
    \A t \in Thread : /\ pc[t] \in Taking => lock1[at[t]] = t
                      /\ pc[t] = "putFlag" => (IF Cfifo THEN lock2 ELSE lock1)[at[t]] = t

\* is_empty lags behind the indices only while a call that will write it is in
\* progress; a thread that looks elsewhere knows that its own queue is empty.
EmptyInv ==
    /\ \A q \in Queue :
          /\ isEmpty[q] => \/ Used(q) = 0
                           \/ \E t \in Thread : Puts(t, q) \/ (q = t /\ pc[t] = "ownFlag")
          /\ ~isEmpty[q] => Used(q) # 0 \/ \E t \in Thread : Takes(t, q)
    /\ \A t \in Thread :
          /\ pc[t] \in Taking => ~isEmpty[at[t]]
          /\ pc[t] \in {"chunk", "copy", "ownFlag", "scan", "steal"} => isEmpty[t]
          /\ pc[t] = "ownFlag" => headIndex[t] = 0
          /\ pc[t] = "putFlag" => \/ Used(at[t]) # 0
                                  \/ \E u \in Thread : Takes(u, at[t])

\* Each task is in one queue, once, in one thread's hands, or done.
Tasks(q) == {slots[q][i] : i \in Live(q)}
Holder == {t \in Thread : pc[t] \in {"put"} \cup Taking}
ShareInv ==
    /\ \A q \in Queue : /\ Tasks(q) \cap done = {}
                        /\ \A i, j \in Live(q) : slots[q][i] = slots[q][j] => i = j
    /\ \A q, r \in Queue : q # r => Tasks(q) \cap Tasks(r) = {}
    /\ \A t \in Holder : task[t] \notin done /\ \A q \in Queue : task[t] \notin Tasks(q)
    /\ \A t, u \in Holder : task[t] = task[u] => t = u
    /\ 1..created = done \cup {task[t] : t \in Holder} \cup UNION {Tasks(q) : q \in Queue}

PoolInv == TypeInv /\ PlaceInv /\ LockInv /\ EmptyInv /\ ShareInv
=============================================================================
