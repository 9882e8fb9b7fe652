------------------------------- MODULE MCQueues -------------------------------
(***************************************************************************)
(* The task queues, one of which O64_OMP_QUEUE_STORAGE and                 *)
(* O64_OMP_TASK_QUEUE choose when the program starts, and the two-level    *)
(* pool that is built from them.  The variables of the array queue are its *)
(* own; the other queues share one set.                                    *)
(***************************************************************************)
EXTENDS ArrayDequeProps

CONSTANTS
    p1,             \* the owner of a queue that has one
    Many,           \* the threads around the FIFO of fixed size and a lock-free queue
    GrowSlots,      \* slots of the array that grows and of the list, when made
    MaxItems,       \* bound: items in those
    FifoSlots,      \* slots of the FIFO with two locks: of fixed size,
    FifoGrowSlots,  \* and when it is made with storage that grows
    MaxFifoSlots,   \* bound: the slots up to which that one grows
    LockfreeSlots,  \* slots of the lock-free queue of the threads in Process,
    ManySlots,      \* and of that of the threads in Many
    MaxTail, MaxManyTail,   \* bounds: tail_index in those
    PoolSlots,      \* slots of each thread's queue in a two-level pool
    ChunkSize,      \* tasks moved at a time from its community queue
    MaxTasks        \* bound: tasks put into the pool

\* omp_thread.c:757-781: the environment variables are at least 1
ASSUME SizesAssumption == /\ GrowSlots \in Nat \ {0} /\ MaxItems \in Nat
                          /\ FifoSlots \in Nat \ {0} /\ FifoGrowSlots \in Nat \ {0}
                          /\ MaxFifoSlots \in Nat /\ FifoGrowSlots <= MaxFifoSlots
                          /\ LockfreeSlots \in Nat \ {0} /\ ManySlots \in Nat \ {0}
                          /\ PoolSlots \in Nat \ {0} /\ ChunkSize \in Nat \ {0}
                          /\ MaxTasks \in Nat
ASSUME CommunityAssumption == "community" \notin Process
ASSUME ThreadsAssumption == p1 \in Process /\ Process \subseteq Many /\ Free \notin Many
ASSUME SomeItemAssumption == Item # {}

VARIABLES kind,
    mem, next, prev, size, first, last, used, empty, l1, l2,
    at, call, given, result, stale, buffer, myHead, myTail,
    created, done, queueAt, task, todo                     \* TwoLevelPool

arrayVars == vars
memVars == <<mem, first, last, empty, at>>
growVars == <<next, prev, used>>
callVars2 == <<call, given, result>>
localVars == <<buffer, myHead, myTail>>
poolVars == <<created, done, queueAt, task, todo>>
otherVars == <<memVars, growVars, size, l1, l2, callVars2, stale, localVars, poolVars>>
queuesVars == <<kind, arrayVars, otherVars>>

Growing(storage) == INSTANCE GrowingDeque WITH
    Owner <- p1, NumSlots <- GrowSlots, Storage <- storage,
    slots <- mem, numSlots <- size, headIndex <- first, tailIndex <- last,
    usedSlots <- used, isEmpty <- empty, lock1 <- l1,
    pc <- at, op <- call, arg <- given, res <- result

\* who calls the FIFO with two locks, and who puts: one that grows has one putter
Users(grows) == IF grows THEN Process ELSE Many
Putters(grows) == IF grows THEN {p1} ELSE Process
FirstSlots(grows) == IF grows THEN FifoGrowSlots ELSE FifoSlots
Fifo(grows) == INSTANCE CFifo WITH
    Process <- Users(grows), Producer <- Putters(grows), Grows <- grows,
    NumSlots <- FirstSlots(grows), MaxSlots <- MaxFifoSlots,
    slots <- mem, numSlots <- size, headIndex <- first, tailIndex <- last,
    isEmpty <- empty, lock1 <- l1, lock2 <- l2,
    pc <- at, op <- call, arg <- given, res <- result, seen <- stale

\* who calls the lock-free queue, and its slots
LocklessUsers(many) == IF many THEN Many ELSE Process
LocklessSlots(many) == IF many THEN ManySlots ELSE LockfreeSlots
Lockless(many) == INSTANCE LocklessDeque WITH
    Process <- LocklessUsers(many), Owner <- p1, NumSlots <- LocklessSlots(many),
    MaxTail <- IF many THEN MaxManyTail ELSE MaxTail,
    slots <- mem, headIndex <- first, tailIndex <- last,
    pc <- at, op <- call, arg <- given, res <- result

Pool(fifo) == INSTANCE TwoLevelPool WITH
    Thread <- Process, Cfifo <- fifo, NumSlots <- PoolSlots,
    slots <- mem, headIndex <- first, tailIndex <- last, isEmpty <- empty,
    lock1 <- l1, lock2 <- l2, pc <- at, at <- queueAt

NoMem == mem = <<>> /\ first = 0 /\ last = 0 /\ empty = TRUE /\ at = <<>>
NoGrow == next = <<>> /\ prev = <<>> /\ used = 0
NoCall == call = <<>> /\ given = <<>> /\ result = <<>>
NoLocal == buffer = <<>> /\ myHead = <<>> /\ myTail = <<>>
NoPool == created = 0 /\ done = {} /\ queueAt = <<>> /\ task = <<>> /\ todo = <<>>
NoLocks == l1 = Free /\ l2 = Free

QueuesInit ==
    /\ Init
    /\ \/ /\ kind = "array" /\ NoMem /\ NoCall /\ NoLocks /\ size = 0 /\ stale = <<>>
          /\ NoGrow /\ NoLocal /\ NoPool
       \/ /\ kind = "dyn" /\ Growing("dyn")!Init /\ l2 = Free /\ stale = <<>>
          /\ NoLocal /\ NoPool
       \/ /\ kind = "list" /\ Growing("list")!Init /\ l2 = Free /\ stale = <<>>
          /\ NoLocal /\ NoPool
       \/ /\ kind = "cfifo" /\ Fifo(FALSE)!Init
          /\ NoGrow /\ NoLocal /\ NoPool
       \/ /\ kind = "cfifoDyn" /\ Fifo(TRUE)!Init
          /\ NoGrow /\ NoLocal /\ NoPool
       \/ /\ kind = "lockless" /\ Lockless(FALSE)!Init /\ NoLocks /\ empty = TRUE /\ size = 0
          /\ stale = <<>> /\ NoGrow /\ NoPool
       \/ /\ kind = "locklessMany" /\ Lockless(TRUE)!Init /\ NoLocks /\ empty = TRUE /\ size = 0
          /\ stale = <<>> /\ NoGrow /\ NoPool
       \/ /\ kind = "pool" /\ Pool(FALSE)!Init /\ NoGrow /\ NoCall /\ NoLocal
          /\ size = 0 /\ stale = <<>>
       \/ /\ kind = "poolCfifo" /\ Pool(TRUE)!Init /\ NoGrow /\ NoCall /\ NoLocal
          /\ size = 0 /\ stale = <<>>

Chosen(k, A) == kind = k /\ A /\ UNCHANGED kind

RunGrowing(storage) ==
    /\ Chosen(storage, Growing(storage)!Next)
    /\ UNCHANGED <<arrayVars, l2, stale, localVars, poolVars>>
RunTwoLocks(k, grows) ==
    /\ Chosen(k, Fifo(grows)!Next)
    /\ UNCHANGED <<arrayVars, growVars, localVars, poolVars>>
RunLockless(k, many) ==
    /\ Chosen(k, Lockless(many)!Next)
    /\ UNCHANGED <<arrayVars, growVars, size, empty, l1, l2, stale, poolVars>>
PoolKeeps == UNCHANGED <<kind, arrayVars, growVars, size, callVars2, stale, localVars>>
RunPool(k, fifo) == kind = k /\ Pool(fifo)!Next /\ PoolKeeps

QueuesNext ==
    \/ Chosen("array", Next) /\ UNCHANGED otherVars
    \/ RunGrowing("dyn") \/ RunGrowing("list")
    \/ RunTwoLocks("cfifo", FALSE) \/ RunTwoLocks("cfifoDyn", TRUE)
    \/ RunLockless("lockless", FALSE) \/ RunLockless("locklessMany", TRUE)
    \/ RunPool("pool", FALSE) \/ RunPool("poolCfifo", TRUE)

PoolProgress(t) ==
    /\ \/ kind = "pool" /\ Pool(FALSE)!Progress(t)
       \/ kind = "poolCfifo" /\ Pool(TRUE)!Progress(t)
    /\ PoolKeeps

\* a thread in a barrier keeps asking the pool for tasks
QueuesSpec == /\ QueuesInit /\ [][QueuesNext]_queuesVars
              /\ \A t \in Process : WF_queuesVars(PoolProgress(t))

-----------------------------------------------------------------------------
(* Properties; IInv, NoOverflow and ImplementsDeque of the array are those *)
(* of ArrayDequeProps                                                      *)

\* omp_queue.c:918, 953: the list is linked in both directions where it is used.
LinkedBothWays == kind = "list" => Growing("list")!LinkedBothWays

\* omp_queue.c:403-1091: so are the others.  The growing array and the list never
\* refuse; the FIFO with two locks is a queue for any putters when its size is
\* fixed, for one when it grows; the lock-free one for its owner and thieves.
GrowingImplementDeque ==
    /\ kind = "dyn" => Growing("dyn")!Deque!Init
    /\ kind = "list" => Growing("list")!Deque!Init
    /\ [][/\ kind = "dyn" => Growing("dyn")!DequeStep
          /\ kind = "list" => Growing("list")!DequeStep]_queuesVars
FifosImplementDeque ==
    /\ kind = "cfifo" => Fifo(FALSE)!Deque!Init
    /\ kind = "cfifoDyn" => Fifo(TRUE)!Deque!Init
    /\ [][/\ kind = "cfifo" => Fifo(FALSE)!DequeStep
          /\ kind = "cfifoDyn" => Fifo(TRUE)!DequeStep]_queuesVars
LocklessImplementDeque ==
    /\ kind = "lockless" => Lockless(FALSE)!Deque!Init
    /\ kind = "locklessMany" => Lockless(TRUE)!Deque!Init
    /\ [][/\ kind = "lockless" => Lockless(FALSE)!DequeStep
          /\ kind = "locklessMany" => Lockless(TRUE)!DequeStep]_queuesVars
OthersImplementDeque ==
    GrowingImplementDeque /\ FifosImplementDeque /\ LocklessImplementDeque

\* omp_queue.c:332-361: a task is in one place while chunks move between queues.
OnePlace == /\ kind = "pool" => Pool(FALSE)!OnePlace
            /\ kind = "poolCfifo" => Pool(TRUE)!OnePlace

\* omp_task_pool_simple_2level.c:177-239: every task put into the pool is taken out,
\* whichever queue it went to: sooner or later all those created so far are done.
NoneForgotten == (kind \in {"pool", "poolCfifo"}) ~> (1..created \subseteq done)
=============================================================================
