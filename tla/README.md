# A verification project for the OpenUH runtime libraries

OpenUH is a branch of the Open64 compiler suite for C, C++ and Fortran. Most of
the tree is a compiler: sequential passes over WHIRL trees. The part whose
correctness depends on orders of events nobody can test is the run-time systems
the compiled programs are linked with: the OpenMP runtime `osprey/libopenmp`
(12 700 lines of C), above all, and the synchronisation of coarray programs in
`osprey/libcaf`. This directory holds TLA+ models of them, the TLC configurations
that check them on small instances, and proofs that TLAPS checks for every value
of the constants.

## 1. Inventory

### 1.1 The OpenMP runtime, `osprey/libopenmp`

| component | files | state | operations |
|---|---|---|---|
| explicit tasks | `omp_task.c/.h` | `omp_task_t`: state, flags, parent, `num_children`, `num_blocking_children`, depths; per thread `__omp_current_task`, `num_suspended_tied_tasks` | create, switch, wait, exit, cut-off |
| default task pool | `omp_task_pool.c/.h` | two queues per thread (tied, untied), `num_pending_tasks` | create, expand, add, remove (get or steal), destroy |
| task queues | `omp_queue.c/.h` | ring of slots, indices, `used_slots`, `is_empty`, two locks | put, get, steal at both ends, chunk transfer; array, CFIFO, growing array, list, lock-free |
| team barrier | `omp_thread.h` | `barrier_count`, `barrier_count2`, `barrier_flag`, `barrier_lock/cond` | `__ompc_barrier_wait` |
| alternative barriers | `omp_xbarrier.c/.h` | per-round flags, parity, sense, tree nodes, `champion_sense` | create, re-initialise, wait, destroy |
| fork and join | `omp_thread.c`, `omp_rtl.h` | `__omp_level_1_team`, team size, `new_task`, `entry_func`, exit counts, execution mode | init, fork, expand, slave loop, region-end barrier, nested teams |
| worksharing | `omp_runtime.c` | team's loop bounds, `loop_count`, `schedule_count`, `ordered_count`, `single_count` | static/dynamic/guided/ordered schedules, ordered, single, copyprivate, threadprivate |
| locks | `omp_lock.c/.h` | mutexes, owner and count of nestable locks, lazily created critical locks | lock, unlock, test, nest, critical, reduction |
| alternative pools | `other_taskpools/` | public/private and two-level queues | as the default pool |
| user API, environment, collector | `omp_lib.c`, `omp_util.c`, `omp_collector_*` | parameters, counters for tools | getters, setters, callbacks |

How they interact. `__ompc_fork` starts a team: it sets every slave's
`entry_func` and bumps `new_task`; each thread runs the outlined region as its
implicit task and ends it in `__ompc_level_1_barrier`. In the region a thread
calls `__ompc_task_create`, which puts a task in the thread's own queue or, when
the queue is full, runs it at once. Whoever waits (taskwait, the end of a task
with children on its stack, every barrier) calls
`__ompc_remove_task_from_pool` and runs what it gets on top of the waiting
task, so a thread's call stack is a stack of suspended tasks. Barriers look at
`num_pending_tasks` of the pool; the pool's `remove` looks at the state of the
current task and at the thread's count of suspended tied tasks. Everything is
shared memory; there are no messages.

### 1.2 The coarray runtime, `osprey/libcaf`

A PGAS runtime: images (processes) exchange data by one-sided put and get and
by remote atomic operations over GASNet, ARMCI or shared memory.

| component | files | state | operations |
|---|---|---|---|
| coarray lock | `lock.c` | lock variable (the tail of a queue), one request per waiting image: locked, next, done | LOCK, UNLOCK, CRITICAL, with and without STAT= and ACQUIRED_LOCK= |
| team barriers | `gasnet/gasnet_comm_layer.c`, `team.c` | per team: round flags with parity, `intranode_barflags` of the node | SYNC TEAM, SYNC ALL in a team: dissemination, two levels with flags or with a counter |
| SYNC IMAGES | `gasnet/gasnet_comm_layer.c` | per pair: a count, a ping and a pong, a char, or two senses | the four algorithms of `SYNC_IMAGES_ALGORITHM` |
| memory, teams, collectives | `alloc.c`, `team.c`, `collectives.c`, `caf_rtl.c` | symmetric heap, shared heap, team stack | ALLOCATE, FORM TEAM, reductions, broadcast, events |

Images share nothing but what they write into each other's memory; such a
write, and an active message, is under way until it lands. An image may stop
(end its program); the others learn of it by a flag they poll, in barriers and in
SYNC IMAGES, and get STAT_STOPPED_IMAGE.

### 1.3 Everything else

The front ends (`wgen`, `crayf90`, `kg*fe`, `osprey-gcc-4.2.0`), the middle and
back ends (`be`, `ipa`), the driver, the Fortran, math, ELF and DWARF
libraries, and `libopenacc*` (a host-side driver of a device library) are
sequential code. They are listed in `PROJECT.json` and not modelled.

### 1.4 What is hard

* *Interleaving of racy reads with atomic updates.* Counters are updated by
  atomic instructions but read, and the result used, one or more steps later
  (`omp_task.c:201`, `235-246`, `304`; `omp_thread.h:351`).
* *Lifetime.* A task is freed by itself, by its last child, by the barrier, or
  by its creator's return, on the strength of such reads.
* *Scheduling on a stack.* A waiting task can continue only when everything
  above it on its stack is done; what may be put there is the whole question of
  the tied-task constraint, and of progress.
* *Reuse.* Barriers, flags and counters are reset while other threads are still
  on their way out.
* *Tests of a flag outside the lock that guards it* (`is_empty` of a queue).
* *Resizing* teams between regions while barrier state survives.
* *No lock at all*: the lock-free queue relies on which store of its owner another
  processor sees first; the coarray lock on which remote write lands first.
* *Images that stop* while others wait for them, give up, and execute the same
  statement again with what the first attempt left behind.

The complete list, with lines, is `hazards` in `PROJECT.json`.

### 1.5 What makes each component correct

* tasks and pool: no task is lost or run twice; a wait ends only when the
  tasks it waits for are over, and it does end; a parent's frame and object
  outlive every use by its children; tied tasks keep the scheduling constraint;
* team barrier: nobody leaves before everybody has arrived and every task
  spawned so far is finished;
* queues: each call is atomic, whatever is read without the lock;
* alternative barriers: the same barrier as the default one, for any team size
  and across team resizes;
* fork/join: every member of the team runs the region once, the master returns
  last, wake-ups are not lost;
* worksharing: each iteration is executed once, ordered bodies in order, one
  thread executes each single;
* locks: mutual exclusion and correct nesting counts; for the coarray lock also
  that no remote write lands in memory that was freed, that requests are served
  in order, and that everybody who waits is served;
* pools: no task is forgotten in a queue nobody looks at;
* coarray barriers and SYNC IMAGES: nobody goes on before those it waits for have
  come, however many statements the flags are used for, and the only one who may
  wait for ever waits for an image that has stopped.

## 2. Plan

The order is that of importance to a compiled program: what every OpenMP
program relies on comes first.

| step | modules | status |
|---|---|---|
| 1. tasks, pool, draining barriers | `TaskRegion` (abstract), `TaskRuntime`, `TaskRuntimeProps`, `TaskRuntimeProofs`, `MCTaskRuntime` | modelled, checked, safety proved |
| 2. the array task queue | `WorkDeque` (abstract), `ArrayDeque`, `ArrayDequeProps`, `QueuesProofs` | modelled, checked, proved |
| 3. alternative barriers | `TeamBarrier` (abstract), `XBarrier`, `SimpleBarrier`, `DissemBarrier`, `TourBarrier`, `TreeBarrier`, `MCBarriers`, `BarrierProofs` | modelled, checked, safety proved |
| 4. worksharing | `Worksharing`, `WorksharingProps`, `MCWorksharing`, `WorksharingProofs` | modelled, checked, safety proved |
| 5. fork, join, slaves | `ParallelRegion` (abstract), `ForkJoin`, `ForkJoinProps`, `MCForkJoin`, `ForkJoinProofs` | modelled, checked, safety proved |
| 6. locks | `ReentrantLock` (abstract), `NestLock`, `NestLockProps`, `CriticalLock`, `MCLocks`, `LocksProofs` | modelled, checked, proved |
| 7. other queues | `WorkDeque` (abstract), `GrowingDeque`, `CFifo`, `LocklessDeque`, `MCQueues`, `GrowingProofs`, `QueuesProofs` | modelled, checked, proved |
| 8. other pools, nested teams | `TwoLevelPool`, `MCQueues`, `QueuesProofs`; `NestedTeams`, `MCForkJoin` | the two-level pool and nested teams modelled, checked, the places of the pool's tasks proved |
| 9. coarray lock | `Images`, `CoarrayLock`, `CoarrayLockProps`, `MCLocks`, `LocksProofs` | modelled, checked, safety proved |
| 10. coarray barriers, SYNC IMAGES | `CoarrayBarrier`, `PairSync` (abstract), `SyncImages`, `SyncImagesProofs`, `MCBarriers` | modelled, checked, the matching of SYNC IMAGES proved |
| 11. coarray collectives and events, the other two pools | | later |

How the modules compose. `TaskRuntime` takes a queue operation as one step;
`ArrayDeque` implements `WorkDeque`, which is what allows it. `Worksharing` takes
a barrier as the one `TeamBarrier` describes, and the four algorithms implement
`TeamBarrier`, as do the barriers of a coarray team. `TwoLevelPool` takes a queue
operation in two steps, the second of which writes `is_empty` and unlocks: what
the chunk transfers rely on lies between the two. `ForkJoin` leaves a region's
explicit tasks to `TaskRuntime`, and `TaskRuntime` has one region whose threads
are in the team already. Where a program chooses one of several
implementations when it starts (`O64_OMP_XBARRIER_TYPE`, `O64_OMP_TASK_QUEUE`,
`O64_OMP_QUEUE_STORAGE`, `TEAM_BARRIER_ALGORITHM`, the communication layer), an MC
module holds them all and a variable says which one runs; the others' variables
stay at a value of no meaning.

Theorems in the order in which they are worth proving: the queue (done), fork
and join (done), the locks (done), SYNC IMAGES (done), tasks, pool and the two
draining barriers (done), `TiedScheduling` for programs of tied tasks (done), where
the remote writes of the coarray lock land (done), the four barrier algorithms
(done), loops and singles (done), the links of the list queue and the places of
the tasks in the two-level pool (done); what is left is the barriers of a coarray
team and the refinement by the queues other than the array.

## 3. The modules

### 3.1 Tasks: `TaskRuntime`, `TaskRegion`

One parallel region. A thread is a stack of tasks, its implicit task at the
bottom, and `pc` says where each task's code is. `numChildren`, `numBlocking`,
`siblings`, `state`, `sdepth` and `mem` are fields and lifetime of `omp_task_t`;
`suspended` is `num_suspended_tied_tasks`; `tiedQ` and `untiedQ` are the two queues
of a thread; `numPending`, `barrierCount`, `barrierCount2`, `barrierFlag` and
`exitCount` are the counters of the same names.

| actions | code |
|---|---|
| `CreateDeferred`, `Put`, `PutFull` | `__ompc_task_create` with `may_delay`: counters first, then the queue, or at once if it is full |
| `CreateImmediate` | the undeferred task, whose object is in the creator's frame |
| `Wait`, `WaitTest`, `WaitTake`, `WaitMiss` | `__ompc_task_wait`: test, take a task and run it on top, or find none |
| `Exit`, `ExitDec`, `ExitCheck`, `ExitBlock`, `ExitTake`, `ExitMiss` | `__ompc_task_exit`: four shared updates and reads in the order of the code |
| `ReturnDelete`, `ReturnKeep`, `MarkFinished` | the end of `__ompc_task_switch`: who deletes the task |
| `BarrierArrive` .. `BarrierLeave` | `__ompc_barrier_wait`, its two counters and its flag |
| `EndArrive`, `EndPass`, `MasterJoin` | `__ompc_level_1_barrier` |

Each atomic update and each read that can race is a step of its own. The
bodies of tasks are the most general program: any task may create, wait and end
at any time (bounds `MaxTasks`, `NumBarriers`), a thread reaches its barriers only
from its implicit task. `Removable` is the scan of
`__ompc_remove_task_from_pool_default`; its order over victims is left open.
`TaskRegion` says what a program is promised: a barrier releases the team only
when every thread is there and every task spawned so far is finished.
`TaskRuntimeProps` states the properties and the inductive invariant.

### 3.2 Queues: `WorkDeque`, `ArrayDeque` and the others

`ArrayDeque`, the default: six operations (put, get and steal at either end) on a
ring of `NumSlots` slots: the test of `is_empty` without the lock, the lock
(`trylock` for a steal, which may give up), the test under the lock, the move of a
slot and an index, the update of `is_empty`, the unlock. `WorkDeque` is a sequence
of at most `NumSlots - 1` items whose calls take effect in one step; a get may find
it empty only when it is, a steal may fail at any time.

`GrowingDeque` is the two queues that grow: the array that is reallocated with
twice the slots and unrolled (`GrowArray`), and the list of slots that come in
blocks, linked in both directions, NULL standing for the neighbour in memory
(`GrowList`). `CFifo` is the FIFO with a lock for each end, whose put and get run
at once; the fixed ring, and the one that grows. `LocklessDeque` is the queue
without locks: each load is a step, the owner's stores go through a store buffer
(`Drain`) that `Fence` waits for, and thieves claim with `Swap`. Its promise is
`StealSpec` of `WorkDeque`, in which a steal may also give up when a put has just
returned. What the owner reads back of its own stores is `OwnTail` and `OwnSlot`.
Each module says at its end where the abstract content is during a call (`Content`)
and what a call in progress has done (`Phase`).

### 3.3 The two-level pool: `TwoLevelPool`

A queue per thread and one for the community
(`omp_task_pool_simple_2level.c`). `Put` and `PutRefused` add a task, to the own
queue or, when that is full, to the community, in both at the tail: with this pool a
donation is a put (`omp_thread.c:842-843`); `Get`, `ChunkPeek`, `Copy`, `Scan`
and `Steal` are the search of a thread for a task, with the chunk that moves
from the community's queue into the thread's own, whose locks the transfer does
not take. `PutFlag`, `TakeFlag` and `OwnFlag` write `is_empty`, with which a call ends.

### 3.4 Barriers: `XBarrier` and the four algorithms, `TeamBarrier`

`XBarrier` holds what the algorithms share: the team's size, the local senses,
and what a fork does to them: `Fork` with a num_threads clause, without one, and
`SetNumThreads`, each rebuilding what the code rebuilds. `SimpleBarrier` is the
counter and flag under a mutex, `DissemBarrier` the dissemination barrier with
two parities of flags, `TourBarrier` the tournament with its champion,
`TreeBarrier` the tree of four children a node. One read or write of a shared
flag is one step. `NeverStale` and `OneSize` say of a program which sizes its
regions ask for, and each algorithm's module ends with its inductive invariant.
`TeamBarrier` is the abstract barrier: nobody leaves its k-th barrier of a region
before everybody has entered it, and everybody leaves.

### 3.5 Coarray barriers and SYNC IMAGES: `CoarrayBarrier`, `SyncImages`, `PairSync`

`CoarrayBarrier` is SYNC TEAM, and SYNC ALL inside a team, with `Node` saying who
shares memory: with a node for each image it is the dissemination barrier, and
otherwise one of the two barriers of two levels, in which the leader gathers its
node (`Gather`: a flag per image, or with `Counting` one counter), takes part in the
leaders' dissemination (`Signal`, `Spin`) and releases the node (`Release`). `Stop` ends
an image between barriers; `GiveUp` is the return with STAT_STOPPED_IMAGE of an
image that waits for it, which may then execute the statement again with the
flags as they are. It implements `TeamBarrier`, liveness included: `Stranded` is
the stuttering of what is left when images wait for a stopped one, so that TLC
reports every other standstill as a deadlock.

`SyncImages` is SYNC IMAGES, an image that signals its list and takes one signal
from each. What a signal is depends on `Algorithm`: a count an active message
increments, a ping that is answered with a pong, a char that is counted up and
taken by compare-and-swap, or a sense. Messages and remote writes are in `net`
until `Land`. The abstract `PairSync` says what the statement promises: an image
passes its k-th statement that names another only when the other has named it k
times.

### 3.6 Worksharing: `Worksharing`, `WorksharingProps`

A team runs a program, a sequence of loops and singles, and a second team runs
another with what the first left in `omp_team_t` and in the threads, since the
runtime resets nothing in between. Loops have bounds, step, chunk and one of
the schedules, ordered or not, collapsed or not. An action is one critical
section of `schedule_lock`, `single_lock` or `ordered_mutex`, one atomic update, or
one read outside of them. `ran` and `again` record what was executed once and
more than once; no action reads them.

`ProgramAssumption` says what the compiler generates and a legal program contains:
an increment is not zero, a chunk size is positive, ordered and collapsed loops go
to the runtime's scheduler, and a collapsed one counts from 0. Apart from that a
program is any sequence. `WorksharingProps` holds the properties, what a program
must be like to survive (`OneTeam`, `OneLoopAtATime`), and the inductive invariant.

### 3.7 Fork and join: `ForkJoin`, `ParallelRegion`

The master's actions are the steps of `__ompc_fork` (`Fork`, `SetSize`, `Assign`,
`Start`), of `__ompc_expand_level_1_team` (`Realloc`, `Refresh`, `AwaitThreads`) and of
its half of `__ompc_level_1_barrier` (`Arrive`, `Meet`, `Leave`, `SleepJoin`, `Join`,
`ResetExit`, `ResetBarrier`); a slave's are those of `__ompc_level_1_slave` (`Create`,
`Created`, `Sleep`, `SeeTask`, `Attach`, `ReadEntry`, `Body`, `Clear`, `Rest`) and its
half of the barrier. A slave reads `new_task` once to see a change and again to
remember it, and its `entry_func` after that, so a slave of no team may come late
from a region that is over, or early into one that is being assigned.
`Spurious` is the return of `pthread_cond_wait` without a signal. `freed` says that
`__omp_level_1_team` points to memory `aligned_realloc` has freed.
`ParallelRegion` promises that every member of a team executes the region's body
once, that nobody else does, and that the master goes on when all have.

`NestedTeams` is the fork inside a region: level-1 threads build teams on their
stacks, each creates its slaves and waits for all of them to leave; they share
the count of threads that may still be made (`ReadBudget` and `WriteBudget`, two steps
because the code has no lock there). A nested team implements `ParallelRegion` as
the level-1 team does, and its last slave alone, on its way to signal, may still
touch the team when the master frees it (`OthersGone`).

### 3.8 Locks: `NestLock`, `ReentrantLock`, `CriticalLock`, `CoarrayLock`

`NestLock` is the nestable lock of `__ompc_nest_lock`, `__ompc_nest_unlock` and
`__ompc_test_nest_lock` with its two mutexes, `wait` held for as long as
the lock is owned and `lock` around the thread id and the count; a new attempt
tests the two without `lock`. `__ompc_nest_lock_s`, which nothing in the repository
calls, is not this lock and has no model (section 8). `NestLock` implements `ReentrantLock`: at most one owner, who may
take it again. `CriticalLock` is the lock of a critical construct, created by the first
thread that comes to it. The plain locks are a pthread call each and have no
model.

`CoarrayLock` is the lock variable of a coarray program on each of the three
communication layers (`layer`). The requests form a queue whose tail is the
variable: `Enqueue` swaps oneself in, `Link` writes one's name into the
predecessor's request word by word, `PassOn` grants the lock by a remote write. With
GASNET `Release` is a compare-and-swap; with SHMEM and ARMCI it is two
fetch-and-stores (`TakeOut`, `PutBack`), between which others may usurp the lock.
`TryLock` is the form with ACQUIRED_LOCK=. LOCK by the holder and UNLOCK by another
image return an error and change nothing. `CoarrayLockProps` adds a history the code
does not have, `ahead`: for each image, the images that swapped themselves into the
lock variable before it and have not unlocked since. `InOrder` says what the queue
is for, that with compare-and-swap nobody owns the lock, or is being granted it, while
somebody is ahead of it. Without compare-and-swap usurpers overtake, and only progress
is promised.

## 4. The runs

| run | question | instance |
|---|---|---|
| `TaskTied` | are the counters exact, is no task lost, are tied tasks scheduled as they must be, do frames outlive their children, is a taskwait complete, is a barrier? | 2 threads, 3 tasks, 2 slots, 1 barrier, tied tasks with and without `OMP_TASK_BLOCKS_PARENT` |
| `TaskLive` | does every wait end, with every kind of task? | 2 threads, 2 tasks, 1 slot, 1 barrier, FIFO queues |
| `Queues` | does each task queue behave as an atomic deque, and is no task lost or forgotten in the two-level pool? | the array: 2 processes, 2 items, 3 slots, any of the six calls; list and growing array: 2 processes, 3 items, from 1 slot; FIFO: 3 processes, two of which put, 3 slots; growing FIFO: 2 processes, one puts; lock-free: owner and thief with 3 slots, owner and two thieves with 2; pool: 2 threads, 4 tasks, queues of 2 slots, chunks of 3 |
| `Barriers` | is each algorithm a barrier, across resizes? are the coarray barriers, with images that stop, and does SYNC IMAGES match the right statements? | teams of 1 to 6, two barriers a region; coarray teams of 2 to 4 images, four barriers, one image that stops; SYNC IMAGES with 2 or 3 images and 2 to 4 statements each |
| `Loops` | is each iteration executed once, in time, in order, and is copyprivate right? | teams of 1 and 3, 13 first and 3 second programs |
| `ForkJoin` | does nobody sleep through a wake-up, are the counters reset in time, is each region executed once by its team, nested or not? | 4 regions, teams of 1 to 3; two threads that fork nested regions of 1 to 3 at once, one of them twice |
| `Locks` | who owns a lock, what may a nested attempt rely on, where do remote writes land, is everybody served? | each lock with 3 threads or images, nesting to depth 2 |
| `TaskImplicitFree`, `TaskStaleSiblings`, `TourStaleChampion`, `LoopStaleInit`, `ForkExpand` | one finding each, section 7 | the smallest instance that shows it |

Why the bounds are enough for what they show.

* `TaskTied`: three tasks are a chain of parent, child and grandchild or three
  siblings, the least that puts two suspended tasks below a third and lets a
  steal race with a put; two threads are owner and thief; two slots make the
  third put fail. One barrier and the region's end are a barrier that is reused.
* `TaskLive`: all eight kinds of tasks, with a queue that is full at the second
  put. Liveness is checked on a smaller instance because of its cost; the other
  order of the queue (`O64_OMP_TASK_QUEUE`) is checked here.
* `Queues`: three slots are at most two items, so the ring wraps, fills and
  empties; the theorems of section 6 lift the bound for the default queue. The
  growing queues grow twice (1, 2, 4 slots) and do so while they are wrapped
  around; `LockfreeSlots` of 3 and `MaxTail` of 4 make the lock-free queue wrap, and its
  smaller instance (`ManySlots` 2, `MaxManyTail` 2) lets two thieves race for the last item. The pools' queues of
  two slots hold one task, so the community gets the rest and a chunk is cut
  short. By hand: the lock-free queue with 3 processes, 3 slots and `MaxTail` 4 (2.0
  million states), the pools with 3 slots and 6 tasks (1.0 and 0.28 million).
* `Barriers`: six threads give the tree two levels and an inner node with fewer
  than four children, and the tournament a bye; two barriers a region use both
  parities and both senses. Each algorithm gets the forks it survives: SIMPLE all
  of them; DISSEM explicit sizes of two and more (a region of one has NULL rows,
  and a barrier in it dereferences them); TOUR one size, or one that grows before
  the first region; TREE explicit sizes. What they do not survive is a finding or
  a hazard, never hidden by a guard. These are programs of `Survives`, the
  hypothesis of the theorems in `BarrierProofs`, which hold for any sizes and
  counts. Of the coarray teams, four images are two rounds of dissemination and,
  with three on one node, a leader with two followers next to a leader alone; four barriers use each parity and each sense
  twice, so what an aborted attempt leaves is met again. By hand: 5 images, 3
  leaders, 5 barriers and two that stop (79,709 and 31,624 states with counter and
  flags), the dissemination with 4 images, 5 barriers and two that stop (16,085).
  `Chars` of 4 makes the char of SYNC IMAGES wrap; with three images all of which
  call, two statements each, all four algorithms hold too (155,000 to 368,000
  states, by hand).
* `Loops`: three threads have a first, a middle and a last; the programs hold
  every schedule in its plain, ordered and collapsed form, upwards, downwards
  and empty, with a last chunk that is cut short. Of the empty ones, `Narrow` has
  bounds whose distance is less than the increment, so that C's division, which
  rounds towards zero, counts one trip for it. The second region tests what
  the first leaves: a dynamic ordered loop, a static collapsed one, a copyprivate.
  The programs satisfy `Survives`, the hypothesis of the theorems, and `IInv` holds on
  this instance too (171,587 states, by hand).
* `ForkJoin`: the initial team of two grows to three before the first region,
  and then shrinks and regrows, which makes a slave miss a region, come late
  from it, or be early in the next. The theorems lift the bounds. The nested
  regions of one thread end and begin while the other's runs, with and without
  num_threads, and the threads that may be created suffice (they need not:
  hazard `omp_thread.c:1874`).
* `Locks`: three images are a holder, a victim and a usurper; with four (1.1
  million states, by hand) nothing changes. The theorems lift the bound for
  ownership; order and progress are checked for three.

Deadlock is checked in every run.

## 5. Fairness

* `TaskRuntime` (`FairSpec`): weak fairness of each thread's program (bodies end)
  and of its runtime steps; strong fairness of taking a task, because a thread
  that keeps scanning the queues gets one that is there again and again, though
  a single steal can miss (`trylock`, `is_empty`). The operating system runs each
  thread, and the scan visits every victim.
* Barriers: weak fairness of a thread's steps inside a barrier only: nothing
  makes a thread arrive, and nothing makes the master fork.
* `Worksharing`: weak fairness of each thread's steps inside a region: user code
  in an iteration ends.
* `ForkJoin`: weak fairness of the master inside `__ompc_fork` and of each slave;
  none of `Fork` (the program need not fork again) and none of `Spurious`. Nested
  teams: weak fairness of every thread.
* Two-level pool: weak fairness of a thread in a barrier, which asks again.
* Coarray barriers and SYNC IMAGES: an image inside a statement keeps running, and
  what is on its way lands (GASNet's progress threads and polling); nothing makes
  an image start a statement.
* `CoarrayLock`: an image in LOCK or UNLOCK keeps running, remote writes land, and
  the program unlocks what it locked. No strong fairness: with fetch-and-store
  usurpers may overtake the same victim for ever, so there only `NoneStuck` is
  claimed, and with compare-and-swap `Granting` needs no more.

## 6. What is proved

All theorems are about every value of the constants, under the named
assumptions of the modules and, where one is named, a hypothesis of the theorem.
None of the modules with a theorem reaches a recursive operator.

**`TaskRuntimeProofs`**, from `TeamAssumption` (the team is
finite and has a master), `BoundAssumption` (the bounds are numbers, no thread is
called like a task), `KindAssumption` and `EndAssumption` (a queue is served at one of its
ends, whichever). They hold for every team, every number of tasks and barriers,
every capacity and order of the queues and every mix of tied, untied, blocking and
undeferred tasks.

* `Invariant`: `IInv` (in `TaskRuntimeProps`) is inductive. the module proves
  first its first part, `PlaceInv`: a call stack holds the thread's implicit task and tasks
  that have started, each task below the top stands where the code runs another
  task (`StackInv`); a queued task is in the one queue of its kind, once (`QueueInv`); a
  task that is created and not yet put is known to its creator alone, which is
  about to put it (`FreshInv`, what makes `Fresh` the task of the C code's local
  variable); a creator has started (`ParentInv`). Nothing else of the proof can be
  said without it: what a step does to "the current task" is known only once that
  task is in no other place.
* The second part is what the places are worth: the three counters (`CountersExact`,
  with `FrameInv`: who has returned has no blocking child left, which keeps a
  parent's decrement from going below zero), `num_suspended_tied_tasks` against the
  call stack (`SuspendInv`), depths (`DepthInv`, for the bound in `TypeOK`), and who can
  be below an undeferred task (`CreatorInv`, why an undeferred task never finds its
  creator suspended at a barrier).
* The third part is the barriers, which share `barrier_count`. `PhaseInv` and
  `StepInv` say that all threads have had the same number of barriers opened to
  them, however slow some are to leave; `DrainInv` that once a thread has passed the
  test, all are there and nothing is pending, although waiting threads could still be
  running tasks that create others: whatever runs at a barrier is pending itself
  (lemma `Running`), so when nothing is pending nothing runs; `TurnInv` ties the three
  counts to who is where, with the short stretch in which the last thread has reset
  them and not yet turned the flag.
* `TypeCorrect`, `CountersAreExact`, `InOnePlace`, `FramesStay` and `TaskwaitWaits` (an action
  property: the step that ends a taskwait) follow from it.
* `Refinement`: `TaskRuntime` implements `TaskRegion`. A barrier is released when the
  first thread passes its test (`Released`), and a task is finished with the
  decrement of `num_pending_tasks`.

* `TiedTasks` (`TiedScheduling`), under the hypothesis `AllTied` (every kind of task
  the program creates is tied), which the run `TaskTied` satisfies: what a thread
  runs above a suspended tied task that is not at a barrier descends from it. The
  code tests only how many tasks are suspended, and only before it steals; the
  rest is carried by the order of the queue. `ChildrenInv`: the queued children of a
  task on a thread's stack are in that thread's queue. `SuffixInv`: in a queue, what
  descends from such a task is behind all that does not. `StolenInv`: when a thief
  has a child of it, nothing older is left in front, because thieves take from the
  head. So whoever waits for its children and finds its queue not empty finds a
  descendant at the tail (`TakeInv`).
* The hypothesis is needed: a thread may take an untied task above any suspended
  task, and the tied children of the untied one are then put into, and taken from,
  that thread's queue (section 7).

**`GrowingProofs`** and **`QueuesProofs`**, which extends it, from `SlotsAssumption` (one slot at
least; with one, the queue is always full), `ItemAssumption`, `ProcessAssumption` and
`CommunityAssumption` (NULL is no item, "free" and "community" no process), and
`SizesAssumption` of `MCQueues` (queues and chunks of one slot at least, bounds that are numbers; any sizes, any
number of threads and of tasks). For the FIFO with two locks also `ThreadsAssumption` (who
puts is one of the threads) and `SomeItemAssumption` (there is something to put); these
are also all that is asked of the threads of the queue without locks, whose theorem holds
for every bound of its indices.

* `Invariance`: `IInv` is inductive. Its parts: `LockInv` (exactly the holder is in
  the critical section) makes all others hold across the steps of a second
  process; `RingInv` (the indices are `used_slots` apart) says what an index is
  worth; `EmptyInv` (`is_empty` is exact except between the two updates of its
  holder) carries the test made without the lock; `ChecksInv` and `MovedInv` carry
  what was tested and moved to the step that publishes it.
* `Assertions`: the four "queue overflow" assertions hold.
* `Refinement`: the ring implements `WorkDeque`. A call takes effect when it
  writes `is_empty`, not when it moves the index: until then a get outside the lock
  is answered from the old flag. The abstract content is therefore the ring
  before the move while the holder is about to write the flag. The arithmetic of
  the ring without `%` is in the lemmas `RingOffset`, `SuccValue`, `PredValue`,
  `RingMoves`.

* `ListLinks` (`LinkedBothWays`): the list of slots stays linked in both directions
  wherever the queue lies in it and however often it grows. A link that is NULL stands
  for the neighbour in memory, and the code writes and tests one of the two directions
  at a time; `LinkInv` says that the two are NULL together or lead back to each other.
  What growing does depends on where: it is right because a full queue has its head
  next to its tail, which needs `RingInv`: the slots are *one* ring, and the tail is
  `used_slots` after the head in it. That the ring is one is a bijection from
  `0..(num_slots - 1)`, which growth at the tail, or at the head, extends by the new block
  (`ListGrown`). `HolderInv` keeps what was tested under the lock until it is used.
* `TasksInOnePlace` (`OnePlace`): `ShareInv` divides the tasks created into those done, those
  in hand and those in the slots of each queue. What keeps it is that no call overwrites
  a slot in use or reads one that is not: a chunk is copied to the thread's own
  queue, whose lock the transfer does not take, only while that queue is empty and
  nobody else puts into it. The thread knows that from the flag alone, so `EmptyInv` says what
  the flag is worth: it is set although tasks are there, or cleared although none
  are, only as long as a call that will write it is in progress; and only the owner puts (`PlaceInv`), which is why its queue is
  still empty when the chunk arrives. The same proof serves both kinds of queue,
  which differ in the lock a put takes (`LockInv`).
* `GrowingRefinement` (`GrowingImplementDeque`, part of `OthersImplementDeque`): the array
  and the list that grow implement `WorkDeque`. The content is read off the ring: the
  `used_slots` slots after the head, whatever numbers they have in memory (`Ring`), and
  while the holder of the lock is about to write `is_empty`, that ring as it was before
  its move (`Before`). Growing must not change it: the array is copied from its head on
  into the first slots of the new one, and the new block of the list lies outside the
  used part, since the head of a full queue is next to its tail. `RingInv` gives one
  enumeration of all slots, from which the content before and after each move, and
  before and after each growth, is computed (`GrowingMoveContent`, `GrowingGrowContent`).
  It is about an owner that puts and gets and any number of thieves.
* `OthersRefinement` (`OthersImplementDeque`) puts these two queues, the FIFO and the queue
  without locks together.
* `FifoRefinement` (`FifosImplementDeque`, part of `OthersImplementDeque`): the FIFO with a
  lock for each end implements `WorkDeque`, though neither end knows what the other is
  doing. A put takes effect when it moves the tail, unless `is_empty` still hides the
  item, and then when it clears the flag (`Content`); a get when it moves the head.
  `EmptyInv` says what the flag is worth to somebody with one of the locks: set, the ring
  is empty but for the item of a put that is about to clear it; cleared over an empty
  ring, a get is about to set it. `FullInv` is about the growing ring, whose put
  compares the tail with a head it read before it had a lock: the head has only moved on
  since, so a ring that does not look full is not, and one that does is grown at worst
  too early; it needs that one thread alone puts.
* `LocklessRefinement` (`LocklessImplementDeque`, part of `OthersImplementDeque`): the queue
  without locks implements `WorkDeque` for its owner and any number of thieves, though
  what the owner stores becomes visible late. A put takes effect when the owner stores the
  tail, into its buffer; a steal when it swaps the head; the owner's get when it reads
  the head after the fence, or when it swaps it for the last item. `LocklessInv` (in
  `LocklessDeque`) says what makes this right. An item on its way to memory is for a slot
  that the `tail_index` in memory does not cover yet (`BufferInv`), so what a thief is told
  is there, it can read; after the fence nothing is on its way, so a thief that read the
  old tail has also read a head that the owner's load sees, or fails its swap.
  `SizeInv` bounds the distance of the indices, which keeps a put from overwriting the
  item at the head while a thief is about to read it. `ThiefInv`: as long as `head_index` has not
  moved since a thief read it, the item the thief holds is the one at the head. Leaving
  out the fence breaks it, as the mutant shows.

**`ForkJoinProofs`**, from `SizesAssumption` (team sizes are
between one and the number of threads there can be).

* `Invariance`: the heart of `IInv` is `Balance`. A slave is *busy* from the
  assignment of its `entry_func` until it has taken its rank in `exit_count`;
  `exit_count` and the number of busy slaves together make up the slaves
  assigned, plus one when the master has left too. Hence the last to leave finds
  nobody busy (`QuietInv`), so the size of the team changes, and the counters are
  reset, only when no slave can look at them; and the local copies of the size
  (`LimitInv`) are the size. `EntryInv` and `AssignInv` make a slave count once:
  an assigned slave is never one that is still in the barrier.
* `WakeUps` (`NoLostWakeup`): no slave sleeps with a task it has not seen, and when
  the master sleeps though all have left, the slave that left last is still to
  signal. Spurious wake-ups and slaves of no team are included.
* `Resets` (`CountersAtRest`): `exit_count` and `barrier_count` are reset when no
  slave can test or increment them.
* `Refinement`: every step of `ForkJoin` is one of `ParallelRegion` or a stutter.
  `TraceInv` says where each thread is with the present region: a slave whose
  `entry_func` is set has the present one to execute until it is about to clear
  it, a member without one has executed it or is still to be assigned. A region
  is joined in the step that resets `barrier_count`.

**`LocksProofs`**, from `NestLockAssumption` (the name of no thread is no thread,
the depth is bounded by a positive number, any one) and `ImagesAssumption` (no image
is called `NoImage`). The three kinds of lock share no variable, so a step of one is
none of the others (`EachAlone`), and each has an invariant of its own.

* `AssertionHolds` (`WaitMeansZero`): the assertion of `omp_lock.c:174`, that whoever
  gets `wait` finds the count zero. `IInv` says for each place of the code whether
  its thread holds `lock` (`LockInv`) and `wait` (`WaitInv`), and what the count is
  worth for the holder (`OwnerInv`): the number of takes its program knows of, but
  for the one under way.
* `NestedStaysOwnedHolds`: between the unlocked test and `lock` the owner stays the
  owner, because only the thread itself can give the lock up.
* `Refinement`: `NestLock` implements `ReentrantLock`. The lock is taken with `wait`
  and given back with it, whatever is in the two fields at the time. It is about
  the plain operations, not about `__ompc_nest_lock_s`.

* `OneInsideHolds`: whoever creates the lock of a critical construct, one thread at
  most is inside, and the lock it takes is initialised. `LockMade` says that the
  pointer is set once: the test is repeated under `_ompc_thread_lock`, so who is
  between that test and the assignment finds it NULL.
* `MutualExclusionHolds`: on all three layers one image at most is between LOCK and
  UNLOCK. The invariant counts the lock wherever it is (`OneOwner`): with the image
  that holds it or is unlocking without having given it away, with an image that
  was granted it and has not noticed, or in a grant on its way. Usurping needs
  nothing more: the image that takes the tail out still owns the lock until its
  second fetch-and-store.
* `EmptyMeansFreeHolds`: when the variable reads as unlocked the lock is with
  nobody and in no grant.
* `NoStrayWriteHolds`, `WholeLinkHolds`: where the remote writes land. They
  need a second invariant, `QueueInv`. A request has room for one successor, and
  one thing at most can fill it: it is the tail of the queue, or one image points
  at it (it enqueued behind it, holds it as the end of the victims it took out, or
  is to link its victims to it, `PointInv`), or one link to it is under way
  (`LinkInv`), or the link has landed. What has landed of a link and what is left of it
  make up the link (`LinkOf`), from either end. Who is announced is announced once, and
  spins until its grant comes (`ToldInv`): freeing the request when the lock is
  passed on is what a stray or second announcement would break. With compare-and-swap
  everyone but the tail has a successor that is linking or linked (`NextInv`).
* `InOrderHolds`: with compare-and-swap the lock is handed on in the order in which
  images swapped themselves into the lock variable. `OrderInv` says that the history
  `ahead` is this queue: everybody who waits is right behind the image it found in the
  variable, the tail is behind all others, and of any two images one is behind the other.
  Who unlocks has nobody ahead and passes the lock to the image whose link it got; by
  `ToldInv` that image found it in the variable, so it is right behind it, and by `OrderInv`
  everybody else is behind that one (`HandsOn`).

**`BarrierProofs`**, from `Sizes` (the sizes the programs ask for lie between one and
the number of threads there can be, or are the default; the bound on the barriers
of a region is a number, any one). What a program may do between its barriers is
a hypothesis, `Survives`: DISSEM and TREE run programs that never fork a team its
barrier was not built for (`NeverStale`: every region says `num_threads`, or none
does and nobody calls `omp_set_num_threads`), TOUR programs whose regions all have
the same size (`OneSize`). It is no convenience: a stale tree waits for a thread that
is not there (section 7), and a tournament that is resized lets its losers go at
once, which is the finding `TourStaleChampion`. SIMPLE needs no hypothesis. Each
algorithm has its inductive invariant, which counts a thread's barriers of the
region: those it has left, and one more from some step inside the next. All relate
the senses and flags to these counts.

* `CountsWaiters` (`CountIsWaiters`, SIMPLE): the count is the number of threads that
  wait. What makes it so is that the flag a thread has read is still the flag when
  it is counted (`FlagInv`), and that all the others wait while the last one resets
  the count and turns the flag (`LastInv`). Team members are all as many barriers
  on when one counts a barrier as left from the moment it was opened (`EpisodeInv`),
  however slow those that spin are.
* `ReportsKept` (`NoReportLost`, TREE): `Reported` counts up to the report to the
  parent, `Opened` up to the wake-up. A child's flag at its parent says whether it
  has reported once more than the parent (`ChildInv`); nobody is woken before all
  have reported (`OpenInv`): were there a thread that has not, take the one of
  least number, and its parent cannot have gathered. A thread is one barrier behind the one
  that wakes it at most (`WakeupInv`), so its wakeup flag, a single bit, is enough.
* `SignalsKept` (`NoSignalOverwritten`, DISSEM): after r rounds a thread has heard of
  the 2^r threads behind it in the ring (`HeardInv`), so after the last round of
  everybody. Hence two threads are at most one barrier apart, and parity and
  sense, with a cycle of four barriers, tell the two apart (`CycleInv`). The flags
  of the two parities say whether the partner's signal for this barrier and for
  the next has come (`FlagInv`). A team of one has
  rows of NULL, which the rebuild for a larger one dereferences; a program that
  does so calls nothing from there on, and nothing more is claimed of it.
* `StartsClosed` (`ClosedBetweenRegions`, TOUR): the champion is the first to leave and
  its sense is never the one in `championSense` (`ChampionInv`). A thread in round k
  has a number that 2^k divides (`PlaceInv`) and has heard of the 2^k threads from
  itself on (`HeardInv`); the flag of a winner says whether its opponent has lost
  this barrier (`FlagInv`).
* `BarriersRefine`: with each of the four, every step is one of `TeamBarrier` or
  changes nothing there, so nobody leaves its k-th barrier before everybody has
  entered it: the safety of `ImplementsTeamBarrier` for the OpenMP kinds.

The arithmetic they need, of powers of two, rounded logarithms, remainders and
quotients, is proved first, from what the library says of finite sets: 2^n is the
number of subsets of `1..n`, which doubles, grows and exceeds n without an
induction, and a set of numbers has a least element (`Least`), which replaces
induction over rounds and over the tree.

**`SyncImagesProofs`**, from `ConstantsOK` (images are numbers, as in the code; two
images agree on whether they share memory; a char has a value).

* `Refinement`: SYNC IMAGES implements `PairSync` with each of the four algorithms,
  any number of images, any lists and any number of statements. `PairInv` says of
  a pair where the signals that one has sent and the other has not taken are:
  all in the count or in messages (`CountInv`); the distance of the char from its
  check, at most two (`CharInv`); a ping or its pong (`PingInv`); in the senses
  (`SenseInv`), in the flag and under way, in the flag alone because the second
  one overwrote the first, or in the hands of the image that is about to put it
  back. Each gives `Matching`: what an image has taken of another, that one had to
  send.

**`WorksharingProofs`**, from `ProgramAssumption`, and for programs that survive:
`OneTeam`, all teams of more than one thread have the same size, and `OneLoopAtATime`,
a barrier lies between a loop that asks the scheduler and the next such loop. Both
are needed. Without the first a thread's `loop_count` lags, which is the finding
`LoopStaleInit`; without the second a loop with nowait has its bounds overwritten,
which is a hazard. They hold for any team size, any bounds, increments and chunks,
any number of regions, and any sequence of loops and singles otherwise. A region
starts with whatever the last one left.

* `Invariance`: `IInv` (in `WorksharingProps`) is inductive. `CountInv` says what the counts
  are worth: a thread's count and the team's differ by the loops the thread has come
  to and those somebody has initialised, so the test `loop_count` against the
  team's (`omp_runtime.c:351-376`) succeeds for one thread of each loop, the first;
  and so for singles. `MetInv` counts barriers: what a thread has left, all have
  reached. Hence the bounds in the team are those of the last loop begun, and
  nobody is still in an earlier one that asks the scheduler (`BoundsInv`).
* `Once` (`OnlyOnce`) and `Complete` (`DoneBeforePassing`): `ShareInv` says where each
  iteration of a loop is. It has been executed, or one thread owes it, as the rest of
  its chunk (`Rest`) or in a chunk of a static schedule it is still to be given (`Future`),
  or it is in the `Pool` of what the team has not given out; never in two of these.
  Who has been sent away without a chunk has no `Future`, and the pool is empty, so
  when all have left nothing is owed. For static schedules the lemmas number the
  chunks: those of a thread are congruent to its id modulo the team's size, whatever
  form the code computes them in, and each iteration lies in exactly one (`Start`,
  `InChunk`, `Number`). C's division, which rounds towards zero, is reasoned about as the
  code uses it, for loops that count downwards and for empty ones too. For dynamic
  and guided schedules the pool is what lies beyond the team's lower bound.
* `InSequence` (`OrderedInSequence`): `TurnInv` says what a turn is worth. With a static
  schedule the number of a thread's chunk is its turn; with a shared one, turns are
  handed out with the chunks under the same lock, so smaller turns have smaller
  iterations. In both, no iteration of a turn that is over is left, so who
  executes at its turn has everything before it executed; what is left of a chunk, as
  `__ompc_end_ordered` counts it, is at least the rest (`Remaining`), so that a turn is
  not given up early. `SequenceInv` is the property as it is preserved.
* `FromSingle` (`CopiedFromSingle`): the executor of a single is the thread whose count
  matched (`SingleInv`). What it published stays until everybody has met the barrier
  that ends the construct (`CopyInv`), and with `MetInv` nobody, the executor included,
  gets past it while another still copies.

Only model-checked: all liveness (fairness and `ENABLED` are out of the prover's
reach), so the second half of `TeamBarrier`, `ParallelRegion` and `RegionEnds`, and
`Granting` and `NoneStuck`, and `NoneForgotten` of the two-level pool; the coarray
barriers.

## 7. Findings

Each is a run that TLC refutes, about a statement the code itself makes.

| run | what happens |
|---|---|
| `TaskStaleSiblings` | `omp_task.c:246`: a task keeps the result of its decrement of the parent's `num_children` and uses it after other steps. The parent creates another child and finishes in between, and is deleted with a child that has yet to decrement it. |
| `TaskImplicitFree` | `omp_task.c:234`: a task leaves `num_pending_tasks` before it leaves its parent's `num_children`, so the end of the region can free the implicit task before that decrement. |
| `TourStaleChampion` | `omp_xbarrier.c:363`: `champion_sense` survives a resize that sets all local senses back. After an odd number of barriers the first tournament barrier of the new team lets its losers go at once. |
| `LoopStaleInit` | `omp_runtime.c:356`: `loop_count` of a thread lags behind the team's if the thread was in no team when others ran loops; it then takes a chunk of the loop before, and an iteration of the new one is lost. |
| `ForkExpand` | `omp_thread.c:1576`: a team that grows after a region frees the array of v_threads while slaves of that region are still writing their state into it. |

`TaskTied` holds for programs of tied tasks. With untied tasks in the same program
the scheduling constraint of `omp_task_pool.c:239-241` can be broken: tied tasks
are taken from the thread's own queue without a look at the tasks suspended
below, and only their LIFO order keeps the constraint, which an untied task run
in between breaks. It is listed under `hazards`.

What the models showed besides, for which no doc says otherwise:

* The growing FIFO loses tasks when two threads put: `head_index` is read before
  the locks (`omp_queue.c:634`), so the ring may not grow although it is full. One
  putter is checked. The pool gives it many only as the community's queue.
* The community's queue of the two-level pool cannot be every queue. A donation is a
  put at its tail, whatever the queue (`omp_thread.c:842-843`), and every thread
  donates; the put of LOCKLESS allows one putter (`omp_queue.c:1085-1088` reads
  `tail_index`, stores the item and increments it, without a lock), so two donations
  may store in one slot. Fixed DEQUE and CFIFO are checked; LOCKLESS has no transfer of
  chunks either, and with it the chunk size is 1 (`omp_thread.c:774-777`).
* `rand() % (team_size - 1)` of the same pool divides by zero in a team of one.
* A region without `num_threads` after `omp_set_num_threads` resizes the team and not
  the tree (`omp_thread.c:1726`): with the TREE barrier thread 0 waits for a thread
  that is not there. `Barriers` leaves these forks out for TREE.
* A nested fork never gives back the threads it takes off `__omp_max_num_threads`;
  with `Budget` 1 the third region of `NestedTeams` deadlocks.
* A leader of a coarray barrier waits for the images of its node without looking
  at whether they have stopped (`gasnet_comm_layer.c:4389`), and an image that has
  given up no longer signals. Some who wait then wait for ever: this is what
  `Stranded` allows. An attempt that is repeated with the counting barrier adds to
  the counter twice; its leader has then stopped and never reads it.
* SYNC IMAGES that gives up has sent all its signals and taken some
  (`gasnet_comm_layer.c:4997`); the next statement of the others passes on the
  old ones.

## 8. Abstractions, and what is not modelled

* Memory is sequentially consistent (except in `LocklessDeque`, which has the store
  buffer of its owner); a shared read or write is a step. The
  runtime is written with gcc's atomic built-ins and volatile flags, and the
  orders it relies on are those of x86.
* Timed waits on a condition (`pthread_cond_timedwait`), spinning and yielding
  only delay; a step that merely delays is not a step.
* Integers do not wrap, except the chars of the coarray barriers and of SYNC
  IMAGES (`Chars`): the counters are bounded by threads and tasks, and the bounds
  of loops are small. The indices of the lock-free queue only grow in the model;
  in the code they are unsigned, and `num_slots` must divide 2^32. The counting
  barrier of a node with more than 127 followers would never match its char.
* A task that is cut off (`omp_task.c:101-109`) is a plain call that leaves no
  state behind, and is no action. Addresses, closures and copies of arguments are
  left out, and so is everything the collector API counts.
* The object of an undeferred task lives in its creator's frame; a deferred
  child that outlives it is a hazard no property covers yet.
* `__ompc_nest_lock_s` (`omp_lock.c:181-214`) is not modelled. It waits with
  `__ompc_lock_s(&lp->wait)` (191), which locks a pthread mutex at the address of `wait`
  itself (65-77), on top of its `flag`; the test of 197 and the unlock of 237 are about
  the mutex or spin lock in its field `lock`. Nothing keeps two
  threads apart by it as `wait` does in `__ompc_nest_lock`, so nothing is said of
  it. It is declared in `omp_lock.h:116` and called nowhere in the repository.
* The root team of sequential code is a team of one in `Worksharing`;
  `__ompc_schedule_next_8` called outside a region is left out.
* Two programs are kept out of `Loops` because they do not survive: a scheduled
  loop with nowait followed by another scheduled loop (`DoneBeforePassing` fails, as
  the team's bounds are overwritten; `OneLoopAtATime` keeps it out of the theorems),
  and a collapsed ordered loop of schedule static-even with fewer iterations than
  threads (the threads wait for a turn that never comes: a failure of `RegionEnds`,
  so the theorems, which are about safety, include it). Both are `hazards`.
* `ForkJoin`: the growth of the team is modelled with everything but the barrier
  structures, which `XBarrier` has; the runtime's finalisation is not modelled. A
  region inside a region when nesting is off is a call on a team of one and has no
  state.
* Images do not stop in `SyncImages`: its STAT= returns leave signals behind, and what
  the statement means after that the code does not say (`hazards`). Images stop
  in `CoarrayBarrier` between barriers; `error stop` ends the program and is left
  out. SYNC ALL of the initial team is GASNet's own barrier. The layout of a team's
  flags is not modelled, so neither is `team.c:163`, whose `static int first` gives
  every team but the first one round more than it needs.
* Of GASNet, ARMCI and SHMEM the models have what `libcaf` relies on: remote atomic
  operations are steps, a blocking put has landed when it returns, and
  non-blocking ones land in any order.
* Not modelled: the simple and the public-private pool, which make the same queue
  calls in other orders; coroutine tasks (`pcl.c`), which switch stacks in assembly;
  the user API and the collector, which keep no state the rest relies on;
  coarray memory, collectives and events; `libopenacc`; and the compilers, whose
  millions of lines are sequential passes for which a model of states and steps has
  nothing to say. `PROJECT.json` gives the reason of each under `components`.
