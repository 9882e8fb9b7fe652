--------------------------------- MODULE ForkJoin ---------------------------------
(***************************************************************************)
(* The level-1 team between regions (omp_thread.c): the master forks,      *)
(* slaves spin or sleep until new_task changes, and meet the master again  *)
(* in __ompc_level_1_barrier.  Explicit tasks are TaskRuntime's: here a    *)
(* body is one step.  A mutex's critical section is one step; a waiter on  *)
(* a condition sleeps until a signal or, as POSIX allows, without one.     *)
(***************************************************************************)
EXTENDS Naturals, Sequences

CONSTANTS
    MaxThreads, \* threads there can ever be
    InitSize,   \* threads __ompc_init_rtl creates
    Sizes       \* for each region (a bound), the team sizes it may ask for

ASSUME SizesAssumption ==
    /\ MaxThreads \in Nat
    /\ InitSize \in 1..MaxThreads
    /\ Sizes \in Seq(SUBSET (1..MaxThreads))

Thread == 0..(MaxThreads - 1)
Slave == Thread \ {0}

VARIABLES
    newTask,            \* team_manager.new_task
    entry,              \* entry_func of each v_thread: its region, or 0 for NULL
    teamSize,           \* __omp_level_1_team_size
    allocSize,          \* __omp_level_1_team_alloc_size
    pthreadCount,       \* __omp_level_1_pthread_count
    barrierCount,       \* team_manager.barrier_count
    exitCount,          \* __omp_level_1_exit_count
    freed,              \* __omp_level_1_team points to memory already freed
    seen, work, limit,  \* locals: new_tasks; the body called; team_size
    next,               \* the master's: size asked for, entry to assign
    pc,
    region, done,       \* regions forked; those each thread has executed
    freedAccess         \* something of the freed array was read or written

teamVars == <<newTask, entry, teamSize, region>>
arrayVars == <<allocSize, pthreadCount, freed>>
counterVars == <<barrierCount, exitCount>>
localVars == <<seen, work, limit>>
vars == <<teamVars, arrayVars, counterVars, localVars, next, pc, done, freedAccess>>

Init ==
    /\ newTask = 0 /\ entry = [t \in Thread |-> 0] /\ teamSize = InitSize
    /\ allocSize = InitSize /\ pthreadCount = InitSize /\ freed = FALSE
    /\ barrierCount = 0 /\ exitCount = 0
    /\ seen = [t \in Thread |-> 0]
    /\ work = [t \in Thread |-> 0]
    /\ limit = [t \in Thread |-> 0]
    /\ next = [size |-> InitSize, i |-> 0]
    /\ pc = [t \in Thread |-> IF t = 0 THEN "serial"
                              ELSE IF t < InitSize THEN "idle" ELSE "none"]
    /\ region = 0 /\ done = [t \in Thread |-> <<>>]
    /\ freedAccess = FALSE

Goto(t, label) == pc' = [pc EXCEPT ![t] = label]
Touch == freedAccess' = (freedAccess \/ freed)

-----------------------------------------------------------------------------
(* __ompc_fork and __ompc_expand_level_1_team *)

Fork(n) ==
    /\ pc[0] = "serial"
    /\ next' = [size |-> n, i |-> 0]
    /\ Goto(0, IF n > allocSize THEN "realloc" ELSE "setSize")
    /\ UNCHANGED <<teamVars, arrayVars, counterVars, localVars, done, freedAccess>>

\* aligned_realloc copies, then frees what the pointer still points to
Realloc ==
    /\ pc[0] = "realloc"
    /\ freed' = TRUE
    /\ Goto(0, "refresh")
    /\ UNCHANGED <<teamVars, allocSize, pthreadCount, counterVars, localVars, next,
                   done, freedAccess>>

\* the new array is in place, and threads for the rest of it are created
Refresh ==
    /\ pc[0] = "refresh"
    /\ freed' = FALSE
    /\ pc' = [t \in Thread |-> IF t = 0 THEN "awaitThreads"
                               ELSE IF t \in allocSize..(next.size - 1) THEN "create"
                               ELSE pc[t]]
    /\ UNCHANGED <<teamVars, allocSize, pthreadCount, counterVars, localVars, next,
                   done, freedAccess>>

AwaitThreads ==
    /\ pc[0] = "awaitThreads" /\ pthreadCount = next.size
    /\ teamSize' = next.size /\ allocSize' = next.size
    /\ Goto(0, "setSize")
    /\ UNCHANGED <<newTask, entry, region, pthreadCount, freed, counterVars, localVars, next, done,
                   freedAccess>>

SetSize ==
    /\ pc[0] = "setSize"
    /\ teamSize' = next.size /\ region' = region + 1
    /\ Goto(0, "assign")
    /\ UNCHANGED <<newTask, entry, arrayVars, counterVars, localVars, next, done,
                   freedAccess>>

Assign ==
    /\ pc[0] = "assign"
    /\ entry' = [entry EXCEPT ![next.i] = region]
    /\ next' = [next EXCEPT !.i = @ + 1]
    /\ Goto(0, IF next.i + 1 < teamSize THEN "assign" ELSE "start")
    /\ UNCHANGED <<newTask, teamSize, region, arrayVars, counterVars, localVars, done,
                   freedAccess>>

\* under __omp_level_1_mutex; the broadcast wakes every sleeping slave
Start ==
    /\ pc[0] = "start"
    /\ IF teamSize > 1
       THEN /\ newTask' = newTask + 1
            /\ pc' = [t \in Thread |-> IF t = 0 THEN "body"
                                       ELSE IF pc[t] = "asleep" THEN "idle" ELSE pc[t]]
       ELSE Goto(0, "body") /\ UNCHANGED newTask
    /\ work' = [work EXCEPT ![0] = region]
    /\ UNCHANGED <<entry, teamSize, region, arrayVars, counterVars, seen, limit, next,
                   done, freedAccess>>

-----------------------------------------------------------------------------
(* __ompc_level_1_slave *)

Create(t) ==
    /\ pc[t] = "create"
    /\ seen' = [seen EXCEPT ![t] = newTask]
    /\ Goto(t, "created")
    /\ UNCHANGED <<teamVars, arrayVars, counterVars, work, limit, next, done, freedAccess>>

Created(t) ==
    /\ pc[t] = "created"
    /\ pthreadCount' = pthreadCount + 1
    /\ Goto(t, "idle")
    /\ UNCHANGED <<teamVars, allocSize, freed, counterVars, localVars, next, done,
                   freedAccess>>

\* mutant: the slave does not look again under the mutex
SleepBlind(t) ==
    /\ pc[t] = "idle"
    /\ Goto(t, "asleep")
    /\ UNCHANGED <<teamVars, arrayVars, counterVars, localVars, next, done, freedAccess>>

\* having spun long enough, it looks once more under the mutex and sleeps
Sleep(t) ==
    /\ pc[t] = "idle" /\ newTask = seen[t]
    /\ Goto(t, "asleep")
    /\ UNCHANGED <<teamVars, arrayVars, counterVars, localVars, next, done, freedAccess>>

SeeTask(t) ==
    /\ pc[t] = "idle" /\ newTask # seen[t]
    /\ Goto(t, "woken")
    /\ UNCHANGED <<teamVars, arrayVars, counterVars, localVars, next, done, freedAccess>>

\* new_task is read again: it may have moved on, or not yet
Attach(t) ==
    /\ pc[t] = "woken"
    /\ seen' = [seen EXCEPT ![t] = newTask]
    /\ Goto(t, "attached")
    /\ UNCHANGED <<teamVars, arrayVars, counterVars, work, limit, next, done, freedAccess>>

\* a slave that is not in the team finds NULL
ReadEntry(t) ==
    /\ pc[t] = "attached"
    /\ Touch
    /\ work' = [work EXCEPT ![t] = entry[t]]
    /\ Goto(t, IF entry[t] = 0 THEN "idle" ELSE "body")
    /\ UNCHANGED <<teamVars, arrayVars, counterVars, seen, limit, next, done>>

Body(t) ==
    /\ pc[t] = "body"
    /\ done' = [done EXCEPT ![t] = Append(@, work[t])]
    /\ Goto(t, IF t = 0 THEN "arrive" ELSE "clear")
    /\ UNCHANGED <<teamVars, arrayVars, counterVars, localVars, next, freedAccess>>

\* mutant: entry_func keeps the region's body
KeepEntry(t) ==
    /\ pc[t] = "clear"
    /\ Touch
    /\ Goto(t, "arrive")
    /\ UNCHANGED <<teamVars, arrayVars, counterVars, localVars, next, done>>

Clear(t) ==
    /\ pc[t] = "clear"
    /\ Touch
    /\ entry' = [entry EXCEPT ![t] = 0]
    /\ Goto(t, "arrive")
    /\ UNCHANGED <<newTask, teamSize, region, arrayVars, counterVars, localVars, next,
                   done>>

-----------------------------------------------------------------------------
(* __ompc_level_1_barrier *)

Arrive(t) ==
    /\ pc[t] = "arrive"
    /\ barrierCount' = barrierCount + 1
    /\ limit' = [limit EXCEPT ![t] = teamSize]
    /\ Goto(t, "meet")
    /\ UNCHANGED <<teamVars, arrayVars, exitCount, seen, work, next, done, freedAccess>>

Meet(t) ==
    /\ pc[t] = "meet" /\ barrierCount >= limit[t]
    /\ Goto(t, "leave")
    /\ UNCHANGED <<teamVars, arrayVars, counterVars, localVars, next, done, freedAccess>>

\* mutant: the master does not wait for the others to leave
LeaveAtOnce(t) ==
    /\ pc[t] = "leave"
    /\ exitCount' = exitCount + 1
    /\ Goto(t, IF t = 0 THEN "resetExit"
               ELSE IF exitCount + 1 = limit[t] THEN "signal" ELSE "rest")
    /\ UNCHANGED <<teamVars, arrayVars, barrierCount, localVars, next, done, freedAccess>>

\* the implicit task is reset, and the rank taken
Leave(t) ==
    /\ pc[t] = "leave"
    /\ exitCount' = exitCount + 1
    /\ Goto(t, IF exitCount + 1 = limit[t]
               THEN (IF t = 0 THEN "resetExit" ELSE "signal")
               ELSE (IF t = 0 THEN "join" ELSE "rest"))
    /\ UNCHANGED <<teamVars, arrayVars, barrierCount, localVars, next, done, freedAccess>>

Signal(t) ==
    /\ pc[t] = "signal"
    /\ pc' = [pc EXCEPT ![t] = "rest", ![0] = IF @ = "asleep" THEN "join" ELSE @]
    /\ UNCHANGED <<teamVars, arrayVars, counterVars, localVars, next, done, freedAccess>>

\* __ompc_set_state(THR_IDLE_STATE), in the array
Rest(t) ==
    /\ pc[t] = "rest"
    /\ Touch
    /\ Goto(t, "idle")
    /\ UNCHANGED <<teamVars, arrayVars, counterVars, localVars, next, done>>

SleepJoin ==
    /\ pc[0] = "join" /\ exitCount # limit[0]
    /\ Goto(0, "asleep")
    /\ UNCHANGED <<teamVars, arrayVars, counterVars, localVars, next, done, freedAccess>>

Join ==
    /\ pc[0] = "join" /\ exitCount = limit[0]
    /\ Goto(0, "resetExit")
    /\ UNCHANGED <<teamVars, arrayVars, counterVars, localVars, next, done, freedAccess>>

ResetExit ==
    /\ pc[0] = "resetExit"
    /\ exitCount' = 0
    /\ Goto(0, "resetBarrier")
    /\ UNCHANGED <<teamVars, arrayVars, barrierCount, localVars, next, done, freedAccess>>

ResetBarrier ==
    /\ pc[0] = "resetBarrier"
    /\ barrierCount' = 0
    /\ Goto(0, "serial")
    /\ UNCHANGED <<teamVars, arrayVars, exitCount, localVars, next, done, freedAccess>>

-----------------------------------------------------------------------------
(* Specification *)

\* pthread_cond_wait may return without a signal
Spurious(t) ==
    /\ pc[t] = "asleep"
    /\ Goto(t, IF t = 0 THEN "join" ELSE "idle")
    /\ UNCHANGED <<teamVars, arrayVars, counterVars, localVars, next, done, freedAccess>>

Done ==
    /\ region = Len(Sizes) /\ pc[0] = "serial"
    /\ UNCHANGED vars

Master ==
    \/ Realloc \/ Refresh \/ AwaitThreads \/ SetSize \/ Assign \/ Start
    \/ Body(0) \/ Arrive(0) \/ Meet(0) \/ Leave(0)
    \/ SleepJoin \/ Join \/ ResetExit \/ ResetBarrier

SlaveStep(t) ==
    \/ Create(t) \/ Created(t) \/ Sleep(t) \/ SeeTask(t) \/ Attach(t) \/ ReadEntry(t)
    \/ Body(t) \/ Clear(t) \/ Arrive(t) \/ Meet(t) \/ Leave(t) \/ Signal(t) \/ Rest(t)

Next ==
    \/ region < Len(Sizes) /\ \E n \in Sizes[region + 1] : Fork(n)
    \/ Master \/ Done
    \/ \E t \in Slave : SlaveStep(t)
    \/ \E t \in Thread : Spurious(t)

\* every thread keeps running; nothing is owed by a spurious wake-up
Spec == Init /\ [][Next]_vars /\ WF_vars(Master) /\ \A t \in Slave : WF_vars(SlaveStep(t))
=============================================================================
