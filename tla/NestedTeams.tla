----------------------------- MODULE NestedTeams -----------------------------
(***************************************************************************)
(* Nested parallel regions (omp_thread.c:1073-1153, 1225-1276, 1817-1990):  *)
(* a thread of the level-1 team builds a team on its stack, creates a      *)
(* thread for every other member, takes part as number 0 and waits at the  *)
(* end until all members have left, whereupon the team is gone.  Several   *)
(* level-1 threads do so at once and share the count of threads that may   *)
(* still be created.  A mutex's critical section is one step; explicit     *)
(* tasks are TaskRuntime's.                                                *)
(***************************************************************************)
EXTENDS Integers, Sequences

CONSTANTS
    Master,     \* the level-1 threads that fork, by their __omp_myid
    MaxSize,    \* threads a nested team can have
    Default,    \* __omp_nthreads_var
    Requests,   \* for each master, for each of its regions (a bound), the
                \* num_threads it may ask for, 0 standing for none
    Budget      \* __omp_max_num_threads at first

\* a slave has its master, the region its thread was created for, and its number
Slave == UNION {{m} \X (DOMAIN Requests[m]) \X (1..(MaxSize - 1)) : m \in Master}
Zero(m) == <<m, 0, 0>>
Thread == {Zero(m) : m \in Master} \cup Slave

VARIABLES
    maxNumThreads,  \* __omp_max_num_threads
    size, newTask, barrierCount, exitCount,   \* of each master's temp_team
    region,         \* regions each master has forked
    myId,           \* __omp_myid of each master
    old, next,      \* a master's: __omp_max_num_threads as read; slave to create
    pc, done        \* done: the regions each number of a master's team executed

teamVars == <<size, newTask, region>>
countVars == <<barrierCount, exitCount>>
masterVars == <<myId, old, next>>
vars == <<maxNumThreads, teamVars, countVars, masterVars, pc, done>>

Init ==
    /\ maxNumThreads = Budget
    /\ size = [m \in Master |-> 1] /\ newTask = [m \in Master |-> 0]
    /\ barrierCount = [m \in Master |-> 0] /\ exitCount = [m \in Master |-> 0]
    /\ region = [m \in Master |-> 0]
    /\ myId = [m \in Master |-> m]
    /\ old = [m \in Master |-> 0] /\ next = [m \in Master |-> 1]
    /\ pc = [t \in Thread |-> IF t[3] = 0 THEN "outside" ELSE "none"]
    /\ done = [m \in Master |-> [i \in 0..(MaxSize - 1) |-> <<>>]]

MasterOf(t) == t[1]
Number(t) == t[3]
IsMaster(t) == Number(t) = 0
Goto(t, label) == pc' = [pc EXCEPT ![t] = label]
\* the slaves of a master's present region
Team(m) == {t \in Slave : t[1] = m /\ t[2] = region[m] /\ t[3] < size[m]}

-----------------------------------------------------------------------------
(* __ompc_fork *)

\* __ompc_check_num_threads looks only at what a num_threads clause asks for
Granted(n) == IF n = 0 THEN Default
              ELSE IF n - 1 > maxNumThreads THEN maxNumThreads + 1 ELSE n

Fork(m, n) ==
    /\ pc[Zero(m)] = "outside"
    /\ size' = [size EXCEPT ![m] = Granted(n)]
    /\ newTask' = [newTask EXCEPT ![m] = 0]
    /\ barrierCount' = [barrierCount EXCEPT ![m] = 0]
    /\ exitCount' = [exitCount EXCEPT ![m] = 0]
    /\ region' = [region EXCEPT ![m] = @ + 1]
    /\ next' = [next EXCEPT ![m] = 1]
    /\ Goto(Zero(m), "readBudget")
    /\ UNCHANGED <<maxNumThreads, myId, old, done>>

\* __omp_max_num_threads -= num_threads - 1, without a lock
ReadBudget(m) ==
    /\ pc[Zero(m)] = "readBudget"
    /\ old' = [old EXCEPT ![m] = maxNumThreads]
    /\ Goto(Zero(m), "writeBudget")
    /\ UNCHANGED <<maxNumThreads, teamVars, countVars, myId, next, done>>

WriteBudget(m) ==
    /\ pc[Zero(m)] = "writeBudget"
    /\ maxNumThreads' = old[m] - (size[m] - 1)
    /\ old' = [old EXCEPT ![m] = 0]
    /\ Goto(Zero(m), "create")
    /\ UNCHANGED <<teamVars, countVars, myId, next, done>>

CreateSlave(m) ==
    /\ pc[Zero(m)] = "create" /\ next[m] < size[m]
    /\ pc' = [pc EXCEPT ![<<m, region[m], next[m]>>] = "waitTask"]
    /\ next' = [next EXCEPT ![m] = @ + 1]
    /\ UNCHANGED <<maxNumThreads, teamVars, countVars, myId, old, done>>

\* under barrier_lock; the broadcast wakes every slave that sleeps
Release(m) ==
    /\ pc[Zero(m)] = "create" /\ next[m] = size[m]
    /\ newTask' = [newTask EXCEPT ![m] = 1]
    /\ pc' = [t \in Thread |-> IF t = Zero(m) THEN "becomeZero"
                               ELSE IF t \in Team(m) /\ pc[t] = "asleep" THEN "waitTask"
                               ELSE pc[t]]
    /\ UNCHANGED <<maxNumThreads, size, region, countVars, masterVars, done>>

\* mutant: the master keeps the number it has in the level-1 team
KeepId(m) ==
    /\ pc[Zero(m)] = "becomeZero"
    /\ Goto(Zero(m), "body")
    /\ UNCHANGED <<maxNumThreads, teamVars, countVars, masterVars, done>>

BecomeZero(m) ==
    /\ pc[Zero(m)] = "becomeZero"
    /\ myId' = [myId EXCEPT ![m] = 0]
    /\ Goto(Zero(m), "body")
    /\ UNCHANGED <<maxNumThreads, teamVars, countVars, old, next, done>>

-----------------------------------------------------------------------------
(* __ompc_nested_slave *)

\* having spun long enough, it looks once more under barrier_lock and sleeps
SleepTask(t) ==
    /\ pc[t] = "waitTask" /\ newTask[MasterOf(t)] # 1
    /\ Goto(t, "asleep")
    /\ UNCHANGED <<maxNumThreads, teamVars, countVars, masterVars, done>>

SeeTask(t) ==
    /\ pc[t] = "waitTask" /\ newTask[MasterOf(t)] = 1
    /\ Goto(t, "body")
    /\ UNCHANGED <<maxNumThreads, teamVars, countVars, masterVars, done>>

Body(t) ==
    LET m == MasterOf(t) IN
    /\ pc[t] = "body"
    /\ done' = [done EXCEPT ![m][Number(t)] = Append(@, region[m])]
    /\ Goto(t, "arrive")
    /\ UNCHANGED <<maxNumThreads, teamVars, countVars, masterVars>>

-----------------------------------------------------------------------------
(* __ompc_exit_barrier *)

Arrive(t) ==
    /\ pc[t] = "arrive"
    /\ barrierCount' = [barrierCount EXCEPT ![MasterOf(t)] = @ + 1]
    /\ Goto(t, "meet")
    /\ UNCHANGED <<maxNumThreads, teamVars, exitCount, masterVars, done>>

Meet(t) ==
    /\ pc[t] = "meet" /\ barrierCount[MasterOf(t)] >= size[MasterOf(t)]
    /\ Goto(t, "leave")
    /\ UNCHANGED <<maxNumThreads, teamVars, countVars, masterVars, done>>

\* number 0 waits for the others, the last of which signals
Id(t) == IF IsMaster(t) THEN myId[MasterOf(t)] ELSE Number(t)
Left(t) == IF IsMaster(t) THEN "return" ELSE "gone"
Leave(t) ==
    LET m == MasterOf(t)
        last == exitCount[m] + 1 = size[m]
    IN /\ pc[t] = "leave"
       /\ exitCount' = [exitCount EXCEPT ![m] = @ + 1]
       /\ Goto(t, IF Id(t) = 0 THEN (IF last THEN Left(t) ELSE "join")
                  ELSE IF last THEN "signal" ELSE Left(t))
       /\ UNCHANGED <<maxNumThreads, teamVars, barrierCount, masterVars, done>>

(* The master may have seen the count without the signal, returned from    *)
(* the region and freed the team: then the signal goes to memory that is   *)
(* no longer the team's.  Here it has no effect, or that of a spurious     *)
(* wake-up; nothing is said of other consequences.                         *)
Signal(t) ==
    LET m == MasterOf(t)
        stale == ~IsMaster(t) /\ t[2] # region[m]
    IN /\ pc[t] = "signal"
       /\ pc' = [pc EXCEPT ![t] = Left(t),
                           ![Zero(m)] = IF IsMaster(t) THEN "return"
                                  ELSE IF pc[Zero(m)] = "asleep" /\ ~stale THEN "join" ELSE @]
       /\ UNCHANGED <<maxNumThreads, teamVars, countVars, masterVars, done>>

SleepJoin(m) ==
    /\ pc[Zero(m)] = "join" /\ exitCount[m] # size[m]
    /\ Goto(Zero(m), "asleep")
    /\ UNCHANGED <<maxNumThreads, teamVars, countVars, masterVars, done>>

Join(m) ==
    /\ pc[Zero(m)] = "join" /\ exitCount[m] = size[m]
    /\ Goto(Zero(m), "return")
    /\ UNCHANGED <<maxNumThreads, teamVars, countVars, masterVars, done>>

\* the number is restored, the team's memory freed; maxNumThreads stays as it is
Return(m) ==
    /\ pc[Zero(m)] = "return"
    /\ myId' = [myId EXCEPT ![m] = m]
    /\ Goto(Zero(m), "outside")
    /\ UNCHANGED <<maxNumThreads, teamVars, countVars, old, next, done>>

-----------------------------------------------------------------------------
(* Specification *)

\* pthread_cond_wait may return without a signal
Spurious(t) ==
    /\ pc[t] = "asleep"
    /\ Goto(t, IF IsMaster(t) THEN "join" ELSE "waitTask")
    /\ UNCHANGED <<maxNumThreads, teamVars, countVars, masterVars, done>>

Done ==
    /\ \A m \in Master : region[m] = Len(Requests[m]) /\ pc[Zero(m)] = "outside"
    /\ UNCHANGED vars

Member(t) == Body(t) \/ Arrive(t) \/ Meet(t) \/ Leave(t) \/ Signal(t)
MasterStep(m) ==
    \/ ReadBudget(m) \/ WriteBudget(m) \/ CreateSlave(m) \/ Release(m) \/ BecomeZero(m)
    \/ Member(Zero(m)) \/ SleepJoin(m) \/ Join(m) \/ Return(m)
SlaveStep(t) == SleepTask(t) \/ SeeTask(t) \/ Member(t)
Step(t) == IF IsMaster(t) THEN MasterStep(MasterOf(t)) ELSE SlaveStep(t)

Next ==
    \/ \E m \in Master : /\ region[m] < Len(Requests[m])
                         /\ \E n \in Requests[m][region[m] + 1] : Fork(m, n)
    \/ \E t \in Thread : Step(t) \/ Spurious(t)
    \/ Done

\* every thread keeps running
Spec == Init /\ [][Next]_vars /\ \A t \in Thread : WF_vars(Step(t))

-----------------------------------------------------------------------------
(* Properties *)

\* a region is over when its master is about to free the team
Todo(m) == IF pc[Zero(m)] \in {"outside", "return"} THEN {}
           ELSE {i \in 0..(size[m] - 1) : region[m] \notin {done[m][i][k] : k \in DOMAIN done[m][i]}}
Inside(m) == pc[Zero(m)] # "outside"

Region(m) == INSTANCE ParallelRegion WITH
    Thread <- 0..(MaxSize - 1), Size <- 1..MaxSize,
    region <- region[m], inside <- Inside(m), todo <- Todo(m), done <- done[m]

\* when the master frees the team only the last slave may still use it, to signal
OthersGone(m) == pc[Zero(m)] \in {"return", "outside"} =>
    \A t \in Slave : t[1] = m => pc[t] \in {"none", "signal", "gone"}

\* omp_thread.c:1817-1990: every member of a nested team executes its region once,
\* and the master goes on when all have and have left, and always does.
ImplementRegions ==
    /\ \A m \in Master : Region(m)!Init
    /\ [][\A m \in Master : [Region(m)!Next]_(Region(m)!vars)]_vars
    /\ \A m \in Master : []OthersGone(m)
    /\ \A m \in Master : Inside(m) ~> ~Inside(m)
=============================================================================
