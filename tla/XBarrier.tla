-------------------------------- MODULE XBarrier --------------------------------
(***************************************************************************)
(* The level-1 team as the barrier algorithms see it: its size, the        *)
(* threads' local senses, and what a fork rebuilds when the size changes   *)
(* (omp_thread.c:1539-1670, 1718-1765; omp_xbarrier.c:69-226).  The        *)
(* modules that extend this one add one algorithm each.                    *)
(***************************************************************************)
EXTENDS Naturals

CONSTANTS
    MaxThreads,  \* no team is larger (a bound)
    InitSizes,   \* OMP_NUM_THREADS: the team created with the runtime
    ForkSizes,   \* num_threads clauses; 0 is a parallel region without one
    SetSizes,    \* arguments of omp_set_num_threads
    Episodes,    \* barriers in one parallel region (a bound)
    PerThreadRows \* TOUR and DISSEM: xbarrier_info is an array per thread

SizesOK ==
    /\ MaxThreads \in Nat \ {0} /\ Episodes \in Nat
    /\ InitSizes \subseteq 1..MaxThreads /\ SetSizes \subseteq 1..MaxThreads
    /\ ForkSizes \subseteq 0..MaxThreads
    /\ PerThreadRows \in BOOLEAN

Thread == 0..(MaxThreads - 1)

VARIABLES
    teamSize, log2TeamSize,  \* of __omp_level_1_team_manager
    allocSize,               \* __omp_level_1_team_alloc_size
    nthreadsVar,             \* __omp_nthreads_var
    info,                    \* xbarrier_info: "null", "built", or "crash"
    builtFor,                \* the team size a thread's node was built for
    parity, sense,           \* xbarrier_local of each v_thread
    inRegion,                \* a parallel region has begun
    entered, left,           \* barriers of this region reached and passed
    pc                       \* where a thread is in __ompc_xbarrier_wait

sizeVars == <<teamSize, log2TeamSize, allocSize, nthreadsVar, info>>
localVars == <<builtFor, parity, sense>>
countVars == <<entered, left>>
teamVars == <<sizeVars, localVars, inRegion, countVars, pc>>

Team == 0..(teamSize - 1)
Zero == [t \in Thread |-> 0]
Log2(n) == CHOOSE k \in 0..n : 2^k >= n /\ \A j \in 0..(k - 1) : 2^j < n

\* the arrays of TOUR and DISSEM are not allocated for a team of one
Built(n) == IF PerThreadRows /\ n = 1 THEN "null" ELSE "built"

TeamInit ==
    /\ teamSize \in InitSizes
    /\ log2TeamSize = Log2(teamSize)
    /\ allocSize = teamSize /\ nthreadsVar = teamSize
    /\ info = Built(teamSize)
    /\ builtFor = [t \in Thread |-> teamSize]
    /\ parity = Zero /\ sense = [t \in Thread |-> TRUE]
    /\ inRegion = FALSE /\ entered = Zero /\ left = Zero
    /\ pc = [t \in Thread |-> "out"]

-----------------------------------------------------------------------------
(* Between two parallel regions *)

\* every member has come to the end of the region, past the same barriers
Joined == /\ info # "crash"
          /\ \A t \in Team : pc[t] = "out" /\ entered[t] = entered[0]

Begin(n) == /\ teamSize' = n
            /\ entered' = Zero /\ left' = Zero
            /\ UNCHANGED pc

\* __ompc_init_xbarrier_local_info for every member of the new team
ResetLocals(n) ==
    /\ builtFor' = [t \in Thread |-> IF t < n /\ Built(n) = "built" THEN n
                                    ELSE builtFor[t]]
    /\ parity' = [t \in Thread |-> IF t < n THEN 0 ELSE parity[t]]
    /\ sense' = [t \in Thread |-> IF t < n THEN TRUE ELSE sense[t]]

\* a parallel region without num_threads: only the size is set
ForkDefault ==
    /\ Joined /\ 0 \in ForkSizes
    /\ Begin(nthreadsVar) /\ inRegion' = TRUE
    /\ UNCHANGED <<log2TeamSize, allocSize, nthreadsVar, info, localVars>>

ForkSame ==
    /\ Joined /\ teamSize \in ForkSizes
    /\ Begin(teamSize) /\ inRegion' = TRUE
    /\ log2TeamSize' = Log2(teamSize)
    /\ UNCHANGED <<allocSize, nthreadsVar, info, localVars>>

\* __ompc_xbarrier_info_init writes through the arrays an earlier fork made
ForkResize(n) ==
    /\ Joined /\ n \in ForkSizes \ {0, teamSize} /\ n <= allocSize
    /\ Begin(n) /\ inRegion' = TRUE
    /\ log2TeamSize' = Log2(n)
    /\ info' = IF n > 1 /\ info = "null" THEN "crash" ELSE Built(n)
    /\ ResetLocals(n)
    /\ UNCHANGED <<allocSize, nthreadsVar>>

\* __ompc_expand_level_1_team: frees the old arrays and makes new ones
Expand(n) ==
    /\ Joined /\ n > allocSize
    /\ Begin(n)
    /\ log2TeamSize' = Log2(n) /\ allocSize' = n
    /\ info' = IF teamSize > 1 /\ info = "null" THEN "crash" ELSE Built(n)
    /\ ResetLocals(n)

ForkExpand(n) ==
    /\ n \in ForkSizes
    /\ Expand(n) /\ inRegion' = TRUE
    /\ UNCHANGED nthreadsVar

\* omp_set_num_threads; one that asks for more threads creates them at once
SetNumThreads ==
    /\ Joined /\ inRegion' = FALSE
    /\ \E n \in SetSizes : n <= allocSize /\ nthreadsVar' = n
    /\ UNCHANGED <<teamSize, log2TeamSize, allocSize, info, localVars,
                   countVars, pc>>

SetMoreThreads(n) ==
    /\ n \in SetSizes
    /\ Expand(n) /\ inRegion' = FALSE
    /\ nthreadsVar' = n

\* the calls that leave xbarrier_info as it is, and those that rebuild it
KeepInfo == ForkDefault \/ ForkSame \/ SetNumThreads
RebuildInfo(n) == ForkResize(n) \/ ForkExpand(n) \/ SetMoreThreads(n)

-----------------------------------------------------------------------------
(* Calling __ompc_xbarrier_wait *)

Goto(t, label) == pc' = [pc EXCEPT ![t] = label]

\* a team of one returns at once; a program that has crashed calls nothing
Call(t, label) ==
    /\ t \in Team /\ pc[t] = "out" /\ inRegion /\ entered[t] < Episodes
    /\ info # "crash"
    /\ entered' = [entered EXCEPT ![t] = @ + 1]
    /\ Goto(t, IF teamSize = 1 THEN "alone" ELSE label)
    /\ UNCHANGED <<sizeVars, localVars, inRegion, left>>

Leave(t) == left' = [left EXCEPT ![t] = @ + 1] /\ Goto(t, "out")

ReturnAlone(t) ==
    /\ pc[t] = "alone"
    /\ Leave(t)
    /\ UNCHANGED <<sizeVars, localVars, inRegion, entered>>

\* the last statement of DISSEM, TOUR and TREE: only the caller sees it
FlipSense(t) ==
    /\ Leave(t)
    /\ sense' = [sense EXCEPT ![t] = ~@]
    /\ UNCHANGED <<sizeVars, builtFor, parity, inRegion, entered>>

\* a step inside the algorithm
Inside(t, label) == /\ Goto(t, label)
                    /\ UNCHANGED <<sizeVars, localVars, inRegion, countVars>>

-----------------------------------------------------------------------------
(* Two kinds of programs, and what holds between the barriers of the first *)

\* No region gives the team a size that its barrier was not built for: one
\* without num_threads, which rebuilds nothing, finds the size it asks for.
NeverStale == 0 \in ForkSizes => ForkSizes = {0} /\ SetSizes = {}

\* Every region asks for the same number of threads, 0 being the default.
OneSize == SetSizes = {} /\ \E n \in 0..MaxThreads : ForkSizes \subseteq {n}

Label == {"out", "alone"} \cup {"read", "increment", "reset", "toggle", "spin"}
         \cup {"test", "signal"} \cup {"round", "await", "crown"}
         \cup {"gather", "rearm", "report", "notify0", "notify1"}

TypeOK ==
    /\ teamSize \in 1..MaxThreads /\ nthreadsVar \in 1..MaxThreads
    /\ teamSize <= allocSize /\ allocSize \in Nat
    /\ info \in {"null", "built", "crash"}
    /\ builtFor \in [Thread -> Nat] /\ parity \in [Thread -> {0, 1}]
    /\ sense \in [Thread -> BOOLEAN] /\ inRegion \in BOOLEAN
    /\ entered \in [Thread -> Nat] /\ left \in [Thread -> Nat]
    /\ pc \in [Thread -> Label]

\* what is built is built for the team as it is
BuiltInv ==
    /\ 0 \in ForkSizes => nthreadsVar = teamSize
    /\ info = "null" => PerThreadRows /\ teamSize = 1
    /\ info = "built" => /\ log2TeamSize = Log2(teamSize)
                         /\ \A t \in Team : builtFor[t] = teamSize
    /\ \A t \in Thread : pc[t] \notin {"out", "alone"} => info = "built"

\* only members of a team are in a barrier, and each in one at a time
InsideInv == \A t \in Thread :
    /\ t \notin Team => pc[t] = "out"
    /\ pc[t] = "alone" => teamSize = 1
    /\ pc[t] \notin {"out", "alone"} => teamSize > 1
    /\ entered[t] = IF pc[t] = "out" THEN left[t] ELSE left[t] + 1

\* Nobody has left a barrier that a member of the team has not entered.
TogetherInv == \A t, u \in Team : left[t] <= entered[u]
=============================================================================
