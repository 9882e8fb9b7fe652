------------------------------ MODULE SimpleBarrier ------------------------------
(***************************************************************************)
(* SIMPLE_XBARRIER (omp_xbarrier.c:309-330): the last thread to increment  *)
(* barrier_count resets it and toggles barrier_flag; the others spin on    *)
(* the flag.                                                               *)
(***************************************************************************)
EXTENDS XBarrier, FiniteSets

VARIABLES barrierFlag, barrierCount,  \* of the team
          seen                        \* the flag a thread read on entry

simpleVars == <<barrierFlag, barrierCount, seen>>
vars == <<teamVars, simpleVars>>

Init == /\ TeamInit
        /\ barrierFlag = 0 /\ barrierCount = 0 /\ seen = Zero

Enter(t) ==
    /\ Call(t, "read")
    /\ UNCHANGED simpleVars

ReadFlag(t) ==
    /\ pc[t] = "read"
    /\ seen' = [seen EXCEPT ![t] = barrierFlag]
    /\ Inside(t, "increment")
    /\ UNCHANGED <<barrierFlag, barrierCount>>

\* mutant: the count before the increment is compared
IncrementOld(t) ==
    /\ pc[t] = "increment"
    /\ barrierCount' = barrierCount + 1
    /\ Inside(t, IF barrierCount = teamSize THEN "reset" ELSE "spin")
    /\ UNCHANGED <<barrierFlag, seen>>

Increment(t) ==
    /\ pc[t] = "increment"
    /\ barrierCount' = barrierCount + 1
    /\ Inside(t, IF barrierCount + 1 = teamSize THEN "reset" ELSE "spin")
    /\ UNCHANGED <<barrierFlag, seen>>

\* mutant: the last thread forgets the count
KeepCount(t) ==
    /\ pc[t] = "reset"
    /\ Inside(t, "toggle")
    /\ UNCHANGED simpleVars

ResetCount(t) ==
    /\ pc[t] = "reset"
    /\ barrierCount' = 0
    /\ Inside(t, "toggle")
    /\ UNCHANGED <<barrierFlag, seen>>

ToggleFlag(t) ==
    /\ pc[t] = "toggle"
    /\ barrierFlag' = 1 - seen[t]
    /\ Leave(t)
    /\ UNCHANGED <<sizeVars, localVars, inRegion, entered, barrierCount, seen>>

Spin(t) ==
    /\ pc[t] = "spin" /\ barrierFlag # seen[t]
    /\ Leave(t)
    /\ UNCHANGED <<sizeVars, localVars, inRegion, entered, simpleVars>>

Wait(t) == \/ ReadFlag(t) \/ Increment(t) \/ ResetCount(t) \/ ToggleFlag(t)
           \/ Spin(t)
           \/ ReturnAlone(t) /\ UNCHANGED simpleVars

\* a fork has nothing to rebuild; level_1_barrier leaves the count at 0
Fork == (KeepInfo \/ \E n \in Thread : RebuildInfo(n + 1)) /\ UNCHANGED simpleVars

Next == Fork \/ \E t \in Thread : Enter(t) \/ Wait(t)

\* a thread inside a barrier keeps running; it may stay outside for ever
Spec == Init /\ [][Next]_vars /\ \A t \in Thread : WF_vars(Wait(t))

-----------------------------------------------------------------------------
(* Properties *)

\* The count is exactly the number of threads that have incremented it and
\* not yet been released (omp_xbarrier.c:316-328): no increment is lost to
\* the reset, even of a thread already in the next barrier.
Waiting == {t \in Team : pc[t] = "reset" \/ (pc[t] = "spin" /\ seen[t] = barrierFlag)}
CountIsWaiters ==
    barrierCount = IF \E t \in Team : pc[t] = "toggle" THEN 0
                   ELSE Cardinality(Waiting)

(* Why: the inductive invariant *)

SimpleTypeOK ==
    /\ teamSize \in 1..MaxThreads /\ nthreadsVar \in 1..MaxThreads
    /\ barrierFlag \in {0, 1} /\ barrierCount \in Nat
    /\ seen \in [Thread -> {0, 1}]
    /\ entered \in [Thread -> Nat] /\ left \in [Thread -> Nat]
    /\ pc \in [Thread -> Label]

\* the flag a thread has read stays the same until it is counted
FlagInv == \A t \in Thread :
    pc[t] \in {"increment", "reset", "toggle"} => seen[t] = barrierFlag

\* the thread that opens the barrier has all the others waiting
LastInv == \A t \in Thread :
    pc[t] \in {"reset", "toggle"} =>
        \A u \in Team \ {t} : pc[u] = "spin" /\ seen[u] = barrierFlag

\* the barriers that were opened for a thread, whether or not it has left
Opened(t) ==
    IF pc[t] = "spin" /\ seen[t] # barrierFlag THEN left[t] + 1 ELSE left[t]

\* the same ones for everybody
EpisodeInv == \A t, u \in Team : Opened(t) = Opened(u)

IInv == SimpleTypeOK /\ InsideInv /\ FlagInv /\ LastInv /\ CountIsWaiters /\ EpisodeInv
=============================================================================
