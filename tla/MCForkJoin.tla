--------------------------------- MODULE MCForkJoin ---------------------------------
(***************************************************************************)
(* Fork and join for TLC: the level-1 team (ForkJoin) with its team sizes, *)
(* and nested teams (NestedTeams).                                         *)
(***************************************************************************)
EXTENDS ForkJoinProps, TLC

CONSTANT Kinds  \* of {"level1", "nested"}

VARIABLES kind,
    maxNumThreads, nestedSize, nestedTask, nestedArrived, nestedLeft, nestedRegion,
    myId, old, nextSlave, nestedPc, nestedDone

nestedVars == <<maxNumThreads, nestedSize, nestedTask, nestedArrived, nestedLeft,
                nestedRegion, myId, old, nextSlave, nestedPc, nestedDone>>
regionsVars == <<kind, vars, nestedVars>>

\* the team grows while no slave is awake, then shrinks and regrows freely
GrowsFirst == <<{3}, {1, 2, 3}, {1, 2, 3}, {2, 3}>>

\* the team grows after a region
GrowsLater == <<{2}, {3}>>

\* two threads of the level-1 team fork nested regions, the last one without
\* num_threads; the threads that may be created suffice
Asked == (0 :> <<{3}>>) @@ (1 :> <<{1, 2}, {0}>>)
Nested == INSTANCE NestedTeams WITH
    Master <- {0, 1}, MaxSize <- 3, Default <- 2, Requests <- Asked, Budget <- 4,
    size <- nestedSize, newTask <- nestedTask, barrierCount <- nestedArrived,
    exitCount <- nestedLeft, region <- nestedRegion, next <- nextSlave,
    pc <- nestedPc, done <- nestedDone

RegionsInit == kind \in Kinds /\ Init /\ Nested!Init

RunLevel1(A) == kind = "level1" /\ A /\ UNCHANGED <<kind, nestedVars>>
RunNested(A) == kind = "nested" /\ A /\ UNCHANGED <<kind, vars>>

RegionsNext == RunLevel1(Next) \/ RunNested(Nested!Next)

\* every thread keeps running
RegionsSpec ==
    /\ RegionsInit /\ [][RegionsNext]_regionsVars
    /\ WF_regionsVars(RunLevel1(Master))
    /\ \A t \in Slave : WF_regionsVars(RunLevel1(SlaveStep(t)))
    /\ \A t \in Nested!Thread : WF_regionsVars(RunNested(Nested!Step(t)))

\* omp_thread.c:1704-1815 and 1817-1990: so do level-1 and nested teams; see
\* ForkJoinProps and NestedTeams.
ImplementRegions == ImplementsRegion /\ Nested!ImplementRegions
=============================================================================
