------------------------------- MODULE MCBarriers -------------------------------
(***************************************************************************)
(* The barrier O64_OMP_XBARRIER_TYPE chooses when the program starts, with *)
(* team sizes for TLC.  TOUR is checked twice: with the team size of each  *)
(* start, and with a team that grows before its first region.  The other   *)
(* kinds are the barriers and SYNC IMAGES of a coarray program, as         *)
(* TEAM_BARRIER_ALGORITHM and SYNC_IMAGES_ALGORITHM choose them.           *)
(***************************************************************************)
EXTENDS Naturals, FiniteSets

CONSTANTS
    MaxThreads, Episodes, CoarrayEpisodes,
    InitSizes, ForkSizes, SetSizes  \* of each kind, as in XBarrier

VARIABLES
    xbarrierType,
    teamSize, log2TeamSize, allocSize, nthreadsVar, info, builtFor, parity, sense,
    inRegion, entered, left, pc,
    barrierFlag, barrierCount, seen,    \* SIMPLE
    flag, round,                        \* TOUR and DISSEM: a union in the code
    championSense,                      \* TOUR
    childNotReady, wakeupSense,         \* TREE
    nodeFlag, stopped,                  \* CoarrayBarrier
    named, list, at, todo, check, got, net   \* SyncImages

simpleVars == <<barrierFlag, barrierCount, seen>>
roundVars == <<flag, round>>
treeVars == <<childNotReady, wakeupSense>>
nodeVars == <<nodeFlag, stopped>>
imageVars == <<named, list, at, todo, check, got, net>>
coarrayVars == <<nodeVars, imageVars>>
xVars == <<log2TeamSize, allocSize, nthreadsVar, info, builtFor, inRegion>>
vars == <<coarrayVars, xbarrierType, teamSize, log2TeamSize, allocSize, nthreadsVar, info,
          builtFor, parity, sense, inRegion, entered, left, pc,
          simpleVars, roundVars, championSense, treeVars>>

Simple == INSTANCE SimpleBarrier WITH PerThreadRows <- FALSE,
    InitSizes <- InitSizes["simple"], ForkSizes <- ForkSizes["simple"],
    SetSizes <- SetSizes["simple"]
Dissem == INSTANCE DissemBarrier WITH PerThreadRows <- TRUE,
    InitSizes <- InitSizes["dissem"], ForkSizes <- ForkSizes["dissem"],
    SetSizes <- SetSizes["dissem"]
Tour(k) == INSTANCE TourBarrier WITH PerThreadRows <- TRUE,
    InitSizes <- InitSizes[k], ForkSizes <- ForkSizes[k], SetSizes <- SetSizes[k]
Tree == INSTANCE TreeBarrier WITH PerThreadRows <- FALSE,
    InitSizes <- InitSizes["tree"], ForkSizes <- ForkSizes["tree"],
    SetSizes <- SetSizes["tree"]

TourKinds == {"tour", "tourGrown"}

OwnNode(i) == i
FirstThree(i) == IF i < 3 THEN 0 ELSE i
Team == INSTANCE CoarrayBarrier WITH Image <- 0..(MaxThreads - 1), Sizes <- {2, 4},
    Node <- OwnNode, Counting <- FALSE, Chars <- 4, Episodes <- CoarrayEpisodes,
    MaxStopped <- 1
Flagged == INSTANCE CoarrayBarrier WITH Image <- 0..(MaxThreads - 1), Sizes <- {3, 4},
    Node <- FirstThree, Counting <- FALSE, Chars <- 4, Episodes <- CoarrayEpisodes,
    MaxStopped <- 1
Counted == INSTANCE CoarrayBarrier WITH Image <- 0..(MaxThreads - 1), Sizes <- {3, 4},
    Node <- FirstThree, Counting <- TRUE, Chars <- 4, Episodes <- CoarrayEpisodes,
    MaxStopped <- 1

FirstTwo(i, j) == {i, j} = {0, 1}
Counter == INSTANCE SyncImages WITH Image <- 0..2, Callers <- {0, 2}, Near <- FirstTwo,
    Algorithm <- "counter", Statements <- 3, Chars <- 4
PingPong == INSTANCE SyncImages WITH Image <- 0..2, Callers <- {0, 1}, Near <- FirstTwo,
    Algorithm <- "ping_pong", Statements <- 4, Chars <- 4
SenseRev == INSTANCE SyncImages WITH Image <- 0..2, Callers <- {0, 1}, Near <- FirstTwo,
    Algorithm <- "sense_rev", Statements <- 4, Chars <- 4
Csr == INSTANCE SyncImages WITH Image <- 0..2, Callers <- 0..2, Near <- FirstTwo,
    Algorithm <- "csr", Statements <- 2, Chars <- 4

ASSUME Sizes == /\ Simple!SizesOK /\ Dissem!SizesOK /\ Tree!SizesOK
                /\ \A k \in TourKinds : Tour(k)!SizesOK
                /\ Episodes <= CoarrayEpisodes /\ CoarrayEpisodes \in Nat

SyncKinds == {"counter", "ping_pong", "sense_rev", "csr"}

TB == INSTANCE TeamBarrier WITH Thread <- 0..(MaxThreads - 1), Episodes <- CoarrayEpisodes
PS == INSTANCE PairSync WITH Image <- 0..2,
    partners <- IF xbarrierType \in SyncKinds THEN Csr!Partners ELSE [i \in 0..2 |-> {}]

NoSimple == barrierFlag = 0 /\ barrierCount = 0 /\ seen = 0
NoRounds == flag = 0 /\ round = 0
NoChampion == championSense = FALSE
NoTree == childNotReady = 0 /\ wakeupSense = 0
NoNodes == nodeFlag = 0 /\ stopped = 0
NoPairs == /\ named = Csr!Pairs /\ list = 0 /\ at = 0 /\ todo = 0
           /\ check = 0 /\ got = 0 /\ net = 0
NoForks == /\ log2TeamSize = 0 /\ allocSize = 0 /\ nthreadsVar = 0 /\ info = 0
           /\ builtFor = 0 /\ inRegion = FALSE
NoBarrier == /\ NoForks /\ NoNodes
             /\ teamSize = 1 /\ entered = TB!Zero /\ left = TB!Zero
             /\ parity = 0 /\ round = 0

Init ==
    \/ /\ NoNodes /\ NoPairs
       /\ \/ /\ xbarrierType = "simple" /\ Simple!Init
             /\ NoRounds /\ NoChampion /\ NoTree
          \/ /\ xbarrierType = "dissem" /\ Dissem!Init
             /\ NoSimple /\ NoChampion /\ NoTree
          \/ /\ \E k \in TourKinds : xbarrierType = k /\ Tour(k)!Init
             /\ NoSimple /\ NoTree
          \/ /\ xbarrierType = "tree" /\ Tree!Init
             /\ NoSimple /\ NoRounds /\ NoChampion
    \/ /\ NoSimple /\ NoChampion /\ NoTree
       /\ \/ /\ NoForks /\ NoPairs
             /\ \/ xbarrierType = "team" /\ Team!Init
                \/ xbarrierType \in {"flagged", "counted"} /\ Flagged!Init
          \/ /\ NoBarrier
             /\ xbarrierType \in SyncKinds /\ Csr!Init

Chosen(type) == xbarrierType = type /\ UNCHANGED xbarrierType

RunSimple(A) == /\ Chosen("simple") /\ A
                /\ UNCHANGED <<roundVars, championSense, treeVars, coarrayVars>>
RunDissem(A) == /\ Chosen("dissem") /\ A
                /\ UNCHANGED <<simpleVars, championSense, treeVars, coarrayVars>>
RunTour(k, A) == Chosen(k) /\ A /\ UNCHANGED <<simpleVars, treeVars, coarrayVars>>
RunTree(A) == /\ Chosen("tree") /\ A
              /\ UNCHANGED <<simpleVars, roundVars, championSense, coarrayVars>>
RunTeam(type, A) == /\ Chosen(type) /\ A
                    /\ UNCHANGED <<simpleVars, championSense, treeVars, xVars, imageVars>>
RunImages(type, A) == /\ Chosen(type) /\ A
                      /\ UNCHANGED <<simpleVars, championSense, treeVars, xVars, nodeVars,
                                     teamSize, entered, left, parity, round>>

Next == \/ RunSimple(Simple!Next) \/ RunDissem(Dissem!Next)
        \/ \E k \in TourKinds : RunTour(k, Tour(k)!Next)
        \/ RunTree(Tree!Next)
        \/ RunTeam("team", Team!Next)
        \/ RunTeam("flagged", Flagged!Next) \/ RunTeam("counted", Counted!Next)
        \/ RunImages("counter", Counter!Next) \/ RunImages("ping_pong", PingPong!Next)
        \/ RunImages("sense_rev", SenseRev!Next) \/ RunImages("csr", Csr!Next)

Wait(t) == \/ RunSimple(Simple!Wait(t)) \/ RunDissem(Dissem!Wait(t))
           \/ \E k \in TourKinds : RunTour(k, Tour(k)!Wait(t))
           \/ RunTree(Tree!Wait(t))
           \/ RunTeam("team", Team!Wait(t))
           \/ RunTeam("flagged", Flagged!Wait(t)) \/ RunTeam("counted", Counted!Wait(t))

Progress(i) == \/ RunImages("counter", Counter!Progress(i))
               \/ RunImages("ping_pong", PingPong!Progress(i))
               \/ RunImages("sense_rev", SenseRev!Progress(i))
               \/ RunImages("csr", Csr!Progress(i))
Landing(i) == \/ RunImages("counter", Counter!Landing(i))
              \/ RunImages("ping_pong", PingPong!Landing(i))
              \/ RunImages("sense_rev", SenseRev!Landing(i))
              \/ RunImages("csr", Csr!Landing(i))

Thread == 0..(MaxThreads - 1)

\* a thread or image inside a barrier or statement keeps running, and what an
\* image sends lands; it may stay outside for ever
Spec == /\ Init /\ [][Next]_vars
        /\ \A t \in Thread : WF_vars(Wait(t))
        /\ \A i \in 0..2 : WF_vars(Progress(i)) /\ WF_vars(Landing(i))

-----------------------------------------------------------------------------
(* Properties; those of one algorithm are stated in its module *)

\* omp_xbarrier.c:309-431, gasnet_comm_layer.c:4257-4613: whichever algorithm
\* runs, no thread or image leaves its k-th barrier before all have entered it,
\* and all leave once all have, whatever images stop and give up in between.
\* gasnet_comm_layer.c:4643-5165: SYNC IMAGES matches pairs of images.
ImplementsTeamBarrier == TB!Spec /\ PS!Spec

\* omp_xbarrier.c:316-328: the count is the number of waiting threads.
CountIsWaiters == xbarrierType = "simple" => Simple!CountIsWaiters

\* omp_xbarrier.c:349-360: no signal overwrites one still awaited.
NoSignalOverwritten == xbarrierType = "dissem" => Dissem!NoSignalOverwritten

\* omp_xbarrier.c:363-400: the tournament starts every region closed.
ClosedBetweenRegions ==
    \A k \in TourKinds : xbarrierType = k => Tour(k)!ClosedBetweenRegions

\* omp_xbarrier.c:415-421: a node sets no report of its children back.
NoReportLost == xbarrierType = "tree" => Tree!NoReportLost

(* What the proofs assume of the sizes, and the inductive invariants *)

Survives == Dissem!NeverStale /\ Tree!NeverStale /\ \A k \in TourKinds : Tour(k)!OneSize

IInv == /\ xbarrierType = "simple" => Simple!IInv
        /\ xbarrierType = "dissem" => Dissem!IInv
        /\ \A k \in TourKinds : xbarrierType = k => Tour(k)!IInv
        /\ xbarrierType = "tree" => Tree!IInv

-----------------------------------------------------------------------------
(* The programs of the run *)

RunInitSizes == [k \in {"simple", "dissem", "tree"} \cup TourKinds |->
    CASE k = "simple" -> {1, 3} [] k = "dissem" -> {3} [] k = "tree" -> {2}
      [] k = "tour" -> {1, 2, 3, 6} [] k = "tourGrown" -> {2}]
RunForkSizes == [k \in DOMAIN RunInitSizes |->
    CASE k = "simple" -> {0, 1, 2, 4} [] k = "dissem" -> {2, 3, 5}
      [] k = "tree" -> {1, 2, 4, 6} [] k = "tour" -> {0} [] k = "tourGrown" -> {5}]
RunSetSizes == [k \in DOMAIN RunInitSizes |-> IF k = "simple" THEN {2, 4} ELSE {}]
=============================================================================
