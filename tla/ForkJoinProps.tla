------------------------------- MODULE ForkJoinProps -------------------------------
(***************************************************************************)
(* Properties of ForkJoin: nobody sleeps through a wake-up, the counters   *)
(* of the end barrier are reset in time, and every region is executed as   *)
(* ParallelRegion promises.                                                *)
(***************************************************************************)
EXTENDS ForkJoin, FiniteSets

\* omp_thread.c:1173-1181 and 1784-1786: no slave sleeps while there is a task
\* it has not seen; 1045-1063: the master sleeps only while the last slave's
\* signal is still to come.
NoLostWakeup ==
    /\ \A t \in Slave : pc[t] = "asleep" => newTask = seen[t]
    /\ pc[0] = "asleep" =>
          exitCount # limit[0] \/ \E t \in Slave : pc[t] = "signal"

\* omp_thread.c:1042-1057: the counters are reset when no thread can still
\* look at them, and the next region's first arrival finds them at 0.
CountersAtRest ==
    /\ pc[0] \in {"serial", "setSize", "realloc"} => barrierCount = 0 /\ exitCount = 0
    /\ pc[0] \in {"resetExit", "resetBarrier", "serial"} =>
          \A t \in Slave : pc[t] \notin {"body", "clear", "arrive", "meet", "leave"}

\* omp_thread.c:1188-1190: slaves use the array that holds them now.
NoFreedAccess == ~freedAccess

-----------------------------------------------------------------------------
(* The inductive invariant.  A slave is busy from the assignment of its    *)
(* entry_func to its leaving the barrier; while a region runs, the exit    *)
(* count and the busy slaves account for the whole team.                   *)

Outside == {"serial", "realloc", "refresh", "awaitThreads", "setSize"}
Ending == {"join", "asleep", "resetExit"}
MasterLabels == Outside \cup Ending \cup
    {"assign", "start", "body", "arrive", "meet", "leave", "resetBarrier"}
SlaveLabels == {"none", "create", "created", "idle", "asleep", "woken", "attached",
                "body", "clear", "arrive", "meet", "leave", "signal", "rest"}

LabelsOK ==
    /\ pc \in [Thread -> MasterLabels \cup SlaveLabels]
    /\ pc[0] \in MasterLabels /\ \A t \in Slave : pc[t] \in SlaveLabels
DataOK ==
    /\ newTask \in Nat /\ entry \in [Thread -> Nat] /\ region \in Nat
    /\ teamSize \in 1..MaxThreads /\ allocSize \in 1..MaxThreads
    /\ pthreadCount \in Nat /\ barrierCount \in Nat /\ exitCount \in Nat
    /\ seen \in [Thread -> Nat] /\ work \in [Thread -> Nat] /\ limit \in [Thread -> Nat]
    /\ next \in [size : 1..MaxThreads, i : 0..MaxThreads]
    /\ done \in [Thread -> Seq(Nat)]
TypeOK == LabelsOK /\ DataOK /\ freed \in BOOLEAN /\ freedAccess \in BOOLEAN

IsBusy(t) == entry[t] # 0 \/ pc[t] \in {"arrive", "meet", "leave"}
Busy == {t \in Slave : IsBusy(t)}

Assigned == IF pc[0] = "assign" THEN (IF next.i = 0 THEN 0 ELSE next.i - 1)
            ELSE IF pc[0] \in Outside \cup {"resetBarrier"} THEN 0 ELSE teamSize - 1
Balance ==
    exitCount + Cardinality(Busy) = Assigned + (IF pc[0] \in Ending THEN 1 ELSE 0)

EntryInv == \A t \in Slave :
    /\ pc[t] \in {"body", "clear"} => entry[t] # 0
    /\ pc[t] \in {"arrive", "meet", "leave"} => entry[t] = 0
AssignInv ==
    /\ pc[0] \in Outside \ {"serial"} => next.i = 0
    /\ pc[0] = "assign" =>
          region > 0 /\ next.i < teamSize /\ \A t \in Busy : t < next.i
LimitInv ==
    /\ \A t \in Slave : pc[t] \in {"meet", "leave"} => limit[t] = teamSize
    /\ pc[0] \in {"meet", "leave", "join", "asleep"} => limit[0] = teamSize
QuietInv == pc[0] \in Outside \cup {"resetExit", "resetBarrier"} => Busy = {}
ResetInv == pc[0] \in Outside => barrierCount = 0

CountInv == EntryInv /\ AssignInv /\ LimitInv /\ QuietInv /\ ResetInv /\ Balance
IInv == TypeOK /\ CountInv /\ NoLostWakeup

-----------------------------------------------------------------------------
(* Refinement *)

Inside == pc[0] \notin Outside
Fresh(t) == \A i \in DOMAIN done[t] : done[t][i] # region
Todo == {t \in Thread : Inside /\ t < teamSize /\ Fresh(t)}

(* Where each thread is with the present region: an assigned slave has it  *)
(* still to execute until it is about to clear its entry_func.             *)
InTrace(t) ==
    /\ entry[t] # 0 => entry[t] = region /\ t < teamSize
    /\ entry[t] # 0 => (pc[t] = "clear" <=> ~Fresh(t))
    /\ pc[t] = "body" => work[t] = region
    /\ Inside /\ t < teamSize /\ entry[t] = 0 /\ Fresh(t) =>
          pc[0] = "assign" /\ t >= next.i
    /\ pc[0] = "assign" /\ t >= next.i => Fresh(t)
TraceInv ==
    /\ \A t \in Thread : \A i \in DOMAIN done[t] : done[t][i] <= region
    /\ \A t \in Slave : InTrace(t)
    /\ Inside => (Fresh(0) <=> pc[0] \in {"assign", "start", "body"})
    /\ pc[0] = "body" => work[0] = region

Region == INSTANCE ParallelRegion WITH Size <- 1..MaxThreads, inside <- Inside,
    todo <- Todo

\* omp_thread.c:1704-1815: every member of the team executes every region once,
\* nobody else does, and the master leaves __ompc_fork when all have.
ImplementsRegion == Region!Spec
=============================================================================
