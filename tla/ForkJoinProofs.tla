------------------------------ MODULE ForkJoinProofs ------------------------------
(***************************************************************************)
(* Proofs about fork and join, for any number of threads, any initial team *)
(* and any sequence of team sizes: IInv is an invariant, nobody sleeps     *)
(* through a wake-up, and the counters are reset when nobody looks at them.*)
(***************************************************************************)
EXTENDS ForkJoinProps, FiniteSetTheorems, TLAPS

-----------------------------------------------------------------------------
(* The threads, and the set of slaves that are busy in a region. *)

(* Thread 0 is the master; team sizes are numbers of threads. *)
LEMMA Threads ==
    /\ 0 \in Thread /\ MaxThreads \in Nat /\ Slave \subseteq Thread /\ 0 \notin Slave
    /\ \A t \in Thread : t \in Nat /\ t < MaxThreads
    /\ InitSize \in 1..MaxThreads
    /\ \A r \in Nat : r < Len(Sizes) => Sizes[r + 1] \subseteq 1..MaxThreads
<1>1. \A r \in Nat : r < Len(Sizes) => Sizes[r + 1] \in SUBSET (1..MaxThreads)
    BY SizesAssumption
<1> QED
    BY <1>1, SizesAssumption DEF Thread, Slave

(* The exit count is compared with the size of a finite set. *)
LEMMA BusyFinite ==
    /\ IsFiniteSet(Busy) /\ Cardinality(Busy) \in Nat
    /\ Cardinality(Busy) = 0 <=> Busy = {}
<1>1. IsFiniteSet(Slave)
    <2>1. IsFiniteSet(Thread)
        BY Threads, FS_Interval DEF Thread
    <2> QED
        BY <2>1, Threads, FS_Subset
<1>2. IsFiniteSet(Busy)
    BY <1>1, FS_Subset DEF Busy
<1> QED
    BY <1>2, FS_CardinalityType, FS_EmptySet

-----------------------------------------------------------------------------
(* Initial states, and how threads move between labels *)

(* The initial values of __ompc_init_rtl. *)
LEMMA InitTyped == Init => IInv
<1> SUFFICES ASSUME Init PROVE IInv
    OBVIOUS
<1>1. TypeOK
    BY Threads DEF Init, TypeOK, LabelsOK, DataOK, MasterLabels, SlaveLabels,
       Outside, Ending, Slave
<1>2. Busy = {}
    BY Threads DEF Init, Busy, IsBusy, Slave
<1>3. pc[0] = "serial" /\ \A t \in Slave : pc[t] \in {"idle", "none"}
    BY Threads DEF Init, Slave
<1>4. Balance
    BY <1>2, <1>3, BusyFinite DEF Init, Balance, Assigned, Outside, Ending
<1>5. NoLostWakeup /\ EntryInv /\ LimitInv
    BY <1>3 DEF NoLostWakeup, EntryInv, LimitInv
<1>6. AssignInv /\ QuietInv /\ ResetInv
    BY <1>2, <1>3 DEF Init, AssignInv, QuietInv, ResetInv, Outside
<1> QED
    BY <1>1, <1>4, <1>5, <1>6 DEF IInv, CountInv

(* A thread moves to another label; the others stay where they are. *)
LEMMA Moves ==
    ASSUME LabelsOK, NEW t \in Thread, NEW l, Goto(t, l),
           t = 0 => l \in MasterLabels, t # 0 => l \in SlaveLabels
    PROVE  /\ LabelsOK' /\ pc'[t] = l
           /\ \A u \in Thread : u # t => pc'[u] = pc[u]
<1>1. l \in MasterLabels \cup SlaveLabels
    OBVIOUS
<1>2. pc' = [pc EXCEPT ![t] = l] /\ pc \in [Thread -> MasterLabels \cup SlaveLabels]
    BY DEF Goto, LabelsOK
<1>3. pc' \in [Thread -> MasterLabels \cup SlaveLabels]
    BY <1>1, <1>2
<1>4. pc'[t] = l /\ \A u \in Thread : u # t => pc'[u] = pc[u]
    BY <1>2
<1> QED
    BY <1>3, <1>4, Threads DEF LabelsOK, Slave

(* Where the master goes, and that nobody else moves with it. *)
LEMMA MasterMoves ==
    ASSUME LabelsOK,
           Master \/ \E n \in 1..MaxThreads : Fork(n), ~Refresh, ~Start
    PROVE  LabelsOK' /\ \A u \in Slave : pc'[u] = pc[u]
<1> USE Threads DEF MasterLabels, Outside, Ending, Slave
<1>1. CASE \E n \in 1..MaxThreads : Fork(n)
    BY <1>1, Moves DEF Fork
<1>2. CASE Realloc \/ AwaitThreads \/ SetSize
    BY <1>2, Moves DEF Realloc, AwaitThreads, SetSize
<1>3. CASE Assign
    BY <1>3, Moves DEF Assign
<1>4. CASE Body(0) \/ Arrive(0)
    BY <1>4, Moves DEF Body, Arrive
<1>5. CASE Meet(0) \/ Leave(0)
    BY <1>5, Moves DEF Meet, Leave
<1>6. CASE SleepJoin \/ Join \/ ResetExit \/ ResetBarrier
    BY <1>6, Moves DEF SleepJoin, Join, ResetExit, ResetBarrier
<1> QED
    BY <1>1, <1>2, <1>3, <1>4, <1>5, <1>6 DEF Master

(* __ompc_expand_level_1_team creates threads; the broadcast of __ompc_fork
   wakes whoever sleeps. *)
LEMMA RefreshMoves ==
    ASSUME LabelsOK, Refresh
    PROVE  /\ LabelsOK' /\ pc'[0] = "awaitThreads"
           /\ \A u \in Slave : pc'[u] \in {pc[u], "create"}
<1>1. /\ pc' \in [Thread -> {"awaitThreads", "create"} \cup {pc[u] : u \in Slave}]
      /\ pc'[0] = "awaitThreads"
      /\ \A u \in Slave : pc'[u] \in {pc[u], "create"}
    BY Threads DEF Refresh, Slave
<1>2. "create" \in SlaveLabels /\ "awaitThreads" \in MasterLabels
    BY DEF SlaveLabels, MasterLabels, Outside
<1> QED
    BY <1>1, <1>2, Threads DEF LabelsOK, Slave

LEMMA StartMoves ==
    ASSUME LabelsOK, Start
    PROVE  /\ LabelsOK' /\ pc'[0] = "body"
           /\ \A u \in Slave : pc'[u] = pc[u] \/ (pc[u] = "asleep" /\ pc'[u] = "idle")
           /\ teamSize > 1 => \A u \in Slave : pc'[u] # "asleep"
<1>1. "idle" \in SlaveLabels /\ "body" \in MasterLabels
    BY DEF SlaveLabels, MasterLabels
<1>2. CASE teamSize > 1
    <2>1. pc' = [u \in Thread |-> IF u = 0 THEN "body"
                                  ELSE IF pc[u] = "asleep" THEN "idle" ELSE pc[u]]
        BY <1>2 DEF Start
    <2> QED
        BY <1>1, <2>1, Threads DEF LabelsOK, Slave
<1>3. CASE ~(teamSize > 1)
    <2>1. Goto(0, "body")
        BY <1>3 DEF Start
    <2> QED
        BY <1>1, <1>3, <2>1, Threads, Moves DEF Slave
<1> QED
    BY <1>2, <1>3

(* A slave's step moves that slave; only the last slave's signal moves the
   master too. *)
LEMMA SlaveMoves ==
    ASSUME LabelsOK, NEW t \in Slave, SlaveStep(t) \/ Spurious(t)
    PROVE  /\ LabelsOK' /\ \A u \in Slave : u # t => pc'[u] = pc[u]
           /\ ~Signal(t) => pc'[0] = pc[0]
           /\ Signal(t) => /\ pc'[t] = "rest"
                           /\ pc'[0] = IF pc[0] = "asleep" THEN "join" ELSE pc[0]
<1> USE Threads DEF SlaveLabels, Slave
<1>1. CASE Create(t) \/ Created(t) \/ Sleep(t) \/ SeeTask(t)
    BY <1>1, Moves DEF Create, Created, Sleep, SeeTask, Signal
<1>2. CASE Attach(t)
    BY <1>2, Moves DEF Attach, Signal
<1>3. CASE ReadEntry(t)
    BY <1>3, Moves DEF ReadEntry, Signal
<1>4. CASE Body(t)
    BY <1>4, Moves DEF Body, Signal
<1>5. CASE Clear(t) \/ Rest(t)
    BY <1>5, Moves DEF Clear, Rest, Signal
<1>6. CASE Arrive(t) \/ Meet(t)
    BY <1>6, Moves DEF Arrive, Meet, Signal
<1>7. CASE Leave(t)
    BY <1>7, Moves DEF Leave, Signal
<1>8. CASE Spurious(t)
    BY <1>8, Moves DEF Spurious, Signal
<1>9. CASE Signal(t)
    BY <1>9 DEF Signal, LabelsOK, MasterLabels, Ending
<1> QED
    BY <1>1, <1>2, <1>3, <1>4, <1>5, <1>6, <1>7, <1>8, <1>9 DEF SlaveStep

(* The master's spurious wake-up. *)
LEMMA MasterWakes ==
    ASSUME LabelsOK, Spurious(0)
    PROVE  LabelsOK' /\ pc[0] = "asleep" /\ pc'[0] = "join"
           /\ \A u \in Slave : pc'[u] = pc[u]
BY Threads, Moves DEF Spurious, MasterLabels, Ending, Slave

-----------------------------------------------------------------------------
(* Typing *)

(* Every step keeps counters, locals and the traces of regions typed. *)
LEMMA DataTyped ==
    ASSUME IInv, [Next]_vars PROVE DataOK'
<1>0. DataOK /\ Slave \subseteq Thread /\ 0 \in Thread /\ MaxThreads \in Nat
    BY Threads DEF IInv, TypeOK
<1> USE <1>0 DEF DataOK, teamVars, arrayVars, counterVars, localVars
<1>1. ASSUME NEW n \in 1..MaxThreads, Fork(n) PROVE DataOK'
    BY <1>1 DEF Fork
<1>2. CASE Realloc \/ Refresh
    BY <1>2 DEF Realloc, Refresh
<1>14. CASE AwaitThreads \/ SetSize
    <2>1. next.size \in 1..MaxThreads
        OBVIOUS
    <2>2. CASE AwaitThreads
        BY <2>2 DEF AwaitThreads
    <2>3. CASE SetSize
        <3>1. /\ teamSize' = next.size /\ region' = region + 1
              /\ UNCHANGED <<newTask, entry, allocSize, pthreadCount, barrierCount, exitCount,
                             seen, work, limit, next, done>>
            BY <2>3 DEF SetSize
        <3>2. teamSize' \in 1..MaxThreads /\ region' \in Nat
            BY <2>1, <3>1
        <3> QED
            BY <3>1, <3>2
    <2> QED
        BY <1>14, <2>2, <2>3
<1>3. CASE Assign
    <2>1. next.i + 1 \in 0..MaxThreads /\ next.i \in 0..MaxThreads
        BY <1>3 DEF Assign, IInv, CountInv, AssignInv
    <2>2. next' \in [size : 1..MaxThreads, i : 0..MaxThreads]
        <3>1. next' = [next EXCEPT !.i = next.i + 1]
            BY <1>3 DEF Assign
        <3> QED
            BY <2>1, <3>1
    <2>3. entry' \in [Thread -> Nat]
        BY <1>3 DEF Assign
    <2> QED
        BY <1>3, <2>2, <2>3 DEF Assign
<1>4. CASE Start
    <2>1. newTask' \in Nat /\ work' \in [Thread -> Nat]
        BY <1>4 DEF Start
    <2> QED
        BY <1>4, <2>1 DEF Start
<1>5. ASSUME NEW t \in Thread, Body(t) PROVE DataOK'
    BY <1>5 DEF Body
<1>6. ASSUME NEW t \in Thread, Arrive(t) \/ Meet(t) \/ Leave(t) PROVE DataOK'
    <2>1. teamSize \in Nat
        BY Threads
    <2>2. CASE Arrive(t)
        BY <1>6, <2>1, <2>2 DEF Arrive
    <2>3. CASE Meet(t)
        BY <1>6, <2>3 DEF Meet
    <2>4. CASE Leave(t)
        <3>1. exitCount' \in Nat /\ UNCHANGED <<barrierCount, next, done>>
            BY <2>4 DEF Leave
        <3>2. UNCHANGED <<newTask, entry, teamSize, region, allocSize, pthreadCount,
                          seen, work, limit>>
            BY <2>4 DEF Leave
        <3> QED
            BY <3>1, <3>2
    <2> QED
        BY <1>6, <2>2, <2>3, <2>4
<1>7. CASE SleepJoin \/ Join \/ ResetExit \/ ResetBarrier
    <2>1. CASE SleepJoin \/ Join
        BY <2>1 DEF SleepJoin, Join
    <2>2. CASE ResetExit
        BY <2>2 DEF ResetExit
    <2>3. CASE ResetBarrier
        BY <2>3 DEF ResetBarrier
    <2> QED
        BY <1>7, <2>1, <2>2, <2>3
<1>8. ASSUME NEW t \in Slave, Create(t) \/ Created(t) \/ Attach(t) PROVE DataOK'
    <2>1. CASE Created(t)
        BY <2>1 DEF Created
    <2>2. CASE Create(t) \/ Attach(t)
        BY <2>2 DEF Create, Attach
    <2> QED
        BY <1>8, <2>1, <2>2
<1>9. ASSUME NEW t \in Slave, Sleep(t) \/ SeeTask(t) \/ Signal(t) PROVE DataOK'
    BY <1>9 DEF Sleep, SeeTask, Signal
<1>10. ASSUME NEW t \in Slave, ReadEntry(t) \/ Clear(t) \/ Rest(t) PROVE DataOK'
    <2>1. CASE ReadEntry(t)
        BY <1>10, <2>1 DEF ReadEntry
    <2>2. CASE Clear(t)
        BY <1>10, <2>2 DEF Clear
    <2>3. CASE Rest(t)
        BY <1>10, <2>3 DEF Rest
    <2> QED
        BY <1>10, <2>1, <2>2, <2>3
<1>11. ASSUME NEW t \in Thread, Spurious(t) PROVE DataOK'
    BY <1>11 DEF Spurious
<1>12. CASE UNCHANGED vars
    BY <1>12 DEF vars
<1>13. CASE region < Len(Sizes) /\ \E n \in Sizes[region + 1] : Fork(n)
    BY <1>1, <1>13, Threads
<1>15. CASE Master
    BY <1>2, <1>3, <1>4, <1>5, <1>6, <1>7, <1>14, <1>15 DEF Master
<1>16. ASSUME NEW t \in Slave, SlaveStep(t) PROVE DataOK'
    BY <1>5, <1>6, <1>8, <1>9, <1>10, <1>16 DEF SlaveStep
<1> QED
    BY <1>11, <1>12, <1>13, <1>15, <1>16 DEF Next, Done

(* pc stays in the labels of its thread. *)
LEMMA LabelsTyped ==
    ASSUME IInv, [Next]_vars PROVE LabelsOK'
<1>1. LabelsOK
    BY DEF IInv, TypeOK
<1>2. CASE Master
    BY <1>1, <1>2, MasterMoves, RefreshMoves, StartMoves
<1>3. CASE \E t \in Slave : SlaveStep(t)
    BY <1>1, <1>3, SlaveMoves
<1>4. CASE \E t \in Thread : Spurious(t)
    BY <1>1, <1>4, SlaveMoves, MasterWakes DEF Slave
<1>5. CASE region < Len(Sizes) /\ \E n \in Sizes[region + 1] : Fork(n)
    <2>1. \E n \in 1..MaxThreads : Fork(n)
        BY <1>5, Threads DEF IInv, TypeOK, DataOK
    <2>2. ~Refresh /\ ~Start
        BY <2>1 DEF Fork, Refresh, Start
    <2> QED
        BY <1>1, <2>1, <2>2, MasterMoves
<1>6. CASE UNCHANGED vars
    BY <1>1, <1>6 DEF vars, LabelsOK
<1> QED
    BY <1>2, <1>3, <1>4, <1>5, <1>6 DEF Next, Done

(* The flags that mark the freed array. *)
LEMMA FlagsTyped ==
    ASSUME IInv, [Next]_vars PROVE freed' \in BOOLEAN /\ freedAccess' \in BOOLEAN
<1>1. freed \in BOOLEAN /\ freedAccess \in BOOLEAN
    BY DEF IInv, TypeOK
<1>2. Realloc \/ Refresh \/ UNCHANGED freed
    BY DEF Next, Master, SlaveStep, Done, vars, arrayVars, Fork, AwaitThreads, SetSize,
       Assign, Start, Body, Arrive, Meet, Leave, SleepJoin, Join, ResetExit,
       ResetBarrier, Create, Created, Sleep, SeeTask, Attach, ReadEntry, Clear, Signal,
       Rest, Spurious
<1>3. Touch \/ UNCHANGED freedAccess
    BY DEF Next, Master, SlaveStep, Done, vars, Fork, Realloc, Refresh, AwaitThreads,
       SetSize, Assign, Start, Body, Arrive, Meet, Leave, SleepJoin, Join, ResetExit,
       ResetBarrier, Create, Created, Sleep, SeeTask, Attach, ReadEntry, Clear, Signal,
       Rest, Spurious
<1>4. freed' \in BOOLEAN
    BY <1>1, <1>2 DEF Realloc, Refresh
<1>5. freedAccess' \in BOOLEAN
    BY <1>1, <1>3, Zenon DEF Touch
<1> QED
    BY <1>4, <1>5

-----------------------------------------------------------------------------
(* The slaves' steps and the counts *)

InRegion == {"body", "clear", "arrive", "meet", "leave"}

(* Steps that take no slave into or out of a region and touch no counter:
   sleeping, waking, looking at new_task, signalling, and their kind. *)
LEMMA StepsOutside ==
    ASSUME IInv,
           UNCHANGED <<entry, teamSize, region, barrierCount, exitCount, limit, next>>,
           \A u \in Slave : pc'[u] = pc[u] \/ {pc[u], pc'[u]} \cap InRegion = {},
           pc'[0] = pc[0] \/ {pc[0], pc'[0]} \subseteq {"asleep", "join"}
    PROVE  CountInv'
<1>1. Busy' = Busy
    BY DEF Busy, IsBusy, InRegion
<1>2. EntryInv'
    BY DEF IInv, CountInv, EntryInv, InRegion
<1>3. LimitInv'
    BY DEF IInv, CountInv, LimitInv, InRegion
<1>4. AssignInv' /\ QuietInv' /\ ResetInv'
    BY <1>1 DEF IInv, CountInv, AssignInv, QuietInv, ResetInv, Outside
<1>5. Balance'
    BY <1>1 DEF IInv, CountInv, Balance, Assigned, Outside, Ending
<1> QED
    BY <1>2, <1>3, <1>4, <1>5 DEF CountInv

(* A slave takes up its entry_func, executes it and clears it. *)
LEMMA SlaveBody ==
    ASSUME IInv, NEW t \in Slave, ReadEntry(t) \/ Body(t) \/ Clear(t)
    PROVE  CountInv'
<1>1. LabelsOK /\ DataOK /\ EntryInv
    BY DEF IInv, TypeOK, CountInv
<1>2. /\ pc'[0] = pc[0] /\ \A u \in Slave : u # t => pc'[u] = pc[u]
    BY <1>1, SlaveMoves DEF SlaveStep, ReadEntry, Body, Clear, Signal
<1>3. UNCHANGED <<teamSize, region, barrierCount, exitCount, limit, next>>
    BY DEF ReadEntry, Body, Clear, teamVars, counterVars, localVars
<1>4. /\ pc[t] \notin {"arrive", "meet", "leave"}
      /\ IF Clear(t) THEN pc'[t] = "arrive" /\ entry[t] # 0 /\ entry'[t] = 0
                     ELSE /\ pc'[t] \in {"idle", "body", "clear"}
                          /\ pc'[t] # "idle" => entry[t] # 0
                          /\ entry'[t] = entry[t]
      /\ \A u \in Slave : u # t => entry'[u] = entry[u]
    <2>1. CASE ReadEntry(t)
        BY <1>1, <2>1, Threads, Moves
           DEF ReadEntry, Clear, teamVars, Slave, SlaveLabels
    <2>2. CASE Body(t)
        BY <1>1, <2>2, Threads, Moves
           DEF Body, Clear, teamVars, Slave, SlaveLabels, EntryInv
    <2>3. CASE Clear(t)
        BY <1>1, <2>3, Threads, Moves DEF Clear, Slave, SlaveLabels, EntryInv, DataOK
    <2> QED
        BY <2>1, <2>2, <2>3
<1>5. Busy' = Busy
    BY <1>2, <1>4 DEF Busy, IsBusy
<1>6. EntryInv'
    BY <1>1, <1>2, <1>4 DEF EntryInv
<1>7. LimitInv'
    BY <1>2, <1>3, <1>4 DEF IInv, CountInv, LimitInv
<1>8. AssignInv' /\ QuietInv' /\ ResetInv'
    BY <1>2, <1>3, <1>5 DEF IInv, CountInv, AssignInv, QuietInv, ResetInv
<1>9. Balance'
    BY <1>2, <1>3, <1>5 DEF IInv, CountInv, Balance, Assigned
<1> QED
    BY <1>6, <1>7, <1>8, <1>9 DEF CountInv

(* A slave counts itself in, and passes when the team has. *)
LEMMA SlaveMeets ==
    ASSUME IInv, NEW t \in Slave, Arrive(t) \/ Meet(t)
    PROVE  CountInv'
<1>1. LabelsOK /\ DataOK /\ EntryInv /\ QuietInv
    BY DEF IInv, TypeOK, CountInv
<1>2. /\ pc'[0] = pc[0] /\ \A u \in Slave : u # t => pc'[u] = pc[u]
    BY <1>1, SlaveMoves DEF SlaveStep, Arrive, Meet, Signal
<1>3. UNCHANGED <<entry, teamSize, region, exitCount, next>>
    BY DEF Arrive, Meet, teamVars, counterVars, localVars
<1>4. pc[t] \in {"arrive", "meet"} /\ pc'[t] \in {"meet", "leave"}
    BY <1>1, Threads, Moves DEF Arrive, Meet, Slave, SlaveLabels
<1>5. Busy' = Busy
    BY <1>2, <1>3, <1>4 DEF Busy, IsBusy
<1>6. EntryInv'
    BY <1>1, <1>2, <1>3, <1>4 DEF EntryInv
<1>7. LimitInv'
    <2>1. /\ Arrive(t) => limit'[t] = teamSize
          /\ Meet(t) => pc[t] = "meet" /\ limit'[t] = limit[t]
          /\ \A u \in Thread : u # t => limit'[u] = limit[u]
        BY <1>1, Threads DEF Arrive, Meet, localVars, DataOK
    <2> QED
        BY <1>2, <1>3, <2>1, Threads DEF IInv, CountInv, LimitInv
<1>8. t \in Busy
    BY <1>4 DEF Busy, IsBusy
<1>9. AssignInv' /\ QuietInv' /\ ResetInv'
    BY <1>2, <1>3, <1>5, <1>8 DEF IInv, CountInv, AssignInv, QuietInv, ResetInv
<1>10. Balance'
    BY <1>2, <1>3, <1>5 DEF IInv, CountInv, Balance, Assigned
<1> QED
    BY <1>6, <1>7, <1>9, <1>10 DEF CountInv

(* A slave takes its rank in exit_count: it is not busy any more. *)
LEMMA SlaveLeaves ==
    ASSUME IInv, NEW t \in Slave, Leave(t)
    PROVE  CountInv' /\ t \in Busy
<1>1. LabelsOK /\ DataOK /\ EntryInv /\ QuietInv
    BY DEF IInv, TypeOK, CountInv
<1>2. /\ pc'[0] = pc[0] /\ \A u \in Slave : u # t => pc'[u] = pc[u]
    BY <1>1, SlaveMoves DEF SlaveStep, Leave, Signal
<1>3. UNCHANGED <<entry, teamSize, region, barrierCount, limit, next>>
    BY DEF Leave, teamVars, localVars
<1>4. pc[t] = "leave" /\ pc'[t] \in {"signal", "rest"} /\ exitCount' = exitCount + 1
    BY <1>1, Threads, Moves DEF Leave, Slave, SlaveLabels
<1>5. Busy' = Busy \ {t} /\ t \in Busy
    BY <1>1, <1>2, <1>3, <1>4 DEF Busy, IsBusy, EntryInv
<1>6. EntryInv'
    BY <1>1, <1>2, <1>3, <1>4 DEF EntryInv
<1>7. LimitInv'
    BY <1>2, <1>3, <1>4 DEF IInv, CountInv, LimitInv
<1>8. AssignInv' /\ QuietInv' /\ ResetInv'
    BY <1>2, <1>3, <1>5 DEF IInv, CountInv, AssignInv, QuietInv, ResetInv
<1>9. Cardinality(Busy') = Cardinality(Busy) - 1
    BY <1>5, BusyFinite, FS_RemoveElement
<1>10. Balance'
    BY <1>1, <1>2, <1>3, <1>4, <1>9, BusyFinite DEF IInv, CountInv, Balance, Assigned, DataOK
<1> QED
    BY <1>5, <1>6, <1>7, <1>8, <1>10 DEF CountInv

-----------------------------------------------------------------------------
(* The master's steps and the counts *)

(* While the master is outside a region nobody is busy, and it may start a
   fork and resize the team. *)
LEMMA MasterOutside ==
    ASSUME IInv, \/ \E n \in 1..MaxThreads : Fork(n)
                 \/ Realloc \/ Refresh \/ AwaitThreads
    PROVE  CountInv'
<1>1. LabelsOK /\ DataOK /\ EntryInv /\ QuietInv
    BY DEF IInv, TypeOK, CountInv
<1>2. pc[0] \in Outside /\ Busy = {}
    BY <1>1 DEF QuietInv, Fork, Realloc, Refresh, AwaitThreads, Outside
<1>3. pc'[0] \in Outside \ {"serial"} /\ next'.i = 0
    <2>1. CASE \E n \in 1..MaxThreads : Fork(n)
        BY <1>1, <2>1, Threads DEF Fork, Goto, LabelsOK, Outside
    <2>2. CASE Realloc \/ AwaitThreads
        BY <1>1, <2>2, Threads
           DEF Realloc, AwaitThreads, Goto, LabelsOK, Outside, IInv, CountInv, AssignInv
    <2>3. CASE Refresh
        BY <1>1, <2>3, RefreshMoves DEF Refresh, Outside, IInv, CountInv, AssignInv
    <2> QED
        BY <2>1, <2>2, <2>3
<1>4. /\ UNCHANGED <<entry, barrierCount, exitCount>>
      /\ \A u \in Slave : pc'[u] \in {pc[u], "create"}
    <2>1. UNCHANGED <<entry, barrierCount, exitCount>>
        BY DEF Fork, Realloc, Refresh, AwaitThreads, teamVars, counterVars
    <2>2. CASE Refresh
        BY <1>1, <2>1, <2>2, RefreshMoves
    <2>3. CASE ~Refresh
        <3>1. ~Start
            BY DEF Start, Fork, Realloc, Refresh, AwaitThreads
        <3> QED
            BY <1>1, <2>1, <2>3, <3>1, MasterMoves DEF Master
    <2> QED
        BY <2>2, <2>3
<1>5. Busy' = {}
    BY <1>2, <1>4 DEF Busy, IsBusy
<1>6. \A u \in Slave : pc'[u] \notin InRegion /\ pc[u] \notin InRegion
    BY <1>1, <1>2, <1>4 DEF Busy, IsBusy, EntryInv, InRegion
<1>7. EntryInv' /\ LimitInv' /\ AssignInv' /\ QuietInv' /\ ResetInv'
    BY <1>2, <1>3, <1>4, <1>5, <1>6
       DEF IInv, CountInv, EntryInv, LimitInv, AssignInv, QuietInv, ResetInv, InRegion,
           Outside
<1>8. Balance'
    BY <1>2, <1>3, <1>4, <1>5, BusyFinite
       DEF IInv, CountInv, Balance, Assigned, Outside, Ending
<1> QED
    BY <1>7, <1>8 DEF CountInv

(* The team's size is fixed when nobody is busy. *)
LEMMA MasterSetsSize == ASSUME IInv, SetSize PROVE CountInv'
<1>1. LabelsOK /\ DataOK /\ EntryInv /\ QuietInv /\ AssignInv
    BY DEF IInv, TypeOK, CountInv
<1>2. pc[0] = "setSize" /\ Busy = {} /\ next.i = 0
    BY <1>1 DEF QuietInv, SetSize, Outside, AssignInv
<1>3. /\ pc'[0] = "assign" /\ \A u \in Slave : pc'[u] = pc[u]
      /\ UNCHANGED <<entry, barrierCount, exitCount, next>>
      /\ teamSize' = next.size /\ region' = region + 1
    BY <1>1, Threads, Moves DEF SetSize, counterVars, MasterLabels, Slave
<1>4. Busy' = {}
    BY <1>2, <1>3 DEF Busy, IsBusy
<1>5. \A u \in Slave : pc[u] \notin InRegion
    BY <1>1, <1>2 DEF Busy, IsBusy, EntryInv, InRegion
<1>6. AssignInv'
    BY <1>1, <1>2, <1>3, <1>4, Threads DEF AssignInv, DataOK, Outside
<1>7. EntryInv' /\ LimitInv' /\ QuietInv' /\ ResetInv'
    BY <1>3, <1>5 DEF EntryInv, LimitInv, QuietInv, ResetInv, InRegion, Outside
<1>8. Balance'
    BY <1>2, <1>3, <1>4, BusyFinite
       DEF IInv, CountInv, Balance, Assigned, Outside, Ending
<1> QED
    BY <1>6, <1>7, <1>8 DEF CountInv

(* Assigning a slave's entry_func makes it busy. *)
LEMMA MasterAssigns == ASSUME IInv, Assign PROVE CountInv'
<1>1. LabelsOK /\ DataOK /\ EntryInv /\ AssignInv
    BY DEF IInv, TypeOK, CountInv
<1> DEFINE i == next.i
<1>2. /\ pc[0] = "assign" /\ i \in Nat /\ i < teamSize /\ region > 0
      /\ teamSize \in 1..MaxThreads /\ \A t \in Busy : t < i
    BY <1>1, Threads DEF Assign, AssignInv, DataOK
<1>3. /\ pc'[0] = IF i + 1 < teamSize THEN "assign" ELSE "start"
      /\ \A u \in Slave : pc'[u] = pc[u]
    BY <1>1, Threads, Moves DEF Assign, MasterLabels, Slave
<1>4. /\ UNCHANGED <<teamSize, region, barrierCount, exitCount, limit>>
      /\ next' = [next EXCEPT !.i = i + 1]
      /\ entry' = [entry EXCEPT ![i] = region]
    BY DEF Assign, counterVars, localVars
<1>5. next'.i = i + 1
    BY <1>1, <1>4 DEF DataOK
<1>6. /\ i \in Thread
      /\ i # 0 => i \in Slave
      /\ entry'[i] = region /\ \A u \in Thread : u # i => entry'[u] = entry[u]
    BY <1>1, <1>2, <1>4, Threads DEF Thread, Slave, DataOK
<1>7. Busy' = (IF i = 0 THEN Busy ELSE Busy \cup {i}) /\ i \notin Busy
    <2>1. i \notin Busy
        BY <1>2
    <2>2. ASSUME NEW u \in Slave
          PROVE  u \in Busy' <=> u \in Busy \/ (u = i /\ i # 0)
        BY <1>2, <1>3, <1>6, Threads DEF Busy, IsBusy
    <2>3. Busy' \subseteq Slave /\ Busy \subseteq Slave
        BY DEF Busy
    <2>4. i = 0 => Busy' = Busy
        BY <2>2, <2>3
    <2>5. i # 0 => Busy' = Busy \cup {i}
        BY <1>6, <2>2, <2>3
    <2> QED
        BY <2>1, <2>4, <2>5
<1>8. EntryInv'
    <2>1. i \in Slave => pc[i] \notin {"arrive", "meet", "leave"}
        BY <1>7 DEF Busy, IsBusy
    <2> QED
        BY <1>1, <1>2, <1>3, <1>6, <2>1, Threads DEF EntryInv
<1>9. AssignInv'
    <2>1. pc'[0] \notin Outside
        BY <1>3 DEF Outside
    <2>2. pc'[0] = "assign" => region' > 0 /\ next'.i < teamSize'
        BY <1>2, <1>3, <1>4, <1>5
    <2>3. \A t \in Busy' : t < next'.i
        BY <1>2, <1>5, <1>7, Threads DEF Busy
    <2> QED
        BY <2>1, <2>2, <2>3 DEF AssignInv
<1>10. LimitInv' /\ QuietInv' /\ ResetInv'
    BY <1>3, <1>4 DEF IInv, CountInv, LimitInv, QuietInv, ResetInv, Outside
<1>11. Balance'
    <2>1. Cardinality(Busy') = IF i = 0 THEN Cardinality(Busy) ELSE Cardinality(Busy) + 1
        BY <1>7, BusyFinite, FS_AddElement
    <2>2. exitCount + Cardinality(Busy) = IF i = 0 THEN 0 ELSE i - 1
        BY <1>2 DEF IInv, CountInv, Balance, Assigned, Ending
    <2>3. Assigned' = i /\ pc'[0] \notin Ending
        BY <1>2, <1>3, <1>4, <1>5 DEF Assigned, Outside, Ending
    <2> QED
        BY <1>1, <1>2, <1>4, <2>1, <2>2, <2>3, BusyFinite DEF Balance, DataOK
<1> QED
    BY <1>8, <1>9, <1>10, <1>11 DEF CountInv

(* The master executes its own part of the region and counts itself in. *)
LEMMA MasterRuns ==
    ASSUME IInv, Start \/ Body(0) \/ Arrive(0) \/ Meet(0)
    PROVE  CountInv'
<1>1. LabelsOK /\ DataOK /\ EntryInv /\ LimitInv
    BY DEF IInv, TypeOK, CountInv
<1>2. /\ pc[0] \in {"start", "body", "arrive", "meet"}
      /\ pc'[0] \in {"body", "arrive", "meet", "leave"}
      /\ \A u \in Slave : pc'[u] = pc[u] \/ {pc[u], pc'[u]} \cap InRegion = {}
    <2>1. CASE Start
        BY <1>1, <2>1, StartMoves DEF Start, InRegion
    <2>2. CASE Body(0) \/ Arrive(0) \/ Meet(0)
        BY <1>1, <2>2, Threads, Moves DEF Body, Arrive, Meet, MasterLabels, Slave
    <2> QED
        BY <2>1, <2>2
<1>3. UNCHANGED <<entry, teamSize, region, exitCount, next>>
    BY DEF Start, Body, Arrive, Meet, teamVars, counterVars
<1>4. Busy' = Busy
    BY <1>2, <1>3 DEF Busy, IsBusy, InRegion
<1>5. EntryInv'
    BY <1>1, <1>2, <1>3 DEF EntryInv, InRegion
<1>6. LimitInv'
    <2>1. \A u \in Slave : limit'[u] = limit[u]
        BY <1>1, Threads DEF Start, Body, Arrive, Meet, localVars, DataOK
    <2>2. pc'[0] \in {"meet", "leave"} => limit'[0] = teamSize
        <3>1. CASE Arrive(0)
            BY <1>1, <3>1, Threads DEF Arrive, DataOK
        <3>2. CASE Meet(0)
            BY <1>1, <3>2 DEF Meet, localVars, LimitInv
        <3>3. CASE Start \/ Body(0)
            BY <1>1, <3>3, StartMoves, Threads, Moves DEF Body, MasterLabels
        <3> QED
            BY <3>1, <3>2, <3>3
    <2> QED
        BY <1>1, <1>2, <1>3, <2>1, <2>2 DEF LimitInv, InRegion
<1>7. AssignInv' /\ QuietInv' /\ ResetInv'
    BY <1>2 DEF AssignInv, QuietInv, ResetInv, Outside
<1>8. Balance'
    BY <1>2, <1>3, <1>4 DEF IInv, CountInv, Balance, Assigned, Outside, Ending
<1> QED
    BY <1>5, <1>6, <1>7, <1>8 DEF CountInv

(* The master takes its rank; it goes on when everybody has, and then resets
   the counters. *)
LEMMA MasterEnds ==
    ASSUME IInv, Leave(0) \/ Join \/ ResetExit \/ ResetBarrier
    PROVE  CountInv'
<1>1. LabelsOK /\ DataOK /\ EntryInv /\ LimitInv /\ Balance /\ QuietInv
    BY DEF IInv, TypeOK, CountInv
<1>2. \A u \in Slave : pc'[u] = pc[u]
    BY <1>1, MasterMoves
       DEF Master, Leave, Join, ResetExit, ResetBarrier, Refresh, Start
<1>3. UNCHANGED <<entry, teamSize, region, limit, next>>
    BY DEF Leave, Join, ResetExit, ResetBarrier, teamVars, localVars
<1>4. Busy' = Busy
    BY <1>2, <1>3 DEF Busy, IsBusy
<1>5. EntryInv'
    BY <1>1, <1>2, <1>3 DEF EntryInv
<1>6. CASE Leave(0)
    <2>1. /\ pc[0] = "leave" /\ limit[0] = teamSize /\ exitCount' = exitCount + 1
          /\ pc'[0] = IF exitCount + 1 = limit[0] THEN "resetExit" ELSE "join"
        BY <1>1, <1>6, Threads, Moves DEF Leave, LimitInv, MasterLabels, Ending
    <2>2. exitCount + Cardinality(Busy) = teamSize - 1
        BY <1>1, <2>1, BusyFinite, Threads DEF Balance, Assigned, Outside, Ending, DataOK
    <2>6. Assigned' = teamSize - 1 /\ pc'[0] \in Ending
        BY <1>3, <2>1 DEF Assigned, Outside, Ending
    <2>7. Cardinality(Busy') = Cardinality(Busy) /\ exitCount \in Nat /\ teamSize \in Nat
        BY <1>1, <1>4, Threads DEF DataOK
    <2>3. Balance'
        BY <2>1, <2>2, <2>6, <2>7, BusyFinite DEF Balance
    <2>4. pc'[0] = "resetExit" => Busy' = {}
        BY <1>1, <1>4, <2>1, <2>2, BusyFinite, Threads DEF DataOK
    <2>5. LimitInv' /\ AssignInv' /\ QuietInv' /\ ResetInv'
        BY <1>1, <1>2, <1>3, <2>1, <2>4 DEF LimitInv, AssignInv, QuietInv, ResetInv, Outside
    <2> QED
        BY <1>5, <2>3, <2>5 DEF CountInv
<1>7. CASE Join
    <2>1. /\ pc[0] = "join" /\ exitCount = limit[0] /\ limit[0] = teamSize
          /\ pc'[0] = "resetExit" /\ UNCHANGED <<exitCount, barrierCount>>
        BY <1>1, <1>7, Threads, Moves DEF Join, LimitInv, MasterLabels, Ending, counterVars
    <2>2. exitCount + Cardinality(Busy) = teamSize
        BY <1>1, <2>1, Threads DEF Balance, Assigned, Outside, Ending, DataOK
    <2>3. Busy' = {}
        BY <1>1, <1>4, <2>1, <2>2, BusyFinite, Threads DEF DataOK
    <2>4. Balance'
        BY <1>1, <1>3, <1>4, <2>1 DEF Balance, Assigned, Outside, Ending
    <2>5. LimitInv' /\ AssignInv' /\ QuietInv' /\ ResetInv'
        BY <1>1, <1>2, <1>3, <2>1, <2>3 DEF LimitInv, AssignInv, QuietInv, ResetInv, Outside
    <2> QED
        BY <1>5, <2>4, <2>5 DEF CountInv
<1>8. CASE ResetExit \/ ResetBarrier
    <2>1. /\ pc[0] \in {"resetExit", "resetBarrier"} /\ Busy' = {}
          /\ pc'[0] = IF pc[0] = "resetExit" THEN "resetBarrier" ELSE "serial"
        BY <1>1, <1>4, <1>8, Threads, Moves
           DEF ResetExit, ResetBarrier, QuietInv, MasterLabels, Outside
    <2>2. exitCount' = 0 /\ (pc'[0] = "serial" => barrierCount' = 0)
        <3>1. CASE ResetExit
            BY <2>1, <3>1 DEF ResetExit
        <3>2. CASE ResetBarrier
            BY <1>1, <1>4, <2>1, <3>2, BusyFinite
               DEF ResetBarrier, Balance, Assigned, Ending, DataOK
        <3> QED
            BY <1>8, <3>1, <3>2
    <2>3. Balance'
        BY <2>1, <2>2, BusyFinite, FS_EmptySet DEF Balance, Assigned, Outside, Ending
    <2>4. LimitInv' /\ AssignInv' /\ QuietInv' /\ ResetInv'
        BY <1>1, <1>2, <1>3, <2>1, <2>2 DEF LimitInv, AssignInv, QuietInv, ResetInv, Outside
    <2> QED
        BY <1>5, <2>3, <2>4 DEF CountInv
<1> QED
    BY <1>6, <1>7, <1>8

-----------------------------------------------------------------------------
(* Waking up *)

(* A slave falls asleep only if it has seen new_task, and new_task changes
   only when the broadcast wakes all who sleep. *)
LEMMA SlavesWake ==
    ASSUME IInv, [Next]_vars, NEW t \in Slave, pc'[t] = "asleep"
    PROVE  newTask' = seen'[t]
<1>1. LabelsOK /\ DataOK /\ (pc[t] = "asleep" => newTask = seen[t])
    BY DEF IInv, TypeOK, NoLostWakeup
<1>2. CASE Start
    BY <1>1, <1>2, StartMoves DEF Start, localVars
<1>3. CASE Refresh
    BY <1>1, <1>3, RefreshMoves DEF Refresh, teamVars, localVars
<1>4. ASSUME (Master /\ ~Start /\ ~Refresh) \/ \E n \in 1..MaxThreads : Fork(n)
      PROVE  newTask' = seen'[t]
    <2>1. ~Start /\ ~Refresh
        BY <1>4 DEF Fork, Start, Refresh
    <2>2. pc'[t] = pc[t]
        BY <1>1, <1>4, <2>1, MasterMoves
    <2>3. UNCHANGED <<newTask, seen>>
        BY <1>4, <2>1 DEF Master, Fork, Realloc, AwaitThreads, SetSize, Assign, Body,
           Arrive, Meet, Leave, SleepJoin, Join, ResetExit, ResetBarrier, teamVars,
           localVars
    <2> QED
        BY <1>1, <2>2, <2>3
<1>5. ASSUME NEW u \in Slave, SlaveStep(u) \/ Spurious(u) PROVE newTask' = seen'[t]
    <2>1. UNCHANGED newTask
        BY <1>5 DEF SlaveStep, Create, Created, Sleep, SeeTask, Attach, ReadEntry, Body,
           Clear, Arrive, Meet, Leave, Signal, Rest, Spurious, teamVars
    <2>2. CASE Sleep(u)
        BY <1>1, <2>2, SlaveMoves DEF SlaveStep, Sleep, teamVars, localVars
    <2>3. CASE ~Sleep(u)
        <3>1. u # t
            BY <1>1, <1>5, <2>3, Threads, Moves, SlaveMoves
               DEF SlaveStep, Create, Created, SeeTask, Attach, ReadEntry, Body, Clear,
                   Arrive, Meet, Leave, Rest, Spurious, Slave, SlaveLabels
        <3>2. seen'[t] = seen[t]
            BY <1>1, <1>5, <3>1, Threads DEF SlaveStep, Create, Created, Sleep, SeeTask,
               Attach, ReadEntry, Body, Clear, Arrive, Meet, Leave, Signal, Rest,
               Spurious, localVars, DataOK
        <3> QED
            BY <1>1, <1>5, <2>1, <3>1, <3>2, SlaveMoves
    <2> QED
        BY <2>2, <2>3
<1>6. CASE Spurious(0)
    BY <1>1, <1>6, MasterWakes DEF Spurious, teamVars, localVars
<1>7. CASE UNCHANGED vars
    BY <1>1, <1>7 DEF vars, teamVars, localVars
<1>8. CASE region < Len(Sizes) /\ \E n \in Sizes[region + 1] : Fork(n)
    BY <1>1, <1>4, <1>8, Threads DEF DataOK
<1> QED
    BY <1>2, <1>3, <1>4, <1>5, <1>6, <1>7, <1>8 DEF Next, Done, Slave

(* Once the count the master sleeps on is complete, the slave that completed
   it has yet to signal. *)
LEMMA MasterWoken ==
    ASSUME IInv, [Next]_vars, pc'[0] = "asleep"
    PROVE  exitCount' # limit'[0] \/ \E t \in Slave : pc'[t] = "signal"
<1>1. LabelsOK /\ DataOK /\ LimitInv /\ NoLostWakeup
    BY DEF IInv, TypeOK, CountInv
<1>2. CASE SleepJoin
    BY <1>1, <1>2 DEF SleepJoin, counterVars, localVars
<1>3. ASSUME \/ Master /\ ~SleepJoin
             \/ \E n \in 1..MaxThreads : Fork(n)
             \/ Spurious(0)
      PROVE  FALSE
    <2>1. CASE Start \/ Refresh
        BY <1>1, <2>1, StartMoves, RefreshMoves
    <2>2. CASE ~Start /\ ~Refresh
        BY <1>1, <1>3, <2>2, Threads, Moves DEF Master, Fork, Realloc, AwaitThreads,
           SetSize, Assign, Body, Arrive, Meet, Leave, Join, ResetExit, ResetBarrier,
           Spurious, MasterLabels, Outside, Ending
    <2> QED
        BY <2>1, <2>2
<1>4. ASSUME NEW u \in Slave, SlaveStep(u) \/ Spurious(u)
      PROVE  exitCount' # limit'[0] \/ \E t \in Slave : pc'[t] = "signal"
    <2>1. /\ ~Signal(u) /\ pc[0] = "asleep" /\ limit[0] = teamSize
          /\ \A t \in Slave : t # u => pc'[t] = pc[t]
        BY <1>1, <1>4, SlaveMoves DEF LimitInv
    <2>2. CASE Leave(u)
        <3>1. /\ exitCount' = exitCount + 1 /\ limit' = limit /\ limit[u] = teamSize
              /\ pc'[u] = IF exitCount + 1 = limit[u] THEN "signal" ELSE "rest"
            BY <1>1, <2>2, Threads, Moves
               DEF Leave, localVars, LimitInv, Slave, SlaveLabels
        <3> QED
            BY <2>1, <3>1
    <2>3. CASE ~Leave(u)
        <3>1. pc[u] # "signal" /\ exitCount' = exitCount /\ limit'[0] = limit[0]
            BY <1>1, <1>4, <2>1, <2>3, Threads
               DEF SlaveStep, Create, Created, Sleep, SeeTask, Attach, ReadEntry, Body,
                   Clear, Arrive, Meet, Rest, Spurious, localVars, counterVars, DataOK
        <3> QED
            BY <1>1, <2>1, <3>1 DEF NoLostWakeup
    <2> QED
        BY <2>2, <2>3
<1>5. CASE UNCHANGED vars
    BY <1>1, <1>5 DEF vars, counterVars, localVars, NoLostWakeup
<1>6. CASE region < Len(Sizes) /\ \E n \in Sizes[region + 1] : Fork(n)
    BY <1>1, <1>3, <1>6, Threads DEF DataOK
<1> QED
    BY <1>2, <1>3, <1>4, <1>5, <1>6 DEF Next, Done, Slave

-----------------------------------------------------------------------------
(* Theorems *)

(* Every step keeps the exit count and the busy slaves in balance. *)
LEMMA Counted ==
    ASSUME IInv, [Next]_vars PROVE CountInv'
<1>1. LabelsOK /\ DataOK
    BY DEF IInv, TypeOK
<1>2. CASE Master
    <2>1. CASE SleepJoin
        <3>1. \A u \in Slave : pc'[u] = pc[u]
            BY <1>1, <1>2, <2>1, MasterMoves DEF SleepJoin, Start, Refresh
        <3>2. {pc[0], pc'[0]} \subseteq {"asleep", "join"}
            BY <1>1, <2>1, Threads, Moves DEF SleepJoin, MasterLabels, Ending
        <3> QED
            BY <2>1, <3>1, <3>2, StepsOutside
               DEF SleepJoin, teamVars, counterVars, localVars
    <2> QED
        BY <1>2, <2>1, MasterOutside, MasterSetsSize, MasterAssigns, MasterRuns, MasterEnds
           DEF Master
<1>3. ASSUME NEW t \in Slave, SlaveStep(t) \/ Spurious(t) PROVE CountInv'
    <2>1. ASSUME \/ Create(t) \/ Created(t) \/ Sleep(t) \/ SeeTask(t) \/ Attach(t)
                 \/ Signal(t) \/ Rest(t) \/ Spurious(t)
          PROVE  CountInv'
        <3>1. UNCHANGED <<entry, teamSize, region, barrierCount, exitCount, limit, next>>
            BY <2>1 DEF Create, Created, Sleep, SeeTask, Attach, Signal, Rest, Spurious,
               teamVars, counterVars, localVars
        <3>2. pc[t] \notin InRegion /\ pc'[t] \notin InRegion
            BY <1>1, <2>1, Threads, Moves, SlaveMoves
               DEF Create, Created, Sleep, SeeTask, Attach, Signal, Rest, Spurious,
                   InRegion, Slave, SlaveLabels, SlaveStep
        <3>3. pc'[0] = pc[0] \/ {pc[0], pc'[0]} \subseteq {"asleep", "join"}
            BY <1>1, <1>3, SlaveMoves
        <3> QED
            BY <1>1, <1>3, <3>1, <3>2, <3>3, SlaveMoves, StepsOutside
    <2> QED
        BY <1>3, <2>1, SlaveBody, SlaveMeets, SlaveLeaves DEF SlaveStep
<1>4. CASE Spurious(0)
    BY <1>1, <1>4, MasterWakes, StepsOutside DEF Spurious, teamVars, counterVars, localVars
<1>5. CASE UNCHANGED vars
    BY <1>5, StepsOutside DEF vars, teamVars, counterVars, localVars
<1>6. CASE region < Len(Sizes) /\ \E n \in Sizes[region + 1] : Fork(n)
    BY <1>1, <1>6, Threads, MasterOutside DEF DataOK
<1> QED
    BY <1>2, <1>3, <1>4, <1>5, <1>6 DEF Next, Done, Slave

(* The inductive invariant of omp_thread.c:989-1068 and 1155-1222. *)
THEOREM Invariance == Spec => []IInv
<1>1. ASSUME IInv, [Next]_vars PROVE IInv'
    <2>1. TypeOK'
        BY <1>1, DataTyped, LabelsTyped, FlagsTyped DEF TypeOK
    <2>2. CountInv'
        BY <1>1, Counted
    <2>3. NoLostWakeup'
        BY <1>1, SlavesWake, MasterWoken DEF NoLostWakeup
    <2> QED
        BY <2>1, <2>2, <2>3 DEF IInv
<1> QED
    BY <1>1, InitTyped, PTL DEF Spec

(* No slave sleeps through a region and the master never sleeps once all have
   left, for any number of threads, any team sizes and any spurious wake-ups:
   the tests under the mutexes (omp_thread.c:1173-1181, 1045-1056) suffice. *)
THEOREM WakeUps == Spec => []NoLostWakeup
<1>1. IInv => NoLostWakeup
    BY DEF IInv
<1> QED
    BY <1>1, Invariance, PTL

(* omp_thread.c:1057-1058 resets exit_count and barrier_count when no slave
   of the region can still test or increment them. *)
THEOREM Resets == Spec => []CountersAtRest
<1>1. ASSUME IInv PROVE CountersAtRest
    <2>1. DataOK /\ EntryInv /\ QuietInv /\ ResetInv /\ Balance
        BY <1>1 DEF IInv, TypeOK, CountInv
    <2>2. ASSUME pc[0] \in {"serial", "setSize", "realloc"}
          PROVE  barrierCount = 0 /\ exitCount = 0
        BY <2>1, <2>2, BusyFinite
           DEF QuietInv, ResetInv, Balance, Assigned, Outside, Ending, DataOK
    <2>3. ASSUME pc[0] \in {"resetExit", "resetBarrier", "serial"}, NEW t \in Slave
          PROVE  pc[t] \notin {"body", "clear", "arrive", "meet", "leave"}
        BY <2>1, <2>3 DEF QuietInv, EntryInv, Outside, Busy, IsBusy
    <2> QED
        BY <2>2, <2>3 DEF CountersAtRest
<1> QED
    BY <1>1, Invariance, PTL

-----------------------------------------------------------------------------
(* Fork and join implement the safety part of ParallelRegion.              *)

After == {"arrive", "meet", "leave", "join", "asleep", "resetExit", "resetBarrier"}

(* The traces start empty and no region is running. *)
LEMMA InitTrace == Init => TraceInv /\ Region!Init
<1> SUFFICES ASSUME Init PROVE TraceInv /\ Region!Init
    OBVIOUS
<1>1. ~Inside /\ Todo = {} /\ pc[0] = "serial"
    BY Threads DEF Init, Inside, Outside, Todo
<1>2. ASSUME NEW t \in Thread
      PROVE  entry[t] = 0 /\ pc[t] # "body" /\ done[t] = <<>>
    BY <1>2 DEF Init
<1> QED
    BY <1>1, <1>2, Threads DEF Init, TraceInv, InTrace, Region!Init

(* What the invariants say of the state before a step. *)
LEMMA Before ==
    ASSUME IInv
    PROVE  LabelsOK /\ DataOK /\ EntryInv /\ AssignInv /\ QuietInv
BY DEF IInv, TypeOK, CountInv

(* Steps that neither execute nor assign a body leave every thread where it
   is with the region. *)
LEMMA TraceSame ==
    ASSUME IInv, TraceInv, UNCHANGED <<entry, region, done>>,
           \A u \in Slave : /\ work'[u] = work[u]
                            /\ \/ pc'[u] = pc[u]
                               \/ {pc[u], pc'[u]} \cap {"body", "clear"} = {},
           \/ pc'[0] \in Outside /\ Busy = {}
           \/ /\ UNCHANGED <<teamSize, next>>
              /\ \/ pc'[0] = pc[0] /\ work'[0] = work[0]
                 \/ {pc[0], pc'[0]} \subseteq After
                 \/ pc[0] = "start" /\ pc'[0] = "body" /\ work'[0] = region
    PROVE  TraceInv'
<1>1. \A t \in Thread : Fresh(t)' <=> Fresh(t)
    BY DEF Fresh
<1>2. \A t \in Thread : \A i \in DOMAIN done'[t] : done'[t][i] <= region'
    BY DEF TraceInv
<1>3. CASE pc'[0] \in Outside /\ Busy = {}
    <2>1. \A t \in Slave : entry[t] = 0 /\ pc[t] # "body" /\ pc'[t] # "body"
        BY <1>3, Before DEF Busy, IsBusy, EntryInv
    <2>2. pc'[0] \notin {"assign", "body"} /\ ~Inside'
        BY <1>3 DEF Outside, Inside
    <2> QED
        BY <1>2, <2>1, <2>2 DEF TraceInv, InTrace
<1>4. ASSUME /\ UNCHANGED <<teamSize, next>>
             /\ \/ pc'[0] = pc[0] /\ work'[0] = work[0]
                \/ {pc[0], pc'[0]} \subseteq After
                \/ pc[0] = "start" /\ pc'[0] = "body" /\ work'[0] = region
      PROVE  TraceInv'
    <2>1. Inside' <=> Inside
        BY <1>4 DEF Inside, Outside, After
    <2>2. pc'[0] = "assign" <=> pc[0] = "assign"
        BY <1>4 DEF After
    <2>3. ASSUME NEW t \in Slave
          PROVE  InTrace(t)'
        <3>1. /\ entry'[t] = entry[t] /\ work'[t] = work[t] /\ (Fresh(t)' <=> Fresh(t))
              /\ (pc'[t] = "clear" <=> pc[t] = "clear") /\ (pc'[t] = "body" <=> pc[t] = "body")
            BY Threads DEF Fresh
        <3> QED
            BY <1>4, <2>1, <2>2, <3>1 DEF TraceInv, InTrace
    <2>4. Inside' => (Fresh(0)' <=> pc'[0] \in {"assign", "start", "body"})
        BY <1>1, <1>4, <2>1, Threads DEF TraceInv, After
    <2>5. pc'[0] = "body" => work'[0] = region'
        BY <1>4 DEF TraceInv, After
    <2> QED
        BY <1>2, <2>3, <2>4, <2>5 DEF TraceInv
<1> QED
    BY <1>3, <1>4

(* A new region: nobody has executed it. *)
LEMMA TraceSetSize ==
    ASSUME IInv, TraceInv, SetSize
    PROVE  TraceInv' /\ Region!Fork(next.size)
<1>1. /\ pc[0] = "setSize" /\ pc'[0] = "assign" /\ \A u \in Slave : pc'[u] = pc[u]
      /\ UNCHANGED <<entry, work, next, done>>
      /\ teamSize' = next.size /\ region' = region + 1
    BY Before, Threads, Moves DEF SetSize, localVars, MasterLabels, Slave
<1>2. /\ \A u \in Slave : entry[u] = 0 /\ pc[u] # "body"
      /\ next.i = 0 /\ next.size \in 1..MaxThreads /\ region \in Nat
    BY <1>1, Before DEF QuietInv, AssignInv, EntryInv, Busy, IsBusy, Outside, DataOK
<1>3. \A t \in Thread : \A i \in DOMAIN done[t] : done[t][i] \in Nat /\ done[t][i] <= region
    BY Before DEF DataOK, TraceInv
<1>4. \A t \in Thread : Fresh(t)'
    BY <1>1, <1>2, <1>3 DEF Fresh
<1>5. ~Inside /\ Inside'
    BY <1>1 DEF Inside, Outside
<1>6. TraceInv'
    BY <1>1, <1>2, <1>3, <1>4, <1>5, Threads DEF TraceInv, InTrace
<1>7. Todo' = {t \in Thread : t < next.size}
    BY <1>1, <1>4, <1>5 DEF Todo
<1> QED
    BY <1>1, <1>5, <1>6, <1>7 DEF Region!Fork

(* A thread that is assigned the region has not executed it. *)
LEMMA TraceAssign ==
    ASSUME IInv, TraceInv, Assign
    PROVE  TraceInv'
<1> DEFINE i == next.i
<1>1. /\ pc[0] = "assign" /\ i \in Nat /\ i < teamSize /\ region > 0
      /\ teamSize \in 1..MaxThreads /\ \A t \in Busy : t < i
    BY Before, Threads DEF Assign, AssignInv, DataOK
<1>2. /\ pc'[0] = IF i + 1 < teamSize THEN "assign" ELSE "start"
      /\ \A u \in Slave : pc'[u] = pc[u]
    BY Before, Threads, Moves DEF Assign, MasterLabels, Slave
<1>3. /\ UNCHANGED <<teamSize, region, work, done>>
      /\ next' = [next EXCEPT !.i = i + 1]
      /\ entry' = [entry EXCEPT ![i] = region]
    BY DEF Assign, localVars
<1>4. next'.i = i + 1 /\ i \in Thread
    BY <1>1, <1>3, Before, Threads DEF DataOK, Thread
<1>5. entry'[i] = region /\ \A u \in Thread : u # i => entry'[u] = entry[u]
    BY <1>3, <1>4, Before DEF DataOK
<1>6. \A t \in Thread : Fresh(t)' <=> Fresh(t)
    BY <1>3 DEF Fresh
<1>7. Inside /\ Inside'
    BY <1>1, <1>2 DEF Inside, Outside
<1>8. i \in Slave => pc[i] # "clear" /\ Fresh(i)
    BY <1>1, Before, Threads DEF Busy, IsBusy, EntryInv, TraceInv, InTrace
<1>9. ASSUME NEW t \in Slave
      PROVE  InTrace(t)'
    <2>1. CASE t = i
        <3>1. /\ entry'[t] = region' /\ t < teamSize' /\ region' # 0
              /\ pc'[t] = pc[t] /\ work'[t] = work[t] /\ (Fresh(t)' <=> Fresh(t))
            BY <1>1, <1>2, <1>3, <1>5, <2>1, Threads DEF Fresh
        <3> QED
            BY <1>3, <1>8, <2>1, <3>1 DEF TraceInv, InTrace
    <2>2. CASE t # i
        <3>1. t \in Nat /\ entry'[t] = entry[t] /\ pc'[t] = pc[t] /\ work'[t] = work[t]
              /\ (Fresh(t)' <=> Fresh(t))
            BY <1>2, <1>3, <1>5, <2>2, Threads DEF Fresh
        <3>2. /\ pc[0] = "assign"
              /\ pc'[0] = "assign" => (t >= next'.i <=> t >= i)
              /\ t < teamSize /\ t >= i => pc'[0] = "assign"
            BY <1>1, <1>2, <1>4, <2>2, <3>1
        <3> QED
            BY <1>3, <1>7, <3>1, <3>2 DEF TraceInv, InTrace
    <2> QED
        BY <2>1, <2>2
<1>10. Fresh(0)' /\ pc'[0] \in {"assign", "start"}
    BY <1>1, <1>2, <1>6, <1>7, Threads DEF TraceInv
<1> QED
    BY <1>3, <1>9, <1>10 DEF TraceInv

(* A slave finds the region's body, or nothing, and clears it afterwards. *)
LEMMA TraceEntry ==
    ASSUME IInv, TraceInv, NEW u \in Slave, ReadEntry(u) \/ Clear(u)
    PROVE  TraceInv'
<1>1. /\ pc'[0] = pc[0] /\ \A t \in Slave : t # u => pc'[t] = pc[t]
      /\ UNCHANGED <<teamSize, region, next, done>>
    BY Before, SlaveMoves
       DEF SlaveStep, ReadEntry, Clear, Signal, teamVars
<1>2. /\ \A t \in Thread : t # u => work'[t] = work[t] /\ entry'[t] = entry[t]
      /\ ReadEntry(u) => /\ entry'[u] = entry[u] /\ work'[u] = entry[u]
                         /\ pc[u] = "attached"
                         /\ pc'[u] = IF entry[u] = 0 THEN "idle" ELSE "body"
      /\ Clear(u) => /\ entry'[u] = 0 /\ entry[u] # 0 /\ pc[u] = "clear"
                     /\ pc'[u] = "arrive"
    BY Before, Threads, Moves
       DEF ReadEntry, Clear, DataOK, EntryInv, teamVars, localVars, Slave, SlaveLabels
<1>3. ASSUME NEW t \in Slave PROVE InTrace(t)'
    <2>1. Fresh(t)' <=> Fresh(t)
        BY <1>1 DEF Fresh
    <2>2. Inside' <=> Inside
        BY <1>1 DEF Inside
    <2>3. CASE t # u
        BY <1>1, <1>2, <2>1, <2>2, <2>3, Threads DEF TraceInv, InTrace
    <2>4. CASE t = u
        BY <1>1, <1>2, <2>1, <2>2, <2>4, Threads DEF TraceInv, InTrace
    <2> QED
        BY <2>3, <2>4
<1>4. (Fresh(0)' <=> Fresh(0)) /\ (Inside' <=> Inside) /\ work'[0] = work[0]
    BY <1>1, <1>2, Threads DEF Fresh, Inside
<1> QED
    BY <1>1, <1>3, <1>4 DEF TraceInv

(* Whoever executes a body is a member of the team that has not yet. *)
LEMMA TraceBody ==
    ASSUME IInv, TraceInv, NEW u \in Thread, Body(u), u = 0 \/ u \in Slave
    PROVE  TraceInv' /\ Region!Run(u)
<1>1. /\ pc[u] = "body" /\ pc'[u] = IF u = 0 THEN "arrive" ELSE "clear"
      /\ \A t \in Thread : t # u => pc'[t] = pc[t]
      /\ done' = [done EXCEPT ![u] = Append(@, work[u])]
      /\ UNCHANGED <<entry, teamSize, region, work, next>>
    BY Before, Threads, Moves DEF Body, teamVars, localVars, MasterLabels, SlaveLabels
<1>2. work[u] = region /\ u < teamSize /\ Fresh(u) /\ Inside
    <2>1. CASE u = 0
        BY <1>1, <2>1, Before, Threads DEF TraceInv, Inside, Outside, DataOK
    <2>2. CASE u \in Slave
        <3>1. entry[u] # 0 /\ u \in Busy
            BY <1>1, <2>2, Before DEF EntryInv, Busy, IsBusy
        <3> QED
            BY <1>1, <2>2, <3>1, Before DEF TraceInv, InTrace, Inside, QuietInv
    <2> QED
        BY <2>1, <2>2
<1>3. done[u] \in Seq(Nat) /\ region \in Nat
    BY Before DEF DataOK
<1>4. /\ done'[u] = Append(done[u], region)
      /\ \A t \in Thread : t # u => done'[t] = done[t]
    BY <1>1, <1>2, Before DEF DataOK
<1>5. /\ Len(done'[u]) = Len(done[u]) + 1 /\ done'[u][Len(done[u]) + 1] = region
      /\ \A i \in 1..Len(done[u]) : done'[u][i] = done[u][i]
      /\ DOMAIN done'[u] = 1..(Len(done[u]) + 1) /\ DOMAIN done[u] = 1..Len(done[u])
    BY <1>3, <1>4
<1>6. Inside'
    BY <1>1, <1>2, Threads DEF Inside, Outside
<1>7. /\ ~Fresh(u)' 
      /\ \A t \in Thread : t # u => (Fresh(t)' <=> Fresh(t))
    BY <1>1, <1>3, <1>4, <1>5 DEF Fresh
<1>8. ASSUME NEW t \in Slave PROVE InTrace(t)'
    <2>1. CASE t # u
        <3>1. /\ (Fresh(t)' <=> Fresh(t)) /\ pc'[t] = pc[t]
              /\ pc'[0] = "assign" <=> pc[0] = "assign"
            BY <1>1, <1>4, <2>1, Threads DEF Fresh
        <3> QED
            BY <1>1, <1>2, <1>6, <3>1 DEF TraceInv, InTrace
    <2>2. CASE t = u
        <3>1. ~Fresh(t)' /\ pc'[t] = "clear" /\ entry[t] # 0 /\ pc'[0] = pc[0]
            BY <1>1, <1>5, <2>2, Before, Threads DEF Fresh, EntryInv
        <3>2. ~(pc[0] = "assign" /\ t >= next.i)
            <4>1. t \in Busy /\ t \in Nat
                BY <3>1, Threads DEF Busy, IsBusy
            <4>2. next.i \in Nat
                BY Before, Threads DEF DataOK
            <4>3. pc[0] = "assign" => t < next.i
                BY <4>1, Before DEF AssignInv
            <4> QED
                BY <4>1, <4>2, <4>3
        <3> QED
            BY <1>1, <1>2, <2>2, <3>1, <3>2 DEF InTrace, TraceInv
    <2> QED
        BY <2>1, <2>2
<1>9. TraceInv'
    <2>1. \A t \in Thread : \A i \in DOMAIN done'[t] : done'[t][i] <= region'
        BY <1>1, <1>3, <1>4, <1>5 DEF TraceInv
    <2>2. Fresh(0)' <=> pc'[0] \in {"assign", "start", "body"}
        <3>1. CASE u = 0
            <4>1. ~Fresh(0)'
                BY <1>1, <1>5, <3>1 DEF Fresh
            <4> QED
                BY <1>1, <3>1, <4>1
        <3>2. CASE u # 0
            <4>1. (Fresh(0)' <=> Fresh(0)) /\ pc'[0] = pc[0]
                BY <1>1, <1>4, <3>2, Threads DEF Fresh
            <4> QED
                BY <1>2, <4>1 DEF TraceInv
        <3> QED
            BY <3>1, <3>2
    <2>3. pc'[0] = "body" => work'[0] = region'
        BY <1>1, Threads DEF TraceInv
    <2> QED
        BY <1>8, <2>1, <2>2, <2>3 DEF TraceInv
<1>10. u \in Todo
    BY <1>2 DEF Todo
<1>11. Todo' = Todo \ {u}
    <2>1. ASSUME NEW t \in Thread PROVE t \in Todo' <=> t \in Todo \ {u}
        <3>1. CASE t = u
            BY <1>1, <1>5, <3>1 DEF Todo, Fresh
        <3>2. CASE t # u
            BY <1>1, <1>2, <1>4, <1>6, <3>2 DEF Todo, Fresh
        <3> QED
            BY <3>1, <3>2
    <2> QED
        BY <2>1 DEF Todo
<1> QED
    BY <1>1, <1>2, <1>6, <1>9, <1>10, <1>11 DEF Region!Run

-----------------------------------------------------------------------------
(* Every step is one of ParallelRegion's or changes nothing it sees. *)

(* The region ends when the master has reset the counters: everybody has
   executed it. *)
LEMMA JoinStep ==
    ASSUME IInv, TraceInv, ResetBarrier
    PROVE  Region!Join
<1>1. /\ pc[0] = "resetBarrier" /\ pc'[0] = "serial"
      /\ UNCHANGED <<region, done>>
    BY Before, Threads, Moves DEF ResetBarrier, teamVars, MasterLabels, Outside
<1>2. Inside /\ ~Inside' /\ Busy = {}
    BY <1>1, Before DEF Inside, Outside, QuietInv
<1>3. ASSUME NEW t \in Thread, t < teamSize PROVE ~Fresh(t)
    <2>1. CASE t = 0
        BY <1>1, <1>2, <2>1 DEF TraceInv
    <2>2. CASE t \in Slave
        <3>1. entry[t] = 0 /\ InTrace(t)
            BY <1>2, <2>2 DEF Busy, IsBusy, TraceInv
        <3> QED
            BY <1>1, <1>2, <1>3, <3>1 DEF InTrace
    <2> QED
        BY <2>1, <2>2 DEF Slave
<1>4. Todo = {} /\ Todo' = {}
    BY <1>2, <1>3 DEF Todo
<1> QED
    BY <1>1, <1>2, <1>4 DEF Region!Join

(* All other steps are invisible to ParallelRegion. *)
LEMMA Unseen ==
    ASSUME UNCHANGED <<region, done>>, Inside' <=> Inside,
           Inside => UNCHANGED teamSize
    PROVE  UNCHANGED Region!vars
<1>1. \A t \in Thread : Fresh(t)' <=> Fresh(t)
    BY DEF Fresh
<1>2. Todo' = Todo
    BY DEF Todo, Fresh
<1>3. Inside' = Inside
    BY DEF Inside
<1> QED
    BY <1>2, <1>3 DEF Region!vars

(* The master's steps in a region, between its body and the last reset. *)
LEMMA MasterUnseen ==
    ASSUME IInv, TraceInv,
           \/ Start \/ Arrive(0) \/ Meet(0) \/ Leave(0) \/ SleepJoin \/ Join \/ ResetExit
           \/ Spurious(0)
    PROVE  TraceInv' /\ UNCHANGED Region!vars
<1>1. /\ UNCHANGED <<entry, region, teamSize, next, done>>
      /\ \A u \in Slave : work'[u] = work[u]
    BY Threads, Before DEF Start, Arrive, Meet, Leave, SleepJoin, Join, ResetExit, Spurious,
       teamVars, localVars, DataOK
<1>2. CASE Start
    <2>1. /\ \A u \in Slave : \/ pc'[u] = pc[u]
                              \/ {pc[u], pc'[u]} \cap {"body", "clear"} = {}
          /\ pc[0] = "start" /\ pc'[0] = "body" /\ work'[0] = region
        BY <1>2, Before, StartMoves, Threads DEF Start, DataOK
    <2>2. Inside /\ Inside'
        BY <2>1 DEF Inside, Outside
    <2> QED
        BY <1>1, <2>1, <2>2, TraceSame, Unseen
<1>3. CASE ~Start
    <2>1. \A u \in Slave : pc'[u] = pc[u]
        <3>1. ~Refresh
            BY <1>3 DEF Refresh, Arrive, Meet, Leave, SleepJoin, Join, ResetExit, Spurious
        <3> QED
            BY <1>3, <3>1, Before, MasterMoves, MasterWakes DEF Master
    <2>2. {pc[0], pc'[0]} \subseteq After
        BY <1>3, Before, Threads, Moves DEF Arrive, Meet, Leave, SleepJoin, Join,
           ResetExit, Spurious, MasterLabels, Ending, After
    <2>3. Inside /\ Inside'
        BY <2>2 DEF Inside, Outside, After
    <2> QED
        BY <1>1, <2>1, <2>2, <2>3, TraceSame, Unseen
<1> QED
    BY <1>2, <1>3

(* The master's steps outside a region, the expansion of the team included. *)
LEMMA OutsideUnseen ==
    ASSUME IInv, TraceInv,
           (\E n \in 1..MaxThreads : Fork(n)) \/ Realloc \/ Refresh \/ AwaitThreads
    PROVE  TraceInv' /\ UNCHANGED Region!vars
<1>1. UNCHANGED <<entry, region, done, work>>
    BY DEF Fork, Realloc, Refresh, AwaitThreads, teamVars, localVars
<1>2. pc[0] \in Outside /\ Busy = {}
    BY Before DEF QuietInv, Fork, Realloc, Refresh, AwaitThreads, Outside
<1>3. \A u \in Slave : pc[u] \notin {"body", "clear"}
    BY <1>2, Before DEF Busy, IsBusy, EntryInv
<1>4. \A u \in Slave : pc'[u] \in {pc[u], "create"}
    <2>1. CASE Refresh
        BY <2>1, Before, RefreshMoves
    <2>2. CASE ~Refresh
        <3>1. ~Start
            BY DEF Start, Fork, Realloc, Refresh, AwaitThreads
        <3> QED
            BY <2>2, <3>1, Before, MasterMoves DEF Master
    <2> QED
        BY <2>1, <2>2
<1>5. pc'[0] \in Outside
    BY Before, Threads, Moves, RefreshMoves
       DEF Fork, Realloc, AwaitThreads, MasterLabels, Outside
<1>6. ~Inside /\ ~Inside'
    BY <1>2, <1>5 DEF Inside
<1> QED
    BY <1>1, <1>2, <1>3, <1>4, <1>5, <1>6, TraceSame, Unseen

(* The counters are reset, and the traces stay as they are. *)
LEMMA TraceReset == ASSUME IInv, TraceInv, ResetBarrier PROVE TraceInv'
<1>1. /\ UNCHANGED <<entry, region, done, work>> /\ pc'[0] = "serial" /\ Busy = {}
      /\ \A u \in Slave : pc'[u] = pc[u]
    BY Before, Threads, Moves
       DEF ResetBarrier, teamVars, localVars, QuietInv, MasterLabels, Outside, Slave
<1> QED
    BY <1>1, TraceSame DEF Outside

(* A slave's steps other than the body's. *)
LEMMA SlaveUnseen ==
    ASSUME IInv, TraceInv, NEW u \in Slave, SlaveStep(u) \/ Spurious(u), ~Body(u)
    PROVE  TraceInv' /\ UNCHANGED Region!vars
<1>1. /\ UNCHANGED <<region, teamSize, next, done>>
      /\ \/ pc'[0] = pc[0]
         \/ {pc[0], pc'[0]} \subseteq After
    <2>1. UNCHANGED <<region, teamSize, next, done>>
        BY DEF SlaveStep, Create, Created, Sleep, SeeTask, Attach, ReadEntry, Clear, Arrive,
           Meet, Leave, Signal, Rest, Spurious, teamVars
    <2> QED
        BY <2>1, Before, SlaveMoves DEF After
<1>2. Inside' <=> Inside
    BY <1>1 DEF Inside, Outside, After
<1>3. UNCHANGED Region!vars
    BY <1>1, <1>2, Unseen
<1>4. CASE ReadEntry(u) \/ Clear(u)
    BY <1>3, <1>4, TraceEntry
<1>5. CASE ~ReadEntry(u) /\ ~Clear(u)
    <2>1. UNCHANGED <<entry, work>>
        BY <1>5 DEF SlaveStep, Create, Created, Sleep, SeeTask, Attach, Arrive, Meet,
           Leave, Signal, Rest, Spurious, teamVars, localVars
    <2>2. {pc[u], pc'[u]} \cap {"body", "clear"} = {}
        BY <1>5, Before, Threads, Moves, SlaveMoves
           DEF SlaveStep, Create, Created, Sleep, SeeTask, Attach, Arrive, Meet,
               Leave, Signal, Rest, Spurious, Slave, SlaveLabels
    <2>3. \A t \in Slave : t # u => pc'[t] = pc[t]
        BY Before, SlaveMoves
    <2> QED
        BY <1>1, <1>3, <2>1, <2>2, <2>3, TraceSame
<1> QED
    BY <1>4, <1>5

(* One step of the specification. *)
LEMMA RegionStep ==
    ASSUME IInv, TraceInv, [Next]_vars
    PROVE  TraceInv' /\ [Region!Next]_(Region!vars)
<1>1. CASE Master
    <2>1. CASE SetSize
        <3>1. next.size \in 1..MaxThreads
            BY Before DEF DataOK
        <3> QED
            BY <2>1, <3>1, TraceSetSize DEF Region!Next
    <2>2. CASE Body(0)
        BY <2>2, TraceBody, Threads DEF Region!Next, Region!Work
    <2>3. CASE Assign
        <3>1. /\ UNCHANGED <<region, done, teamSize>> /\ pc[0] = "assign"
              /\ pc'[0] \in {"assign", "start"}
            BY <2>3, Before, Threads, Moves DEF Assign, MasterLabels
        <3>2. Inside /\ Inside'
            BY <3>1 DEF Inside, Outside
        <3> QED
            BY <2>3, <3>1, <3>2, TraceAssign, Unseen
    <2>4. CASE ResetBarrier
        BY <2>4, TraceReset, JoinStep DEF Region!Next, Region!Work
    <2> QED
        BY <1>1, <2>1, <2>2, <2>3, <2>4, MasterUnseen, OutsideUnseen DEF Master
<1>2. ASSUME NEW u \in Slave, SlaveStep(u) \/ Spurious(u)
      PROVE  TraceInv' /\ [Region!Next]_(Region!vars)
    <2>1. CASE Body(u)
        BY <2>1, TraceBody, Threads DEF Region!Next, Region!Work
    <2>2. CASE ~Body(u)
        BY <1>2, <2>2, SlaveUnseen
    <2> QED
        BY <2>1, <2>2
<1>3. CASE Spurious(0)
    BY <1>3, MasterUnseen
<1>4. CASE region < Len(Sizes) /\ \E n \in Sizes[region + 1] : Fork(n)
    BY <1>4, Before, Threads, OutsideUnseen DEF DataOK
<1>5. CASE UNCHANGED vars
    <2>1. UNCHANGED <<entry, region, done, teamSize, next, work, pc>>
        BY <1>5 DEF vars, teamVars, localVars
    <2>2. Inside' <=> Inside
        BY <2>1 DEF Inside
    <2> QED
        BY <2>1, <2>2, TraceSame, Unseen
<1> QED
    BY <1>1, <1>2, <1>3, <1>4, <1>5 DEF Next, Done, Slave

(* For any number of threads, any initial team and any team sizes asked for,
   every member of a team executes the region once, nobody else does, and
   the master returns from the join (omp_thread.c:1036-1058) when all have:
   each step of fork and join is one of ParallelRegion or a stutter. *)
THEOREM Refinement == Spec => Region!Safety
<1>1. IInv /\ TraceInv /\ [Next]_vars => TraceInv' /\ [Region!Next]_(Region!vars)
    BY RegionStep
<1> QED
    BY <1>1, InitTrace, Invariance, PTL DEF Spec, Region!Safety
=============================================================================
