------------------------------- MODULE Worksharing -------------------------------
(***************************************************************************)
(* Loops, ordered regions, single and copyprivate (omp_runtime.c).  A      *)
(* team runs a program of constructs; the next team starts with what the   *)
(* last one left in the team and in the threads, as the runtime resets     *)
(* nothing in between.  A critical section of schedule_lock, single_lock   *)
(* or ordered_mutex is one step.  Loops of 32 and of 64 bits differ in     *)
(* width only: the bounds here are small integers.  A barrier is the one   *)
(* that TeamBarrier describes.                                             *)
(***************************************************************************)
EXTENDS Integers, FiniteSets, Sequences

CONSTANTS
    TeamSizes,   \* sizes of the teams that run the regions
    Programs     \* for each region (a bound), what it may run: sequences of
                 \* constructs, see Loop and Single

\* a collapsed loop nest of n iterations has the bounds 0 and n - 1
Loop(sched, ordered, collapsed, lower, upper, incr, chunk) ==
    [kind |-> "loop", sched |-> sched, ordered |-> ordered,
     collapsed |-> collapsed, lower |-> lower, upper |-> upper, incr |-> incr,
     chunk |-> chunk, nowait |-> FALSE]
NoWait(loop) == [loop EXCEPT !.nowait = TRUE]
Single(copy, nowait) == [kind |-> "single", copy |-> copy, nowait |-> nowait]

\* What the compiler generates: only loops with a static schedule and neither
\* ordered nor collapse do without the scheduler.  The runtime takes the
\* increment and the chunk size of a legal program as they are.
AtRuntime == {"static_even", "static", "dynamic", "guided"}
IsLoop(c) ==
    /\ c \in [kind : {"loop"}, sched : AtRuntime \cup {"init_even", "init_chunk"},
             ordered : BOOLEAN, collapsed : BOOLEAN, lower : Int, upper : Int,
             incr : Int \ {0}, chunk : Int, nowait : BOOLEAN]
    /\ c.sched \notin {"static_even", "init_even"} => c.chunk > 0
    /\ c.ordered \/ c.collapsed => c.sched \in AtRuntime
    /\ c.collapsed => c.lower = 0 /\ c.upper >= -1 /\ c.incr = 1
IsSingle(c) == c \in [kind : {"single"}, copy : BOOLEAN, nowait : BOOLEAN]

ASSUME ProgramAssumption ==
    /\ TeamSizes \subseteq Nat \ {0} /\ TeamSizes # {}
    /\ DOMAIN Programs = 1..Len(Programs) /\ Len(Programs) \in Nat
    /\ \A r \in DOMAIN Programs : \A p \in Programs[r] :
          /\ DOMAIN p = 1..Len(p) /\ Len(p) \in Nat \ {0}
          /\ \A k \in DOMAIN p : IsLoop(p[k]) \/ IsSingle(p[k])

Thread == UNION {0..(n - 1) : n \in TeamSizes}

VARIABLES
    \* fields of omp_team_t
    teamSize, loopLower, loopUpper, loopIncr, schedType, chunkSize,
    scheduleCount, orderedCount, loopCount, singleCount, cppriv,
    \* fields of omp_v_thread_t
    tSchedule, tOrdered, tRest, tLoop, tSingle,
    \* the compiled code: its program, where a thread is in it, the chunk it
    \* works on, whether it runs the single, barriers it has reached
    program, at, pc, cur, first, met,
    \* what has been executed: <<construct, iteration or thread>>; and twice
    ran, again,
    regions

boundVars == <<loopLower, loopUpper, loopIncr, schedType, chunkSize>>
countVars == <<scheduleCount, orderedCount, loopCount>>
singleVars == <<singleCount, tSingle, cppriv, first>>
orderVars == <<tOrdered, tRest>>
regionVars == <<teamSize, program, regions>>
ghostVars == <<ran, again>>
vars == <<boundVars, countVars, singleVars, orderVars, regionVars, ghostVars,
          tSchedule, tLoop, at, pc, cur, met>>

Team == 0..(teamSize - 1)
Zero == [t \in Thread |-> 0]
NoChunk == [lower |-> 0, upper |-> -1, incr |-> 1, from |-> 0, stride |-> 0]

Init ==
    /\ teamSize = 1 /\ program = <<>> /\ regions = 0
    /\ loopLower = 0 /\ loopUpper = 0 /\ loopIncr = 1
    /\ schedType = <<"unknown", FALSE>> /\ chunkSize = 0
    /\ scheduleCount = 0 /\ orderedCount = 0 /\ loopCount = 0
    /\ singleCount = 0 /\ cppriv = <<0, 0>>
    /\ tSchedule = Zero /\ tOrdered = Zero /\ tRest = Zero
    /\ tLoop = Zero /\ tSingle = Zero
    /\ at = Zero /\ met = Zero
    /\ pc = [t \in Thread |-> "idle"]
    /\ cur = [t \in Thread |-> NoChunk]
    /\ first = [t \in Thread |-> FALSE]
    /\ ran = {} /\ again = {}

-----------------------------------------------------------------------------
(* Arithmetic of C *)

Abs(n) == IF n < 0 THEN -n ELSE n
Quot(a, b) == LET q == Abs(a) \div Abs(b) IN IF (a < 0) = (b < 0) THEN q ELSE -q
Trips(lower, upper, incr) == Quot(upper - lower, incr) + 1
Past(lower, upper, incr) == IF incr > 0 THEN lower > upper ELSE lower < upper
Larger(a, b) == IF a > b THEN a ELSE b
Lesser(a, b) == IF a < b THEN a ELSE b

-----------------------------------------------------------------------------
(* The compiled program *)

Here(t) == program[at[t]]
Goto(t, label) == pc' = [pc EXCEPT ![t] = label]
AtLoop(t, label) == pc[t] = label /\ Here(t).kind = "loop"
AtSingle(t, label) == pc[t] = label /\ Here(t).kind = "single"

\* __ompc_fork, or the region's serial prologue: nothing of the team is reset
Fork(n, p) ==
    /\ \A t \in Thread : pc[t] = "idle"
    /\ regions' = regions + 1
    /\ teamSize' = n /\ program' = p
    /\ pc' = [t \in Thread |-> IF t < n THEN "work" ELSE "idle"]
    /\ at' = [t \in Thread |-> 1]
    /\ met' = Zero
    /\ cur' = [t \in Thread |-> NoChunk]
    /\ ran' = {} /\ again' = {}
    /\ UNCHANGED <<boundVars, countVars, singleVars, orderVars, tSchedule, tLoop>>

Execute(t, work) ==
    /\ ran' = ran \cup {<<at[t], work>>}
    /\ again' = again \cup ({<<at[t], work>>} \cap ran)

\* on to the next construct, or out of the region
Proceed(t) ==
    /\ at' = [at EXCEPT ![t] = @ + 1]
    /\ Goto(t, IF at[t] < Len(program) THEN "work" ELSE "idle")
    /\ UNCHANGED met

Reach(t, label) ==
    /\ met' = [met EXCEPT ![t] = @ + 1]
    /\ Goto(t, label)
    /\ UNCHANGED at

AllMet(t) == \A u \in Team : met[u] >= met[t]

EndConstruct(t) == IF Here(t).nowait THEN Proceed(t) ELSE Reach(t, "barrier")

Barrier(t) ==
    /\ pc[t] = "barrier" /\ AllMet(t)
    /\ Proceed(t)
    /\ UNCHANGED <<boundVars, countVars, singleVars, orderVars, regionVars,
                   ghostVars, tSchedule, tLoop, cur>>

-----------------------------------------------------------------------------
(* Which iterations a thread is given, before the bound of the loop is met *)

Chunk(lower, upper, incr) ==
    [lower |-> lower, upper |-> upper, incr |-> incr, from |-> lower, stride |-> 0]

\* one block a thread, the first ones as long as the last but one
EvenChunk(t, lower, upper, incr) ==
    LET trips == Trips(lower, upper, incr)
        adjustment == IF trips % teamSize = 0 THEN -1 ELSE 0
        block == (Quot(trips, teamSize) + adjustment) * incr
        mine == lower + t * (block + incr)
    IN  Chunk(mine, mine + block, incr)

\* of a collapsed loop, the remainder is spread over the team
CollapsedEven(t, n) ==
    LET share == n \div teamSize
        mark(u) == ((n % teamSize) * u) \div teamSize
    IN  Chunk(share * t + mark(t), share * (t + 1) + mark(t + 1) - 1, 1)

\* the compiled code bounds what the runtime gives it by its own limit
Bounded(t, c) ==
    IF Here(t).collapsed THEN c
    ELSE [c EXCEPT !.upper = IF c.incr > 0 THEN Lesser(@, Here(t).upper)
                                           ELSE Larger(@, Here(t).upper)]

Take(t, c) == cur' = [cur EXCEPT ![t] = Bounded(t, c)] /\ Goto(t, "body")

-----------------------------------------------------------------------------
(* Loops whose schedule is static when the program is compiled *)

AtStatic(t, label) == AtLoop(t, label) /\ Here(t).sched \in {"init_even", "init_chunk"}

StaticInit(t) ==
    /\ AtStatic(t, "work")
    /\ LET l == Here(t)
           mine == l.lower + t * l.chunk * l.incr
       IN  Take(t, IF teamSize = 1 THEN Chunk(l.lower, l.upper, l.incr)
                   ELSE IF l.sched = "init_even"
                   THEN EvenChunk(t, l.lower, l.upper, l.incr)
                   ELSE [Chunk(mine, mine + (l.chunk - 1) * l.incr, l.incr)
                           EXCEPT !.stride = l.chunk * l.incr * teamSize])
    /\ UNCHANGED <<boundVars, countVars, singleVars, orderVars, regionVars,
                   ghostVars, tSchedule, tLoop, at, met>>

-----------------------------------------------------------------------------
(* __ompc_scheduler_init and __ompc_collapse_init *)

AtScheduled(t, label) == AtLoop(t, label) /\ ~AtStatic(t, label)

SetBounds(l) ==
    /\ loopLower' = l.lower /\ loopUpper' = l.upper
    /\ loopIncr' = IF l.collapsed THEN loopIncr ELSE l.incr
    /\ scheduleCount' = 0
    /\ orderedCount' = IF l.ordered THEN 0 ELSE orderedCount

CountLoop(t) ==
    /\ AtScheduled(t, "work")
    /\ tSchedule' = [tSchedule EXCEPT ![t] = 0]
    /\ IF teamSize = 1
       THEN /\ SetBounds(Here(t))
            /\ Goto(t, "next") /\ UNCHANGED tLoop
       ELSE /\ tLoop' = [tLoop EXCEPT ![t] = @ + 1]
            /\ Goto(t, "init")
            /\ UNCHANGED <<loopLower, loopUpper, loopIncr, scheduleCount, orderedCount>>
    /\ UNCHANGED <<schedType, chunkSize, loopCount, singleVars, orderVars, regionVars,
                   ghostVars, at, cur, met>>

\* mutant: every thread initialises the team
InitTeamAlways(t) ==
    /\ pc[t] = "init"
    /\ SetBounds(Here(t))
    /\ schedType' = <<Here(t).sched, Here(t).ordered>>
    /\ chunkSize' = Here(t).chunk
    /\ loopCount' = loopCount + 1
    /\ Goto(t, "next")
    /\ UNCHANGED <<singleVars, orderVars, regionVars, ghostVars, tSchedule, tLoop,
                   at, cur, met>>

InitTeam(t) ==
    /\ pc[t] = "init"
    /\ IF loopCount >= tLoop[t]
       THEN UNCHANGED <<boundVars, countVars>>
       ELSE /\ SetBounds(Here(t))
            /\ schedType' = <<Here(t).sched, Here(t).ordered>>
            /\ chunkSize' = Here(t).chunk
            /\ loopCount' = loopCount + 1
    /\ Goto(t, "next")
    /\ UNCHANGED <<singleVars, orderVars, regionVars, ghostVars, tSchedule, tLoop,
                   at, cur, met>>

-----------------------------------------------------------------------------
(* __ompc_schedule_next and __ompc_collapse_next *)

Scheduled(t, sched) == pc[t] = "next" /\ teamSize > 1 /\ schedType[1] = sched
IsOrdered == schedType[2]
Collapsed(t) == Here(t).collapsed
Count == loopUpper + 1      \* of a collapsed loop, whose upper bound is exclusive

\* where its turn comes in an ordered loop, and after how many iterations
Turn(t, turn, iterations) ==
    IF IsOrdered
    THEN /\ tOrdered' = [tOrdered EXCEPT ![t] = turn]
         /\ tRest' = [tRest EXCEPT ![t] = iterations]
    ELSE UNCHANGED orderVars

NoMore(t) == EndConstruct(t) /\ UNCHANGED <<countVars, loopLower, orderVars, tSchedule, cur>>

NextAlone(t) ==
    /\ pc[t] = "next" /\ teamSize = 1
    /\ \/ /\ scheduleCount = 0
          /\ scheduleCount' = 1
          /\ tOrdered' = [tOrdered EXCEPT ![t] = 0]
          /\ Take(t, Chunk(loopLower, loopUpper, IF Collapsed(t) THEN 1 ELSE loopIncr))
          /\ UNCHANGED <<orderedCount, loopCount, loopLower, tRest, tSchedule, at, met>>
       \/ scheduleCount # 0 /\ NoMore(t)
    /\ UNCHANGED <<loopUpper, loopIncr, schedType, chunkSize, singleVars, regionVars,
                   ghostVars, tLoop>>

\* a loop of fewer iterations than threads gives the others nothing
NextEven(t) ==
    /\ Scheduled(t, "static_even")
    /\ LET c == IF Collapsed(t) THEN CollapsedEven(t, Count)
                ELSE EvenChunk(t, loopLower, loopUpper, loopIncr)
           trips == Trips(loopLower, loopUpper, loopIncr)
           some == IF Collapsed(t) THEN c.lower <= c.upper
                   ELSE trips >= teamSize \/ t < trips
       IN  \/ /\ tSchedule[t] = 0
              /\ tSchedule' = [tSchedule EXCEPT ![t] = 1]
              /\ Turn(t, t, Quot(c.upper - c.lower, c.incr) + 1)
              /\ IF some THEN Take(t, c) /\ UNCHANGED <<at, met>>
                 ELSE EndConstruct(t) /\ UNCHANGED cur
              /\ UNCHANGED <<countVars, loopLower>>
           \/ tSchedule[t] # 0 /\ NoMore(t)
    /\ UNCHANGED <<loopUpper, loopIncr, schedType, chunkSize, singleVars, regionVars,
                   ghostVars, tLoop>>

\* chunks in turn: the k-th chunk of a thread is the (k * teamSize + t)-th
NextStatic(t) ==
    /\ Scheduled(t, "static")
    /\ LET turn == tSchedule[t] * teamSize + t
           incr == IF Collapsed(t) THEN 1 ELSE loopIncr
           trips == IF Collapsed(t) THEN Count ELSE Trips(loopLower, loopUpper, incr)
           lower == (IF Collapsed(t) THEN 0 ELSE loopLower) + turn * chunkSize * incr
           length == IF Collapsed(t) THEN Lesser(chunkSize, Count - lower) ELSE chunkSize
       IN  \/ /\ turn * chunkSize < trips
              /\ tSchedule' = [tSchedule EXCEPT ![t] = @ + 1]
              /\ Turn(t, turn, length)
              /\ Take(t, Chunk(lower, lower + (length - 1) * incr, incr))
              /\ UNCHANGED <<countVars, loopLower, at, met>>
           \/ turn * chunkSize >= trips /\ NoMore(t)
    /\ UNCHANGED <<loopUpper, loopIncr, schedType, chunkSize, singleVars, regionVars,
                   ghostVars, tLoop>>

\* mutant: trip_flag <= 0 taken for no more iterations
ShareButLast(t, length) ==
    LET incr == IF Collapsed(t) THEN 1 ELSE loopIncr
        n == IF Collapsed(t) THEN Lesser(length, Count - loopLower) ELSE length
        over == Past(loopLower + incr, loopUpper, incr)
    IN  \/ /\ ~over
           /\ loopLower' = loopLower + n * incr
           /\ scheduleCount' = IF IsOrdered THEN scheduleCount + 1 ELSE scheduleCount
           /\ Turn(t, scheduleCount, n)
           /\ Take(t, Chunk(loopLower, loopLower + (n - 1) * incr, incr))
           /\ UNCHANGED <<orderedCount, loopCount, tSchedule, at, met>>
        \/ over /\ NoMore(t)

\* the next chunk of the shared rest of the loop, under schedule_lock
Share(t, length) ==
    LET incr == IF Collapsed(t) THEN 1 ELSE loopIncr
        n == IF Collapsed(t) THEN Lesser(length, Count - loopLower) ELSE length
    IN  \/ /\ ~Past(loopLower, loopUpper, incr)
           /\ loopLower' = loopLower + n * incr
           /\ scheduleCount' = IF IsOrdered THEN scheduleCount + 1 ELSE scheduleCount
           /\ Turn(t, scheduleCount, n)
           /\ Take(t, Chunk(loopLower, loopLower + (n - 1) * incr, incr))
           /\ UNCHANGED <<orderedCount, loopCount, tSchedule, at, met>>
        \/ Past(loopLower, loopUpper, incr) /\ NoMore(t)

NextDynamic(t) ==
    /\ Scheduled(t, "dynamic")
    /\ Share(t, chunkSize)
    /\ UNCHANGED <<loopUpper, loopIncr, schedType, chunkSize, singleVars, regionVars,
                   ghostVars, tLoop>>

\* half of an even share, or a whole one in an ordered loop
NextGuided(t) ==
    /\ Scheduled(t, "guided")
    /\ Share(t, LET left == IF Collapsed(t) THEN loopUpper + 1 - loopLower
                            ELSE Trips(loopLower, loopUpper, loopIncr)
                    parts == IF IsOrdered /\ ~Collapsed(t) THEN teamSize ELSE 2 * teamSize
                IN  Larger(chunkSize, Quot(left, parts)))
    /\ UNCHANGED <<loopUpper, loopIncr, schedType, chunkSize, singleVars, regionVars,
                   ghostVars, tLoop>>

-----------------------------------------------------------------------------
(* The body of a loop, and the ordered region in it *)

ChunkLeft(t) == ~Past(cur[t].lower, cur[t].upper, cur[t].incr)

\* one iteration; the chunk shrinks from below
Advance(t) ==
    /\ Execute(t, cur[t].lower)
    /\ cur' = [cur EXCEPT ![t].lower = @ + cur[t].incr]

Iterate(t) ==
    /\ AtLoop(t, "body") /\ ~Here(t).ordered /\ ChunkLeft(t)
    /\ Advance(t)
    /\ UNCHANGED <<boundVars, countVars, singleVars, orderVars, regionVars,
                   tSchedule, tLoop, at, pc, met>>

\* __ompc_ordered: a team of one does not wait
EnterOrdered(t) ==
    /\ AtLoop(t, "body") /\ Here(t).ordered /\ ChunkLeft(t)
    /\ teamSize > 1 => orderedCount = tOrdered[t]
    /\ Advance(t)
    /\ Goto(t, "endOrdered")
    /\ UNCHANGED <<boundVars, countVars, singleVars, orderVars, regionVars,
                   tSchedule, tLoop, at, met>>

\* mutants: the turn passes after each iteration, or after one too many
EndOrderedEach(t) ==
    /\ pc[t] = "endOrdered"
    /\ tRest' = [tRest EXCEPT ![t] = @ - 1]
    /\ orderedCount' = IF teamSize = 1 THEN orderedCount ELSE orderedCount + 1
    /\ Goto(t, "body")
    /\ UNCHANGED <<boundVars, scheduleCount, loopCount, singleVars, tOrdered,
                   regionVars, ghostVars, tSchedule, tLoop, at, cur, met>>
EndOrderedLate(t) ==
    /\ pc[t] = "endOrdered"
    /\ tRest' = [tRest EXCEPT ![t] = @ - 1]
    /\ orderedCount' = IF tRest[t] > 0 \/ teamSize = 1
                       THEN orderedCount ELSE orderedCount + 1
    /\ Goto(t, "body")
    /\ UNCHANGED <<boundVars, scheduleCount, loopCount, singleVars, tOrdered,
                   regionVars, ghostVars, tSchedule, tLoop, at, cur, met>>

\* __ompc_end_ordered: after the last iteration of the chunk the next one's turn
EndOrdered(t) ==
    /\ pc[t] = "endOrdered"
    /\ tRest' = [tRest EXCEPT ![t] = @ - 1]
    /\ orderedCount' = IF tRest[t] - 1 > 0 \/ teamSize = 1
                       THEN orderedCount ELSE orderedCount + 1
    /\ Goto(t, "body")
    /\ UNCHANGED <<boundVars, scheduleCount, loopCount, singleVars, tOrdered,
                   regionVars, ghostVars, tSchedule, tLoop, at, cur, met>>

\* the compiled code asks for more, or moves a chunk of its own by the stride
ChunkDone(t) ==
    /\ AtLoop(t, "body") /\ ~ChunkLeft(t)
    /\ LET c == cur[t]
           from == c.from + c.stride
           last == from + (Here(t).chunk - 1) * c.incr
       IN  \/ /\ AtScheduled(t, "body")
              /\ Goto(t, "next") /\ UNCHANGED <<at, cur, met>>
           \/ /\ AtStatic(t, "body")
              /\ c.stride # 0 /\ ~Past(from, Here(t).upper, c.incr)
              /\ Take(t, [Chunk(from, last, c.incr) EXCEPT !.stride = c.stride])
              /\ UNCHANGED <<at, met>>
           \/ /\ AtStatic(t, "body")
              /\ c.stride = 0 \/ Past(from, Here(t).upper, c.incr)
              /\ EndConstruct(t) /\ UNCHANGED cur
    /\ UNCHANGED <<boundVars, countVars, singleVars, orderVars, regionVars,
                   ghostVars, tSchedule, tLoop>>

-----------------------------------------------------------------------------
(* __ompc_single, __ompc_workshare and __ompc_copyprivate *)

RunSingle(t) == Execute(t, t) /\ first' = [first EXCEPT ![t] = TRUE]

\* the compiled code calls copyprivate after the barrier that ends the single
AfterSingle(t) ==
    \/ /\ Here(t).copy /\ Here(t).nowait
       /\ Goto(t, "publish") /\ UNCHANGED <<at, met>>
    \/ Here(t).copy /\ ~Here(t).nowait /\ Reach(t, "singleEnd")
    \/ ~Here(t).copy /\ EndConstruct(t)

SingleEnd(t) ==
    /\ pc[t] = "singleEnd" /\ AllMet(t)
    /\ Goto(t, "publish")
    /\ UNCHANGED <<boundVars, countVars, singleVars, orderVars, regionVars,
                   ghostVars, tSchedule, tLoop, at, cur, met>>

CountSingle(t) ==
    /\ AtSingle(t, "work")
    /\ IF teamSize = 1
       THEN RunSingle(t) /\ AfterSingle(t) /\ UNCHANGED tSingle
       ELSE /\ tSingle' = [tSingle EXCEPT ![t] = @ + 1]
            /\ Goto(t, "single")
            /\ UNCHANGED <<ghostVars, first, at, met>>
    /\ UNCHANGED <<boundVars, countVars, singleCount, cppriv, orderVars, regionVars,
                   tSchedule, tLoop, cur>>

EnterSingle(t) ==
    /\ pc[t] = "single"
    /\ IF singleCount < tSingle[t]
       THEN singleCount' = singleCount + 1 /\ RunSingle(t)
       ELSE /\ first' = [first EXCEPT ![t] = FALSE]
            /\ UNCHANGED <<singleCount, ghostVars>>
    /\ AfterSingle(t)
    /\ UNCHANGED <<boundVars, countVars, tSingle, cppriv, orderVars, regionVars,
                   tSchedule, tLoop, cur>>

\* the executor's data stand for it: which single, which thread
Publish(t) ==
    /\ pc[t] = "publish"
    /\ cppriv' = IF first[t] THEN <<at[t], t>> ELSE cppriv
    /\ Reach(t, "published")
    /\ UNCHANGED <<boundVars, countVars, singleCount, tSingle, first, orderVars,
                   regionVars, ghostVars, tSchedule, tLoop, cur>>

Published(t) ==
    /\ pc[t] = "published" /\ AllMet(t)
    /\ Goto(t, "copy")
    /\ UNCHANGED <<boundVars, countVars, singleVars, orderVars, regionVars,
                   ghostVars, tSchedule, tLoop, at, cur, met>>

\* mutant: without the second barrier
CopyAndGo(t) ==
    /\ pc[t] = "copy"
    /\ Proceed(t)
    /\ UNCHANGED <<boundVars, countVars, singleVars, orderVars, regionVars,
                   ghostVars, tSchedule, tLoop, cur>>

\* the others read the executor's data here; it lives until they all have
Copy(t) ==
    /\ pc[t] = "copy"
    /\ Reach(t, "barrier")
    /\ UNCHANGED <<boundVars, countVars, singleVars, orderVars, regionVars,
                   ghostVars, tSchedule, tLoop, cur>>

-----------------------------------------------------------------------------
(* Specification *)

Done ==
    /\ regions = Len(Programs) /\ \A t \in Thread : pc[t] = "idle"
    /\ UNCHANGED vars

Step(t) ==
    \/ StaticInit(t) \/ CountLoop(t) \/ InitTeam(t)
    \/ NextAlone(t) \/ NextEven(t) \/ NextStatic(t) \/ NextDynamic(t) \/ NextGuided(t)
    \/ Iterate(t) \/ EnterOrdered(t) \/ EndOrdered(t) \/ ChunkDone(t)
    \/ CountSingle(t) \/ EnterSingle(t) \/ SingleEnd(t)
    \/ Publish(t) \/ Published(t) \/ Copy(t) \/ Barrier(t)

Next ==
    \/ /\ regions < Len(Programs)
       /\ \E n \in TeamSizes, p \in Programs[regions + 1] : Fork(n, p)
    \/ \E t \in Team : Step(t)
    \/ Done

\* every thread keeps running; regions need not come
Spec == Init /\ [][Next]_vars /\ \A t \in Thread : WF_vars(t \in Team /\ Step(t))
=============================================================================
