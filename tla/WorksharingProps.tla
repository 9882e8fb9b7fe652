----------------------------- MODULE WorksharingProps -----------------------------
(***************************************************************************)
(* Properties of Worksharing: every iteration and every single is executed *)
(* once and in time, ordered regions in sequence, and copyprivate copies   *)
(* from the right thread.  Then why: the inductive invariant.              *)
(***************************************************************************)
EXTENDS Worksharing

Construct == DOMAIN program

\* the iterations of a loop, counted from 0
Trip(k) == IF Past(program[k].lower, program[k].upper, program[k].incr) THEN 0
           ELSE Trips(program[k].lower, program[k].upper, program[k].incr)
Value(k, i) == program[k].lower + i * program[k].incr
Iteration(k) == 0..(Trip(k) - 1)
Work(k) == {Value(k, i) : i \in Iteration(k)}
RanAt(k) == {w[2] : w \in {x \in ran : x[1] = k}}

\* omp_runtime.c:475-848, 1386-1662: no iteration is given out twice, none that
\* the loop does not have, and one thread at most executes a single.
OnlyOnce ==
    /\ again = {}
    /\ \A k \in Construct :
          IF IsLoop(program[k]) THEN RanAt(k) \subseteq Work(k)
          ELSE Cardinality(RanAt(k)) <= 1

\* omp_runtime.c:353-376: a thread that a construct's barrier lets through, or
\* a whole team past a construct without one, leaves no work of it undone.
Due(k) == \/ \E t \in Team : at[t] > k /\ ~program[k].nowait
          \/ \A t \in Team : at[t] > k
DoneBeforePassing ==
    \A k \in Construct : Due(k) =>
        IF IsLoop(program[k]) THEN Work(k) \subseteq RanAt(k) ELSE RanAt(k) # {}

\* omp_runtime.c:1692-1728: ordered regions are entered in the loop's sequence,
\* whichever threads have the chunks.
OrderedInSequence ==
    \A k \in Construct : IsLoop(program[k]) /\ program[k].ordered =>
        \A i \in Work(k), j \in RanAt(k) :
            ~Past(i, j, program[k].incr) => i \in RanAt(k)

\* omp_runtime.c:1952-1959: who copies reads what the executor of this single
\* published, and the executor is still there to be read from.
CopiedFromSingle ==
    \A t \in Team : pc[t] = "copy" =>
        /\ cppriv \in ran /\ cppriv[1] = at[t]
        /\ at[cppriv[2]] = at[t]

\* omp_runtime.c:1692-1728: the ordered regions never leave a thread waiting
\* for a turn that does not come; every member reaches the region's end.
RegionEnds == \A t \in Thread : pc[t] = "work" ~> pc[t] = "idle"

-----------------------------------------------------------------------------
(* The programs that survive *)

AtScheduler(k) == IsLoop(program[k]) /\ program[k].sched \in AtRuntime

\* Every thread of a region with several has been in all of them: the counts
\* of loops and singles of a thread never lag (omp_runtime.c:351-356, 1766-1774).
OneTeam == \A m, n \in TeamSizes : m > 1 /\ n > 1 => m = n

\* A barrier separates a loop that asks the scheduler from the next, so the
\* bounds in the team are not overwritten under a thread that still needs them.
OneLoopAtATime ==
    \A r \in DOMAIN Programs : \A p \in Programs[r] : \A j, k \in DOMAIN p :
        j < k /\ {p[j].kind, p[k].kind} = {"loop"} /\ {p[j].sched, p[k].sched} \subseteq AtRuntime
            => \E m \in j..(k - 1) :
                  ~p[m].nowait \/ (p[m].kind = "single" /\ p[m].copy)

Survives == OneTeam /\ OneLoopAtATime

-----------------------------------------------------------------------------
(* Types *)

TypeInv ==
    /\ {loopLower, loopUpper, loopIncr, chunkSize, scheduleCount, orderedCount} \subseteq Int
    /\ cur \in [Thread -> [lower : Int, upper : Int, incr : Int, from : Int, stride : Int]]
    /\ tSchedule \in [Thread -> Nat]
    /\ tOrdered \in [Thread -> Int] /\ tRest \in [Thread -> Int]
    /\ first \in [Thread -> BOOLEAN]
    /\ \A w \in ran : w[1] \in Construct /\ w = <<w[1], w[2]>>

-----------------------------------------------------------------------------
(* Where the threads are *)

LoopLabels == {"init", "next", "body", "endOrdered"}
CopyLabels == {"publish", "published", "copy"}

PlaceInv ==
    /\ teamSize \in TeamSizes \cup {1}
    /\ regions \in Nat
    /\ program = <<>> \/ \E r \in DOMAIN Programs : program \in Programs[r]
    /\ at \in [Thread -> Nat]
    /\ pc \in [Thread -> {"idle", "work", "single", "singleEnd", "barrier"}
                            \cup LoopLabels \cup CopyLabels]
    /\ \A t \in Thread \ Team : pc[t] = "idle"
    /\ \A t \in Team :
          /\ pc[t] = "idle" => \A k \in Construct : k < at[t]
          /\ pc[t] # "idle" => at[t] \in Construct
          /\ pc[t] \in LoopLabels => IsLoop(program[at[t]])
          /\ pc[t] \in LoopLabels \ {"body"} => AtScheduler(at[t])
          /\ pc[t] \in {"init", "single"} => teamSize > 1
          /\ pc[t] = "endOrdered" => program[at[t]].ordered
          /\ pc[t] \in {"single", "singleEnd"} \cup CopyLabels => IsSingle(program[at[t]])
          /\ pc[t] = "singleEnd" => program[at[t]].copy /\ ~program[at[t]].nowait
          /\ pc[t] \in CopyLabels => program[at[t]].copy
          /\ pc[t] = "barrier" =>
                ~program[at[t]].nowait \/ (IsSingle(program[at[t]]) /\ program[at[t]].copy)

\* A construct has up to three barriers, at its stages 1, 3 and 5: where a
\* single ends, where its data are published, and where the construct ends.
Stage(t) == CASE pc[t] = "singleEnd" -> 1 [] pc[t] = "publish" -> 2
              [] pc[t] = "published" -> 3 [] pc[t] = "copy" -> 4
              [] pc[t] = "barrier" -> 5 [] OTHER -> 0
HasBarrier(k, s) ==
    IF IsLoop(program[k]) THEN s = 5 /\ ~program[k].nowait
    ELSE CASE s = 1 -> program[k].copy /\ ~program[k].nowait
           [] s = 3 -> program[k].copy
           [] s = 5 -> program[k].copy \/ ~program[k].nowait
Barriers == {b \in Construct \X {1, 3, 5} : HasBarrier(b[1], b[2])}

\* the barriers of this region a thread has reached, and those it has left
Met(t) == {b \in Barriers : b[1] < at[t] \/ (b[1] = at[t] /\ b[2] <= Stage(t))}
Left(t) == {b \in Barriers : b[1] < at[t] \/ (b[1] = at[t] /\ b[2] < Stage(t))}

MetInv == /\ met \in [Thread -> Nat]
          /\ \A t \in Team : met[t] = Cardinality(Met(t))
          /\ \A t, u \in Team : Left(t) \subseteq Met(u)

-----------------------------------------------------------------------------
(* The counts that choose who initialises a loop and who executes a single *)

Started(t, k) == at[t] > k \/ (at[t] = k /\ pc[t] # "work")
Chosen(t, k) == at[t] > k \/ (at[t] = k /\ pc[t] \notin {"work", "init", "single"})

Loops == {k \in Construct : AtScheduler(k)}
Singles == {k \in Construct : IsSingle(program[k])}
Counted(t, ks) == {k \in ks : Started(t, k)}
Begun(ks) == {k \in ks : \E t \in Team : Chosen(t, k)}

CountInv ==
    /\ tLoop \in [Thread -> Nat] /\ loopCount \in Nat
    /\ tSingle \in [Thread -> Nat] /\ singleCount \in Nat
    /\ \A t \in Thread :
          IF teamSize = 1 THEN tLoop[t] = loopCount /\ tSingle[t] = singleCount
          ELSE /\ tLoop[t] + Cardinality(Begun(Loops))
                     = loopCount + Cardinality(Counted(t, Loops))
               /\ tSingle[t] + Cardinality(Begun(Singles))
                     = singleCount + Cardinality(Counted(t, Singles))

\* the loop whose bounds are in the team
Current(k) == k \in Begun(Loops) /\ \A j \in Begun(Loops) : j <= k

Shared(k) == program[k].sched \in {"dynamic", "guided"}

BoundsInv == \A k \in Construct : Current(k) =>
    LET l == program[k]
    IN  /\ loopUpper = l.upper
        /\ ~l.collapsed => loopIncr = l.incr
        /\ teamSize > 1 => schedType = <<l.sched, l.ordered>> /\ chunkSize = l.chunk
        /\ teamSize = 1 \/ ~Shared(k) => loopLower = l.lower
        /\ teamSize > 1 /\ Shared(k) => \/ Past(loopLower, l.upper, l.incr)
                                         \/ \E i \in Iteration(k) : loopLower = Value(k, i)

-----------------------------------------------------------------------------
(* Who has which iterations to execute *)

\* A static schedule cuts the iterations into chunks numbered from 0, where
\* each starts, and gives a thread those it is due modulo the team size.
Static(k) == IsLoop(program[k]) /\ ~Shared(k) /\ (teamSize = 1 => ~AtScheduler(k))
Start(k, q) ==
    LET n == Trip(k)
    IN  IF program[k].sched = "static" \/ (program[k].sched = "init_chunk" /\ teamSize > 1)
        THEN q * program[k].chunk
        ELSE IF program[k].collapsed
        THEN (n \div teamSize) * q + ((n % teamSize) * q) \div teamSize
        ELSE q * ((n \div teamSize) + (IF n % teamSize = 0 THEN 0 ELSE 1))
InChunk(k, q, i) == Start(k, q) <= i /\ i < Start(k, q + 1)
Number(t, s) == s * teamSize + t    \* the s-th of a thread

\* whether a thread is still to be given its s-th chunk
Later(t, k, s) ==
    \/ ~Started(t, k)
    \/ /\ at[t] = k /\ pc[t] \in LoopLabels
       /\ IF AtScheduler(k) THEN s >= tSchedule[t]
          ELSE /\ cur[t].stride # 0
               /\ ~Past(cur[t].from + cur[t].stride, Value(k, Start(k, Number(t, s))),
                        program[k].incr)
Future(t, k) ==
    {i \in Iteration(k) : Static(k) /\ \E s \in 0..Trip(k) :
                              InChunk(k, Number(t, s), i) /\ Later(t, k, s)}

\* the rest of the chunk it works on
Holds(t, k) == at[t] = k /\ pc[t] \in {"body", "endOrdered"}
Rest(t, k) ==
    {i \in Iteration(k) : /\ Holds(t, k)
                          /\ ~Past(cur[t].lower, Value(k, i), program[k].incr)
                          /\ ~Past(Value(k, i), cur[t].upper, program[k].incr)}
Owed(t, k) == Rest(t, k) \cup Future(t, k)

\* what is still to be given out to whoever asks first
Pool(k) ==
    {i \in Iteration(k) :
        /\ ~Static(k)
        /\ \/ k \notin Begun(Loops)
           \/ /\ Current(k)
              /\ IF teamSize = 1 THEN scheduleCount = 0
                 ELSE ~Past(loopLower, Value(k, i), program[k].incr)}

ChunkInv == \A t \in Team : LET k == at[t] IN
    /\ pc[t] \in {"body", "endOrdered"} =>
          /\ cur[t].incr = program[k].incr
          /\ ~Past(cur[t].upper, program[k].upper, program[k].incr)
          /\ ChunkLeft(t) => \E i \in Iteration(k) : cur[t].lower = Value(k, i)
          /\ ~AtScheduler(k) /\ cur[t].stride # 0 =>
                /\ program[k].sched = "init_chunk" /\ teamSize > 1
                /\ cur[t].stride = program[k].chunk * program[k].incr * teamSize
                /\ \E s \in 0..Trip(k) : cur[t].from = Value(k, Start(k, Number(t, s)))
          /\ AtScheduler(k) /\ teamSize = 1 => scheduleCount # 0

ShareInv ==
    /\ again = {}
    /\ \A k \in Construct : IsLoop(program[k]) =>
          /\ RanAt(k) \subseteq Work(k)
          /\ \A i \in Iteration(k) :
                Value(k, i) \in RanAt(k)
                    <=> i \notin Pool(k) /\ \A t \in Team : i \notin Owed(t, k)
          /\ \A t, u \in Team : t # u => Owed(t, k) \cap Owed(u, k) = {}
          /\ \A t \in Team : Rest(t, k) \cap Future(t, k) = {}
          /\ \A t \in Team : Owed(t, k) \cap Pool(k) = {}
          /\ \A t \in Team : at[t] > k \/ (at[t] = k /\ pc[t] = "barrier") => Pool(k) = {}

-----------------------------------------------------------------------------
(* Turns *)

\* what is left of its chunk, as __ompc_end_ordered counts it
Remaining(t) == IF pc[t] = "endOrdered" THEN tRest[t] - 1 ELSE tRest[t]

TurnInv == \A k \in Construct : Current(k) /\ program[k].ordered /\ teamSize > 1 =>
    /\ \A t \in Team : Holds(t, k) =>
          /\ pc[t] = "endOrdered" => tOrdered[t] = orderedCount
          /\ \A i \in Rest(t, k) :
                Past(cur[t].lower + Remaining(t) * program[k].incr, Value(k, i), program[k].incr)
    /\ Static(k) =>
          /\ \A t \in Team : Holds(t, k) =>
                /\ tSchedule[t] > 0 /\ tOrdered[t] = Number(t, tSchedule[t] - 1)
                /\ \A i \in Rest(t, k) : InChunk(k, tOrdered[t], i)
          /\ \A t \in Team, s \in 0..Trip(k) : \A i \in Owed(t, k) :
                InChunk(k, Number(t, s), i) => Number(t, s) >= orderedCount
    /\ ~Static(k) =>
          /\ scheduleCount >= orderedCount
          /\ \A t \in Team : Holds(t, k) =>
                /\ tOrdered[t] < scheduleCount
                /\ \A i \in Rest(t, k) :
                      tOrdered[t] >= orderedCount /\ Past(loopLower, Value(k, i), program[k].incr)
          /\ \A t, u \in Team : Holds(t, k) /\ Holds(u, k) /\ t # u =>
                /\ tOrdered[t] # tOrdered[u]
                /\ tOrdered[t] < tOrdered[u] => \A i \in Rest(t, k), j \in Rest(u, k) : i < j

SequenceInv == \A k \in Construct : IsLoop(program[k]) /\ program[k].ordered =>
    \A i, j \in Iteration(k) :
        i < j /\ Value(k, j) \in RanAt(k) => Value(k, i) \in RanAt(k)

-----------------------------------------------------------------------------
(* Singles *)

SingleInv == \A k \in Singles :
    /\ RanAt(k) # {} <=> k \in Begun(Singles)
    /\ \A x, y \in RanAt(k) : x = y
    /\ \A x \in RanAt(k) : x \in Team /\ Chosen(x, k)
    /\ \A t \in Team : at[t] = k /\ Chosen(t, k) => (first[t] <=> t \in RanAt(k))

\* Once its executor has published, and until everybody has met the barrier
\* that ends the single, its data stay.
CopyInv == \A k \in Singles : program[k].copy =>
    \A x \in RanAt(k), t \in Team :
        /\ at[x] = k /\ Stage(x) \in {3, 4, 5}
        /\ <<k, 5>> \notin Met(t)
        => cppriv = <<k, x>>

IInv == /\ TypeInv /\ PlaceInv /\ MetInv /\ CountInv /\ BoundsInv /\ ChunkInv /\ ShareInv
        /\ TurnInv /\ SequenceInv /\ SingleInv /\ CopyInv
=============================================================================
