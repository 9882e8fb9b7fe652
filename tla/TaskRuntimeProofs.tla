-------------------------- MODULE TaskRuntimeProofs -------------------------
(***************************************************************************)
(* Lemmas about TaskRuntime: what its actions do to the call stacks, the   *)
(* queues and the counters, and that every step keeps PlaceInv (every task *)
(* is where its label says) and CountInv (the counters are exact).  The    *)
(* invariant as a whole and the theorems are in TaskRuntimeProofs.         *)
(***************************************************************************)
EXTENDS TaskRuntimeProps, FiniteSetTheorems, SequenceTheorems, TLAPS

-----------------------------------------------------------------------------
(* Call stacks and queues: a sequence for each thread, of tasks that are   *)
(* nowhere twice                                                           *)

\* The last member of a sequence and what is before it.
LEMMA LastAndFront ==
    ASSUME NEW S, NEW s \in Seq(S), s # <<>>
    PROVE  /\ Len(s) \in Nat \ {0} /\ Last(s) = s[Len(s)] /\ Last(s) \in S
           /\ Front(s) \in Seq(S) /\ Len(Front(s)) = Len(s) - 1
           /\ \A i \in 1..(Len(s) - 1) : Front(s)[i] = s[i]
<1>1. Len(s) \in Nat \ {0} /\ \A i \in 1..Len(s) : s[i] \in S
    OBVIOUS
<1>2. \A i \in 1..(Len(s) - 1) : s[i] \in S
    BY <1>1
<1>3. /\ Front(s) \in Seq(S) /\ Len(Front(s)) = Len(s) - 1
      /\ \A i \in 1..(Len(s) - 1) : Front(s)[i] = s[i]
    <2>1. PICK n \in Nat : n = Len(s) - 1
        BY <1>1
    <2>2. /\ SubSeq(s, 1, n) \in Seq(S) /\ Len(SubSeq(s, 1, n)) = IF 1 <= n THEN n - 1 + 1 ELSE 0
          /\ \A i \in 1..(n - 1 + 1) : SubSeq(s, 1, n)[i] = s[1 + i - 1]
        BY <1>2, <2>1, SubSeqProperties
    <2>3. \A i \in 1..n : i \in 1..(n - 1 + 1) /\ 1 + i - 1 = i
        BY <2>1
    <2> QED
        BY <2>1, <2>2, <2>3 DEF Front
<1> QED
    BY <1>1, <1>3 DEF Last

(* A task that was nowhere is put at the end of one sequence. *)
Grown(S, f, g, t, n) ==
    /\ g \in [Thread -> Seq(S)] /\ Once(g)
    /\ \A m : Within(m, g) <=> Within(m, f) \/ m = n
    /\ \A u \in Thread \ {t} : g[u] = f[u]
    /\ Len(g[t]) = Len(f[t]) + 1 /\ Last(g[t]) = n /\ g[t] # <<>>
    /\ \A i \in 1..Len(f[t]) : g[t][i] = f[t][i]
    /\ g[t][Len(f[t]) + 1] = n
Shrunk(S, f, g, t, n) ==
    /\ g \in [Thread -> Seq(S)] /\ Once(g) /\ Within(n, f)
    /\ \A m : Within(m, g) <=> Within(m, f) /\ m # n
    /\ \A u \in Thread \ {t} : g[u] = f[u]
    /\ Len(g[t]) = Len(f[t]) - 1

KeptFront(f, g, t) == \A i \in 1..(Len(f[t]) - 1) : g[t][i] = f[t][i]

\* Put at the end of a queue (omp_queue.h), or pushed on a call stack.
LEMMA PutLast ==
    ASSUME NEW S, NEW f \in [Thread -> Seq(S)], NEW g, NEW t \in Thread, NEW n \in S,
           Once(f), ~Within(n, f), g = Enqueued(f, t, n)
    PROVE  Grown(S, f, g, t, n)
<1> USE DEF Enqueued
<1>1. f[t] \in Seq(S) /\ Len(f[t]) \in Nat /\ g[t] = Append(f[t], n)
    OBVIOUS
<1>2. /\ g[t] \in Seq(S) /\ Len(g[t]) = Len(f[t]) + 1 /\ g[t] # <<>>
      /\ \A i \in 1..Len(f[t]) : g[t][i] = f[t][i]
      /\ g[t][Len(f[t]) + 1] = n
    BY <1>1
<1>3. g \in [Thread -> Seq(S)] /\ \A u \in Thread \ {t} : g[u] = f[u]
    BY <1>1, <1>2
<1>4. /\ DOMAIN g[t] = 1..(Len(f[t]) + 1) /\ DOMAIN f[t] = 1..Len(f[t])
      /\ \A i \in DOMAIN g[t] : i \in DOMAIN f[t] \/ i = Len(f[t]) + 1
    BY <1>1, <1>2
<1>5. ASSUME NEW u \in Thread, NEW i \in DOMAIN g[u]
      PROVE  \/ u = t /\ i = Len(f[t]) + 1 /\ g[u][i] = n
             \/ i \in DOMAIN f[u] /\ g[u][i] = f[u][i] /\ f[u][i] # n
    <2>1. CASE u # t
        BY <1>3, <2>1 DEF Within
    <2>2. CASE u = t
        BY <1>2, <1>4, <2>2 DEF Within
    <2> QED
        BY <2>1, <2>2
<1>6. Once(g)
    BY <1>5 DEF Once
<1>7. ASSUME NEW m PROVE Within(m, g) <=> Within(m, f) \/ m = n
    <2>1. ASSUME NEW u \in Thread, NEW i \in DOMAIN f[u]
          PROVE  i \in DOMAIN g[u] /\ g[u][i] = f[u][i]
        BY <1>2, <1>3, <1>4
    <2>2. Len(f[t]) + 1 \in DOMAIN g[t]
        BY <1>1, <1>4
    <2> QED
        BY <1>2, <1>5, <2>1, <2>2 DEF Within
<1> QED
    BY <1>2, <1>3, <1>6, <1>7 DEF Last, Grown

(* The last one, or the first one, of a sequence is taken from it. *)
LEMMA TakeLast ==
    ASSUME NEW S, NEW f \in [Thread -> Seq(S)], NEW g, NEW t \in Thread,
           Once(f), f[t] # <<>>, g = TakeFrom(f, t, "tail")
    PROVE  Shrunk(S, f, g, t, Last(f[t])) /\ KeptFront(f, g, t)
<1> USE DEF TakeFrom
<1>1. f[t] \in Seq(S) /\ g[t] = Front(f[t])
    OBVIOUS
<1>2. /\ Len(f[t]) \in Nat \ {0} /\ Last(f[t]) = f[t][Len(f[t])]
      /\ g[t] \in Seq(S) /\ Len(g[t]) = Len(f[t]) - 1
      /\ \A i \in 1..(Len(f[t]) - 1) : g[t][i] = f[t][i]
    BY <1>1, LastAndFront
<1>3. g \in [Thread -> Seq(S)] /\ \A u \in Thread \ {t} : g[u] = f[u]
    BY <1>1, <1>2
<1>4. /\ DOMAIN f[t] = 1..Len(f[t]) /\ DOMAIN g[t] = 1..(Len(f[t]) - 1)
      /\ Len(f[t]) \in DOMAIN f[t]
      /\ \A i \in DOMAIN f[t] : i \in DOMAIN g[t] \/ i = Len(f[t])
      /\ \A i \in DOMAIN g[t] : i \in DOMAIN f[t] /\ i # Len(f[t])
    BY <1>1, <1>2
<1>5. ASSUME NEW u \in Thread, NEW i \in DOMAIN g[u]
      PROVE  i \in DOMAIN f[u] /\ g[u][i] = f[u][i] /\ f[u][i] # Last(f[t])
    <2>1. i \in DOMAIN f[u] /\ g[u][i] = f[u][i] /\ (u = t => i # Len(f[t]))
        BY <1>2, <1>3, <1>4
    <2> QED
        BY <1>2, <1>4, <2>1 DEF Once
<1>6. Once(g)
    BY <1>5 DEF Once
<1>7. ASSUME NEW m PROVE Within(m, g) <=> Within(m, f) /\ m # Last(f[t])
    <2>1. ASSUME NEW u \in Thread, NEW i \in DOMAIN f[u], f[u][i] # Last(f[t])
          PROVE  i \in DOMAIN g[u] /\ g[u][i] = f[u][i]
        BY <1>2, <1>3, <1>4, <2>1
    <2> QED
        BY <1>5, <2>1 DEF Within
<1>8. Within(Last(f[t]), f)
    BY <1>2, <1>4 DEF Within
<1> QED
    BY <1>2, <1>3, <1>6, <1>7, <1>8 DEF Shrunk, KeptFront

\* Taken from the head of a queue.
LEMMA TakeFirst ==
    ASSUME NEW S, NEW f \in [Thread -> Seq(S)], NEW g, NEW t \in Thread,
           Once(f), f[t] # <<>>, g = TakeFrom(f, t, "head")
    PROVE  Shrunk(S, f, g, t, Head(f[t]))
<1> USE DEF TakeFrom
<1>1. f[t] \in Seq(S) /\ g[t] = Tail(f[t])
    OBVIOUS
<1>2. /\ Len(f[t]) \in Nat \ {0} /\ Head(f[t]) = f[t][1]
      /\ g[t] \in Seq(S) /\ Len(g[t]) = Len(f[t]) - 1
      /\ \A i \in 1..(Len(f[t]) - 1) : g[t][i] = f[t][i + 1]
    BY <1>1
<1>3. g \in [Thread -> Seq(S)] /\ \A u \in Thread \ {t} : g[u] = f[u]
    BY <1>1, <1>2
<1>4. /\ DOMAIN f[t] = 1..Len(f[t]) /\ DOMAIN g[t] = 1..(Len(f[t]) - 1)
      /\ 1 \in DOMAIN f[t]
      /\ \A i \in DOMAIN f[t] : i - 1 \in DOMAIN g[t] \/ i = 1
      /\ \A i \in DOMAIN g[t] : i + 1 \in DOMAIN f[t] /\ i + 1 # 1
      /\ \A i, j \in DOMAIN g[t] : i + 1 = j + 1 => i = j
    BY <1>1, <1>2
<1>5. ASSUME NEW u \in Thread, NEW i \in DOMAIN g[u]
      PROVE  g[u][i] # Head(f[t]) /\ IF u = t THEN i + 1 \in DOMAIN f[u] /\ g[u][i] = f[u][i + 1]
                             ELSE i \in DOMAIN f[u] /\ g[u][i] = f[u][i]
    <2>1. IF u = t THEN i + 1 \in DOMAIN f[u] /\ g[u][i] = f[u][i + 1]
                   ELSE i \in DOMAIN f[u] /\ g[u][i] = f[u][i]
        BY <1>2, <1>3, <1>4
    <2> QED
        BY <1>2, <1>4, <2>1 DEF Once
<1>6. Once(g)
    <2> SUFFICES ASSUME NEW u \in Thread, NEW v \in Thread, NEW i \in DOMAIN g[u],
                        NEW j \in DOMAIN g[v], g[u][i] = g[v][j]
                 PROVE  u = v /\ i = j
        BY DEF Once
    <2>1. CASE u = t /\ v = t
        BY <1>4, <1>5, <2>1 DEF Once
    <2>2. CASE u # t \/ v # t
        BY <1>5, <2>2 DEF Once
    <2> QED
        BY <2>1, <2>2
<1>7. ASSUME NEW m PROVE Within(m, g) <=> Within(m, f) /\ m # Head(f[t])
    <2>1. ASSUME NEW u \in Thread, NEW i \in DOMAIN g[u]
          PROVE  g[u][i] # Head(f[t]) /\ \E j \in DOMAIN f[u] : f[u][j] = g[u][i]
        <3>1. g[u][i] # Head(f[t])
            BY <1>5
        <3>2. CASE u = t
            BY <1>5, <3>1, <3>2
        <3>3. CASE u # t
            BY <1>5, <3>1, <3>3
        <3> QED
            BY <3>2, <3>3
    <2>2. ASSUME NEW u \in Thread, NEW i \in DOMAIN f[u], f[u][i] # Head(f[t])
          PROVE  \E j \in DOMAIN g[u] : g[u][j] = f[u][i]
        <3>1. CASE u # t
            BY <1>3, <3>1
        <3>2. CASE u = t
            <4>1. i - 1 \in DOMAIN g[t] /\ i \in Nat
                BY <1>2, <1>4, <2>2, <3>2
            <4>2. g[t][i - 1] = f[t][(i - 1) + 1] /\ (i - 1) + 1 = i
                BY <1>2, <1>4, <4>1
            <4> QED
                BY <3>2, <4>1, <4>2
        <3> QED
            BY <3>1, <3>2
    <2> QED
        BY <2>1, <2>2 DEF Within
<1>8. Within(Head(f[t]), f)
    BY <1>2, <1>4 DEF Within
<1> QED
    BY <1>2, <1>3, <1>6, <1>7, <1>8 DEF Shrunk, KeptFront

-----------------------------------------------------------------------------
(* Tasks, and the task a thread runs *)

\* What the constants are, and what a task can be named.
LEMMA Names ==
    /\ IsFiniteSet(Thread) /\ Master \in Thread /\ Thread \cap Explicit = {}
    /\ MaxTasks \in Nat /\ QueueCap \in Nat /\ NumBarriers \in Nat
    /\ Thread \subseteq Task /\ Explicit \subseteq Task
    /\ \A c \in Task : c \in Thread <=> c \notin Explicit
    /\ TeamSize \in Nat /\ IsFiniteSet(Task)
<1>1. IsFiniteSet(Explicit)
    BY BoundAssumption, FS_Interval DEF Explicit
<1>2. IsFiniteSet(Task) /\ TeamSize \in Nat
    BY <1>1, TeamAssumption, FS_Union, FS_CardinalityType DEF Task, TeamSize
<1> QED
    BY <1>2, TeamAssumption, BoundAssumption DEF Task

\* The tasks created so far are explicit and finitely many.
LEMMA UsedTasks ==
    ASSUME Types
    PROVE  /\ Used \subseteq Explicit /\ Used \subseteq Task /\ Used \cap Thread = {}
           /\ created \in Nat /\ IsFiniteSet(Used)
<1>1. created \in Nat /\ created <= MaxTasks /\ MaxTasks \in Nat
    BY Names DEF Types
<1>2. Used \subseteq Explicit /\ IsFiniteSet(Used)
    BY <1>1, FS_Interval DEF Used, Explicit
<1> QED
    BY <1>1, <1>2, Names

\* A thread runs its implicit task when its call stack holds nothing else.
LEMMA Top ==
    ASSUME Types, PcInv, StackInv, NEW t \in Thread
    PROVE  /\ stack[t] \in Seq(Task) /\ Len(stack[t]) \in Nat \ {0}
           /\ DOMAIN stack[t] = 1..Len(stack[t])
           /\ Current(t) = stack[t][Len(stack[t])] /\ Current(t) \in Task
           /\ Current(t) \in Thread => Current(t) = t /\ Len(stack[t]) = 1
           /\ Current(t) \notin Thread => Current(t) \in Used /\ pc[Current(t)] \in OwnLabels
           /\ \A u \in Thread : \A i \in 1..Len(stack[u]) :
                stack[u][i] = Current(t) => u = t /\ i = Len(stack[t])
<1>1. /\ stack[t] \in Seq(Task) /\ stack[t] # <<>> /\ stack[t][1] = t
      /\ \A i \in 2..Len(stack[t]) : stack[t][i] \in Used
    BY DEF Types, StackInv
<1>2. /\ Len(stack[t]) \in Nat \ {0} /\ DOMAIN stack[t] = 1..Len(stack[t])
      /\ Current(t) = stack[t][Len(stack[t])] /\ Current(t) \in Task
    <2>1. Last(stack[t]) = stack[t][Len(stack[t])] /\ Last(stack[t]) \in Task
        BY <1>1, LastAndFront
    <2>2. Len(stack[t]) \in Nat \ {0} /\ DOMAIN stack[t] = 1..Len(stack[t])
        BY <1>1
    <2> QED
        BY <2>1, <2>2 DEF Current
<1>3. Len(stack[t]) \in 1..Len(stack[t]) /\ (Len(stack[t]) = 1 \/ Len(stack[t]) \in 2..Len(stack[t]))
    <2>1. \A n \in Nat \ {0} : n \in 1..n /\ (n = 1 \/ n \in 2..n)
        OBVIOUS
    <2> QED
        BY <1>2, <2>1
<1>4. Len(stack[t]) = 1 \/ Current(t) \in Used
    BY <1>1, <1>2, <1>3
<1>5. Current(t) \in Thread => Current(t) = t /\ Len(stack[t]) = 1
    BY <1>1, <1>2, <1>4, UsedTasks
<1>6. Current(t) \in Used => pc[Current(t)] \in OwnLabels
    BY <1>2, <1>3 DEF StackInv, Within
<1>7. \A u \in Thread : DOMAIN stack[u] = 1..Len(stack[u])
    BY DEF Types
<1>8. \A u \in Thread : \A i \in 1..Len(stack[u]) :
          stack[u][i] = Current(t) => u = t /\ i = Len(stack[t])
    BY <1>2, <1>3, <1>7 DEF StackInv, Once
<1> QED
    BY <1>1, <1>2, <1>4, <1>5, <1>6, <1>8, Names, Zenon

\* Labels of explicit tasks, and of implicit ones.
LEMMA TopLabel ==
    ASSUME Types, PcInv, StackInv, NEW t \in Thread
    PROVE  /\ pc[Current(t)] \in AtBarrier => Current(t) = t
           /\ pc[Current(t)] \in {"exitDec", "exitCheck", "finish"} =>
                 Current(t) \in Used /\ IsDeferred(Current(t))
<1>1. Current(t) \in Used => pc[Current(t)] \notin AtBarrier
    BY Top, UsedTasks, Names DEF OwnLabels, Started, AtBarrier
<1>2. Current(t) \in Thread => pc[Current(t)] \notin {"exitDec", "exitCheck", "finish"}
    BY DEF PcInv, Started, AtBarrier
<1> QED
    BY <1>1, <1>2, Top DEF PcInv

-----------------------------------------------------------------------------
(* What the actions do to the call stacks *)

\* the task on top of t's stack goes on to l
Stays(t, l) == pc' = [pc EXCEPT ![Current(t)] = l] /\ stack' = stack
\* n is run above it, and it will go on at l
Pushes(t, n, l) ==
    /\ stack' = [stack EXCEPT ![t] = Append(@, n)]
    /\ pc' = [pc EXCEPT ![Current(t)] = l, ![n] = "body"]
\* it has returned to the task below it
Under(t) == stack[t][Len(stack[t]) - 1]
Pops(t) ==
    /\ stack' = [stack EXCEPT ![t] = Front(@)]
    /\ pc' = [pc EXCEPT ![Current(t)] = "done",
                        ![Under(t)] = IF pc[Under(t)] = "createReturn" THEN "body" ELSE @]

SameTasks == UNCHANGED <<created, kind, parent>>

\* labels the task of a thread can have
Allowed(c, l) ==
    /\ c \in Thread => l \in Started \cup AtBarrier
    /\ c \in Used => /\ l \in OwnLabels
                     /\ l \in {"exitDec", "exitCheck", "finish"} => IsDeferred(c)

\* Labels after a step that leaves the stacks alone.
LEMMA StayPc ==
    ASSUME Types, PcInv, StackInv, NEW t \in Thread, NEW l \in Labels, Stays(t, l)
    PROVE  /\ pc' \in [Task -> Labels]
           /\ \A c \in Task : pc'[c] = IF c = Current(t) THEN l ELSE pc[c]
  BY Top DEF Types, Stays

\* Such a step keeps the stacks in order.
LEMMA StayKeepsStack ==
    ASSUME Types, PcInv, StackInv, NEW t \in Thread, NEW l \in Labels, Stays(t, l),
           SameTasks, Allowed(Current(t), l)
    PROVE  PcInv' /\ StackInv'
<1>1. /\ \A c \in Task : pc'[c] = IF c = Current(t) THEN l ELSE pc[c]
      /\ Used' = Used /\ stack' = stack
      /\ \A c \in Task : IsDeferred(c)' <=> IsDeferred(c)
    BY StayPc DEF Stays, SameTasks, Used, IsDeferred, IsImplicit
<1>2. PcInv'
    BY <1>1, Top, UsedTasks, Names DEF PcInv, Allowed
<1>3. \A u \in Thread : \A i \in 1..(Len(stack[u]) - 1) :
          /\ stack[u][i] # Current(t) /\ stack[u][i] \in Task
          /\ i \in 1..Len(stack[u])
    <2>1. ASSUME NEW u \in Thread, NEW i \in 1..(Len(stack[u]) - 1)
          PROVE  stack[u][i] # Current(t) /\ stack[u][i] \in Task /\ i \in 1..Len(stack[u])
        <3>1. stack[u] \in Seq(Task) /\ i \in 1..Len(stack[u]) /\ i # Len(stack[u])
            BY DEF Types
        <3> QED
            BY <3>1, Top
    <2> QED
        BY <2>1
<1>4. \A n \in Used : Within(n, stack') <=> pc'[n] \in OwnLabels
    BY <1>1, Top, UsedTasks DEF StackInv, Allowed
<1> QED
    BY <1>1, <1>2, <1>3, <1>4 DEF StackInv

\* Labels after a task was run on top of another.
LEMMA PushPc ==
    ASSUME Types, PcInv, StackInv, NEW t \in Thread, NEW n \in Explicit, NEW l \in Labels,
           pc[n] \notin OwnLabels, Pushes(t, n, l)
    PROVE  /\ pc' \in [Task -> Labels] /\ n # Current(t) /\ ~Within(n, stack)
           /\ \A c \in Task : pc'[c] = IF c = n THEN "body"
                                       ELSE IF c = Current(t) THEN l ELSE pc[c]
<1>1. n \in Task /\ n \notin Thread /\ "body" \in Labels /\ pc \in [Task -> Labels]
    BY Names DEF Labels, Types
<1>2. n # Current(t)
    BY <1>1, Top
<1>3. ~Within(n, stack)
    <2>1. ASSUME NEW u \in Thread, NEW i \in DOMAIN stack[u], stack[u][i] = n PROVE FALSE
        <3>1. i \in 1..Len(stack[u]) /\ (i = 1 \/ i \in 2..Len(stack[u]))
            <4>1. stack[u] \in Seq(Task)
                BY DEF Types
            <4>2. i \in 1..Len(stack[u]) /\ Len(stack[u]) \in Nat
                BY <4>1
            <4> QED
                BY <4>2
        <3>2. i # 1
            BY <1>1, <2>1, <3>1 DEF StackInv
        <3>3. n \in Used
            BY <2>1, <3>1, <3>2 DEF StackInv
        <3> QED
            BY <2>1, <3>3 DEF StackInv, Within
    <2> QED
        BY <2>1 DEF Within
<1> QED
    BY <1>1, <1>2, <1>3, Top DEF Pushes

\* A push keeps the stacks in order.
LEMMA PushKeepsStack ==
    ASSUME Types, PcInv, StackInv, NEW t \in Thread, NEW n \in Explicit, NEW l \in Below,
           pc[n] \notin OwnLabels, Pushes(t, n, l), Allowed(Current(t), l),
           Used' = Used \cup {n}, \A c \in Used : IsDeferred(c)' <=> IsDeferred(c)
    PROVE  PcInv' /\ StackInv' /\ stack' \in [Thread -> Seq(Task)]
<1>1. l \in Labels
    BY DEF Below, Labels
<1>2. /\ n # Current(t) /\ ~Within(n, stack) /\ n \in Task
      /\ \A c \in Task : pc'[c] = IF c = n THEN "body"
                                  ELSE IF c = Current(t) THEN l ELSE pc[c]
    BY <1>1, PushPc, Names
<1>3. /\ stack' \in [Thread -> Seq(Task)] /\ Once(stack')
      /\ \A m : Within(m, stack') <=> Within(m, stack) \/ m = n
      /\ \A u \in Thread \ {t} : stack'[u] = stack[u]
      /\ Len(stack'[t]) = Len(stack[t]) + 1 /\ stack'[t] # <<>>
      /\ \A i \in 1..Len(stack[t]) : stack'[t][i] = stack[t][i]
      /\ stack'[t][Len(stack[t]) + 1] = n
    <2>1. /\ stack \in [Thread -> Seq(Task)] /\ Once(stack)
          /\ stack' = Enqueued(stack, t, n)
        BY DEF Types, StackInv, Pushes, Enqueued
    <2>2. Grown(Task, stack, stack', t, n)
        BY <1>2, <2>1, PutLast, Zenon
    <2> QED
        BY <2>2 DEF Grown
<1>4. PcInv'
    <2>1. \A u \in Thread : pc'[u] \in Started \cup AtBarrier
        BY <1>2, Names DEF PcInv, Allowed
    <2>2. ASSUME NEW m \in Used'
          PROVE  /\ pc'[m] \in OwnLabels \cup {"created", "queued", "done"}
                 /\ pc'[m] \in {"exitDec", "exitCheck", "finish"} => IsDeferred(m)'
        <3>1. CASE m = n
            BY <1>2, <3>1 DEF OwnLabels, Started
        <3>2. CASE m # n
            <4>1. m \in Used /\ m \in Task
                BY <3>2, UsedTasks
            <4> QED
                BY <1>2, <3>2, <4>1 DEF PcInv, Allowed
        <3> QED
            BY <3>1, <3>2
    <2>3. \A m \in Explicit \ Used' : pc'[m] = "unused"
        BY <1>2, Top, Names DEF PcInv
    <2> QED
        BY <2>1, <2>2, <2>3 DEF PcInv
<1>5. \A u \in Thread : /\ stack'[u] # <<>> /\ stack'[u][1] = u
                        /\ \A i \in 2..Len(stack'[u]) : stack'[u][i] \in Used'
    <2>1. ASSUME NEW u \in Thread \ {t}
          PROVE  /\ stack'[u] # <<>> /\ stack'[u][1] = u
                 /\ \A i \in 2..Len(stack'[u]) : stack'[u][i] \in Used'
        BY <1>3 DEF StackInv
    <2>2. stack'[t] # <<>> /\ stack'[t][1] = t
        <3>1. 1 \in 1..Len(stack[t])
            BY Top
        <3> QED
            BY <1>3, <3>1 DEF StackInv
    <2>3. ASSUME NEW i \in 2..Len(stack'[t]) PROVE stack'[t][i] \in Used'
        <3>1. i = Len(stack[t]) + 1 \/ (i \in 2..Len(stack[t]) /\ i \in 1..Len(stack[t]))
            BY <1>3, Top
        <3> QED
            BY <1>3, <3>1 DEF StackInv
    <2> QED
        BY <2>1, <2>2, <2>3
<1>6. ASSUME NEW u \in Thread, NEW i \in 1..(Len(stack'[u]) - 1)
      PROVE  pc'[stack'[u][i]] \in Below
    <2>1. i \in 1..Len(stack[u]) /\ stack'[u][i] = stack[u][i]
        <3>1. stack[u] \in Seq(Task)
            BY DEF Types
        <3>2. CASE u = t
            BY <1>3, <3>1, <3>2
        <3>3. CASE u # t
            BY <1>3, <3>1, <3>3
        <3> QED
            BY <3>2, <3>3
    <2>2. stack[u][i] # n /\ stack[u][i] \in Task
        <3>1. stack[u] \in Seq(Task) /\ DOMAIN stack[u] = 1..Len(stack[u])
            BY DEF Types
        <3> QED
            BY <1>2, <2>1, <3>1 DEF Within
    <2>3. CASE stack[u][i] = Current(t)
        BY <1>2, <2>1, <2>2, <2>3
    <2>4. CASE stack[u][i] # Current(t)
        <3>1. i \in 1..(Len(stack[u]) - 1)
            <4>1. u # t => i \in 1..(Len(stack[u]) - 1)
                BY <1>3
            <4>2. u = t => i # Len(stack[u])
                BY <2>4, Top
            <4>3. Len(stack[u]) \in Nat
                BY DEF Types
            <4> QED
                BY <2>1, <4>1, <4>2, <4>3
        <3>2. pc[stack[u][i]] \in Below
            BY <3>1 DEF StackInv
        <3> QED
            BY <1>2, <2>1, <2>2, <2>4, <3>2
    <2> QED
        BY <2>3, <2>4
<1>7. ASSUME NEW m \in Used' PROVE Within(m, stack') <=> pc'[m] \in OwnLabels
    <2>1. CASE m = n
        BY <1>2, <1>3, <2>1 DEF OwnLabels, Started
    <2>2. CASE m # n
        <3>1. m \in Used /\ m \in Task
            BY <2>2, UsedTasks
        <3>2. m = Current(t) => pc[m] \in OwnLabels /\ l \in OwnLabels
            BY <3>1, Top, UsedTasks DEF Allowed
        <3> QED
            BY <1>2, <1>3, <2>2, <3>1, <3>2 DEF StackInv
    <2> QED
        BY <2>1, <2>2
<1> QED
    BY <1>3, <1>4, <1>5, <1>6, <1>7 DEF StackInv

\* Labels after a task returned to the one below.
LEMMA PopPc ==
    ASSUME Types, PcInv, StackInv, NEW t \in Thread, Current(t) \notin Thread, Pops(t)
    PROVE  /\ pc' \in [Task -> Labels] /\ Len(stack[t]) > 1
           /\ Under(t) \in Task /\ Under(t) # Current(t) /\ pc[Under(t)] \in Below
           /\ Under(t) \in Thread => Under(t) = t
           /\ \A c \in Task :
                pc'[c] = IF c = Current(t) THEN "done"
                         ELSE IF c = Under(t) /\ pc[c] = "createReturn" THEN "body" ELSE pc[c]
<1>1. /\ Len(stack[t]) > 1 /\ Len(stack[t]) - 1 \in 1..Len(stack[t])
      /\ Len(stack[t]) - 1 \in 1..(Len(stack[t]) - 1)
      /\ Len(stack[t]) - 1 = 1 \/ Len(stack[t]) - 1 \in 2..Len(stack[t])
    <2>1. Len(stack[t]) \in Nat \ {0} /\ Len(stack[t]) # 1
        <3>1. stack[t][1] = t /\ Len(stack[t]) \in Nat \ {0}
              /\ Current(t) = stack[t][Len(stack[t])]
            BY Top DEF StackInv
        <3> QED
            BY <3>1
    <2>2. \A n \in Nat \ {0, 1} : n > 1 /\ n - 1 \in 1..n /\ n - 1 \in 1..(n - 1)
                                  /\ (n - 1 = 1 \/ n - 1 \in 2..n)
        OBVIOUS
    <2> QED
        BY <2>1, <2>2
<1>2. Under(t) \in Task /\ Under(t) # Current(t) /\ pc[Under(t)] \in Below
    BY <1>1, Top DEF Under, StackInv
<1>3. Under(t) \in Thread => Under(t) = t
    BY <1>1, UsedTasks DEF Under, StackInv
<1>4. "done" \in Labels /\ "body" \in Labels /\ pc \in [Task -> Labels]
    BY DEF Labels, Types
<1> QED
    BY <1>1, <1>2, <1>3, <1>4, Top DEF Pops

\* A pop keeps the stacks in order.
LEMMA PopKeepsStack ==
    ASSUME Types, PcInv, StackInv, NEW t \in Thread, Current(t) \notin Thread, Pops(t),
           SameTasks
    PROVE  PcInv' /\ StackInv' /\ stack' \in [Thread -> Seq(Task)]
<1>1. /\ Len(stack[t]) > 1
      /\ Under(t) \in Task /\ Under(t) # Current(t) /\ pc[Under(t)] \in Below
      /\ \A c \in Task :
           pc'[c] = IF c = Current(t) THEN "done"
                    ELSE IF c = Under(t) /\ pc[c] = "createReturn" THEN "body" ELSE pc[c]
    BY PopPc
<1>2. Used' = Used /\ \A c \in Task : IsDeferred(c)' <=> IsDeferred(c)
    BY DEF SameTasks, Used, IsDeferred, IsImplicit
<1>3. /\ stack' \in [Thread -> Seq(Task)] /\ Once(stack')
      /\ \A m : Within(m, stack') <=> Within(m, stack) /\ m # Current(t)
      /\ \A u \in Thread \ {t} : stack'[u] = stack[u]
      /\ Len(stack'[t]) = Len(stack[t]) - 1
      /\ \A i \in 1..(Len(stack[t]) - 1) : stack'[t][i] = stack[t][i]
    <2>1. /\ stack \in [Thread -> Seq(Task)] /\ Once(stack) /\ stack[t] # <<>>
          /\ stack' = TakeFrom(stack, t, "tail") /\ Current(t) = Last(stack[t])
        BY DEF Types, StackInv, Pops, TakeFrom, Current
    <2>2. Shrunk(Task, stack, stack', t, Current(t)) /\ KeptFront(stack, stack', t)
        BY <2>1, TakeLast, Zenon
    <2> QED
        BY <2>2 DEF Shrunk, KeptFront
<1>4. PcInv'
    <2>1. \A u \in Thread : pc'[u] \in Started \cup AtBarrier
        BY <1>1, Names DEF PcInv, Started
    <2>2. \A m \in Used : /\ pc'[m] \in OwnLabels \cup {"created", "queued", "done"}
                          /\ pc'[m] \in {"exitDec", "exitCheck", "finish"} => IsDeferred(m)
        BY <1>1, UsedTasks DEF PcInv, OwnLabels, Started
    <2>3. \A m \in Explicit \ Used : pc'[m] = "unused"
        BY <1>1, Top, Names DEF PcInv
    <2> QED
        BY <1>2, <2>1, <2>2, <2>3, UsedTasks DEF PcInv
<1>5. \A u \in Thread : /\ stack'[u] # <<>> /\ stack'[u][1] = u
                        /\ \A i \in 2..Len(stack'[u]) : stack'[u][i] \in Used
    <2>1. ASSUME NEW u \in Thread \ {t}
          PROVE  /\ stack'[u] # <<>> /\ stack'[u][1] = u
                 /\ \A i \in 2..Len(stack'[u]) : stack'[u][i] \in Used
        BY <1>3 DEF StackInv
    <2>2. stack'[t] # <<>> /\ stack'[t][1] = t
        <3>1. 1 \in 1..(Len(stack[t]) - 1) /\ Len(stack'[t]) # 0
            BY <1>1, <1>3, Top
        <3> QED
            BY <1>3, <3>1 DEF StackInv
    <2>3. ASSUME NEW i \in 2..Len(stack'[t]) PROVE stack'[t][i] \in Used
        <3>1. i \in 2..Len(stack[t]) /\ i \in 1..(Len(stack[t]) - 1)
            BY <1>3, Top
        <3> QED
            BY <1>3, <3>1 DEF StackInv
    <2> QED
        BY <2>1, <2>2, <2>3
<1>6. ASSUME NEW u \in Thread, NEW i \in 1..(Len(stack'[u]) - 1)
      PROVE  pc'[stack'[u][i]] \in Below
    <2>1. /\ i \in 1..(Len(stack[u]) - 1) /\ stack'[u][i] = stack[u][i]
          /\ i \in 1..Len(stack[u]) /\ i # Len(stack[u])
          /\ u = t => i # Len(stack[u]) - 1
        <3>1. Len(stack[u]) \in Nat
            BY DEF Types
        <3>2. CASE u = t
            BY <1>3, <3>1, <3>2
        <3>3. CASE u # t
            BY <1>3, <3>1, <3>3
        <3> QED
            BY <3>2, <3>3
    <2>2. pc[stack[u][i]] \in Below
        BY <2>1 DEF StackInv
    <2>3. stack[u][i] # Current(t) /\ stack[u][i] \in Task
        <3>1. stack[u] \in Seq(Task)
            BY DEF Types
        <3> QED
            BY <2>1, <3>1, Top
    <2>4. stack[u][i] # Under(t)
        <3>1. Len(stack[t]) - 1 \in DOMAIN stack[t] /\ i \in DOMAIN stack[u]
            <4>1. DOMAIN stack[u] = 1..Len(stack[u])
                BY DEF Types
            <4> QED
                BY <1>1, <2>1, <4>1, Top
        <3> QED
            BY <2>1, <3>1 DEF StackInv, Once, Under
    <2> QED
        BY <1>1, <2>1, <2>2, <2>3, <2>4
<1>7. ASSUME NEW m \in Used PROVE Within(m, stack') <=> pc'[m] \in OwnLabels
    <2>1. m \in Task
        BY UsedTasks
    <2> QED
        BY <1>1, <1>3, <2>1 DEF StackInv, OwnLabels, Started
<1> QED
    BY <1>2, <1>3, <1>4, <1>5, <1>6, <1>7 DEF StackInv

-----------------------------------------------------------------------------
(* The queues *)

QueueTypes == /\ tiedQ \in [Thread -> Seq(Explicit)] /\ untiedQ \in [Thread -> Seq(Explicit)]

\* n has been taken out of the queue it was in, and nothing else has changed
Removed(q, p, n) ==
    /\ p \in [Thread -> Seq(Explicit)] /\ Once(p)
    /\ \A m : Within(m, p) <=> Within(m, q) /\ m # n
    /\ \A u \in Thread : Len(p[u]) <= Len(q[u])
TakenOut(n, p1, p2) ==
    /\ n \in Used /\ pc[n] = "queued" /\ IsDeferred(n)
    /\ Removed(tiedQ, p1, n) /\ Removed(untiedQ, p2, n)

\* A task taken from either end leaves the queues in order.
LEMMA TakeFromQueue ==
    ASSUME NEW q \in [Thread -> Seq(Explicit)], NEW v \in Thread, NEW end \in {"head", "tail"},
           Once(q), q[v] # <<>>
    PROVE  /\ ItemAt(q[v], end) \in Explicit /\ Within(ItemAt(q[v], end), q)
           /\ Removed(q, TakeFrom(q, v, end), ItemAt(q[v], end))
<1> DEFINE p == TakeFrom(q, v, end)
           n == ItemAt(q[v], end)
<1>1. /\ q[v] \in Seq(Explicit) /\ Last(q[v]) \in Explicit /\ Head(q[v]) \in Explicit
    <2>1. q[v] \in Seq(Explicit)
        OBVIOUS
    <2>2. Last(q[v]) \in Explicit
        BY <2>1, LastAndFront
    <2> QED
        BY <2>1, <2>2
<1>2. n \in Explicit
    BY <1>1 DEF ItemAt
<1>3. Shrunk(Explicit, q, p, v, n)
    <2>1. CASE end = "tail"
        <3>1. n = Last(q[v])
            BY <2>1 DEF ItemAt
        <3>2. p = TakeFrom(q, v, "tail")
            BY <2>1
        <3> QED
            BY <3>1, <3>2, TakeLast, Zenon
    <2>2. CASE end = "head"
        <3>1. n = Head(q[v])
            BY <2>2 DEF ItemAt
        <3>2. p = TakeFrom(q, v, "head")
            BY <2>2
        <3> QED
            BY <3>1, <3>2, TakeFirst, Zenon
    <2> QED
        BY <2>1, <2>2
<1>4. \A u \in Thread : Len(p[u]) <= Len(q[u])
    <2> HIDE DEF p, n
    <2>1. \A u \in Thread : Len(q[u]) \in Nat
        OBVIOUS
    <2> QED
        BY <1>3, <2>1 DEF Shrunk
<1> HIDE DEF p, n
<1>5. Removed(q, p, n) /\ Within(n, q)
    BY <1>3, <1>4 DEF Shrunk, Removed
<1> QED
    BY <1>2, <1>5 DEF p, n

\* Queues that stay the same stay in order.
LEMMA UntouchedQueue ==
    ASSUME NEW q \in [Thread -> Seq(Explicit)], NEW n, Once(q), ~Within(n, q)
    PROVE  Removed(q, q, n)
<1>1. \A u \in Thread : Len(q[u]) \in Nat
    OBVIOUS
<1>2. \A m : Within(m, q) => m # n
    OBVIOUS
<1> QED
    BY <1>1, <1>2 DEF Removed

\* Whatever end is served, a task taken from the pool was queued, once.
LEMMA RemovableTakesOut ==
    ASSUME Types, QueueInv, FreshInv, NEW t \in Thread, NEW r \in Removable(t)
    PROVE  TakenOut(r.task, r.tied, r.untied)
<1>1. /\ tiedQ \in [Thread -> Seq(Explicit)] /\ Once(tiedQ)
      /\ untiedQ \in [Thread -> Seq(Explicit)] /\ Once(untiedQ)
    BY DEF Types, QueueInv
<1>2. ASSUME NEW v \in Thread, tiedQ[v] # <<>>, NEW end \in {"head", "tail"}
      PROVE  TakenOut(ItemAt(tiedQ[v], end), TakeFrom(tiedQ, v, end), untiedQ)
    <2> DEFINE n == ItemAt(tiedQ[v], end)
    <2>1. n \in Explicit /\ Within(n, tiedQ) /\ Removed(tiedQ, TakeFrom(tiedQ, v, end), n)
        BY <1>1, <1>2, TakeFromQueue, Zenon
    <2> HIDE DEF n
    <2>2. n \in Used /\ pc[n] = "queued" /\ IsDeferred(n) /\ ~Within(n, untiedQ)
        BY <2>1 DEF QueueInv, FreshInv
    <2>3. Removed(untiedQ, untiedQ, n)
        BY <1>1, <2>2, UntouchedQueue, Zenon
    <2> QED
        BY <2>1, <2>2, <2>3 DEF TakenOut, n
<1>3. ASSUME NEW v \in Thread, untiedQ[v] # <<>>, NEW end \in {"head", "tail"}
      PROVE  TakenOut(ItemAt(untiedQ[v], end), tiedQ, TakeFrom(untiedQ, v, end))
    <2> DEFINE n == ItemAt(untiedQ[v], end)
    <2>1. n \in Explicit /\ Within(n, untiedQ) /\ Removed(untiedQ, TakeFrom(untiedQ, v, end), n)
        BY <1>1, <1>3, TakeFromQueue, Zenon
    <2> HIDE DEF n
    <2>2. n \in Used /\ pc[n] = "queued" /\ IsDeferred(n) /\ ~Within(n, tiedQ)
        BY <2>1 DEF QueueInv, FreshInv
    <2>3. Removed(tiedQ, tiedQ, n)
        BY <1>1, <2>2, UntouchedQueue, Zenon
    <2> QED
        BY <2>1, <2>2, <2>3 DEF TakenOut, n
<1>4. Last(tiedQ[t]) = ItemAt(tiedQ[t], "tail") /\ \A v \in Thread : Head(tiedQ[v]) = ItemAt(tiedQ[v], "head")
    BY DEF ItemAt
<1>5. \/ \E v \in Thread : \E end \in {"head", "tail"} :
            /\ tiedQ[v] # <<>> /\ r.task = ItemAt(tiedQ[v], end)
            /\ r.tied = TakeFrom(tiedQ, v, end) /\ r.untied = untiedQ
      \/ \E v \in Thread : \E end \in {"head", "tail"} :
            /\ untiedQ[v] # <<>> /\ r.task = ItemAt(untiedQ[v], end)
            /\ r.tied = tiedQ /\ r.untied = TakeFrom(untiedQ, v, end)
    <2>1. CASE tiedQ[t] # <<>>
        <3>1. r = [task |-> Last(tiedQ[t]), tied |-> TakeFrom(tiedQ, t, "tail"), untied |-> untiedQ]
            BY <2>1 DEF Removable
        <3>2. r.task = ItemAt(tiedQ[t], "tail") /\ r.tied = TakeFrom(tiedQ, t, "tail") /\ r.untied = untiedQ
            BY <1>4, <3>1
        <3> QED
            BY <2>1, <3>2, Zenon
    <2>2. CASE tiedQ[t] = <<>> /\ untiedQ[t] # <<>>
        <3>1. r = [task |-> ItemAt(untiedQ[t], GetEnd), tied |-> tiedQ,
                   untied |-> TakeFrom(untiedQ, t, GetEnd)]
            BY <2>2 DEF Removable
        <3>2. r.task = ItemAt(untiedQ[t], GetEnd) /\ r.tied = tiedQ /\ r.untied = TakeFrom(untiedQ, t, GetEnd)
            BY <3>1
        <3> QED
            BY <2>2, <3>2, EndAssumption, Zenon
    <2>3. CASE tiedQ[t] = <<>> /\ untiedQ[t] = <<>>
        <3>1. \/ \E v \in Thread : untiedQ[v] # <<>> /\
                    r = [task |-> ItemAt(untiedQ[v], StealEnd), tied |-> tiedQ,
                         untied |-> TakeFrom(untiedQ, v, StealEnd)]
              \/ \E v \in Thread : tiedQ[v] # <<>> /\
                    r = [task |-> Head(tiedQ[v]), tied |-> TakeFrom(tiedQ, v, "head"),
                         untied |-> untiedQ]
            BY <2>3 DEF Removable
        <3>2. CASE \E v \in Thread : untiedQ[v] # <<>> /\
                    r = [task |-> ItemAt(untiedQ[v], StealEnd), tied |-> tiedQ,
                         untied |-> TakeFrom(untiedQ, v, StealEnd)]
            <4>1. PICK v \in Thread : untiedQ[v] # <<>> /\
                    r = [task |-> ItemAt(untiedQ[v], StealEnd), tied |-> tiedQ,
                         untied |-> TakeFrom(untiedQ, v, StealEnd)]
                BY <3>2
            <4>2. r.task = ItemAt(untiedQ[v], StealEnd) /\ r.tied = tiedQ
                  /\ r.untied = TakeFrom(untiedQ, v, StealEnd)
                BY <4>1
            <4> QED
                BY <4>1, <4>2, EndAssumption, Zenon
        <3>3. CASE \E v \in Thread : tiedQ[v] # <<>> /\
                    r = [task |-> Head(tiedQ[v]), tied |-> TakeFrom(tiedQ, v, "head"),
                         untied |-> untiedQ]
            <4>1. PICK v \in Thread : tiedQ[v] # <<>> /\
                    r = [task |-> Head(tiedQ[v]), tied |-> TakeFrom(tiedQ, v, "head"),
                         untied |-> untiedQ]
                BY <3>3
            <4>2. r.task = ItemAt(tiedQ[v], "head") /\ r.tied = TakeFrom(tiedQ, v, "head")
                  /\ r.untied = untiedQ
                BY <1>4, <4>1
            <4> QED
                BY <4>1, <4>2, Zenon
        <3> QED
            BY <3>1, <3>2, <3>3
    <2> QED
        BY <2>1, <2>2, <2>3
<1> QED
    BY <1>2, <1>3, <1>5, Zenon

\* Steps that neither queue nor unqueue a task keep the queues in order.
LEMMA SameQueues ==
    ASSUME QueueInv, UNCHANGED queueVars,
           \A n \in Explicit : n \in Used' /\ pc'[n] = "queued" <=> n \in Used /\ pc[n] = "queued",
           \A n \in Used : kind'[n] = kind[n]
    PROVE  QueueInv'
<1>1. tiedQ' = tiedQ /\ untiedQ' = untiedQ
    BY DEF queueVars
<1>2. \A n \in Used : IsTied(n)' <=> IsTied(n)
    BY DEF IsTied, IsImplicit
<1> QED
    BY <1>1, <1>2 DEF QueueInv

\* The queues after a task was taken from the pool (omp_task_pool.c:239-330).
LEMMA TakenOutQueues ==
    ASSUME Types, QueueInv, NEW n, TakenOut(n, tiedQ', untiedQ'), SameTasks,
           \A m \in Explicit : pc'[m] = "queued" <=> pc[m] = "queued" /\ m # n
    PROVE  QueueInv' /\ QueueTypes'
<1>1. Used' = Used /\ \A m \in Used : IsTied(m)' <=> IsTied(m)
    BY DEF SameTasks, Used, IsTied, IsImplicit
<1>2. Removed(tiedQ, tiedQ', n) /\ Removed(untiedQ, untiedQ', n)
    BY DEF TakenOut
<1>3. /\ tiedQ' \in [Thread -> Seq(Explicit)] /\ untiedQ' \in [Thread -> Seq(Explicit)]
      /\ Once(tiedQ') /\ Once(untiedQ')
    BY <1>2 DEF Removed
<1>4. \A m \in Explicit :
         /\ Within(m, tiedQ') <=> m \in Used /\ pc'[m] = "queued" /\ IsTied(m)
         /\ Within(m, untiedQ') <=> m \in Used /\ pc'[m] = "queued" /\ ~IsTied(m)
    <2>1. ASSUME NEW m \in Explicit
          PROVE  /\ Within(m, tiedQ') <=> Within(m, tiedQ) /\ m # n
                 /\ Within(m, untiedQ') <=> Within(m, untiedQ) /\ m # n
        BY <1>2 DEF Removed
    <2> QED
        BY <2>1 DEF QueueInv
<1>5. \A u \in Thread : Len(tiedQ'[u]) <= QueueCap /\ Len(untiedQ'[u]) <= QueueCap
    <2>1. ASSUME NEW u \in Thread PROVE Len(tiedQ'[u]) <= QueueCap /\ Len(untiedQ'[u]) <= QueueCap
        <3>1. Len(tiedQ'[u]) \in Nat /\ Len(untiedQ'[u]) \in Nat
            BY <1>3
        <3>2. Len(tiedQ[u]) \in Nat /\ Len(untiedQ[u]) \in Nat
            BY DEF Types
        <3>3. Len(tiedQ'[u]) <= Len(tiedQ[u]) /\ Len(untiedQ'[u]) <= Len(untiedQ[u])
            BY <1>2 DEF Removed
        <3>4. Len(tiedQ[u]) <= QueueCap /\ Len(untiedQ[u]) <= QueueCap
            BY DEF QueueInv
        <3> QED
            BY <3>1, <3>2, <3>3, <3>4, Names
    <2> QED
        BY <2>1
<1> QED
    BY <1>1, <1>3, <1>4, <1>5 DEF QueueInv, QueueTypes

-----------------------------------------------------------------------------
(* New tasks *)

\* A creator that is about to enqueue has exactly one task to enqueue.
LEMMA FreshTask ==
    ASSUME Types, PcInv, FreshInv, NEW t \in Thread, Current(t) \in Task, At(t, "put")
    PROVE  /\ Fresh(t) \in Used /\ Fresh(t) \in Explicit /\ pc[Fresh(t)] = "created"
           /\ parent[Fresh(t)] = Current(t) /\ IsDeferred(Fresh(t))
           /\ \A n \in Used : pc[n] = "created" /\ parent[n] = Current(t) => n = Fresh(t)
<1>1. \E n \in Used : pc[n] = "created" /\ parent[n] = Current(t)
    BY DEF FreshInv, At
<1>2. \E n \in Explicit : pc[n] = "created" /\ parent[n] = Current(t)
    BY <1>1, UsedTasks
<1>3. Fresh(t) \in Explicit /\ pc[Fresh(t)] = "created" /\ parent[Fresh(t)] = Current(t)
    BY <1>2 DEF Fresh
<1>4. Fresh(t) \in Used
    BY <1>3 DEF PcInv
<1> QED
    BY <1>3, <1>4 DEF FreshInv

\* The name of the next task is free.
LEMMA OneMore ==
    ASSUME Types, PcInv, created < MaxTasks
    PROVE  /\ created + 1 \in Explicit /\ created + 1 \in Task /\ created + 1 \notin Used
           /\ 1..(created + 1) = Used \cup {created + 1} /\ created + 1 \notin Thread
           /\ pc[created + 1] = "unused"
<1>1. created \in Nat /\ MaxTasks \in Nat
    BY Names DEF Types
<1>2. created + 1 \in Explicit /\ created + 1 \notin Used /\ 1..(created + 1) = Used \cup {created + 1}
    BY <1>1 DEF Explicit, Used
<1> QED
    BY <1>2, Names DEF PcInv

\* Steps that create and put no task keep what is known of the fresh ones.
LEMMA SameFresh ==
    ASSUME Types, FreshInv, SameTasks,
           \A n \in Used : pc'[n] = "created" <=> pc[n] = "created",
           \A n \in Used : pc'[n] = "queued" => pc[n] = "queued",
           \A c \in Task : pc'[c] = "put" <=> pc[c] = "put"
    PROVE  FreshInv'
<1>1. Used' = Used /\ parent' = parent /\ \A n : IsDeferred(n)' <=> IsDeferred(n)
    BY DEF SameTasks, Used, IsDeferred, IsImplicit
<1>2. \A n \in Used : parent[n] \in Task
    BY UsedTasks DEF Types
<1> QED
    BY <1>1, <1>2 DEF FreshInv

\* Steps that create no task keep the parents.
LEMMA SameParents ==
    ASSUME Types, ParentInv, Used' = Used, \A n \in Used : parent'[n] = parent[n],
           \A c \in Task : pc'[c] \in {"created", "queued"} => pc[c] \in {"created", "queued"}
    PROVE  ParentInv'
<1>1. \A n \in Used : parent[n] \in Task
    BY UsedTasks DEF Types
<1> QED
    BY <1>1 DEF ParentInv

-----------------------------------------------------------------------------
(* The shapes of the actions *)

\* the task on top of t's stack goes on to l
Goes(t, l) ==
    /\ l \in Labels \ {"put"} /\ pc[Current(t)] # "put" /\ Allowed(Current(t), l)
    /\ Stays(t, l) /\ SameTasks /\ UNCHANGED queueVars
\* it runs a task of the pool
Takes(t, n, l) ==
    /\ l \in Below /\ pc[Current(t)] # "put" /\ Allowed(Current(t), l)
    /\ TakenOut(n, tiedQ', untiedQ') /\ Pushes(t, n, l) /\ SameTasks
\* it is over, and the one below goes on
Returns(t) ==
    /\ Current(t) \notin Thread /\ pc[Current(t)] \in {"returned", "finish"}
    /\ Pops(t) /\ SameTasks /\ UNCHANGED queueVars

PlaceTypes == pc' \in [Task -> Labels] /\ stack' \in [Thread -> Seq(Task)] /\ QueueTypes'

\* A task that goes on keeps every task in its place.
LEMMA GoesPlace ==
    ASSUME Types, PlaceInv, NEW t \in Thread, NEW l, Goes(t, l)
    PROVE  PlaceInv' /\ PlaceTypes
<1>1. /\ PcInv /\ StackInv /\ QueueInv /\ FreshInv /\ ParentInv
    BY DEF PlaceInv
<1>2. /\ l \in Labels \ {"put"} /\ pc[Current(t)] # "put" /\ Allowed(Current(t), l)
      /\ Stays(t, l) /\ SameTasks /\ UNCHANGED queueVars
    BY DEF Goes
<1>3. PcInv' /\ StackInv' /\ pc' \in [Task -> Labels]
    BY <1>1, <1>2, StayKeepsStack, StayPc
<1>4. /\ \A c \in Task : pc'[c] = IF c = Current(t) THEN l ELSE pc[c]
      /\ Current(t) \in Task
    BY <1>1, <1>2, StayPc, Top
<1>5. l \notin {"created", "queued"} /\ pc[Current(t)] \notin {"created", "queued"}
    <2>1. CASE Current(t) \in Thread
        BY <1>1, <1>2, <2>1 DEF Allowed, PcInv, Started, AtBarrier
    <2>2. CASE Current(t) \notin Thread
        BY <1>1, <1>2, <2>2, Top DEF Allowed, OwnLabels, Started
    <2> QED
        BY <2>1, <2>2
<1>6. FreshInv'
    BY <1>1, <1>2, <1>4, <1>5, UsedTasks, SameFresh
<1>7. Used' = Used /\ kind' = kind /\ parent' = parent
    BY <1>2 DEF SameTasks, Used
<1>8. ParentInv'
    BY <1>1, <1>4, <1>5, <1>7, SameParents
<1>9. QueueInv'
    BY <1>1, <1>2, <1>4, <1>5, <1>7, Names, SameQueues
<1>10. QueueTypes' /\ stack' \in [Thread -> Seq(Task)]
    BY <1>2 DEF Types, queueVars, QueueTypes, Stays
<1> QED
    BY <1>3, <1>6, <1>8, <1>9, <1>10 DEF PlaceInv, PlaceTypes

\* A task that is taken from the pool is on the stack of the taker only.
LEMMA TakesPlace ==
    ASSUME Types, PlaceInv, NEW t \in Thread, NEW n, NEW l, Takes(t, n, l)
    PROVE  PlaceInv' /\ PlaceTypes
<1>1. /\ PcInv /\ StackInv /\ QueueInv /\ FreshInv /\ ParentInv
    BY DEF PlaceInv
<1>2. /\ l \in Below /\ pc[Current(t)] # "put" /\ Allowed(Current(t), l)
      /\ TakenOut(n, tiedQ', untiedQ') /\ Pushes(t, n, l) /\ SameTasks
    BY DEF Takes
<1>3. n \in Used /\ n \in Explicit /\ pc[n] = "queued" /\ pc[n] \notin OwnLabels /\ l \in Labels
    BY <1>2, UsedTasks DEF TakenOut, OwnLabels, Started, Below, Labels
<1>4. /\ Used' = Used /\ kind' = kind /\ parent' = parent
      /\ \A c \in Used : IsDeferred(c)' <=> IsDeferred(c)
    BY <1>2 DEF SameTasks, Used, IsDeferred, IsImplicit
<1>5. Used' = Used \cup {n}
    BY <1>3, <1>4
<1>6. PcInv' /\ StackInv' /\ stack' \in [Thread -> Seq(Task)]
    BY <1>1, <1>2, <1>3, <1>4, <1>5, PushKeepsStack
<1>7. /\ \A c \in Task : pc'[c] = IF c = n THEN "body" ELSE IF c = Current(t) THEN l ELSE pc[c]
      /\ Current(t) \in Task /\ n # Current(t) /\ pc' \in [Task -> Labels]
    BY <1>1, <1>2, <1>3, PushPc, Top
<1>8. l \notin {"created", "queued", "put"} /\ pc[Current(t)] \notin {"created", "queued"}
    <2>1. l \notin {"created", "queued", "put"}
        BY <1>2 DEF Below
    <2>2. CASE Current(t) \in Thread
        BY <1>1, <2>1, <2>2 DEF PcInv, Started, AtBarrier
    <2>3. CASE Current(t) \notin Thread
        BY <1>1, <2>1, <2>3, Top DEF OwnLabels, Started
    <2> QED
        BY <2>1, <2>2, <2>3
<1>9. FreshInv'
    BY <1>1, <1>2, <1>3, <1>7, <1>8, UsedTasks, SameFresh
<1>10. ParentInv'
    BY <1>1, <1>4, <1>7, <1>8, SameParents
<1>11. QueueInv' /\ QueueTypes'
    BY <1>1, <1>2, <1>3, <1>7, <1>8, Names, TakenOutQueues
<1> QED
    BY <1>6, <1>7, <1>9, <1>10, <1>11 DEF PlaceInv, PlaceTypes

\* A task that returned is nowhere.
LEMMA ReturnsPlace ==
    ASSUME Types, PlaceInv, NEW t \in Thread, Returns(t)
    PROVE  PlaceInv' /\ PlaceTypes
<1>1. /\ PcInv /\ StackInv /\ QueueInv /\ FreshInv /\ ParentInv
    BY DEF PlaceInv
<1>2. /\ Current(t) \notin Thread /\ pc[Current(t)] \in {"returned", "finish"}
      /\ Pops(t) /\ SameTasks /\ UNCHANGED queueVars
    BY DEF Returns
<1>3. PcInv' /\ StackInv' /\ stack' \in [Thread -> Seq(Task)]
    BY <1>1, <1>2, PopKeepsStack
<1>4. /\ pc' \in [Task -> Labels] /\ Under(t) \in Task
      /\ \A c \in Task :
           pc'[c] = IF c = Current(t) THEN "done"
                    ELSE IF c = Under(t) /\ pc[c] = "createReturn" THEN "body" ELSE pc[c]
    BY <1>1, <1>2, PopPc
<1>5. /\ Used' = Used /\ kind' = kind /\ parent' = parent
    BY <1>2 DEF SameTasks, Used
<1>6. FreshInv'
    BY <1>1, <1>2, <1>4, UsedTasks, SameFresh
<1>7. ParentInv'
    BY <1>1, <1>4, <1>5, SameParents
<1>8. QueueInv'
    BY <1>1, <1>2, <1>4, <1>5, Names, SameQueues
<1>9. QueueTypes'
    BY <1>2 DEF Types, queueVars, QueueTypes
<1> QED
    BY <1>3, <1>4, <1>6, <1>7, <1>8, <1>9 DEF PlaceInv, PlaceTypes

\* A put that failed: the creator runs the task at once (omp_task.c:136-141).
LEMMA PutFullPlace ==
    ASSUME Types, PlaceInv, NEW t \in Thread, PutFull(t)
    PROVE  PlaceInv' /\ PlaceTypes
<1> DEFINE n == Fresh(t)
           c == Current(t)
<1>1. /\ PcInv /\ StackInv /\ QueueInv /\ FreshInv /\ ParentInv
    BY DEF PlaceInv
<1>2. c \in Task /\ pc[c] = "put"
    BY <1>1, Top DEF PutFull, At
<1>3. /\ n \in Used /\ n \in Explicit /\ pc[n] = "created" /\ parent[n] = c
      /\ \A m \in Used : pc[m] = "created" /\ parent[m] = c => m = n
    BY <1>1, <1>2, FreshTask DEF At
<1>4. Pushes(t, n, "createReturn") /\ SameTasks /\ UNCHANGED queueVars
    BY DEF PutFull, Switch, Pushes, taskVars, SameTasks
<1> HIDE DEF n, c
<1>5. pc[n] \notin OwnLabels /\ "createReturn" \in Below /\ "createReturn" \in Labels
    BY <1>3 DEF OwnLabels, Started, Below, Labels
<1>6. Allowed(Current(t), "createReturn")
    BY DEF Allowed, Started, OwnLabels
<1>7. /\ Used' = Used /\ kind' = kind /\ parent' = parent
      /\ \A m \in Used : IsDeferred(m)' <=> IsDeferred(m)
    BY <1>4 DEF SameTasks, Used, IsDeferred, IsImplicit
<1>8. Used' = Used \cup {n}
    BY <1>3, <1>7
<1>9. PcInv' /\ StackInv' /\ stack' \in [Thread -> Seq(Task)]
    BY <1>1, <1>3, <1>4, <1>5, <1>6, <1>7, <1>8, PushKeepsStack
<1>10. /\ \A m \in Task : pc'[m] = IF m = n THEN "body" ELSE IF m = c THEN "createReturn" ELSE pc[m]
       /\ n # c /\ pc' \in [Task -> Labels]
    BY <1>1, <1>3, <1>4, <1>5, PushPc DEF c
<1>11. FreshInv'
    <2>1. \A m \in Used : pc'[m] \in {"created", "queued"} => pc[m] \in {"created", "queued"}
        BY <1>10, UsedTasks
    <2>2. \A m \in Used : pc'[m] = "created" => pc[m] = "created" /\ m # n /\ parent[m] # c
                                                /\ pc[parent[m]] = "put"
        BY <1>1, <1>3, <1>10, UsedTasks DEF FreshInv
    <2>3. \A m \in Used : pc'[m] = "created" => pc'[parent[m]] = "put"
        <3>1. \A m \in Used : parent[m] \in Task
            BY UsedTasks DEF Types
        <3> QED
            BY <1>3, <1>10, <2>2, <3>1
    <2>4. \A m \in Task : pc'[m] = "put" => \E i \in Used : pc'[i] = "created" /\ parent[i] = m
        <3>1. ASSUME NEW m \in Task, pc'[m] = "put"
              PROVE  \E i \in Used : pc'[i] = "created" /\ parent[i] = m
            <4>1. pc[m] = "put" /\ m # c /\ m # n
                BY <1>3, <1>10, <3>1
            <4>2. PICK i \in Used : pc[i] = "created" /\ parent[i] = m
                BY <1>1, <4>1 DEF FreshInv
            <4>3. i # n /\ i # c /\ i \in Task
                BY <1>2, <1>3, <4>1, <4>2, UsedTasks
            <4> QED
                BY <1>10, <4>2, <4>3
        <3> QED
            BY <3>1
    <2>5. \A m \in Used : pc'[m] \in {"created", "queued"} => IsDeferred(m)
        BY <1>1, <2>1 DEF FreshInv
    <2>6. \A m, i \in Used : pc'[m] = "created" /\ pc'[i] = "created" /\ parent[m] = parent[i] => m = i
        BY <1>1, <2>2 DEF FreshInv
    <2> QED
        BY <1>7, <2>2, <2>3, <2>4, <2>5, <2>6 DEF FreshInv
<1>12. ParentInv'
    BY <1>1, <1>7, <1>10, SameParents
<1>13. QueueInv'
    BY <1>1, <1>2, <1>3, <1>4, <1>7, <1>10, Names, SameQueues
<1>14. QueueTypes'
    BY <1>4 DEF Types, queueVars, QueueTypes
<1> QED
    BY <1>9, <1>10, <1>11, <1>12, <1>13, <1>14 DEF PlaceInv, PlaceTypes

\* A put that succeeds: the task is in one queue.
LEMMA PutPlace ==
    ASSUME Types, PlaceInv, NEW t \in Thread, Put(t)
    PROVE  PlaceInv' /\ PlaceTypes
<1> DEFINE n == Fresh(t)
           c == Current(t)
<1>1. /\ PcInv /\ StackInv /\ QueueInv /\ FreshInv /\ ParentInv
    BY DEF PlaceInv
<1>2. c \in Task /\ pc[c] = "put"
    BY <1>1, Top DEF Put, At
<1>3. /\ n \in Used /\ n \in Explicit /\ n \in Task /\ pc[n] = "created" /\ parent[n] = c
      /\ \A m \in Used : pc[m] = "created" /\ parent[m] = c => m = n
    BY <1>1, <1>2, FreshTask, UsedTasks DEF At
<1>4. /\ pc' = [pc EXCEPT ![c] = "body", ![n] = "queued"]
      /\ SameTasks /\ stack' = stack
      /\ \/ IsTied(n) /\ HasRoom(tiedQ, t) /\ tiedQ' = Enqueued(tiedQ, t, n) /\ untiedQ' = untiedQ
         \/ ~IsTied(n) /\ HasRoom(untiedQ, t) /\ untiedQ' = Enqueued(untiedQ, t, n) /\ tiedQ' = tiedQ
    BY DEF Put, taskVars, stackVars, SameTasks
<1> HIDE DEF n, c
<1>5. n # c /\ "body" \in Labels /\ "queued" \in Labels /\ "body" \in Below \cup Started /\ n \notin Thread
    BY <1>2, <1>3, UsedTasks DEF Labels, Started
<1>6. /\ \A m \in Task : pc'[m] = IF m = n THEN "queued" ELSE IF m = c THEN "body" ELSE pc[m]
      /\ pc' \in [Task -> Labels]
    BY <1>2, <1>3, <1>4, <1>5 DEF Types
<1>7. /\ Used' = Used /\ kind' = kind /\ parent' = parent
      /\ \A m : (IsDeferred(m)' <=> IsDeferred(m)) /\ (IsTied(m)' <=> IsTied(m))
    BY <1>4 DEF SameTasks, Used, IsDeferred, IsImplicit, IsTied
<1>8. PcInv'
    <2>1. \A u \in Thread : pc'[u] \in Started \cup AtBarrier
        BY <1>1, <1>5, <1>6, Names DEF PcInv, Started
    <2>2. \A m \in Used : /\ pc'[m] \in OwnLabels \cup {"created", "queued", "done"}
                          /\ pc'[m] \in {"exitDec", "exitCheck", "finish"} => IsDeferred(m)
        BY <1>1, <1>6, UsedTasks DEF PcInv, OwnLabels, Started
    <2>3. \A m \in Explicit \ Used : pc'[m] = "unused"
        <3>1. \A m \in Explicit \ Used : m # n /\ m # c /\ m \in Task
            BY <1>1, <1>2, <1>3, Top, Names DEF c
        <3> QED
            BY <1>1, <1>6, <3>1 DEF PcInv
    <2> QED
        BY <1>7, <2>1, <2>2, <2>3 DEF PcInv
<1>9. StackInv'
    <2>1. \A u \in Thread : \A i \in 1..(Len(stack[u]) - 1) : pc'[stack[u][i]] \in Below
        <3>1. ASSUME NEW u \in Thread, NEW i \in 1..(Len(stack[u]) - 1)
              PROVE  pc'[stack[u][i]] \in Below
            <4>1. stack[u][i] \in Task
                <5>1. stack[u] \in Seq(Task)
                    BY DEF Types
                <5> QED
                    BY <5>1
            <4>2. pc[stack[u][i]] \in Below
                BY <1>1 DEF StackInv
            <4>3. stack[u][i] # n /\ stack[u][i] # c
                BY <1>2, <1>3, <4>2 DEF Below
            <4> QED
                BY <1>6, <4>1, <4>2, <4>3
        <3> QED
            BY <3>1
    <2>2. \A m \in Used : pc'[m] \in OwnLabels <=> pc[m] \in OwnLabels
        BY <1>2, <1>3, <1>6, UsedTasks DEF OwnLabels, Started
    <2> QED
        BY <1>1, <1>4, <1>7, <2>1, <2>2 DEF StackInv
<1>10. FreshInv'
    <2>1. \A m \in Used : pc'[m] \in {"created", "queued"} => pc[m] \in {"created", "queued"}
        BY <1>3, <1>6, UsedTasks
    <2>2. \A m \in Used : pc'[m] = "created" => pc[m] = "created" /\ m # n /\ parent[m] # c
                                                /\ pc[parent[m]] = "put"
        BY <1>1, <1>3, <1>6, UsedTasks DEF FreshInv
    <2>3. \A m \in Used : pc'[m] = "created" => pc'[parent[m]] = "put"
        <3>1. \A m \in Used : parent[m] \in Task
            BY UsedTasks DEF Types
        <3> QED
            BY <1>3, <1>6, <2>2, <3>1
    <2>4. \A m \in Task : pc'[m] = "put" => \E i \in Used : pc'[i] = "created" /\ parent[i] = m
        <3>1. ASSUME NEW m \in Task, pc'[m] = "put"
              PROVE  \E i \in Used : pc'[i] = "created" /\ parent[i] = m
            <4>1. pc[m] = "put" /\ m # c /\ m # n
                BY <1>3, <1>6, <3>1
            <4>2. PICK i \in Used : pc[i] = "created" /\ parent[i] = m
                BY <1>1, <4>1 DEF FreshInv
            <4>3. i # n /\ i # c /\ i \in Task
                BY <1>2, <1>3, <4>1, <4>2, UsedTasks
            <4> QED
                BY <1>6, <4>2, <4>3
        <3> QED
            BY <3>1
    <2>5. \A m \in Used : pc'[m] \in {"created", "queued"} => IsDeferred(m)
        BY <1>1, <2>1 DEF FreshInv
    <2>6. \A m, i \in Used : pc'[m] = "created" /\ pc'[i] = "created" /\ parent[m] = parent[i] => m = i
        BY <1>1, <2>2 DEF FreshInv
    <2> QED
        BY <1>7, <2>2, <2>3, <2>4, <2>5, <2>6 DEF FreshInv
<1>11. ParentInv'
    BY <1>1, <1>3, <1>6, <1>7, SameParents
<1>12. /\ tiedQ \in [Thread -> Seq(Explicit)] /\ untiedQ \in [Thread -> Seq(Explicit)]
       /\ Once(tiedQ) /\ Once(untiedQ) /\ ~Within(n, tiedQ) /\ ~Within(n, untiedQ)
    BY <1>1, <1>3 DEF Types, QueueInv
<1>13. \A m \in Explicit : pc'[m] = "queued" <=> pc[m] = "queued" \/ m = n
    BY <1>2, <1>3, <1>6, Names
<1>14. ASSUME NEW q, NEW p, Grown(Explicit, q, p, t, n), HasRoom(q, t),
              q \in [Thread -> Seq(Explicit)], \A u \in Thread : Len(q[u]) <= QueueCap
       PROVE  \A u \in Thread : Len(p[u]) <= QueueCap
    <2>1. Len(q[t]) \in Nat /\ QueueCap \in Nat /\ Len(q[t]) < QueueCap
        BY <1>14, Names DEF HasRoom
    <2>2. /\ \A u \in Thread \ {t} : p[u] = q[u]
          /\ Len(p[t]) = Len(q[t]) + 1
        BY <1>14 DEF Grown
    <2>3. Len(p[t]) <= QueueCap
        BY <2>1, <2>2
    <2> QED
        BY <1>14, <2>2, <2>3
<1>15. QueueInv' /\ QueueTypes'
    <2>1. CASE IsTied(n) /\ HasRoom(tiedQ, t) /\ tiedQ' = Enqueued(tiedQ, t, n) /\ untiedQ' = untiedQ
        <3>1. Grown(Explicit, tiedQ, tiedQ', t, n)
            BY <1>3, <1>12, <2>1, PutLast, Zenon
        <3>2. \A u \in Thread : Len(tiedQ[u]) <= QueueCap
            BY <1>1 DEF QueueInv
        <3>3. \A u \in Thread : Len(tiedQ'[u]) <= QueueCap
            BY <1>12, <1>14, <2>1, <3>1, <3>2, Zenon
        <3> QED
            BY <1>1, <1>3, <1>7, <1>12, <1>13, <2>1, <3>1, <3>3 DEF Grown, QueueInv, QueueTypes
    <2>2. CASE ~IsTied(n) /\ HasRoom(untiedQ, t) /\ untiedQ' = Enqueued(untiedQ, t, n) /\ tiedQ' = tiedQ
        <3>1. Grown(Explicit, untiedQ, untiedQ', t, n)
            BY <1>3, <1>12, <2>2, PutLast, Zenon
        <3>2. \A u \in Thread : Len(untiedQ[u]) <= QueueCap
            BY <1>1 DEF QueueInv
        <3>3. \A u \in Thread : Len(untiedQ'[u]) <= QueueCap
            BY <1>12, <1>14, <2>2, <3>1, <3>2, Zenon
        <3> QED
            BY <1>1, <1>3, <1>7, <1>12, <1>13, <2>2, <3>1, <3>3 DEF Grown, QueueInv, QueueTypes
    <2> QED
        BY <1>4, <2>1, <2>2
<1>16. stack' \in [Thread -> Seq(Task)]
    BY <1>4 DEF Types
<1> QED
    BY <1>6, <1>8, <1>9, <1>10, <1>11, <1>15, <1>16 DEF PlaceInv, PlaceTypes

\* what both ways of creating a task share
LEMMA Creation ==
    ASSUME Types, PlaceInv, NEW t \in Thread, NEW k, NewTask(t, k)
    PROVE  /\ created + 1 \in Explicit /\ created + 1 \in Task /\ created + 1 \notin Used
           /\ created + 1 \notin Thread
           /\ Used' = Used \cup {created + 1} /\ pc[created + 1] = "unused"
           /\ Current(t) \in Used \cup Thread /\ pc[Current(t)] = "body"
           /\ kind'[created + 1] = k /\ parent'[created + 1] = Current(t)
           /\ \A m \in Used : kind'[m] = kind[m] /\ parent'[m] = parent[m]
                              /\ (IsDeferred(m)' <=> IsDeferred(m))
<1>1. /\ PcInv /\ StackInv /\ created < MaxTasks /\ created' = created + 1
      /\ kind' = [kind EXCEPT ![created + 1] = k]
      /\ parent' = [parent EXCEPT ![created + 1] = Current(t)] /\ pc[Current(t)] = "body"
    BY DEF PlaceInv, NewTask, At
<1>2. /\ created + 1 \in Explicit /\ created + 1 \in Task /\ created + 1 \notin Used
      /\ 1..(created + 1) = Used \cup {created + 1} /\ created + 1 \notin Thread
      /\ pc[created + 1] = "unused"
    BY <1>1, OneMore
<1>3. Used' = Used \cup {created + 1}
    BY <1>1, <1>2 DEF Used
<1>4. Current(t) \in Used \cup Thread
    BY <1>1, Top
<1>5. \A m \in Used : kind'[m] = kind[m] /\ parent'[m] = parent[m]
    BY <1>1, <1>2, UsedTasks DEF Types
<1>6. kind'[created + 1] = k /\ parent'[created + 1] = Current(t)
    BY <1>1, <1>2 DEF Types
<1> QED
    BY <1>1, <1>2, <1>3, <1>4, <1>5, <1>6 DEF IsDeferred, IsImplicit

\* A creation keeps the queues.
LEMMA CreationQueues ==
    ASSUME Types, PlaceInv, NEW t \in Thread, NEW k, NewTask(t, k), UNCHANGED queueVars,
           \A m \in Task : pc'[m] = "queued" <=> pc[m] = "queued"
    PROVE  QueueInv' /\ QueueTypes'
<1>1. \A m \in Explicit : m \in Used' /\ pc'[m] = "queued" <=> m \in Used /\ pc[m] = "queued"
    BY Creation, Names
<1>2. QueueInv'
    BY <1>1, Creation, SameQueues DEF PlaceInv
<1> QED
    BY <1>2 DEF Types, queueVars, QueueTypes

\* A creation gives the new task a parent that has started.
LEMMA CreationParents ==
    ASSUME Types, PlaceInv, NEW t \in Thread, NEW k, NewTask(t, k),
           \A c \in Used \cup Thread : pc'[c] \in {"created", "queued"} => pc[c] \in {"created", "queued"}
    PROVE  ParentInv'
<1>1. \A n \in Used : parent[n] \in Used \cup Thread /\ pc[parent[n]] \notin {"created", "queued"}
    BY DEF PlaceInv, ParentInv
<1>2. Current(t) \in Used \cup Thread /\ pc[Current(t)] \notin {"created", "queued"}
    BY Creation
<1> QED
    BY <1>1, <1>2, Creation DEF ParentInv

\* An undeferred task runs on top of its creator (omp_task.c:143-178).
LEMMA CreateImmediatePlace ==
    ASSUME Types, PlaceInv, NEW t \in Thread, NEW k, CreateImmediate(t, k)
    PROVE  PlaceInv' /\ PlaceTypes
<1> DEFINE n == created + 1
           c == Current(t)
<1>1. /\ PcInv /\ StackInv /\ QueueInv /\ FreshInv /\ ParentInv
    BY DEF PlaceInv
<1>2. NewTask(t, k) /\ Pushes(t, n, "createReturn") /\ UNCHANGED queueVars
    BY DEF CreateImmediate, Pushes
<1>3. /\ n \in Explicit /\ n \in Task /\ n \notin Used /\ n \notin Thread
      /\ Used' = Used \cup {n} /\ pc[n] = "unused" /\ c \in Used \cup Thread /\ pc[c] = "body"
      /\ parent'[n] = c
      /\ \A m \in Used : kind'[m] = kind[m] /\ parent'[m] = parent[m]
                         /\ (IsDeferred(m)' <=> IsDeferred(m))
    BY <1>2, Creation
<1> HIDE DEF n, c
<1>4. pc[n] \notin OwnLabels /\ "createReturn" \in Below /\ "createReturn" \in Labels
    BY <1>3 DEF OwnLabels, Started, Below, Labels
<1>5. Allowed(Current(t), "createReturn")
    BY DEF Allowed, Started, OwnLabels
<1>6. PcInv' /\ StackInv' /\ stack' \in [Thread -> Seq(Task)]
    BY <1>1, <1>2, <1>3, <1>4, <1>5, PushKeepsStack
<1>7. /\ \A m \in Task : pc'[m] = IF m = n THEN "body" ELSE IF m = c THEN "createReturn" ELSE pc[m]
      /\ n # c /\ pc' \in [Task -> Labels]
    BY <1>1, <1>2, <1>3, <1>4, PushPc DEF c
<1>8. FreshInv'
    <2>1. \A m \in Used : parent[m] \in Task /\ m \in Task /\ m # n
        BY <1>3, UsedTasks DEF Types
    <2>2. /\ \A m \in Task : pc'[m] = "created" <=> pc[m] = "created"
          /\ \A m \in Task : pc'[m] = "put" <=> pc[m] = "put"
          /\ \A m \in Task : pc'[m] = "queued" <=> pc[m] = "queued"
        BY <1>3, <1>7
    <2> QED
        BY <1>1, <1>3, <1>7, <2>1, <2>2 DEF FreshInv
<1>9. QueueInv' /\ QueueTypes'
    BY <1>2, <1>3, <1>7, CreationQueues
<1>10. ParentInv'
    BY <1>2, <1>3, <1>7, UsedTasks, Names, CreationParents
<1> QED
    BY <1>6, <1>7, <1>8, <1>9, <1>10 DEF PlaceInv, PlaceTypes

\* A deferred task is known to its creator until it is put.
LEMMA CreateDeferredPlace ==
    ASSUME Types, PlaceInv, NEW t \in Thread, NEW k, CreateDeferred(t, k)
    PROVE  PlaceInv' /\ PlaceTypes
<1> DEFINE n == created + 1
           c == Current(t)
<1>1. /\ PcInv /\ StackInv /\ QueueInv /\ FreshInv /\ ParentInv
    BY DEF PlaceInv
<1>2. /\ NewTask(t, k) /\ UNCHANGED queueVars /\ k.mayDelay /\ stack' = stack
      /\ pc' = [pc EXCEPT ![c] = "put", ![n] = "created"]
    BY DEF CreateDeferred, stackVars
<1>3. /\ n \in Explicit /\ n \in Task /\ n \notin Used /\ n \notin Thread
      /\ Used' = Used \cup {n} /\ pc[n] = "unused" /\ c \in Used \cup Thread /\ pc[c] = "body"
      /\ parent'[n] = c /\ kind'[n] = k
      /\ \A m \in Used : kind'[m] = kind[m] /\ parent'[m] = parent[m]
                         /\ (IsDeferred(m)' <=> IsDeferred(m))
    BY <1>2, Creation
<1>4. c \in Task /\ c # n /\ "put" \in Labels /\ "created" \in Labels /\ kind'[n].mayDelay
    BY <1>2, <1>3, UsedTasks, Names DEF Labels
<1> HIDE DEF n, c
<1>5. /\ \A m \in Task : pc'[m] = IF m = n THEN "created" ELSE IF m = c THEN "put" ELSE pc[m]
      /\ pc' \in [Task -> Labels]
    BY <1>2, <1>3, <1>4 DEF Types
<1>6. PcInv'
    <2>1. \A u \in Thread : pc'[u] \in Started \cup AtBarrier
        BY <1>1, <1>3, <1>5, Names DEF PcInv, Started
    <2>2. \A m \in Used : /\ pc'[m] \in OwnLabels \cup {"created", "queued", "done"}
                          /\ pc'[m] \in {"exitDec", "exitCheck", "finish"} => IsDeferred(m)
        BY <1>1, <1>3, <1>5, UsedTasks DEF PcInv, OwnLabels, Started
    <2>3. \A m \in Explicit \ Used' : pc'[m] = "unused"
        BY <1>1, <1>3, <1>5, Names DEF PcInv
    <2>4. pc'[n] \in OwnLabels \cup {"created", "queued", "done"}
          /\ pc'[n] \notin {"exitDec", "exitCheck", "finish"}
        BY <1>3, <1>5
    <2> QED
        BY <1>3, <2>1, <2>2, <2>3, <2>4 DEF PcInv
<1>7. StackInv'
    <2>1. \A u \in Thread : \A i \in 1..(Len(stack[u]) - 1) : pc'[stack[u][i]] \in Below
        <3>1. ASSUME NEW u \in Thread, NEW i \in 1..(Len(stack[u]) - 1)
              PROVE  pc'[stack[u][i]] \in Below
            <4>1. stack[u][i] \in Task
                <5>1. stack[u] \in Seq(Task)
                    BY DEF Types
                <5> QED
                    BY <5>1
            <4>2. pc[stack[u][i]] \in Below
                BY <1>1 DEF StackInv
            <4>3. stack[u][i] # n /\ stack[u][i] # c
                BY <1>3, <4>2 DEF Below
            <4> QED
                BY <1>5, <4>1, <4>2, <4>3
        <3> QED
            BY <3>1
    <2>2. \A m \in Used : pc'[m] \in OwnLabels <=> pc[m] \in OwnLabels
        BY <1>3, <1>5, UsedTasks DEF OwnLabels, Started
    <2>3. ~Within(n, stack) /\ pc'[n] \notin OwnLabels
        <3>1. ASSUME NEW u \in Thread, NEW i \in DOMAIN stack[u] PROVE stack[u][i] # n
            <4>1. i = 1 \/ i \in 2..Len(stack[u])
                <5>1. stack[u] \in Seq(Task)
                    BY DEF Types
                <5>2. i \in 1..Len(stack[u]) /\ Len(stack[u]) \in Nat
                    BY <5>1
                <5> QED
                    BY <5>2
            <4> QED
                BY <1>1, <1>3, <4>1 DEF StackInv
        <3>2. pc'[n] = "created"
            BY <1>3, <1>5
        <3> QED
            BY <3>1, <3>2 DEF Within, OwnLabels, Started
    <2> QED
        BY <1>1, <1>2, <1>3, <2>1, <2>2, <2>3 DEF StackInv
<1>8. FreshInv'
    <2>1. \A m \in Used : m \in Task /\ m # n /\ parent[m] \in Task /\ parent[m] # n
        <3>1. \A m \in Used : m \in Explicit /\ m \in Task
            BY UsedTasks
        <3>2. \A m \in Used : parent[m] \in Used \cup Thread
            BY <1>1 DEF ParentInv
        <3> QED
            BY <1>3, <3>1, <3>2, UsedTasks, Names
    <2>2. \A m \in Used : pc[m] = "created" => parent[m] # c
        BY <1>1, <1>3 DEF FreshInv
    <2>3. \A m \in Used : /\ pc'[m] = "created" <=> pc[m] = "created"
                          /\ pc'[m] = "queued" <=> pc[m] = "queued"
        BY <1>3, <1>5, <2>1
    <2>4. \A m \in Used' : pc'[m] \in {"created", "queued"} => IsDeferred(m)'
        BY <1>1, <1>3, <1>4, <2>3 DEF FreshInv, IsDeferred, IsImplicit
    <2>5. \A m \in Used' : pc'[m] = "created" => pc'[parent'[m]] = "put"
        BY <1>1, <1>3, <1>4, <1>5, <2>1, <2>3 DEF FreshInv
    <2>6. \A m, i \in Used' : pc'[m] = "created" /\ pc'[i] = "created" /\ parent'[m] = parent'[i] => m = i
        BY <1>1, <1>3, <2>2, <2>3 DEF FreshInv
    <2>7. ASSUME NEW m \in Task, pc'[m] = "put"
          PROVE  \E i \in Used' : pc'[i] = "created" /\ parent'[i] = m
        <3>1. CASE m = c
            BY <1>3, <1>5, <3>1
        <3>2. CASE m # c
            <4>1. pc[m] = "put"
                BY <1>5, <2>7, <3>2
            <4>2. PICK i \in Used : pc[i] = "created" /\ parent[i] = m
                BY <1>1, <4>1 DEF FreshInv
            <4> QED
                BY <1>3, <2>3, <4>2
        <3> QED
            BY <3>1, <3>2
    <2> QED
        BY <2>4, <2>5, <2>6, <2>7 DEF FreshInv
<1>9. QueueInv' /\ QueueTypes'
    BY <1>2, <1>3, <1>5, CreationQueues
<1>10. ParentInv'
    BY <1>2, <1>3, <1>5, UsedTasks, Names, CreationParents
<1>11. stack' \in [Thread -> Seq(Task)]
    BY <1>2 DEF Types
<1> QED
    BY <1>5, <1>6, <1>7, <1>8, <1>9, <1>10, <1>11 DEF PlaceInv, PlaceTypes

\* TakeAndSwitch takes one task from the pool and pushes it.
LEMMA TakesShape ==
    ASSUME Types, PlaceInv, NEW t \in Thread, NEW l \in Below, TakeAndSwitch(t, l),
           pc[Current(t)] # "put", Allowed(Current(t), l)
    PROVE  \E n \in Used : Takes(t, n, l)
<1>1. PICK r \in Removable(t) :
        /\ tiedQ' = r.tied /\ untiedQ' = r.untied /\ Switch(t, r.task, l)
        /\ UNCHANGED <<taskVars, countVars, barrierVars>>
    BY DEF TakeAndSwitch
<1>2. TakenOut(r.task, r.tied, r.untied)
    BY RemovableTakesOut DEF PlaceInv
<1>3. Pushes(t, r.task, l) /\ SameTasks /\ r.task \in Used
    BY <1>1, <1>2 DEF Switch, Pushes, taskVars, SameTasks, TakenOut
<1>4. Takes(t, r.task, l)
    BY <1>1, <1>2, <1>3 DEF Takes
<1> QED
    BY <1>3, <1>4

\* PopTo pops.
LEMMA PopShape ==
    ASSUME Types, PlaceInv, NEW t \in Thread, NEW s, PopTo(t, s),
           pc[Current(t)] \in {"returned", "finish"}, Current(t) \notin Thread
    PROVE  Returns(t)
  BY DEF PopTo, Returns, Pops, SameTasks, Under

\* each action that leaves the stacks alone, with the label its task goes on to
LEMMA Moves ==
    ASSUME Types, PlaceInv, NEW t \in Thread
    PROVE  /\ Wait(t) => Goes(t, "waitTest")
           /\ Exit(t) => Goes(t, IF IsDeferred(Current(t)) THEN "exitDec" ELSE "exitBlock")
           /\ BarrierArrive(t) => Goes(t, "barrier") /\ Current(t) = t
           /\ WaitMiss(t) => Goes(t, "waitTest")
           /\ ExitMiss(t) => Goes(t, "exitBlock")
           /\ WaitTest(t) => Goes(t, IF numChildren[Current(t)] = 0 THEN "body" ELSE "waitTake")
           /\ ExitDec(t) => Goes(t, "exitCheck")
           /\ ExitCheck(t) => Goes(t, "exitBlock")
           /\ ExitBlock(t) => Goes(t, IF MayLeave(Current(t)) THEN "returned" ELSE "exitTake")
           /\ ReturnKeep(t) => Goes(t, "finish")
           /\ BarrierPass(t) => /\ Current(t) = t
                                /\ Goes(t, IF barrierCount2 + 1 = TeamSize
                                           THEN "barrierReset" ELSE "barrierWait")
           /\ BarrierReset(t) => Goes(t, "barrierToggle") /\ Current(t) = t
           /\ BarrierToggle(t) => Goes(t, "barrierWait") /\ Current(t) = t
           /\ BarrierLeave(t) => Goes(t, "body") /\ Current(t) = t
           /\ EndArrive(t) => Goes(t, "endBarrier") /\ Current(t) = t
           /\ EndPass(t) => /\ Current(t) = t
                            /\ Goes(t, IF t = Master THEN "join" ELSE "gone")
           /\ MasterJoin(t) => Goes(t, "gone") /\ Current(t) = t
<1>1. /\ PcInv /\ StackInv /\ Current(t) \in Task
      /\ Current(t) \in Thread => Current(t) = t
      /\ Current(t) \notin Thread => Current(t) \in Used
      /\ pc[Current(t)] \in AtBarrier => Current(t) = t
      /\ pc[Current(t)] \in {"exitDec", "exitCheck", "finish"} =>
              Current(t) \in Used /\ IsDeferred(Current(t))
      /\ Used \cap Thread = {}
    BY Top, TopLabel, UsedTasks DEF PlaceInv
<1>2. ASSUME NEW l \in Started \ {"put"} PROVE l \in Labels \ {"put"} /\ Allowed(Current(t), l)
    BY DEF Allowed, Started, OwnLabels, Labels
<1>3. ASSUME NEW l \in AtBarrier, Current(t) = t PROVE l \in Labels \ {"put"} /\ Allowed(Current(t), l)
    BY <1>1, <1>3 DEF Allowed, AtBarrier, Labels
<1>4. ASSUME NEW l \in {"exitDec", "exitCheck", "finish"}, IsDeferred(Current(t))
      PROVE  l \in Labels \ {"put"} /\ Allowed(Current(t), l)
    BY <1>4 DEF Allowed, Labels, OwnLabels, IsDeferred, IsImplicit
<1>5. ASSUME NEW l \in {"waitTest", "exitBlock"}, RemoveMiss(t, l), pc[Current(t)] # "put"
      PROVE  Goes(t, l)
    BY <1>2, <1>5 DEF RemoveMiss, Goes, Stays, SameTasks, taskVars, stackVars, Started, Below
<1>6. ASSUME Wait(t) PROVE Goes(t, "waitTest")
    BY <1>2, <1>6 DEF Wait, At, Goes, Stays, SameTasks, taskVars, stackVars, Started
<1>7. ASSUME Exit(t) PROVE Goes(t, IF IsDeferred(Current(t)) THEN "exitDec" ELSE "exitBlock")
    <2> DEFINE l == IF IsDeferred(Current(t)) THEN "exitDec" ELSE "exitBlock"
    <2>1. l \in Labels \ {"put"} /\ Allowed(Current(t), l)
        BY <1>2, <1>4 DEF Started
    <2> QED
        BY <1>7, <2>1 DEF Exit, At, Goes, Stays, SameTasks, taskVars, stackVars
<1>8. ASSUME BarrierArrive(t) PROVE Goes(t, "barrier") /\ Current(t) = t
    <2>1. Current(t) = t
        BY <1>1, <1>8 DEF BarrierArrive, IsImplicit
    <2> QED
        BY <1>3, <1>8, <2>1 DEF BarrierArrive, At, Goes, Stays, SameTasks, taskVars, stackVars, AtBarrier
<1>9. ASSUME WaitTest(t)
      PROVE  Goes(t, IF numChildren[Current(t)] = 0 THEN "body" ELSE "waitTake")
    <2> DEFINE l == IF numChildren[Current(t)] = 0 THEN "body" ELSE "waitTake"
    <2>1. l \in Labels \ {"put"} /\ Allowed(Current(t), l)
        BY <1>2 DEF Started
    <2> QED
        BY <1>9, <2>1 DEF WaitTest, At, Goes, Stays, SameTasks, taskVars, stackVars
<1>10. ASSUME ExitDec(t) PROVE Goes(t, "exitCheck")
    <2>1. IsDeferred(Current(t))
        BY <1>1, <1>10 DEF ExitDec, At
    <2> QED
        BY <1>4, <1>10, <2>1 DEF ExitDec, At, Goes, Stays, SameTasks, taskVars, stackVars
<1>11. ASSUME ExitCheck(t) PROVE Goes(t, "exitBlock")
    BY <1>2, <1>11 DEF ExitCheck, At, Goes, Stays, SameTasks, stackVars, Started
<1>12. ASSUME ExitBlock(t) PROVE Goes(t, IF MayLeave(Current(t)) THEN "returned" ELSE "exitTake")
    <2> DEFINE l == IF MayLeave(Current(t)) THEN "returned" ELSE "exitTake"
    <2>1. l \in Labels \ {"put"} /\ Allowed(Current(t), l)
        BY <1>2 DEF Started
    <2> QED
        BY <1>12, <2>1 DEF ExitBlock, At, Goes, Stays, SameTasks, taskVars, stackVars
<1>13. ASSUME ReturnKeep(t) PROVE Goes(t, "finish")
    BY <1>4, <1>13 DEF ReturnKeep, At, Goes, Stays, SameTasks, taskVars, stackVars
<1>14. ASSUME BarrierPass(t)
       PROVE  /\ Current(t) = t
              /\ Goes(t, IF barrierCount2 + 1 = TeamSize THEN "barrierReset" ELSE "barrierWait")
    <2> DEFINE l == IF barrierCount2 + 1 = TeamSize THEN "barrierReset" ELSE "barrierWait"
    <2>1. Current(t) = t
        BY <1>1, <1>14 DEF BarrierPass, At, AtBarrier
    <2>2. l \in AtBarrier
        BY DEF AtBarrier
    <2>3. l \in Labels \ {"put"} /\ Allowed(Current(t), l)
        BY <1>3, <2>1, <2>2
    <2> QED
        BY <1>14, <2>1, <2>3 DEF BarrierPass, At, Goes, Stays, SameTasks, taskVars, stackVars
<1>15. ASSUME BarrierReset(t) PROVE Goes(t, "barrierToggle") /\ Current(t) = t
    <2>1. Current(t) = t
        BY <1>1, <1>15 DEF BarrierReset, At, AtBarrier
    <2> QED
        BY <1>3, <1>15, <2>1 DEF BarrierReset, At, Goes, Stays, SameTasks, taskVars, stackVars, AtBarrier
<1>16. ASSUME BarrierToggle(t) PROVE Goes(t, "barrierWait") /\ Current(t) = t
    <2>1. Current(t) = t
        BY <1>1, <1>16 DEF BarrierToggle, At, AtBarrier
    <2> QED
        BY <1>3, <1>16, <2>1 DEF BarrierToggle, At, Goes, Stays, SameTasks, taskVars, stackVars, AtBarrier
<1>17. ASSUME BarrierLeave(t) PROVE Goes(t, "body") /\ Current(t) = t
    <2>1. Current(t) = t
        BY <1>1, <1>17 DEF BarrierLeave, At, AtBarrier
    <2> QED
        BY <1>2, <1>17, <2>1 DEF BarrierLeave, At, Goes, Stays, SameTasks, taskVars, stackVars, Started
<1>18. ASSUME EndArrive(t) PROVE Goes(t, "endBarrier") /\ Current(t) = t
    <2>1. Current(t) = t
        BY <1>1, <1>18 DEF EndArrive, IsImplicit
    <2> QED
        BY <1>3, <1>18, <2>1 DEF EndArrive, At, Goes, Stays, SameTasks, taskVars, stackVars, AtBarrier
<1>19. ASSUME EndPass(t)
       PROVE  Current(t) = t /\ Goes(t, IF t = Master THEN "join" ELSE "gone")
    <2> DEFINE l == IF t = Master THEN "join" ELSE "gone"
    <2>1. Current(t) = t
        BY <1>1, <1>19 DEF EndPass, At, AtBarrier
    <2>2. l \in AtBarrier
        BY DEF AtBarrier
    <2>3. l \in Labels \ {"put"} /\ Allowed(Current(t), l)
        BY <1>3, <2>1, <2>2
    <2> QED
        BY <1>19, <2>1, <2>3 DEF EndPass, At, Goes, Stays, SameTasks
<1>20. ASSUME MasterJoin(t) PROVE Goes(t, "gone") /\ Current(t) = t
    <2>1. Current(t) = t
        BY <1>1, <1>20 DEF MasterJoin, At, AtBarrier
    <2> QED
        BY <1>3, <1>20, <2>1 DEF MasterJoin, At, Goes, Stays, SameTasks, taskVars, stackVars, AtBarrier
<1>21. WaitMiss(t) => Goes(t, "waitTest")
    BY <1>5 DEF WaitMiss, At
<1>22. ExitMiss(t) => Goes(t, "exitBlock")
    BY <1>5 DEF ExitMiss, At
<1> QED
    BY <1>6, <1>7, <1>8, <1>9, <1>10, <1>11, <1>12, <1>13, <1>14, <1>15, <1>16, <1>17,
       <1>18, <1>19, <1>20, <1>21, <1>22

\* each action that runs a task of the pool, and each that ends one
LEMMA Switches ==
    ASSUME Types, PlaceInv, NEW t \in Thread
    PROVE  /\ WaitTake(t) => /\ \E n \in Used : Takes(t, n, "waitTest")
                             /\ pc[Current(t)] = "waitTake" /\ TakeAndSwitch(t, "waitTest")
           /\ ExitTake(t) => /\ \E n \in Used : Takes(t, n, "exitBlock")
                             /\ pc[Current(t)] = "exitTake" /\ TakeAndSwitch(t, "exitBlock")
           /\ BarrierTake(t) => /\ \E n \in Used : Takes(t, n, pc[Current(t)])
                                /\ Current(t) = t /\ pc[t] \in Draining
                                /\ TakeAndSwitch(t, pc[t])
           /\ ReturnDelete(t) \/ MarkFinished(t) => Returns(t)
<1>1. /\ Current(t) \in Thread => Current(t) = t
      /\ Current(t) \notin Thread => Current(t) \in Used
      /\ pc[Current(t)] \in AtBarrier => Current(t) = t
      /\ pc[Current(t)] = "finish" => Current(t) \in Used
      /\ Used \cap Thread = {}
    BY Top, TopLabel, UsedTasks DEF PlaceInv
<1>2. Allowed(Current(t), "waitTest") /\ Allowed(Current(t), "exitBlock")
    BY DEF Allowed, Started, OwnLabels
<1>3. ASSUME WaitTake(t) PROVE \E n \in Used : Takes(t, n, "waitTest")
    <2>1. "waitTest" \in Below /\ pc[Current(t)] # "put" /\ TakeAndSwitch(t, "waitTest")
        BY <1>3 DEF WaitTake, At, Below
    <2> QED
        BY <1>2, <2>1, TakesShape
<1>4. ASSUME ExitTake(t) PROVE \E n \in Used : Takes(t, n, "exitBlock")
    <2>1. "exitBlock" \in Below /\ pc[Current(t)] # "put" /\ TakeAndSwitch(t, "exitBlock")
        BY <1>4 DEF ExitTake, At, Below
    <2> QED
        BY <1>2, <2>1, TakesShape
<1>5. ASSUME BarrierTake(t)
      PROVE  Current(t) = t /\ \E n \in Used : Takes(t, n, pc[Current(t)])
    <2>1. /\ pc[Current(t)] \in Below /\ pc[Current(t)] \in AtBarrier
          /\ pc[Current(t)] # "put" /\ TakeAndSwitch(t, pc[Current(t)])
        BY <1>5 DEF BarrierTake, Draining, Below, AtBarrier
    <2>2. Current(t) = t /\ Allowed(Current(t), pc[Current(t)])
        BY <1>1, <2>1 DEF Allowed
    <2> QED
        BY <2>1, <2>2, TakesShape
<1>6. ReturnDelete(t) => Returns(t)
    BY PopShape DEF ReturnDelete, At, IsImplicit
<1>7. MarkFinished(t) => Returns(t)
    BY <1>1, PopShape DEF MarkFinished, At
<1> QED
    BY <1>3, <1>4, <1>5, <1>6, <1>7 DEF WaitTake, ExitTake, BarrierTake, At

\* Every step keeps every task in its place.
LEMMA PlaceStep ==
    ASSUME Types, PlaceInv, NEW t \in Thread, Program(t) \/ Take(t) \/ Miss(t) \/ Runtime(t)
    PROVE  PlaceInv' /\ PlaceTypes
<1>1. (\E l : Goes(t, l)) => PlaceInv' /\ PlaceTypes
    BY GoesPlace
<1>2. (\E n, l : Takes(t, n, l)) => PlaceInv' /\ PlaceTypes
    BY TakesPlace
<1>3. CASE Program(t)
    <2>1. (\E k : CreateImmediate(t, k) \/ CreateDeferred(t, k)) => PlaceInv' /\ PlaceTypes
        BY CreateImmediatePlace, CreateDeferredPlace
    <2> QED
        BY <1>1, <1>3, <2>1, Moves DEF Program
<1>4. CASE Take(t) \/ Miss(t)
    BY <1>1, <1>2, <1>4, Moves, Switches DEF Take, Miss
<1>5. CASE Runtime(t)
    BY <1>1, <1>5, Moves, Switches, ReturnsPlace, PutPlace, PutFullPlace DEF Runtime
<1> QED
    BY <1>3, <1>4, <1>5

\* ... and so does stuttering.
LEMMA PlaceStutter ==
    ASSUME PlaceInv, UNCHANGED vars
    PROVE  PlaceInv'
<1>1. /\ created' = created /\ kind' = kind /\ parent' = parent /\ pc' = pc /\ stack' = stack
      /\ tiedQ' = tiedQ /\ untiedQ' = untiedQ
    BY DEF vars, taskVars, stackVars, queueVars
<1> QED
    BY <1>1 DEF PlaceInv, PcInv, StackInv, QueueInv, FreshInv, ParentInv, Used, IsDeferred,
                IsTied, IsImplicit

\* At first the threads run their implicit tasks.
LEMMA PlaceInit ==
    ASSUME Init
    PROVE  PlaceInv
<1>1. /\ created = 0 /\ Used = {} /\ stack = [t \in Thread |-> <<t>>]
      /\ tiedQ = [t \in Thread |-> <<>>] /\ untiedQ = [t \in Thread |-> <<>>]
      /\ \A t \in Thread : pc[t] = "body" /\ t \notin Explicit
      /\ \A n \in Explicit : pc[n] = "unused" /\ n \notin Thread
    BY Names DEF Init, Used, IsImplicit
<1>2. PcInv
    BY <1>1 DEF PcInv, Started
<1>3. \A t \in Thread : stack[t] = <<t>> /\ Len(stack[t]) = 1 /\ DOMAIN stack[t] = 1..1
                        /\ stack[t][1] = t
    BY <1>1
<1>4. StackInv
    <2>1. Once(stack)
        BY <1>3 DEF Once
    <2> QED
        BY <1>1, <1>3, <2>1 DEF StackInv
<1>5. \A t \in Thread : /\ tiedQ[t] = <<>> /\ untiedQ[t] = <<>> /\ Len(tiedQ[t]) = 0 /\ Len(untiedQ[t]) = 0
                        /\ DOMAIN tiedQ[t] = {} /\ DOMAIN untiedQ[t] = {}
    BY <1>1
<1>6. QueueInv
    BY <1>1, <1>5, Names DEF QueueInv, Once, Within
<1>7. FreshInv /\ ParentInv
    BY <1>1, Names DEF FreshInv, ParentInv, Task
<1> QED
    BY <1>2, <1>4, <1>6, <1>7 DEF PlaceInv

-----------------------------------------------------------------------------
(* The counters *)

\* A finite set with one member more.
LEMMA OneMoreMember ==
    ASSUME NEW S, NEW T, NEW x, IsFiniteSet(S), x \notin S, T = S \cup {x}
    PROVE  Cardinality(T) = Cardinality(S) + 1
  BY FS_AddElement

\* A finite set with one member less.
LEMMA OneMemberLess ==
    ASSUME NEW S, NEW T, NEW x, IsFiniteSet(S), x \in S, T = S \ {x}
    PROVE  Cardinality(T) = Cardinality(S) - 1 /\ Cardinality(S) \in Nat \ {0}
<1>1. Cardinality(S \ {x}) = Cardinality(S) - 1 /\ IsFiniteSet(S \ {x})
    BY FS_RemoveElement
<1>2. Cardinality(S) \in Nat /\ Cardinality(S \ {x}) \in Nat
    BY <1>1, FS_CardinalityType
<1> QED
    BY <1>1, <1>2

\* What the counters count is finite and at most the number of tasks.
LEMMA CountedSets ==
    ASSUME Types
    PROVE  /\ Pending \subseteq Used /\ IsFiniteSet(Pending) /\ Cardinality(Pending) \in 0..MaxTasks
           /\ \A c : /\ Counted(c) \subseteq Used /\ Blocking(c) \subseteq Used
                     /\ IsFiniteSet(Counted(c)) /\ Cardinality(Counted(c)) \in 0..MaxTasks
                     /\ IsFiniteSet(Blocking(c)) /\ Cardinality(Blocking(c)) \in 0..MaxTasks
<1>1. Used \subseteq Explicit /\ IsFiniteSet(Explicit) /\ Cardinality(Explicit) = MaxTasks
    <2>1. Cardinality(1..MaxTasks) = MaxTasks /\ IsFiniteSet(1..MaxTasks)
        BY Names, FS_Interval
    <2> QED
        BY <2>1, UsedTasks DEF Explicit
<1>2. ASSUME NEW S, S \subseteq Used PROVE IsFiniteSet(S) /\ Cardinality(S) \in 0..MaxTasks
    <2>1. IsFiniteSet(S) /\ Cardinality(S) <= MaxTasks
        BY <1>1, <1>2, FS_Subset
    <2>2. Cardinality(S) \in Nat
        BY <2>1, FS_CardinalityType
    <2> QED
        BY <2>1, <2>2, Names
<1>3. Pending \subseteq Used /\ \A c : Counted(c) \subseteq Used /\ Blocking(c) \subseteq Used
    BY DEF Pending, Counted, Blocking, Children
<1> QED
    BY <1>2, <1>3

\* The sets the counters count depend on the labels in three ways.
SameClass(l, m) == /\ l \in BodyOver <=> m \in BodyOver
                   /\ l \in Uncounted <=> m \in Uncounted
                   /\ l \in Gone <=> m \in Gone

\* The counters stay exact when what they count stays the same.
LEMMA CountsKept ==
    ASSUME Types, CountInv, SameTasks,
           UNCHANGED <<numChildren, numBlocking, numPending>>,
           \A n \in Used : IsDeferred(n) => SameClass(pc[n], pc'[n]),
           \A n \in Used : pc'[n] \in Gone => pc[n] \in Gone
    PROVE  CountInv'
<1>1. /\ Used' = Used /\ parent' = parent /\ kind' = kind
      /\ \A n : IsDeferred(n)' <=> IsDeferred(n)
    BY DEF SameTasks, Used, IsDeferred, IsImplicit
<1>2. Pending' = Pending
    BY <1>1 DEF Pending, SameClass
<1>3. \A c : Counted(c)' = Counted(c) /\ Blocking(c)' = Blocking(c)
    BY <1>1 DEF Counted, Blocking, Children, SameClass
<1> QED
    BY <1>1, <1>2, <1>3 DEF CountInv, CountersExact, FrameInv

\* A task that goes on inside its class of labels changes no count.
LEMMA GoesCounts ==
    ASSUME Types, PlaceInv, CountInv, NEW t \in Thread, NEW l, Goes(t, l),
           UNCHANGED <<numChildren, numBlocking, numPending>>,
           IsDeferred(Current(t)) => SameClass(pc[Current(t)], l),
           Current(t) \in Thread \/ l \notin Gone \/ pc[Current(t)] \in Gone
    PROVE  CountInv'
<1>1. /\ \A c \in Task : pc'[c] = IF c = Current(t) THEN l ELSE pc[c]
      /\ SameTasks
    BY StayPc DEF Goes, PlaceInv
<1>2. \A n \in Used : IsDeferred(n) => SameClass(pc[n], pc'[n])
    BY <1>1, UsedTasks DEF SameClass
<1>3. \A n \in Used : pc'[n] \in Gone => pc[n] \in Gone
    BY <1>1, UsedTasks
<1> QED
    BY <1>1, <1>2, <1>3, CountsKept

\* Taking a task changes no count.
LEMMA TakesCounts ==
    ASSUME Types, PlaceInv, CountInv, NEW t \in Thread, NEW n, NEW l, Takes(t, n, l),
           UNCHANGED countVars,
           IsDeferred(Current(t)) => SameClass(pc[Current(t)], l)
    PROVE  CountInv'
<1>1. /\ l \in Below /\ SameTasks /\ Pushes(t, n, l)
      /\ n \in Used /\ n \in Explicit /\ pc[n] = "queued" /\ pc[n] \notin OwnLabels
    BY UsedTasks DEF Takes, TakenOut, OwnLabels, Started
<1>2. /\ \A c \in Task : pc'[c] = IF c = n THEN "body" ELSE IF c = Current(t) THEN l ELSE pc[c]
    <2>1. l \in Labels
        BY <1>1 DEF Below, Labels
    <2> QED
        BY <1>1, <2>1, PushPc DEF PlaceInv
<1>3. SameClass("queued", "body") /\ l \notin Gone /\ "body" \notin Gone
    BY <1>1 DEF SameClass, BodyOver, Uncounted, Gone, Below
<1>4. \A c \in Used : IsDeferred(c) => SameClass(pc[c], pc'[c])
    BY <1>1, <1>2, <1>3, UsedTasks DEF SameClass
<1>5. \A c \in Used : pc'[c] \in Gone => pc[c] \in Gone
    BY <1>2, <1>3, UsedTasks
<1>6. UNCHANGED <<numChildren, numBlocking, numPending>>
    BY DEF countVars
<1> QED
    BY <1>1, <1>4, <1>5, <1>6, CountsKept

\* Returning changes no count.
LEMMA ReturnsCounts ==
    ASSUME Types, PlaceInv, CountInv, NEW t \in Thread, Returns(t), UNCHANGED countVars
    PROVE  CountInv'
<1>1. /\ Current(t) \notin Thread /\ pc[Current(t)] \in {"returned", "finish"}
      /\ Pops(t) /\ SameTasks
    BY DEF Returns
<1>2. \A c \in Task :
           pc'[c] = IF c = Current(t) THEN "done"
                    ELSE IF c = Under(t) /\ pc[c] = "createReturn" THEN "body" ELSE pc[c]
    BY <1>1, PopPc DEF PlaceInv
<1>3. /\ SameClass("createReturn", "body") /\ SameClass("returned", "done") /\ SameClass("finish", "done")
      /\ "returned" \in Gone /\ "finish" \in Gone /\ "body" \notin Gone
    BY DEF SameClass, BodyOver, Uncounted, Gone
<1>4. \A c \in Used : IsDeferred(c) => SameClass(pc[c], pc'[c])
    BY <1>1, <1>2, <1>3, UsedTasks DEF SameClass
<1>5. \A c \in Used : pc'[c] \in Gone => pc[c] \in Gone
    BY <1>1, <1>2, <1>3, UsedTasks
<1>6. UNCHANGED <<numChildren, numBlocking, numPending>>
    BY DEF countVars
<1> QED
    BY <1>1, <1>4, <1>5, <1>6, CountsKept

\* Putting a task, or failing to, changes no count.
LEMMA PutCounts ==
    ASSUME Types, PlaceInv, CountInv, NEW t \in Thread, Put(t) \/ PutFull(t)
    PROVE  CountInv'
<1> DEFINE n == Fresh(t)
           c == Current(t)
<1>1. c \in Task /\ pc[c] = "put"
    BY Top DEF PlaceInv, Put, PutFull, At
<1>2. n \in Used /\ n \in Task /\ pc[n] = "created" /\ n # c
    BY <1>1, FreshTask, UsedTasks DEF PlaceInv, At
<1>3. /\ SameTasks /\ UNCHANGED <<numChildren, numBlocking, numPending>>
      /\ \/ pc' = [pc EXCEPT ![c] = "body", ![n] = "queued"]
         \/ pc' = [pc EXCEPT ![c] = "createReturn", ![n] = "body"]
    BY DEF Put, PutFull, Switch, taskVars, countVars, SameTasks
<1> HIDE DEF n, c
<1>4. /\ \A m \in Task : m # n /\ m # c => pc'[m] = pc[m]
      /\ pc'[n] \in {"queued", "body"} /\ pc'[c] \in {"body", "createReturn"}
    BY <1>1, <1>2, <1>3 DEF Types
<1>5. \A l \in {"queued", "body", "createReturn"} :
         SameClass("created", l) /\ SameClass("put", l) /\ l \notin Gone
    BY DEF SameClass, BodyOver, Uncounted, Gone
<1>6. \A m \in Used : IsDeferred(m) => SameClass(pc[m], pc'[m])
    BY <1>1, <1>2, <1>4, <1>5, UsedTasks DEF SameClass
<1>7. \A m \in Used : pc'[m] \in Gone => pc[m] \in Gone
    BY <1>1, <1>2, <1>4, <1>5, UsedTasks
<1> QED
    BY <1>3, <1>6, <1>7, CountsKept

\* Undeferred tasks are not counted.
LEMMA CreateImmediateCounts ==
    ASSUME Types, PlaceInv, CountInv, NEW t \in Thread, NEW k, CreateImmediate(t, k)
    PROVE  CountInv'
<1>1. PICK n : n = created + 1
    OBVIOUS
<1>2. PICK c : c = Current(t)
    OBVIOUS
<1>3. NewTask(t, k) /\ ~k.mayDelay /\ UNCHANGED <<numChildren, numBlocking, numPending>>
      /\ pc' = [pc EXCEPT ![c] = "createReturn", ![n] = "body"]
    BY <1>1, <1>2 DEF CreateImmediate, countVars
<1>4. /\ n \in Task /\ n \notin Used /\ n \notin Thread
      /\ Used' = Used \cup {n} /\ c \in Used \cup Thread /\ c \in Task /\ pc[c] = "body"
      /\ kind'[n] = k /\ parent'[n] = c
      /\ \A m \in Used : kind'[m] = kind[m] /\ parent'[m] = parent[m]
                         /\ (IsDeferred(m)' <=> IsDeferred(m))
    BY <1>1, <1>2, <1>3, Creation, UsedTasks, Names
<1>5. ~IsDeferred(n)'
    BY <1>3, <1>4 DEF IsDeferred
<1>6. /\ \A m \in Used : m # c => pc'[m] = pc[m]
      /\ pc'[c] = "createReturn" /\ pc'[n] = "body"
    BY <1>3, <1>4, UsedTasks DEF Types
<1>7. /\ SameClass("body", "createReturn") /\ "body" \notin Gone /\ "createReturn" \notin Gone
    BY DEF SameClass, BodyOver, Uncounted, Gone
<1>8. \A m \in Used : SameClass(pc[m], pc'[m])
    BY <1>4, <1>6, <1>7 DEF SameClass
<1>9. Pending' = Pending
    BY <1>4, <1>5, <1>8 DEF Pending, SameClass
<1>10. \A m : Children(m)' = Children(m)
    BY <1>4, <1>5 DEF Children
<1>11. \A m : Counted(m)' = Counted(m) /\ Blocking(m)' = Blocking(m)
    <2>1. \A m : Children(m) \subseteq Used
        BY DEF Children
    <2> QED
        BY <1>4, <1>8, <1>10, <2>1 DEF Counted, Blocking, SameClass
<1>12. FrameInv'
    BY <1>4, <1>6, <1>7, <1>8, <1>11 DEF FrameInv, CountInv, SameClass
<1> QED
    BY <1>3, <1>9, <1>11, <1>12 DEF CountInv, CountersExact

\* A creation counts the task in the pool and in its parent.
LEMMA CreateDeferredCounts ==
    ASSUME Types, PlaceInv, CountInv, NEW t \in Thread, NEW k, CreateDeferred(t, k)
    PROVE  CountInv' /\ numChildren' \in [Task -> Nat] /\ numBlocking' \in [Task -> Nat]
                     /\ numPending' \in Nat
<1>1. PICK n : n = created + 1
    OBVIOUS
<1>2. PICK c : c = Current(t)
    OBVIOUS
<1>3. /\ NewTask(t, k) /\ k.mayDelay
      /\ numChildren' = [numChildren EXCEPT ![c] = @ + 1]
      /\ numBlocking' = [numBlocking EXCEPT ![c] = IF k.blocks THEN @ + 1 ELSE @]
      /\ numPending' = numPending + 1
      /\ pc' = [pc EXCEPT ![c] = "put", ![n] = "created"]
    BY <1>1, <1>2 DEF CreateDeferred
<1>4. /\ n \in Task /\ n \notin Used /\ n \notin Thread
      /\ Used' = Used \cup {n} /\ c \in Used \cup Thread /\ c \in Task /\ pc[c] = "body"
      /\ kind'[n] = k /\ parent'[n] = c
      /\ \A m \in Used : kind'[m] = kind[m] /\ parent'[m] = parent[m]
                         /\ (IsDeferred(m)' <=> IsDeferred(m))
    BY <1>1, <1>2, <1>3, Creation, UsedTasks, Names
<1>5. IsDeferred(n)' /\ n # c
    BY <1>3, <1>4, UsedTasks DEF IsDeferred, IsImplicit
<1>6. /\ \A m \in Used : m # c => pc'[m] = pc[m]
      /\ pc'[c] = "put" /\ pc'[n] = "created"
    BY <1>3, <1>4, <1>5, UsedTasks DEF Types
<1>7. /\ SameClass("body", "put") /\ "put" \notin Gone
      /\ "created" \notin BodyOver /\ "created" \notin Uncounted /\ "created" \notin Gone
    BY DEF SameClass, BodyOver, Uncounted, Gone
<1>8. \A m \in Used : SameClass(pc[m], pc'[m])
    BY <1>4, <1>6, <1>7 DEF SameClass
<1>9. Pending' = Pending \cup {n} /\ n \notin Pending
    BY <1>4, <1>5, <1>6, <1>7, <1>8 DEF Pending, SameClass
<1>10. \A m : Children(m)' = IF m = c THEN Children(m) \cup {n} ELSE Children(m)
    BY <1>4, <1>5 DEF Children
<1>11. \A m : Children(m) \subseteq Used
    BY DEF Children
<1>12. \A m : Counted(m)' = IF m = c THEN Counted(m) \cup {n} ELSE Counted(m)
    BY <1>4, <1>6, <1>7, <1>8, <1>10, <1>11 DEF Counted, SameClass
<1>13. \A m : Blocking(m)' = IF m = c /\ k.blocks THEN Blocking(m) \cup {n} ELSE Blocking(m)
    BY <1>4, <1>6, <1>7, <1>8, <1>10, <1>11 DEF Blocking, SameClass
<1>14. n \notin Counted(c) /\ n \notin Blocking(c)
    BY <1>4, CountedSets
<1>15. /\ Cardinality(Pending') = Cardinality(Pending) + 1
       /\ Cardinality(Counted(c)') = Cardinality(Counted(c)) + 1
       /\ Cardinality(Blocking(c)') = Cardinality(Blocking(c)) + IF k.blocks THEN 1 ELSE 0
    <2>1. Cardinality(Pending') = Cardinality(Pending) + 1
        BY <1>9, CountedSets, OneMoreMember
    <2>2. Cardinality(Counted(c)') = Cardinality(Counted(c)) + 1
        BY <1>12, <1>14, CountedSets, OneMoreMember
    <2>3. CASE k.blocks
        <3>1. Cardinality(Blocking(c)') = Cardinality(Blocking(c)) + 1
            BY <1>13, <1>14, <2>3, CountedSets, OneMoreMember
        <3> QED
            BY <2>1, <2>2, <2>3, <3>1
    <2>4. CASE ~k.blocks
        <3>1. Cardinality(Blocking(c)) \in Nat /\ Blocking(c)' = Blocking(c)
            BY <1>13, <2>4, CountedSets
        <3> QED
            BY <2>1, <2>2, <2>4, <3>1
    <2> QED
        BY <2>3, <2>4
<1>16. /\ numPending = Cardinality(Pending)
       /\ \A m \in Task : /\ numChildren[m] = Cardinality(Counted(m))
                          /\ numBlocking[m] = Cardinality(Blocking(m))
    BY DEF CountInv, CountersExact
<1>17. /\ numChildren \in [Task -> Nat] /\ numBlocking \in [Task -> Nat] /\ numPending \in Nat
    BY DEF Types
<1>18. CountersExact'
    <2>1. numPending' = Cardinality(Pending')
        BY <1>3, <1>15, <1>16
    <2>2. ASSUME NEW m \in Task
          PROVE  /\ numChildren'[m] = Cardinality(Counted(m)')
                 /\ numBlocking'[m] = Cardinality(Blocking(m)')
        <3>1. CASE m = c
            <4>1. numBlocking[c] + 0 = numBlocking[c]
                BY <1>4, <1>17
            <4> QED
                BY <1>3, <1>4, <1>15, <1>16, <1>17, <3>1, <4>1
        <3>2. CASE m # c
            BY <1>3, <1>12, <1>13, <1>16, <1>17, <3>2
        <3> QED
            BY <3>1, <3>2
    <2> QED
        BY <2>1, <2>2 DEF CountersExact
<1>19. FrameInv'
    <2>1. ASSUME NEW m \in Used', pc'[m] \in Gone PROVE Blocking(m)' = {}
        <3>1. m # n /\ m # c /\ m \in Used /\ pc[m] \in Gone
            BY <1>4, <1>6, <1>7, <1>8, <2>1 DEF SameClass
        <3> QED
            BY <1>13, <3>1 DEF CountInv, FrameInv
    <2> QED
        BY <2>1 DEF FrameInv
<1>20. numPending' \in Nat
    BY <1>3, <1>17
<1>21. numChildren' \in [Task -> Nat]
    <2>1. numChildren' = [numChildren EXCEPT ![c] = @ + 1]
        BY <1>3
    <2> QED
        BY <1>4, <1>17, <2>1
<1>22. numBlocking' \in [Task -> Nat]
    <2>1. CASE k.blocks
        <3>1. numBlocking' = [numBlocking EXCEPT ![c] = @ + 1]
            BY <1>3, <2>1
        <3> QED
            BY <1>4, <1>17, <3>1
    <2>2. CASE ~k.blocks
        <3>1. numBlocking' = [numBlocking EXCEPT ![c] = @]
            BY <1>3, <2>2
        <3> QED
            BY <1>4, <1>17, <3>1
    <2> QED
        BY <2>1, <2>2
<1> QED
    BY <1>18, <1>19, <1>20, <1>21, <1>22 DEF CountInv

\* The end of a body takes the task off num_pending_tasks.
LEMMA ExitCounts ==
    ASSUME Types, PlaceInv, CountInv, NEW t \in Thread, Exit(t)
    PROVE  CountInv' /\ numPending' \in Nat
<1>1. PICK c : c = Current(t)
    OBVIOUS
<1>2. /\ SameTasks /\ UNCHANGED <<numChildren, numBlocking>>
      /\ numPending' = IF IsDeferred(c) THEN numPending - 1 ELSE numPending
      /\ pc' = [pc EXCEPT ![c] = IF IsDeferred(c) THEN "exitDec" ELSE "exitBlock"]
      /\ pc[c] = "body"
    BY <1>1 DEF Exit, At, taskVars, SameTasks
<1>3. c \in Task /\ (c \in Used \/ c \in Thread)
    BY <1>1, Top DEF PlaceInv
<1>4. /\ Used' = Used /\ parent' = parent /\ kind' = kind
      /\ \A n : IsDeferred(n)' <=> IsDeferred(n)
    BY <1>2 DEF SameTasks, Used, IsDeferred, IsImplicit
<1>5. /\ \A n \in Used : n # c => pc'[n] = pc[n]
      /\ pc'[c] = IF IsDeferred(c) THEN "exitDec" ELSE "exitBlock"
    BY <1>2, <1>3, UsedTasks DEF Types
<1>6. /\ "body" \notin BodyOver /\ "exitDec" \in BodyOver
      /\ "body" \notin Uncounted /\ "exitDec" \notin Uncounted
      /\ "body" \notin Gone /\ "exitDec" \notin Gone /\ "exitBlock" \notin Gone
    BY DEF BodyOver, Uncounted, Gone
<1>7. \A m : Counted(m)' = Counted(m) /\ Blocking(m)' = Blocking(m)
    BY <1>2, <1>4, <1>5, <1>6 DEF Counted, Blocking, Children
<1>8. FrameInv'
    BY <1>4, <1>5, <1>6, <1>7 DEF FrameInv, CountInv
<1>9. numPending' = Cardinality(Pending') /\ numPending' \in Nat
    <2>1. numPending = Cardinality(Pending) /\ numPending \in Nat
        BY DEF CountInv, CountersExact, Types
    <2>2. CASE IsDeferred(c)
        <3>1. c \in Used
            BY <1>3, <2>2 DEF IsDeferred, IsImplicit
        <3>2. c \in Pending /\ Pending' = Pending \ {c}
            BY <1>2, <1>4, <1>5, <1>6, <2>2, <3>1 DEF Pending
        <3>3. Cardinality(Pending') = Cardinality(Pending) - 1 /\ Cardinality(Pending) \in Nat \ {0}
            BY <3>2, CountedSets, OneMemberLess
        <3> QED
            BY <1>2, <2>1, <2>2, <3>3
    <2>3. CASE ~IsDeferred(c)
        <3>1. Pending' = Pending
            BY <1>4, <1>5, <2>3 DEF Pending
        <3> QED
            BY <1>2, <2>1, <2>3, <3>1
    <2> QED
        BY <2>2, <2>3
<1> QED
    BY <1>2, <1>7, <1>8, <1>9 DEF CountInv, CountersExact

\* The decrement of the parent's num_children (omp_task.c:235).
LEMMA ExitDecCounts ==
    ASSUME Types, PlaceInv, CountInv, NEW t \in Thread, ExitDec(t)
    PROVE  /\ CountInv' /\ numChildren' \in [Task -> Nat]
           /\ numChildren[parent[Current(t)]] \in 1..MaxTasks
<1>1. PICK c : c = Current(t)
    OBVIOUS
<1>2. PICK p : p = parent[c]
    OBVIOUS
<1>3. /\ SameTasks /\ UNCHANGED <<numPending, numBlocking>>
      /\ numChildren' = [numChildren EXCEPT ![p] = @ - 1]
      /\ pc' = [pc EXCEPT ![c] = "exitCheck"]
      /\ pc[c] = "exitDec"
    BY <1>1, <1>2 DEF ExitDec, At, taskVars, SameTasks
<1>4. c \in Used /\ c \in Task /\ IsDeferred(c) /\ p \in Task
    <2>1. c \in Used /\ IsDeferred(c) /\ c \in Task
        BY <1>1, <1>3, Top, TopLabel DEF PlaceInv
    <2> QED
        BY <1>2, <2>1, UsedTasks DEF Types
<1>5. /\ Used' = Used /\ parent' = parent /\ kind' = kind
      /\ \A n : IsDeferred(n)' <=> IsDeferred(n)
    BY <1>3 DEF SameTasks, Used, IsDeferred, IsImplicit
<1>6. /\ \A n \in Used : n # c => pc'[n] = pc[n]
      /\ pc'[c] = "exitCheck"
    BY <1>3, <1>4, UsedTasks DEF Types
<1>7. /\ "exitCheck" \in BodyOver /\ "exitDec" \in BodyOver
      /\ "exitCheck" \in Uncounted /\ "exitDec" \notin Uncounted
      /\ "exitCheck" \notin Gone /\ "exitDec" \notin Gone
    BY DEF BodyOver, Uncounted, Gone
<1>8. Pending' = Pending
    BY <1>3, <1>5, <1>6, <1>7 DEF Pending
<1>9. \A m : Blocking(m)' = Blocking(m)
    BY <1>3, <1>5, <1>6, <1>7 DEF Blocking, Children
<1>10. \A m : Counted(m)' = IF m = p THEN Counted(m) \ {c} ELSE Counted(m)
    BY <1>2, <1>3, <1>5, <1>6, <1>7 DEF Counted, Children
<1>11. c \in Counted(p)
    BY <1>2, <1>3, <1>4, <1>7 DEF Counted, Children
<1>12. Cardinality(Counted(p)') = Cardinality(Counted(p)) - 1 /\ Cardinality(Counted(p)) \in 1..MaxTasks
    <2>1. Cardinality(Counted(p)') = Cardinality(Counted(p)) - 1 /\ Cardinality(Counted(p)) \in Nat \ {0}
        BY <1>10, <1>11, CountedSets, OneMemberLess
    <2>2. Cardinality(Counted(p)) \in 0..MaxTasks
        BY CountedSets
    <2> QED
        BY <2>1, <2>2, Names
<1>13. FrameInv'
    BY <1>5, <1>6, <1>7, <1>9 DEF FrameInv, CountInv
<1>14. /\ numPending = Cardinality(Pending)
       /\ \A m \in Task : /\ numChildren[m] = Cardinality(Counted(m))
                          /\ numBlocking[m] = Cardinality(Blocking(m))
       /\ numChildren \in [Task -> Nat]
    BY DEF CountInv, CountersExact, Types
<1>15. numChildren[p] \in 1..MaxTasks /\ numChildren[p] \in Nat /\ numChildren[p] - 1 \in Nat
    BY <1>4, <1>12, <1>14, Names
<1>16. CountersExact'
    <2>1. ASSUME NEW m \in Task PROVE numChildren'[m] = Cardinality(Counted(m)')
        <3>1. CASE m = p
            BY <1>3, <1>12, <1>14, <3>1
        <3>2. CASE m # p
            BY <1>3, <1>10, <1>14, <3>2
        <3> QED
            BY <3>1, <3>2
    <2> QED
        BY <1>3, <1>8, <1>9, <1>14, <2>1 DEF CountersExact
<1>17. numChildren' \in [Task -> Nat]
    BY <1>3, <1>14, <1>15
<1> QED
    BY <1>1, <1>2, <1>13, <1>15, <1>16, <1>17 DEF CountInv

\* The decrement of the parent's num_blocking_children (omp_task.c:261-267).
LEMMA ExitBlockCounts ==
    ASSUME Types, PlaceInv, CountInv, NEW t \in Thread, ExitBlock(t)
    PROVE  CountInv' /\ numBlocking' \in [Task -> Nat]
<1>1. PICK c : c = Current(t)
    OBVIOUS
<1>2. /\ SameTasks /\ UNCHANGED <<numPending, numChildren>>
      /\ numBlocking' = IF MayLeave(c) /\ TellsParent(c)
                        THEN [numBlocking EXCEPT ![parent[c]] = @ - 1] ELSE numBlocking
      /\ pc' = [pc EXCEPT ![c] = IF MayLeave(c) THEN "returned" ELSE "exitTake"]
      /\ pc[c] = "exitBlock"
    BY <1>1 DEF ExitBlock, At, taskVars, SameTasks
<1>3. c \in Task /\ (c \in Used \/ c \in Thread)
    BY <1>1, Top DEF PlaceInv
<1>4. /\ Used' = Used /\ parent' = parent /\ kind' = kind
      /\ \A n : IsDeferred(n)' <=> IsDeferred(n)
    BY <1>2 DEF SameTasks, Used, IsDeferred, IsImplicit
<1>5. /\ \A n \in Used : n # c => pc'[n] = pc[n]
      /\ pc'[c] = IF MayLeave(c) THEN "returned" ELSE "exitTake"
    BY <1>2, <1>3, UsedTasks DEF Types
<1>6. /\ \A l \in {"exitBlock", "returned", "exitTake"} : l \in BodyOver /\ l \in Uncounted
      /\ "returned" \in Gone /\ "exitTake" \notin Gone /\ "exitBlock" \notin Gone
    BY DEF BodyOver, Uncounted, Gone
<1>7. Pending' = Pending
    BY <1>2, <1>4, <1>5, <1>6 DEF Pending
<1>8. \A m : Counted(m)' = Counted(m)
    BY <1>2, <1>4, <1>5, <1>6 DEF Counted, Children
<1>9. /\ numPending = Cardinality(Pending)
      /\ \A m \in Task : /\ numChildren[m] = Cardinality(Counted(m))
                         /\ numBlocking[m] = Cardinality(Blocking(m))
      /\ numBlocking \in [Task -> Nat]
    BY DEF CountInv, CountersExact, Types
<1>10. MayLeave(c) => Blocking(c) = {}
    BY <1>3, <1>9, CountedSets, FS_EmptySet DEF MayLeave
<1>11. CASE MayLeave(c) /\ TellsParent(c)
    <2>1. c \in Used /\ IsDeferred(c) /\ kind[c].blocks
        BY <1>3, <1>11 DEF TellsParent, IsDeferred, IsImplicit
    <2>2. PICK p : p = parent[c]
        OBVIOUS
    <2>3. p \in Task
        BY <2>1, <2>2, UsedTasks DEF Types
    <2>4. \A m : Blocking(m)' = IF m = p THEN Blocking(m) \ {c} ELSE Blocking(m)
        BY <1>2, <1>4, <1>5, <1>6, <1>11, <2>2 DEF Blocking, Children
    <2>5. c \in Blocking(p)
        BY <1>2, <1>6, <2>1, <2>2 DEF Blocking, Children
    <2>6. Cardinality(Blocking(p)') = Cardinality(Blocking(p)) - 1 /\ Cardinality(Blocking(p)) \in Nat \ {0}
        BY <2>4, <2>5, CountedSets, OneMemberLess
    <2>7. numBlocking' = [numBlocking EXCEPT ![p] = @ - 1]
        BY <1>2, <1>11, <2>2
    <2>8. \A m \in Task : numBlocking'[m] = Cardinality(Blocking(m)')
        <3>1. ASSUME NEW m \in Task PROVE numBlocking'[m] = Cardinality(Blocking(m)')
            <4>1. CASE m = p
                BY <1>9, <2>6, <2>7, <4>1
            <4>2. CASE m # p
                BY <1>9, <2>4, <2>7, <4>2
            <4> QED
                BY <4>1, <4>2
        <3> QED
            BY <3>1
    <2>9. numBlocking' \in [Task -> Nat]
        <3>1. numBlocking[p] - 1 \in Nat
            BY <1>9, <2>3, <2>6
        <3> QED
            BY <1>9, <2>7, <3>1
    <2>10. FrameInv'
        <3>1. ASSUME NEW m \in Used, pc'[m] \in Gone PROVE Blocking(m)' = {}
            <4>1. Blocking(m) = {}
                BY <1>5, <1>10, <1>11, <3>1 DEF CountInv, FrameInv
            <4> QED
                BY <2>4, <4>1
        <3> QED
            BY <1>4, <3>1 DEF FrameInv
    <2> QED
        BY <1>2, <1>7, <1>8, <1>9, <2>8, <2>9, <2>10 DEF CountInv, CountersExact
<1>12. CASE ~(MayLeave(c) /\ TellsParent(c))
    <2>1. \A m : Blocking(m)' = Blocking(m)
        BY <1>2, <1>4, <1>5, <1>6, <1>12 DEF Blocking, Children, TellsParent
    <2>2. FrameInv'
        BY <1>4, <1>5, <1>6, <1>10, <2>1 DEF CountInv, FrameInv
    <2>3. numBlocking' = numBlocking
        BY <1>2, <1>12
    <2> QED
        BY <1>2, <1>7, <1>8, <1>9, <2>1, <2>2, <2>3 DEF CountInv, CountersExact
<1> QED
    BY <1>11, <1>12

CountTypes == numChildren' \in [Task -> Nat] /\ numBlocking' \in [Task -> Nat] /\ numPending' \in Nat

\* Every step keeps the counters exact.
LEMMA CountStep ==
    ASSUME Types, PlaceInv, CountInv, NEW t \in Thread,
           Program(t) \/ Take(t) \/ Miss(t) \/ Runtime(t)
    PROVE  CountInv' /\ CountTypes
<1> DEFINE kept == UNCHANGED <<numChildren, numBlocking, numPending>>
<1>1. kept => CountTypes
    BY DEF CountTypes, Types
<1>2. Current(t) \in Thread \/ Current(t) \in Used
    BY Top DEF PlaceInv
<1>3. /\ SameClass("body", "waitTest") /\ SameClass("waitTake", "waitTest")
      /\ SameClass("waitTest", "body") /\ SameClass("waitTest", "waitTake")
      /\ SameClass("exitTake", "exitBlock") /\ SameClass("exitCheck", "exitBlock")
      /\ SameClass("returned", "finish") /\ "returned" \in Gone
      /\ {"waitTest", "exitBlock", "body", "waitTake"} \cap Gone = {}
      /\ AtBarrier \cap Gone = {}
    BY DEF SameClass, BodyOver, Uncounted, Gone, AtBarrier
<1>4. Current(t) = t => ~IsDeferred(Current(t))
    BY DEF IsDeferred, IsImplicit
<1>5. ASSUME kept, NEW l, Goes(t, l), Current(t) = t PROVE CountInv'
    BY <1>4, <1>5, GoesCounts
<1>6. ASSUME kept, NEW l, Goes(t, l), SameClass(pc[Current(t)], l), l \notin Gone \/ pc[Current(t)] \in Gone
      PROVE CountInv'
    BY <1>6, GoesCounts
<1>7. CASE Program(t)
    <2>1. CASE Wait(t)
        <3>1. Goes(t, "waitTest") /\ pc[Current(t)] = "body" /\ kept
            BY <2>1, Moves DEF Wait, At, countVars
        <3> QED
            BY <1>1, <1>3, <1>6, <3>1
    <2>2. CASE Exit(t)
        <3>1. CountInv' /\ numPending' \in Nat
            BY <2>2, ExitCounts
        <3>2. numChildren' = numChildren /\ numBlocking' = numBlocking
            BY <2>2 DEF Exit
        <3> QED
            BY <3>1, <3>2 DEF CountTypes, Types
    <2>3. CASE BarrierArrive(t)
        <3>1. Goes(t, "barrier") /\ Current(t) = t /\ kept
            BY <2>3, Moves DEF BarrierArrive, countVars
        <3> QED
            BY <1>1, <1>5, <3>1
    <2>4. CASE \E k \in Kinds : CreateDeferred(t, k)
        BY <2>4, CreateDeferredCounts DEF CountTypes
    <2>5. CASE \E k \in Kinds : CreateImmediate(t, k)
        <3>1. kept
            BY <2>5 DEF CreateImmediate, countVars
        <3> QED
            BY <1>1, <2>5, <3>1, CreateImmediateCounts
    <2> QED
        BY <1>7, <2>1, <2>2, <2>3, <2>4, <2>5 DEF Program
<1>8. CASE Take(t)
    <2>1. kept /\ UNCHANGED countVars
        BY <1>8 DEF Take, WaitTake, ExitTake, BarrierTake, TakeAndSwitch, countVars
    <2>2. \E n : \E l : Takes(t, n, l) /\ (IsDeferred(Current(t)) => SameClass(pc[Current(t)], l))
        <3>1. CASE WaitTake(t)
            BY <1>3, <3>1, Switches
        <3>2. CASE ExitTake(t)
            BY <1>3, <3>2, Switches
        <3>3. CASE BarrierTake(t)
            BY <1>4, <3>3, Switches
        <3> QED
            BY <1>8, <3>1, <3>2, <3>3 DEF Take
    <2> QED
        BY <1>1, <2>1, <2>2, TakesCounts
<1>9. CASE Miss(t)
    <2>1. kept
        BY <1>9 DEF Miss, WaitMiss, ExitMiss, RemoveMiss, countVars
    <2>2. CASE WaitMiss(t)
        <3>1. Goes(t, "waitTest") /\ pc[Current(t)] = "waitTake"
            BY <2>2, Moves DEF WaitMiss, At
        <3> QED
            BY <1>1, <1>3, <1>6, <2>1, <3>1
    <2>3. CASE ExitMiss(t)
        <3>1. Goes(t, "exitBlock") /\ pc[Current(t)] = "exitTake"
            BY <2>3, Moves DEF ExitMiss, At
        <3> QED
            BY <1>1, <1>3, <1>6, <2>1, <3>1
    <2> QED
        BY <1>9, <2>2, <2>3 DEF Miss
<1>10. CASE Runtime(t)
    <2>1. CASE Put(t) \/ PutFull(t)
        <3>1. kept
            BY <2>1 DEF Put, PutFull, countVars
        <3> QED
            BY <1>1, <2>1, <3>1, PutCounts
    <2>2. CASE WaitTest(t)
        <3>1. kept /\ pc[Current(t)] = "waitTest"
            BY <2>2 DEF WaitTest, At, countVars
        <3>2. PICK l : l \in {"body", "waitTake"} /\ Goes(t, l)
            BY <2>2, Moves
        <3>3. SameClass(pc[Current(t)], l) /\ l \notin Gone
            BY <1>3, <3>1, <3>2
        <3> QED
            BY <1>1, <1>6, <3>1, <3>2, <3>3
    <2>3. CASE ExitDec(t)
        <3>1. CountInv' /\ numChildren' \in [Task -> Nat]
            BY <2>3, ExitDecCounts
        <3>2. numPending' = numPending /\ numBlocking' = numBlocking
            BY <2>3 DEF ExitDec
        <3> QED
            BY <3>1, <3>2 DEF CountTypes, Types
    <2>4. CASE ExitCheck(t)
        <3>1. Goes(t, "exitBlock") /\ pc[Current(t)] = "exitCheck" /\ kept
            BY <2>4, Moves DEF ExitCheck, At, countVars
        <3> QED
            BY <1>1, <1>3, <1>6, <3>1
    <2>5. CASE ExitBlock(t)
        <3>1. CountInv' /\ numBlocking' \in [Task -> Nat]
            BY <2>5, ExitBlockCounts
        <3>2. numPending' = numPending /\ numChildren' = numChildren
            BY <2>5 DEF ExitBlock
        <3> QED
            BY <3>1, <3>2 DEF CountTypes, Types
    <2>6. CASE ReturnDelete(t) \/ MarkFinished(t)
        <3>1. kept /\ UNCHANGED countVars
            BY <2>6 DEF ReturnDelete, MarkFinished, PopTo, countVars
        <3> QED
            BY <1>1, <2>6, <3>1, Switches, ReturnsCounts
    <2>7. CASE ReturnKeep(t)
        <3>1. Goes(t, "finish") /\ pc[Current(t)] = "returned" /\ kept
            BY <2>7, Moves DEF ReturnKeep, At, countVars
        <3> QED
            BY <1>1, <1>3, <1>6, <3>1
    <2>8. CASE BarrierPass(t) \/ BarrierReset(t) \/ BarrierToggle(t) \/ BarrierLeave(t)
               \/ EndArrive(t) \/ EndPass(t) \/ MasterJoin(t)
        <3>1. kept
            BY <2>8 DEF BarrierPass, BarrierReset, BarrierToggle, BarrierLeave, EndArrive,
                        EndPass, MasterJoin, countVars
        <3>2. Current(t) = t /\ \E l : Goes(t, l)
            BY <2>8, Moves
        <3> QED
            BY <1>1, <1>5, <3>1, <3>2
    <2> QED
        BY <1>10, <2>1, <2>2, <2>3, <2>4, <2>5, <2>6, <2>7, <2>8 DEF Runtime
<1> QED
    BY <1>7, <1>8, <1>9, <1>10

\* ... and so does stuttering.
LEMMA CountStutter ==
    ASSUME CountInv, UNCHANGED vars
    PROVE  CountInv'
<1>1. /\ created' = created /\ kind' = kind /\ parent' = parent /\ pc' = pc
      /\ numChildren' = numChildren /\ numBlocking' = numBlocking /\ numPending' = numPending
    BY DEF vars, taskVars, countVars
<1>2. /\ Used' = Used /\ Pending' = Pending
      /\ \A c : Counted(c)' = Counted(c) /\ Blocking(c)' = Blocking(c)
    BY <1>1 DEF Used, Pending, Counted, Blocking, Children, IsDeferred, IsImplicit
<1> QED
    BY <1>1, <1>2 DEF CountInv, CountersExact, FrameInv

\* At first there is nothing to count.
LEMMA CountInit ==
    ASSUME Init
    PROVE  CountInv
<1>1. /\ Used = {} /\ numPending = 0
      /\ \A c \in Task : numChildren[c] = 0 /\ numBlocking[c] = 0
    BY DEF Init, Used
<1>2. Pending = {} /\ \A c : Counted(c) = {} /\ Blocking(c) = {}
    BY <1>1 DEF Pending, Counted, Blocking, Children
<1> QED
    BY <1>1, <1>2, FS_EmptySet DEF CountInv, CountersExact, FrameInv


-----------------------------------------------------------------------------
(* States, switching depths and the suspended tasks of a stack *)

\* Who is below the top of a stack is not the one on top.
LEMMA BelowTop ==
    ASSUME Types, PlaceInv, NEW t \in Thread, NEW u \in Thread, NEW i \in 1..(Len(stack[u]) - 1)
    PROVE  stack[u][i] \in Task /\ stack[u][i] # Current(t) /\ i \in 1..Len(stack[u])
<1>1. stack[u] \in Seq(Task) /\ i \in 1..Len(stack[u]) /\ i # Len(stack[u])
    BY DEF Types
<1> QED
    BY <1>1, Top DEF PlaceInv

\* Who is on a stack is an implicit task or one that has started.
LEMMA OnStack ==
    ASSUME Types, PlaceInv, NEW t \in Thread, NEW i \in 1..Len(stack[t])
    PROVE  /\ stack[t][i] \in Task /\ (stack[t][i] \in Thread \/ stack[t][i] \in Used)
           /\ \A n \in Explicit : pc[n] \notin OwnLabels => stack[t][i] # n
           /\ i \in Nat /\ i >= 1 /\ i <= Len(stack[t]) /\ Len(stack[t]) \in Nat
<1>1. stack[t] \in Seq(Task) /\ DOMAIN stack[t] = 1..Len(stack[t]) /\ Len(stack[t]) \in Nat
      /\ (i = 1 \/ i \in 2..Len(stack[t])) /\ i \in DOMAIN stack[t] /\ i \in Nat
    <2>1. stack[t] \in Seq(Task) /\ Len(stack[t]) \in Nat /\ DOMAIN stack[t] = 1..Len(stack[t])
        BY DEF Types
    <2> QED
        BY <2>1
<1>2. stack[t][i] \in Thread \/ stack[t][i] \in Used
    BY <1>1 DEF PlaceInv, StackInv
<1>3. stack[t][i] \in Used => pc[stack[t][i]] \in OwnLabels
    BY <1>1 DEF PlaceInv, StackInv, Within
<1> QED
    BY <1>1, <1>2, <1>3, Names

\* The stacks after a push.
LEMMA PushedStack ==
    ASSUME Types, PlaceInv, NEW t \in Thread, NEW n \in Explicit, NEW l \in Labels,
           pc[n] \notin OwnLabels, Pushes(t, n, l)
    PROVE  /\ \A u \in Thread \ {t} : stack'[u] = stack[u]
           /\ Len(stack'[t]) = Len(stack[t]) + 1 /\ Len(stack[t]) \in Nat
           /\ \A i \in 1..Len(stack[t]) : stack'[t][i] = stack[t][i]
           /\ stack'[t][Len(stack[t]) + 1] = n
<1>1. /\ stack \in [Thread -> Seq(Task)] /\ Once(stack) /\ n \in Task /\ ~Within(n, stack)
      /\ stack' = Enqueued(stack, t, n)
    BY PushPc, Names DEF Types, PlaceInv, StackInv, Pushes, Enqueued
<1>2. Grown(Task, stack, stack', t, n)
    BY <1>1, PutLast, Zenon
<1>3. Len(stack[t]) \in Nat
    BY DEF Types
<1> QED
    BY <1>2, <1>3 DEF Grown

\* The stacks after a pop.
LEMMA PoppedStack ==
    ASSUME Types, PlaceInv, NEW t \in Thread, Pops(t)
    PROVE  /\ \A u \in Thread \ {t} : stack'[u] = stack[u]
           /\ Len(stack'[t]) = Len(stack[t]) - 1 /\ Len(stack[t]) \in Nat
           /\ \A i \in 1..(Len(stack[t]) - 1) : stack'[t][i] = stack[t][i]
<1>1. /\ stack \in [Thread -> Seq(Task)] /\ Once(stack) /\ stack[t] # <<>>
      /\ stack' = TakeFrom(stack, t, "tail")
    BY DEF Types, PlaceInv, StackInv, Pops, TakeFrom
<1>2. Shrunk(Task, stack, stack', t, Last(stack[t])) /\ KeptFront(stack, stack', t)
    BY <1>1, TakeLast, Zenon
<1>3. Len(stack[t]) \in Nat
    BY DEF Types
<1> QED
    BY <1>2, <1>3 DEF Shrunk, KeptFront

RunTypes == /\ state' \in [Task -> States] /\ suspended' \in [Thread -> Nat]
            /\ sdepth' \in [Task -> Nat]

\* States after a task has gone on.
LEMMA GoesState ==
    ASSUME Types, PlaceInv, StateInv, NEW t \in Thread, NEW l, Goes(t, l), NEW s \in States,
           state' = [state EXCEPT ![Current(t)] = s],
           s = "WAITING" => l \in {"waitTest", "waitTake"},
           s = "IN_BARRIER" <=> Current(t) \in Thread /\ l \in AtBarrier
    PROVE  StateInv' /\ state' \in [Task -> States]
<1>1. /\ \A c \in Task : pc'[c] = IF c = Current(t) THEN l ELSE pc[c]
      /\ Current(t) \in Task /\ state \in [Task -> States]
    BY StayPc, Top DEF Goes, PlaceInv, Types
<1>2. \A c \in Task : state'[c] = IF c = Current(t) THEN s ELSE state[c]
    BY <1>1
<1>3. state' \in [Task -> States]
    BY <1>1
<1> QED
    BY <1>1, <1>2, <1>3 DEF StateInv, InBarrier

\* A task that goes on leaves the suspended ones as they are.
LEMMA GoesRun ==
    ASSUME Types, PlaceInv, RunInv, NEW t \in Thread, NEW l, Goes(t, l), sdepth' = sdepth,
           \A c \in Task \ {Current(t)} : state'[c] = state[c],
           suspended' = suspended \/ (Current(t) = t /\ suspended' = [suspended EXCEPT ![t] = 0])
    PROVE  /\ SuspendInv' /\ DepthInv' /\ CreatorInv'
           /\ suspended' \in [Thread -> Nat] /\ sdepth' \in [Task -> Nat]
<1>1. /\ stack' = stack /\ Used' = Used /\ kind' = kind
      /\ \A c \in Task : pc'[c] = IF c = Current(t) THEN l ELSE pc[c]
      /\ \A c : (IsDeferred(c)' <=> IsDeferred(c)) /\ (IsTied(c)' <=> IsTied(c))
    BY StayPc DEF Goes, Stays, PlaceInv, SameTasks, Used, IsDeferred, IsTied, IsImplicit
<1>2. \A u \in Thread : Suspended(u)' = Suspended(u)
    <2>1. ASSUME NEW u \in Thread, NEW i \in 1..(Len(stack[u]) - 1)
          PROVE  Suspends(stack[u][i])' <=> Suspends(stack[u][i])
        <3>1. stack[u][i] \in Task /\ stack[u][i] # Current(t)
            BY BelowTop
        <3> QED
            BY <1>1, <3>1 DEF Suspends, InBarrier
    <2> QED
        BY <1>1, <2>1 DEF Suspended
<1>3. SuspendInv' /\ suspended' \in [Thread -> Nat]
    <2>1. CASE suspended' = suspended
        BY <1>2, <2>1 DEF SuspendInv, RunInv, Types
    <2>2. CASE Current(t) = t /\ suspended' = [suspended EXCEPT ![t] = 0]
        <3>1. Len(stack[t]) = 1
            BY <2>2, Top DEF PlaceInv
        <3>2. Suspended(t) = {}
            BY <3>1 DEF Suspended
        <3>3. Cardinality(Suspended(t)') = 0
            BY <1>2, <3>2, FS_EmptySet
        <3> QED
            BY <1>2, <2>2, <3>3 DEF SuspendInv, RunInv, Types
    <2> QED
        BY <2>1, <2>2
<1>4. DepthInv'
    BY <1>1 DEF RunInv, DepthInv
<1>5. CreatorInv'
    <2>1. ASSUME NEW u \in Thread, NEW i \in 1..Len(stack[u])
          PROVE  \/ IsImplicit(stack[u][i]) \/ IsDeferred(stack[u][i])
                 \/ \E j \in 1..(i - 1) :
                      /\ pc'[stack[u][j]] = "createReturn"
                      /\ IsImplicit(stack[u][j]) \/ IsDeferred(stack[u][j])
        <3>1. ASSUME NEW j \in 1..(i - 1) PROVE pc'[stack[u][j]] = pc[stack[u][j]]
            <4>1. j \in 1..(Len(stack[u]) - 1)
                BY OnStack
            <4> QED
                BY <1>1, <4>1, BelowTop
        <3> QED
            BY <3>1 DEF RunInv, CreatorInv
    <2> QED
        BY <1>1, <2>1 DEF CreatorInv, IsImplicit
<1> QED
    BY <1>3, <1>4, <1>5 DEF Types

\* A sequence of different tasks is no longer than there are tasks.
LEMMA ShortStack ==
    ASSUME NEW s \in Seq(Task), \A i, j \in 1..Len(s) : s[i] = s[j] => i = j,
           \A i \in 2..Len(s) : s[i] \in Explicit
    PROVE  Len(s) <= MaxTasks + 1
<1>1. SUFFICES ASSUME Len(s) > MaxTasks + 1 PROVE FALSE
    BY Names
<1>2. Len(s) \in Nat /\ MaxTasks \in Nat
    BY Names
<1>3. IsFiniteSet(Explicit) /\ Cardinality(Explicit) = MaxTasks
    <2>1. Cardinality(1..MaxTasks) = MaxTasks /\ IsFiniteSet(1..MaxTasks)
        BY Names, FS_Interval
    <2> QED
        BY <2>1 DEF Explicit
<1>4. IsFiniteSet(2..Len(s)) /\ Cardinality(2..Len(s)) = Len(s) - 1
    <2>1. IsFiniteSet(2..Len(s)) /\ Cardinality(2..Len(s)) = IF 2 > Len(s) THEN 0 ELSE Len(s) - 2 + 1
        BY <1>2, FS_Interval
    <2> QED
        BY <1>1, <1>2, <2>1
<1>5. Cardinality(Explicit) < Cardinality(2..Len(s))
    BY <1>1, <1>2, <1>3, <1>4
<1> DEFINE f == [i \in 2..Len(s) |-> s[i]]
<1>6. f \in [2..Len(s) -> Explicit]
    OBVIOUS
<1> HIDE DEF f
<1>7. \E i, j \in 2..Len(s) : i # j /\ f[i] = f[j]
    BY <1>3, <1>4, <1>5, <1>6, FS_PigeonHole, Zenon
<1>8. PICK i \in 2..Len(s), j \in 2..Len(s) : i # j /\ f[i] = f[j]
    BY <1>7
<1>9. s[i] = s[j] /\ i \in 1..Len(s) /\ j \in 1..Len(s)
    BY <1>2, <1>8 DEF f
<1> QED
    BY <1>8, <1>9

\* ... so a call stack has at most one place for each.
LEMMA StackLength ==
    ASSUME Types, PlaceInv, NEW t \in Thread
    PROVE  Len(stack[t]) \in 1..(MaxTasks + 1)
<1>1. stack[t] \in Seq(Task) /\ DOMAIN stack[t] = 1..Len(stack[t]) /\ Len(stack[t]) \in Nat \ {0}
    BY Top DEF PlaceInv
<1>2. \A i, j \in 1..Len(stack[t]) : stack[t][i] = stack[t][j] => i = j
    BY <1>1 DEF PlaceInv, StackInv, Once
<1>3. \A i \in 2..Len(stack[t]) : stack[t][i] \in Explicit
    BY UsedTasks DEF PlaceInv, StackInv
<1>4. Len(stack[t]) <= MaxTasks + 1
    BY <1>1, <1>2, <1>3, ShortStack
<1> QED
    BY <1>1, <1>4, Names

\* a task that is on no stack yet still finds room
LEMMA StackRoom ==
    ASSUME Types, PlaceInv, NEW t \in Thread, NEW n \in Explicit, pc[n] \notin OwnLabels
    PROVE  Len(stack[t]) <= MaxTasks
<1> DEFINE s == Append(stack[t], n)
<1>1. stack[t] \in Seq(Task) /\ DOMAIN stack[t] = 1..Len(stack[t]) /\ Len(stack[t]) \in Nat
      /\ n \in Task
    BY Names DEF Types
<1>2. s \in Seq(Task) /\ Len(s) = Len(stack[t]) + 1 /\ s[Len(stack[t]) + 1] = n
      /\ \A i \in 1..Len(stack[t]) : s[i] = stack[t][i]
    BY <1>1
<1> HIDE DEF s
<1>3. \A i \in 1..Len(s) : i \in 1..Len(stack[t]) \/ i = Len(stack[t]) + 1
    BY <1>1, <1>2
<1>4. \A i, j \in 1..Len(stack[t]) : stack[t][i] = stack[t][j] => i = j
    BY <1>1 DEF PlaceInv, StackInv, Once
<1>5. \A i \in 1..Len(stack[t]) : stack[t][i] # n
    BY OnStack
<1>6. \A i, j \in 1..Len(s) : s[i] = s[j] => i = j
    BY <1>2, <1>3, <1>4, <1>5
<1>7. \A i \in 2..Len(s) : s[i] \in Explicit
    <2>1. \A i \in 2..Len(stack[t]) : stack[t][i] \in Explicit
        BY UsedTasks DEF PlaceInv, StackInv
    <2>2. \A i \in 2..Len(s) : i \in 2..Len(stack[t]) \/ i = Len(stack[t]) + 1
        BY <1>1, <1>2
    <2>3. \A i \in 2..Len(stack[t]) : i \in 1..Len(stack[t])
        BY <1>1
    <2> QED
        BY <1>2, <2>1, <2>2, <2>3
<1>8. Len(s) <= MaxTasks + 1
    BY <1>2, <1>6, <1>7, ShortStack
<1> QED
    BY <1>1, <1>2, <1>8, Names

\* the same tests on given flags and states, so as to compare two moments
SuspendsIn(k, s, c) == (c \in Thread \/ k[c].tied) /\ s[c] # "IN_BARRIER"
SuspendedIn(k, s, f) == {i \in 1..(Len(f) - 1) : SuspendsIn(k, s, f[i])}
DeferredIn(k, c) == c \notin Thread /\ k[c].mayDelay
CreatedIn(k, p, f) ==
    \A i \in 1..Len(f) :
        \/ f[i] \in Thread \/ DeferredIn(k, f[i])
        \/ \E j \in 1..(i - 1) : /\ p[f[j]] = "createReturn"
                                 /\ f[j] \in Thread \/ DeferredIn(k, f[j])

\* The parts of the invariant, as operators of one stack.
LEMMA SuspendedAs ==
    /\ \A c : Suspends(c) <=> SuspendsIn(kind, state, c)
    /\ \A u : Suspended(u) = SuspendedIn(kind, state, stack[u])
    /\ \A u : Suspended(u)' = SuspendedIn(kind', state', stack'[u])
    /\ CreatorInv <=> \A u \in Thread : CreatedIn(kind, pc, stack[u])
    /\ CreatorInv' <=> \A u \in Thread : CreatedIn(kind', pc', stack'[u])
<1>1. \A c : Suspends(c) <=> SuspendsIn(kind, state, c)
    BY DEF Suspends, IsTied, IsImplicit, InBarrier, SuspendsIn
<1>2. \A u : Suspended(u) = SuspendedIn(kind, state, stack[u])
    BY <1>1 DEF Suspended, SuspendedIn
<1>3. \A u : Suspended(u)' = SuspendedIn(kind', state', stack'[u])
    BY DEF Suspends, IsTied, IsImplicit, InBarrier, SuspendsIn, Suspended, SuspendedIn
<1>4. CreatorInv <=> \A u \in Thread : CreatedIn(kind, pc, stack[u])
    BY DEF CreatorInv, CreatedIn, IsImplicit, IsDeferred, DeferredIn
<1>5. CreatorInv' <=> \A u \in Thread : CreatedIn(kind', pc', stack'[u])
    BY DEF CreatorInv, CreatedIn, IsImplicit, IsDeferred, DeferredIn
<1> QED
    BY <1>1, <1>2, <1>3, <1>4, <1>5

\* A push counts the task below if it suspends (omp_task.c:290-299).
LEMMA PushRun ==
    ASSUME Types, PlaceInv, RunInv, NEW t \in Thread, NEW n \in Explicit, NEW l \in Labels,
           pc[n] \notin OwnLabels, Pushes(t, n, l),
           Used' = Used \cup {n}, \A m \in Used \ {n} : kind'[m] = kind[m],
           \A m \in Task \ {n} : state'[m] = "IN_BARRIER" <=> state[m] = "IN_BARRIER",
           suspended' = [suspended EXCEPT ![t] = IF Suspends(Current(t)) THEN @ + 1 ELSE @],
           sdepth'[n] \in 0..Len(stack[t]), \A m \in Task \ {n} : sdepth'[m] = sdepth[m],
           kind'[n].mayDelay \/ l = "createReturn"
    PROVE  SuspendInv' /\ DepthInv' /\ CreatorInv' /\ suspended' \in [Thread -> Nat]
<1>1. /\ \A u \in Thread \ {t} : stack'[u] = stack[u]
      /\ Len(stack'[t]) = Len(stack[t]) + 1 /\ Len(stack[t]) \in Nat \ {0}
      /\ \A i \in 1..Len(stack[t]) : stack'[t][i] = stack[t][i]
      /\ stack'[t][Len(stack[t]) + 1] = n
    BY PushedStack, Top DEF PlaceInv
<1>2. /\ Current(t) = stack[t][Len(stack[t])] /\ n # Current(t) /\ n \in Task /\ n \notin Thread
      /\ \A c \in Task : pc'[c] = IF c = n THEN "body" ELSE IF c = Current(t) THEN l ELSE pc[c]
    BY PushPc, Top, Names DEF PlaceInv
<1>3. ASSUME NEW u \in Thread, NEW i \in 1..Len(stack[u])
      PROVE  /\ stack[u][i] \in Task /\ stack[u][i] # n
             /\ SuspendsIn(kind', state', stack[u][i]) <=> SuspendsIn(kind, state, stack[u][i])
             /\ DeferredIn(kind', stack[u][i]) <=> DeferredIn(kind, stack[u][i])
    <2>1. /\ stack[u][i] \in Task /\ stack[u][i] # n
          /\ stack[u][i] \in Thread \/ stack[u][i] \in Used
        BY OnStack
    <2> QED
        BY <2>1 DEF SuspendsIn, DeferredIn
<1>4. SuspendInv' /\ suspended' \in [Thread -> Nat]
    <2>1. ASSUME NEW u \in Thread \ {t} PROVE Suspended(u)' = Suspended(u)
        <3>1. \A i \in 1..(Len(stack[u]) - 1) :
                 SuspendsIn(kind', state', stack[u][i]) <=> SuspendsIn(kind, state, stack[u][i])
            BY <1>3, BelowTop
        <3>2. stack'[u] = stack[u]
            BY <1>1
        <3>3. SuspendedIn(kind', state', stack'[u]) = SuspendedIn(kind, state, stack[u])
            BY <3>1, <3>2 DEF SuspendedIn
        <3> QED
            BY <3>3, SuspendedAs
    <2>2. Suspended(t)' = {i \in 1..Len(stack[t]) : SuspendsIn(kind, state, stack[t][i])}
        <3>1. 1..(Len(stack'[t]) - 1) = 1..Len(stack[t])
            BY <1>1
        <3>2. SuspendedIn(kind', state', stack'[t]) =
                  {i \in 1..Len(stack[t]) : SuspendsIn(kind, state, stack[t][i])}
            BY <1>1, <1>3, <3>1 DEF SuspendedIn
        <3> QED
            BY <3>2, SuspendedAs
    <2>3. 1..Len(stack[t]) = (1..(Len(stack[t]) - 1)) \cup {Len(stack[t])}
        BY <1>1
    <2>4. Suspended(t) = {i \in 1..(Len(stack[t]) - 1) : SuspendsIn(kind, state, stack[t][i])}
        BY SuspendedAs DEF SuspendedIn
    <2>5. Suspends(Current(t)) <=> SuspendsIn(kind, state, stack[t][Len(stack[t])])
        BY <1>2, SuspendedAs
    <2>6. Len(stack[t]) \notin Suspended(t) /\ IsFiniteSet(Suspended(t))
        <3>0. Len(stack[t]) - 1 \in Int /\ 1 \in Int
            BY <1>1
        <3>1. IsFiniteSet(1..(Len(stack[t]) - 1)) /\ Suspended(t) \in SUBSET (1..(Len(stack[t]) - 1))
            <4>1. IsFiniteSet(1..(Len(stack[t]) - 1))
                BY <3>0, FS_Interval
            <4> QED
                BY <4>1 DEF Suspended
        <3> QED
            BY <1>1, <3>1, FS_Subset
    <2>7. /\ suspended \in [Thread -> Nat] /\ \A u \in Thread : suspended[u] = Cardinality(Suspended(u))
        BY DEF Types, RunInv, SuspendInv
    <2>8. CASE Suspends(Current(t))
        <3>1. Suspended(t)' = Suspended(t) \cup {Len(stack[t])}
            BY <2>2, <2>3, <2>4, <2>5, <2>8
        <3>2. Cardinality(Suspended(t)') = Cardinality(Suspended(t)) + 1
            BY <2>6, <3>1, OneMoreMember
        <3>3. suspended' = [suspended EXCEPT ![t] = @ + 1]
            BY <2>8
        <3> QED
            BY <2>1, <2>7, <3>2, <3>3 DEF SuspendInv
    <2>9. CASE ~Suspends(Current(t))
        <3>1. Suspended(t)' = Suspended(t)
            BY <2>2, <2>3, <2>4, <2>5, <2>9
        <3>2. suspended' = suspended
            BY <2>7, <2>9
        <3> QED
            BY <2>1, <2>7, <3>1, <3>2 DEF SuspendInv
    <2> QED
        BY <2>8, <2>9
<1>5. DepthInv'
    <2>1. \A u \in Thread : \A i \in 1..Len(stack[u]) : sdepth'[stack[u][i]] < i
        BY <1>3 DEF RunInv, DepthInv
    <2>2. \A i \in 1..Len(stack'[t]) : i \in 1..Len(stack[t]) \/ i = Len(stack[t]) + 1
        BY <1>1
    <2>3. sdepth'[n] < Len(stack[t]) + 1
        BY <1>1
    <2>4. \A u \in Thread : \A i \in 1..Len(stack'[u]) : sdepth'[stack'[u][i]] < i
        <3>1. ASSUME NEW u \in Thread, NEW i \in 1..Len(stack'[u]) PROVE sdepth'[stack'[u][i]] < i
            <4>1. CASE u = t
                BY <1>1, <2>1, <2>2, <2>3, <4>1
            <4>2. CASE u # t
                <5>1. stack'[u] = stack[u]
                    BY <1>1, <4>2
                <5> QED
                    BY <2>1, <5>1
            <4> QED
                BY <4>1, <4>2
        <3> QED
            BY <3>1
    <2>5. sdepth'[n] <= MaxTasks
        BY <1>1, StackRoom, Names
    <2>6. \A m \in Explicit : sdepth'[m] <= MaxTasks
        BY <2>5, Names DEF RunInv, DepthInv
    <2>7. \A m \in Explicit \ Used' : sdepth'[m] = 0
        BY Names DEF RunInv, DepthInv
    <2> QED
        BY <2>4, <2>6, <2>7 DEF DepthInv
<1>6. \A u \in Thread : CreatedIn(kind, pc, stack[u])
    BY SuspendedAs DEF RunInv
<1>7. ASSUME NEW u \in Thread, NEW j \in 1..(Len(stack[u]) - 1)
      PROVE  pc'[stack[u][j]] = pc[stack[u][j]] /\ j \in 1..Len(stack[u])
    <2>1. j \in 1..Len(stack[u]) /\ stack[u][j] \in Task /\ stack[u][j] # Current(t)
        BY BelowTop
    <2> QED
        BY <1>2, <1>3, <2>1
<1>8. ASSUME NEW u \in Thread PROVE CreatedIn(kind', pc', stack[u])
    <2>1. \A i \in 1..Len(stack[u]) : \A j \in 1..(i - 1) : j \in 1..(Len(stack[u]) - 1)
        <3>1. Len(stack[u]) \in Nat
            BY DEF Types
        <3> QED
            BY <3>1
    <2>2. ASSUME NEW i \in 1..Len(stack[u])
          PROVE  \/ stack[u][i] \in Thread \/ DeferredIn(kind', stack[u][i])
                 \/ \E j \in 1..(i - 1) :
                      /\ pc'[stack[u][j]] = "createReturn"
                      /\ stack[u][j] \in Thread \/ DeferredIn(kind', stack[u][j])
        <3>1. \A j \in 1..(i - 1) :
                 /\ pc'[stack[u][j]] = pc[stack[u][j]]
                 /\ DeferredIn(kind', stack[u][j]) <=> DeferredIn(kind, stack[u][j])
            BY <1>3, <1>7, <2>1
        <3>2. DeferredIn(kind', stack[u][i]) <=> DeferredIn(kind, stack[u][i])
            BY <1>3
        <3> QED
            BY <1>6, <3>1, <3>2 DEF CreatedIn
    <2> QED
        BY <2>2 DEF CreatedIn
<1>9. CreatedIn(kind', pc', stack'[t])
    <2>1. ASSUME NEW i \in 1..Len(stack'[t])
          PROVE  \/ stack'[t][i] \in Thread \/ DeferredIn(kind', stack'[t][i])
                 \/ \E j \in 1..(i - 1) :
                      /\ pc'[stack'[t][j]] = "createReturn"
                      /\ stack'[t][j] \in Thread \/ DeferredIn(kind', stack'[t][j])
        <3>1. CASE i \in 1..Len(stack[t])
            <4>1. \A j \in 1..(i - 1) : j \in 1..Len(stack[t])
                BY <1>1, <3>1
            <4>2. \/ stack[t][i] \in Thread \/ DeferredIn(kind', stack[t][i])
                  \/ \E j \in 1..(i - 1) :
                      /\ pc'[stack[t][j]] = "createReturn"
                      /\ stack[t][j] \in Thread \/ DeferredIn(kind', stack[t][j])
                BY <1>8, <3>1 DEF CreatedIn
            <4> QED
                BY <1>1, <3>1, <4>1, <4>2
        <3>2. CASE i = Len(stack[t]) + 1
            <4>1. CASE kind'[n].mayDelay
                BY <1>1, <1>2, <3>2, <4>1 DEF DeferredIn
            <4>2. CASE l = "createReturn"
                <5>1. Len(stack[t]) \in 1..Len(stack[t]) /\ Len(stack[t]) \in 1..(i - 1)
                    BY <1>1, <3>2
                <5>2. pc'[stack[t][Len(stack[t])]] = "createReturn"
                    BY <1>2, <1>3, <4>2, <5>1
                <5>3. \A j \in 1..(Len(stack[t]) - 1) : j \in 1..(i - 1) /\ j \in 1..Len(stack[t])
                    BY <1>1, <3>2
                <5>4. \/ stack[t][Len(stack[t])] \in Thread \/ DeferredIn(kind', stack[t][Len(stack[t])])
                      \/ \E j \in 1..(Len(stack[t]) - 1) :
                          /\ pc'[stack[t][j]] = "createReturn"
                          /\ stack[t][j] \in Thread \/ DeferredIn(kind', stack[t][j])
                    BY <1>8, <5>1 DEF CreatedIn
                <5> QED
                    BY <1>1, <5>1, <5>2, <5>3, <5>4
            <4> QED
                BY <4>1, <4>2
        <3> QED
            BY <1>1, <3>1, <3>2
    <2> QED
        BY <2>1 DEF CreatedIn
<1>10. CreatorInv'
    <2>1. \A u \in Thread : CreatedIn(kind', pc', stack'[u])
        BY <1>1, <1>8, <1>9
    <2> QED
        BY <2>1, SuspendedAs
<1> QED
    BY <1>4, <1>5, <1>10

\* A pop takes it off the count again.
LEMMA PopRun ==
    ASSUME Types, PlaceInv, RunInv, NEW t \in Thread, Returns(t),
           suspended' = [suspended EXCEPT ![t] = IF Suspends(Under(t)) THEN @ - 1 ELSE @],
           \A m \in Task \ {Current(t)} : state'[m] = "IN_BARRIER" <=> state[m] = "IN_BARRIER",
           sdepth' = sdepth
    PROVE  SuspendInv' /\ DepthInv' /\ CreatorInv' /\ suspended' \in [Thread -> Nat]
<1>1. /\ \A u \in Thread \ {t} : stack'[u] = stack[u]
      /\ Len(stack'[t]) = Len(stack[t]) - 1 /\ Len(stack[t]) \in Nat /\ Len(stack[t]) > 1
      /\ \A i \in 1..(Len(stack[t]) - 1) : stack'[t][i] = stack[t][i]
      /\ Under(t) = stack[t][Len(stack[t]) - 1]
      /\ \A c \in Task :
           pc'[c] = IF c = Current(t) THEN "done"
                    ELSE IF c = Under(t) /\ pc[c] = "createReturn" THEN "body" ELSE pc[c]
    BY PoppedStack, PopPc DEF PlaceInv, Returns, Under
<1>2. kind' = kind /\ Used' = Used
    BY DEF Returns, SameTasks, Used
<1>3. ASSUME NEW u \in Thread, NEW i \in 1..(Len(stack[u]) - 1)
      PROVE  /\ SuspendsIn(kind', state', stack[u][i]) <=> SuspendsIn(kind, state, stack[u][i])
             /\ u # t \/ i # Len(stack[t]) - 1 => pc'[stack[u][i]] = pc[stack[u][i]]
    <2>1. stack[u][i] \in Task /\ stack[u][i] # Current(t) /\ i \in 1..Len(stack[u])
        BY BelowTop
    <2>2. u # t \/ i # Len(stack[t]) - 1 => stack[u][i] # Under(t)
        <3>1. Len(stack[t]) - 1 \in DOMAIN stack[t] /\ i \in DOMAIN stack[u]
            <4>1. DOMAIN stack[u] = 1..Len(stack[u]) /\ DOMAIN stack[t] = 1..Len(stack[t])
                BY DEF Types
            <4> QED
                BY <1>1, <2>1, <4>1
        <3> QED
            BY <1>1, <3>1 DEF PlaceInv, StackInv, Once
    <2> QED
        BY <1>1, <1>2, <2>1, <2>2 DEF SuspendsIn
<1>4. SuspendInv' /\ suspended' \in [Thread -> Nat]
    <2>1. ASSUME NEW u \in Thread \ {t} PROVE Suspended(u)' = Suspended(u)
        <3>1. stack'[u] = stack[u]
            BY <1>1
        <3>2. SuspendedIn(kind', state', stack'[u]) = SuspendedIn(kind, state, stack[u])
            BY <1>3, <3>1 DEF SuspendedIn
        <3> QED
            BY <3>2, SuspendedAs
    <2>2. Suspended(t)' = {i \in 1..(Len(stack[t]) - 2) : SuspendsIn(kind, state, stack[t][i])}
        <3>1. /\ 1..(Len(stack'[t]) - 1) = 1..(Len(stack[t]) - 2)
              /\ \A i \in 1..(Len(stack[t]) - 2) : i \in 1..(Len(stack[t]) - 1)
            BY <1>1
        <3>2. SuspendedIn(kind', state', stack'[t]) =
                  {i \in 1..(Len(stack[t]) - 2) : SuspendsIn(kind, state, stack[t][i])}
            BY <1>1, <1>3, <3>1 DEF SuspendedIn
        <3> QED
            BY <3>2, SuspendedAs
    <2>3. /\ 1..(Len(stack[t]) - 1) = (1..(Len(stack[t]) - 2)) \cup {Len(stack[t]) - 1}
          /\ Len(stack[t]) - 1 \notin 1..(Len(stack[t]) - 2)
        BY <1>1
    <2>4. Suspended(t) = {i \in 1..(Len(stack[t]) - 1) : SuspendsIn(kind, state, stack[t][i])}
        BY SuspendedAs DEF SuspendedIn
    <2>5. Suspends(Under(t)) <=> SuspendsIn(kind, state, stack[t][Len(stack[t]) - 1])
        BY <1>1, SuspendedAs
    <2>6. IsFiniteSet(Suspended(t))
        <3>0. Len(stack[t]) - 1 \in Int /\ 1 \in Int
            BY <1>1
        <3>1. IsFiniteSet(1..(Len(stack[t]) - 1)) /\ Suspended(t) \in SUBSET (1..(Len(stack[t]) - 1))
            <4>1. IsFiniteSet(1..(Len(stack[t]) - 1))
                BY <3>0, FS_Interval
            <4> QED
                BY <4>1 DEF Suspended
        <3> QED
            BY <3>1, FS_Subset
    <2>7. /\ suspended \in [Thread -> Nat] /\ \A u \in Thread : suspended[u] = Cardinality(Suspended(u))
        BY DEF Types, RunInv, SuspendInv
    <2>8. CASE Suspends(Under(t))
        <3>1. Suspended(t)' = Suspended(t) \ {Len(stack[t]) - 1} /\ Len(stack[t]) - 1 \in Suspended(t)
            BY <2>2, <2>3, <2>4, <2>5, <2>8
        <3>2. Cardinality(Suspended(t)') = Cardinality(Suspended(t)) - 1 /\ Cardinality(Suspended(t)) \in Nat \ {0}
            BY <2>6, <3>1, OneMemberLess
        <3>3. suspended' = [suspended EXCEPT ![t] = @ - 1]
            BY <2>8
        <3>4. suspended[t] - 1 \in Nat
            BY <2>7, <3>2
        <3> QED
            BY <2>1, <2>7, <3>2, <3>3, <3>4 DEF SuspendInv
    <2>9. CASE ~Suspends(Under(t))
        <3>1. Suspended(t)' = Suspended(t)
            BY <2>2, <2>3, <2>4, <2>5, <2>9
        <3>2. suspended' = suspended
            BY <2>7, <2>9
        <3> QED
            BY <2>1, <2>7, <3>1, <3>2 DEF SuspendInv
    <2> QED
        BY <2>8, <2>9
<1>5. DepthInv'
    <2>1. \A i \in 1..Len(stack'[t]) : i \in 1..(Len(stack[t]) - 1) /\ i \in 1..Len(stack[t])
        BY <1>1
    <2>2. \A u \in Thread : \A i \in 1..Len(stack'[u]) : i \in 1..Len(stack[u]) /\ stack'[u][i] = stack[u][i]
        BY <1>1, <2>1
    <2> QED
        BY <1>2, <2>2 DEF DepthInv, RunInv
<1>6. ASSUME NEW u \in Thread PROVE CreatedIn(kind', pc', stack'[u])
    <2>1. CreatedIn(kind, pc, stack[u])
        BY SuspendedAs DEF RunInv
    <2>2. ASSUME NEW i \in 1..Len(stack'[u])
          PROVE  /\ i \in 1..Len(stack[u]) /\ stack'[u][i] = stack[u][i]
                 /\ \A j \in 1..(i - 1) : /\ stack'[u][j] = stack[u][j]
                                          /\ pc'[stack[u][j]] = pc[stack[u][j]]
        <3>1. Len(stack[u]) \in Nat
            BY DEF Types
        <3>2. /\ i \in 1..Len(stack[u]) /\ stack'[u][i] = stack[u][i]
              /\ \A j \in 1..(i - 1) : /\ j \in 1..(Len(stack[u]) - 1) /\ stack'[u][j] = stack[u][j]
                                       /\ u # t \/ j # Len(stack[t]) - 1
            <4>1. CASE u = t
                BY <1>1, <4>1
            <4>2. CASE u # t
                BY <1>1, <3>1, <4>2
            <4> QED
                BY <4>1, <4>2
        <3> QED
            BY <1>3, <3>2
    <2> QED
        BY <1>2, <2>1, <2>2 DEF CreatedIn
<1> QED
    BY <1>4, <1>5, <1>6, SuspendedAs

\* a task is made known, or is enqueued: the stacks and the states do not change
LEMMA SameStackRun ==
    ASSUME Types, PlaceInv, RunInv, NEW t \in Thread, NEW n \in Explicit, pc[n] \notin OwnLabels,
           stack' = stack, suspended' = suspended, sdepth' = sdepth, state' = state,
           \A m \in Task \ {n, Current(t)} : pc'[m] = pc[m],
           pc[Current(t)] \in {"body", "put"}, pc'[Current(t)] \in {"body", "put"},
           pc[n] \in {"unused", "created"}, pc'[n] \in {"created", "queued"},
           Used \subseteq Used', \A m \in Used : kind'[m] = kind[m]
    PROVE  RunInv' /\ RunTypes
<1>1. ASSUME NEW u \in Thread, NEW i \in 1..Len(stack[u])
      PROVE  /\ SuspendsIn(kind', state', stack[u][i]) <=> SuspendsIn(kind, state, stack[u][i])
             /\ DeferredIn(kind', stack[u][i]) <=> DeferredIn(kind, stack[u][i])
             /\ stack[u][i] # n /\ stack[u][i] \in Task
    <2>1. /\ stack[u][i] \in Task /\ stack[u][i] # n
          /\ stack[u][i] \in Thread \/ stack[u][i] \in Used
        BY OnStack
    <2> QED
        BY <2>1 DEF SuspendsIn, DeferredIn
<1>2. ASSUME NEW u \in Thread, NEW j \in 1..(Len(stack[u]) - 1)
      PROVE  pc'[stack[u][j]] = pc[stack[u][j]] /\ j \in 1..Len(stack[u])
    <2>1. j \in 1..Len(stack[u]) /\ stack[u][j] \in Task /\ stack[u][j] # Current(t)
        BY BelowTop
    <2> QED
        BY <1>1, <2>1
<1>3. SuspendInv'
    <2>1. ASSUME NEW u \in Thread PROVE Suspended(u)' = Suspended(u)
        <3>1. SuspendedIn(kind', state', stack'[u]) = SuspendedIn(kind, state, stack[u])
            BY <1>1, <1>2 DEF SuspendedIn
        <3> QED
            BY <3>1, SuspendedAs
    <2> QED
        BY <2>1 DEF SuspendInv, RunInv
<1>4. DepthInv'
    BY DEF DepthInv, RunInv
<1>5. CreatorInv'
    <2>1. ASSUME NEW u \in Thread PROVE CreatedIn(kind', pc', stack'[u])
        <3>1. CreatedIn(kind, pc, stack[u])
            BY SuspendedAs DEF RunInv
        <3>2. ASSUME NEW i \in 1..Len(stack[u])
              PROVE  \/ stack[u][i] \in Thread \/ DeferredIn(kind', stack[u][i])
                     \/ \E j \in 1..(i - 1) :
                          /\ pc'[stack[u][j]] = "createReturn"
                          /\ stack[u][j] \in Thread \/ DeferredIn(kind', stack[u][j])
            <4>1. \A j \in 1..(i - 1) : j \in 1..(Len(stack[u]) - 1)
                <5>1. Len(stack[u]) \in Nat
                    BY DEF Types
                <5> QED
                    BY <5>1
            <4>2. \A j \in 1..(i - 1) :
                     /\ pc'[stack[u][j]] = pc[stack[u][j]]
                     /\ DeferredIn(kind', stack[u][j]) <=> DeferredIn(kind, stack[u][j])
                BY <1>1, <1>2, <4>1
            <4>3. DeferredIn(kind', stack[u][i]) <=> DeferredIn(kind, stack[u][i])
                BY <1>1
            <4> QED
                BY <3>1, <4>2, <4>3 DEF CreatedIn
        <3> QED
            BY <3>2 DEF CreatedIn
    <2> QED
        BY <2>1, SuspendedAs
<1>6. StateInv'
    <2>1. Current(t) \in Task
        BY Top DEF PlaceInv
    <2>2. n \in Task /\ n \notin Thread
        BY Names
    <2>3. ASSUME NEW c \in Task
          PROVE  /\ pc[c] \in {"waitTest", "waitTake"} => pc'[c] \in {"waitTest", "waitTake"}
                 /\ c \in Thread => (pc'[c] \in AtBarrier <=> pc[c] \in AtBarrier)
        BY <2>2 DEF AtBarrier
    <2> QED
        BY <2>3 DEF StateInv, RunInv, InBarrier
<1> QED
    BY <1>3, <1>4, <1>5, <1>6 DEF RunInv, RunTypes, Types

\* Creating a deferred task changes no stack.
LEMMA CreateDeferredRun ==
    ASSUME Types, PlaceInv, RunInv, NEW t \in Thread, NEW k, CreateDeferred(t, k)
    PROVE  RunInv' /\ RunTypes
<1>1. PICK n : n = created + 1
    OBVIOUS
<1>2. PICK c : c = Current(t)
    OBVIOUS
<1>3. /\ NewTask(t, k) /\ stack' = stack /\ suspended' = suspended /\ sdepth' = sdepth
      /\ state' = state /\ pc' = [pc EXCEPT ![c] = "put", ![n] = "created"]
    BY <1>1, <1>2 DEF CreateDeferred, stackVars
<1>4. /\ n \in Task /\ n \in Explicit /\ n \notin Used /\ n \notin Thread /\ pc[n] = "unused"
      /\ Used' = Used \cup {n} /\ c \in Used \cup Thread /\ c \in Task /\ pc[c] = "body"
      /\ \A m \in Used : kind'[m] = kind[m]
    BY <1>1, <1>2, <1>3, Creation, UsedTasks, Names
<1>5. /\ \A m \in Task \ {n, c} : pc'[m] = pc[m]
      /\ pc'[n] = "created" /\ pc'[c] = "put"
    BY <1>3, <1>4 DEF Types
<1>6. pc[n] \notin OwnLabels
    BY <1>4 DEF OwnLabels, Started
<1> QED
    BY <1>2, <1>3, <1>4, <1>5, <1>6, SameStackRun

\* Putting it changes no stack.
LEMMA PutRun ==
    ASSUME Types, PlaceInv, RunInv, NEW t \in Thread, Put(t)
    PROVE  RunInv' /\ RunTypes
<1>1. PICK n : n = Fresh(t)
    OBVIOUS
<1>2. PICK c : c = Current(t)
    OBVIOUS
<1>3. /\ stack' = stack /\ suspended' = suspended /\ sdepth' = sdepth /\ SameTasks
      /\ state' = state /\ pc' = [pc EXCEPT ![c] = "body", ![n] = "queued"] /\ pc[c] = "put"
    BY <1>1, <1>2 DEF Put, stackVars, taskVars, At, SameTasks
<1>4. c \in Task
    BY <1>2, Top DEF PlaceInv
<1>5. n \in Used /\ n \in Explicit /\ n \in Task /\ pc[n] = "created"
    BY <1>1, <1>2, <1>3, <1>4, FreshTask, UsedTasks DEF PlaceInv, At
<1>6. /\ \A m \in Task \ {n, c} : pc'[m] = pc[m]
      /\ pc'[n] = "queued" /\ pc'[c] = "body"
    BY <1>3, <1>4, <1>5 DEF Types
<1>7. pc[n] \notin OwnLabels /\ Used' = Used /\ \A m \in Used : kind'[m] = kind[m]
    BY <1>3, <1>5 DEF OwnLabels, Started, SameTasks, Used
<1> QED
    BY <1>2, <1>3, <1>4, <1>5, <1>6, <1>7, SameStackRun

\* pushing onto the stack, as __ompc_task_switch does
LEMMA SwitchRun ==
    ASSUME Types, PlaceInv, RunInv, NEW t \in Thread, NEW n \in Used, NEW l \in Labels,
           pc[n] \notin OwnLabels, IsDeferred(n), Switch(t, n, l), SameTasks
    PROVE  /\ (\A m \in Task \ {n} : state'[m] = "IN_BARRIER" <=> state[m] = "IN_BARRIER")
                => SuspendInv' /\ DepthInv' /\ CreatorInv' /\ suspended' \in [Thread -> Nat]
           /\ sdepth' \in [Task -> Nat]
<1>1. /\ Pushes(t, n, l) /\ n \in Explicit /\ n \in Task /\ Used' = Used \cup {n} /\ kind' = kind
      /\ kind'[n].mayDelay
      /\ suspended' = [suspended EXCEPT ![t] = IF Suspends(Current(t)) THEN @ + 1 ELSE @]
      /\ sdepth' = [sdepth EXCEPT ![n] = sdepth[Current(t)] + 1]
    BY UsedTasks DEF Switch, Pushes, SameTasks, Used, IsDeferred
<1>2. sdepth[Current(t)] \in Nat /\ sdepth[Current(t)] + 1 \in 0..Len(stack[t])
    <2>1. Current(t) = stack[t][Len(stack[t])] /\ Len(stack[t]) \in 1..Len(stack[t])
          /\ Len(stack[t]) \in Nat /\ Current(t) \in Task
        <3>1. Current(t) = stack[t][Len(stack[t])] /\ Len(stack[t]) \in Nat \ {0} /\ Current(t) \in Task
            BY Top DEF PlaceInv
        <3> QED
            BY <3>1
    <2>2. sdepth[Current(t)] < Len(stack[t])
        BY <2>1 DEF RunInv, DepthInv
    <2>3. sdepth[Current(t)] \in Nat
        <3>1. sdepth \in [Task -> Nat]
            BY DEF Types
        <3> QED
            BY <2>1, <3>1
    <2> QED
        BY <2>1, <2>2, <2>3
<1>3. /\ sdepth' \in [Task -> Nat] /\ sdepth'[n] \in 0..Len(stack[t])
      /\ \A m \in Task \ {n} : sdepth'[m] = sdepth[m]
    BY <1>1, <1>2 DEF Types
<1> QED
    BY <1>1, <1>3, PushRun

\* Running a task of the pool.
LEMMA TakesRun ==
    ASSUME Types, PlaceInv, RunInv, NEW t \in Thread, NEW l, TakeAndSwitch(t, l),
           \E n \in Used : Takes(t, n, l),
           pc[Current(t)] \in AtBarrier <=> l \in AtBarrier,
           pc[Current(t)] \in {"waitTest", "waitTake"} => l \in {"waitTest", "waitTake"}
    PROVE  RunInv' /\ RunTypes
<1>1. PICK r \in Removable(t) :
        /\ tiedQ' = r.tied /\ untiedQ' = r.untied /\ Switch(t, r.task, l)
        /\ state' = [state EXCEPT ![r.task] = "RUNNING"]
        /\ UNCHANGED <<taskVars, countVars, barrierVars>>
    BY DEF TakeAndSwitch
<1>2. PICK n : n = r.task
    OBVIOUS
<1>3. n \in Used /\ pc[n] = "queued" /\ IsDeferred(n)
    BY <1>2, RemovableTakesOut DEF PlaceInv, TakenOut
<1>4. /\ l \in Labels /\ pc[n] \notin OwnLabels /\ SameTasks /\ Switch(t, n, l)
      /\ state' = [state EXCEPT ![n] = "RUNNING"]
    BY <1>1, <1>2, <1>3 DEF Takes, Below, Labels, OwnLabels, Started, SameTasks, taskVars
<1>5. n \in Task /\ n \notin Thread /\ n \in Explicit /\ "RUNNING" \in States
    BY <1>3, UsedTasks DEF States
<1>6. /\ \A m \in Task : state'[m] = IF m = n THEN "RUNNING" ELSE state[m]
      /\ state' \in [Task -> States]
    BY <1>4, <1>5 DEF Types
<1>7. SuspendInv' /\ DepthInv' /\ CreatorInv' /\ suspended' \in [Thread -> Nat] /\ sdepth' \in [Task -> Nat]
    BY <1>3, <1>4, <1>6, SwitchRun
<1>8. \A c \in Task : pc'[c] = IF c = n THEN "body" ELSE IF c = Current(t) THEN l ELSE pc[c]
    <2>1. Pushes(t, n, l)
        BY <1>4 DEF Switch, Pushes
    <2> QED
        BY <1>4, <1>5, <2>1, PushPc DEF PlaceInv
<1>9. StateInv'
    BY <1>5, <1>6, <1>8 DEF StateInv, RunInv, InBarrier, AtBarrier
<1> QED
    BY <1>6, <1>7, <1>9 DEF RunInv, RunTypes

\* Running a task that could not be put.
LEMMA PutFullRun ==
    ASSUME Types, PlaceInv, RunInv, NEW t \in Thread, PutFull(t)
    PROVE  RunInv' /\ RunTypes
<1>1. PICK n : n = Fresh(t)
    OBVIOUS
<1>2. PICK c : c = Current(t)
    OBVIOUS
<1>3. /\ SameTasks /\ Switch(t, n, "createReturn") /\ pc[c] = "put"
      /\ state' = [state EXCEPT ![c] = "READY", ![n] = "RUNNING"]
    BY <1>1, <1>2 DEF PutFull, taskVars, At, SameTasks
<1>4. c \in Task
    BY <1>2, Top DEF PlaceInv
<1>5. n \in Used /\ n \in Explicit /\ n \in Task /\ n \notin Thread /\ pc[n] = "created" /\ IsDeferred(n)
      /\ n # c
    BY <1>1, <1>2, <1>3, <1>4, FreshTask, UsedTasks DEF PlaceInv, At
<1>6. /\ \A m \in Task : state'[m] = IF m = n THEN "RUNNING" ELSE IF m = c THEN "READY" ELSE state[m]
      /\ state' \in [Task -> States]
    <2>1. "RUNNING" \in States /\ "READY" \in States
        BY DEF States
    <2> QED
        BY <1>3, <1>4, <1>5, <2>1 DEF Types
<1>7. state[c] # "IN_BARRIER" /\ "createReturn" \in Labels /\ pc[n] \notin OwnLabels
    BY <1>3, <1>4, <1>5 DEF RunInv, StateInv, InBarrier, AtBarrier, Labels, OwnLabels, Started
<1>8. SuspendInv' /\ DepthInv' /\ CreatorInv' /\ suspended' \in [Thread -> Nat] /\ sdepth' \in [Task -> Nat]
    BY <1>3, <1>5, <1>6, <1>7, SwitchRun
<1>9. \A m \in Task : pc'[m] = IF m = n THEN "body" ELSE IF m = c THEN "createReturn" ELSE pc[m]
    <2>1. Pushes(t, n, "createReturn")
        BY <1>3 DEF Switch, Pushes
    <2> QED
        BY <1>2, <1>5, <1>7, <2>1, PushPc DEF PlaceInv
<1>10. StateInv'
    BY <1>3, <1>4, <1>5, <1>6, <1>9 DEF StateInv, RunInv, InBarrier, AtBarrier
<1> QED
    BY <1>6, <1>8, <1>10 DEF RunInv, RunTypes

\* Running an undeferred task.
LEMMA CreateImmediateRun ==
    ASSUME Types, PlaceInv, RunInv, NEW t \in Thread, NEW k, CreateImmediate(t, k)
    PROVE  RunInv' /\ RunTypes
<1>1. PICK n : n = created + 1
    OBVIOUS
<1>2. PICK c : c = Current(t)
    OBVIOUS
<1>3. /\ NewTask(t, k) /\ Pushes(t, n, "createReturn") /\ sdepth' = sdepth
      /\ state' = [state EXCEPT ![c] = "READY"]
      /\ suspended' = [suspended EXCEPT ![t] = IF IsTied(c) THEN @ + 1 ELSE @]
    BY <1>1, <1>2 DEF CreateImmediate, Pushes
<1>4. /\ n \in Task /\ n \in Explicit /\ n \notin Used /\ n \notin Thread /\ pc[n] = "unused"
      /\ Used' = Used \cup {n} /\ c \in Task /\ pc[c] = "body"
      /\ \A m \in Used : kind'[m] = kind[m]
    BY <1>1, <1>2, <1>3, Creation, UsedTasks, Names
<1>5. /\ \A m \in Task : state'[m] = IF m = c THEN "READY" ELSE state[m]
      /\ state' \in [Task -> States]
    <2>1. "READY" \in States
        BY DEF States
    <2> QED
        BY <1>3, <1>4, <2>1 DEF Types
<1>6. state[c] # "IN_BARRIER" /\ state[n] # "IN_BARRIER" /\ state[n] # "WAITING"
      /\ "createReturn" \in Labels /\ pc[n] \notin OwnLabels
    BY <1>4 DEF RunInv, StateInv, InBarrier, AtBarrier, Labels, OwnLabels, Started
<1>7. suspended' = [suspended EXCEPT ![t] = IF Suspends(Current(t)) THEN @ + 1 ELSE @]
    BY <1>2, <1>3, <1>6 DEF Suspends, InBarrier
<1>8. sdepth'[n] \in 0..Len(stack[t]) /\ \A m \in Task \ {n} : sdepth'[m] = sdepth[m]
    <2>1. sdepth[n] = 0 /\ Len(stack[t]) \in Nat
        BY <1>4 DEF RunInv, DepthInv, Types
    <2> QED
        BY <1>3, <2>1
<1>9. SuspendInv' /\ DepthInv' /\ CreatorInv' /\ suspended' \in [Thread -> Nat]
    BY <1>3, <1>4, <1>5, <1>6, <1>7, <1>8, PushRun
<1>10. \A m \in Task : pc'[m] = IF m = n THEN "body" ELSE IF m = c THEN "createReturn" ELSE pc[m]
    BY <1>2, <1>3, <1>4, <1>6, PushPc DEF PlaceInv
<1>11. StateInv'
    BY <1>4, <1>5, <1>6, <1>10 DEF StateInv, RunInv, InBarrier, AtBarrier
<1>12. sdepth' \in [Task -> Nat]
    BY <1>3 DEF Types
<1> QED
    BY <1>5, <1>9, <1>11, <1>12 DEF RunInv, RunTypes

\* Back in the task below.
LEMMA PopToRun ==
    ASSUME Types, PlaceInv, RunInv, NEW t \in Thread, Returns(t), NEW s \in States,
           PopTo(t, s), s = state[Current(t)] \/ s = "FINISHED"
    PROVE  RunInv' /\ RunTypes
<1>1. PICK c : c = Current(t)
    OBVIOUS
<1>2. PICK o : o = Under(t)
    OBVIOUS
<1>3. /\ suspended' = [suspended EXCEPT ![t] = IF Suspends(o) THEN @ - 1 ELSE @]
      /\ state' = [state EXCEPT ![c] = s, ![o] = IF pc[o] = "createReturn" THEN "RUNNING" ELSE @]
      /\ sdepth' = sdepth
    BY <1>1, <1>2 DEF PopTo, Under
<1>4. /\ c \in Task /\ c \notin Thread /\ o \in Task /\ o # c
      /\ \A m \in Task : pc'[m] = IF m = c THEN "done"
                         ELSE IF m = o /\ pc[m] = "createReturn" THEN "body" ELSE pc[m]
      /\ pc[c] \in {"returned", "finish"}
    BY <1>1, <1>2, PopPc, Top DEF PlaceInv, Returns
<1>5. /\ \A m \in Task : state'[m] = IF m = c THEN s
                         ELSE IF m = o /\ pc[m] = "createReturn" THEN "RUNNING" ELSE state[m]
      /\ state' \in [Task -> States]
    <2>1. "RUNNING" \in States /\ state[o] \in States
        BY <1>4 DEF States, Types
    <2> QED
        BY <1>3, <1>4, <2>1 DEF Types
<1>6. /\ state[c] # "WAITING" /\ s # "WAITING" /\ s # "IN_BARRIER"
      /\ pc[o] = "createReturn" => state[o] # "IN_BARRIER"
    BY <1>1, <1>4 DEF RunInv, StateInv, InBarrier, AtBarrier
<1>7. SuspendInv' /\ DepthInv' /\ CreatorInv' /\ suspended' \in [Thread -> Nat]
    BY <1>1, <1>2, <1>3, <1>5, <1>6, PopRun
<1>8. StateInv'
    BY <1>4, <1>5, <1>6 DEF StateInv, RunInv, InBarrier, AtBarrier
<1> QED
    BY <1>3, <1>5, <1>7, <1>8 DEF RunInv, RunTypes, Types

\* the actions that leave the stacks alone: l is the next label, s the next state
LEMMA MoveRun ==
    ASSUME Types, PlaceInv, RunInv, NEW t \in Thread, NEW l, Goes(t, l), sdepth' = sdepth,
           NEW s \in States, state' = [state EXCEPT ![Current(t)] = s],
           s = "WAITING" => l \in {"waitTest", "waitTake"},
           s = "IN_BARRIER" <=> Current(t) \in Thread /\ l \in AtBarrier,
           suspended' = suspended \/ (Current(t) = t /\ suspended' = [suspended EXCEPT ![t] = 0])
    PROVE  RunInv' /\ RunTypes
<1>1. \A c \in Task \ {Current(t)} : state'[c] = state[c]
    BY DEF Types
<1>2. SuspendInv' /\ DepthInv' /\ CreatorInv' /\ suspended' \in [Thread -> Nat] /\ sdepth' \in [Task -> Nat]
    BY <1>1, GoesRun
<1>3. StateInv' /\ state' \in [Task -> States]
    BY GoesState DEF RunInv
<1> QED
    BY <1>2, <1>3 DEF RunInv, RunTypes

\* ... those that leave the state alone, too
LEMMA QuietRun ==
    ASSUME Types, PlaceInv, RunInv, NEW t \in Thread, NEW l, Goes(t, l), sdepth' = sdepth,
           state' = state, pc[Current(t)] \in {"waitTest", "waitTake"} => l \in {"waitTest", "waitTake"},
           pc[Current(t)] \in AtBarrier <=> l \in AtBarrier,
           suspended' = suspended \/ (Current(t) = t /\ suspended' = [suspended EXCEPT ![t] = 0])
    PROVE  RunInv' /\ RunTypes
<1>1. Current(t) \in Task
    BY Top DEF PlaceInv
<1>2. PICK s \in States : s = state[Current(t)]
    BY <1>1 DEF Types
<1>3. state' = [state EXCEPT ![Current(t)] = s]
    BY <1>1, <1>2 DEF Types
<1>4. /\ s = "WAITING" => l \in {"waitTest", "waitTake"}
      /\ s = "IN_BARRIER" <=> Current(t) \in Thread /\ l \in AtBarrier
    BY <1>1, <1>2 DEF RunInv, StateInv, InBarrier
<1> QED
    BY <1>3, <1>4, MoveRun

\* A wait or a barrier is over: the task is RUNNING again.
LEMMA RunsAgain ==
    ASSUME Types, PlaceInv, RunInv, NEW t \in Thread, Goes(t, "body"), sdepth' = sdepth,
           suspended' = suspended, state' = [state EXCEPT ![Current(t)] = "RUNNING"]
    PROVE  RunInv' /\ RunTypes
<1>1. PICK l : l = "body"
    OBVIOUS
<1>2. PICK s \in States : s = "RUNNING"
    BY DEF States
<1>3. l \notin AtBarrier /\ s # "IN_BARRIER" /\ s # "WAITING"
    BY <1>1, <1>2 DEF AtBarrier
<1>4. Goes(t, l) /\ state' = [state EXCEPT ![Current(t)] = s]
    BY <1>1, <1>2
<1> QED
    BY <1>3, <1>4, MoveRun

\* Every step keeps the states, depths and suspension counts right.
LEMMA RunStep ==
    ASSUME Types, PlaceInv, RunInv, NEW t \in Thread,
           Program(t) \/ Take(t) \/ Miss(t) \/ Runtime(t)
    PROVE  RunInv' /\ RunTypes
<1> USE DEF At
<1>1. {"WAITING", "EXITING", "IN_BARRIER", "RUNNING", "FINISHED"} \subseteq States
    BY DEF States
<1>2. CASE Program(t)
    <2>1. CASE Wait(t)
        <3>1. /\ Goes(t, "waitTest") /\ sdepth' = sdepth /\ suspended' = suspended
              /\ state' = [state EXCEPT ![Current(t)] = "WAITING"]
            BY <2>1, Moves DEF Wait, stackVars
        <3> QED
            BY <1>1, <3>1, MoveRun DEF AtBarrier
    <2>2. CASE Exit(t)
        <3>1. PICK l : l \in {"exitDec", "exitBlock"} /\ Goes(t, l)
            BY <2>2, Moves
        <3>2. /\ sdepth' = sdepth /\ suspended' = suspended
              /\ state' = [state EXCEPT ![Current(t)] = "EXITING"]
            BY <2>2 DEF Exit, stackVars
        <3> QED
            BY <1>1, <3>1, <3>2, MoveRun DEF AtBarrier
    <2>3. CASE BarrierArrive(t)
        <3>1. /\ Goes(t, "barrier") /\ sdepth' = sdepth /\ suspended' = suspended
              /\ state' = [state EXCEPT ![Current(t)] = "IN_BARRIER"] /\ Current(t) \in Thread
            BY <2>3, Moves DEF BarrierArrive, stackVars
        <3> QED
            BY <1>1, <3>1, MoveRun DEF AtBarrier
    <2>4. CASE \E k \in Kinds : CreateDeferred(t, k)
        BY <2>4, CreateDeferredRun
    <2>5. CASE \E k \in Kinds : CreateImmediate(t, k)
        BY <2>5, CreateImmediateRun
    <2> QED
        BY <1>2, <2>1, <2>2, <2>3, <2>4, <2>5 DEF Program
<1>3. CASE Take(t)
    <2>1. \E l : /\ TakeAndSwitch(t, l) /\ \E n \in Used : Takes(t, n, l)
                 /\ pc[Current(t)] \in AtBarrier <=> l \in AtBarrier
                 /\ pc[Current(t)] \in {"waitTest", "waitTake"} => l \in {"waitTest", "waitTake"}
        <3>1. CASE WaitTake(t)
            BY <3>1, Switches DEF AtBarrier
        <3>2. CASE ExitTake(t)
            BY <3>2, Switches DEF AtBarrier
        <3>3. CASE BarrierTake(t)
            BY <3>3, Switches DEF AtBarrier, Draining
        <3> QED
            BY <1>3, <3>1, <3>2, <3>3 DEF Take
    <2> QED
        BY <2>1, TakesRun
<1>4. CASE Miss(t)
    <2>1. CASE WaitMiss(t)
        <3>1. /\ Goes(t, "waitTest") /\ pc[Current(t)] = "waitTake" /\ state' = state
              /\ sdepth' = sdepth /\ suspended' = suspended
            BY <2>1, Moves DEF WaitMiss, RemoveMiss, stackVars
        <3> QED
            BY <3>1, QuietRun DEF AtBarrier
    <2>2. CASE ExitMiss(t)
        <3>1. /\ Goes(t, "exitBlock") /\ pc[Current(t)] = "exitTake" /\ state' = state
              /\ sdepth' = sdepth /\ suspended' = suspended
            BY <2>2, Moves DEF ExitMiss, RemoveMiss, stackVars
        <3> QED
            BY <3>1, QuietRun DEF AtBarrier
    <2> QED
        BY <1>4, <2>1, <2>2 DEF Miss
<1>5. CASE Runtime(t)
    <2>1. CASE Put(t) \/ PutFull(t)
        BY <2>1, PutRun, PutFullRun
    <2>2. CASE WaitTest(t)
        <3>1. Current(t) \in Task /\ sdepth' = sdepth /\ suspended' = suspended
            BY <2>2, Top DEF WaitTest, stackVars, PlaceInv
        <3>2. CASE numChildren[Current(t)] = 0
            <4>1. Goes(t, "body") /\ state' = [state EXCEPT ![Current(t)] = "RUNNING"]
                BY <2>2, <3>2, Moves DEF WaitTest
            <4> QED
                BY <3>1, <4>1, RunsAgain
        <3>3. CASE numChildren[Current(t)] # 0
            <4>1. /\ Goes(t, "waitTake") /\ pc[Current(t)] = "waitTest"
                  /\ state' = [state EXCEPT ![Current(t)] = @]
                BY <2>2, <3>3, Moves DEF WaitTest
            <4>2. state' = state
                BY <3>1, <4>1 DEF Types
            <4> QED
                BY <3>1, <4>1, <4>2, QuietRun DEF AtBarrier
        <3> QED
            BY <3>2, <3>3
    <2>3. CASE ExitDec(t)
        <3>1. /\ Goes(t, "exitCheck") /\ pc[Current(t)] = "exitDec" /\ state' = state
              /\ sdepth' = sdepth /\ suspended' = suspended
            BY <2>3, Moves DEF ExitDec, stackVars
        <3> QED
            BY <3>1, QuietRun DEF AtBarrier
    <2>4. CASE ExitCheck(t)
        <3>1. /\ Goes(t, "exitBlock") /\ pc[Current(t)] = "exitCheck" /\ state' = state
              /\ sdepth' = sdepth /\ suspended' = suspended
            BY <2>4, Moves DEF ExitCheck, stackVars
        <3> QED
            BY <3>1, QuietRun DEF AtBarrier
    <2>5. CASE ExitBlock(t)
        <3>1. PICK l : l \in {"returned", "exitTake"} /\ Goes(t, l)
            BY <2>5, Moves
        <3>2. pc[Current(t)] = "exitBlock" /\ state' = state /\ sdepth' = sdepth /\ suspended' = suspended
            BY <2>5 DEF ExitBlock, stackVars
        <3> QED
            BY <3>1, <3>2, QuietRun DEF AtBarrier
    <2>6. CASE ReturnDelete(t)
        <3>1. Current(t) \in Task
            BY Top DEF PlaceInv
        <3>2. PICK s \in States : s = state[Current(t)]
            BY <3>1 DEF Types
        <3>3. Returns(t) /\ PopTo(t, s)
            BY <2>6, <3>2, Switches DEF ReturnDelete
        <3> QED
            BY <3>2, <3>3, PopToRun
    <2>7. CASE MarkFinished(t)
        <3>1. Returns(t) /\ PopTo(t, "FINISHED")
            BY <2>7, Switches DEF MarkFinished
        <3> QED
            BY <1>1, <3>1, PopToRun
    <2>8. CASE ReturnKeep(t)
        <3>1. /\ Goes(t, "finish") /\ pc[Current(t)] = "returned" /\ state' = state
              /\ sdepth' = sdepth /\ suspended' = suspended
            BY <2>8, Moves DEF ReturnKeep, stackVars
        <3> QED
            BY <3>1, QuietRun DEF AtBarrier
    <2>9. CASE BarrierPass(t)
        <3>1. PICK l : l \in {"barrierReset", "barrierWait"} /\ Goes(t, l)
            BY <2>9, Moves
        <3>2. pc[Current(t)] = "barrier" /\ state' = state /\ sdepth' = sdepth /\ suspended' = suspended
            BY <2>9 DEF BarrierPass, stackVars
        <3> QED
            BY <3>1, <3>2, QuietRun DEF AtBarrier
    <2>10. CASE BarrierReset(t)
        <3>1. /\ Goes(t, "barrierToggle") /\ pc[Current(t)] = "barrierReset" /\ state' = state
              /\ sdepth' = sdepth /\ suspended' = suspended
            BY <2>10, Moves DEF BarrierReset, stackVars
        <3> QED
            BY <3>1, QuietRun DEF AtBarrier
    <2>11. CASE BarrierToggle(t)
        <3>1. /\ Goes(t, "barrierWait") /\ pc[Current(t)] = "barrierToggle" /\ state' = state
              /\ sdepth' = sdepth /\ suspended' = suspended
            BY <2>11, Moves DEF BarrierToggle, stackVars
        <3> QED
            BY <3>1, QuietRun DEF AtBarrier
    <2>12. CASE BarrierLeave(t)
        <3>1. /\ Goes(t, "body") /\ sdepth' = sdepth /\ suspended' = suspended
              /\ state' = [state EXCEPT ![Current(t)] = "RUNNING"]
            BY <2>12, Moves DEF BarrierLeave, stackVars
        <3> QED
            BY <3>1, RunsAgain
    <2>13. CASE EndArrive(t)
        <3>1. /\ Goes(t, "endBarrier") /\ sdepth' = sdepth /\ suspended' = suspended
              /\ state' = [state EXCEPT ![Current(t)] = "IN_BARRIER"] /\ Current(t) \in Thread
            BY <2>13, Moves DEF EndArrive, stackVars
        <3> QED
            BY <1>1, <3>1, MoveRun DEF AtBarrier
    <2>14. CASE EndPass(t)
        <3>1. PICK l : l \in {"join", "gone"} /\ Goes(t, l)
            BY <2>14, Moves
        <3>2. /\ pc[Current(t)] = "endBarrier" /\ state' = state /\ sdepth' = sdepth
              /\ Current(t) = t /\ suspended' = [suspended EXCEPT ![t] = 0]
            BY <2>14, Moves DEF EndPass
        <3> QED
            BY <3>1, <3>2, QuietRun DEF AtBarrier
    <2>15. CASE MasterJoin(t)
        <3>1. /\ Goes(t, "gone") /\ pc[Current(t)] = "join" /\ state' = state
              /\ sdepth' = sdepth /\ suspended' = suspended
            BY <2>15, Moves DEF MasterJoin, stackVars
        <3> QED
            BY <3>1, QuietRun DEF AtBarrier
    <2> QED
        BY <1>5, <2>1, <2>2, <2>3, <2>4, <2>5, <2>6, <2>7, <2>8, <2>9, <2>10, <2>11,
           <2>12, <2>13, <2>14, <2>15 DEF Runtime
<1> QED
    BY <1>2, <1>3, <1>4, <1>5

\* ... and so does stuttering.
LEMMA RunStutter ==
    ASSUME RunInv, UNCHANGED vars
    PROVE  RunInv'
<1>1. /\ created' = created /\ kind' = kind /\ pc' = pc /\ stack' = stack /\ state' = state
      /\ suspended' = suspended /\ sdepth' = sdepth
    BY DEF vars, taskVars, stackVars
<1> QED
    BY <1>1 DEF RunInv, StateInv, SuspendInv, DepthInv, CreatorInv, Suspended, Suspends, InBarrier,
                IsTied, IsDeferred, IsImplicit, Used

\* At first nobody is suspended.
LEMMA RunInit ==
    ASSUME Init
    PROVE  RunInv
<1>1. /\ \A t \in Thread : stack[t] = <<t>> /\ Len(stack[t]) = 1 /\ suspended[t] = 0 /\ stack[t][1] = t
      /\ \A c \in Task : sdepth[c] = 0 /\ (c \in Thread => pc[c] = "body")
      /\ \A c \in Task : state[c] \in {"RUNNING", "UNSCHEDULED"}
    BY DEF Init, IsImplicit
<1>2. StateInv
    BY <1>1 DEF StateInv, InBarrier, AtBarrier
<1>3. \A t \in Thread : Suspended(t) = {}
    <2>1. ASSUME NEW t \in Thread PROVE 1..(Len(stack[t]) - 1) = {}
        <3>1. Len(stack[t]) = 1
            BY <1>1
        <3>2. 1..(1 - 1) = {}
            OBVIOUS
        <3> QED
            BY <3>1, <3>2
    <2> QED
        BY <2>1 DEF Suspended
<1>4. SuspendInv
    BY <1>1, <1>3, FS_EmptySet DEF SuspendInv
<1>5. \A t \in Thread : \A i \in 1..Len(stack[t]) : i = 1
    BY <1>1
<1>6. DepthInv
    BY <1>1, <1>5, Names DEF DepthInv
<1>7. CreatorInv
    BY <1>1, <1>5 DEF CreatorInv, IsImplicit
<1> QED
    BY <1>2, <1>4, <1>6, <1>7 DEF RunInv

-----------------------------------------------------------------------------
(* The barriers *)

\* Parts of the team, counted.
LEMMA PartOfTeam ==
    ASSUME NEW S \in SUBSET Thread
    PROVE  /\ IsFiniteSet(S) /\ Cardinality(S) \in Nat /\ Cardinality(S) <= TeamSize
           /\ Cardinality(S) >= TeamSize => S = Thread
           /\ Cardinality(S) = 0 <=> S = {}
           /\ \A t \in Thread \ S : Cardinality(S \cup {t}) = Cardinality(S) + 1
<1>1. IsFiniteSet(Thread) /\ IsFiniteSet(S) /\ Cardinality(S) \in Nat /\ TeamSize \in Nat
    BY Names, FS_Subset, FS_CardinalityType
<1>2. Cardinality(S) <= TeamSize /\ (Cardinality(S) = TeamSize => S = Thread)
    BY <1>1, FS_Subset DEF TeamSize
<1>3. Cardinality(S) = 0 <=> S = {}
    BY <1>1, FS_EmptySet
<1>4. \A t \in Thread \ S : Cardinality(S \cup {t}) = Cardinality(S) + 1
    BY <1>1, FS_AddElement
<1> QED
    BY <1>1, <1>2, <1>3, <1>4

\* An implicit task that has no code running above it, or that has some.
LEMMA Implicit ==
    ASSUME Types, PlaceInv, NEW t \in Thread
    PROVE  /\ t \in Task /\ pc[t] \in Labels
           /\ \A u \in Thread : Current(t) = u => u = t
           /\ pc[t] \notin Below => Current(t) = t
<1>1. /\ stack[t][1] = t /\ stack[t] # <<>> /\ Len(stack[t]) \in Nat \ {0}
      /\ Current(t) = stack[t][Len(stack[t])]
      /\ Current(t) \in Thread => Current(t) = t
    BY Top DEF PlaceInv, StackInv
<1>2. Len(stack[t]) # 1 => pc[t] \in Below
    <2>1. ASSUME NEW k \in Nat \ {0}, k # 1 PROVE 1 \in 1..(k - 1)
        BY <2>1
    <2> QED
        BY <1>1, <2>1 DEF PlaceInv, StackInv
<1> QED
    BY <1>1, <1>2, Names DEF Types

\* Code that runs on a thread at a barrier belongs to a pending task.
LEMMA Running ==
    ASSUME Types, PlaceInv, RunInv, NEW t \in Thread, pc[Current(t)] = "body"
    PROVE  pc[t] \notin AtBarrier \/ Pending # {}
<1> SUFFICES ASSUME pc[t] \in AtBarrier PROVE Pending # {}
    OBVIOUS
<1>1. /\ Current(t) \in Used /\ stack[t] \in Seq(Task) /\ Len(stack[t]) \in Nat \ {0}
      /\ Current(t) = stack[t][Len(stack[t])]
    <2>1. Current(t) # t
        BY DEF AtBarrier
    <2> QED
        BY <2>1, Top DEF PlaceInv
<1>2. ASSUME NEW c \in Used, IsDeferred(c), pc[c] \in {"body", "createReturn"} PROVE c \in Pending
    BY <1>2 DEF Pending, BodyOver, Uncounted
<1>3. CASE IsDeferred(Current(t))
    BY <1>1, <1>2, <1>3
<1>4. CASE ~IsDeferred(Current(t))
    <2>1. ~IsImplicit(Current(t)) /\ Len(stack[t]) \in 1..Len(stack[t])
        BY <1>1, UsedTasks DEF IsImplicit
    <2>2. PICK j \in 1..(Len(stack[t]) - 1) :
            /\ pc[stack[t][j]] = "createReturn"
            /\ IsImplicit(stack[t][j]) \/ IsDeferred(stack[t][j])
        BY <1>1, <1>4, <2>1 DEF RunInv, CreatorInv
    <2>3. j \in 1..Len(stack[t])
        BY <1>1
    <2>4. stack[t][j] \in Used /\ IsDeferred(stack[t][j])
        <3>1. stack[t][1] = t /\ pc[stack[t][1]] # "createReturn"
            BY DEF PlaceInv, StackInv, AtBarrier
        <3>2. j \in 2..Len(stack[t])
            BY <1>1, <2>2, <3>1
        <3>3. stack[t][j] \in Used
            BY <3>2 DEF PlaceInv, StackInv
        <3> QED
            BY <2>2, <3>3, UsedTasks DEF IsImplicit
    <2> QED
        BY <1>2, <2>2, <2>4
<1> QED
    BY <1>3, <1>4

BarrierTypes ==
    /\ barrierCount' \in Nat /\ barrierCount2' \in Nat /\ exitCount' \in Nat
    /\ barrierFlag' \in {0, 1} /\ savedFlag' \in [Thread -> {0, 1}]
    /\ phase' \in [Thread -> Nat]

\* The steps of tasks that are at no barrier.
LEMMA ElsewhereBarrier ==
    ASSUME Types, PlaceInv, BarrierInv, UNCHANGED barrierVars,
           \A u \in Thread : \/ pc'[u] = pc[u]
                             \/ /\ pc[u] \notin AtBarrier /\ pc'[u] \notin AtBarrier
                                /\ pc'[u] \in {"exitBlock", "exitTake", "returned"}
                                     => phase[u] = NumBarriers,
           Pending' \subseteq Pending \/ (Passed = {} /\ Left = {})
    PROVE  BarrierInv' /\ BarrierTypes
<1>1. /\ barrierCount' = barrierCount /\ barrierCount2' = barrierCount2 /\ exitCount' = exitCount
      /\ barrierFlag' = barrierFlag /\ savedFlag' = savedFlag /\ phase' = phase
    BY DEF barrierVars
<1>2. \A u \in Thread : \A l \in AtBarrier : pc'[u] = l <=> pc[u] = l
    OBVIOUS
<1>3. /\ "barrier" \in AtBarrier /\ "barrierReset" \in AtBarrier /\ "barrierToggle" \in AtBarrier
      /\ "barrierWait" \in AtBarrier /\ "endBarrier" \in AtBarrier /\ "join" \in AtBarrier
      /\ "gone" \in AtBarrier
    BY DEF AtBarrier
<1>4. /\ Waiting' = Waiting /\ Passed' = Passed /\ Resetting' = Resetting /\ AtEnd' = AtEnd
      /\ Left' = Left /\ \A u \in Thread : Opened(u)' = Opened(u)
    BY <1>1, <1>2, <1>3 DEF Waiting, Passed, Resetting, AtEnd, Left, Opened, Inside, Ended
<1>5. PhaseInv'
    BY <1>1, <1>2, <1>3 DEF BarrierInv, PhaseInv, Inside, Ended
<1>6. StepInv'
    BY <1>1, <1>2, <1>3, <1>4 DEF BarrierInv, StepInv, Resetting
<1>7. DrainInv'
    BY <1>4 DEF BarrierInv, DrainInv
<1>8. TurnInv'
    BY <1>1, <1>2, <1>3, <1>4, Names DEF BarrierInv, TurnInv
<1> QED
    BY <1>1, <1>5, <1>6, <1>7, <1>8 DEF BarrierInv, BarrierTypes, Types

\* The steps of an implicit task.
LEMMA OwnStep ==
    ASSUME Types, PlaceInv, NEW t \in Thread, NEW l, Goes(t, l), Current(t) = t
    PROVE  /\ \A u \in Thread : pc'[u] = IF u = t THEN l ELSE pc[u]
           /\ Pending' = Pending
<1>1. \A c \in Task : pc'[c] = IF c = Current(t) THEN l ELSE pc[c]
    BY StayPc DEF Goes, PlaceInv
<1>2. Used' = Used /\ \A n : IsDeferred(n)' <=> IsDeferred(n)
    BY DEF Goes, SameTasks, Used, IsDeferred, IsImplicit
<1>3. \A n \in Used : n \in Task /\ n # t
    BY UsedTasks
<1> QED
    BY <1>1, <1>2, <1>3, Names DEF Pending

\* While a thread can move, nobody is between the reset and the toggle.
LEMMA Turn ==
    ASSUME BarrierInv, NEW t \in Thread, pc[t] \notin {"barrierToggle", "gone"},
           pc[t] = "barrierWait" => savedFlag[t] # barrierFlag
    PROVE  /\ \A u \in Thread : pc[u] # "barrierToggle"
           /\ pc[Master] # "gone"
           /\ barrierCount = Cardinality(Waiting \cup AtEnd)
           /\ barrierCount2 = Cardinality(Passed)
           /\ exitCount = Cardinality(Left)
<1>1. ASSUME NEW u \in Thread PROVE pc[u] # "barrierToggle"
    BY <1>1 DEF BarrierInv, StepInv, Resetting
<1> QED
    BY <1>1 DEF BarrierInv, TurnInv

\* What the test of the draining loops finds out.
LEMMA AllHere ==
    ASSUME Types, PlaceInv, CountInv, BarrierInv, NEW t \in Thread, AllArrived
    PROVE  /\ pc[t] = "barrier" => Waiting = Thread /\ Pending = {}
           /\ pc[t] = "endBarrier" => AtEnd = Thread /\ Pending = {}
<1> SUFFICES ASSUME pc[t] \in {"barrier", "endBarrier"}
             PROVE  /\ pc[t] = "barrier" => Waiting = Thread /\ Pending = {}
                    /\ pc[t] = "endBarrier" => AtEnd = Thread /\ Pending = {}
    OBVIOUS
<1>1. Pending = {}
    <2>1. Cardinality(Pending) = 0
        BY DEF AllArrived, CountInv, CountersExact
    <2>2. IsFiniteSet(Pending)
        BY UsedTasks, FS_Subset DEF Pending
    <2> QED
        BY <2>1, <2>2, FS_EmptySet
<1>2. Waiting \cup AtEnd = Thread
    <2>1. Waiting \cup AtEnd \in SUBSET Thread
        BY DEF Waiting, AtEnd
    <2>2. Cardinality(Waiting \cup AtEnd) >= TeamSize
        BY Turn DEF AllArrived
    <2> QED
        BY <2>1, <2>2, PartOfTeam
<1>3. ASSUME NEW u \in Waiting, NEW v \in AtEnd PROVE FALSE
    <2>1. /\ u \in Thread /\ v \in Thread /\ phase[u] < NumBarriers /\ phase[v] = NumBarriers
          /\ savedFlag[u] = barrierFlag /\ pc[v] # "barrierWait"
        BY <1>3 DEF Waiting, AtEnd, Ended, BarrierInv, PhaseInv
    <2>2. Opened(u) = phase[u] /\ Opened(v) = phase[v]
        <3>1. phase \in [Thread -> Nat]
            BY DEF Types
        <3>2. phase[u] + 0 = phase[u] /\ phase[v] + 0 = phase[v]
            BY <2>1, <3>1
        <3> QED
            BY <2>1, <3>2 DEF Opened
    <2>3. phase[u] \in Nat /\ phase[v] \in Nat /\ Opened(u) = Opened(v) /\ NumBarriers \in Nat
        BY <2>1, Names DEF BarrierInv, StepInv, Types
    <2> QED
        BY <2>1, <2>2, <2>3
<1>4. pc[t] = "barrier" => t \in Waiting
    BY DEF Waiting, Inside, BarrierInv, PhaseInv
<1>5. pc[t] = "endBarrier" => t \in AtEnd
    BY DEF AtEnd, Ended
<1> QED
    BY <1>1, <1>2, <1>3, <1>4, <1>5

\* A thread comes to an explicit barrier (omp_thread.h:326-340).
LEMMA ArriveBarrier ==
    ASSUME Types, PlaceInv, BarrierInv, NEW t \in Thread, BarrierArrive(t)
    PROVE  BarrierInv' /\ BarrierTypes
<1>1. /\ Current(t) = t /\ pc[t] = "body" /\ phase[t] < NumBarriers
      /\ savedFlag' = [savedFlag EXCEPT ![t] = barrierFlag] /\ barrierCount' = barrierCount + 1
      /\ barrierCount2' = barrierCount2 /\ barrierFlag' = barrierFlag /\ exitCount' = exitCount
      /\ phase' = phase /\ Goes(t, "barrier")
    BY Moves DEF BarrierArrive, At
<1>2. /\ \A u \in Thread : pc'[u] = IF u = t THEN "barrier" ELSE pc[u]
      /\ \A u \in Thread : savedFlag'[u] = IF u = t THEN barrierFlag ELSE savedFlag[u]
      /\ Pending' = Pending
    BY <1>1, OwnStep DEF Types
<1>3. /\ Waiting' = Waiting \cup {t} /\ t \notin Waiting /\ t \notin AtEnd
      /\ Passed' = Passed /\ AtEnd' = AtEnd /\ Left' = Left /\ Resetting' = Resetting
    BY <1>1, <1>2 DEF Waiting, Passed, AtEnd, Left, Resetting, Inside, Ended
<1>4. PhaseInv'
    BY <1>1, <1>2 DEF BarrierInv, PhaseInv, Inside, Ended
<1>5. Passed = {} /\ Left = {} /\ Resetting = {}
    BY <1>3 DEF BarrierInv, DrainInv, StepInv, Resetting, Passed, Waiting, Inside
<1>6. StepInv'
    <2>1. \A u \in Thread : Opened(u)' = Opened(u)
        BY <1>1, <1>2 DEF Opened
    <2> QED
        BY <1>3, <1>5, <2>1 DEF BarrierInv, StepInv
<1>7. DrainInv'
    BY <1>3, <1>5 DEF DrainInv
<1>8. TurnInv'
    <2>1. /\ \A u \in Thread : pc[u] # "barrierToggle"
          /\ pc[Master] # "gone"
          /\ barrierCount = Cardinality(Waiting \cup AtEnd)
          /\ barrierCount2 = Cardinality(Passed)
          /\ exitCount = Cardinality(Left)
        BY <1>1, Turn
    <2>2. Waiting' \cup AtEnd' = (Waiting \cup AtEnd) \cup {t}
        BY <1>3
    <2>3. Cardinality(Waiting' \cup AtEnd') = barrierCount + 1
        <3>1. Waiting \cup AtEnd \in SUBSET Thread /\ t \in Thread \ (Waiting \cup AtEnd)
            BY <1>3 DEF Waiting, AtEnd
        <3>2. Cardinality((Waiting \cup AtEnd) \cup {t}) = Cardinality(Waiting \cup AtEnd) + 1
            BY <3>1, PartOfTeam, Zenon
        <3> QED
            BY <2>1, <2>2, <3>2
    <2> QED
        BY <1>1, <1>2, <1>3, <2>1, <2>3, Names DEF TurnInv
<1>9. BarrierTypes
    BY <1>1 DEF BarrierTypes, Types
<1> QED
    BY <1>4, <1>6, <1>7, <1>8, <1>9 DEF BarrierInv

\* The pool is drained and all are there: a thread passes the barrier.
LEMMA PassBarrier ==
    ASSUME Types, PlaceInv, CountInv, BarrierInv, NEW t \in Thread, BarrierPass(t)
    PROVE  BarrierInv' /\ BarrierTypes
<1>1. PICK l : l = IF barrierCount2 + 1 = TeamSize THEN "barrierReset" ELSE "barrierWait"
    OBVIOUS
<1>2. /\ Current(t) = t /\ pc[t] = "barrier" /\ AllArrived
      /\ barrierCount2' = barrierCount2 + 1
      /\ barrierCount' = barrierCount /\ barrierFlag' = barrierFlag /\ exitCount' = exitCount
      /\ phase' = phase /\ savedFlag' = savedFlag /\ Goes(t, l)
    BY <1>1, Moves DEF BarrierPass, At
<1>3. l \in {"barrierReset", "barrierWait"}
    BY <1>1
<1>4. /\ \A u \in Thread : pc'[u] = IF u = t THEN l ELSE pc[u]
      /\ Pending' = Pending
    BY <1>2, OwnStep
<1>5. Waiting = Thread /\ Pending = {}
    BY <1>2, AllHere
<1>6. /\ Waiting' = Waiting /\ Passed' = Passed \cup {t} /\ t \notin Passed
      /\ AtEnd' = AtEnd /\ Left' = Left
    BY <1>2, <1>3, <1>4, <1>5 DEF Waiting, Passed, AtEnd, Left, Inside, Ended
<1>7. \A u \in Thread : savedFlag[u] = barrierFlag
    BY <1>5 DEF Waiting
<1>8. PhaseInv'
    BY <1>2, <1>3, <1>4 DEF BarrierInv, PhaseInv, Inside, Ended
<1>9. /\ \A u \in Thread : pc[u] # "barrierToggle"
      /\ pc[Master] # "gone"
      /\ barrierCount = Cardinality(Waiting \cup AtEnd)
      /\ barrierCount2 = Cardinality(Passed)
      /\ exitCount = Cardinality(Left)
    BY <1>2, Turn
<1>10. Cardinality(Passed \cup {t}) = Cardinality(Passed) + 1
    <2>1. Passed \in SUBSET Thread /\ t \in Thread \ Passed
        BY <1>6 DEF Passed, Waiting
    <2> QED
        BY <2>1, PartOfTeam, Zenon
<1>11. Resetting = {}
    BY <1>2 DEF BarrierInv, StepInv, Resetting
<1>12. StepInv'
    <2>1. \A u \in Thread : Opened(u)' = Opened(u)
        BY <1>2, <1>3, <1>4, <1>7 DEF Opened
    <2>2. CASE l = "barrierWait"
        <3>1. Resetting' = {}
            BY <1>4, <1>11, <2>2 DEF Resetting
        <3> QED
            BY <2>1, <3>1 DEF BarrierInv, StepInv
    <2>3. CASE l = "barrierReset"
        <3>1. barrierCount2 + 1 = TeamSize
            BY <1>1, <2>3
        <3>2. Passed \cup {t} = Thread
            <4>1. Passed \cup {t} \in SUBSET Thread /\ Cardinality(Passed \cup {t}) >= TeamSize
                BY <1>9, <1>10, <3>1, Names DEF Passed, Waiting
            <4>2. \A S \in SUBSET Thread : Cardinality(S) >= TeamSize => S = Thread
                BY PartOfTeam
            <4> QED
                BY <4>1, <4>2, Zenon
        <3>3. ASSUME NEW u \in Thread \ {t} PROVE pc[u] = "barrierWait"
            BY <1>11, <3>2 DEF Passed, Waiting, Inside, Resetting
        <3>4. Resetting' = {t}
            BY <1>4, <2>3, <3>3 DEF Resetting
        <3> QED
            BY <1>2, <1>4, <1>7, <2>1, <3>3, <3>4 DEF BarrierInv, StepInv
    <2> QED
        BY <1>3, <2>2, <2>3
<1>13. DrainInv'
    BY <1>4, <1>5, <1>6 DEF DrainInv, BarrierInv
<1>14. TurnInv'
    BY <1>2, <1>3, <1>4, <1>6, <1>9, <1>10, Names DEF TurnInv
<1>15. BarrierTypes
    BY <1>2 DEF BarrierTypes, Types
<1> QED
    BY <1>8, <1>12, <1>13, <1>14, <1>15 DEF BarrierInv

\* The last thread to pass resets the counts.
LEMMA ResetBarrier ==
    ASSUME Types, PlaceInv, BarrierInv, NEW t \in Thread, BarrierReset(t)
    PROVE  BarrierInv' /\ BarrierTypes
<1>1. /\ Current(t) = t /\ pc[t] = "barrierReset" /\ barrierCount2' = 0 /\ barrierCount' = 0
      /\ barrierFlag' = barrierFlag /\ exitCount' = exitCount
      /\ phase' = phase /\ savedFlag' = savedFlag /\ Goes(t, "barrierToggle")
    BY Moves DEF BarrierReset, At
<1>2. /\ \A u \in Thread : pc'[u] = IF u = t THEN "barrierToggle" ELSE pc[u]
      /\ Pending' = Pending
    BY <1>1, OwnStep
<1>3. t \in Passed /\ \A u \in Thread \ {t} : pc[u] = "barrierWait" /\ savedFlag[u] = barrierFlag
    BY <1>1 DEF BarrierInv, StepInv, Resetting, Passed, Waiting, PhaseInv, Inside
<1>4. /\ Waiting' = Waiting /\ Passed' = Passed /\ Resetting' = Resetting /\ AtEnd' = AtEnd
      /\ Left' = Left /\ \A u \in Thread : Opened(u)' = Opened(u)
    BY <1>1, <1>2 DEF Waiting, Passed, Resetting, AtEnd, Left, Inside, Ended, Opened
<1>5. PhaseInv'
    BY <1>1, <1>2 DEF BarrierInv, PhaseInv, Inside, Ended
<1>6. StepInv'
    BY <1>1, <1>2, <1>3, <1>4 DEF BarrierInv, StepInv, Resetting
<1>7. DrainInv'
    BY <1>2, <1>4 DEF DrainInv, BarrierInv
<1>8. exitCount = 0
    <2>1. Left = {}
        BY <1>1, <1>3 DEF Left
    <2> QED
        BY <1>1, <2>1, Turn, FS_EmptySet
<1>9. TurnInv'
    BY <1>1, <1>2, <1>8 DEF TurnInv
<1>10. BarrierTypes
    BY <1>1 DEF BarrierTypes, Types
<1> QED
    BY <1>5, <1>6, <1>7, <1>9, <1>10 DEF BarrierInv

\* ... and then the flag the others spin on.
LEMMA ToggleBarrier ==
    ASSUME Types, PlaceInv, BarrierInv, NEW t \in Thread, BarrierToggle(t)
    PROVE  BarrierInv' /\ BarrierTypes
<1>1. /\ Current(t) = t /\ pc[t] = "barrierToggle" /\ barrierFlag' = 1 - savedFlag[t]
      /\ barrierCount2' = barrierCount2 /\ barrierCount' = barrierCount /\ exitCount' = exitCount
      /\ phase' = phase /\ savedFlag' = savedFlag /\ Goes(t, "barrierWait")
    BY Moves DEF BarrierToggle, At
<1>2. /\ \A u \in Thread : pc'[u] = IF u = t THEN "barrierWait" ELSE pc[u]
      /\ Pending' = Pending
    BY <1>1, OwnStep
<1>3. /\ savedFlag[t] = barrierFlag /\ barrierFlag \in {0, 1} /\ phase[t] < NumBarriers
      /\ \A u \in Thread \ {t} : pc[u] = "barrierWait" /\ savedFlag[u] = barrierFlag
    BY <1>1 DEF BarrierInv, StepInv, Resetting, PhaseInv, Inside, Types
<1>4. /\ barrierFlag' \in {0, 1} /\ barrierFlag' # barrierFlag
      /\ \A u \in Thread : pc'[u] = "barrierWait" /\ savedFlag'[u] # barrierFlag'
    BY <1>1, <1>2, <1>3
<1>5. /\ Waiting' = {} /\ Passed' = {} /\ Resetting' = {} /\ AtEnd' = {} /\ Left' = {}
    BY <1>4 DEF Waiting, Passed, Resetting, AtEnd, Left, Inside, Ended
<1>6. \A u \in Thread : Opened(u)' = Opened(u) + 1
    <2>1. \A u \in Thread : Opened(u) = phase[u] + 0 /\ Opened(u)' = phase[u] + 1
        BY <1>1, <1>3, <1>4 DEF Opened
    <2> QED
        BY <2>1 DEF Types
<1>7. PhaseInv'
    BY <1>1, <1>2, <1>3 DEF BarrierInv, PhaseInv, Inside, Ended
<1>8. StepInv'
    BY <1>5, <1>6 DEF BarrierInv, StepInv
<1>9. DrainInv'
    BY <1>5 DEF DrainInv
<1>10. barrierCount = 0 /\ barrierCount2 = 0 /\ exitCount = 0
    BY <1>1 DEF BarrierInv, TurnInv
<1>11. TurnInv'
    <2>1. Waiting' \cup AtEnd' = {} /\ Cardinality({}) = 0
        BY <1>5, FS_EmptySet
    <2> QED
        BY <1>1, <1>4, <1>5, <1>10, <2>1, Names DEF TurnInv
<1>12. BarrierTypes
    BY <1>1, <1>4 DEF BarrierTypes, Types
<1> QED
    BY <1>7, <1>8, <1>9, <1>11, <1>12 DEF BarrierInv

\* A thread sees the flag and leaves.
LEMMA LeaveBarrier ==
    ASSUME Types, PlaceInv, BarrierInv, NEW t \in Thread, BarrierLeave(t)
    PROVE  BarrierInv' /\ BarrierTypes
<1>1. /\ Current(t) = t /\ pc[t] = "barrierWait" /\ barrierFlag # savedFlag[t]
      /\ phase' = [phase EXCEPT ![t] = @ + 1] /\ barrierFlag' = barrierFlag
      /\ barrierCount2' = barrierCount2 /\ barrierCount' = barrierCount /\ exitCount' = exitCount
      /\ savedFlag' = savedFlag /\ Goes(t, "body")
    BY Moves DEF BarrierLeave, At
<1>2. /\ \A u \in Thread : pc'[u] = IF u = t THEN "body" ELSE pc[u]
      /\ \A u \in Thread : phase'[u] = IF u = t THEN phase[t] + 1 ELSE phase[u]
      /\ Pending' = Pending
    BY <1>1, OwnStep DEF Types
<1>3. /\ Waiting' = Waiting /\ Passed' = Passed /\ Resetting' = Resetting /\ AtEnd' = AtEnd
      /\ Left' = Left
    BY <1>1, <1>2 DEF Waiting, Passed, Resetting, AtEnd, Left, Inside, Ended
<1>4. \A u \in Thread : Opened(u)' = Opened(u)
    <2>1. \A u \in Thread : phase[u] \in Nat
        BY DEF Types
    <2> QED
        BY <1>1, <1>2, <2>1 DEF Opened
<1>5. PhaseInv'
    <2>1. phase[t] + 1 <= NumBarriers
        BY <1>1, Names DEF BarrierInv, PhaseInv, Inside, Types
    <2> QED
        BY <1>1, <1>2, <2>1 DEF BarrierInv, PhaseInv, Inside, Ended
<1>6. StepInv'
    BY <1>1, <1>2, <1>3, <1>4 DEF BarrierInv, StepInv, Resetting
<1>7. DrainInv'
    BY <1>2, <1>3 DEF DrainInv, BarrierInv
<1>8. TurnInv'
    BY <1>1, <1>2, <1>3, Turn, Names DEF TurnInv
<1>9. BarrierTypes
    BY <1>1 DEF BarrierTypes, Types
<1> QED
    BY <1>5, <1>6, <1>7, <1>8, <1>9 DEF BarrierInv

\* A thread comes to the end of the region (omp_thread.c:989-1058).
LEMMA EndArriveBarrier ==
    ASSUME Types, PlaceInv, BarrierInv, NEW t \in Thread, EndArrive(t)
    PROVE  BarrierInv' /\ BarrierTypes
<1>1. /\ Current(t) = t /\ pc[t] = "returned"
      /\ barrierCount' = barrierCount + 1 /\ barrierFlag' = barrierFlag
      /\ barrierCount2' = barrierCount2 /\ exitCount' = exitCount
      /\ phase' = phase /\ savedFlag' = savedFlag /\ Goes(t, "endBarrier")
    BY Moves DEF EndArrive, At
<1>2. /\ \A u \in Thread : pc'[u] = IF u = t THEN "endBarrier" ELSE pc[u]
      /\ Pending' = Pending
    BY <1>1, OwnStep
<1>3. /\ Waiting' = Waiting /\ t \notin Waiting /\ t \notin AtEnd /\ AtEnd' = AtEnd \cup {t}
      /\ Passed' = Passed /\ Left' = Left /\ Resetting' = Resetting
    BY <1>1, <1>2 DEF Waiting, Passed, AtEnd, Left, Resetting, Inside, Ended
<1>4. PhaseInv'
    BY <1>1, <1>2 DEF BarrierInv, PhaseInv, Inside, Ended
<1>5. Passed = {} /\ Left = {} /\ Resetting = {}
    BY <1>1, <1>3 DEF BarrierInv, DrainInv, StepInv, Resetting
<1>6. StepInv'
    <2>1. \A u \in Thread : Opened(u)' = Opened(u)
        BY <1>1, <1>2 DEF Opened
    <2> QED
        BY <1>3, <1>5, <2>1 DEF BarrierInv, StepInv
<1>7. DrainInv'
    BY <1>3, <1>5 DEF DrainInv
<1>8. TurnInv'
    <2>1. /\ \A u \in Thread : pc[u] # "barrierToggle"
          /\ pc[Master] # "gone"
          /\ barrierCount = Cardinality(Waiting \cup AtEnd)
          /\ barrierCount2 = Cardinality(Passed)
          /\ exitCount = Cardinality(Left)
        BY <1>1, Turn
    <2>2. Waiting' \cup AtEnd' = (Waiting \cup AtEnd) \cup {t}
        BY <1>3
    <2>3. Cardinality(Waiting' \cup AtEnd') = barrierCount + 1
        <3>1. Waiting \cup AtEnd \in SUBSET Thread /\ t \in Thread \ (Waiting \cup AtEnd)
            BY <1>3 DEF Waiting, AtEnd
        <3>2. Cardinality((Waiting \cup AtEnd) \cup {t}) = Cardinality(Waiting \cup AtEnd) + 1
            BY <3>1, PartOfTeam, Zenon
        <3> QED
            BY <2>1, <2>2, <3>2
    <2> QED
        BY <1>1, <1>2, <1>3, <2>1, <2>3, Names DEF TurnInv
<1>9. BarrierTypes
    BY <1>1 DEF BarrierTypes, Types
<1> QED
    BY <1>4, <1>6, <1>7, <1>8, <1>9 DEF BarrierInv

\* ... and passes it.
LEMMA EndPassBarrier ==
    ASSUME Types, PlaceInv, CountInv, BarrierInv, NEW t \in Thread, EndPass(t)
    PROVE  BarrierInv' /\ BarrierTypes
<1>1. PICK l : l = IF t = Master THEN "join" ELSE "gone"
    OBVIOUS
<1>2. /\ Current(t) = t /\ pc[t] = "endBarrier" /\ AllArrived
      /\ exitCount' = exitCount + 1 /\ barrierCount' = barrierCount
      /\ barrierCount2' = barrierCount2 /\ barrierFlag' = barrierFlag
      /\ phase' = phase /\ savedFlag' = savedFlag /\ Goes(t, l)
    BY <1>1, Moves DEF EndPass, At
<1>3. l \in {"join", "gone"}
    BY <1>1
<1>4. /\ \A u \in Thread : pc'[u] = IF u = t THEN l ELSE pc[u]
      /\ Pending' = Pending
    BY <1>2, OwnStep
<1>5. AtEnd = Thread /\ Pending = {}
    BY <1>2, AllHere
<1>6. /\ Waiting' = Waiting /\ Passed' = Passed /\ Resetting' = Resetting
      /\ AtEnd' = AtEnd /\ Left' = Left \cup {t} /\ t \notin Left
    BY <1>2, <1>3, <1>4, <1>5 DEF Waiting, Passed, AtEnd, Left, Inside, Ended, Resetting
<1>7. Resetting = {} /\ Passed = {}
    BY <1>5 DEF AtEnd, Ended, Resetting, Passed, Waiting, Inside
<1>8. PhaseInv'
    BY <1>1, <1>2, <1>3, <1>4 DEF BarrierInv, PhaseInv, Inside, Ended
<1>9. StepInv'
    <2>1. \A u \in Thread : Opened(u)' = Opened(u)
        BY <1>2, <1>3, <1>4 DEF Opened
    <2> QED
        BY <1>6, <1>7, <2>1 DEF BarrierInv, StepInv
<1>10. DrainInv'
    BY <1>4, <1>5, <1>6, <1>7 DEF DrainInv
<1>11. TurnInv'
    <2>1. /\ \A u \in Thread : pc[u] # "barrierToggle"
          /\ pc[Master] # "gone"
          /\ barrierCount = Cardinality(Waiting \cup AtEnd)
          /\ barrierCount2 = Cardinality(Passed)
          /\ exitCount = Cardinality(Left)
        BY <1>2, Turn
    <2>2. Cardinality(Left \cup {t}) = Cardinality(Left) + 1
        <3>1. Left \in SUBSET Thread /\ t \in Thread \ Left
            BY <1>6 DEF Left
        <3> QED
            BY <3>1, PartOfTeam, Zenon
    <2>3. pc'[Master] # "gone" /\ \A u \in Thread : pc'[u] # "barrierToggle"
        BY <1>1, <1>3, <1>4, <2>1, Names
    <2> QED
        BY <1>2, <1>6, <2>1, <2>2, <2>3 DEF TurnInv
<1>12. BarrierTypes
    BY <1>2 DEF BarrierTypes, Types
<1> QED
    BY <1>8, <1>9, <1>10, <1>11, <1>12 DEF BarrierInv

\* The master joins when all have.
LEMMA JoinBarrier ==
    ASSUME Types, PlaceInv, BarrierInv, NEW t \in Thread, MasterJoin(t)
    PROVE  BarrierInv' /\ BarrierTypes
<1>1. /\ t = Master /\ Current(t) = t /\ pc[t] = "join" /\ exitCount = TeamSize
      /\ exitCount' = 0 /\ barrierCount' = 0
      /\ barrierCount2' = barrierCount2 /\ barrierFlag' = barrierFlag
      /\ phase' = phase /\ savedFlag' = savedFlag /\ Goes(t, "gone")
    BY Moves DEF MasterJoin, At
<1>2. /\ \A u \in Thread : pc'[u] = IF u = t THEN "gone" ELSE pc[u]
      /\ Pending' = Pending
    BY <1>1, OwnStep
<1>3. barrierCount2 = Cardinality(Passed) /\ exitCount = Cardinality(Left)
    BY <1>1, Turn
<1>4. Left = Thread
    <2>1. Left \in SUBSET Thread /\ Cardinality(Left) >= TeamSize
        BY <1>1, <1>3, Names DEF Left
    <2>2. \A S \in SUBSET Thread : Cardinality(S) >= TeamSize => S = Thread
        BY PartOfTeam
    <2> QED
        BY <2>1, <2>2, Zenon
<1>5. \A u \in Thread : pc'[u] = "gone" /\ pc[u] \in {"join", "gone"}
    BY <1>1, <1>2, <1>4 DEF Left, BarrierInv, PhaseInv
<1>6. /\ Passed' = {} /\ Resetting' = {} /\ AtEnd' = Thread /\ Left' = Thread /\ Passed = {}
    BY <1>5 DEF Waiting, Passed, Resetting, AtEnd, Left, Inside, Ended
<1>7. PhaseInv'
    BY <1>1, <1>2 DEF BarrierInv, PhaseInv, Inside, Ended
<1>8. StepInv'
    <2>1. \A u \in Thread : Opened(u)' = Opened(u)
        BY <1>1, <1>2 DEF Opened
    <2> QED
        BY <1>6, <2>1 DEF BarrierInv, StepInv
<1>9. DrainInv'
    BY <1>1, <1>2, <1>4, <1>6 DEF DrainInv, BarrierInv
<1>10. TurnInv'
    BY <1>1, <1>3, <1>5, <1>6, FS_EmptySet DEF TurnInv
<1>11. BarrierTypes
    BY <1>1 DEF BarrierTypes, Types
<1> QED
    BY <1>7, <1>8, <1>9, <1>10, <1>11 DEF BarrierInv

-----------------------------------------------------------------------------
(* The steps that pass the barriers by *)

Aside ==
    /\ UNCHANGED barrierVars
    /\ \A u \in Thread : \/ pc'[u] = pc[u]
                         \/ /\ pc[u] \notin AtBarrier /\ pc'[u] \notin AtBarrier
                            /\ pc'[u] \in {"exitBlock", "exitTake", "returned"}
                                 => phase[u] = NumBarriers
Steady == Pending' = Pending /\ Finished' = Finished

\* Steps that spawn and finish no deferred task.
LEMMA SteadyTasks ==
    ASSUME Used \subseteq Used', \A n \in Used' \ Used : ~IsDeferred(n)',
           \A n \in Used : IsDeferred(n)' <=> IsDeferred(n),
           \A n \in Used : IsDeferred(n) => (pc'[n] \in BodyOver <=> pc[n] \in BodyOver)
    PROVE  Steady
  BY DEF Steady, Pending, Finished

\* A task that goes on away from the barriers.
LEMMA GoesAside ==
    ASSUME Types, PlaceInv, NEW t \in Thread, NEW l, Goes(t, l), UNCHANGED barrierVars,
           pc[Current(t)] \notin AtBarrier, l \notin AtBarrier,
           l \in {"exitBlock", "exitTake", "returned"} /\ Current(t) = t => phase[t] = NumBarriers
    PROVE  Aside
<1>1. \A c \in Task : pc'[c] = IF c = Current(t) THEN l ELSE pc[c]
    BY StayPc DEF Goes, PlaceInv
<1> QED
    BY <1>1, Implicit DEF Aside

\* A task that goes on within or outside its body.
LEMMA GoesSteady ==
    ASSUME Types, PlaceInv, NEW t \in Thread, NEW l, Goes(t, l),
           IsDeferred(Current(t)) => (l \in BodyOver <=> pc[Current(t)] \in BodyOver)
    PROVE  Steady
<1>1. \A c \in Task : pc'[c] = IF c = Current(t) THEN l ELSE pc[c]
    BY StayPc DEF Goes, PlaceInv
<1>2. Used' = Used /\ \A n : IsDeferred(n)' <=> IsDeferred(n)
    BY DEF Goes, SameTasks, Used, IsDeferred, IsImplicit
<1> QED
    BY <1>1, <1>2, UsedTasks, SteadyTasks

\* Taking a task, in a wait, an exit or a barrier.
LEMMA TakesAside ==
    ASSUME Types, PlaceInv, NEW t \in Thread, NEW n \in Used, NEW l, Takes(t, n, l),
           UNCHANGED barrierVars,
           \/ l = pc[Current(t)] /\ l \in Draining
           \/ l = "waitTest" /\ pc[Current(t)] = "waitTake"
           \/ /\ l = "exitBlock" /\ pc[Current(t)] = "exitTake"
              /\ Current(t) = t => phase[t] = NumBarriers
    PROVE  Aside /\ Steady
<1>1. n \in Explicit /\ n \notin Thread /\ pc[n] = "queued" /\ l \in Labels /\ Pushes(t, n, l) /\ SameTasks
    BY UsedTasks DEF Takes, TakenOut, Below, Labels
<1>2. pc[n] \notin OwnLabels /\ pc[n] \notin BodyOver /\ "body" \notin BodyOver
    BY <1>1 DEF OwnLabels, Started, BodyOver, Uncounted
<1>3. /\ \A c \in Task : pc'[c] = IF c = n THEN "body" ELSE IF c = Current(t) THEN l ELSE pc[c]
    BY <1>1, <1>2, PushPc DEF PlaceInv
<1>4. Aside
    BY <1>1, <1>3, Implicit DEF Aside, AtBarrier
<1>5. l \in BodyOver <=> pc[Current(t)] \in BodyOver
    BY DEF BodyOver, Uncounted
<1>6. Used' = Used /\ \A m : IsDeferred(m)' <=> IsDeferred(m)
    BY <1>1 DEF SameTasks, Used, IsDeferred, IsImplicit
<1> QED
    BY <1>2, <1>3, <1>4, <1>5, <1>6, UsedTasks, SteadyTasks

\* Returning to the task below.
LEMMA ReturnsAside ==
    ASSUME Types, PlaceInv, NEW t \in Thread, Returns(t), UNCHANGED barrierVars
    PROVE  Aside /\ Steady
<1>1. /\ Current(t) \notin Thread /\ Pops(t) /\ SameTasks
      /\ pc[Current(t)] \in {"returned", "finish"}
    BY DEF Returns
<1>2. PICK o \in Task : o = Under(t)
    BY <1>1, PopPc DEF PlaceInv
<1>3. \A c \in Task : pc'[c] = IF c = Current(t) THEN "done"
                               ELSE IF c = o /\ pc[c] = "createReturn" THEN "body" ELSE pc[c]
    BY <1>1, <1>2, PopPc DEF PlaceInv
<1>4. Aside
    BY <1>1, <1>3, Implicit DEF Aside, AtBarrier
<1>5. Used' = Used /\ \A m : IsDeferred(m)' <=> IsDeferred(m)
    BY <1>1 DEF SameTasks, Used, IsDeferred, IsImplicit
<1>6. \A c \in Used : pc'[c] \in BodyOver <=> pc[c] \in BodyOver
    BY <1>1, <1>3, UsedTasks DEF BodyOver, Uncounted
<1> QED
    BY <1>4, <1>5, <1>6, SteadyTasks

\* Putting a task, or running it at once.
LEMMA PutAside ==
    ASSUME Types, PlaceInv, NEW t \in Thread, Put(t) \/ PutFull(t)
    PROVE  Aside /\ Steady
<1>1. PICK n : n = Fresh(t)
    OBVIOUS
<1>2. PICK c : c = Current(t)
    OBVIOUS
<1>3. PICK l : l = IF Put(t) THEN "body" ELSE "createReturn"
    OBVIOUS
<1>4. PICK m : m = IF Put(t) THEN "queued" ELSE "body"
    OBVIOUS
<1>5. /\ SameTasks /\ UNCHANGED barrierVars /\ pc[c] = "put"
      /\ pc' = [pc EXCEPT ![c] = l, ![n] = m]
    BY <1>1, <1>2, <1>3, <1>4 DEF Put, PutFull, Switch, taskVars, At, SameTasks
<1>6. /\ n \in Used /\ n \in Explicit /\ n \notin Thread /\ pc[n] = "created" /\ c \in Task
    BY <1>1, <1>2, <1>5, FreshTask, Top, UsedTasks DEF PlaceInv, At
<1>7. \A d \in Task : pc'[d] = IF d = n THEN m ELSE IF d = c THEN l ELSE pc[d]
    BY <1>5, <1>6 DEF Types
<1>8. Aside
    <2>1. /\ l \in {"body", "createReturn"}
          /\ {"body", "put", "createReturn"} \cap AtBarrier = {}
        BY <1>3 DEF AtBarrier
    <2>2. \A u \in Thread : pc'[u] = IF u = c THEN l ELSE pc[u]
        BY <1>6, <1>7, Implicit
    <2> QED
        BY <1>5, <2>1, <2>2 DEF Aside
<1>9. Used' = Used /\ \A d : IsDeferred(d)' <=> IsDeferred(d)
    BY <1>5 DEF SameTasks, Used, IsDeferred, IsImplicit
<1>10. \A d \in Used : pc'[d] \in BodyOver <=> pc[d] \in BodyOver
    <2>1. l \notin BodyOver /\ m \notin BodyOver /\ pc[n] \notin BodyOver /\ pc[c] \notin BodyOver
        BY <1>3, <1>4, <1>5, <1>6 DEF BodyOver, Uncounted
    <2> QED
        BY <1>7, <2>1, UsedTasks
<1> QED
    BY <1>8, <1>9, <1>10, SteadyTasks

\* A creation spawns a task if it is deferred.
LEMMA CreateAside ==
    ASSUME Types, PlaceInv, NEW t \in Thread, NEW k, CreateImmediate(t, k) \/ CreateDeferred(t, k)
    PROVE  /\ Aside
           /\ CreateImmediate(t, k) => Steady
           /\ CreateDeferred(t, k) => /\ pc[Current(t)] = "body"
                                      /\ created + 1 \in Explicit
                                      /\ created + 1 \notin Pending \cup Finished
                                      /\ Pending' = Pending \cup {created + 1}
                                      /\ Finished' = Finished
<1>1. PICK n : n = created + 1
    OBVIOUS
<1>2. PICK c : c = Current(t)
    OBVIOUS
<1>3. PICK l : l = IF CreateImmediate(t, k) THEN "createReturn" ELSE "put"
    OBVIOUS
<1>4. PICK m : m = IF CreateImmediate(t, k) THEN "body" ELSE "created"
    OBVIOUS
<1>5. /\ NewTask(t, k) /\ UNCHANGED barrierVars
      /\ pc' = [pc EXCEPT ![c] = l, ![n] = m]
      /\ k.mayDelay <=> ~CreateImmediate(t, k)
    BY <1>1, <1>2, <1>3, <1>4 DEF CreateImmediate, CreateDeferred
<1>6. /\ n \in Explicit /\ n \in Task /\ n \notin Used /\ n \notin Thread
      /\ Used' = Used \cup {n} /\ pc[n] = "unused" /\ c \in Used \cup Thread /\ pc[c] = "body"
      /\ kind'[n] = k
      /\ \A d \in Used : (IsDeferred(d)' <=> IsDeferred(d))
    BY <1>1, <1>2, <1>5, Creation
<1>7. \A d \in Task : pc'[d] = IF d = n THEN m ELSE IF d = c THEN l ELSE pc[d]
    BY <1>5, <1>6, UsedTasks, Names DEF Types
<1>8. Aside
    <2>1. /\ l \in {"put", "createReturn"}
          /\ {"body", "put", "createReturn"} \cap AtBarrier = {}
        BY <1>3 DEF AtBarrier
    <2>2. \A u \in Thread : pc'[u] = IF u = c THEN l ELSE pc[u]
        BY <1>6, <1>7, Implicit
    <2> QED
        BY <1>5, <1>6, <2>1, <2>2 DEF Aside
<1>9. \A d \in Used : pc'[d] \in BodyOver <=> pc[d] \in BodyOver
    BY <1>3, <1>6, <1>7, UsedTasks DEF BodyOver, Uncounted
<1>10. IsDeferred(n)' <=> ~CreateImmediate(t, k)
    BY <1>5, <1>6 DEF IsDeferred, IsImplicit
<1>11. CASE CreateImmediate(t, k)
    <2>1. Steady
        BY <1>6, <1>9, <1>10, <1>11, SteadyTasks
    <2>2. ~CreateDeferred(t, k)
        BY <1>5, <1>11 DEF CreateDeferred
    <2> QED
        BY <1>8, <2>1, <2>2
<1>12. CASE ~CreateImmediate(t, k)
    <2>1. pc'[n] \notin BodyOver
        BY <1>4, <1>6, <1>7, <1>12 DEF BodyOver, Uncounted
    <2>2. n \notin Pending \cup Finished /\ Pending' = Pending \cup {n} /\ Finished' = Finished
        BY <1>6, <1>9, <1>10, <1>12, <2>1 DEF Pending, Finished
    <2> QED
        BY <1>1, <1>2, <1>6, <1>8, <1>12, <2>2
<1> QED
    BY <1>11, <1>12

\* The end of a body finishes a deferred task.
LEMMA ExitAside ==
    ASSUME Types, PlaceInv, NEW t \in Thread, Exit(t)
    PROVE  /\ Aside
           /\ ~IsDeferred(Current(t)) => Steady
           /\ IsDeferred(Current(t)) => /\ Current(t) \in Pending
                                        /\ Pending' = Pending \ {Current(t)}
                                        /\ Finished' = Finished \cup {Current(t)}
<1>1. PICK l : l = IF IsDeferred(Current(t)) THEN "exitDec" ELSE "exitBlock"
    OBVIOUS
<1>2. /\ UNCHANGED barrierVars /\ pc[Current(t)] = "body" /\ Goes(t, l)
      /\ Current(t) = t => phase[t] = NumBarriers
    BY <1>1, Moves DEF Exit, At, IsImplicit
<1>3. l \in {"exitDec", "exitBlock"} /\ l \notin AtBarrier /\ pc[Current(t)] \notin AtBarrier
    BY <1>1, <1>2 DEF AtBarrier
<1>4. Aside
    BY <1>2, <1>3, GoesAside
<1>5. ~IsDeferred(Current(t)) => Steady
    BY <1>2, GoesSteady
<1>6. ASSUME IsDeferred(Current(t))
      PROVE  /\ Current(t) \in Pending
             /\ Pending' = Pending \ {Current(t)}
             /\ Finished' = Finished \cup {Current(t)}
    <2>1. Used' = Used /\ \A n : IsDeferred(n)' <=> IsDeferred(n)
        BY <1>2 DEF Goes, SameTasks, Used, IsDeferred, IsImplicit
    <2>2. \A c \in Task : pc'[c] = IF c = Current(t) THEN l ELSE pc[c]
        BY <1>2, StayPc DEF Goes, PlaceInv
    <2>3. Current(t) \in Used
        BY <1>6, Top DEF PlaceInv, IsDeferred, IsImplicit
    <2>4. l \in BodyOver /\ pc[Current(t)] \notin BodyOver
        BY <1>2, <1>3 DEF BodyOver, Uncounted
    <2> QED
        BY <1>6, <2>1, <2>2, <2>3, <2>4, UsedTasks DEF Pending, Finished
<1> QED
    BY <1>4, <1>5, <1>6

\* the steps that neither spawn nor finish a task, nor come to or leave a barrier
Plain(t) ==
    \/ \E k \in Kinds : CreateImmediate(t, k)
    \/ Wait(t) \/ Take(t) \/ Miss(t) \/ Put(t) \/ PutFull(t) \/ WaitTest(t)
    \/ ExitDec(t) \/ ExitCheck(t) \/ ExitBlock(t)
    \/ ReturnDelete(t) \/ ReturnKeep(t) \/ MarkFinished(t)

\* No plain step is seen by the region or by the barriers.
LEMMA PlainAside ==
    ASSUME Types, PlaceInv, PhaseInv, NEW t \in Thread, Plain(t)
    PROVE  Aside /\ Steady
<1>1. /\ {"body", "waitTest", "waitTake", "exitDec", "exitCheck", "exitBlock", "exitTake",
          "returned", "finish"} \cap AtBarrier = {}
      /\ {"exitDec", "exitCheck", "exitBlock", "exitTake", "returned", "finish"} \subseteq BodyOver
      /\ {"body", "waitTest", "waitTake"} \cap BodyOver = {}
    BY DEF AtBarrier, BodyOver, Uncounted
<1>2. ASSUME pc[Current(t)] \in {"exitBlock", "exitTake", "returned"}, Current(t) = t
      PROVE  phase[t] = NumBarriers
    BY <1>2 DEF PhaseInv
<1>3. ASSUME NEW l \in {"body", "waitTest", "waitTake"}, Goes(t, l), UNCHANGED barrierVars,
             pc[Current(t)] \in {"body", "waitTest", "waitTake"}
      PROVE  Aside /\ Steady
    <2>1. Aside
        BY <1>1, <1>3, GoesAside
    <2>2. Steady
        BY <1>1, <1>3, GoesSteady
    <2> QED
        BY <2>1, <2>2
<1>4. ASSUME NEW l \in {"exitCheck", "exitBlock", "exitTake", "returned", "finish"}, Goes(t, l),
             UNCHANGED barrierVars,
             pc[Current(t)] \in {"exitDec", "exitCheck", "exitBlock", "exitTake", "returned"},
             Current(t) = t => pc[Current(t)] \notin {"exitDec", "exitCheck"}
      PROVE  Aside /\ Steady
    <2>1. Aside
        BY <1>1, <1>2, <1>4, GoesAside
    <2>2. Steady
        BY <1>1, <1>4, GoesSteady
    <2> QED
        BY <2>1, <2>2
<1>5. pc[Current(t)] \in {"exitDec", "exitCheck"} => Current(t) # t
    BY TopLabel, UsedTasks DEF PlaceInv
<1>6. CASE \E k \in Kinds : CreateImmediate(t, k)
    BY <1>6, CreateAside
<1>7. CASE Wait(t)
    BY <1>3, <1>7, Moves DEF Wait, At
<1>8. CASE Take(t)
    <2>1. UNCHANGED barrierVars
        BY <1>8 DEF Take, WaitTake, ExitTake, BarrierTake, TakeAndSwitch
    <2>2. CASE WaitTake(t)
        BY <2>1, <2>2, Switches, TakesAside
    <2>3. CASE ExitTake(t)
        BY <1>2, <2>1, <2>3, Switches, TakesAside
    <2>4. CASE BarrierTake(t)
        BY <2>1, <2>4, Switches, TakesAside
    <2> QED
        BY <1>8, <2>2, <2>3, <2>4 DEF Take
<1>9. CASE WaitMiss(t)
    BY <1>3, <1>9, Moves DEF WaitMiss, RemoveMiss, At
<1>10. CASE ExitMiss(t)
    BY <1>4, <1>10, Moves DEF ExitMiss, RemoveMiss, At
<1>11. CASE Put(t) \/ PutFull(t)
    BY <1>11, PutAside
<1>12. CASE WaitTest(t)
    <2>1. PICK l : l \in {"body", "waitTake"} /\ Goes(t, l)
        BY <1>12, Moves
    <2> QED
        BY <1>3, <1>12, <2>1 DEF WaitTest, At
<1>13. CASE ExitDec(t)
    BY <1>4, <1>5, <1>13, Moves DEF ExitDec, At
<1>14. CASE ExitCheck(t)
    BY <1>4, <1>5, <1>14, Moves DEF ExitCheck, At
<1>15. CASE ExitBlock(t)
    <2>1. PICK l : l \in {"returned", "exitTake"} /\ Goes(t, l)
        BY <1>15, Moves
    <2> QED
        BY <1>4, <1>15, <2>1 DEF ExitBlock, At
<1>16. CASE ReturnDelete(t) \/ MarkFinished(t)
    BY <1>16, Switches, ReturnsAside DEF ReturnDelete, MarkFinished, PopTo
<1>17. CASE ReturnKeep(t)
    BY <1>4, <1>17, Moves DEF ReturnKeep, At
<1> QED
    BY <1>6, <1>7, <1>8, <1>9, <1>10, <1>11, <1>12, <1>13, <1>14, <1>15, <1>16, <1>17
       DEF Plain, Miss

\* Nobody has passed a barrier that the team is at while a task runs.
LEMMA NotDrained ==
    ASSUME Types, PlaceInv, RunInv, DrainInv, NEW t \in Thread, pc[Current(t)] = "body"
    PROVE  Passed = {} /\ Left = {}
<1>1. pc[t] \notin AtBarrier => t \notin Waiting /\ t \notin AtEnd
    BY DEF Waiting, AtEnd, AtBarrier, Inside, Ended
<1> QED
    BY <1>1, Running DEF DrainInv

\* Every step keeps the barriers in order.
LEMMA BarrierStep ==
    ASSUME Types, PlaceInv, CountInv, RunInv, BarrierInv, NEW t \in Thread,
           Program(t) \/ Take(t) \/ Miss(t) \/ Runtime(t)
    PROVE  BarrierInv' /\ BarrierTypes
<1>1. CASE Plain(t)
    <2>1. Aside /\ Steady
        BY <1>1, PlainAside DEF BarrierInv
    <2> QED
        BY <2>1, ElsewhereBarrier DEF Aside, Steady
<1>2. CASE Exit(t)
    <2>1. Aside /\ Pending' \subseteq Pending
        BY <1>2, ExitAside DEF Steady
    <2> QED
        BY <2>1, ElsewhereBarrier DEF Aside
<1>3. CASE \E k \in Kinds : CreateDeferred(t, k)
    <2>1. Aside /\ pc[Current(t)] = "body"
        BY <1>3, CreateAside
    <2> QED
        BY <2>1, NotDrained, ElsewhereBarrier DEF Aside, BarrierInv
<1> QED
    BY <1>1, <1>2, <1>3, ArriveBarrier, PassBarrier, ResetBarrier, ToggleBarrier, LeaveBarrier,
       EndArriveBarrier, EndPassBarrier, JoinBarrier DEF Plain, Program, Runtime

\* ... and so does stuttering.
LEMMA BarrierStutter ==
    ASSUME Types, PlaceInv, BarrierInv, UNCHANGED vars
    PROVE  BarrierInv'
<1>1. UNCHANGED barrierVars /\ pc' = pc /\ created' = created /\ kind' = kind
    BY DEF vars, taskVars
<1>2. Pending' = Pending
    BY <1>1 DEF Pending, Used, IsDeferred, IsImplicit
<1> QED
    BY <1>1, <1>2, ElsewhereBarrier

\* At first nobody is at a barrier.
LEMMA BarrierInit ==
    ASSUME Init
    PROVE  BarrierInv
<1>1. /\ \A t \in Thread : pc[t] = "body" /\ phase[t] = 0 /\ savedFlag[t] = 0
      /\ barrierCount = 0 /\ barrierCount2 = 0 /\ barrierFlag = 0 /\ exitCount = 0
    BY Names DEF Init, IsImplicit
<1>2. Waiting = {} /\ Passed = {} /\ Resetting = {} /\ AtEnd = {} /\ Left = {}
    BY <1>1 DEF Waiting, Passed, Resetting, AtEnd, Left, Inside, Ended
<1>3. PhaseInv
    BY <1>1, Names DEF PhaseInv, Inside, Ended
<1>4. StepInv
    <2>1. \A t \in Thread : Opened(t) = 0
        BY <1>1 DEF Opened
    <2> QED
        BY <1>2, <2>1 DEF StepInv
<1>5. DrainInv
    BY <1>2 DEF DrainInv
<1>6. TurnInv
    <2>1. Waiting \cup AtEnd = {} /\ Cardinality({}) = 0
        BY <1>2, FS_EmptySet
    <2> QED
        BY <1>1, <1>2, <2>1, Names DEF TurnInv
<1> QED
    BY <1>3, <1>4, <1>5, <1>6 DEF BarrierInv

-----------------------------------------------------------------------------
(* The invariant of the specification *)

TaskTypes ==
    /\ created' \in 0..MaxTasks
    /\ kind' \in [Explicit -> TaskKind] /\ parent' \in [Explicit -> Task]
    /\ mem' \in [Task -> {"unused", "live", "deleted"}]
    /\ siblings' \in [Task -> 0..MaxTasks]

\* Types of what the other parts of the invariant do not mention.
LEMMA TypeStep ==
    ASSUME Types, PlaceInv, CountInv, NEW t \in Thread,
           Program(t) \/ Take(t) \/ Miss(t) \/ Runtime(t)
    PROVE  TaskTypes
<1>1. CASE UNCHANGED <<created, kind, parent, mem, siblings>>
    BY <1>1 DEF Types, TaskTypes
<1>2. ASSUME NEW k \in Kinds, CreateImmediate(t, k) \/ CreateDeferred(t, k) PROVE TaskTypes
    <2>1. NewTask(t, k) /\ siblings' = siblings
        BY <1>2 DEF CreateImmediate, CreateDeferred, countVars
    <2>2. k \in TaskKind /\ Current(t) \in Task /\ MaxTasks \in Nat
        BY KindAssumption, Names, Top DEF PlaceInv
    <2>3. created' \in 0..MaxTasks
        BY <2>1, <2>2 DEF NewTask, Types
    <2> QED
        BY <2>1, <2>2, <2>3 DEF NewTask, Types, TaskTypes
<1>3. CASE ExitDec(t)
    <2>1. PICK m : m = numChildren[parent[Current(t)]]
        OBVIOUS
    <2>2. m \in 1..MaxTasks /\ MaxTasks \in Nat
        BY <1>3, <2>1, ExitDecCounts, Names
    <2>3. /\ siblings' = [siblings EXCEPT ![Current(t)] = m - 1] /\ m - 1 \in 0..MaxTasks
          /\ UNCHANGED <<created, kind, parent, mem>>
        BY <1>3, <2>1, <2>2 DEF ExitDec, taskVars
    <2> QED
        BY <2>3 DEF Types, TaskTypes
<1>4. CASE ExitCheck(t) \/ ReturnDelete(t) \/ EndPass(t)
    <2>1. UNCHANGED <<created, kind, parent, siblings>>
        BY <1>4 DEF ExitCheck, ReturnDelete, EndPass, PopTo, countVars
    <2>2. mem' \in [Task -> {"unused", "live", "deleted"}]
        <3>1. ExitCheck(t) => \E p, v : v \in {mem[p], "deleted"} /\ mem' = [mem EXCEPT ![p] = v]
            BY DEF ExitCheck
        <3>2. ReturnDelete(t) => mem' = [mem EXCEPT ![Current(t)] = "deleted"]
            BY DEF ReturnDelete
        <3>3. EndPass(t) => mem' = [mem EXCEPT ![t] = "deleted"]
            BY DEF EndPass
        <3> QED
            BY <1>4, <3>1, <3>2, <3>3 DEF Types
    <2> QED
        BY <2>1, <2>2 DEF Types, TaskTypes
<1>5. CASE Wait(t) \/ Exit(t) \/ BarrierArrive(t) \/ Miss(t) \/ WaitTest(t) \/ Put(t) \/ PutFull(t)
           \/ ExitBlock(t) \/ ReturnKeep(t)
    <2>1. UNCHANGED taskVars /\ siblings' = siblings
        BY <1>5 DEF Wait, Exit, BarrierArrive, Miss, WaitMiss, ExitMiss, RemoveMiss, WaitTest, Put,
                    PutFull, ExitBlock, ReturnKeep, countVars
    <2> QED
        BY <1>1, <2>1 DEF taskVars
<1>6. CASE Take(t) \/ MarkFinished(t) \/ BarrierPass(t) \/ BarrierReset(t) \/ BarrierToggle(t)
           \/ BarrierLeave(t) \/ EndArrive(t) \/ MasterJoin(t)
    <2>1. UNCHANGED taskVars /\ siblings' = siblings
        BY <1>6 DEF Take, WaitTake, ExitTake, BarrierTake, TakeAndSwitch, MarkFinished, PopTo,
                    BarrierPass, BarrierReset, BarrierToggle, BarrierLeave, EndArrive,
                    MasterJoin, countVars, taskVars
    <2> QED
        BY <1>1, <2>1 DEF taskVars
<1> QED
    BY <1>2, <1>3, <1>4, <1>5, <1>6 DEF Program, Runtime

\* The initial values have their types.
LEMMA TypesInit ==
    ASSUME Init
    PROVE  Types
<1>1. MaxTasks \in Nat /\ Master \in Task
    BY Names
<1>2. /\ created \in 0..MaxTasks /\ siblings \in [Task -> 0..MaxTasks]
      /\ parent \in [Explicit -> Task]
      /\ kind \in [Explicit -> TaskKind]
    BY <1>1 DEF Init, TaskKind
<1>3. /\ state \in [Task -> States] /\ pc \in [Task -> Labels]
      /\ mem \in [Task -> {"unused", "live", "deleted"}]
    BY DEF Init, States, Labels
<1>4. /\ stack \in [Thread -> Seq(Task)]
      /\ tiedQ \in [Thread -> Seq(Explicit)] /\ untiedQ \in [Thread -> Seq(Explicit)]
    <2>1. \A t \in Thread : <<t>> \in Seq(Task)
        BY Names
    <2> QED
        BY <2>1 DEF Init
<1>5. /\ numChildren \in [Task -> Nat] /\ numBlocking \in [Task -> Nat] /\ numPending \in Nat
      /\ sdepth \in [Task -> Nat] /\ suspended \in [Thread -> Nat]
      /\ barrierCount \in Nat /\ barrierCount2 \in Nat /\ exitCount \in Nat
      /\ barrierFlag \in {0, 1} /\ savedFlag \in [Thread -> {0, 1}] /\ phase \in [Thread -> Nat]
    BY DEF Init
<1> QED
    BY <1>2, <1>3, <1>4, <1>5 DEF Types

\* The invariant holds at first ...
LEMMA InvInit ==
    Init => IInv
  BY TypesInit, PlaceInit, CountInit, RunInit, BarrierInit DEF IInv

\* ... every step of a thread keeps it ...
LEMMA InvStep ==
    ASSUME IInv, NEW t \in Thread, Program(t) \/ Take(t) \/ Miss(t) \/ Runtime(t)
    PROVE  IInv'
<1>1. Types /\ PlaceInv /\ CountInv /\ RunInv /\ BarrierInv
    BY DEF IInv
<1>2. PlaceInv' /\ PlaceTypes
    BY <1>1, PlaceStep
<1>3. CountInv' /\ CountTypes
    BY <1>1, CountStep
<1>4. RunInv' /\ RunTypes
    BY <1>1, RunStep
<1>5. BarrierInv' /\ BarrierTypes
    BY <1>1, BarrierStep
<1>6. TaskTypes
    BY <1>1, TypeStep
<1>7. Types'
    BY <1>2, <1>3, <1>4, <1>5, <1>6
       DEF Types, PlaceTypes, QueueTypes, CountTypes, RunTypes, BarrierTypes, TaskTypes
<1> QED
    BY <1>2, <1>3, <1>4, <1>5, <1>7 DEF IInv

\* ... stuttering keeps it ...
LEMMA InvStutter ==
    ASSUME IInv, UNCHANGED vars
    PROVE  IInv'
<1>1. Types'
    BY DEF IInv, Types, vars, taskVars, countVars, queueVars, stackVars, barrierVars
<1> QED
    BY <1>1, PlaceStutter, CountStutter, RunStutter, BarrierStutter DEF IInv

\* ... and so it is inductive.
LEMMA InvNext ==
    IInv /\ [Next]_vars => IInv'
  BY InvStep, InvStutter DEF Next, Over

(* The inductive invariant of the tasking core: for any team, any number of *)
(* tasks of any kinds, any capacity of the queues and any number of         *)
(* barriers.                                                                *)
THEOREM Invariant ==
    Spec => []IInv
  BY InvInit, InvNext, PTL DEF Spec

\* A sequence that is short enough is a bounded one.
LEMMA ShortSeq ==
    ASSUME NEW S, NEW s \in Seq(S), NEW k \in Nat, Len(s) <= k
    PROVE  s \in BoundedSeq(S, k)
<1>1. Len(s) \in 0..k /\ s \in [1..Len(s) -> S]
    OBVIOUS
<1>2. s \in UNION {[1..m -> S] : m \in 0..k}
    BY <1>1
<1> QED
    BY <1>2 DEF BoundedSeq, SeqOf

(* Types and bounds: no counter goes below 0 or above the number of tasks,  *)
(* no barrier count above the team's size, no call stack has more frames    *)
(* than there are tasks, no queue more than its slots.                      *)
THEOREM TypeCorrect ==
    Spec => []TypeOK
<1>1. IInv => TypeOK
    <2> SUFFICES ASSUME Types, PlaceInv, CountInv, RunInv, BarrierInv PROVE TypeOK
        BY DEF IInv
    <2>1. numChildren \in [Task -> 0..MaxTasks] /\ numBlocking \in [Task -> 0..MaxTasks]
          /\ numPending \in 0..MaxTasks
        <3>1. \A c \in Task : numChildren[c] \in 0..MaxTasks /\ numBlocking[c] \in 0..MaxTasks
            BY CountedSets DEF CountInv, CountersExact
        <3>2. numPending \in 0..MaxTasks
            BY CountedSets DEF CountInv, CountersExact
        <3> QED
            BY <3>1, <3>2 DEF Types
    <2>2. sdepth \in [Task -> 0..MaxTasks]
        <3>1. ASSUME NEW t \in Thread PROVE sdepth[t] = 0
            <4>1. 1 \in 1..Len(stack[t]) /\ stack[t][1] = t
                BY Top DEF PlaceInv, StackInv
            <4>2. sdepth[t] < 1 /\ sdepth[t] \in Nat
                BY <4>1, Names DEF RunInv, DepthInv, Types
            <4> QED
                BY <4>2
        <3>2. \A c \in Task : sdepth[c] \in 0..MaxTasks
            BY <3>1, Names DEF RunInv, DepthInv, Types
        <3> QED
            BY <3>2 DEF Types
    <2>3. stack \in [Thread -> BoundedSeq(Task, MaxTasks + 1)]
        <3>1. ASSUME NEW t \in Thread PROVE stack[t] \in BoundedSeq(Task, MaxTasks + 1)
            <4>1. stack[t] \in Seq(Task) /\ Len(stack[t]) <= MaxTasks + 1 /\ MaxTasks + 1 \in Nat
                <5>1. Len(stack[t]) \in 1..(MaxTasks + 1)
                    BY StackLength
                <5>2. stack[t] \in Seq(Task) /\ MaxTasks \in Nat
                    BY Names DEF Types
                <5> QED
                    BY <5>1, <5>2
            <4> QED
                BY <4>1, ShortSeq
        <3> QED
            BY <3>1 DEF Types
    <2>4. suspended \in [Thread -> 0..MaxTasks]
        <3>1. ASSUME NEW t \in Thread PROVE suspended[t] \in 0..MaxTasks
            <4>1. PICK k : k = Len(stack[t]) - 1
                OBVIOUS
            <4>2. k \in 0..MaxTasks /\ MaxTasks \in Nat
                BY <4>1, StackLength, Names
            <4>3. IsFiniteSet(1..k) /\ Cardinality(1..k) = k
                <5>1. 1 \in Int /\ k \in Int
                    BY <4>2
                <5> QED
                    BY <4>2, <5>1, FS_Interval
            <4>4. Suspended(t) \subseteq 1..k
                BY <4>1 DEF Suspended
            <4>5. Cardinality(Suspended(t)) <= k /\ Cardinality(Suspended(t)) \in Nat
                BY <4>3, <4>4, FS_Subset, FS_CardinalityType
            <4> QED
                BY <4>2, <4>5 DEF RunInv, SuspendInv
        <3> QED
            BY <3>1 DEF Types
    <2>5. /\ tiedQ \in [Thread -> BoundedSeq(Explicit, QueueCap)]
          /\ untiedQ \in [Thread -> BoundedSeq(Explicit, QueueCap)]
        <3>1. ASSUME NEW t \in Thread
              PROVE  tiedQ[t] \in BoundedSeq(Explicit, QueueCap) /\ untiedQ[t] \in BoundedSeq(Explicit, QueueCap)
            <4>1. /\ tiedQ[t] \in Seq(Explicit) /\ untiedQ[t] \in Seq(Explicit) /\ QueueCap \in Nat
                  /\ Len(tiedQ[t]) <= QueueCap /\ Len(untiedQ[t]) <= QueueCap
                BY Names DEF PlaceInv, QueueInv, Types
            <4> QED
                BY <4>1, ShortSeq
        <3> QED
            BY <3>1 DEF Types
    <2>6. barrierCount \in 0..TeamSize /\ barrierCount2 \in 0..TeamSize /\ exitCount \in 0..TeamSize
        <3>1. /\ Waiting \cup AtEnd \in SUBSET Thread /\ Passed \in SUBSET Thread
              /\ Left \in SUBSET Thread
            BY DEF Waiting, AtEnd, Passed, Left
        <3>2. ASSUME NEW S \in SUBSET Thread PROVE Cardinality(S) \in 0..TeamSize
            BY PartOfTeam, Names
        <3>3. 0 \in 0..TeamSize
            BY Names
        <3> QED
            BY <3>1, <3>2, <3>3 DEF BarrierInv, TurnInv
    <2>7. phase \in [Thread -> 0..NumBarriers]
        BY Names DEF BarrierInv, PhaseInv, Types
    <2> QED
        BY <2>1, <2>2, <2>3, <2>4, <2>5, <2>6, <2>7 DEF TypeOK, Types
<1> QED
    BY <1>1, Invariant, PTL

(* num_pending_tasks, num_children and num_blocking_children always agree   *)
(* with what the tasks have done, although each is updated in a step of its *)
(* own (omp_task.c:129-133, 234-235, 261-267).                              *)
THEOREM CountersAreExact ==
    Spec => []CountersExact
<1>1. IInv => CountersExact
    BY DEF IInv, CountInv
<1> QED
    BY <1>1, Invariant, PTL

\* a task is in as many places as it is within
LEMMA PlaceOf ==
    ASSUME NEW f, Once(f), NEW what, NEW n
    PROVE  /\ ~Within(n, f) => PlacesIn(f, what, n) = {}
           /\ Within(n, f) => \E x : PlacesIn(f, what, n) = {x}
<1>1. ASSUME ~Within(n, f) PROVE PlacesIn(f, what, n) = {}
    BY <1>1 DEF Within, PlacesIn
<1>2. ASSUME NEW t \in Thread, NEW i \in DOMAIN f[t], f[t][i] = n
      PROVE  PlacesIn(f, what, n) = {<<what, t, i>>}
    BY <1>2 DEF Once, PlacesIn
<1> QED
    BY <1>1, <1>2 DEF Within

(* No task is lost, queued twice or run twice, also when a put fails and    *)
(* the creator runs the task itself (omp_task.c:136-141).                   *)
THEOREM InOnePlace ==
    Spec => []OnePlace
<1>1. IInv => OnePlace
    <2> SUFFICES ASSUME PlaceInv, Types, NEW n \in Used
                 PROVE  Cardinality(Places(n)) = IF pc[n] \in {"created", "done"} THEN 0 ELSE 1
        BY DEF IInv, OnePlace
    <2>1. /\ Once(stack) /\ Once(tiedQ) /\ Once(untiedQ)
          /\ Within(n, stack) <=> pc[n] \in OwnLabels
          /\ Within(n, tiedQ) <=> pc[n] = "queued" /\ IsTied(n)
          /\ Within(n, untiedQ) <=> pc[n] = "queued" /\ ~IsTied(n)
          /\ pc[n] \in OwnLabels \cup {"created", "queued", "done"}
        BY UsedTasks DEF PlaceInv, StackInv, QueueInv, PcInv
    <2>2. OwnLabels \cap {"created", "queued", "done"} = {}
        BY DEF OwnLabels, Started
    <2>3. \A x : Cardinality({x}) = 1 /\ Cardinality({}) = 0
        BY FS_Singleton, FS_EmptySet
    <2>4. /\ ~Within(n, stack) => PlacesIn(stack, "stack", n) = {}
          /\ ~Within(n, tiedQ) => PlacesIn(tiedQ, "tied", n) = {}
          /\ ~Within(n, untiedQ) => PlacesIn(untiedQ, "untied", n) = {}
        BY <2>1, PlaceOf
    <2>5. CASE pc[n] \in {"created", "done"}
        <3>1. Places(n) = {}
            BY <2>1, <2>2, <2>4, <2>5 DEF Places
        <3> QED
            BY <2>3, <2>5, <3>1
    <2>6. CASE pc[n] \in OwnLabels
        <3>1. PICK x : PlacesIn(stack, "stack", n) = {x}
            BY <2>1, <2>6, PlaceOf
        <3>2. Places(n) = {x}
            BY <2>1, <2>2, <2>4, <2>6, <3>1 DEF Places
        <3> QED
            BY <2>2, <2>3, <2>6, <3>2
    <2>7. CASE pc[n] = "queued" /\ IsTied(n)
        <3>1. PICK x : PlacesIn(tiedQ, "tied", n) = {x}
            BY <2>1, <2>7, PlaceOf
        <3>2. Places(n) = {x}
            BY <2>1, <2>2, <2>4, <2>7, <3>1 DEF Places
        <3> QED
            BY <2>2, <2>3, <2>7, <3>2
    <2>8. CASE pc[n] = "queued" /\ ~IsTied(n)
        <3>1. PICK x : PlacesIn(untiedQ, "untied", n) = {x}
            BY <2>1, <2>8, PlaceOf
        <3>2. Places(n) = {x}
            BY <2>1, <2>2, <2>4, <2>8, <3>1 DEF Places
        <3> QED
            BY <2>2, <2>3, <2>8, <3>2
    <2> QED
        BY <2>1, <2>5, <2>6, <2>7, <2>8
<1> QED
    BY <1>1, Invariant, PTL

(* A task whose blocking child is not over is still on a call stack: the    *)
(* child may use the frame (omp_task.c:251-259).                            *)
THEOREM FramesStay ==
    Spec => []BlockingFrames
<1>1. IInv => BlockingFrames
    <2> SUFFICES ASSUME PlaceInv, Types, CountInv, NEW n \in Used, IsDeferred(n), kind[n].blocks,
                        pc[n] \notin Gone
                 PROVE  \E t \in Thread : parent[n] \in ToSet(stack[t])
        BY DEF IInv, BlockingFrames
    <2>1. n \in Blocking(parent[n]) /\ parent[n] \in Used \cup Thread
          /\ pc[parent[n]] \notin {"created", "queued"}
        BY DEF Blocking, Children, PlaceInv, ParentInv
    <2>2. CASE parent[n] \in Thread
        <3>1. stack[parent[n]][1] = parent[n] /\ 1 \in DOMAIN stack[parent[n]]
            BY <2>2, Top DEF PlaceInv, StackInv
        <3> QED
            BY <2>2, <3>1 DEF ToSet
    <2>3. CASE parent[n] \in Used
        <3>1. pc[parent[n]] \notin Gone
            BY <2>1, <2>3 DEF CountInv, FrameInv
        <3>2. pc[parent[n]] \in OwnLabels
            BY <2>1, <2>3, <3>1 DEF PlaceInv, PcInv, Gone
        <3> QED
            BY <2>3, <3>2 DEF PlaceInv, StackInv, Within, ToSet
    <2> QED
        BY <2>1, <2>2, <2>3
<1> QED
    BY <1>1, Invariant, PTL

-----------------------------------------------------------------------------
(* Who ends a taskwait *)

\* Only the test of a taskwait that finds num_children at 0 ends it.
LEMMA WaitOver ==
    ASSUME Types, PlaceInv, RunInv, NEW t \in Thread,
           Program(t) \/ Take(t) \/ Miss(t) \/ Runtime(t),
           NEW c \in Task, state[c] = "WAITING", state'[c] = "RUNNING"
    PROVE  WaitTest(t) /\ c = Current(t) /\ numChildren[c] = 0
<1>1. pc[c] \in {"waitTest", "waitTake"}
    BY DEF RunInv, StateInv
<1>2. state' # state /\ Current(t) \in Task /\ t \in Task
    BY Top, Names DEF PlaceInv
<1>3. ASSUME NEW d \in Task, NEW s, state' = [state EXCEPT ![d] = s]
      PROVE  d = c /\ s = "RUNNING"
    BY <1>3 DEF Types
<1>4. ~Wait(t) /\ ~Exit(t) /\ ~BarrierArrive(t) /\ ~EndArrive(t)
    BY <1>2, <1>3 DEF Wait, Exit, BarrierArrive, EndArrive
<1>5. ~ExitDec(t) /\ ~ExitCheck(t) /\ ~ExitBlock(t) /\ ~Miss(t) /\ ~ReturnKeep(t) /\ ~Put(t)
      /\ ~BarrierPass(t) /\ ~BarrierReset(t) /\ ~BarrierToggle(t) /\ ~EndPass(t) /\ ~MasterJoin(t)
    BY <1>2 DEF ExitDec, ExitCheck, ExitBlock, Miss, WaitMiss, ExitMiss, RemoveMiss, ReturnKeep, Put,
                BarrierPass, BarrierReset, BarrierToggle, EndPass, MasterJoin
<1>6. ~BarrierLeave(t)
    <2>1. SUFFICES ASSUME BarrierLeave(t) PROVE FALSE
        OBVIOUS
    <2>2. pc[t] = "barrierWait" /\ state' = [state EXCEPT ![t] = "RUNNING"]
        BY <2>1, Moves DEF BarrierLeave, At
    <2> QED
        BY <1>1, <1>2, <1>3, <2>2
<1>7. ~\E k : CreateDeferred(t, k)
    BY <1>2 DEF CreateDeferred
<1>8. ~\E k : CreateImmediate(t, k)
    BY <1>2, <1>3 DEF CreateImmediate
<1>9. ~Take(t)
    <2>1. SUFFICES ASSUME NEW l, TakeAndSwitch(t, l) PROVE FALSE
        BY DEF Take, WaitTake, ExitTake, BarrierTake
    <2>2. PICK r \in Removable(t) : state' = [state EXCEPT ![r.task] = "RUNNING"]
        BY <2>1 DEF TakeAndSwitch
    <2>3. r.task \in Used /\ r.task \in Task /\ pc[r.task] = "queued"
        BY RemovableTakesOut, UsedTasks DEF PlaceInv, TakenOut
    <2> QED
        BY <1>1, <1>3, <2>2, <2>3
<1>10. ~PutFull(t)
    <2>1. SUFFICES ASSUME PutFull(t) PROVE FALSE
        OBVIOUS
    <2>2. PICK n : n = Fresh(t)
        OBVIOUS
    <2>3. /\ pc[n] = "created" /\ n \in Task
          /\ state' = [state EXCEPT ![Current(t)] = "READY", ![n] = "RUNNING"]
        BY <1>2, <2>1, <2>2, FreshTask, UsedTasks DEF PutFull, PlaceInv
    <2> QED
        BY <1>1, <1>2, <2>3 DEF Types
<1>11. ~ReturnDelete(t) /\ ~MarkFinished(t)
    <2>1. SUFFICES ASSUME NEW s, PopTo(t, s), Returns(t), s = state[Current(t)] \/ s = "FINISHED"
                   PROVE  FALSE
        BY Switches DEF ReturnDelete, MarkFinished
    <2>2. PICK o \in Task : o = Under(t) /\ o # Current(t)
        BY <2>1, PopPc DEF Returns, PlaceInv
    <2>3. state' = [state EXCEPT ![Current(t)] = s,
                                 ![o] = IF pc[o] = "createReturn" THEN "RUNNING" ELSE @]
        BY <2>1, <2>2 DEF PopTo, Under
    <2>4. state'[c] = IF c = o THEN (IF pc[o] = "createReturn" THEN "RUNNING" ELSE state[o])
                      ELSE IF c = Current(t) THEN s ELSE state[c]
        BY <1>2, <2>2, <2>3 DEF Types
    <2> QED
        BY <1>1, <2>1, <2>4
<1>12. WaitTest(t)
    BY <1>4, <1>5, <1>6, <1>7, <1>8, <1>9, <1>10, <1>11 DEF Program, Runtime
<1>13. state' = [state EXCEPT ![Current(t)] = IF numChildren[Current(t)] = 0 THEN "RUNNING" ELSE @]
    BY <1>12 DEF WaitTest
<1>14. numChildren[Current(t)] = 0
    BY <1>2, <1>13 DEF Types
<1> QED
    BY <1>2, <1>3, <1>12, <1>13, <1>14

(* A taskwait ends only when every deferred child has finished its body and *)
(* its last update of the waiting task (omp_task.c:201-208).                *)
THEOREM TaskwaitWaits ==
    Spec => TaskwaitComplete
<1> DEFINE Complete == \A c \in Task : state[c] = "WAITING" /\ state'[c] = "RUNNING"
                            => \A n \in Children(c) : pc[n] \in Uncounted
<1>1. IInv /\ [Next]_vars => [Complete]_vars
    <2> SUFFICES ASSUME IInv, Next, vars' # vars, NEW c \in Task, state[c] = "WAITING",
                        state'[c] = "RUNNING"
                 PROVE  \A n \in Children(c) : pc[n] \in Uncounted
        OBVIOUS
    <2>1. PICK t \in Thread : Program(t) \/ Take(t) \/ Miss(t) \/ Runtime(t)
        BY DEF Next, Over
    <2>2. numChildren[c] = 0
        BY <2>1, WaitOver DEF IInv
    <2>3. Counted(c) = {}
        <3>1. Cardinality(Counted(c)) = 0 /\ IsFiniteSet(Counted(c))
            BY <2>2, CountedSets DEF IInv, CountInv, CountersExact
        <3> QED
            BY <3>1, FS_EmptySet
    <2> QED
        BY <2>3 DEF Counted
<1> QED
    BY <1>1, Invariant, PTL DEF Spec, TaskwaitComplete

-----------------------------------------------------------------------------
(* The region: TaskRuntime implements TaskRegion *)

\* The maximum of a set of numbers, once it is known.
LEMMA MaxIs ==
    ASSUME NEW S \in SUBSET Nat, NEW m \in S, \A x \in S : x <= m
    PROVE  Max(S) = m
<1>1. \E x \in S : \A y \in S : x >= y
    OBVIOUS
<1>2. Max(S) \in S /\ \A y \in S : Max(S) >= y
    BY <1>1 DEF Max
<1>3. PICK k : k = Max(S)
    OBVIOUS
<1>4. k \in Nat /\ m \in Nat /\ k <= m /\ k >= m
    BY <1>2, <1>3
<1> QED
    BY <1>3, <1>4

\* The barriers that have let somebody go are those that have opened, and
\* the one that the first threads have passed.
ReleasedInv == Released = Opened(Master) + IF Passed \cup Left # {} THEN 1 ELSE 0
\* The same, as an implication, to be used of the next state, too.
LEMMA ReleasedIs ==
    Types /\ BarrierInv => ReleasedInv
<1> SUFFICES ASSUME Types, BarrierInv
             PROVE  Released = Opened(Master) + IF Passed \cup Left # {} THEN 1 ELSE 0
    BY DEF ReleasedInv
<1>1. \A t \in Thread : phase[t] \in Nat /\ Opened(t) = Opened(Master)
    BY Names DEF Types, BarrierInv, StepInv
<1>2. ASSUME NEW t \in Thread
      PROVE  Reached(t, PastBarrier) = Opened(t) + IF t \in Passed \cup Left THEN 1 ELSE 0
    <2>1. CASE pc[t] = "barrierWait" /\ savedFlag[t] # barrierFlag
        BY <1>1, <2>1 DEF Reached, Opened, PastBarrier, AtBarrier, Passed, Left, Waiting
    <2>2. CASE ~(pc[t] = "barrierWait" /\ savedFlag[t] # barrierFlag)
        <3>1. t \in Passed \cup Left <=> pc[t] \in PastBarrier
            BY <2>2 DEF PastBarrier, AtBarrier, Passed, Left, Waiting, Inside, BarrierInv, PhaseInv
        <3>2. Opened(t) = phase[t]
            BY <1>1, <2>2 DEF Opened
        <3> QED
            BY <3>1, <3>2 DEF Reached
    <2> QED
        BY <2>1, <2>2
<1>3. PICK p \in Nat : p = Opened(Master)
    BY <1>1, Names DEF Opened
<1>4. \A t \in Thread : Reached(t, PastBarrier) = p + IF t \in Passed \cup Left THEN 1 ELSE 0
    BY <1>1, <1>2, <1>3
<1>5. {Reached(t, PastBarrier) : t \in Thread} \in SUBSET Nat
    BY <1>4
<1>6. Passed \cup Left \subseteq Thread
    BY DEF Passed, Left, Waiting
<1>7. CASE Passed \cup Left = {}
    <2>1. /\ p \in {Reached(t, PastBarrier) : t \in Thread}
          /\ \A x \in {Reached(t, PastBarrier) : t \in Thread} : x <= p
        BY <1>4, <1>7, Names
    <2> QED
        BY <1>3, <1>5, <1>7, <2>1, MaxIs DEF Released
<1>8. CASE Passed \cup Left # {}
    <2>1. /\ p + 1 \in {Reached(t, PastBarrier) : t \in Thread}
          /\ \A x \in {Reached(t, PastBarrier) : t \in Thread} : x <= p + 1
        BY <1>4, <1>6, <1>8
    <2> QED
        BY <1>3, <1>5, <1>8, <2>1, MaxIs DEF Released
<1> QED
    BY <1>7, <1>8

\* what a step leaves of the region's view of the threads
SameView == Arrived' = Arrived /\ phase' = phase /\ Released' = Released

\* Steps aside change nothing the region sees of the threads.
LEMMA AsideView ==
    ASSUME Aside
    PROVE  SameView
<1>1. phase' = phase
    BY DEF Aside, barrierVars
<1>2. \A t \in Thread : \A l \in AtBarrier : pc'[t] = l <=> pc[t] = l
    BY DEF Aside
<1>3. \A t \in Thread : /\ Reached(t, AtBarrier)' = Reached(t, AtBarrier)
                        /\ Reached(t, PastBarrier)' = Reached(t, PastBarrier)
    <2>1. \A t \in Thread : /\ pc'[t] \in AtBarrier <=> pc[t] \in AtBarrier
                            /\ pc'[t] \in PastBarrier <=> pc[t] \in PastBarrier
        BY <1>2 DEF PastBarrier
    <2> QED
        BY <1>1, <2>1 DEF Reached
<1> QED
    BY <1>1, <1>3 DEF SameView, Arrived, Released

\* ... and if no task is spawned or finished, nothing at all.
LEMMA ViewStutters ==
    ASSUME SameView, Steady
    PROVE  UNCHANGED Region!vars
  BY DEF SameView, Steady, Region!vars

\* a thread comes to a barrier
LEMMA ArriveView ==
    ASSUME Types, PlaceInv, BarrierInv, NEW t \in Thread, BarrierArrive(t) \/ EndArrive(t)
    PROVE  Region!Arrive(t)
<1>1. PICK l : l = IF BarrierArrive(t) THEN "barrier" ELSE "endBarrier"
    OBVIOUS
<1>2. /\ Current(t) = t /\ pc[t] \in {"body", "returned"} /\ Goes(t, l) /\ phase' = phase
    BY <1>1, Moves DEF BarrierArrive, EndArrive, At
<1>3. \A u \in Thread : pc'[u] = IF u = t THEN l ELSE pc[u]
    BY <1>2, OwnStep
<1>4. /\ l \in AtBarrier /\ l \notin PastBarrier /\ pc[t] \notin AtBarrier /\ pc[t] \notin PastBarrier
    BY <1>1, <1>2 DEF AtBarrier, PastBarrier
<1>5. phase[t] \in Nat /\ phase[t] <= NumBarriers /\ NumBarriers \in Nat
    BY Names DEF Types, BarrierInv, PhaseInv
<1>6. /\ Reached(t, AtBarrier) = phase[t] /\ Reached(t, AtBarrier)' = phase[t] + 1
      /\ \A u \in Thread : Reached(u, PastBarrier)' = Reached(u, PastBarrier)
      /\ \A u \in Thread \ {t} : Reached(u, AtBarrier)' = Reached(u, AtBarrier)
    BY <1>2, <1>3, <1>4, <1>5 DEF Reached
<1>7. Released' = Released
    BY <1>6 DEF Released
<1>8. Arrived[t] = phase[t] /\ Arrived' = [Arrived EXCEPT ![t] = @ + 1]
    BY <1>6 DEF Arrived
<1>9. Pending' = Pending /\ Finished' = Finished
    <2>1. ~IsDeferred(Current(t))
        BY <1>2 DEF IsDeferred, IsImplicit
    <2> QED
        BY <1>2, <2>1, GoesSteady DEF Steady
<1> QED
    BY <1>2, <1>5, <1>7, <1>8, <1>9 DEF Region!Arrive

\* a thread comes out of a barrier
LEMMA LeaveView ==
    ASSUME Types, PlaceInv, BarrierInv, NEW t \in Thread, BarrierLeave(t)
    PROVE  Region!Leave(t)
<1>1. /\ Current(t) = t /\ pc[t] = "barrierWait" /\ Goes(t, "body")
      /\ barrierFlag # savedFlag[t] /\ phase' = [phase EXCEPT ![t] = @ + 1]
    BY Moves DEF BarrierLeave, At
<1>2. \A u \in Thread : pc'[u] = IF u = t THEN "body" ELSE pc[u]
    BY <1>1, OwnStep
<1>3. \A u \in Thread : phase[u] \in Nat /\ phase'[u] = IF u = t THEN phase[t] + 1 ELSE phase[u]
    BY <1>1 DEF Types
<1>4. "barrierWait" \in AtBarrier /\ "barrierWait" \in PastBarrier
      /\ "body" \notin AtBarrier /\ "body" \notin PastBarrier
    BY DEF AtBarrier, PastBarrier
<1>5. \A u \in Thread : /\ Reached(u, AtBarrier)' = Reached(u, AtBarrier)
                        /\ Reached(u, PastBarrier)' = Reached(u, PastBarrier)
    BY <1>1, <1>2, <1>3, <1>4 DEF Reached
<1>6. Arrived' = Arrived /\ Released' = Released
    BY <1>5 DEF Arrived, Released
<1>7. Arrived[t] = phase[t] + 1
    BY <1>1, <1>4 DEF Arrived, Reached
<1>8. Arrived[t] <= Released
    <2>1. Released = Opened(Master) + (IF Passed \cup Left # {} THEN 1 ELSE 0)
        BY ReleasedIs DEF ReleasedInv
    <2>2. Opened(Master) = Opened(t) /\ Opened(t) = phase[t] + 1
        BY <1>1, Names DEF BarrierInv, StepInv, Opened
    <2> QED
        BY <1>3, <1>7, <2>1, <2>2
<1>9. Pending' = Pending /\ Finished' = Finished
    <2>1. ~IsDeferred(Current(t))
        BY <1>1 DEF IsDeferred, IsImplicit
    <2> QED
        BY <1>1, <2>1, GoesSteady DEF Steady
<1> QED
    BY <1>1, <1>3, <1>6, <1>7, <1>8, <1>9 DEF Region!Leave

\* a step that nobody sees from outside the barrier
LEMMA TurnView ==
    ASSUME Types, PlaceInv, NEW t \in Thread, BarrierReset(t) \/ BarrierToggle(t) \/ MasterJoin(t)
    PROVE  UNCHANGED Region!vars
<1>1. PICK l \in {"barrierToggle", "barrierWait", "gone"} : Goes(t, l) /\ Current(t) = t
    BY Moves
<1>2. /\ pc[t] \in {"barrierReset", "barrierToggle", "join"} /\ phase' = phase
    BY <1>1 DEF BarrierReset, BarrierToggle, MasterJoin, At
<1>3. \A u \in Thread : pc'[u] = IF u = t THEN l ELSE pc[u]
    BY <1>1, OwnStep
<1>4. /\ l \in AtBarrier /\ l \in PastBarrier /\ pc[t] \in AtBarrier /\ pc[t] \in PastBarrier
    BY <1>2 DEF AtBarrier, PastBarrier
<1>5. \A u \in Thread : /\ Reached(u, AtBarrier)' = Reached(u, AtBarrier)
                        /\ Reached(u, PastBarrier)' = Reached(u, PastBarrier)
    BY <1>2, <1>3, <1>4 DEF Reached
<1>6. SameView
    BY <1>2, <1>5 DEF SameView, Arrived, Released
<1>7. Steady
    <2>1. ~IsDeferred(Current(t))
        BY <1>1 DEF IsDeferred, IsImplicit
    <2> QED
        BY <1>1, <2>1, GoesSteady
<1> QED
    BY <1>6, <1>7, ViewStutters

\* a thread passes a barrier: the first one lets the team go
LEMMA PassView ==
    ASSUME Types, PlaceInv, CountInv, BarrierInv, Types', BarrierInv', NEW t \in Thread,
           BarrierPass(t) \/ EndPass(t)
    PROVE  Region!Release \/ UNCHANGED Region!vars
<1>1. PICK l \in {"barrierReset", "barrierWait", "join", "gone"} :
        /\ Goes(t, l) /\ Current(t) = t
        /\ l \in {"barrierReset", "barrierWait"} <=> pc[t] = "barrier"
    <2>1. CASE BarrierPass(t)
        BY <2>1, Moves DEF BarrierPass, At
    <2>2. CASE EndPass(t)
        BY <2>2, Moves DEF EndPass, At
    <2> QED
        BY <2>1, <2>2
<1>2. /\ pc[t] \in {"barrier", "endBarrier"} /\ phase' = phase /\ savedFlag' = savedFlag
      /\ barrierFlag' = barrierFlag /\ AllArrived
    BY <1>1 DEF BarrierPass, EndPass, At
<1>3. \A u \in Thread : pc'[u] = IF u = t THEN l ELSE pc[u]
    BY <1>1, OwnStep
<1>4. l \in AtBarrier /\ pc[t] \in AtBarrier
    BY <1>2 DEF AtBarrier
<1>5. Arrived' = Arrived
    <2>1. \A u \in Thread : Reached(u, AtBarrier)' = Reached(u, AtBarrier)
        BY <1>2, <1>3, <1>4 DEF Reached
    <2> QED
        BY <2>1 DEF Arrived
<1>6. Pending' = Pending /\ Finished' = Finished
    <2>1. ~IsDeferred(Current(t))
        BY <1>1 DEF IsDeferred, IsImplicit
    <2> QED
        BY <1>1, <2>1, GoesSteady DEF Steady
<1>7. /\ Pending = {}
      /\ \A u \in Thread : pc[u] \in AtBarrier /\ (pc[u] = "barrierWait" => savedFlag[u] = barrierFlag)
    BY <1>2, AllHere DEF Waiting, AtEnd, Inside, Ended, AtBarrier
<1>8. \A u \in Thread : Opened(u) = phase[u] /\ phase[u] \in Nat /\ phase[u] = phase[Master]
    <2>1. \A u \in Thread : phase[u] \in Nat
        BY DEF Types
    <2>2. \A u \in Thread : Opened(u) = phase[u]
        BY <1>7, <2>1 DEF Opened
    <2> QED
        BY <2>1, <2>2, Names DEF BarrierInv, StepInv
<1>9. Opened(Master)' = phase[Master]
    <2>1. pc'[Master] = "barrierWait" => savedFlag[Master] = barrierFlag
        <3>1. CASE Master = t
            BY <1>1, <1>2, <1>3, <3>1 DEF BarrierInv, PhaseInv, Inside
        <3>2. CASE Master # t
            BY <1>3, <1>7, <3>2, Names
        <3> QED
            BY <3>1, <3>2
    <2> QED
        BY <1>2, <1>8, <2>1, Names DEF Opened
<1>10. t \in Passed' \cup Left'
    <2>1. CASE l \in {"join", "gone"}
        BY <1>3, <2>1 DEF Left
    <2>2. CASE l \in {"barrierReset", "barrierWait"}
        <3>1. pc[t] = "barrier"
            BY <1>1, <2>2
        <3> QED
            BY <1>2, <1>3, <2>2, <3>1 DEF Passed, Waiting, Inside, BarrierInv, PhaseInv
    <2> QED
        BY <2>1, <2>2
<1>11. Released' = phase[Master] + 1
    <2>1. ReleasedInv'
        BY ReleasedIs, PTL
    <2> QED
        BY <1>9, <1>10, <2>1 DEF ReleasedInv
<1>12. Released = phase[Master] + (IF Passed \cup Left # {} THEN 1 ELSE 0)
    BY <1>8, ReleasedIs, Names DEF ReleasedInv
<1>13. \A u \in Thread : Arrived[u] = phase[Master] + 1
    BY <1>7, <1>8 DEF Arrived, Reached
<1>14. CASE Passed \cup Left = {}
    <2>1. Released = phase[Master] /\ phase[Master] \in Nat
        BY <1>8, <1>12, <1>14, Names
    <2> QED
        BY <1>2, <1>5, <1>6, <1>7, <1>11, <1>13, <2>1 DEF Region!Release
<1>15. CASE Passed \cup Left # {}
    BY <1>2, <1>5, <1>6, <1>11, <1>12, <1>15 DEF Region!vars
<1> QED
    BY <1>14, <1>15

\* Every step is one of TaskRegion, or a stutter.
LEMMA RegionStep ==
    ASSUME IInv, IInv', [Next]_vars
    PROVE  [Region!Next]_(Region!vars)
<1>1. Types /\ PlaceInv /\ CountInv /\ RunInv /\ BarrierInv /\ Types' /\ BarrierInv'
    BY DEF IInv
<1>2. CASE UNCHANGED vars
    <2>1. Aside /\ created' = created /\ kind' = kind /\ pc' = pc
        BY <1>2 DEF Aside, vars, taskVars
    <2>2. Steady
        BY <2>1 DEF Steady, Pending, Finished, Used, IsDeferred, IsImplicit
    <2> QED
        BY <2>1, <2>2, AsideView, ViewStutters
<1>3. ASSUME NEW t \in Thread, Program(t) \/ Take(t) \/ Miss(t) \/ Runtime(t)
      PROVE  [Region!Next]_(Region!vars)
    <2>1. CASE Plain(t)
        BY <1>1, <2>1, PlainAside, AsideView, ViewStutters DEF BarrierInv
    <2>2. CASE Exit(t)
        <3>1. Aside /\ SameView
            BY <1>1, <2>2, ExitAside, AsideView
        <3>2. CASE ~IsDeferred(Current(t))
            BY <1>1, <2>2, <3>1, <3>2, ExitAside, ViewStutters
        <3>3. CASE IsDeferred(Current(t))
            <4>1. Region!Finish(Current(t)) /\ Current(t) \in Explicit
                BY <1>1, <2>2, <3>1, <3>3, ExitAside, UsedTasks DEF Region!Finish, SameView, Pending
            <4> QED
                BY <4>1 DEF Region!Next
        <3> QED
            BY <3>2, <3>3
    <2>3. ASSUME NEW k \in Kinds, CreateDeferred(t, k)
          PROVE  \E n \in Explicit : Region!Spawn(n)
        <3>1. PICK n : n = created + 1
            OBVIOUS
        <3>2. /\ Aside /\ SameView /\ pc[Current(t)] = "body" /\ n \in Explicit
              /\ n \notin Pending \cup Finished /\ Pending' = Pending \cup {n} /\ Finished' = Finished
            BY <1>1, <2>3, <3>1, CreateAside, AsideView
        <3>3. Pending # {} \/ \E u \in Thread : Arrived[u] = phase[u]
            <4>1. pc[t] \notin AtBarrier => Arrived[t] = phase[t]
                BY <1>1 DEF Arrived, Reached, Types
            <4> QED
                BY <1>1, <3>2, <4>1, Running
        <3> QED
            BY <3>2, <3>3 DEF Region!Spawn, SameView
    <2>4. CASE BarrierArrive(t) \/ EndArrive(t)
        BY <1>1, <2>4, ArriveView DEF Region!Next
    <2>5. CASE BarrierLeave(t)
        BY <1>1, <2>5, LeaveView DEF Region!Next
    <2>6. CASE BarrierPass(t) \/ EndPass(t)
        BY <1>1, <2>6, PassView DEF Region!Next
    <2>7. CASE BarrierReset(t) \/ BarrierToggle(t) \/ MasterJoin(t)
        BY <1>1, <2>7, TurnView
    <2> QED
        BY <1>3, <2>1, <2>2, <2>3, <2>4, <2>5, <2>6, <2>7 DEF Plain, Program, Runtime, Region!Next
<1> QED
    BY <1>2, <1>3 DEF Next, Over

\* Initial states map to initial states.
LEMMA RegionInit ==
    ASSUME Init
    PROVE  Region!Init
<1>1. Types /\ BarrierInv
    BY TypesInit, BarrierInit
<1>2. /\ \A t \in Thread : pc[t] = "body" /\ phase[t] = 0 /\ savedFlag[t] = 0
      /\ phase = [t \in Thread |-> 0] /\ Used = {}
    BY Names DEF Init, IsImplicit, Used
<1>3. Pending = {} /\ Finished = {}
    BY <1>2 DEF Pending, Finished
<1>4. Arrived = [t \in Thread |-> 0]
    BY <1>2 DEF Arrived, Reached, AtBarrier
<1>5. Released = 0
    <2>1. Passed \cup Left = {} /\ Opened(Master) = 0
        BY <1>2, Names DEF Passed, Left, Waiting, Inside, Opened
    <2> QED
        BY <1>1, <2>1, ReleasedIs DEF ReleasedInv
<1> QED
    BY <1>2, <1>3, <1>4, <1>5 DEF Region!Init

(* The tasking core implements TaskRegion: a barrier lets the team go only  *)
(* when every thread has come and every deferred task spawned before is     *)
(* finished (omp_thread.h:326-403, omp_thread.c:989-1058).                  *)
THEOREM Refinement ==
    Spec => ImplementsRegion
<1>1. Init => Region!Init
    BY RegionInit
<1>2. IInv /\ IInv' /\ [Next]_vars => [Region!Next]_(Region!vars)
    BY RegionStep
<1> QED
    BY <1>1, <1>2, Invariant, PTL DEF Spec, ImplementsRegion, Region!Spec

-----------------------------------------------------------------------------
(* The scheduling constraint of tied tasks, for programs whose tasks are   *)
(* all tied: what a thread runs above a suspended task descends from it.   *)

(* Descent *)

\* A task descends from its creator, and from whom its creator descends from.
LEMMA Descent ==
    ASSUME NEW n \in Used
    PROVE  /\ parent[n] \in Task => parent[n] \in Ancestors(n)
           /\ \A b \in Used : \A a : b \in Ancestors(n) /\ a \in Ancestors(b) => a \in Ancestors(n)
           /\ parent[n] \in Used => \A a \in Ancestors(parent[n]) : a \in Ancestors(n)
<1>1. parent[n] \in Task => parent[n] \in Ancestors(n)
    BY DEF Ancestors
<1>2. ASSUME NEW b \in Used, NEW a, b \in Ancestors(n), a \in Ancestors(b)
      PROVE  a \in Ancestors(n)
    <2>1. a \in Task
        BY <1>2 DEF Ancestors
    <2>2. ASSUME NEW S \in Lines, parent[n] \in S PROVE a \in S
        <3>1. b \in S
            BY <1>2, <2>2 DEF Ancestors
        <3>2. parent[b] \in S
            BY <3>1 DEF Lines
        <3> QED
            BY <1>2, <3>2 DEF Ancestors
    <2> QED
        BY <2>1, <2>2 DEF Ancestors
<1>3. ASSUME parent[n] \in Used, NEW a \in Ancestors(parent[n]) PROVE a \in Ancestors(n)
    <2>1. a \in Task
        BY DEF Ancestors
    <2>2. ASSUME NEW S \in Lines, parent[n] \in S PROVE a \in S
        <3>1. parent[parent[n]] \in S
            BY <1>3, <2>2 DEF Lines
        <3> QED
            BY <3>1 DEF Ancestors
    <2> QED
        BY <2>1, <2>2 DEF Ancestors
<1> QED
    BY <1>1, <1>2, <1>3

\* Nobody descends from a task that has created none.
LEMMA Childless ==
    ASSUME Types, ParentInv, NEW c \in Task, \A m \in Used : parent[m] # c, NEW n \in Used
    PROVE  c \notin Ancestors(n)
<1>1. parent[n] \in Task /\ \A m \in Used : parent[m] \in Task
    BY UsedTasks DEF Types
<1>2. Task \ {c} \in Lines
    BY <1>1 DEF Lines
<1>3. parent[n] \in Task \ {c}
    BY <1>1
<1> QED
    BY <1>2, <1>3 DEF Ancestors

\* Steps that create no task leave descent as it is.
LEMMA SameDescent ==
    ASSUME SameTasks
    PROVE  \A n : Ancestors(n)' = Ancestors(n)
  BY DEF SameTasks, Ancestors, Lines, Used

\* So does a creation, for the tasks there are; the new one descends from its
\* creator.
LEMMA NewDescent ==
    ASSUME Types, PlaceInv, NEW t \in Thread, NEW k, NewTask(t, k), NEW n, n = created + 1,
           NEW c, c = Current(t)
    PROVE  /\ \A m \in Used : Ancestors(m)' = Ancestors(m)
           /\ \A m \in Used' : parent'[m] # n /\ n \notin Ancestors(m)'
           /\ c \in Ancestors(n)'
           /\ c \in Used => \A a \in Ancestors(c) : a \in Ancestors(n)'
<1>1. /\ n \in Task /\ n \notin Used /\ Used' = Used \cup {n} /\ parent'[n] = c
      /\ c \in Used \cup Thread /\ c \in Task /\ c # n
      /\ \A m \in Used : parent'[m] = parent[m]
    <2>1. /\ n \in Task /\ n \notin Used /\ n \notin Thread /\ Used' = Used \cup {n}
          /\ parent'[n] = c /\ c \in Used \cup Thread
          /\ \A m \in Used : parent'[m] = parent[m]
        BY Creation
    <2> QED
        BY <2>1, Names, UsedTasks
<1>2. \A m \in Used : m \in Task /\ parent[m] \in Task /\ parent[m] # n
    <2>1. \A m \in Used : m \in Task /\ parent[m] \in Used \cup Thread
        BY UsedTasks DEF PlaceInv, ParentInv
    <2>2. n \notin Thread
        BY Creation
    <2> QED
        BY <1>1, <2>1, <2>2, UsedTasks, Names
<1>3. \A m \in Used' : parent'[m] \in Task \ {n}
    BY <1>1, <1>2
<1>4. \A S \in Lines' : S \in Lines /\ (n \in S => c \in S)
    BY <1>1, <1>2 DEF Lines
<1>5. \A S \in Lines : S \ {n} \in Lines'
    BY <1>1, <1>2 DEF Lines
<1>6. ASSUME NEW m \in Used PROVE Ancestors(m)' = Ancestors(m)
    <2>1. ASSUME NEW a \in Ancestors(m) PROVE a \in Ancestors(m)'
        BY <1>1, <1>4, <2>1 DEF Ancestors
    <2>2. ASSUME NEW a \in Ancestors(m)' PROVE a \in Ancestors(m)
        <3>1. a \in Task /\ \A S \in Lines' : parent[m] \in S => a \in S
            BY <1>1, <2>2 DEF Ancestors
        <3>2. ASSUME NEW S \in Lines, parent[m] \in S PROVE a \in S
            <4>1. S \ {n} \in Lines' /\ parent[m] \in S \ {n}
                BY <1>2, <1>5, <3>2
            <4> QED
                BY <3>1, <4>1
        <3> QED
            BY <3>1, <3>2 DEF Ancestors
    <2> QED
        BY <2>1, <2>2
<1>7. Task \ {n} \in Lines'
    BY <1>1, <1>3 DEF Lines
<1>8. \A m \in Used' : parent'[m] # n /\ n \notin Ancestors(m)'
    BY <1>3, <1>7 DEF Ancestors
<1>9. c \in Ancestors(n)'
    BY <1>1 DEF Ancestors
<1>10. ASSUME c \in Used, NEW a \in Ancestors(c) PROVE a \in Ancestors(n)'
    <2>1. a \in Task /\ \A S \in Lines : parent[c] \in S => a \in S
        BY <1>10 DEF Ancestors
    <2>2. ASSUME NEW S \in Lines', c \in S PROVE a \in S
        <3>1. S \in Lines /\ parent[c] \in S
            BY <1>1, <1>4, <1>10, <2>2 DEF Lines
        <3> QED
            BY <2>1, <3>1
    <2> QED
        BY <1>1, <2>1, <2>2 DEF Ancestors
<1> QED
    BY <1>6, <1>8, <1>9, <1>10

-----------------------------------------------------------------------------
(* What runs above whom *)

\* The task on top of a stack, and the suspended ones below it.
LEMMA TopDescends ==
    ASSUME Types, PlaceInv, TiedInv, NEW t \in Thread, NEW a \in Task,
           OnStackOf(t, a), ~InBarrier(a)
    PROVE  a = Current(t) \/ (Current(t) \in Used /\ a \in Ancestors(Current(t)))
<1>1. /\ stack[t] \in Seq(Task) /\ Len(stack[t]) \in Nat \ {0}
      /\ DOMAIN stack[t] = 1..Len(stack[t])
      /\ Current(t) = stack[t][Len(stack[t])] /\ Current(t) \in Task
      /\ Current(t) \in Thread => Current(t) = t /\ Len(stack[t]) = 1
      /\ Current(t) \notin Thread => Current(t) \in Used
    BY Top DEF PlaceInv
<1>2. PICK i \in 1..Len(stack[t]) : stack[t][i] = a
    BY <1>1 DEF OnStackOf
<1>3. CASE i = Len(stack[t])
    BY <1>1, <1>2, <1>3
<1>4. CASE i # Len(stack[t])
    <2>1. i < Len(stack[t]) /\ Len(stack[t]) # 1 /\ Len(stack[t]) \in DOMAIN stack[t]
          /\ i \in DOMAIN stack[t]
        BY <1>1, <1>2, <1>4
    <2>2. Current(t) \in Used
        BY <1>1, <2>1
    <2>3. a \in Thread \/ a \in Used
        BY <1>2, OnStack
    <2>4. Suspends(a)
        BY <2>3, UsedTasks DEF Suspends, IsTied, IsImplicit, TiedInv, KindInv
    <2>5. IsTied(Current(t))
        BY <2>2, UsedTasks DEF IsTied, IsImplicit, TiedInv, KindInv
    <2> QED
        BY <1>1, <1>2, <2>1, <2>2, <2>4, <2>5 DEF TiedInv, TiedScheduling
<1> QED
    BY <1>3, <1>4

\* Only one thread's stack holds a task.
LEMMA OneStack ==
    ASSUME Types, PlaceInv, NEW t \in Thread, NEW u \in Thread, NEW c \in Task,
           OnStackOf(t, c), OnStackOf(u, c)
    PROVE  t = u
  BY DEF PlaceInv, StackInv, Once, OnStackOf

\* What is queued has been created and not started.
LEMMA QueuedTask ==
    ASSUME Types, PlaceInv, NEW t \in Thread, NEW k \in DOMAIN tiedQ[t]
    PROVE  /\ tiedQ[t][k] \in Used /\ tiedQ[t][k] \in Explicit /\ pc[tiedQ[t][k]] = "queued"
           /\ IsDeferred(tiedQ[t][k]) /\ k \in 1..Len(tiedQ[t]) /\ Len(tiedQ[t]) \in Nat
<1>1. tiedQ[t] \in Seq(Explicit) /\ tiedQ[t][k] \in Explicit /\ k \in 1..Len(tiedQ[t])
      /\ Len(tiedQ[t]) \in Nat
    <2>1. tiedQ[t] \in Seq(Explicit)
        BY DEF Types
    <2> QED
        BY <2>1
<1>2. Within(tiedQ[t][k], tiedQ)
    BY DEF Within
<1> QED
    BY <1>1, <1>2 DEF PlaceInv, QueueInv, FreshInv

\* The last task of a queue.
LEMMA LastQueued ==
    ASSUME Types, PlaceInv, NEW t \in Thread, tiedQ[t] # <<>>
    PROVE  /\ Len(tiedQ[t]) \in Nat \ {0} /\ DOMAIN tiedQ[t] = 1..Len(tiedQ[t])
           /\ Len(tiedQ[t]) \in DOMAIN tiedQ[t]
           /\ Last(tiedQ[t]) = tiedQ[t][Len(tiedQ[t])] /\ Last(tiedQ[t]) \in Used
<1>1. tiedQ[t] \in Seq(Explicit)
    BY DEF Types
<1>2. Len(tiedQ[t]) \in Nat \ {0} /\ Last(tiedQ[t]) = tiedQ[t][Len(tiedQ[t])]
    BY <1>1, LastAndFront
<1>3. DOMAIN tiedQ[t] = 1..Len(tiedQ[t])
    BY <1>1
<1>4. Len(tiedQ[t]) \in DOMAIN tiedQ[t]
    BY <1>2, <1>3
<1> QED
    BY <1>2, <1>3, <1>4, QueuedTask

\* A task that has not started has created nothing.
LEMMA NotStarted ==
    ASSUME Types, PlaceInv, NEW n \in Used, pc[n] \in {"created", "queued"}
    PROVE  /\ \A m \in Used : parent[m] # n /\ n \notin Ancestors(m)
           /\ \A t \in Thread : ~OnStackOf(t, n)
<1>1. \A m \in Used : parent[m] # n
    BY DEF PlaceInv, ParentInv
<1>2. \A m \in Used : n \notin Ancestors(m)
    BY <1>1, UsedTasks, Childless DEF PlaceInv
<1>3. pc[n] \notin OwnLabels
    BY DEF OwnLabels, Started
<1>4. ASSUME NEW t \in Thread PROVE ~OnStackOf(t, n)
    <2>1. DOMAIN stack[t] = 1..Len(stack[t])
        BY DEF Types
    <2> QED
        BY <1>3, <2>1, OnStack, UsedTasks DEF OnStackOf
<1> QED
    BY <1>1, <1>2, <1>4

-----------------------------------------------------------------------------
(* The steps *)

\* no task starts, and what is queued stays as it is
SameQueued == \A m \in Explicit : m \in Used' /\ pc'[m] = "queued" <=> m \in Used /\ pc[m] = "queued"
SameLines == \A m \in Used : parent'[m] = parent[m] /\ Ancestors(m)' = Ancestors(m)

\* A step that runs no task and queues none; a task that leaves a barrier has
\* nothing above it and an empty queue.
LEMMA QuietTied ==
    ASSUME Types, PlaceInv, TiedInv, KindInv', DrainedInv', TakeInv',
           Used \subseteq Used', Used' \subseteq Explicit, SameLines, SameQueued, tiedQ' = tiedQ,
           \A u \in Thread : \A i \in DOMAIN stack'[u] :
               i \in DOMAIN stack[u] /\ stack'[u][i] = stack[u][i],
           \A c \in Task : ~InBarrier(c)' => \/ ~InBarrier(c)
                                             \/ c \in Thread /\ tiedQ[c] = <<>> /\ Len(stack[c]) = 1,
           \A m \in Used' \ Used : ~Within(m, stack)
    PROVE  TiedInv'
<1>1. \A u \in Thread : \A c : (\E i \in DOMAIN stack'[u] : stack'[u][i] = c) => OnStackOf(u, c)
    BY DEF OnStackOf
<1>2. \A u \in Thread : \A m \in Used' : OnStackOf(u, m) => m \in Used
    BY DEF OnStackOf, Within
<1>3. \A u \in Thread : \A k \in DOMAIN tiedQ[u] : tiedQ[u][k] \in Used
    BY QueuedTask
<1>4. \A c \in Thread : \A u \in Thread : OnStackOf(u, c) => u = c
    <2> SUFFICES ASSUME NEW c \in Thread, NEW u \in Thread, OnStackOf(u, c) PROVE u = c
        OBVIOUS
    <2>1. stack[c][1] = c /\ 1 \in DOMAIN stack[c]
        BY Top DEF PlaceInv, StackInv
    <2> QED
        BY <2>1 DEF PlaceInv, StackInv, Once, OnStackOf
<1>5. ChildrenInv'
    <2> SUFFICES ASSUME NEW t \in Thread, NEW n \in Used', pc'[n] = "queued",
                        \E i \in DOMAIN stack'[t] : stack'[t][i] = parent'[n]
                 PROVE  \E k \in DOMAIN tiedQ[t] : tiedQ[t][k] = n
        BY DEF ChildrenInv, OnStackOf
    <2>1. n \in Used /\ pc[n] = "queued" /\ parent'[n] = parent[n]
        BY DEF SameQueued, SameLines
    <2> QED
        BY <1>1, <2>1 DEF TiedInv, ChildrenInv
<1>6. SuffixInv'
    <2> SUFFICES ASSUME NEW t \in Thread, NEW a \in Task, ~InBarrier(a)',
                        \E i \in DOMAIN stack'[t] : stack'[t][i] = a,
                        NEW k \in DOMAIN tiedQ[t], NEW m \in DOMAIN tiedQ[t],
                        k < m, a \in Ancestors(tiedQ[t][k])'
                 PROVE  a \in Ancestors(tiedQ[t][m])'
        BY DEF SuffixInv, OnStackOf
    <2>1. OnStackOf(t, a)
        BY <1>1
    <2>2. tiedQ[t] # <<>>
        OBVIOUS
    <2>3. ~InBarrier(a)
        BY <1>4, <2>1, <2>2
    <2>4. a \in Ancestors(tiedQ[t][k])
        BY <1>3 DEF SameLines
    <2> QED
        BY <1>3, <2>1, <2>3, <2>4 DEF SameLines, TiedInv, SuffixInv
<1>7. StolenInv'
    <2> SUFFICES ASSUME NEW t \in Thread, NEW u \in Thread, NEW n \in Used', t # u,
                        \E i \in DOMAIN stack'[u] : stack'[u][i] = n,
                        \E i \in DOMAIN stack'[t] : stack'[t][i] = parent'[n],
                        ~InBarrier(parent[n])', NEW k \in DOMAIN tiedQ[t]
                 PROVE  parent'[n] \in Ancestors(tiedQ[t][k])'
        BY DEF StolenInv, OnStackOf
    <2>1. OnStackOf(u, n) /\ n \in Used /\ parent'[n] = parent[n] /\ OnStackOf(t, parent[n])
        BY <1>1, <1>2 DEF SameLines
    <2>2. parent[n] \in Task
        BY <2>1, UsedTasks DEF Types
    <2>3. ~InBarrier(parent[n])
        BY <1>4, <2>1, <2>2 DEF InBarrier
    <2> QED
        BY <1>3, <2>1, <2>3 DEF SameLines, TiedInv, StolenInv
<1>8. AboveInv'
    <2> SUFFICES ASSUME NEW t \in Thread, NEW i \in DOMAIN stack'[t], NEW j \in DOMAIN stack'[t],
                        stack'[t][j] \in Used', stack'[t][i] = parent'[stack'[t][j]]
                 PROVE  i < j
        BY DEF AboveInv
    <2>1. /\ i \in DOMAIN stack[t] /\ stack'[t][i] = stack[t][i]
          /\ j \in DOMAIN stack[t] /\ stack'[t][j] = stack[t][j]
        OBVIOUS
    <2>2. stack[t][j] \in Used
        BY <1>2, <2>1 DEF OnStackOf
    <2>3. stack[t][i] = parent[stack[t][j]]
        BY <2>1, <2>2 DEF SameLines
    <2> QED
        BY <2>1, <2>2, <2>3 DEF TiedInv, AboveInv
<1>9. TiedScheduling'
    <2> SUFFICES ASSUME NEW t \in Thread, NEW i \in DOMAIN stack'[t], NEW j \in DOMAIN stack'[t],
                        i < j, Suspends(stack[t][i])'
                 PROVE  stack'[t][i] \in Ancestors(stack[t][j])'
        BY DEF TiedScheduling
    <2>0. stack[t] \in Seq(Task) /\ DOMAIN stack[t] = 1..Len(stack[t]) /\ Len(stack[t]) \in Nat
        BY DEF Types
    <2>1. /\ i \in DOMAIN stack[t] /\ stack'[t][i] = stack[t][i] /\ i \in 1..Len(stack[t])
          /\ j \in DOMAIN stack[t] /\ stack'[t][j] = stack[t][j] /\ j \in 2..Len(stack[t])
          /\ Len(stack[t]) \in Nat /\ stack[t][i] \in Task /\ stack[t][j] \in Task
        BY <2>0
    <2>2. stack[t][j] \in Used
        BY <2>1 DEF PlaceInv, StackInv
    <2>3. ~InBarrier(stack[t][i])'
        BY DEF Suspends
    <2>4. ~(stack[t][i] \in Thread /\ Len(stack[stack[t][i]]) = 1)
        BY <1>4, <2>1 DEF OnStackOf
    <2>5. ~InBarrier(stack[t][i])
        BY <2>1, <2>3, <2>4 DEF InBarrier
    <2>6. Suspends(stack[t][i]) /\ IsTied(stack[t][j])
        BY <2>1, <2>2, <2>5, Names, UsedTasks DEF TiedInv, KindInv, Suspends, IsTied, IsImplicit
    <2>7. stack[t][i] \in Ancestors(stack[t][j])
        BY <2>1, <2>6 DEF TiedInv, TiedScheduling
    <2> QED
        BY <2>1, <2>2, <2>7 DEF SameLines
<1> QED
    BY <1>5, <1>6, <1>7, <1>8, <1>9 DEF TiedInv

\* what is left of a queue is in the same order
SameOrder(n) ==
    \A u \in Thread :
        /\ \A k \in DOMAIN tiedQ'[u] :
              \E i \in DOMAIN tiedQ[u] : tiedQ[u][i] = tiedQ'[u][k] /\ tiedQ'[u][k] # n
        /\ \A k, m \in DOMAIN tiedQ'[u] : k < m =>
              \E i, j \in DOMAIN tiedQ[u] :
                  i < j /\ tiedQ[u][i] = tiedQ'[u][k] /\ tiedQ[u][j] = tiedQ'[u][m]
        /\ \A i \in DOMAIN tiedQ[u] :
              tiedQ[u][i] # n => \E k \in DOMAIN tiedQ'[u] : tiedQ'[u][k] = tiedQ[u][i]
        /\ tiedQ[u] = <<>> => tiedQ'[u] = <<>>
\* n is run by thread t: it has created nothing, it descends from whom t has
\* suspended, and whoever waits for it elsewhere has nothing else queued
MayRun(t, n) ==
    /\ \A m \in Used' : parent'[m] # n /\ n \notin Ancestors(m)'
    /\ \A a \in Task : OnStackOf(t, a) /\ ~InBarrier(a) => a \in Ancestors(n)'
    /\ \A u \in Thread \ {t} : OnStackOf(u, parent'[n]) /\ ~InBarrier(parent'[n])
          => \A x \in ToSet(tiedQ'[u]) : parent'[n] \in Ancestors(x)'

\* A step that runs a task on top of a stack.
LEMMA PushTied ==
    ASSUME Types, PlaceInv, TiedInv, KindInv', DrainedInv', TakeInv',
           NEW t \in Thread, NEW n \in Explicit, NEW l \in Labels, pc[n] \notin OwnLabels,
           Pushes(t, n, l), Used' = Used \cup {n}, Used' \subseteq Explicit,
           \A m \in Used \ {n} : parent'[m] = parent[m] /\ Ancestors(m)' = Ancestors(m),
           \A m \in Used \ {n} : pc'[m] = "queued" => pc[m] = "queued",
           pc'[n] # "queued", SameOrder(n), MayRun(t, n),
           \A c \in Task \ {n} : ~InBarrier(c)' => ~InBarrier(c)
    PROVE  TiedInv'
<1>1. /\ \A u \in Thread \ {t} : stack'[u] = stack[u]
      /\ Len(stack'[t]) = Len(stack[t]) + 1 /\ Len(stack[t]) \in Nat
      /\ \A i \in 1..Len(stack[t]) : stack'[t][i] = stack[t][i]
      /\ stack'[t][Len(stack[t]) + 1] = n
      /\ \A u \in Thread : DOMAIN stack[u] = 1..Len(stack[u])
      /\ DOMAIN stack'[t] = 1..(Len(stack[t]) + 1)
    <2>1. /\ \A u \in Thread \ {t} : stack'[u] = stack[u]
          /\ Len(stack'[t]) = Len(stack[t]) + 1 /\ Len(stack[t]) \in Nat
          /\ \A i \in 1..Len(stack[t]) : stack'[t][i] = stack[t][i]
          /\ stack'[t][Len(stack[t]) + 1] = n
        BY PushedStack
    <2>2. \A u \in Thread : DOMAIN stack[u] = 1..Len(stack[u])
        BY DEF Types
    <2>3. stack'[t] = Append(stack[t], n) /\ stack[t] \in Seq(Task) /\ n \in Task
        BY Names DEF Types, Pushes
    <2> QED
        BY <2>1, <2>2, <2>3
<1>2. \A u \in Thread : \A i \in DOMAIN stack'[u] :
        \/ u = t /\ i = Len(stack[t]) + 1 /\ stack'[u][i] = n
        \/ i \in DOMAIN stack[u] /\ stack'[u][i] = stack[u][i]
    BY <1>1
<1>3. \A u \in Thread : ~OnStackOf(u, n)
    BY PushPc DEF OnStackOf, Within, PlaceInv
<1>4. \A u \in Thread : \A c : c # n /\ (\E i \in DOMAIN stack'[u] : stack'[u][i] = c)
                               => OnStackOf(u, c)
    BY <1>2 DEF OnStackOf
<1>5. \A u \in Thread : \A k \in DOMAIN tiedQ'[u] : tiedQ'[u][k] \in Used \ {n}
    BY QueuedTask DEF SameOrder
<1>6. n \in Task /\ \A m \in Used' : parent'[m] # n /\ n \notin Ancestors(m)'
    BY Names DEF MayRun
<1>7. ChildrenInv'
    <2> SUFFICES ASSUME NEW u \in Thread, NEW m \in Used', pc'[m] = "queued",
                        \E i \in DOMAIN stack'[u] : stack'[u][i] = parent'[m]
                 PROVE  \E k \in DOMAIN tiedQ'[u] : tiedQ'[u][k] = m
        BY DEF ChildrenInv, OnStackOf
    <2>1. m \in Used \ {n} /\ pc[m] = "queued" /\ parent'[m] = parent[m] /\ parent[m] # n
        BY <1>6
    <2>2. OnStackOf(u, parent[m])
        BY <1>4, <2>1
    <2> QED
        BY <2>1, <2>2 DEF TiedInv, ChildrenInv, SameOrder
<1>8. SuffixInv'
    <2> SUFFICES ASSUME NEW u \in Thread, NEW a \in Task, ~InBarrier(a)',
                        \E i \in DOMAIN stack'[u] : stack'[u][i] = a,
                        NEW k \in DOMAIN tiedQ'[u], NEW m \in DOMAIN tiedQ'[u], k < m,
                        NEW x, x = tiedQ'[u][k], NEW y, y = tiedQ'[u][m], a \in Ancestors(x)'
                 PROVE  a \in Ancestors(y)'
        BY DEF SuffixInv, OnStackOf
    <2>1. a # n
        BY <1>5, <1>6
    <2>2. OnStackOf(u, a) /\ ~InBarrier(a)
        BY <1>4, <2>1
    <2>3. PICK i, j \in DOMAIN tiedQ[u] :
              i < j /\ tiedQ[u][i] = tiedQ'[u][k] /\ tiedQ[u][j] = tiedQ'[u][m]
        BY DEF SameOrder
    <2>4. a \in Ancestors(tiedQ[u][i])
        BY <1>5, <2>3
    <2>5. a \in Ancestors(tiedQ[u][j])
        BY <2>2, <2>3, <2>4 DEF TiedInv, SuffixInv
    <2> QED
        BY <1>5, <2>3, <2>5
<1>9. StolenInv'
    <2> SUFFICES ASSUME NEW v \in Thread, NEW u \in Thread, NEW m \in Used', v # u,
                        \E i \in DOMAIN stack'[u] : stack'[u][i] = m,
                        NEW c, c = parent'[m], \E i \in DOMAIN stack'[v] : stack'[v][i] = c,
                        ~InBarrier(c)', NEW k \in DOMAIN tiedQ'[v], NEW x, x = tiedQ'[v][k]
                 PROVE  c \in Ancestors(x)'
        BY DEF StolenInv, OnStackOf
    <2>1. OnStackOf(v, c) /\ c # n
        BY <1>4, <1>6
    <2>2. c \in Task
        <3>1. \E i \in 1..Len(stack[v]) : stack[v][i] = c
            BY <1>1, <2>1 DEF OnStackOf
        <3> QED
            BY <3>1, OnStack, UsedTasks, Names
    <2>3. ~InBarrier(c)
        BY <2>1, <2>2
    <2>4. CASE m = n
        <3>1. u = t
            BY <1>1, <1>3, <2>4 DEF OnStackOf
        <3> QED
            BY <2>1, <2>3, <2>4, <3>1 DEF MayRun, ToSet
    <2>5. CASE m # n
        <3>1. m \in Used /\ c = parent[m] /\ OnStackOf(u, m)
            BY <1>4, <2>5
        <3>2. PICK i \in DOMAIN tiedQ[v] : tiedQ[v][i] = tiedQ'[v][k]
            BY DEF SameOrder
        <3>3. c \in Ancestors(tiedQ[v][i])
            BY <2>1, <2>3, <3>1 DEF TiedInv, StolenInv
        <3> QED
            BY <1>5, <3>1, <3>2, <3>3
    <2> QED
        BY <2>4, <2>5
<1>10. AboveInv'
    <2> SUFFICES ASSUME NEW u \in Thread, NEW i \in DOMAIN stack'[u], NEW j \in DOMAIN stack'[u],
                        stack'[u][j] \in Used', stack'[u][i] = parent'[stack'[u][j]]
                 PROVE  i < j
        BY DEF AboveInv
    <2>1. stack'[u][i] # n
        BY <1>6
    <2>2. i \in DOMAIN stack[u] /\ stack'[u][i] = stack[u][i]
        BY <1>2, <2>1
    <2>3. CASE stack'[u][j] = n
        <3>1. u = t /\ j = Len(stack[t]) + 1
            BY <1>2, <1>3, <2>3 DEF OnStackOf
        <3> QED
            BY <1>1, <2>2, <3>1
    <2>4. CASE stack'[u][j] # n
        <3>1. j \in DOMAIN stack[u] /\ stack'[u][j] = stack[u][j]
            BY <1>2, <2>4
        <3>2. stack[u][j] \in Used /\ stack[u][i] = parent[stack[u][j]]
            BY <2>2, <2>4, <3>1
        <3> QED
            BY <2>2, <3>1, <3>2 DEF TiedInv, AboveInv
    <2> QED
        BY <2>3, <2>4
<1>11. TiedScheduling'
    <2> SUFFICES ASSUME NEW u \in Thread, NEW i \in DOMAIN stack'[u], NEW j \in DOMAIN stack'[u],
                        i < j, NEW a, a = stack'[u][i], ~InBarrier(a)', NEW b, b = stack'[u][j]
                 PROVE  a \in Ancestors(b)'
        BY DEF TiedScheduling, Suspends
    <2>1. i \in DOMAIN stack[u] /\ a = stack[u][i] /\ i \in 1..Len(stack[u])
        BY <1>1, <1>2
    <2>2. a \in Task /\ a # n
        BY <1>3, <2>1, OnStack, UsedTasks, Names DEF OnStackOf
    <2>3. ~InBarrier(a)
        BY <2>1, <2>2
    <2>4. CASE b = n
        <3>1. u = t
            BY <1>2, <1>3, <2>4 DEF OnStackOf
        <3>2. OnStackOf(t, a)
            BY <2>1, <3>1 DEF OnStackOf
        <3> QED
            BY <2>1, <2>2, <2>3, <2>4, <3>1, <3>2 DEF MayRun
    <2>5. CASE b # n
        <3>1. j \in DOMAIN stack[u] /\ b = stack[u][j] /\ j \in 2..Len(stack[u])
            BY <1>1, <1>2, <2>1, <2>5
        <3>2. b \in Used
            BY <3>1 DEF PlaceInv, StackInv
        <3>3. Suspends(a) /\ IsTied(b)
            <4>1. a \in Thread \/ a \in Used
                BY <2>1, OnStack
            <4> QED
                BY <2>3, <3>2, <4>1, UsedTasks DEF TiedInv, KindInv, Suspends, IsTied, IsImplicit
        <3>4. a \in Ancestors(b)
            BY <2>1, <3>1, <3>3 DEF TiedInv, TiedScheduling
        <3> QED
            BY <2>1, <2>5, <3>1, <3>2, <3>4
    <2> QED
        BY <2>4, <2>5
<1> QED
    BY <1>7, <1>8, <1>9, <1>10, <1>11 DEF TiedInv

\* Its thread goes on with the same task.
LEMMA GoesTied ==
    ASSUME Types, PlaceInv, StateInv, StateInv', TiedInv, NEW t \in Thread, NEW l, Goes(t, l),
           l \in PastBarrier => tiedQ[t] = <<>>,
           pc[Current(t)] \in AtBarrier => l \in AtBarrier \/ tiedQ[t] = <<>>,
           l \in {"waitTake", "exitTake"} /\ tiedQ[t] # <<>>
               => Current(t) \in Ancestors(Last(tiedQ[t]))
    PROVE  TiedInv'
<1>1. /\ stack' = stack /\ tiedQ' = tiedQ /\ SameTasks /\ Used' = Used /\ Used' \subseteq Explicit
      /\ \A c \in Task : pc'[c] = IF c = Current(t) THEN l ELSE pc[c]
    BY StayPc, UsedTasks DEF Goes, Stays, PlaceInv, SameTasks, queueVars, Used
<1>2. /\ Current(t) \in Task /\ (Current(t) \in Thread => Current(t) = t /\ Len(stack[t]) = 1)
      /\ \A u \in Thread : Current(u) \in Task /\ (Current(u) = Current(t) => u = t)
    <2>1. ASSUME NEW u \in Thread PROVE Current(u) \in Task /\ (Current(u) = Current(t) => u = t)
        BY Top DEF PlaceInv
    <2> QED
        BY <2>1, Top DEF PlaceInv
<1>3. Current(t) \in Used => l \in OwnLabels /\ pc[Current(t)] \in OwnLabels
    BY Top, UsedTasks DEF Goes, Allowed, PlaceInv
<1>4. SameLines
    BY <1>1, SameDescent DEF SameLines, SameTasks
<1>5. SameQueued
    BY <1>1, <1>3, Names DEF SameQueued, OwnLabels, Started
<1>6. KindInv'
    BY <1>1 DEF SameTasks, TiedInv, KindInv
<1>7. DrainedInv'
    <2> SUFFICES ASSUME NEW u \in Thread, pc'[u] \in PastBarrier PROVE tiedQ[u] = <<>>
        BY <1>1 DEF DrainedInv
    <2> QED
        BY <1>1, <1>2, Names DEF TiedInv, DrainedInv
<1>8. TakeInv'
    <2> SUFFICES ASSUME NEW u \in Thread, pc'[Current(u)] \in {"waitTake", "exitTake"},
                        tiedQ[u] # <<>>
                 PROVE  Current(u) \in Ancestors(Last(tiedQ[u]))'
        BY <1>1 DEF TakeInv, Current
    <2>1. Current(u) \in Ancestors(Last(tiedQ[u]))
        BY <1>1, <1>2 DEF TiedInv, TakeInv
    <2>2. PICK x : x = Last(tiedQ[u])
        OBVIOUS
    <2>3. Ancestors(x)' = Ancestors(x)
        BY <1>1, SameDescent
    <2> QED
        BY <1>1, <2>1, <2>2, <2>3 DEF Current
<1>9. ASSUME NEW c \in Task, ~InBarrier(c)', InBarrier(c)
      PROVE  c \in Thread /\ tiedQ[c] = <<>> /\ Len(stack[c]) = 1
    <2>1. c \in Thread /\ pc[c] \in AtBarrier /\ pc'[c] \notin AtBarrier
        BY <1>9 DEF StateInv
    <2> QED
        BY <1>1, <1>2, <2>1
<1> QED
    BY <1>1, <1>4, <1>5, <1>6, <1>7, <1>8, <1>9, QuietTied

\* Who finds that a child of its own is not over, and has tasks in its queue,
\* has its own descendants there.
LEMMA OwnDescendants ==
    ASSUME Types, PlaceInv, StateInv, TiedInv, NEW t \in Thread, NEW c, c = Current(t),
           pc[c] \notin AtBarrier \cup {"put"},
           NEW n \in Used, parent[n] = c, pc[n] # "done", tiedQ[t] # <<>>
    PROVE  c \in Ancestors(Last(tiedQ[t]))
<1>1. /\ c \in Task /\ c = stack[t][Len(stack[t])] /\ DOMAIN stack[t] = 1..Len(stack[t])
      /\ Len(stack[t]) \in Nat \ {0}
      /\ \A u \in Thread : \A i \in 1..Len(stack[u]) : stack[u][i] = c => u = t /\ i = Len(stack[t])
    BY Top DEF PlaceInv
<1>2. OnStackOf(t, c) /\ ~InBarrier(c)
    BY <1>1 DEF OnStackOf, StateInv
<1>3. /\ Len(tiedQ[t]) \in Nat \ {0} /\ Last(tiedQ[t]) = tiedQ[t][Len(tiedQ[t])]
      /\ DOMAIN tiedQ[t] = 1..Len(tiedQ[t]) /\ Len(tiedQ[t]) \in DOMAIN tiedQ[t]
    BY LastQueued
<1>4. CASE pc[n] = "queued"
    <2>1. PICK k \in DOMAIN tiedQ[t] : tiedQ[t][k] = n
        BY <1>2, <1>4 DEF TiedInv, ChildrenInv
    <2>2. c \in Ancestors(tiedQ[t][k])
        BY <1>1, <2>1, Descent
    <2> QED
        BY <1>1, <1>2, <1>3, <2>1, <2>2 DEF TiedInv, SuffixInv
<1>5. CASE pc[n] # "queued"
    <2>1. pc[n] # "created"
        BY DEF PlaceInv, FreshInv
    <2>2. pc[n] \in OwnLabels
        BY <1>5, <2>1 DEF PlaceInv, PcInv
    <2>3. PICK u \in Thread : OnStackOf(u, n)
        BY <2>2 DEF PlaceInv, StackInv, Within, OnStackOf
    <2>4. PICK j \in DOMAIN stack[u] : stack[u][j] = n
        BY <2>3 DEF OnStackOf
    <2>5. u # t
        <3>1. u = t => Len(stack[t]) < j
            BY <1>1, <2>4 DEF TiedInv, AboveInv
        <3> QED
            BY <1>1, <2>4, <3>1
    <2> QED
        BY <1>2, <1>3, <2>3, <2>5 DEF TiedInv, StolenInv
<1> QED
    BY <1>4, <1>5

\* A task returns to the one below it.
LEMMA ReturnsTied ==
    ASSUME Types, PlaceInv, StateInv, StateInv', TiedInv, NEW t \in Thread, Returns(t)
    PROVE  TiedInv'
<1>1. /\ tiedQ' = tiedQ /\ SameTasks /\ Used' = Used /\ Used' \subseteq Explicit
      /\ Current(t) \in Task /\ Current(t) \notin Thread
    BY Top, UsedTasks DEF Returns, PlaceInv, SameTasks, queueVars, Used
<1>2. /\ Len(stack[t]) > 1 /\ Under(t) \in Task /\ Under(t) # Current(t) /\ pc[Under(t)] \in Below
      /\ \A c \in Task :
            pc'[c] = IF c = Current(t) THEN "done"
                     ELSE IF c = Under(t) /\ pc[c] = "createReturn" THEN "body" ELSE pc[c]
    BY PopPc DEF Returns, PlaceInv
<1>3. /\ \A u \in Thread \ {t} : stack'[u] = stack[u]
      /\ Len(stack'[t]) = Len(stack[t]) - 1 /\ Len(stack[t]) \in Nat
      /\ \A i \in 1..(Len(stack[t]) - 1) : stack'[t][i] = stack[t][i]
    BY PoppedStack DEF Returns
<1>4. stack'[t] \in Seq(Task) /\ stack[t] \in Seq(Task)
    BY ReturnsPlace DEF PlaceTypes, Types
<1>5. \A u \in Thread : \A i \in DOMAIN stack'[u] : i \in DOMAIN stack[u] /\ stack'[u][i] = stack[u][i]
    <2>1. DOMAIN stack'[t] = 1..(Len(stack[t]) - 1) /\ DOMAIN stack[t] = 1..Len(stack[t])
        BY <1>3, <1>4
    <2> QED
        BY <1>3, <2>1
<1>6. Current(t)' = Under(t) /\ \A u \in Thread \ {t} : Current(u)' = Current(u)
    <2>1. stack'[t] # <<>>
        BY <1>2, <1>3, <1>4
    <2>2. Last(stack'[t]) = stack'[t][Len(stack'[t])]
        BY <1>4, <2>1, LastAndFront
    <2> QED
        BY <1>2, <1>3, <2>2 DEF Current, Under
<1>7. \A u \in Thread \ {t} : Current(u) \in Task /\ Current(u) # Current(t) /\ Current(u) # Under(t)
    <2>1. ASSUME NEW u \in Thread \ {t} PROVE Current(u) \in Task /\ Current(u) # Current(t)
                                              /\ Current(u) # Under(t)
        <3>1. /\ \A i \in 1..Len(stack[t]) : stack[t][i] # Current(u)
              /\ Current(u) \in Task
            BY Top DEF PlaceInv
        <3>2. Len(stack[t]) \in 1..Len(stack[t]) /\ Len(stack[t]) - 1 \in 1..Len(stack[t])
            BY <1>2, <1>3
        <3>3. Current(t) = stack[t][Len(stack[t])]
            BY Top DEF PlaceInv
        <3> QED
            BY <3>1, <3>2, <3>3 DEF Under
    <2> QED
        BY <2>1
<1>8. SameLines
    BY <1>1, SameDescent DEF SameLines, SameTasks
<1>9. pc[Current(t)] # "queued"
    BY DEF Returns
<1>10. SameQueued
    BY <1>1, <1>2, <1>9, Names DEF SameQueued
<1>11. KindInv'
    BY <1>1 DEF SameTasks, TiedInv, KindInv
<1>12. DrainedInv'
    <2>1. \A u \in Thread : pc'[u] \in PastBarrier => pc[u] \in PastBarrier
        BY <1>1, <1>2, Names DEF PastBarrier, AtBarrier
    <2> QED
        BY <1>1, <2>1 DEF TiedInv, DrainedInv
<1>13. TakeInv'
    <2> SUFFICES ASSUME NEW u \in Thread, pc'[Current(u)'] \in {"waitTake", "exitTake"},
                        tiedQ[u] # <<>>, NEW x, x = Last(tiedQ[u])
                 PROVE  Current(u)' \in Ancestors(x)'
        BY <1>1 DEF TakeInv
    <2>1. u # t
        BY <1>2, <1>6 DEF Below
    <2>2. Current(u)' = Current(u) /\ pc[Current(u)] \in {"waitTake", "exitTake"}
        BY <1>2, <1>6, <1>7, <2>1
    <2>3. Ancestors(x)' = Ancestors(x)
        BY <1>1, SameDescent
    <2> QED
        BY <2>2, <2>3 DEF TiedInv, TakeInv
<1>14. \A c \in Task : ~InBarrier(c)' => ~InBarrier(c)
    <2>1. \A c \in Task : c \in Thread /\ pc[c] \in AtBarrier => pc'[c] \in AtBarrier
        BY <1>1, <1>2 DEF AtBarrier
    <2> QED
        BY <2>1 DEF StateInv
<1> QED
    BY <1>1, <1>5, <1>8, <1>10, <1>11, <1>12, <1>13, <1>14, QuietTied

\* The new task is queued behind what its creator has queued.
LEMMA CreateDeferredTied ==
    ASSUME Types, PlaceInv, StateInv, StateInv', TiedInv, NEW t \in Thread, NEW k, k.tied,
           CreateDeferred(t, k)
    PROVE  TiedInv'
<1>1. PICK n : n = created + 1
    OBVIOUS
<1>2. PICK c : c = Current(t)
    OBVIOUS
<1>3. /\ n \in Task /\ n \in Explicit /\ n \notin Used /\ n \notin Thread /\ pc[n] = "unused"
      /\ Used' = Used \cup {n} /\ Used' \subseteq Explicit
      /\ c \in Task /\ c # n /\ pc[c] = "body"
      /\ \A m \in Used : parent'[m] = parent[m]
    <2>1. /\ n \in Task /\ n \in Explicit /\ n \notin Used /\ n \notin Thread /\ pc[n] = "unused"
          /\ Used' = Used \cup {n} /\ c \in Used \cup Thread /\ pc[c] = "body"
          /\ \A m \in Used : parent'[m] = parent[m]
        BY <1>1, <1>2, Creation DEF CreateDeferred
    <2> QED
        BY <2>1, UsedTasks, Names
<1>4. /\ stack' = stack /\ tiedQ' = tiedQ
      /\ \A m \in Task : pc'[m] = IF m = n THEN "created" ELSE IF m = c THEN "put" ELSE pc[m]
    BY <1>1, <1>2, <1>3 DEF CreateDeferred, stackVars, queueVars, Types
<1>5. SameLines
    BY <1>1, <1>2, <1>3, NewDescent DEF SameLines, CreateDeferred
<1>6. SameQueued
    BY <1>3, <1>4, Names DEF SameQueued
<1>7. KindInv'
    BY <1>1, <1>3 DEF CreateDeferred, NewTask, Types, TiedInv, KindInv
<1>8. DrainedInv'
    <2>1. \A u \in Thread : pc'[u] \in PastBarrier => pc[u] \in PastBarrier
        BY <1>3, <1>4, Names DEF PastBarrier, AtBarrier
    <2> QED
        BY <1>4, <2>1 DEF TiedInv, DrainedInv
<1>9. TakeInv'
    <2> SUFFICES ASSUME NEW u \in Thread, pc'[Current(u)] \in {"waitTake", "exitTake"},
                        tiedQ[u] # <<>>, NEW x, x = Last(tiedQ[u])
                 PROVE  Current(u) \in Ancestors(x)'
        BY <1>4 DEF TakeInv, Current
    <2>1. Current(u) \in Task
        BY Top DEF PlaceInv
    <2>2. pc[Current(u)] \in {"waitTake", "exitTake"}
        BY <1>4, <2>1
    <2>3. x \in Used
        BY LastQueued
    <2> QED
        BY <1>5, <2>2, <2>3 DEF TiedInv, TakeInv, SameLines
<1>10. \A m \in Used' \ Used : ~Within(m, stack)
    <2>1. ASSUME NEW u \in Thread, NEW i \in DOMAIN stack[u] PROVE stack[u][i] # n
        <3>1. DOMAIN stack[u] = 1..Len(stack[u])
            BY DEF Types
        <3> QED
            BY <1>3, <3>1, OnStack DEF OwnLabels, Started
    <2> QED
        BY <1>3, <2>1 DEF Within
<1>11. \A m \in Task : ~InBarrier(m)' => ~InBarrier(m)
    <2>1. \A m \in Task : m \in Thread /\ pc[m] \in AtBarrier => pc'[m] \in AtBarrier
        BY <1>3, <1>4 DEF AtBarrier
    <2> QED
        BY <2>1 DEF StateInv
<1> QED
    BY <1>3, <1>4, <1>5, <1>6, <1>7, <1>8, <1>9, <1>10, <1>11, QuietTied

\* It is put in the queue of the thread that created it.
LEMMA PutTied ==
    ASSUME Types, PlaceInv, StateInv, StateInv', TiedInv, NEW t \in Thread, Put(t)
    PROVE  TiedInv'
<1>1. PICK n : n = Fresh(t)
    OBVIOUS
<1>2. PICK c : c = Current(t)
    OBVIOUS
<1>3. /\ c \in Task /\ pc[c] = "put"
      /\ n \in Used /\ n \in Explicit /\ n \in Task /\ n \notin Thread /\ n # c
      /\ pc[n] = "created" /\ parent[n] = c
    <2>1. c \in Task /\ pc[c] = "put" /\ At(t, "put")
        BY <1>2, Top DEF Put, At, PlaceInv
    <2>2. n \in Used /\ n \in Explicit /\ pc[n] = "created" /\ parent[n] = c
        BY <1>1, <1>2, <2>1, FreshTask DEF PlaceInv
    <2> QED
        BY <2>1, <2>2, Names
<1>4. /\ stack' = stack /\ SameTasks /\ Used' = Used
      /\ \A m \in Task : pc'[m] = IF m = n THEN "queued" ELSE IF m = c THEN "body" ELSE pc[m]
    BY <1>1, <1>2, <1>3 DEF Put, stackVars, taskVars, SameTasks, Types, Used
<1>5. tiedQ' = Enqueued(tiedQ, t, n)
    <2>1. IsTied(n)
        BY <1>3 DEF IsTied, TiedInv, KindInv
    <2> QED
        BY <1>1, <2>1 DEF Put
<1>6. ~Within(n, tiedQ)
    BY <1>3 DEF PlaceInv, QueueInv
<1>7. Grown(Explicit, tiedQ, tiedQ', t, n)
    <2>1. tiedQ \in [Thread -> Seq(Explicit)] /\ Once(tiedQ)
        BY DEF Types, PlaceInv, QueueInv
    <2> QED
        BY <1>3, <1>5, <1>6, <2>1, PutLast, Zenon
<1>8. /\ DOMAIN tiedQ[t] = 1..Len(tiedQ[t]) /\ Len(tiedQ[t]) \in Nat
      /\ DOMAIN tiedQ'[t] = 1..(Len(tiedQ[t]) + 1)
    <2>1. tiedQ[t] \in Seq(Explicit)
        BY DEF Types
    <2>2. tiedQ'[t] \in Seq(Explicit) /\ Len(tiedQ'[t]) = Len(tiedQ[t]) + 1
        BY <1>7 DEF Grown
    <2> QED
        BY <2>1, <2>2
<1>9. \A u \in Thread : \A i \in DOMAIN tiedQ'[u] :
          \/ u = t /\ i = Len(tiedQ[t]) + 1 /\ tiedQ'[u][i] = n
          \/ i \in DOMAIN tiedQ[u] /\ tiedQ'[u][i] = tiedQ[u][i] /\ (u = t => i <= Len(tiedQ[t]))
    <2>1. \A i \in DOMAIN tiedQ'[t] : i = Len(tiedQ[t]) + 1 \/ i \in DOMAIN tiedQ[t]
        BY <1>8
    <2>2. \A i \in DOMAIN tiedQ[t] : i <= Len(tiedQ[t]) /\ tiedQ'[t][i] = tiedQ[t][i]
        BY <1>7, <1>8 DEF Grown
    <2> QED
        BY <1>7, <2>1, <2>2 DEF Grown
<1>10. \A u \in Thread : \A i \in DOMAIN tiedQ[u] : i \in DOMAIN tiedQ'[u] /\ tiedQ'[u][i] = tiedQ[u][i]
    <2>1. \A i \in DOMAIN tiedQ[t] : i \in DOMAIN tiedQ'[t] /\ i \in 1..Len(tiedQ[t])
        BY <1>8
    <2> QED
        BY <1>7, <2>1 DEF Grown
<1>11. \E i \in DOMAIN tiedQ'[t] : tiedQ'[t][i] = n
    <2>1. Within(n, tiedQ')
        BY <1>7 DEF Grown
    <2>2. PICK u \in Thread : \E i \in DOMAIN tiedQ'[u] : tiedQ'[u][i] = n
        BY <2>1 DEF Within
    <2>3. u = t
        BY <1>6, <1>9, <2>2 DEF Within
    <2> QED
        BY <2>2, <2>3
<1>12. \A m : Ancestors(m)' = Ancestors(m)
    BY <1>4, SameDescent
<1>13. \A m \in Task : InBarrier(m)' <=> InBarrier(m)
    BY <1>1 DEF Put, InBarrier
\* who is suspended below the creator, and the creator, are above n
<1>14. \A a \in Task : OnStackOf(t, a) /\ ~InBarrier(a) => a \in Ancestors(n)
    <2> SUFFICES ASSUME NEW a \in Task, OnStackOf(t, a), ~InBarrier(a) PROVE a \in Ancestors(n)
        OBVIOUS
    <2>1. a = c \/ (c \in Used /\ a \in Ancestors(c))
        BY <1>2, TopDescends
    <2>2. c \in Ancestors(n)
        BY <1>3, Descent
    <2> QED
        BY <1>3, <2>1, <2>2, Descent
<1>15. ChildrenInv'
    <2> SUFFICES ASSUME NEW u \in Thread, NEW m \in Used, pc'[m] = "queued",
                        OnStackOf(u, parent[m])
                 PROVE  \E k \in DOMAIN tiedQ'[u] : tiedQ'[u][k] = m
        BY <1>4 DEF ChildrenInv, OnStackOf, SameTasks
    <2>1. CASE m = n
        <3>1. OnStackOf(t, c)
            BY <1>2, Top DEF OnStackOf, PlaceInv
        <3>2. u = t
            BY <1>3, <2>1, <3>1, OneStack
        <3> QED
            BY <1>11, <2>1, <3>2
    <2>2. CASE m # n
        <3>1. pc[m] = "queued"
            BY <1>4, <2>2, UsedTasks
        <3> QED
            BY <1>10, <3>1 DEF TiedInv, ChildrenInv
    <2> QED
        BY <2>1, <2>2
<1>16. SuffixInv'
    <2> SUFFICES ASSUME NEW u \in Thread, NEW a \in Task, ~InBarrier(a), OnStackOf(u, a),
                        NEW k \in DOMAIN tiedQ'[u], NEW m \in DOMAIN tiedQ'[u], k < m,
                        a \in Ancestors(tiedQ'[u][k])
                 PROVE  a \in Ancestors(tiedQ'[u][m])
        BY <1>4, <1>12, <1>13 DEF SuffixInv, OnStackOf
    <2>1. CASE tiedQ'[u][m] = n
        <3>1. u = t
            BY <1>6, <1>9, <2>1 DEF Within
        <3> QED
            BY <1>14, <2>1, <3>1
    <2>2. CASE tiedQ'[u][m] # n
        <3>1. m \in DOMAIN tiedQ[u] /\ tiedQ'[u][m] = tiedQ[u][m] /\ (u = t => m <= Len(tiedQ[t]))
            BY <1>9, <2>2
        <3>2. k \in DOMAIN tiedQ[u] /\ tiedQ'[u][k] = tiedQ[u][k]
            <4>1. Len(tiedQ[t]) \in Nat /\ DOMAIN tiedQ[t] = 1..Len(tiedQ[t])
                BY DEF Types
            <4>2. u = t => k # Len(tiedQ[t]) + 1
                BY <3>1, <4>1
            <4> QED
                BY <1>9, <4>2
        <3> QED
            BY <3>1, <3>2 DEF TiedInv, SuffixInv
    <2> QED
        BY <2>1, <2>2
<1>17. StolenInv'
    <2> SUFFICES ASSUME NEW v \in Thread, NEW u \in Thread, NEW m \in Used, v # u,
                        OnStackOf(u, m), OnStackOf(v, parent[m]), ~InBarrier(parent[m])',
                        NEW k \in DOMAIN tiedQ'[v]
                 PROVE  parent[m] \in Ancestors(tiedQ'[v][k])
        BY <1>4, <1>12 DEF StolenInv, OnStackOf, SameTasks
    <2>1. parent[m] \in Task
        BY UsedTasks DEF Types
    <2>2. ~InBarrier(parent[m])
        BY <1>4 DEF Put, InBarrier, SameTasks
    <2>3. CASE tiedQ'[v][k] = n
        <3>1. v = t
            BY <1>6, <1>9, <2>3 DEF Within
        <3> QED
            BY <1>14, <2>1, <2>2, <2>3, <3>1
    <2>4. CASE tiedQ'[v][k] # n
        BY <1>9, <2>2, <2>4 DEF TiedInv, StolenInv
    <2> QED
        BY <2>3, <2>4
<1>18. AboveInv' /\ TiedScheduling'
    <2>1. AboveInv'
        BY <1>4 DEF TiedInv, AboveInv, SameTasks
    <2>2. TiedScheduling'
        BY <1>1, <1>4, <1>12 DEF TiedInv, TiedScheduling, SameTasks, Suspends, IsTied, IsImplicit,
                                 InBarrier, Put
    <2> QED
        BY <2>1, <2>2
<1>19. KindInv'
    BY <1>4 DEF SameTasks, TiedInv, KindInv
<1>20. DrainedInv'
    <2> SUFFICES ASSUME NEW u \in Thread, pc'[u] \in PastBarrier PROVE tiedQ'[u] = <<>>
        BY DEF DrainedInv
    <2>1. pc[u] \in PastBarrier
        BY <1>3, <1>4, Names DEF PastBarrier, AtBarrier
    <2>2. u # t
        <3>1. pc[u] \notin Below
            BY <2>1 DEF PastBarrier, AtBarrier, Below
        <3> QED
            BY <1>2, <1>3, <2>1, <3>1, Implicit DEF PastBarrier, AtBarrier
    <2> QED
        BY <1>7, <2>1, <2>2 DEF Grown, TiedInv, DrainedInv
<1>21. TakeInv'
    <2> SUFFICES ASSUME NEW u \in Thread, pc'[Current(u)] \in {"waitTake", "exitTake"},
                        tiedQ'[u] # <<>>
                 PROVE  Current(u) \in Ancestors(Last(tiedQ'[u]))
        BY <1>4, <1>12 DEF TakeInv, Current
    <2>1. Current(u) \in Task /\ (Current(u) = c => u = t)
        BY <1>2, Top DEF PlaceInv
    <2>2. u # t /\ pc[Current(u)] \in {"waitTake", "exitTake"}
        BY <1>2, <1>3, <1>4, <2>1
    <2> QED
        BY <1>7, <2>2 DEF Grown, TiedInv, TakeInv
<1> QED
    BY <1>15, <1>16, <1>17, <1>18, <1>19, <1>20, <1>21 DEF TiedInv

\* A task is run by its creator, on the spot.
LEMMA CreatorMayRun ==
    ASSUME Types, PlaceInv, TiedInv, NEW t \in Thread, NEW n, NEW c, c = Current(t),
           c \in Ancestors(n)', parent'[n] = c,
           c \in Used => \A a \in Ancestors(c) : a \in Ancestors(n)',
           \A m \in Used' : parent'[m] # n /\ n \notin Ancestors(m)'
    PROVE  MayRun(t, n)
<1>1. c \in Task /\ OnStackOf(t, c)
    BY Top DEF PlaceInv, OnStackOf
<1>2. \A a \in Task : OnStackOf(t, a) /\ ~InBarrier(a) => a \in Ancestors(n)'
    BY TopDescends
<1>3. \A u \in Thread \ {t} : ~OnStackOf(u, c)
    BY <1>1, OneStack
<1> QED
    BY <1>2, <1>3 DEF MayRun

\* The queues stay as they are while a task that is in none starts.
LEMMA SameQueuesOrder ==
    ASSUME Types, PlaceInv, tiedQ' = tiedQ, NEW n, pc[n] # "queued"
    PROVE  SameOrder(n)
<1>1. \A u \in Thread : \A k \in DOMAIN tiedQ[u] : tiedQ[u][k] # n
    BY QueuedTask
<1> QED
    BY <1>1 DEF SameOrder

\* What the step does to the invariant's parts about labels.
LEMMA PushLabels ==
    ASSUME Types, PlaceInv, StateInv, StateInv', TiedInv, NEW t \in Thread, NEW n \in Explicit,
           NEW l \in Below, pc[n] \notin OwnLabels, Pushes(t, n, l),
           pc[Current(t)] \in AtBarrier => l \in AtBarrier,
           \A u \in Thread : tiedQ[u] = <<>> => tiedQ'[u] = <<>>,
           \A u \in Thread \ {t} :
               tiedQ'[u] # <<>> => Last(tiedQ'[u]) = Last(tiedQ[u]) /\ Last(tiedQ[u]) # n,
           \A m \in Used \ {n} : Ancestors(m)' = Ancestors(m)
    PROVE  /\ DrainedInv' /\ TakeInv'
           /\ \A m \in Task \ {n} : pc'[m] = "queued" => pc[m] = "queued"
           /\ pc'[n] # "queued"
           /\ \A m \in Task \ {n} : ~InBarrier(m)' => ~InBarrier(m)
<1>1. /\ n # Current(t) /\ n \in Task /\ n \notin Thread
      /\ \A m \in Task : pc'[m] = IF m = n THEN "body" ELSE IF m = Current(t) THEN l ELSE pc[m]
    BY PushPc, Names DEF PlaceInv, Below, Labels
<1>2. /\ \A u \in Thread \ {t} : stack'[u] = stack[u]
      /\ Len(stack'[t]) = Len(stack[t]) + 1 /\ stack'[t][Len(stack[t]) + 1] = n
      /\ stack'[t] \in Seq(Task) /\ stack'[t] # <<>>
    <2>1. l \in Labels
        BY DEF Below, Labels
    <2>2. stack'[t] = Append(stack[t], n) /\ stack[t] \in Seq(Task)
        BY DEF Pushes, Types
    <2> QED
        BY <1>1, <2>1, <2>2, PushedStack
<1>3. Current(t)' = n /\ \A u \in Thread \ {t} : Current(u)' = Current(u)
    <2>1. Last(stack'[t]) = stack'[t][Len(stack'[t])]
        BY <1>2, LastAndFront
    <2> QED
        BY <1>2, <2>1 DEF Current
<1>4. \A u \in Thread \ {t} : Current(u) \in Task /\ Current(u) # Current(t) /\ Current(u) # n
    <2>1. ASSUME NEW u \in Thread \ {t}
          PROVE  Current(u) \in Task /\ Current(u) # Current(t) /\ Current(u) # n
        <3>1. /\ Current(u) \in Task /\ Current(u) = stack[u][Len(stack[u])]
              /\ DOMAIN stack[u] = 1..Len(stack[u]) /\ Len(stack[u]) \in Nat \ {0}
              /\ DOMAIN stack[t] = 1..Len(stack[t]) /\ Len(stack[t]) \in Nat \ {0}
              /\ Current(t) = stack[t][Len(stack[t])]
            BY Top DEF PlaceInv
        <3>2. Current(u) # n
            BY <3>1, OnStack
        <3> QED
            BY <3>1, <3>2 DEF PlaceInv, StackInv, Once
    <2> QED
        BY <2>1
<1>5. DrainedInv'
    <2>1. \A u \in Thread : pc'[u] \in PastBarrier => pc[u] \in PastBarrier
        BY <1>1, Names DEF PastBarrier, AtBarrier, Below
    <2> QED
        BY <2>1 DEF TiedInv, DrainedInv
<1>6. TakeInv'
    <2> SUFFICES ASSUME NEW u \in Thread, pc'[Current(u)'] \in {"waitTake", "exitTake"},
                        tiedQ'[u] # <<>>, NEW x, x = Last(tiedQ'[u])
                 PROVE  Current(u)' \in Ancestors(x)'
        BY DEF TakeInv
    <2>1. u # t
        BY <1>1, <1>3
    <2>2. Current(u)' = Current(u) /\ pc[Current(u)] \in {"waitTake", "exitTake"} /\ tiedQ[u] # <<>>
        BY <1>1, <1>3, <1>4, <2>1
    <2>3. x = Last(tiedQ[u]) /\ x \in Used /\ x # n
        BY <2>1, <2>2, LastQueued
    <2>4. Current(u) \in Ancestors(x)
        BY <2>2, <2>3 DEF TiedInv, TakeInv
    <2> QED
        BY <2>2, <2>3, <2>4
<1>7. \A m \in Task \ {n} : pc'[m] = "queued" => pc[m] = "queued"
    BY <1>1 DEF Below
<1>8. pc'[n] # "queued"
    BY <1>1
<1>9. \A m \in Task \ {n} : ~InBarrier(m)' => ~InBarrier(m)
    <2>1. \A m \in Task \ {n} : m \in Thread /\ pc[m] \in AtBarrier => pc'[m] \in AtBarrier
        BY <1>1
    <2> QED
        BY <2>1 DEF StateInv
<1> QED
    BY <1>5, <1>6, <1>7, <1>8, <1>9

\* The queue is full: the new task is run by its creator.
LEMMA PutFullTied ==
    ASSUME Types, PlaceInv, StateInv, StateInv', TiedInv, NEW t \in Thread, PutFull(t)
    PROVE  TiedInv'
<1>1. PICK n : n = Fresh(t)
    OBVIOUS
<1>2. PICK c : c = Current(t)
    OBVIOUS
<1>3. /\ c \in Task /\ pc[c] = "put" /\ n \in Used /\ n \in Explicit
      /\ pc[n] = "created" /\ parent[n] = c
    <2>1. c \in Task /\ pc[c] = "put" /\ At(t, "put")
        BY <1>2, Top DEF PutFull, At, PlaceInv
    <2> QED
        BY <1>1, <1>2, <2>1, FreshTask DEF PlaceInv
<1>4. /\ Pushes(t, n, "createReturn") /\ SameTasks /\ Used' = Used /\ Used' \subseteq Explicit
      /\ tiedQ' = tiedQ /\ pc[n] \notin OwnLabels
    BY <1>1, <1>3, UsedTasks
       DEF PutFull, Switch, Pushes, SameTasks, taskVars, queueVars, Used, OwnLabels, Started
<1>5. \A m : Ancestors(m)' = Ancestors(m)
    BY <1>4, SameDescent
<1>6. SameOrder(n)
    BY <1>3, <1>4, SameQueuesOrder
<1>7. MayRun(t, n)
    <2>1. \A m \in Used' : parent'[m] # n /\ n \notin Ancestors(m)'
        BY <1>3, <1>4, <1>5, NotStarted DEF SameTasks
    <2>2. c \in Ancestors(n)' /\ parent'[n] = c
        BY <1>3, <1>4, <1>5, Descent DEF SameTasks
    <2>3. c \in Used => \A a \in Ancestors(c) : a \in Ancestors(n)'
        BY <1>3, <1>5, Descent
    <2> QED
        BY <1>2, <2>1, <2>2, <2>3, CreatorMayRun
<1>8. \A u \in Thread : tiedQ[u] # <<>> => Last(tiedQ[u]) # n
    BY <1>3, LastQueued, QueuedTask
<1>9. /\ DrainedInv' /\ TakeInv'
      /\ \A m \in Task \ {n} : pc'[m] = "queued" => pc[m] = "queued"
      /\ pc'[n] # "queued"
      /\ \A m \in Task \ {n} : ~InBarrier(m)' => ~InBarrier(m)
    <2>1. "createReturn" \in Below /\ pc[Current(t)] \notin AtBarrier
        BY <1>2, <1>3 DEF Below, AtBarrier
    <2> QED
        BY <1>3, <1>4, <1>5, <1>8, <2>1, PushLabels
<1>10. KindInv'
    BY <1>4 DEF SameTasks, TiedInv, KindInv
<1> QED
    <2>1. "createReturn" \in Labels /\ Used' = Used \cup {n}
        BY <1>3, <1>4 DEF Labels
    <2>2. \A m \in Used \ {n} : parent'[m] = parent[m] /\ Ancestors(m)' = Ancestors(m)
        BY <1>4, <1>5 DEF SameTasks
    <2>3. \A m \in Used \ {n} : pc'[m] = "queued" => pc[m] = "queued"
        BY <1>9, UsedTasks
    <2> QED
        BY <1>3, <1>4, <1>6, <1>7, <1>9, <1>10, <2>1, <2>2, <2>3, PushTied

\* An undeferred task is run by its creator at once.
LEMMA CreateImmediateTied ==
    ASSUME Types, PlaceInv, StateInv, StateInv', TiedInv, NEW t \in Thread, NEW k, k.tied,
           CreateImmediate(t, k)
    PROVE  TiedInv'
<1>1. PICK n : n = created + 1
    OBVIOUS
<1>2. PICK c : c = Current(t)
    OBVIOUS
<1>3. /\ n \in Explicit /\ n \notin Used /\ pc[n] = "unused" /\ NewTask(t, k)
      /\ Used' = Used \cup {n} /\ Used' \subseteq Explicit
      /\ pc[c] = "body" /\ parent'[n] = c /\ \A m \in Used : parent'[m] = parent[m]
    <2>1. /\ n \in Explicit /\ n \notin Used /\ pc[n] = "unused" /\ Used' = Used \cup {n}
          /\ pc[c] = "body" /\ parent'[n] = c /\ \A m \in Used : parent'[m] = parent[m]
        BY <1>1, <1>2, Creation DEF CreateImmediate
    <2> QED
        BY <2>1, UsedTasks DEF CreateImmediate
<1>4. Pushes(t, n, "createReturn") /\ tiedQ' = tiedQ /\ pc[n] \notin OwnLabels
    BY <1>1, <1>3 DEF CreateImmediate, Pushes, queueVars, OwnLabels, Started
<1>5. /\ \A m \in Used : Ancestors(m)' = Ancestors(m)
      /\ \A m \in Used' : parent'[m] # n /\ n \notin Ancestors(m)'
      /\ c \in Ancestors(n)'
      /\ c \in Used => \A a \in Ancestors(c) : a \in Ancestors(n)'
    BY <1>1, <1>2, <1>3, NewDescent
<1>6. SameOrder(n)
    BY <1>3, <1>4, SameQueuesOrder
<1>7. MayRun(t, n)
    BY <1>2, <1>3, <1>5, CreatorMayRun
<1>8. \A u \in Thread : tiedQ[u] # <<>> => Last(tiedQ[u]) # n
    BY <1>3, LastQueued
<1>9. /\ DrainedInv' /\ TakeInv'
      /\ \A m \in Task \ {n} : pc'[m] = "queued" => pc[m] = "queued"
      /\ pc'[n] # "queued"
      /\ \A m \in Task \ {n} : ~InBarrier(m)' => ~InBarrier(m)
    <2>1. "createReturn" \in Below /\ pc[Current(t)] \notin AtBarrier
        BY <1>2, <1>3 DEF Below, AtBarrier
    <2> QED
        BY <1>3, <1>4, <1>5, <1>8, <2>1, PushLabels
<1>10. KindInv'
    BY <1>1, <1>3 DEF NewTask, Types, TiedInv, KindInv
<1> QED
    <2>1. "createReturn" \in Labels
        BY DEF Labels
    <2>2. \A m \in Used \ {n} : parent'[m] = parent[m] /\ Ancestors(m)' = Ancestors(m)
        BY <1>3, <1>5
    <2>3. \A m \in Used \ {n} : pc'[m] = "queued" => pc[m] = "queued"
        BY <1>9, UsedTasks
    <2> QED
        BY <1>3, <1>4, <1>6, <1>7, <1>9, <1>10, <2>1, <2>2, <2>3, PushTied

\* The last task of a queue is taken.
LEMMA TailOrder ==
    ASSUME Types, PlaceInv, NEW t \in Thread, tiedQ[t] # <<>>, NEW n, n = Last(tiedQ[t]),
           tiedQ' = TakeFrom(tiedQ, t, "tail")
    PROVE  /\ SameOrder(n) /\ \A u \in Thread \ {t} : tiedQ'[u] = tiedQ[u]
           /\ \A u \in Thread \ {t} : tiedQ[u] # <<>> => Last(tiedQ[u]) # n
<1>1. /\ tiedQ \in [Thread -> Seq(Explicit)] /\ Once(tiedQ)
    BY DEF Types, PlaceInv, QueueInv
<1>2. Shrunk(Explicit, tiedQ, tiedQ', t, n) /\ KeptFront(tiedQ, tiedQ', t)
    BY <1>1, TakeLast, Zenon
<1>3. /\ Len(tiedQ[t]) \in Nat \ {0} /\ DOMAIN tiedQ[t] = 1..Len(tiedQ[t])
      /\ n = tiedQ[t][Len(tiedQ[t])] /\ Len(tiedQ[t]) \in DOMAIN tiedQ[t]
    BY LastQueued
<1>4. DOMAIN tiedQ'[t] = 1..(Len(tiedQ[t]) - 1)
    <2>1. tiedQ'[t] \in Seq(Explicit) /\ Len(tiedQ'[t]) = Len(tiedQ[t]) - 1
        BY <1>2 DEF Shrunk
    <2> QED
        BY <2>1
<1>5. \A u \in Thread \ {t} : tiedQ'[u] = tiedQ[u]
    BY <1>2 DEF Shrunk
<1>6. \A u \in Thread : \A k \in DOMAIN tiedQ[u] : tiedQ[u][k] = n => u = t /\ k = Len(tiedQ[t])
    BY <1>1, <1>3 DEF Once
<1>7. \A k \in DOMAIN tiedQ'[t] : k \in DOMAIN tiedQ[t] /\ tiedQ'[t][k] = tiedQ[t][k]
                                  /\ k # Len(tiedQ[t])
    BY <1>2, <1>3, <1>4 DEF KeptFront
<1>8. \A i \in DOMAIN tiedQ[t] : i # Len(tiedQ[t]) => i \in DOMAIN tiedQ'[t]
    BY <1>3, <1>4
<1>9. SameOrder(n)
    <2> SUFFICES ASSUME NEW u \in Thread
                 PROVE  /\ \A k \in DOMAIN tiedQ'[u] :
                              \E i \in DOMAIN tiedQ[u] : tiedQ[u][i] = tiedQ'[u][k] /\ tiedQ'[u][k] # n
                        /\ \A k, m \in DOMAIN tiedQ'[u] : k < m =>
                              \E i, j \in DOMAIN tiedQ[u] :
                                  i < j /\ tiedQ[u][i] = tiedQ'[u][k] /\ tiedQ[u][j] = tiedQ'[u][m]
                        /\ \A i \in DOMAIN tiedQ[u] :
                              tiedQ[u][i] # n => \E k \in DOMAIN tiedQ'[u] : tiedQ'[u][k] = tiedQ[u][i]
                        /\ tiedQ[u] = <<>> => tiedQ'[u] = <<>>
        BY DEF SameOrder
    <2>1. CASE u = t
        BY <1>3, <1>6, <1>7, <1>8, <2>1
    <2>2. CASE u # t
        BY <1>5, <1>6, <2>2
    <2> QED
        BY <2>1, <2>2
<1>10. \A u \in Thread \ {t} : tiedQ[u] # <<>> => Last(tiedQ[u]) # n
    BY <1>6, LastQueued
<1> QED
    BY <1>5, <1>9, <1>10

\* The first task of a queue is stolen; the others were behind it.
LEMMA HeadOrder ==
    ASSUME Types, PlaceInv, NEW v \in Thread, tiedQ[v] # <<>>, NEW n, n = Head(tiedQ[v]),
           tiedQ' = TakeFrom(tiedQ, v, "head")
    PROVE  /\ SameOrder(n) /\ \A u \in Thread \ {v} : tiedQ'[u] = tiedQ[u]
           /\ \A u \in Thread : tiedQ'[u] # <<>> =>
                 Last(tiedQ'[u]) = Last(tiedQ[u]) /\ Last(tiedQ[u]) # n
           /\ n = tiedQ[v][1] /\ 1 \in DOMAIN tiedQ[v]
           /\ \A x \in ToSet(tiedQ'[v]) : \E i \in DOMAIN tiedQ[v] : 1 < i /\ tiedQ[v][i] = x
<1>1. /\ tiedQ \in [Thread -> Seq(Explicit)] /\ Once(tiedQ) /\ tiedQ[v] \in Seq(Explicit)
    BY DEF Types, PlaceInv, QueueInv
<1>2. /\ tiedQ'[v] = Tail(tiedQ[v]) /\ \A u \in Thread \ {v} : tiedQ'[u] = tiedQ[u]
    BY <1>1 DEF TakeFrom
<1>3. /\ Len(tiedQ[v]) \in Nat \ {0} /\ DOMAIN tiedQ[v] = 1..Len(tiedQ[v])
      /\ 1 \in DOMAIN tiedQ[v] /\ n = tiedQ[v][1]
      /\ Len(tiedQ'[v]) = Len(tiedQ[v]) - 1 /\ DOMAIN tiedQ'[v] = 1..(Len(tiedQ[v]) - 1)
      /\ tiedQ'[v] \in Seq(Explicit)
      /\ \A k \in 1..(Len(tiedQ[v]) - 1) : tiedQ'[v][k] = tiedQ[v][k + 1]
    <2>1. Len(tiedQ[v]) \in Nat \ {0} /\ DOMAIN tiedQ[v] = 1..Len(tiedQ[v])
        BY LastQueued
    <2>2. 1 \in DOMAIN tiedQ[v] /\ n = tiedQ[v][1]
        BY <1>1, <2>1
    <2>3. /\ Len(tiedQ'[v]) = Len(tiedQ[v]) - 1 /\ tiedQ'[v] \in Seq(Explicit)
          /\ \A k \in 1..(Len(tiedQ[v]) - 1) : tiedQ'[v][k] = tiedQ[v][k + 1]
        <3>1. PICK q \in Seq(Explicit) : q = tiedQ[v] /\ q # <<>>
            BY <1>1
        <3>2. /\ Tail(q) \in Seq(Explicit) /\ Len(Tail(q)) = Len(q) - 1
              /\ \A k \in 1..(Len(q) - 1) : Tail(q)[k] = q[k + 1]
            BY <3>1
        <3> QED
            BY <1>2, <3>1, <3>2
    <2>4. DOMAIN tiedQ'[v] = 1..(Len(tiedQ[v]) - 1)
        BY <2>3
    <2> QED
        BY <2>1, <2>2, <2>3, <2>4
<1>4. \A u \in Thread : \A k \in DOMAIN tiedQ[u] : tiedQ[u][k] = n => u = v /\ k = 1
    <2> SUFFICES ASSUME NEW u \in Thread, NEW k \in DOMAIN tiedQ[u], tiedQ[u][k] = n
                 PROVE  u = v /\ k = 1
        OBVIOUS
    <2>1. tiedQ[u][k] = tiedQ[v][1] /\ 1 \in DOMAIN tiedQ[v]
        BY <1>3
    <2> QED
        BY <1>1, <2>1 DEF Once
<1>5. \A k \in DOMAIN tiedQ'[v] : k + 1 \in DOMAIN tiedQ[v] /\ 1 < k + 1
                                  /\ tiedQ'[v][k] = tiedQ[v][k + 1] /\ tiedQ'[v][k] # n
    <2>1. \A k \in DOMAIN tiedQ'[v] : k + 1 \in DOMAIN tiedQ[v] /\ 1 < k + 1 /\ k + 1 # 1
                                      /\ tiedQ'[v][k] = tiedQ[v][k + 1]
        BY <1>3
    <2> QED
        BY <1>4, <2>1
<1>6. \A i \in DOMAIN tiedQ[v] : i # 1 => \E k \in DOMAIN tiedQ'[v] : tiedQ'[v][k] = tiedQ[v][i]
    <2> SUFFICES ASSUME NEW i \in DOMAIN tiedQ[v], i # 1
                 PROVE  \E k \in DOMAIN tiedQ'[v] : tiedQ'[v][k] = tiedQ[v][i]
        OBVIOUS
    <2>1. i - 1 \in DOMAIN tiedQ'[v] /\ (i - 1) + 1 = i
        BY <1>3
    <2> QED
        BY <1>5, <2>1
<1>7. SameOrder(n)
    <2> SUFFICES ASSUME NEW u \in Thread
                 PROVE  /\ \A k \in DOMAIN tiedQ'[u] :
                              \E i \in DOMAIN tiedQ[u] : tiedQ[u][i] = tiedQ'[u][k] /\ tiedQ'[u][k] # n
                        /\ \A k, m \in DOMAIN tiedQ'[u] : k < m =>
                              \E i, j \in DOMAIN tiedQ[u] :
                                  i < j /\ tiedQ[u][i] = tiedQ'[u][k] /\ tiedQ[u][j] = tiedQ'[u][m]
                        /\ \A i \in DOMAIN tiedQ[u] :
                              tiedQ[u][i] # n => \E k \in DOMAIN tiedQ'[u] : tiedQ'[u][k] = tiedQ[u][i]
                        /\ tiedQ[u] = <<>> => tiedQ'[u] = <<>>
        BY DEF SameOrder
    <2>1. CASE u = v
        <3>1. \A k, m \in DOMAIN tiedQ'[v] : k < m => k + 1 < m + 1
            BY <1>3
        <3>2. \A k, m \in DOMAIN tiedQ'[v] : k < m =>
                  \E i, j \in DOMAIN tiedQ[v] :
                      i < j /\ tiedQ[v][i] = tiedQ'[v][k] /\ tiedQ[v][j] = tiedQ'[v][m]
            BY <1>5, <3>1
        <3>3. \A k \in DOMAIN tiedQ'[v] :
                  \E i \in DOMAIN tiedQ[v] : tiedQ[v][i] = tiedQ'[v][k] /\ tiedQ'[v][k] # n
            BY <1>5
        <3>4. \A i \in DOMAIN tiedQ[v] :
                  tiedQ[v][i] # n => \E k \in DOMAIN tiedQ'[v] : tiedQ'[v][k] = tiedQ[v][i]
            BY <1>3, <1>6
        <3> QED
            BY <2>1, <3>2, <3>3, <3>4
    <2>2. CASE u # v
        BY <1>2, <1>4, <2>2
    <2> QED
        BY <2>1, <2>2
<1>8. ASSUME NEW u \in Thread, tiedQ'[u] # <<>>
      PROVE  Last(tiedQ'[u]) = Last(tiedQ[u]) /\ Last(tiedQ[u]) # n
    <2>1. CASE u = v
        <3>1. Len(tiedQ'[v]) \in Nat \ {0} /\ Last(tiedQ'[v]) = tiedQ'[v][Len(tiedQ'[v])]
            BY <1>3, <1>8, <2>1, LastAndFront
        <3>2. Len(tiedQ'[v]) \in DOMAIN tiedQ'[v] /\ Len(tiedQ'[v]) + 1 = Len(tiedQ[v])
            BY <1>3, <3>1
        <3>3. tiedQ'[v][Len(tiedQ'[v])] = tiedQ[v][Len(tiedQ[v])] /\ tiedQ'[v][Len(tiedQ'[v])] # n
            BY <1>5, <3>2
        <3>4. Last(tiedQ[v]) = tiedQ[v][Len(tiedQ[v])]
            BY LastQueued
        <3> QED
            BY <2>1, <3>1, <3>3, <3>4
    <2>2. CASE u # v
        BY <1>2, <1>4, <1>8, <2>2, LastQueued
    <2> QED
        BY <2>1, <2>2
<1>9. \A x \in ToSet(tiedQ'[v]) : \E i \in DOMAIN tiedQ[v] : 1 < i /\ tiedQ[v][i] = x
    BY <1>5 DEF ToSet
<1> QED
    BY <1>2, <1>3, <1>7, <1>8, <1>9

\* A task of the pool is run.
LEMMA PooledTied ==
    ASSUME Types, PlaceInv, StateInv, StateInv', TiedInv, NEW t \in Thread, NEW n \in Used,
           NEW l \in Below, pc[n] = "queued", Pushes(t, n, l), SameTasks,
           pc[Current(t)] \in AtBarrier => l \in AtBarrier,
           SameOrder(n),
           \A u \in Thread \ {t} :
               tiedQ'[u] # <<>> => Last(tiedQ'[u]) = Last(tiedQ[u]) /\ Last(tiedQ[u]) # n,
           \A a \in Task : OnStackOf(t, a) /\ ~InBarrier(a) => a \in Ancestors(n),
           \A u \in Thread \ {t} : OnStackOf(u, parent[n]) /\ ~InBarrier(parent[n])
               => \A x \in ToSet(tiedQ'[u]) : parent[n] \in Ancestors(x)
    PROVE  TiedInv'
<1>1. /\ n \in Explicit /\ Used' = Used \cup {n} /\ Used' \subseteq Explicit
      /\ pc[n] \notin OwnLabels /\ l \in Labels
    BY UsedTasks DEF SameTasks, Used, OwnLabels, Started, Below, Labels
<1>2. \A m : Ancestors(m)' = Ancestors(m)
    BY SameDescent
<1>3. \A m \in Used' : parent'[m] # n /\ n \notin Ancestors(m)'
    BY <1>1, <1>2, NotStarted DEF SameTasks
<1>4. MayRun(t, n)
    BY <1>2, <1>3 DEF MayRun, SameTasks
<1>5. \A u \in Thread : tiedQ[u] = <<>> => tiedQ'[u] = <<>>
    BY DEF SameOrder
<1>6. /\ DrainedInv' /\ TakeInv'
      /\ \A m \in Task \ {n} : pc'[m] = "queued" => pc[m] = "queued"
      /\ pc'[n] # "queued"
      /\ \A m \in Task \ {n} : ~InBarrier(m)' => ~InBarrier(m)
    BY <1>1, <1>2, <1>5, PushLabels
<1>7. KindInv'
    BY DEF SameTasks, TiedInv, KindInv
<1>8. \A m \in Used \ {n} : parent'[m] = parent[m] /\ Ancestors(m)' = Ancestors(m)
    BY <1>2 DEF SameTasks
<1>9. \A m \in Used \ {n} : pc'[m] = "queued" => pc[m] = "queued"
    BY <1>6, UsedTasks
<1> QED
    BY <1>1, <1>4, <1>6, <1>7, <1>8, <1>9, PushTied

\* It is the last one of the thread's own queue, or, when the thread is at a
\* barrier with an empty queue, the first one of another's.
LEMMA TakenFrom ==
    ASSUME Types, PlaceInv, StateInv, TiedInv, NEW t \in Thread, NEW l, TakeAndSwitch(t, l)
    PROVE  \E n :
             /\ Pushes(t, n, l) /\ SameTasks
             /\ \/ /\ tiedQ[t] # <<>> /\ n = Last(tiedQ[t])
                   /\ tiedQ' = TakeFrom(tiedQ, t, "tail")
                \/ \E v \in Thread \ {t} :
                     /\ InBarrier(Current(t))
                     /\ tiedQ[t] = <<>> /\ tiedQ[v] # <<>> /\ n = Head(tiedQ[v])
                     /\ tiedQ' = TakeFrom(tiedQ, v, "head")
<1>1. \A v \in Thread : untiedQ[v] = <<>>
    <2> SUFFICES ASSUME NEW v \in Thread, untiedQ[v] # <<>> PROVE FALSE
        OBVIOUS
    <2>1. untiedQ[v] \in Seq(Explicit)
        BY DEF Types
    <2>2. 1 \in DOMAIN untiedQ[v] /\ untiedQ[v][1] \in Explicit
        BY <2>1
    <2>3. Within(untiedQ[v][1], untiedQ)
        BY <2>2 DEF Within
    <2>4. ~IsTied(untiedQ[v][1])
        BY <2>2, <2>3 DEF PlaceInv, QueueInv
    <2> QED
        BY <2>2, <2>4 DEF IsTied, TiedInv, KindInv
<1>2. PICK r \in Removable(t) : tiedQ' = r.tied /\ Switch(t, r.task, l) /\ UNCHANGED taskVars
    BY DEF TakeAndSwitch
<1>3. Pushes(t, r.task, l) /\ SameTasks
    BY <1>2 DEF Switch, Pushes, SameTasks, taskVars
<1>4. MayStealTied(t) => InBarrier(Current(t))
    <2>1. Current(t) \in Thread \/ Current(t) \in Used
        BY Top DEF PlaceInv
    <2> QED
        BY <2>1, UsedTasks DEF MayStealTied, IsTied, IsImplicit, TiedInv, KindInv
<1>5. CASE tiedQ[t] # <<>>
    BY <1>2, <1>3, <1>5 DEF Removable
<1>6. CASE tiedQ[t] = <<>>
    <2>1. r \in {[task |-> Head(tiedQ[v]), tied |-> TakeFrom(tiedQ, v, "head"), untied |-> untiedQ]
                   : v \in IF MayStealTied(t) THEN {w \in Thread \ {t} : tiedQ[w] # <<>>} ELSE {}}
        BY <1>1, <1>6 DEF Removable
    <2>2. PICK v \in Thread \ {t} :
            /\ MayStealTied(t) /\ tiedQ[v] # <<>>
            /\ r = [task |-> Head(tiedQ[v]), tied |-> TakeFrom(tiedQ, v, "head"), untied |-> untiedQ]
        BY <2>1
    <2> QED
        BY <1>2, <1>3, <1>4, <1>6, <2>2
<1> QED
    BY <1>5, <1>6

\* Every step that takes a task from the pool.
LEMMA TakeTied ==
    ASSUME Types, PlaceInv, StateInv, StateInv', TiedInv, NEW t \in Thread, NEW l \in Below,
           TakeAndSwitch(t, l),
           \/ pc[Current(t)] \in {"waitTake", "exitTake"} /\ l \notin AtBarrier
           \/ Current(t) = t /\ pc[t] \in Draining /\ l = pc[t]
    PROVE  TiedInv'
<1>1. PICK n :
        /\ Pushes(t, n, l) /\ SameTasks
        /\ \/ /\ tiedQ[t] # <<>> /\ n = Last(tiedQ[t])
              /\ tiedQ' = TakeFrom(tiedQ, t, "tail")
           \/ \E v \in Thread \ {t} :
                /\ InBarrier(Current(t))
                /\ tiedQ[t] = <<>> /\ tiedQ[v] # <<>> /\ n = Head(tiedQ[v])
                /\ tiedQ' = TakeFrom(tiedQ, v, "head")
    BY TakenFrom
<1>2. pc[Current(t)] \in AtBarrier => l \in AtBarrier
    BY DEF AtBarrier
\* a thread at a barrier has suspended nobody else
<1>3. Current(t) = t /\ InBarrier(t) => \A a \in Task : OnStackOf(t, a) => InBarrier(a)
    <2>1. Current(t) = t => Len(stack[t]) = 1 /\ DOMAIN stack[t] = 1..1 /\ stack[t][1] = t
        BY Top DEF PlaceInv
    <2> QED
        BY <2>1 DEF OnStackOf
<1>4. InBarrier(Current(t)) => Current(t) = t /\ InBarrier(t)
    BY Top DEF StateInv, PlaceInv
<1>5. pc[t] \in Draining => InBarrier(t)
    BY Names DEF StateInv, Draining, AtBarrier
<1>6. ASSUME tiedQ[t] # <<>>, n = Last(tiedQ[t]), tiedQ' = TakeFrom(tiedQ, t, "tail")
      PROVE  TiedInv'
    <2>1. n \in Used /\ pc[n] = "queued"
        BY <1>6, LastQueued, QueuedTask
    <2>2. /\ SameOrder(n) /\ \A u \in Thread \ {t} : tiedQ'[u] = tiedQ[u]
          /\ \A u \in Thread \ {t} : tiedQ[u] # <<>> => Last(tiedQ[u]) # n
        BY <1>6, TailOrder
    <2>3. ASSUME NEW a \in Task, OnStackOf(t, a), ~InBarrier(a) PROVE a \in Ancestors(n)
        <3>1. ~(Current(t) = t /\ InBarrier(t))
            BY <1>3, <2>3
        <3>2. pc[Current(t)] \in {"waitTake", "exitTake"}
            BY <1>5, <3>1
        <3>3. Current(t) \in Ancestors(n)
            BY <1>6, <3>2 DEF TiedInv, TakeInv
        <3>4. a = Current(t) \/ (Current(t) \in Used /\ a \in Ancestors(Current(t)))
            BY <2>3, TopDescends
        <3> QED
            BY <2>1, <3>3, <3>4, Descent
    <2>4. ASSUME NEW u \in Thread \ {t} PROVE ~OnStackOf(u, parent[n])
        <3>1. OnStackOf(u, parent[n]) => \E k \in DOMAIN tiedQ[u] : tiedQ[u][k] = n
            BY <2>1 DEF TiedInv, ChildrenInv
        <3>2. \E k \in DOMAIN tiedQ[t] : tiedQ[t][k] = n
            BY <1>6, LastQueued
        <3> QED
            BY <3>1, <3>2 DEF PlaceInv, QueueInv, Once
    <2> QED
        BY <1>1, <1>2, <2>1, <2>2, <2>3, <2>4, PooledTied
<1>7. ASSUME NEW v \in Thread \ {t}, InBarrier(Current(t)), tiedQ[v] # <<>>,
             n = Head(tiedQ[v]), tiedQ' = TakeFrom(tiedQ, v, "head")
      PROVE  TiedInv'
    <2>1. /\ SameOrder(n) /\ \A u \in Thread \ {v} : tiedQ'[u] = tiedQ[u]
          /\ \A u \in Thread : tiedQ'[u] # <<>> =>
                Last(tiedQ'[u]) = Last(tiedQ[u]) /\ Last(tiedQ[u]) # n
          /\ n = tiedQ[v][1] /\ 1 \in DOMAIN tiedQ[v]
          /\ \A x \in ToSet(tiedQ'[v]) : \E i \in DOMAIN tiedQ[v] : 1 < i /\ tiedQ[v][i] = x
        BY <1>7, HeadOrder
    <2>2. n \in Used /\ pc[n] = "queued"
        BY <2>1, QueuedTask
    <2>3. ASSUME NEW a \in Task, OnStackOf(t, a), ~InBarrier(a) PROVE a \in Ancestors(n)
        BY <1>3, <1>4, <1>7, <2>3
    <2>4. ASSUME NEW u \in Thread \ {t}, OnStackOf(u, parent[n]), ~InBarrier(parent[n]),
                 NEW x \in ToSet(tiedQ'[u])
          PROVE  parent[n] \in Ancestors(x)
        <3>1. u = v
            <4>1. \E k \in DOMAIN tiedQ[u] : tiedQ[u][k] = n
                BY <2>2, <2>4 DEF TiedInv, ChildrenInv
            <4> QED
                BY <2>1, <4>1 DEF PlaceInv, QueueInv, Once
        <3>2. PICK i \in DOMAIN tiedQ[v] : 1 < i /\ tiedQ[v][i] = x
            BY <2>1, <2>4, <3>1
        <3>3. parent[n] \in Task /\ parent[n] \in Ancestors(tiedQ[v][1])
            <4>1. parent[n] \in Task
                BY <2>2, UsedTasks DEF Types
            <4> QED
                BY <2>1, <2>2, <4>1, Descent
        <3> QED
            BY <2>1, <2>4, <3>1, <3>2, <3>3 DEF TiedInv, SuffixInv
    <2> QED
        BY <1>1, <1>2, <2>1, <2>2, <2>3, <2>4, PooledTied
<1> QED
    BY <1>1, <1>6, <1>7

\* Nothing is queued when no task is pending.
LEMMA NothingQueued ==
    ASSUME Types, PlaceInv, CountInv, numPending = 0, NEW t \in Thread
    PROVE  tiedQ[t] = <<>>
<1>1. Pending = {}
    BY CountedSets, FS_EmptySet DEF CountInv, CountersExact
<1>2. SUFFICES ASSUME tiedQ[t] # <<>> PROVE FALSE
    OBVIOUS
<1>3. Last(tiedQ[t]) \in Used /\ pc[Last(tiedQ[t])] = "queued" /\ IsDeferred(Last(tiedQ[t]))
    BY <1>2, LastQueued, QueuedTask
<1> QED
    BY <1>1, <1>3 DEF Pending, BodyOver, Uncounted

\* Who tests a counter of its children, and goes on to take a task.
LEMMA TestTied ==
    ASSUME Types, PlaceInv, CountInv, StateInv, TiedInv, NEW t \in Thread, tiedQ[t] # <<>>,
           \/ pc[Current(t)] = "waitTest" /\ numChildren[Current(t)] # 0
           \/ pc[Current(t)] = "exitBlock" /\ numBlocking[Current(t)] # 0
    PROVE  Current(t) \in Ancestors(Last(tiedQ[t]))
<1>1. PICK c : c = Current(t)
    OBVIOUS
<1>2. c \in Task /\ pc[c] \notin AtBarrier \cup {"put"}
    BY <1>1, Top DEF PlaceInv, AtBarrier
<1>3. PICK n \in Used : parent[n] = c /\ pc[n] # "done"
    <2>1. Counted(c) # {} \/ Blocking(c) # {}
        BY <1>1, <1>2, FS_EmptySet DEF CountInv, CountersExact
    <2> QED
        BY <2>1 DEF Counted, Blocking, Children, Uncounted, Gone
<1> QED
    BY <1>1, <1>2, <1>3, OwnDescendants

\* Every step keeps the invariant.
LEMMA TiedStep ==
    ASSUME AllTied, IInv, StateInv', TiedInv, NEW t \in Thread,
           Program(t) \/ Take(t) \/ Miss(t) \/ Runtime(t)
    PROVE  TiedInv'
<1>1. Types /\ PlaceInv /\ CountInv /\ RunInv /\ StateInv /\ BarrierInv
    BY DEF IInv, RunInv
<1>2. ASSUME NEW k \in Kinds, CreateDeferred(t, k) PROVE TiedInv'
    BY <1>1, <1>2, CreateDeferredTied DEF AllTied
<1>3. ASSUME NEW k \in Kinds, CreateImmediate(t, k) PROVE TiedInv'
    BY <1>1, <1>3, CreateImmediateTied DEF AllTied
<1>4. CASE Put(t)
    BY <1>1, <1>4, PutTied
<1>5. CASE PutFull(t)
    BY <1>1, <1>5, PutFullTied
<1>6. CASE WaitTake(t)
    BY <1>1, <1>6, TakeTied DEF WaitTake, At, Below, AtBarrier
<1>7. CASE ExitTake(t)
    BY <1>1, <1>7, TakeTied DEF ExitTake, At, Below, AtBarrier
<1>8. CASE BarrierTake(t)
    BY <1>1, <1>8, TakeTied, Switches DEF Draining, Below
<1>9. CASE ReturnDelete(t) \/ MarkFinished(t)
    BY <1>1, <1>9, Switches, ReturnsTied
<1>10. CASE Wait(t)
    BY <1>1, <1>10, Moves, GoesTied DEF Wait, At, PastBarrier, AtBarrier
<1>11. CASE Exit(t)
    <2>1. PICK l \in {"exitDec", "exitBlock"} : Goes(t, l)
        BY <1>1, <1>11, Moves
    <2> QED
        BY <1>1, <1>11, <2>1, GoesTied DEF Exit, At, PastBarrier, AtBarrier
<1>12. CASE WaitMiss(t)
    BY <1>1, <1>12, Moves, GoesTied DEF WaitMiss, At, PastBarrier, AtBarrier
<1>13. CASE ExitMiss(t)
    BY <1>1, <1>13, Moves, GoesTied DEF ExitMiss, At, PastBarrier, AtBarrier
<1>14. CASE ExitDec(t)
    BY <1>1, <1>14, Moves, GoesTied DEF ExitDec, At, PastBarrier, AtBarrier
<1>15. CASE ExitCheck(t)
    BY <1>1, <1>15, Moves, GoesTied DEF ExitCheck, At, PastBarrier, AtBarrier
<1>16. CASE ReturnKeep(t)
    BY <1>1, <1>16, Moves, GoesTied DEF ReturnKeep, At, PastBarrier, AtBarrier
<1>17. CASE WaitTest(t)
    <2>1. pc[Current(t)] = "waitTest"
        BY <1>17 DEF WaitTest, At
    <2>2. CASE numChildren[Current(t)] = 0
        BY <1>1, <1>17, <2>1, <2>2, Moves, GoesTied DEF PastBarrier, AtBarrier
    <2>3. CASE numChildren[Current(t)] # 0
        <3>1. Goes(t, "waitTake")
            BY <1>1, <1>17, <2>3, Moves
        <3> QED
            BY <1>1, <2>1, <2>3, <3>1, TestTied, GoesTied DEF PastBarrier, AtBarrier
    <2> QED
        BY <2>2, <2>3
<1>18. CASE ExitBlock(t)
    <2>1. pc[Current(t)] = "exitBlock"
        BY <1>18 DEF ExitBlock, At
    <2>2. CASE MayLeave(Current(t))
        BY <1>1, <1>18, <2>1, <2>2, Moves, GoesTied DEF PastBarrier, AtBarrier
    <2>3. CASE ~MayLeave(Current(t))
        <3>1. Goes(t, "exitTake") /\ numBlocking[Current(t)] # 0
            BY <1>1, <1>18, <2>3, Moves DEF MayLeave
        <3> QED
            BY <1>1, <2>1, <3>1, TestTied, GoesTied DEF PastBarrier, AtBarrier
    <2> QED
        BY <2>2, <2>3
<1>19. CASE BarrierArrive(t) \/ EndArrive(t)
    <2>1. PICK l \in {"barrier", "endBarrier"} : Goes(t, l)
        BY <1>1, <1>19, Moves
    <2> QED
        BY <1>1, <2>1, GoesTied DEF PastBarrier, AtBarrier
<1>20. CASE BarrierPass(t) \/ EndPass(t)
    <2>1. PICK l \in {"barrierReset", "barrierWait", "join", "gone"} : Goes(t, l)
        BY <1>1, <1>20, Moves
    <2>2. tiedQ[t] = <<>>
        BY <1>1, <1>20, NothingQueued DEF BarrierPass, EndPass, AllArrived
    <2> QED
        BY <1>1, <2>1, <2>2, GoesTied
<1>21. CASE BarrierReset(t) \/ BarrierToggle(t) \/ BarrierLeave(t) \/ MasterJoin(t)
    <2>1. PICK l \in {"barrierToggle", "barrierWait", "body", "gone"} : Goes(t, l) /\ Current(t) = t
        BY <1>1, <1>21, Moves
    <2>2. pc[t] \in PastBarrier
        BY <1>21, <2>1 DEF BarrierReset, BarrierToggle, BarrierLeave, MasterJoin, At,
                           PastBarrier, AtBarrier
    <2>3. tiedQ[t] = <<>>
        BY <2>2 DEF TiedInv, DrainedInv
    <2> QED
        BY <1>1, <2>1, <2>3, GoesTied
<1> QED
    BY <1>2, <1>3, <1>4, <1>5, <1>6, <1>7, <1>8, <1>9, <1>10, <1>11, <1>12, <1>13, <1>14, <1>15,
       <1>16, <1>17, <1>18, <1>19, <1>20, <1>21 DEF Program, Take, Miss, Runtime

\* So does a step of the program's outside.
LEMMA TiedStutter ==
    ASSUME TiedInv, UNCHANGED vars
    PROVE  TiedInv'
<1>1. UNCHANGED <<created, kind, parent, state, pc, stack, tiedQ>>
    BY DEF vars, taskVars, stackVars, queueVars
<1>2. SameTasks /\ Used' = Used
    BY <1>1 DEF SameTasks, Used
<1>3. \A m : Ancestors(m)' = Ancestors(m)
    BY <1>2, SameDescent
<1>4. ChildrenInv' /\ SuffixInv' /\ StolenInv'
    BY <1>1, <1>2, <1>3 DEF TiedInv, ChildrenInv, SuffixInv, StolenInv, OnStackOf, InBarrier
<1>5. KindInv' /\ DrainedInv' /\ TakeInv' /\ AboveInv'
    BY <1>1, <1>2, <1>3 DEF TiedInv, KindInv, DrainedInv, TakeInv, AboveInv, Current
<1>6. TiedScheduling'
    BY <1>1, <1>3 DEF TiedInv, TiedScheduling, Suspends, IsTied, IsImplicit, InBarrier
<1> QED
    BY <1>4, <1>5, <1>6 DEF TiedInv

\* It holds when the region starts: nothing is queued, every stack holds one
\* implicit task.
LEMMA TiedInit ==
    ASSUME Init
    PROVE  TiedInv
<1>1. /\ Used = {} /\ \A t \in Thread : tiedQ[t] = <<>> /\ stack[t] = <<t>>
      /\ \A n \in Explicit : kind[n].tied
    BY DEF Init, Used
<1>2. \A t \in Thread : DOMAIN stack[t] = 1..1
    BY <1>1
<1>3. ChildrenInv /\ StolenInv /\ KindInv /\ DrainedInv /\ TakeInv
    BY <1>1 DEF ChildrenInv, StolenInv, KindInv, DrainedInv, TakeInv
<1>4. SuffixInv
    BY <1>1 DEF SuffixInv
<1>5. AboveInv /\ TiedScheduling
    BY <1>1, <1>2 DEF AboveInv, TiedScheduling
<1> QED
    BY <1>3, <1>4, <1>5 DEF TiedInv

(* In a program whose tasks are all tied, the task a thread runs above a    *)
(* suspended one that is not at a barrier descends from it                  *)
(* (omp_task_pool.c:239-241).                                               *)
THEOREM TiedTasks ==
    ASSUME AllTied
    PROVE  Spec => []TiedScheduling
<1>1. Init => TiedInv
    BY TiedInit
<1>2. IInv /\ IInv' /\ TiedInv /\ [Next]_vars => TiedInv'
    <2> SUFFICES ASSUME IInv, IInv', TiedInv, [Next]_vars PROVE TiedInv'
        OBVIOUS
    <2>1. StateInv'
        BY DEF IInv, RunInv
    <2> QED
        BY <2>1, TiedStep, TiedStutter DEF Next, Over
<1>3. TiedInv => TiedScheduling
    BY DEF TiedInv
<1> QED
    BY <1>1, <1>2, <1>3, Invariant, PTL DEF Spec
=============================================================================
