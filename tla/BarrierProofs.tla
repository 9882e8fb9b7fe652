----------------------------- MODULE BarrierProofs -----------------------------
(***************************************************************************)
(* The four algorithms of omp_xbarrier.c, for teams of any size, any       *)
(* sequence of forks that each survives and any number of barriers a       *)
(* region: the invariants MCBarriers checks, and that nobody leaves a      *)
(* barrier before the whole team has entered it.                           *)
(***************************************************************************)
EXTENDS MCBarriers, FiniteSetTheorems, NaturalsInduction, TLAPS

(* Least elements, for proofs by induction over a set *)

Less == {ss \in Nat \X Nat : ss[1] < ss[2]}

LEMMA Least ==
    ASSUME NEW S \in SUBSET Nat, S # {}
    PROVE  \E m \in S : \A n \in S : m <= n
  <1>1. Less = OpToRel(<, Nat)
    BY Zenon DEF OpToRel, Less
  <1>2. IsWellFoundedOn(Less, Nat)
    BY <1>1, NatLessThanWellFounded, Zenon
  <1>3. PICK m \in S : \A n \in S : <<n, m>> \notin Less
    BY <1>2, WFMin, Zenon
  <1>4. \A n \in S : <<n, m>> \in Nat \X Nat
    OBVIOUS
  <1>5. \A n \in S : ~(n < m)
    BY <1>3, <1>4 DEF Less
  <1> QED
    BY <1>5

-----------------------------------------------------------------------------
(* Powers of two: 2^n is the number of subsets of 1..n *)

LEMMA PowerIsNat ==
    ASSUME NEW n \in Nat
    PROVE  /\ 2^n \in Nat
           /\ IsFiniteSet(SUBSET (1..n)) /\ Cardinality(SUBSET (1..n)) = 2^n
  <1>1. IsFiniteSet(1..n) /\ Cardinality(1..n) = n
    BY FS_Interval
  <1> QED
    BY <1>1, FS_SUBSET, FS_CardinalityType

LEMMA PowerDoubles ==
    ASSUME NEW n \in Nat
    PROVE  2^(n + 1) = 2 * 2^n
  <1> DEFINE A == SUBSET (1..n)
             B == {S \in SUBSET (1..(n + 1)) : n + 1 \in S}
             f == [S \in A |-> S \cup {n + 1}]
  <1>1. IsFiniteSet(A) /\ Cardinality(A) = 2^n /\ 2^n \in Nat
    BY PowerIsNat
  <1>2. f \in Injection(A, B)
    <2>1. f \in [A -> B]
      OBVIOUS
    <2>2. ASSUME NEW S \in A, NEW T \in A, f[S] = f[T] PROVE S = T
      <3>1. S = f[S] \ {n + 1} /\ T = f[T] \ {n + 1}
        OBVIOUS
      <3> QED
        BY <2>2, <3>1
    <2> QED
      BY <2>1, <2>2 DEF Injection, IsInjective
  <1>3. f \in Surjection(A, B)
    <2>1. ASSUME NEW S \in B PROVE S \ {n + 1} \in A /\ f[S \ {n + 1}] = S
      OBVIOUS
    <2> QED
      BY <1>2, <2>1 DEF Injection, Surjection
  <1>4. IsFiniteSet(B) /\ Cardinality(B) = 2^n
    BY <1>1, <1>2, <1>3, FS_Surjection
  <1>5. SUBSET (1..(n + 1)) = A \cup B /\ A \cap B = {}
    OBVIOUS
  <1>6. Cardinality(A \cup B) = 2 * 2^n
    <2>1. Cardinality(A \cup B) = Cardinality(A) + Cardinality(B) - Cardinality(A \cap B)
      BY <1>1, <1>4, FS_Union
    <2>2. Cardinality(A \cap B) = 0
      BY <1>5, FS_EmptySet
    <2> HIDE DEF A, B
    <2> QED
      BY <1>1, <1>4, <2>1, <2>2
  <1>7. Cardinality(A \cup B) = 2^(n + 1)
    <2>1. n + 1 \in Nat
      OBVIOUS
    <2>2. Cardinality(SUBSET (1..(n + 1))) = 2^(n + 1)
      BY <2>1, PowerIsNat
    <2> QED
      BY <1>5, <2>2
  <1> HIDE DEF A, B
  <1> QED
    BY <1>1, <1>6, <1>7

LEMMA PowerZero == 2^0 = 1
  OBVIOUS

\* n < 2^n, and powers of two grow.
LEMMA PowerGrows ==
    /\ \A n \in Nat : 2^n \in Nat /\ n < 2^n
    /\ \A m, n \in Nat : m <= n => 2^m <= 2^n
    /\ \A m, n \in Nat : m < n => 2 * 2^m <= 2^n
  <1>1. ASSUME NEW n \in Nat PROVE n < 2^n
    <2> DEFINE S == {k \in Nat : ~(k < 2^k)}
    <2> SUFFICES ASSUME n \in S PROVE FALSE
      OBVIOUS
    <2>1. PICK k \in S : \A j \in S : k <= j
      BY Least
    <2>2. k # 0
      <3>1. 0 < 2^0
        BY PowerZero
      <3> QED
        BY <2>1, <3>1
    <2>3. k - 1 \in Nat /\ k - 1 \notin S
      BY <2>1, <2>2
    <2>4. 2^((k - 1) + 1) = 2 * 2^(k - 1) /\ 2^(k - 1) \in Nat
      BY <2>3, PowerDoubles, PowerIsNat
    <2>5. (k - 1) + 1 = k
      BY <2>1
    <2> QED
      BY <2>1, <2>3, <2>4, <2>5
  <1>2. ASSUME NEW m \in Nat, NEW n \in Nat, m <= n PROVE 2^m <= 2^n
    <2> DEFINE S == {k \in Nat : m <= k /\ ~(2^m <= 2^k)}
    <2> SUFFICES ASSUME n \in S PROVE FALSE
      BY <1>2
    <2>1. PICK k \in S : \A j \in S : k <= j
      BY Least
    <2>2. 2^m \in Nat
      BY PowerIsNat
    <2>3. k # m
      BY <2>1, <2>2
    <2>4. k - 1 \in Nat /\ m <= k - 1 /\ k - 1 \notin S
      BY <2>1, <2>3
    <2>5. 2^((k - 1) + 1) = 2 * 2^(k - 1) /\ 2^(k - 1) \in Nat
      BY <2>4, PowerDoubles, PowerIsNat
    <2>6. (k - 1) + 1 = k
      BY <2>1
    <2> QED
      BY <2>1, <2>2, <2>4, <2>5, <2>6
  <1>3. ASSUME NEW m \in Nat, NEW n \in Nat, m < n PROVE 2 * 2^m <= 2^n
    BY <1>2, <1>3, PowerDoubles, m + 1 \in Nat, m + 1 <= n
  <1> QED
    BY <1>1, <1>2, <1>3, PowerIsNat

\* omp_thread.c:1339-1340: the least power of two that a number does not exceed.
Log2(n) == CHOOSE k \in 0..n : 2^k >= n /\ \A j \in 0..(k - 1) : 2^j < n

LEMMA Log2Least ==
    ASSUME NEW n \in Nat
    PROVE  /\ Log2(n) \in Nat
           /\ n <= 2^Log2(n)
           /\ \A j \in Nat : j < Log2(n) => 2^j < n
  <1> DEFINE S == {k \in Nat : n <= 2^k}
  <1>1. n \in S
    BY PowerGrows
  <1>2. PICK k \in S : \A j \in S : k <= j
    BY <1>1, Least
  <1>3. k \in 0..n /\ 2^k >= n
    BY <1>1, <1>2, PowerGrows
  <1>4. \A j \in 0..(k - 1) : 2^j < n
    BY <1>2, PowerGrows
  <1>5. \E x \in 0..n : 2^x >= n /\ \A j \in 0..(x - 1) : 2^j < n
    BY <1>3, <1>4
  <1>6. /\ Log2(n) \in 0..n /\ 2^Log2(n) >= n
        /\ \A j \in 0..(Log2(n) - 1) : 2^j < n
    BY <1>5 DEF Log2
  <1> QED
    BY <1>6, PowerGrows

LEMMA Log2Grows ==
    ASSUME NEW m \in Nat, NEW n \in Nat, m <= n
    PROVE  Log2(m) <= Log2(n)
  <1>1. ~(2^Log2(n) < m)
    BY Log2Least, PowerGrows
  <1> QED
    BY <1>1, Log2Least

-----------------------------------------------------------------------------
(* Remainders *)

\* round the ring once
LEMMA ModOnce ==
    ASSUME NEW n \in Nat, NEW x \in Nat, x < 2 * n
    PROVE  /\ x < n => x % n = x
           /\ n <= x => x % n = x - n
  OBVIOUS

LEMMA ModIs ==
    ASSUME NEW d \in Nat, NEW q \in Nat, NEW r \in 0..(d - 1)
    PROVE  (d * q + r) % d = r
  OBVIOUS

LEMMA ModSplit ==
    ASSUME NEW d \in Nat, d > 0, NEW x \in Nat
    PROVE  \E q \in Nat : x = d * q + (x % d)
  <1>1. x = d * (x \div d) + (x % d) /\ x \div d \in Nat
    OBVIOUS
  <1> QED
    BY <1>1

\* a number and the next power of two
LEMMA ModDouble ==
    ASSUME NEW d \in Nat, d > 0, NEW x \in Nat
    PROVE  /\ x % (2 * d) = 0 => x % d = 0
           /\ x % (2 * d) = d => x % d = 0 /\ d <= x /\ (x - d) % (2 * d) = 0
           /\ x % d = 0 => x % (2 * d) \in {0, d}
           /\ x % (2 * d) = 0 => (x + d) % (2 * d) = d
           /\ x % d = 0 => x = 0 \/ d <= x
  <1>1. PICK q \in Nat : x = d * q + (x % d)
    BY ModSplit
  <1>2. 2 * d \in Nat /\ 2 * d > 0
    OBVIOUS
  <1>3. PICK p \in Nat : x = (2 * d) * p + (x % (2 * d))
    BY <1>2, ModSplit
  <1>0. \A h \in Nat : ((2 * d) * h + 0) % (2 * d) = 0 /\ ((2 * d) * h + d) % (2 * d) = d
    <2> SUFFICES ASSUME NEW h \in Nat
                 PROVE  ((2 * d) * h + 0) % (2 * d) = 0 /\ ((2 * d) * h + d) % (2 * d) = d
      OBVIOUS
    <2>1. 0 \in 0..((2 * d) - 1) /\ d \in 0..((2 * d) - 1)
      OBVIOUS
    <2> QED
      BY <1>2, <2>1, ModIs
  <1>4. ASSUME x % (2 * d) = 0 PROVE x % d = 0 /\ (x + d) % (2 * d) = d
    <2>1. x = d * (2 * p) + 0 /\ x + d = (2 * d) * p + d
      BY <1>3, <1>4
    <2>2. (d * (2 * p) + 0) % d = 0
      BY ModIs, 2 * p \in Nat
    <2>3. ((2 * d) * p + d) % (2 * d) = d
      BY <1>0
    <2> QED
      BY <2>1, <2>2, <2>3
  <1>5. ASSUME x % (2 * d) = d
        PROVE  x % d = 0 /\ d <= x /\ (x - d) % (2 * d) = 0
    <2>1. x = d * (2 * p + 1) + 0 /\ x - d = (2 * d) * p + 0 /\ d <= x
      BY <1>3, <1>5
    <2>2. (d * (2 * p + 1) + 0) % d = 0
      BY ModIs, 2 * p + 1 \in Nat
    <2>3. ((2 * d) * p + 0) % (2 * d) = 0
      BY <1>0
    <2> QED
      BY <2>1, <2>2, <2>3
  <1>6. ASSUME x % d = 0 PROVE x % (2 * d) \in {0, d}
    <2>1. PICK h \in Nat : q = 2 * h \/ q = 2 * h + 1
      <3>1. q = 2 * (q \div 2) + (q % 2) /\ q \div 2 \in Nat /\ q % 2 \in {0, 1}
        OBVIOUS
      <3> QED
        BY <3>1
    <2>2. x = (2 * d) * h + 0 \/ x = (2 * d) * h + d
      BY <1>1, <1>6, <2>1
    <2>3. ((2 * d) * h + 0) % (2 * d) = 0 /\ ((2 * d) * h + d) % (2 * d) = d
      BY <1>0
    <2> QED
      BY <2>2, <2>3
  <1>7. ASSUME x % d = 0 PROVE x = 0 \/ d <= x
    BY <1>1, <1>7
  <1> QED
    BY <1>4, <1>5, <1>6, <1>7

-----------------------------------------------------------------------------
(* The team, whatever the algorithm *)

XB(k, rows) == INSTANCE XBarrier WITH PerThreadRows <- rows,
    InitSizes <- InitSizes[k], ForkSizes <- ForkSizes[k], SetSizes <- SetSizes[k]

TeamInv(k, rows) ==
    XB(k, rows)!TypeOK /\ XB(k, rows)!BuiltInv /\ XB(k, rows)!InsideInv

Zero == [t \in Thread |-> 0]
Members == 0..(teamSize - 1)

\* the team of the next region, which keeps the barrier
SameTeam ==
    /\ UNCHANGED <<teamSize, info, builtFor, parity, sense, pc>>
    /\ info # "crash"
    /\ \A t \in Members : pc[t] = "out" /\ entered[t] = entered[0]
    /\ \/ UNCHANGED <<entered, left>>
       \/ entered' = Zero /\ left' = Zero

\* a team for which the barrier is built anew
NewTeam(n) ==
    /\ teamSize' = n /\ entered' = Zero /\ left' = Zero
    /\ \A t \in Thread : pc[t] = "out" /\ pc'[t] = "out"
    /\ \A t \in Members : entered[t] = entered[0]
    /\ \A t \in 0..(n - 1) : parity'[t] = 0 /\ sense'[t] = TRUE

LEMMA KeepTeam ==
    ASSUME NEW k, NEW rows, XB(k, rows)!SizesOK, XB(k, rows)!NeverStale,
           TeamInv(k, rows), XB(k, rows)!KeepInfo
    PROVE  TeamInv(k, rows)' /\ SameTeam
  <1> USE DEF XB!SizesOK, XB!NeverStale, TeamInv, XB!TypeOK, XB!BuiltInv, XB!InsideInv,
              XB!Joined, XB!Begin, XB!Team, XB!Thread, XB!Zero, XB!localVars, XB!countVars,
              SameTeam, Members, Zero, Thread
  <1>1. CASE XB(k, rows)!ForkDefault
    BY <1>1 DEF XB!ForkDefault
  <1>2. CASE XB(k, rows)!ForkSame
    BY <1>2 DEF XB!ForkSame
  <1>3. CASE XB(k, rows)!SetNumThreads
    BY <1>3 DEF XB!SetNumThreads
  <1> QED
    BY <1>1, <1>2, <1>3 DEF XB!KeepInfo

LEMMA RebuildTeam ==
    ASSUME NEW k, NEW rows, XB(k, rows)!SizesOK, XB(k, rows)!NeverStale,
           TeamInv(k, rows), NEW n \in 1..MaxThreads, XB(k, rows)!RebuildInfo(n)
    PROVE  TeamInv(k, rows)' /\ NewTeam(n)
  <1> USE DEF XB!SizesOK, XB!NeverStale, XB!Team, XB!Thread, XB!Zero, Members, Zero, Thread
  <1>1. /\ \A t \in Thread : pc[t] = "out" /\ pc'[t] = "out"
        /\ pc' = pc /\ inRegion' \in BOOLEAN
        /\ \A t \in Members : entered[t] = entered[0]
    BY DEF XB!RebuildInfo, XB!ForkResize, XB!ForkExpand, XB!SetMoreThreads, XB!Expand,
           XB!Joined, XB!Begin, TeamInv, XB!InsideInv, XB!TypeOK
  <1>2. /\ teamSize' = n /\ entered' = Zero /\ left' = Zero
        /\ log2TeamSize' = XB(k, rows)!Log2(n) /\ XB(k, rows)!ResetLocals(n)
        /\ info' \in {"crash", XB(k, rows)!Built(n)}
        /\ 0 \notin ForkSizes[k]
    BY DEF XB!RebuildInfo, XB!ForkResize, XB!ForkExpand, XB!SetMoreThreads, XB!Expand,
           XB!Begin
  <1>3. /\ nthreadsVar' \in 1..MaxThreads
        /\ allocSize' \in Nat /\ n <= allocSize'
    BY DEF XB!RebuildInfo, XB!ForkResize, XB!ForkExpand, XB!SetMoreThreads, XB!Expand,
           TeamInv, XB!TypeOK
  <1>4. XB(k, rows)!TypeOK'
    <2>1. n \in Nat /\ n <= MaxThreads
      OBVIOUS
    <2>2. builtFor' \in [Thread -> Nat] /\ parity' \in [Thread -> {0, 1}]
      BY <1>2, <2>1 DEF TeamInv, XB!TypeOK, XB!ResetLocals
    <2>3. sense' \in [Thread -> BOOLEAN]
      BY <1>2 DEF TeamInv, XB!TypeOK, XB!ResetLocals
    <2>4. Zero \in [Thread -> Nat]
      OBVIOUS
    <2> QED
      BY <1>1, <1>2, <1>3, <2>1, <2>2, <2>3, <2>4 DEF TeamInv, XB!TypeOK, XB!Built
  <1>5. XB(k, rows)!BuiltInv'
    BY <1>1, <1>2 DEF TeamInv, XB!TypeOK, XB!BuiltInv, XB!Built, XB!ResetLocals
  <1>6. XB(k, rows)!InsideInv'
    BY <1>1, <1>2 DEF XB!InsideInv
  <1>7. NewTeam(n)
    <2>1. \A t \in 0..(n - 1) : t \in Thread /\ t < n
      OBVIOUS
    <2>2. \A t \in 0..(n - 1) : parity'[t] = 0
      BY <1>2, <2>1 DEF XB!ResetLocals
    <2>3. \A t \in 0..(n - 1) : sense'[t] = TRUE
      BY <1>2, <2>1 DEF XB!ResetLocals
    <2> QED
      BY <1>1, <1>2, <2>2, <2>3 DEF NewTeam
  <1> QED
    BY <1>4, <1>5, <1>6, <1>7 DEF TeamInv

\* the state of the team but for the barrier's own
SizesKept == UNCHANGED <<teamSize, log2TeamSize, allocSize, nthreadsVar, info, builtFor,
                         inRegion>>

Called(t, label) ==
    /\ SizesKept
    /\ info # "crash"
    /\ t \in Members /\ pc[t] = "out"
    /\ pc' = [pc EXCEPT ![t] = IF teamSize = 1 THEN "alone" ELSE label]
    /\ entered' = [entered EXCEPT ![t] = @ + 1]
    /\ UNCHANGED <<left, parity, sense>>

LEMMA CallTeam ==
    ASSUME NEW k, NEW rows, TeamInv(k, rows), NEW t \in Thread,
           NEW label \in XB(k, rows)!Label, label \notin {"out", "alone"},
           XB(k, rows)!Call(t, label)
    PROVE  TeamInv(k, rows)' /\ Called(t, label)
  <1> USE DEF XB!Team, XB!Thread, Members, Thread
  <1>1. /\ SizesKept /\ t \in Members /\ pc[t] = "out" /\ info # "crash"
        /\ pc' = [pc EXCEPT ![t] = IF teamSize = 1 THEN "alone" ELSE label]
        /\ entered' = [entered EXCEPT ![t] = @ + 1]
        /\ UNCHANGED <<left, parity, sense>>
    BY DEF XB!Call, XB!Goto, XB!sizeVars, XB!localVars, SizesKept
  <1>2. XB(k, rows)!TypeOK'
    <2>1. entered' \in [Thread -> Nat] /\ left' \in [Thread -> Nat]
      BY <1>1 DEF TeamInv, XB!TypeOK
    <2>2. pc' \in [Thread -> XB(k, rows)!Label]
      <3>1. {"alone", "out"} \subseteq XB(k, rows)!Label
        BY DEF XB!Label
      <3> QED
        BY <1>1, <3>1 DEF TeamInv, XB!TypeOK
    <2> QED
      BY <1>1, <2>1, <2>2 DEF TeamInv, XB!TypeOK, SizesKept
  <1>3. XB(k, rows)!InsideInv'
    BY <1>1 DEF TeamInv, XB!TypeOK, XB!InsideInv, SizesKept
  <1>4. XB(k, rows)!BuiltInv'
    BY <1>1 DEF TeamInv, XB!TypeOK, XB!BuiltInv, SizesKept
  <1> QED
    BY <1>1, <1>2, <1>3, <1>4 DEF TeamInv, Called

LEMMA InsideTeam ==
    ASSUME NEW k, NEW rows, TeamInv(k, rows), NEW t \in Thread,
           NEW label \in XB(k, rows)!Label, label \notin {"out", "alone"},
           pc[t] \notin {"out", "alone"}, XB(k, rows)!Inside(t, label)
    PROVE  /\ TeamInv(k, rows)' /\ SizesKept
           /\ t \in Members /\ info = "built"
           /\ pc' = [pc EXCEPT ![t] = label]
           /\ UNCHANGED <<entered, left, parity, sense>>
  BY DEF TeamInv, XB!TypeOK, XB!BuiltInv, XB!InsideInv, XB!Team, XB!Thread, XB!Inside,
         XB!Goto, XB!sizeVars, XB!localVars, XB!countVars, SizesKept, Members, Thread

LEMMA LeaveTeam ==
    ASSUME NEW k, NEW rows, TeamInv(k, rows), NEW t \in Thread, pc[t] # "out",
           XB(k, rows)!Leave(t), SizesKept, UNCHANGED entered,
           parity' \in [Thread -> {0, 1}], sense' \in [Thread -> BOOLEAN]
    PROVE  /\ TeamInv(k, rows)'
           /\ t \in Members /\ entered[t] = left[t] + 1
           /\ pc[t] # "alone" => info = "built"
           /\ pc' = [pc EXCEPT ![t] = "out"]
           /\ left' = [left EXCEPT ![t] = @ + 1]
  <1> USE DEF XB!Team, XB!Thread, Members, Thread
  <1>1. /\ pc' = [pc EXCEPT ![t] = "out"]
        /\ left' = [left EXCEPT ![t] = @ + 1]
    BY DEF XB!Leave, XB!Goto
  <1>2. XB(k, rows)!TypeOK'
    <2>1. entered' \in [Thread -> Nat] /\ left' \in [Thread -> Nat]
      BY <1>1 DEF TeamInv, XB!TypeOK
    <2>2. pc' \in [Thread -> XB(k, rows)!Label]
      <3>1. {"alone", "out"} \subseteq XB(k, rows)!Label
        BY DEF XB!Label
      <3> QED
        BY <1>1, <3>1 DEF TeamInv, XB!TypeOK
    <2> QED
      BY <1>1, <2>1, <2>2 DEF TeamInv, XB!TypeOK, SizesKept
  <1>3. XB(k, rows)!InsideInv'
    BY <1>1 DEF TeamInv, XB!TypeOK, XB!InsideInv, SizesKept
  <1>4. XB(k, rows)!BuiltInv'
    BY <1>1 DEF TeamInv, XB!TypeOK, XB!BuiltInv, SizesKept
  <1>5. /\ t \in Members /\ entered[t] = left[t] + 1
        /\ pc[t] # "alone" => info = "built"
    BY DEF TeamInv, XB!BuiltInv, XB!InsideInv
  <1> QED
    BY <1>1, <1>2, <1>3, <1>4, <1>5 DEF TeamInv

(* The team and TeamBarrier *)

LEMMA SameTeamRefines ==
    ASSUME NEW k, NEW rows, XB(k, rows)!SizesOK, TeamInv(k, rows), SameTeam
    PROVE  [TB!Next]_(TB!vars)
  <1>1. /\ teamSize \in 1..MaxThreads /\ MaxThreads \in Nat
        /\ \A t \in Members : t \in Thread /\ entered[t] = left[t] /\ entered[t] = entered[0]
    BY DEF XB!SizesOK, TeamInv, XB!TypeOK, XB!InsideInv, XB!Thread, SameTeam, Members, Thread
  <1>2. CASE UNCHANGED <<entered, left>>
    BY <1>2 DEF SameTeam, TB!vars
  <1>3. CASE entered' = Zero /\ left' = Zero
    <2>1. TB!Fork(teamSize)
      BY <1>1, <1>3 DEF SameTeam, TB!Fork, TB!Team, TB!Zero, Zero, Members, Thread
    <2>2. teamSize - 1 \in Thread /\ (teamSize - 1) + 1 = teamSize
      BY <1>1 DEF Thread
    <2> QED
      BY <2>1, <2>2 DEF TB!Next, Thread
  <1> QED
    BY <1>2, <1>3 DEF SameTeam

LEMMA NewTeamRefines ==
    ASSUME NEW k, NEW rows, XB(k, rows)!SizesOK, TeamInv(k, rows),
           NEW n \in 1..MaxThreads, NewTeam(n)
    PROVE  TB!Next
  <1>1. /\ MaxThreads \in Nat /\ teamSize \in Nat
        /\ \A t \in Members : t \in Thread /\ entered[t] = left[t] /\ entered[t] = entered[0]
    BY DEF XB!SizesOK, TeamInv, XB!TypeOK, XB!InsideInv, XB!Thread, NewTeam, Members, Thread
  <1>2. TB!Fork(n)
    BY <1>1 DEF NewTeam, TB!Fork, TB!Team, TB!Zero, Zero, Members, Thread
  <1>3. n - 1 \in Thread /\ (n - 1) + 1 = n
    BY <1>1 DEF Thread
  <1> QED
    BY <1>2, <1>3 DEF TB!Next, Thread

LEMMA CallRefines ==
    ASSUME NEW k, NEW rows, XB(k, rows)!SizesOK, TeamInv(k, rows), NEW t \in Thread,
           NEW label, XB(k, rows)!Call(t, label)
    PROVE  TB!Enter(t)
  <1>1. entered[t] = left[t] /\ entered[t] \in Nat
    BY DEF TeamInv, XB!TypeOK, XB!InsideInv, XB!Call, XB!Thread, Thread
  <1>2. entered[t] < CoarrayEpisodes
    <2>1. Episodes \in Nat /\ Episodes <= CoarrayEpisodes /\ CoarrayEpisodes \in Nat
      BY Sizes DEF XB!SizesOK
    <2> QED
      BY <1>1, <2>1 DEF XB!Call
  <1>3. teamSize \in Nat
    BY DEF TeamInv, XB!TypeOK, XB!SizesOK
  <1> QED
    BY <1>1, <1>2, <1>3 DEF XB!Call, XB!Team, XB!sizeVars, TB!Enter, TB!Team, Thread

LEMMA LeaveRefines ==
    ASSUME NEW k, NEW rows, XB(k, rows)!SizesOK, TeamInv(k, rows), NEW t \in Thread,
           pc[t] # "out", left' = [left EXCEPT ![t] = @ + 1], UNCHANGED <<teamSize, entered>>,
           \A u \in Members : entered[u] > left[t]
    PROVE  TB!Leave(t)
  <1>1. t \in Members /\ teamSize \in Nat /\ Members \subseteq Thread
    BY DEF TeamInv, XB!TypeOK, XB!InsideInv, XB!SizesOK, XB!Thread, XB!Team, Members, Thread
  <1> QED
    BY <1>1 DEF TB!Leave, TB!Team, Members, Thread

LEMMA TeamStartRefines ==
    ASSUME teamSize \in 1..MaxThreads, MaxThreads \in Nat, entered = Zero, left = Zero
    PROVE  TB!Init
  <1>1. teamSize - 1 \in Thread /\ (teamSize - 1) + 1 = teamSize
    BY DEF Thread
  <1> QED
    BY <1>1 DEF TB!Init, TB!Zero, Zero, Thread

-----------------------------------------------------------------------------
(* SIMPLE *)

LEMMA SameCardinality == \A S : Simple!Cardinality(S) = Cardinality(S)
  BY Zenon DEF Simple!Cardinality, Cardinality

LEMMA SimpleTeamThreads ==
    ASSUME Simple!SizesOK, Simple!SimpleTypeOK
    PROVE  Simple!Team \subseteq Simple!Thread
  BY DEF Simple!SizesOK, Simple!SimpleTypeOK, Simple!Team, Simple!Thread

LEMMA SimpleTeamFinite ==
    ASSUME Simple!SimpleTypeOK
    PROVE  /\ IsFiniteSet(Simple!Team) /\ Cardinality(Simple!Team) = teamSize
           /\ IsFiniteSet(Simple!Waiting) /\ Simple!Waiting \subseteq Simple!Team
  <1>1. IsFiniteSet(Simple!Team) /\ Cardinality(Simple!Team) = teamSize
    BY FS_Interval DEF Simple!Team, Simple!SimpleTypeOK
  <1>2. Simple!Waiting \subseteq Simple!Team
    BY DEF Simple!Waiting
  <1> QED
    BY <1>1, <1>2, FS_Subset

\* When all but one are counted, all but one wait.
LEMMA SimpleOthersWait ==
    ASSUME Simple!SimpleTypeOK, NEW t \in Simple!Team, t \notin Simple!Waiting,
           Cardinality(Simple!Waiting) + 1 = teamSize
    PROVE  Simple!Waiting = Simple!Team \ {t}
  <1>1. IsFiniteSet(Simple!Team \ {t}) /\ Cardinality(Simple!Team \ {t}) = teamSize - 1
    BY SimpleTeamFinite, FS_RemoveElement
  <1>2. Simple!Waiting \in SUBSET (Simple!Team \ {t})
    BY SimpleTeamFinite
  <1>3. Cardinality(Simple!Waiting) = teamSize - 1
    BY SimpleTeamFinite, FS_CardinalityType DEF Simple!SimpleTypeOK
  <1> QED
    BY <1>1, <1>2, <1>3, FS_Subset

LEMMA SimpleInitInv == Simple!SizesOK /\ Simple!Init => Simple!IInv
  <1> SUFFICES ASSUME Simple!SizesOK, Simple!Init PROVE Simple!IInv
    OBVIOUS
  <1> USE DEF Simple!Init, Simple!TeamInit, Simple!SizesOK, Simple!Thread, Simple!Zero
  <1>1. Simple!SimpleTypeOK
    BY DEF Simple!SimpleTypeOK, Simple!Label
  <1>2. Simple!InsideInv /\ Simple!FlagInv /\ Simple!LastInv /\ Simple!EpisodeInv
    BY DEF Simple!InsideInv, Simple!FlagInv, Simple!LastInv, Simple!EpisodeInv,
           Simple!Opened, Simple!Team
  <1>3. Simple!Waiting = {} /\ ~\E t \in Simple!Team : pc[t] = "toggle"
    BY DEF Simple!Waiting, Simple!Team
  <1>4. Simple!CountIsWaiters
    BY <1>3, FS_EmptySet, SameCardinality DEF Simple!CountIsWaiters
  <1> QED
    BY <1>1, <1>2, <1>4 DEF Simple!IInv

\* What every fork does, as far as the barrier is concerned.
SimpleFork(n) ==
    /\ n \in 1..MaxThreads
    /\ \A t \in Simple!Team : pc[t] = "out" /\ entered[t] = entered[0]
    /\ teamSize' = n
    /\ entered' = Simple!Zero /\ left' = Simple!Zero
    /\ UNCHANGED <<pc, Simple!simpleVars>>
    /\ nthreadsVar' \in 1..MaxThreads

LEMMA SimpleForks ==
    ASSUME Simple!SizesOK, Simple!SimpleTypeOK, Simple!Fork
    PROVE  \/ \E n \in 1..MaxThreads : SimpleFork(n)
           \/ /\ UNCHANGED <<teamSize, entered, left, pc, Simple!simpleVars>>
              /\ nthreadsVar' \in 1..MaxThreads
  <1> USE DEF Simple!SizesOK, Simple!SimpleTypeOK, Simple!Joined, Simple!Begin, Simple!Expand,
              SimpleFork, Simple!Thread, Simple!countVars,
              Simple!Team
  <1>1. UNCHANGED Simple!simpleVars
    BY DEF Simple!Fork
  <1>2. CASE Simple!ForkDefault
    BY <1>1, <1>2 DEF Simple!ForkDefault
  <1>3. CASE Simple!ForkSame
    BY <1>1, <1>3 DEF Simple!ForkSame
  <1>4. CASE Simple!SetNumThreads
    BY <1>1, <1>4 DEF Simple!SetNumThreads
  <1>5. ASSUME NEW t \in Simple!Thread, Simple!RebuildInfo(t + 1)
        PROVE  SimpleFork(t + 1)
    <2>1. CASE Simple!ForkResize(t + 1)
      BY <1>1, <2>1 DEF Simple!ForkResize
    <2>2. CASE Simple!ForkExpand(t + 1)
      BY <1>1, <2>2 DEF Simple!ForkExpand
    <2>3. CASE Simple!SetMoreThreads(t + 1)
      BY <1>1, <2>3 DEF Simple!SetMoreThreads
    <2> QED
      BY <1>5, <2>1, <2>2, <2>3 DEF Simple!RebuildInfo
  <1> QED
    BY <1>2, <1>3, <1>4, <1>5 DEF Simple!Fork, Simple!KeepInfo

\* Every step keeps the invariant: one step per action of the code.
LEMMA SimpleStepInv == Simple!SizesOK /\ Simple!IInv /\ [Simple!Next]_(Simple!vars) => Simple!IInv'
  <1> SUFFICES ASSUME Simple!SizesOK, Simple!IInv, [Simple!Next]_(Simple!vars) PROVE Simple!IInv'
    OBVIOUS
  <1>0. Simple!Team \subseteq Simple!Thread
    BY SimpleTeamThreads DEF Simple!IInv
  <1> USE DEF Simple!Thread, Simple!Team
  <1> DEFINE Others == Simple!InsideInv /\ Simple!FlagInv /\ Simple!LastInv /\ Simple!EpisodeInv
  <1>1. ASSUME NEW n \in 1..MaxThreads, SimpleFork(n) PROVE Simple!IInv'
    <2>1. \A t \in Simple!Thread : pc[t] = "out"
      BY <1>1 DEF Simple!IInv, Simple!InsideInv, SimpleFork
    <2>2. Simple!SimpleTypeOK'
      BY <1>1 DEF Simple!IInv, Simple!SimpleTypeOK, SimpleFork, Simple!simpleVars, Simple!Zero
    <2>3. Others'
      <3>1. Simple!Team' \subseteq Simple!Thread
        BY <1>1, <2>2 DEF Simple!SizesOK, SimpleFork
      <3> QED
        BY <1>1, <2>1, <3>1
           DEF SimpleFork, Simple!simpleVars, Simple!Zero, Simple!InsideInv, Simple!FlagInv,
                                 Simple!LastInv, Simple!EpisodeInv, Simple!Opened
    <2>4. Simple!Waiting = {} /\ Simple!Waiting' = {}
      <3>1. Simple!Team' \subseteq Simple!Thread
        BY <1>1, <2>2 DEF Simple!SizesOK, SimpleFork
      <3> QED
        BY <1>0, <1>1, <2>1, <3>1 DEF Simple!Waiting, SimpleFork
    <2>5. Simple!CountIsWaiters'
      BY <1>1, <2>1, <2>2, <2>4, FS_EmptySet, SameCardinality
         DEF Simple!CountIsWaiters, SimpleFork, Simple!simpleVars, Simple!IInv, Simple!SimpleTypeOK
    <2> QED
      BY <2>2, <2>3, <2>5 DEF Simple!IInv
  <1>2. ASSUME UNCHANGED <<teamSize, entered, left, pc, Simple!simpleVars>>,
               nthreadsVar' \in 1..MaxThreads
        PROVE  Simple!IInv'
    BY <1>2
       DEF Simple!IInv, Simple!SimpleTypeOK, Simple!InsideInv, Simple!FlagInv,
           Simple!LastInv, Simple!CountIsWaiters, Simple!Waiting,
                Simple!EpisodeInv, Simple!Opened, Simple!simpleVars
  <1>3. ASSUME NEW t \in Simple!Thread, Simple!Enter(t) PROVE Simple!IInv'
    <2> USE <1>3 DEF Simple!Enter, Simple!Call, Simple!Goto, Simple!simpleVars, Simple!sizeVars,
                     Simple!localVars
    <2>1. Simple!SimpleTypeOK'
      BY DEF Simple!IInv, Simple!SimpleTypeOK, Simple!Label
    <2>2. Others'
      BY DEF Simple!IInv, Simple!SimpleTypeOK, Simple!InsideInv, Simple!FlagInv,
             Simple!LastInv, Simple!EpisodeInv, Simple!Opened
    <2>3. Simple!CountIsWaiters'
      <3>1. Simple!Waiting' = Simple!Waiting
        BY DEF Simple!Waiting, Simple!IInv, Simple!SimpleTypeOK
      <3> QED
        BY <3>1 DEF Simple!CountIsWaiters, Simple!IInv, Simple!SimpleTypeOK
    <2> QED
      BY <2>1, <2>2, <2>3 DEF Simple!IInv
  <1>4. ASSUME NEW t \in Simple!Thread, Simple!ReadFlag(t) PROVE Simple!IInv'
    <2> USE <1>4 DEF Simple!ReadFlag, Simple!Inside, Simple!Goto, Simple!simpleVars,
                     Simple!sizeVars, Simple!localVars, Simple!countVars
    <2>1. Simple!SimpleTypeOK'
      BY DEF Simple!IInv, Simple!SimpleTypeOK, Simple!Label
    <2>2. Others'
      BY DEF Simple!IInv, Simple!SimpleTypeOK, Simple!InsideInv, Simple!FlagInv,
             Simple!LastInv, Simple!EpisodeInv, Simple!Opened
    <2>3. Simple!CountIsWaiters'
      <3>1. Simple!Waiting' = Simple!Waiting
        BY DEF Simple!Waiting, Simple!IInv, Simple!SimpleTypeOK
      <3> QED
        BY <3>1 DEF Simple!CountIsWaiters, Simple!IInv, Simple!SimpleTypeOK
    <2> QED
      BY <2>1, <2>2, <2>3 DEF Simple!IInv
  <1>5. ASSUME NEW t \in Simple!Thread, Simple!Increment(t) PROVE Simple!IInv'
    <2> USE <1>5 DEF Simple!Increment, Simple!Inside, Simple!Goto, Simple!sizeVars,
                     Simple!localVars, Simple!countVars
    <2>1. Simple!SimpleTypeOK'
      BY DEF Simple!IInv, Simple!SimpleTypeOK, Simple!Label
    <2>2. t \in Simple!Team /\ t \notin Simple!Waiting /\ seen[t] = barrierFlag
      BY DEF Simple!IInv, Simple!InsideInv, Simple!FlagInv, Simple!Waiting
    <2>3. \A u \in Simple!Thread : pc[u] \notin {"reset", "toggle"}
      BY <2>2 DEF Simple!IInv, Simple!InsideInv, Simple!LastInv
    <2>4. barrierCount = Cardinality(Simple!Waiting)
      BY <1>0, <2>3, SameCardinality DEF Simple!IInv, Simple!CountIsWaiters
    <2>5. barrierCount + 1 = teamSize => Simple!Waiting = Simple!Team \ {t}
      BY <2>2, <2>4, SimpleOthersWait DEF Simple!IInv
    <2>6. Simple!LastInv'
      <3>1. barrierCount + 1 = teamSize =>
              \A u \in Simple!Team \ {t} : pc[u] = "spin" /\ seen[u] = barrierFlag
        BY <1>0, <2>3, <2>5 DEF Simple!Waiting
      <3>2. \A u \in Simple!Thread : pc'[u] \in {"reset", "toggle"} =>
              u = t /\ barrierCount + 1 = teamSize
        BY <2>3 DEF Simple!IInv, Simple!SimpleTypeOK
      <3>3. \A u \in Simple!Thread \ {t} : pc'[u] = pc[u]
        BY DEF Simple!IInv, Simple!SimpleTypeOK
      <3> QED
        BY <1>0, <3>1, <3>2, <3>3 DEF Simple!LastInv
    <2>7. (Simple!InsideInv /\ Simple!FlagInv)'
      BY <2>2 DEF Simple!IInv, Simple!SimpleTypeOK, Simple!InsideInv, Simple!FlagInv
    <2>8. Simple!EpisodeInv'
      BY <2>2 DEF Simple!IInv, Simple!SimpleTypeOK, Simple!EpisodeInv, Simple!Opened
    <2>9. Simple!CountIsWaiters'
      <3>1. Simple!Waiting' = Simple!Waiting \cup {t}
        BY <2>2 DEF Simple!Waiting, Simple!IInv, Simple!SimpleTypeOK
      <3>2. Cardinality(Simple!Waiting') = Cardinality(Simple!Waiting) + 1
        BY <2>2, <3>1, SimpleTeamFinite, FS_AddElement DEF Simple!IInv
      <3> QED
        BY <1>0, <2>3, <2>4, <3>2, SameCardinality
           DEF Simple!CountIsWaiters, Simple!IInv, Simple!SimpleTypeOK
    <2> QED
      BY <2>1, <2>6, <2>7, <2>8, <2>9 DEF Simple!IInv
  <1>6. ASSUME NEW t \in Simple!Thread, Simple!ResetCount(t) PROVE Simple!IInv'
    <2> USE <1>6 DEF Simple!ResetCount, Simple!Inside, Simple!Goto, Simple!sizeVars,
                     Simple!localVars, Simple!countVars
    <2>1. Simple!SimpleTypeOK'
      BY DEF Simple!IInv, Simple!SimpleTypeOK, Simple!Label
    <2>2. Others'
      BY DEF Simple!IInv, Simple!SimpleTypeOK, Simple!InsideInv, Simple!FlagInv,
             Simple!LastInv, Simple!EpisodeInv, Simple!Opened
    <2>3. Simple!CountIsWaiters'
      BY DEF Simple!CountIsWaiters, Simple!IInv, Simple!SimpleTypeOK, Simple!InsideInv
    <2> QED
      BY <2>1, <2>2, <2>3 DEF Simple!IInv
  <1>7. ASSUME NEW t \in Simple!Thread, Simple!ToggleFlag(t) PROVE Simple!IInv'
    <2> USE <1>7 DEF Simple!ToggleFlag, Simple!Leave, Simple!Goto, Simple!sizeVars, Simple!localVars
    <2>1. Simple!SimpleTypeOK'
      BY DEF Simple!IInv, Simple!SimpleTypeOK, Simple!Label
    <2>2. t \in Simple!Team /\ seen[t] = barrierFlag /\ barrierFlag' = 1 - barrierFlag
      BY DEF Simple!IInv, Simple!InsideInv, Simple!FlagInv
    <2>3. \A u \in Simple!Team \ {t} : pc[u] = "spin" /\ seen[u] = barrierFlag
      BY DEF Simple!IInv, Simple!LastInv
    <2>4. (Simple!InsideInv /\ Simple!FlagInv /\ Simple!LastInv)'
      BY <2>2, <2>3
         DEF Simple!IInv, Simple!SimpleTypeOK, Simple!InsideInv, Simple!FlagInv,
             Simple!LastInv
    <2>5. Simple!EpisodeInv'
      BY <2>2, <2>3 DEF Simple!IInv, Simple!SimpleTypeOK, Simple!EpisodeInv, Simple!Opened
    <2>6. Simple!CountIsWaiters'
      <3>1. Simple!Waiting' = {}
        BY <2>1, <2>2, <2>3 DEF Simple!Waiting, Simple!IInv, Simple!SimpleTypeOK
      <3>2. barrierCount = 0
        BY <2>2, SameCardinality DEF Simple!IInv, Simple!CountIsWaiters
      <3> QED
        BY <3>1, <3>2, <2>3, FS_EmptySet, SameCardinality
           DEF Simple!CountIsWaiters, Simple!IInv, Simple!SimpleTypeOK
    <2> QED
      BY <2>1, <2>4, <2>5, <2>6 DEF Simple!IInv
  <1>8. ASSUME NEW t \in Simple!Thread, Simple!Spin(t) PROVE Simple!IInv'
    <2> USE <1>8 DEF Simple!Spin, Simple!Leave, Simple!Goto, Simple!simpleVars, Simple!sizeVars,
                     Simple!localVars
    <2>1. Simple!SimpleTypeOK'
      BY DEF Simple!IInv, Simple!SimpleTypeOK, Simple!Label
    <2>2. Others'
      BY DEF Simple!IInv, Simple!SimpleTypeOK, Simple!InsideInv, Simple!FlagInv,
             Simple!LastInv, Simple!EpisodeInv, Simple!Opened
    <2>3. Simple!CountIsWaiters'
      <3>1. Simple!Waiting' = Simple!Waiting
        BY DEF Simple!Waiting, Simple!IInv, Simple!SimpleTypeOK
      <3> QED
        BY <3>1 DEF Simple!CountIsWaiters, Simple!IInv, Simple!SimpleTypeOK
    <2> QED
      BY <2>1, <2>2, <2>3 DEF Simple!IInv
  <1>9. ASSUME NEW t \in Simple!Thread, Simple!ReturnAlone(t), UNCHANGED Simple!simpleVars
        PROVE  Simple!IInv'
    <2> USE <1>9 DEF Simple!ReturnAlone, Simple!Leave, Simple!Goto, Simple!simpleVars,
                     Simple!sizeVars, Simple!localVars
    <2>1. Simple!SimpleTypeOK'
      BY DEF Simple!IInv, Simple!SimpleTypeOK, Simple!Label
    <2>2. Others'
      BY DEF Simple!IInv, Simple!SimpleTypeOK, Simple!InsideInv, Simple!FlagInv,
             Simple!LastInv, Simple!EpisodeInv, Simple!Opened
    <2>3. Simple!CountIsWaiters'
      <3>1. Simple!Waiting' = Simple!Waiting
        BY DEF Simple!Waiting, Simple!IInv, Simple!SimpleTypeOK
      <3> QED
        BY <3>1 DEF Simple!CountIsWaiters, Simple!IInv, Simple!SimpleTypeOK
    <2> QED
      BY <2>1, <2>2, <2>3 DEF Simple!IInv
  <1>10. CASE UNCHANGED Simple!vars
    BY <1>2, <1>10
       DEF Simple!vars, Simple!teamVars, Simple!countVars, Simple!sizeVars, Simple!IInv,
           Simple!SimpleTypeOK
  <1>11. CASE Simple!Fork
    BY <1>1, <1>2, <1>11, SimpleForks DEF Simple!IInv
  <1> QED
    BY <1>3, <1>4, <1>5, <1>6, <1>7, <1>8, <1>9, <1>10, <1>11 DEF Simple!Next, Simple!Wait

-----------------------------------------------------------------------------
(* The refinement *)

LEMMA SimpleInitRefines == Simple!SizesOK /\ Simple!Init => TB!Init
  BY TeamStartRefines
     DEF Simple!SizesOK, Simple!Init, Simple!TeamInit, Simple!Zero, Zero, Simple!Thread,
         Thread

LEMMA SimpleLeaveRefines ==
    ASSUME Simple!IInv, NEW t \in Simple!Thread, pc[t] # "out",
           \A u \in Simple!Team : entered[u] > left[t],
           Simple!Leave(t), UNCHANGED <<teamSize, entered>>
    PROVE  TB!Leave(t)
  BY DEF Simple!IInv, Simple!SimpleTypeOK, Simple!InsideInv, Simple!Leave, Simple!Goto,
         TB!Leave, TB!Team, Simple!Team, Simple!Thread

\* Every step of the barrier is one of TeamBarrier or changes nothing there.
LEMMA SimpleStepRefines ==
    Simple!SizesOK /\ Simple!IInv /\ [Simple!Next]_(Simple!vars) => [TB!Next]_(TB!vars)
  <1> SUFFICES ASSUME Simple!SizesOK, Simple!IInv, [Simple!Next]_(Simple!vars)
               PROVE  [TB!Next]_(TB!vars)
    OBVIOUS
  <1>0. Simple!Team \subseteq Simple!Thread
    BY SimpleTeamThreads DEF Simple!IInv
  <1>1. CASE Simple!Fork
    <2>1. ASSUME NEW n \in 1..MaxThreads, SimpleFork(n) PROVE TB!Fork((n - 1) + 1)
      BY <2>1
         DEF SimpleFork, Simple!IInv, Simple!SimpleTypeOK, Simple!InsideInv, Simple!Team,
             Simple!Thread, Simple!Zero,
                  TB!Fork, TB!Team, TB!Zero
    <2>2. \A n \in 1..MaxThreads : n - 1 \in Simple!Thread
      BY DEF Simple!Thread, Simple!SizesOK
    <2> QED
      BY <1>1, <2>1, <2>2, SimpleForks DEF Simple!IInv, Simple!Thread, TB!Next, TB!vars
  <1>2. ASSUME NEW t \in Simple!Thread, Simple!Enter(t) PROVE TB!Enter(t)
    BY <1>2, Sizes
       DEF Simple!SizesOK, Simple!Enter, Simple!Call, Simple!Goto, Simple!sizeVars,
           Simple!IInv, Simple!SimpleTypeOK, Simple!InsideInv, Simple!Team, Simple!Thread,
                TB!Enter, TB!Team
  <1>3. ASSUME NEW t \in Simple!Thread,
               Simple!ReadFlag(t) \/ Simple!Increment(t) \/ Simple!ResetCount(t)
        PROVE  UNCHANGED TB!vars
    BY <1>3
       DEF Simple!ReadFlag, Simple!Increment, Simple!ResetCount, Simple!Inside,
           Simple!sizeVars, Simple!countVars, TB!vars
  <1>4. ASSUME NEW t \in Simple!Thread, Simple!ToggleFlag(t) PROVE TB!Leave(t)
    <2>1. t \in Simple!Team /\ \A u \in Simple!Team \ {t} : pc[u] = "spin" /\ seen[u] = barrierFlag
      BY <1>4 DEF Simple!ToggleFlag, Simple!IInv, Simple!InsideInv, Simple!LastInv
    <2>2. \A u \in Simple!Team : entered[u] > left[t]
      BY <1>0, <1>4, <2>1
         DEF Simple!ToggleFlag, Simple!IInv, Simple!SimpleTypeOK, Simple!InsideInv,
             Simple!EpisodeInv, Simple!Opened
    <2> QED
      BY <1>4, <2>2, SimpleLeaveRefines DEF Simple!ToggleFlag, Simple!sizeVars
  <1>5. ASSUME NEW t \in Simple!Thread, Simple!Spin(t) PROVE TB!Leave(t)
    <2>1. t \in Simple!Team
      BY <1>5 DEF Simple!Spin, Simple!IInv, Simple!InsideInv
    <2>2. \A u \in Simple!Team : entered[u] > left[t]
      BY <1>0, <1>5, <2>1
         DEF Simple!Spin, Simple!IInv, Simple!SimpleTypeOK, Simple!InsideInv,
             Simple!EpisodeInv, Simple!Opened
    <2> QED
      BY <1>5, <2>2, SimpleLeaveRefines DEF Simple!Spin, Simple!sizeVars
  <1>6. ASSUME NEW t \in Simple!Thread, Simple!ReturnAlone(t) PROVE TB!Leave(t)
    <2>1. Simple!Team = {t}
      BY <1>6
         DEF Simple!ReturnAlone, Simple!IInv, Simple!SimpleTypeOK, Simple!InsideInv,
             Simple!Team, Simple!Thread
    <2>2. \A u \in Simple!Team : entered[u] > left[t]
      BY <1>6, <2>1 DEF Simple!ReturnAlone, Simple!IInv, Simple!SimpleTypeOK, Simple!InsideInv
    <2> QED
      BY <1>6, <2>2, SimpleLeaveRefines DEF Simple!ReturnAlone, Simple!sizeVars
  <1>7. CASE UNCHANGED Simple!vars
    BY <1>7 DEF Simple!vars, Simple!teamVars, Simple!sizeVars, Simple!countVars, TB!vars
  <1> QED
    BY <1>1, <1>2, <1>3, <1>4, <1>5, <1>6, <1>7
       DEF Simple!Next, Simple!Wait, Simple!Thread, TB!Next

-----------------------------------------------------------------------------
(* TREE *)

LEMMA TreeTeam ==
    /\ (Tree!TypeOK /\ Tree!BuiltInv /\ Tree!InsideInv) <=> TeamInv("tree", FALSE)
    /\ (Tree!TypeOK /\ Tree!BuiltInv /\ Tree!InsideInv)' <=> TeamInv("tree", FALSE)'
  BY DEF TeamInv, Tree!TypeOK, Tree!BuiltInv, Tree!InsideInv, Tree!Thread, Tree!Team,
         Tree!Label, Tree!Log2, XB!TypeOK, XB!BuiltInv, XB!InsideInv, XB!Thread, XB!Team,
         XB!Label, XB!Log2

\* the two trees: four children report to a node, two are woken by it
LEMMA Children ==
    ASSUME NEW n \in Nat, NEW t \in Nat, NEW c
    PROVE  /\ c \in Tree!HaveChild(n, t) <=>
                 c \in 1..(n - 1) /\ Tree!Parent(c) = t
           /\ c \in Tree!HaveChild(n, t) => c # t
  BY DEF Tree!HaveChild, Tree!Parent

LEMMA Ancestry ==
    ASSUME NEW c \in Nat \ {0}
    PROVE  /\ Tree!Parent(c) \in Nat /\ Tree!Parent(c) < c
           /\ Tree!Waker(c) \in Nat /\ Tree!Waker(c) < c
           /\ c = 2 * Tree!Waker(c) + 1 \/ c = 2 * Tree!Waker(c) + 2
  BY DEF Tree!Parent, Tree!Waker

\* how far the members can be apart
TreeBounds == \A t, u \in Members :
    /\ t \in Thread /\ left[t] \in Nat
    /\ Tree!Reported(t) \in {left[t], left[t] + 1}
    /\ Tree!Opened(t) \in {left[t], left[t] + 1}
    /\ Tree!Opened(t) <= Tree!Reported(u)
    /\ t # 0 => /\ Tree!Waker(t) \in Members
                /\ Tree!Told(t) <= Tree!Opened(Tree!Waker(t))

LEMMA TreeBounded == Tree!SizesOK /\ Tree!IInv => TreeBounds
  <1> SUFFICES ASSUME Tree!SizesOK, Tree!IInv PROVE TreeBounds
    OBVIOUS
  <1>1. /\ left \in [Thread -> Nat] /\ MaxThreads \in Nat
        /\ teamSize \in Nat /\ teamSize <= MaxThreads
    BY DEF Tree!SizesOK, Tree!IInv, Tree!TreeTypeOK, Tree!TypeOK, Tree!Thread, Thread
  <1>2. \A t \in Members : t \in Thread /\ left[t] \in Nat
    BY <1>1 DEF Members, Thread
  <1>3. ASSUME NEW t \in Members, t # 0
        PROVE  /\ Tree!Waker(t) \in Members
               /\ Tree!Told(t) <= Tree!Opened(Tree!Waker(t))
    <2>1. Tree!Waker(t) \in Members
      BY <1>1, <1>3, Ancestry DEF Members
    <2>2. left[Tree!Waker(t)] \in Nat
      BY <1>2, <2>1
    <2> QED
      BY <2>1, <2>2 DEF Tree!Told, Tree!Opened
  <1>4. \A t, u \in Members : Tree!Opened(t) <= Tree!Reported(u)
    BY DEF Tree!IInv, Tree!OpenInv, Tree!Team, Members
  <1> QED
    BY <1>2, <1>3, <1>4 DEF TreeBounds, Tree!Reported, Tree!Opened

\* omp_xbarrier.c:415-421
LEMMA TreeNoReportLost == Tree!SizesOK /\ Tree!IInv => Tree!NoReportLost
  <1> SUFFICES ASSUME Tree!SizesOK, Tree!IInv, NEW t \in Members, pc[t] = "rearm",
                      NEW c \in Tree!HaveChild(teamSize, t)
               PROVE  pc[c] = "await" /\ entered[c] = entered[t]
    BY DEF Tree!NoReportLost, Tree!Team, Members
  <1>1. TreeBounds /\ teamSize \in Nat
    BY TreeBounded DEF Tree!IInv, Tree!TreeTypeOK, Tree!TypeOK, Tree!SizesOK
  <1>2. c \in Members /\ c # 0
    BY <1>1, Children DEF Members
  <1>3. Tree!Reported(c) = Tree!Reported(t) + 1
    BY DEF Tree!IInv, Tree!ChildInv, Tree!Team, Members
  <1>4. Tree!Reported(t) = left[t] /\ Tree!Opened(c) <= left[t]
    BY <1>1, <1>2 DEF Tree!Reported, TreeBounds
  <1>5. pc[c] \in {"await", "notify0", "notify1"} /\ left[c] = left[t]
    BY <1>1, <1>2, <1>3, <1>4 DEF Tree!Reported, Tree!Opened, TreeBounds
  <1>6. pc[c] = "await"
    BY <1>1, <1>2, <1>4, <1>5 DEF Tree!Opened, TreeBounds
  <1> QED
    BY <1>1, <1>2, <1>5, <1>6 DEF TreeBounds, Tree!IInv, Tree!InsideInv, Tree!Thread, Thread

\* The barrier's part of the invariant.
TreeParts == /\ Tree!ChildInv /\ Tree!OpenInv /\ Tree!SenseInv /\ Tree!WakeupInv
             /\ Tree!RootInv
TreeFlags == /\ childNotReady \in [Thread -> SUBSET Nat]
             /\ wakeupSense \in [Thread -> BOOLEAN]

LEMMA TreeSplit ==
    /\ Tree!IInv <=> TeamInv("tree", FALSE) /\ TreeFlags /\ TreeParts
    /\ Tree!IInv' <=> TeamInv("tree", FALSE)' /\ TreeFlags' /\ TreeParts'
  BY TreeTeam DEF Tree!IInv, Tree!TreeTypeOK, TreeFlags, TreeParts, Tree!Thread, Thread

\* what the steps below start from
LEMMA TreeFacts ==
    ASSUME Tree!SizesOK, Tree!IInv
    PROVE  /\ TreeBounds /\ TreeParts /\ TreeFlags
           /\ teamSize \in Nat /\ pc \in [Thread -> Tree!Label]
           /\ \A u \in Members : Tree!HaveChild(teamSize, u) \subseteq Members \ {u, 0}
  <1>1. TreeBounds /\ TreeParts /\ TreeFlags
    BY TreeBounded, TreeSplit
  <1>2. teamSize \in Nat /\ pc \in [Thread -> Tree!Label]
    BY DEF Tree!IInv, Tree!TreeTypeOK, Tree!TypeOK, Tree!Thread, Thread, Tree!SizesOK
  <1>3. \A u \in Members : Tree!HaveChild(teamSize, u) \subseteq Members \ {u, 0}
    BY <1>2 DEF Tree!HaveChild, Members
  <1> QED
    BY <1>1, <1>2, <1>3

\* Reaching the barrier, having heard from all children, and being woken.
LEMMA TreeQuiet ==
    ASSUME Tree!SizesOK, Tree!IInv, NEW t \in Members, NEW label,
           pc' = [pc EXCEPT ![t] = label],
           UNCHANGED <<teamSize, left, sense, childNotReady, wakeupSense>>,
           \/ pc[t] = "out" /\ label \in {"gather", "alone"}
           \/ pc[t] = "gather" /\ label = "rearm" /\ childNotReady[t] = {}
           \/ pc[t] = "await" /\ label = "notify0" /\ wakeupSense[t] = sense[t]
    PROVE  TreeParts'
  <1> USE DEF Tree!Team, Members
  <1>0. TreeBounds /\ TreeParts /\ pc \in [Thread -> Tree!Label] /\ TreeFlags
    BY TreeFacts
  <1>1. \A u \in Members : u # t => pc'[u] = pc[u]
    BY <1>0 DEF TreeBounds
  <1>2. pc'[t] = label
    BY <1>0 DEF TreeBounds
  <1>3. \A u \in Members : /\ (Tree!Reported(u))' = Tree!Reported(u)
                           /\ (Tree!Opened(u))' = Tree!Opened(u)
    BY <1>1, <1>2 DEF Tree!Reported, Tree!Opened
  <1>4. \A u \in Members : u # 0 => (Tree!Told(u))' = Tree!Told(u)
    BY <1>0, <1>1, <1>2 DEF Tree!Told, TreeBounds
  <1>5. Tree!ChildInv'
    <2>1. \A u \in Members : pc'[u] = "report" <=> pc[u] = "report"
      BY <1>1, <1>2
    <2>2. \A u \in Members : Tree!HaveChild(teamSize, u) \subseteq Members
      BY TreeFacts
    <2> QED
      BY <1>0, <1>1, <1>2, <1>3, <2>1, <2>2 DEF TreeParts, Tree!ChildInv
  <1>6. Tree!OpenInv' /\ Tree!SenseInv'
    BY <1>0, <1>3 DEF TreeParts, Tree!OpenInv, Tree!SenseInv
  <1>7. Tree!WakeupInv'
    BY <1>0, <1>1, <1>2, <1>4 DEF TreeParts, Tree!WakeupInv
  <1>8. Tree!RootInv'
    BY <1>0, <1>1, <1>2 DEF TreeParts, Tree!RootInv
  <1> QED
    BY <1>5, <1>6, <1>7, <1>8 DEF TreeParts

\* omp_xbarrier.c:419-421
LEMMA TreeRearm ==
    ASSUME Tree!SizesOK, Tree!IInv, NEW t \in Members,
           pc[t] = "rearm", pc' = [pc EXCEPT ![t] = "report"],
           UNCHANGED <<teamSize, left, sense, wakeupSense>>,
           childNotReady' = [childNotReady EXCEPT ![t] = Tree!HaveChild(teamSize, t)]
    PROVE  TreeParts'
  <1> USE DEF Tree!Team, Members
  <1>0. TreeBounds /\ TreeParts /\ pc \in [Thread -> Tree!Label] /\ TreeFlags
    BY TreeFacts
  <1>1. \A u \in Members : u # t => pc'[u] = pc[u] /\ childNotReady'[u] = childNotReady[u]
    BY <1>0 DEF TreeBounds, TreeFlags
  <1>2. pc'[t] = "report" /\ childNotReady'[t] = Tree!HaveChild(teamSize, t)
    BY <1>0 DEF TreeBounds, TreeFlags
  <1>3. \A u \in Members : /\ (Tree!Reported(u))' = Tree!Reported(u)
                           /\ (Tree!Opened(u))' = Tree!Opened(u)
    BY <1>1, <1>2 DEF Tree!Reported, Tree!Opened
  <1>4. \A u \in Members : u # 0 => (Tree!Told(u))' = Tree!Told(u)
    BY <1>0, <1>1, <1>2 DEF Tree!Told, TreeBounds
  <1>5. Tree!ChildInv'
    <2>1. \A u \in Members : Tree!HaveChild(teamSize, u) \subseteq Members
      BY TreeFacts
    <2> QED
      BY <1>0, <1>1, <1>2, <1>3, <2>1 DEF TreeParts, Tree!ChildInv
  <1>6. Tree!OpenInv' /\ Tree!SenseInv'
    BY <1>0, <1>3 DEF TreeParts, Tree!OpenInv, Tree!SenseInv
  <1>7. Tree!WakeupInv'
    BY <1>0, <1>1, <1>2, <1>4 DEF TreeParts, Tree!WakeupInv
  <1>8. Tree!RootInv'
    BY <1>0, <1>1, <1>2 DEF TreeParts, Tree!RootInv
  <1> QED
    BY <1>5, <1>6, <1>7, <1>8 DEF TreeParts

\* When thread 0 has heard from its children, it has heard from everybody.
LEMMA TreeAllReported ==
    ASSUME Tree!SizesOK, Tree!IInv, 0 \in Members, pc[0] = "report"
    PROVE  \A u \in Members \ {0} : Tree!Reported(u) >= left[0] + 1
  <1>0. TreeBounds /\ TreeParts /\ teamSize \in Nat
    BY TreeFacts
  <1> DEFINE S == {u \in Members \ {0} : ~(Tree!Reported(u) >= left[0] + 1)}
  <1> SUFFICES ASSUME S # {} PROVE FALSE
    OBVIOUS
  <1>1. S \in SUBSET Nat
    BY <1>0 DEF Members
  <1>2. PICK u \in S : \A v \in S : u <= v
    BY <1>1, Least
  <1> DEFINE p == Tree!Parent(u)
  <1>3. /\ u \in Nat \ {0} /\ u \in Members
        /\ p \in Nat /\ p < u
    BY <1>1, <1>2, Ancestry
  <1>4. p \in Members /\ u \in Tree!HaveChild(teamSize, p)
    BY <1>0, <1>3, Children DEF Members
  <1> HIDE DEF p
  <1>5. /\ Tree!Reported(u) \in {Tree!Reported(p), Tree!Reported(p) + 1}
        /\ pc[p] = "report" => Tree!Reported(u) = Tree!Reported(p) + 1
    BY <1>0, <1>4 DEF TreeParts, Tree!ChildInv, Tree!Team, Members
  <1>6. p \notin S
    BY <1>1, <1>2, <1>3
  <1>7. CASE p = 0
    <2>1. Tree!Reported(0) = left[0] /\ left[0] \in Nat
      BY <1>0 DEF Tree!Reported, TreeBounds
    <2> QED
      BY <1>2, <1>5, <1>7, <2>1
  <1>8. CASE p # 0
    <2>1. Tree!Reported(p) >= left[0] + 1
      BY <1>4, <1>6, <1>8
    <2>2. Tree!Reported(p) \in Nat /\ left[0] \in Nat
      BY <1>0, <1>4 DEF TreeBounds
    <2> QED
      BY <1>2, <1>5, <2>1, <2>2
  <1> QED
    BY <1>7, <1>8

\* omp_xbarrier.c:423
LEMMA TreeReport ==
    ASSUME Tree!SizesOK, Tree!IInv, NEW t \in Members, teamSize > 1,
           pc[t] = "report", pc' = [pc EXCEPT ![t] = IF t = 0 THEN "notify0" ELSE "await"],
           UNCHANGED <<teamSize, left, sense, wakeupSense>>,
           childNotReady' = IF t = 0 THEN childNotReady
                            ELSE [childNotReady EXCEPT ![Tree!Parent(t)] = @ \ {t}]
    PROVE  TreeParts'
  <1> USE DEF Tree!Team, Members
  <1>0. /\ TreeBounds /\ TreeParts /\ pc \in [Thread -> Tree!Label] /\ TreeFlags
        /\ teamSize \in Nat
    BY TreeFacts
  <1>1. \A u \in Members : u # t => pc'[u] = pc[u]
    BY <1>0 DEF TreeBounds
  <1>2. pc'[t] = IF t = 0 THEN "notify0" ELSE "await"
    BY <1>0 DEF TreeBounds
  <1>3. \A u \in Members : Tree!HaveChild(teamSize, u) \subseteq Members \ {u, 0}
    BY TreeFacts
  <1>4. /\ \A u \in Members : u # t => (Tree!Reported(u))' = Tree!Reported(u)
        /\ (Tree!Reported(t))' = left[t] + 1 /\ Tree!Reported(t) = left[t]
        /\ left[t] \in Nat
    BY <1>0, <1>1, <1>2 DEF Tree!Reported, TreeBounds
  <1>5. \A u \in Members : u # 0 => (Tree!Told(u))' = Tree!Told(u)
    BY <1>0, <1>1, <1>2 DEF Tree!Told, TreeBounds
  <1>6. t # 0 => wakeupSense[t] # sense[t]
    BY <1>0, <1>4 DEF TreeParts, Tree!WakeupInv, TreeBounds
  <1>7. /\ \A u \in Members : u # t \/ t # 0 => (Tree!Opened(u))' = Tree!Opened(u)
        /\ t = 0 => (Tree!Opened(t))' = left[t] + 1
    BY <1>1, <1>2, <1>6, pc[t] = "report" DEF Tree!Opened
  <1>8. Tree!OpenInv'
    <2>1. CASE t # 0
      BY <1>0, <1>4, <1>7, <2>1 DEF TreeParts, Tree!OpenInv, TreeBounds
    <2>2. CASE t = 0
      <3>1. \A u \in Members : (Tree!Reported(u))' >= left[t] + 1
        BY <1>4, <2>2, TreeAllReported
      <3>2. \A u, v \in Members : u # t => (Tree!Opened(u))' <= (Tree!Reported(v))'
        BY <1>0, <1>4, <1>7 DEF TreeBounds
      <3> QED
        BY <1>7, <2>2, <3>1, <3>2 DEF Tree!OpenInv
    <2> QED
      BY <2>1, <2>2
  <1>9. Tree!ChildInv'
    <2>1. CASE t = 0
      <3>1. \A u \in Members : t \notin Tree!HaveChild(teamSize, u)
        BY <1>3, <2>1
      <3> QED
        BY <1>0, <1>1, <1>2, <1>3, <1>4, <2>1, <3>1 DEF TreeParts, Tree!ChildInv
    <2>2. CASE t # 0
      <3> DEFINE p == Tree!Parent(t)
      <3>1. p \in Members /\ p # t /\ t \in Tree!HaveChild(teamSize, p)
        BY <1>0, <2>2, Children, Ancestry
      <3>2. \A u \in Members : t \in Tree!HaveChild(teamSize, u) => u = p
        BY <1>0, Children
      <3> HIDE DEF p
      <3>3. /\ childNotReady'[p] = childNotReady[p] \ {t}
            /\ \A u \in Members : u # p => childNotReady'[u] = childNotReady[u]
        BY <1>0, <2>2, <3>1 DEF p, TreeFlags, TreeBounds
      <3>4. Tree!Reported(t) <= Tree!Reported(p)
        BY <1>0, <1>4, <3>1 DEF TreeBounds
      <3>5. pc[p] # "report" /\ t \in childNotReady[p] /\ Tree!Reported(t) = Tree!Reported(p)
        BY <1>0, <1>4, <3>1, <3>4 DEF TreeParts, Tree!ChildInv, TreeBounds
      <3>6. pc[p] # "rearm"
        BY <1>0, <3>1, <3>5 DEF TreeParts, Tree!ChildInv
      <3>7. \A u \in Members : u # p /\ u # t => \A c \in Tree!HaveChild(teamSize, u) :
              (Tree!Reported(c))' = Tree!Reported(c)
        BY <1>3, <1>4, <3>2
      <3> QED
        BY <1>0, <1>1, <1>2, <1>3, <1>4, <2>2, <3>1, <3>2, <3>3, <3>5, <3>6, <3>7
           DEF TreeParts, Tree!ChildInv
    <2> QED
      BY <2>1, <2>2
  <1>10. Tree!SenseInv' /\ Tree!RootInv'
    BY <1>0, <1>1, <1>2 DEF TreeParts, Tree!SenseInv, Tree!RootInv
  <1>11. Tree!WakeupInv'
    BY <1>0, <1>1, <1>2, <1>5 DEF TreeParts, Tree!WakeupInv
  <1> QED
    BY <1>8, <1>9, <1>10, <1>11 DEF TreeParts

\* A thread that is told of a barrier is in it, as its waker is.
LEMMA TreeTelling ==
    ASSUME Tree!SizesOK, Tree!IInv, NEW t \in Members, NEW c \in Members \ {0},
           Tree!Waker(c) = t, Tree!Told(c) = left[t], pc[t] \in {"notify0", "notify1"}
    PROVE  /\ left[c] = left[t] /\ sense[c] = sense[t] /\ c # t
           /\ pc[c] \notin {"notify0", "notify1"}
           /\ \A u \in Members : left[c] + 1 <= Tree!Reported(u)
  <1>0. TreeBounds /\ TreeParts
    BY TreeFacts
  <1>1. /\ left[t] \in Nat /\ left[c] \in Nat
        /\ Tree!Reported(c) \in {left[c], left[c] + 1}
        /\ \A u \in Members : Tree!Opened(t) <= Tree!Reported(u)
        /\ c \in Nat
    BY <1>0 DEF TreeBounds, Members
  <1>2. Tree!Opened(t) = left[t] + 1
    BY DEF Tree!Opened
  <1>3. left[t] \in {left[c], left[c] + 1}
    BY <1>0 DEF TreeParts, Tree!WakeupInv, Tree!Team, Members
  <1>4. left[c] = left[t]
    BY <1>1, <1>2, <1>3
  <1>5. sense[c] = sense[t]
    BY <1>0, <1>4 DEF TreeParts, Tree!SenseInv, Tree!Team, Members
  <1>6. c # t
    BY <1>1, Ancestry
  <1>7. pc[c] \notin {"notify0", "notify1"}
    BY <1>0, <1>1, <1>4 DEF TreeParts, Tree!WakeupInv, Tree!Team, Members
  <1> QED
    BY <1>1, <1>2, <1>4, <1>5, <1>6, <1>7

\* omp_xbarrier.c:427
LEMMA TreeNotifyFirst ==
    ASSUME Tree!SizesOK, Tree!IInv, NEW t \in Members,
           pc[t] = "notify0", pc' = [pc EXCEPT ![t] = "notify1"],
           UNCHANGED <<teamSize, left, sense, childNotReady>>,
           wakeupSense' = [u \in Thread |-> IF u \in Tree!Notified(teamSize, t, 0)
                                            THEN sense[t] ELSE wakeupSense[u]]
    PROVE  TreeParts'
  <1> USE DEF Tree!Team, Members
  <1> DEFINE c == 2 * t + 1
  <1>0. /\ TreeBounds /\ TreeParts /\ pc \in [Thread -> Tree!Label] /\ TreeFlags
        /\ \A u \in Members : Tree!HaveChild(teamSize, u) \subseteq Members \ {u, 0}
        /\ teamSize \in Nat
    BY TreeFacts
  <1>1. /\ \A u \in Members : u # t => pc'[u] = pc[u]
        /\ pc'[t] = "notify1"
    BY <1>0 DEF TreeBounds
  <1>2. /\ \A u \in Members : u # c => wakeupSense'[u] = wakeupSense[u]
        /\ c \in Members => wakeupSense'[c] = sense[t]
    BY <1>0 DEF TreeBounds, Tree!Notified
  <1>3. c \in Nat \ {0} /\ Tree!Waker(c) = t
    BY DEF Tree!Waker
  <1>4. \A u \in Members \ {0} : u # c => Tree!Waker(u) # t \/ u # 2 * t + 1
    OBVIOUS
  <1> HIDE DEF c
  <1>5. c \in Members => /\ Tree!Told(c) = left[t] /\ (Tree!Told(c))' = left[t] + 1
    BY <1>1, <1>3 DEF Tree!Told, c
  <1>6. \A u \in Members \ {0} : u # c => (Tree!Told(u))' = Tree!Told(u)
    BY <1>0, <1>1, <1>4 DEF Tree!Told, c, TreeBounds
  <1>7. c \in Members => /\ left[c] = left[t] /\ sense[c] = sense[t] /\ c # t
                         /\ pc[c] \notin {"notify0", "notify1"}
                         /\ \A u \in Members : left[c] + 1 <= Tree!Reported(u)
    BY <1>3, <1>5, TreeTelling
  <1>8. \A u \in Members : (Tree!Reported(u))' = Tree!Reported(u)
    BY <1>1 DEF Tree!Reported
  <1>9. \A u \in Members : u # c => (Tree!Opened(u))' = Tree!Opened(u)
    BY <1>1, <1>2 DEF Tree!Opened
  <1>10. c \in Members => (Tree!Opened(c))' \in {left[c], left[c] + 1}
    BY DEF Tree!Opened
  <1>11. Tree!OpenInv'
    <2>1. \A v \in Members : c \in Members =>
            /\ (Tree!Opened(c))' \in {left[c], left[c] + 1} /\ left[c] \in Nat
            /\ left[c] + 1 <= Tree!Reported(v) /\ Tree!Reported(v) \in Nat
      BY <1>0, <1>7, <1>10 DEF TreeBounds
    <2>2. \A v \in Members : c \in Members => (Tree!Opened(c))' <= Tree!Reported(v)
      BY <2>1
    <2> QED
      BY <1>0, <1>8, <1>9, <2>2 DEF TreeParts, Tree!OpenInv
  <1>12. Tree!ChildInv'
    BY <1>0, <1>1, <1>8 DEF TreeParts, Tree!ChildInv
  <1>13. Tree!SenseInv' /\ Tree!RootInv'
    BY <1>0, <1>1 DEF TreeParts, Tree!SenseInv, Tree!RootInv
  <1>14. Tree!WakeupInv'
    BY <1>0, <1>1, <1>2, <1>5, <1>6, <1>7 DEF TreeParts, Tree!WakeupInv
  <1> QED
    BY <1>11, <1>12, <1>13, <1>14 DEF TreeParts

\* omp_xbarrier.c:428-430
LEMMA TreeNotifySecond ==
    ASSUME Tree!SizesOK, Tree!IInv, NEW t \in Members,
           pc[t] = "notify1", pc' = [pc EXCEPT ![t] = "out"],
           left' = [left EXCEPT ![t] = @ + 1], sense' = [sense EXCEPT ![t] = ~@],
           UNCHANGED <<teamSize, childNotReady>>,
           wakeupSense' = [u \in Thread |-> IF u \in Tree!Notified(teamSize, t, 1)
                                            THEN sense[t] ELSE wakeupSense[u]]
    PROVE  TreeParts'
  <1> USE DEF Tree!Team, Members
  <1> DEFINE b == 2 * t + 1
             c == 2 * t + 2
  <1>0. /\ TreeBounds /\ TreeParts /\ pc \in [Thread -> Tree!Label] /\ TreeFlags
        /\ \A u \in Members : Tree!HaveChild(teamSize, u) \subseteq Members \ {u, 0}
        /\ teamSize \in Nat
        /\ left \in [Thread -> Nat] /\ sense \in [Thread -> BOOLEAN]
    BY TreeFacts DEF Tree!IInv, Tree!TreeTypeOK, Tree!TypeOK, Tree!Thread, Thread
  <1>1. /\ \A u \in Members : u # t =>
             pc'[u] = pc[u] /\ left'[u] = left[u] /\ sense'[u] = sense[u]
        /\ pc'[t] = "out" /\ left'[t] = left[t] + 1 /\ sense'[t] = ~sense[t]
    BY <1>0 DEF TreeBounds
  <1>2. /\ \A u \in Members : u # c => wakeupSense'[u] = wakeupSense[u]
        /\ c \in Members => wakeupSense'[c] = sense[t]
    BY <1>0 DEF TreeBounds, Tree!Notified
  <1>3. /\ c \in Nat \ {0} /\ Tree!Waker(c) = t /\ b # c
        /\ b \in Nat \ {0} /\ Tree!Waker(b) = t /\ c # 2 * t + 1
    BY DEF Tree!Waker
  <1>4. \A u \in Members \ {0} : Tree!Waker(u) = t => u \in {b, c}
    BY Ancestry
  <1> HIDE DEF b, c
  <1>5. c \in Members => /\ Tree!Told(c) = left[t] /\ (Tree!Told(c))' = left[t] + 1
    BY <1>1, <1>3 DEF Tree!Told
  <1>6. b \in Members => /\ Tree!Told(b) = left[t] + 1 /\ (Tree!Told(b))' = left[t] + 1
    BY <1>1, <1>3 DEF Tree!Told, b
  <1>7. \A u \in Members \ {0} : u # c => (Tree!Told(u))' = Tree!Told(u)
    BY <1>0, <1>1, <1>4, <1>6 DEF Tree!Told, TreeBounds
  <1>8. c \in Members => /\ left[c] = left[t] /\ sense[c] = sense[t] /\ c # t
                         /\ pc[c] \notin {"notify0", "notify1"}
                         /\ \A u \in Members : left[c] + 1 <= Tree!Reported(u)
    BY <1>3, <1>5, TreeTelling
  <1>9. \A u \in Members : (Tree!Reported(u))' = Tree!Reported(u)
    BY <1>1 DEF Tree!Reported
  <1>10. \A u \in Members : u # c => (Tree!Opened(u))' = Tree!Opened(u)
    BY <1>1, <1>2 DEF Tree!Opened
  <1>11. c \in Members => (Tree!Opened(c))' \in {left[c], left[c] + 1}
    BY <1>1, <1>8 DEF Tree!Opened
  <1>12. Tree!OpenInv'
    <2>1. \A v \in Members : c \in Members =>
            /\ (Tree!Opened(c))' \in {left[c], left[c] + 1} /\ left[c] \in Nat
            /\ left[c] + 1 <= Tree!Reported(v) /\ Tree!Reported(v) \in Nat
      BY <1>0, <1>8, <1>11 DEF TreeBounds
    <2>2. \A v \in Members : c \in Members => (Tree!Opened(c))' <= Tree!Reported(v)
      BY <2>1
    <2> QED
      BY <1>0, <1>9, <1>10, <2>2 DEF TreeParts, Tree!OpenInv
  <1>13. Tree!ChildInv'
    BY <1>0, <1>1, <1>9 DEF TreeParts, Tree!ChildInv
  <1>14. Tree!SenseInv'
    <2>1. Tree!Opened(t) = left[t] + 1 /\ Tree!Reported(t) = left[t] + 1
      BY DEF Tree!Opened, Tree!Reported
    <2>2. \A u \in Members : left[u] \in {left[t], left[t] + 1}
      <3> SUFFICES ASSUME NEW u \in Members PROVE left[u] \in {left[t], left[t] + 1}
        OBVIOUS
      <3>1. /\ left[t] + 1 <= Tree!Reported(u) /\ Tree!Reported(u) \in {left[u], left[u] + 1}
            /\ Tree!Opened(u) <= left[t] + 1 /\ Tree!Opened(u) \in {left[u], left[u] + 1}
            /\ left[u] \in Nat /\ left[t] \in Nat
        BY <1>0, <2>1 DEF TreeBounds
      <3> QED
        BY <3>1
    <2>3. \A u \in Members : u \in Thread /\ left[u] \in Nat /\ sense[u] \in BOOLEAN
      BY <1>0 DEF TreeBounds
    <2>4. \A u \in Members : sense[t] = sense[u] <=> left[t] = left[u]
      BY <1>0 DEF TreeParts, Tree!SenseInv
    <2>5. \A u \in Members \ {t} : sense'[t] = sense'[u] <=> left'[t] = left'[u]
      BY <1>1, <2>2, <2>3, <2>4
    <2>6. \A u, v \in Members \ {t} : sense'[v] = sense'[u] <=> left'[v] = left'[u]
      BY <1>0, <1>1 DEF TreeParts, Tree!SenseInv
    <2> QED
      BY <2>5, <2>6 DEF Tree!SenseInv
  <1>15. Tree!RootInv'
    BY <1>0, <1>1 DEF TreeParts, Tree!RootInv
  <1>16. Tree!WakeupInv'
    <2>1. t # 0 => /\ Tree!Told(t) = left[t] + 1 /\ wakeupSense[t] = sense[t] /\ t # c
      BY <1>0, <1>8 DEF TreeParts, Tree!WakeupInv
    <2>2. ASSUME t # 0
          PROVE  /\ (Tree!Told(t))' = left'[t]
                 /\ wakeupSense'[t] # sense'[t]
      BY <1>0, <1>1, <1>2, <1>7, <2>1, <2>2 DEF TreeBounds, TreeFlags
    <2>3. \A u \in Members \ {0} : u # t /\ u # c =>
            /\ (Tree!Told(u))' = Tree!Told(u) /\ wakeupSense'[u] = wakeupSense[u]
            /\ pc'[u] = pc[u] /\ left'[u] = left[u] /\ sense'[u] = sense[u]
      BY <1>1, <1>2, <1>7
    <2>4. c \in Members \ {0} => /\ (Tree!Told(c))' = left'[c] + 1
                                 /\ wakeupSense'[c] = sense'[c]
      BY <1>1, <1>2, <1>5, <1>8
    <2>5. \A u \in Members : left'[u] \in Nat
      BY <1>0, <1>1 DEF TreeBounds
    <2> QED
      BY <1>0, <1>1, <2>2, <2>3, <2>4, <2>5 DEF TreeParts, Tree!WakeupInv
  <1> QED
    BY <1>12, <1>13, <1>14, <1>15, <1>16 DEF TreeParts

\* omp_xbarrier.c:406-408
LEMMA TreeAlone ==
    ASSUME Tree!SizesOK, Tree!IInv, NEW t \in Members, teamSize = 1,
           pc[t] = "alone", pc' = [pc EXCEPT ![t] = "out"],
           left' = [left EXCEPT ![t] = @ + 1],
           UNCHANGED <<teamSize, sense, childNotReady, wakeupSense>>
    PROVE  TreeParts'
  <1>0. /\ TreeBounds /\ TreeParts /\ pc \in [Thread -> Tree!Label]
        /\ left \in [Thread -> Nat]
    BY TreeFacts DEF Tree!IInv, Tree!TreeTypeOK, Tree!TypeOK, Tree!Thread, Thread
  <1>1. Members = {0} /\ t = 0
    BY DEF Members
  <1>2. pc'[0] = "out" /\ left'[0] = left[0] + 1 /\ left[0] \in Nat
    BY <1>0, <1>1 DEF TreeBounds
  <1>3. Tree!HaveChild(teamSize, 0) = {}
    BY DEF Tree!HaveChild
  <1>4. Tree!ChildInv'
    BY <1>0, <1>1, <1>2, <1>3 DEF TreeParts, Tree!ChildInv, Tree!Team, Members
  <1>5. Tree!OpenInv'
    BY <1>1, <1>2 DEF Tree!OpenInv, Tree!Opened, Tree!Reported, Tree!Team, Members
  <1> QED
    BY <1>1, <1>2, <1>4, <1>5
       DEF TreeParts, Tree!SenseInv, Tree!WakeupInv, Tree!RootInv, Tree!Team, Members

\* All the members are out and past the same barriers.
LEMMA TreeSame ==
    ASSUME Tree!SizesOK, Tree!IInv, SameTeam, UNCHANGED <<childNotReady, wakeupSense>>
    PROVE  TreeParts'
  <1> USE DEF Tree!Team, Members
  <1>0. /\ TreeBounds /\ TreeParts
        /\ \A u \in Members : Tree!HaveChild(teamSize, u) \subseteq Members \ {u, 0}
    BY TreeFacts
  <1>1. /\ UNCHANGED <<teamSize, pc, sense>>
        /\ \A t \in Members : pc[t] = "out"
    BY DEF SameTeam
  <1>2. \A t \in Members : entered[t] = left[t] /\ entered[t] = entered[0]
    BY <1>0 DEF SameTeam, TreeBounds, Tree!IInv, Tree!InsideInv, Tree!Thread, Thread
  <1>3. \A t, u \in Members : left[t] = left[u] /\ left'[t] = left'[u] /\ left'[t] \in Nat
    BY <1>0, <1>2 DEF SameTeam, TreeBounds, Zero
  <1>4. \A u \in Members : /\ Tree!Reported(u) = left[u] /\ (Tree!Reported(u))' = left'[u]
                           /\ Tree!Opened(u) = left[u] /\ (Tree!Opened(u))' = left'[u]
    BY <1>1 DEF Tree!Reported, Tree!Opened
  <1>5. \A u \in Members \ {0} : /\ Tree!Waker(u) \in Members
                                 /\ Tree!Told(u) = left[Tree!Waker(u)]
                                 /\ (Tree!Told(u))' = left'[Tree!Waker(u)]
    BY <1>0, <1>1 DEF Tree!Told, TreeBounds
  <1>6. Tree!ChildInv'
    BY <1>0, <1>1, <1>3, <1>4 DEF TreeParts, Tree!ChildInv, TreeBounds
  <1>7. Tree!OpenInv'
    BY <1>1, <1>3, <1>4 DEF Tree!OpenInv
  <1>8. Tree!SenseInv' /\ Tree!RootInv'
    BY <1>0, <1>1, <1>3 DEF TreeParts, Tree!SenseInv, Tree!RootInv
  <1>9. Tree!WakeupInv'
    <2>1. \A u \in Members \ {0} : /\ Tree!Told(u) = left[u] /\ (Tree!Told(u))' = left'[u]
                                   /\ left[u] \in Nat /\ left'[u] \in Nat
      BY <1>0, <1>3, <1>5 DEF TreeBounds
    <2>2. \A u \in Members \ {0} : wakeupSense[u] # sense[u]
      BY <1>0, <2>1 DEF TreeParts, Tree!WakeupInv
    <2> QED
      BY <1>1, <2>1, <2>2 DEF Tree!WakeupInv
  <1> QED
    BY <1>6, <1>7, <1>8, <1>9 DEF TreeParts

\* A node is built for every member; the first barrier of all is alike.
TreeFresh(n) ==
    /\ teamSize = n /\ left = Zero
    /\ \A t \in Members : /\ pc[t] = "out" /\ sense[t] = TRUE
                          /\ childNotReady[t] = Tree!HaveChild(n, t)
                          /\ wakeupSense[t] = FALSE

LEMMA TreeFreshInv ==
    ASSUME NEW n \in 1..MaxThreads, MaxThreads \in Nat, TreeFresh(n)
    PROVE  TreeParts
  <1> USE DEF Tree!Team, Members
  <1>1. /\ teamSize = n /\ n \in Nat
        /\ \A t \in Members : /\ pc[t] = "out" /\ sense[t] = TRUE
                              /\ childNotReady[t] = Tree!HaveChild(n, t)
                              /\ wakeupSense[t] = FALSE
    BY DEF TreeFresh
  <1>2. \A t \in Members : t \in Thread /\ left[t] = 0
    BY DEF TreeFresh, Zero, Thread
  <1>3. \A t \in Members : Tree!HaveChild(n, t) \subseteq Members \ {t, 0}
    BY <1>1 DEF Tree!HaveChild
  <1>4. \A u \in Members : Tree!Reported(u) = 0 /\ Tree!Opened(u) = 0
    BY <1>1, <1>2 DEF Tree!Reported, Tree!Opened
  <1>5. \A u \in Members \ {0} : Tree!Waker(u) \in Members
    BY <1>1, Ancestry
  <1>6. \A u \in Members \ {0} : Tree!Told(u) = 0
    BY <1>1, <1>2, <1>5 DEF Tree!Told
  <1>7. Tree!ChildInv
    BY <1>1, <1>3, <1>4 DEF Tree!ChildInv
  <1>8. Tree!OpenInv /\ Tree!SenseInv /\ Tree!WakeupInv
    <2>1. Tree!OpenInv
      BY <1>4 DEF Tree!OpenInv
    <2>2. Tree!SenseInv
      BY <1>1, <1>2 DEF Tree!SenseInv
    <2>3. \A u \in Members : wakeupSense[u] # sense[u]
      BY <1>1, TRUE # FALSE
    <2>4. Tree!WakeupInv
      BY <1>1, <1>2, <1>6, <2>3 DEF Tree!WakeupInv
    <2> QED
      BY <2>1, <2>2, <2>4
  <1>9. Tree!RootInv
    BY <1>1 DEF Tree!RootInv
  <1> QED
    BY <1>7, <1>8, <1>9 DEF TreeParts

TreeStart == MaxThreads \in Nat /\ \E n \in 1..MaxThreads : TreeFresh(n)

LEMMA TreeStarts == TreeStart => TreeParts
  BY TreeFreshInv DEF TreeStart

LEMMA TreeStartsAgain == TreeStart' => TreeParts'
  BY TreeStarts, PTL

LEMMA TeamStarts ==
    ASSUME NEW k, NEW rows, XB(k, rows)!SizesOK, XB(k, rows)!TeamInit
    PROVE  /\ TeamInv(k, rows)
           /\ teamSize \in 1..MaxThreads /\ left = Zero /\ entered = Zero /\ parity = Zero
           /\ sense = [t \in Thread |-> TRUE] /\ pc = [t \in Thread |-> "out"]
  <1> USE DEF XB!SizesOK, XB!TeamInit, XB!Thread, XB!Team, XB!Zero, Zero, Thread
  <1>1. XB(k, rows)!TypeOK
    <2>1. pc \in [Thread -> XB(k, rows)!Label]
      BY DEF XB!Label
    <2>2. teamSize \in 1..MaxThreads /\ nthreadsVar \in 1..MaxThreads /\ allocSize = teamSize
      OBVIOUS
    <2>3. teamSize \in Nat
      BY <2>2
    <2>4. /\ builtFor \in [Thread -> Nat] /\ parity \in [Thread -> {0, 1}]
          /\ entered \in [Thread -> Nat] /\ left \in [Thread -> Nat]
      BY <2>3
    <2>5. sense \in [Thread -> BOOLEAN]
      OBVIOUS
    <2>6. info \in {"null", "built", "crash"}
      BY DEF XB!Built
    <2>7. teamSize <= allocSize /\ allocSize \in Nat
      BY <2>2, <2>3
    <2>8. inRegion \in BOOLEAN
      BY Zenon
    <2> HIDE DEF XB!TeamInit
    <2> QED
      BY <2>1, <2>2, <2>4, <2>5, <2>6, <2>7, <2>8 DEF XB!TypeOK
  <1>2. XB(k, rows)!BuiltInv /\ XB(k, rows)!InsideInv
    BY DEF XB!BuiltInv, XB!InsideInv, XB!Built
  <1> QED
    BY <1>1, <1>2 DEF TeamInv

LEMMA TreeInitInv == Tree!SizesOK /\ Tree!Init => Tree!IInv
  <1> SUFFICES ASSUME Tree!SizesOK, Tree!Init PROVE Tree!IInv
    OBVIOUS
  <1>1. XB("tree", FALSE)!SizesOK /\ XB("tree", FALSE)!TeamInit
    BY DEF Tree!SizesOK, XB!SizesOK, Tree!Init, Tree!TeamInit, XB!TeamInit, Tree!Thread,
           XB!Thread, Tree!Zero, XB!Zero, Tree!Log2, XB!Log2, Tree!Built, XB!Built
  <1>2. /\ TeamInv("tree", FALSE) /\ teamSize \in 1..MaxThreads /\ left = Zero
        /\ sense = [t \in Thread |-> TRUE] /\ pc = [t \in Thread |-> "out"]
    BY <1>1, TeamStarts
  <1>3. /\ childNotReady = [t \in Thread |-> Tree!HaveChild(teamSize, t)]
        /\ wakeupSense = [t \in Thread |-> FALSE] /\ MaxThreads \in Nat
    BY DEF Tree!Init, Tree!SizesOK, Tree!Thread, Thread
  <1>4. TreeFlags
    BY <1>3 DEF TreeFlags, Tree!HaveChild, Thread
  <1>5. TreeFresh(teamSize)
    BY <1>2, <1>3 DEF TreeFresh, Members, Thread
  <1> QED
    BY <1>2, <1>3, <1>4, <1>5, TreeStarts, TreeSplit DEF TreeStart

\* TREE's operations are the team's.
LEMMA TreeIsXB ==
    /\ Tree!SizesOK <=> XB("tree", FALSE)!SizesOK
    /\ Tree!NeverStale <=> XB("tree", FALSE)!NeverStale
    /\ Tree!KeepInfo => XB("tree", FALSE)!KeepInfo
    /\ \A n : Tree!RebuildInfo(n) => XB("tree", FALSE)!RebuildInfo(n)
    /\ \A t, label : Tree!Call(t, label) => XB("tree", FALSE)!Call(t, label)
    /\ \A t, label : Tree!Inside(t, label) => XB("tree", FALSE)!Inside(t, label)
    /\ \A t : Tree!Leave(t) => XB("tree", FALSE)!Leave(t)
    /\ Tree!Label = XB("tree", FALSE)!Label
  <1> USE DEF Tree!Thread, XB!Thread, Tree!Team, XB!Team, Tree!Log2, XB!Log2, Tree!Built,
              XB!Built, Tree!Zero, XB!Zero, Tree!sizeVars, XB!sizeVars, Tree!localVars,
              XB!localVars, Tree!countVars, XB!countVars, Tree!Joined, XB!Joined,
              Tree!Begin, XB!Begin, Tree!Goto, XB!Goto
  <1>1. /\ Tree!SizesOK <=> XB("tree", FALSE)!SizesOK
        /\ Tree!NeverStale <=> XB("tree", FALSE)!NeverStale
        /\ Tree!Label = XB("tree", FALSE)!Label
    BY DEF Tree!SizesOK, XB!SizesOK, Tree!NeverStale, XB!NeverStale, Tree!Label, XB!Label
  <1>2. Tree!KeepInfo => XB("tree", FALSE)!KeepInfo
    BY DEF Tree!KeepInfo, XB!KeepInfo, Tree!ForkDefault, XB!ForkDefault, Tree!ForkSame,
           XB!ForkSame, Tree!SetNumThreads, XB!SetNumThreads
  <1>3. \A n : Tree!RebuildInfo(n) => XB("tree", FALSE)!RebuildInfo(n)
    BY DEF Tree!RebuildInfo, XB!RebuildInfo, Tree!ForkResize, XB!ForkResize, Tree!Expand,
           XB!Expand, Tree!ForkExpand, XB!ForkExpand, Tree!SetMoreThreads,
           XB!SetMoreThreads, Tree!ResetLocals, XB!ResetLocals
  <1>4. /\ \A t, label : Tree!Call(t, label) => XB("tree", FALSE)!Call(t, label)
        /\ \A t, label : Tree!Inside(t, label) => XB("tree", FALSE)!Inside(t, label)
        /\ \A t : Tree!Leave(t) => XB("tree", FALSE)!Leave(t)
    BY DEF Tree!Call, XB!Call, Tree!Inside, XB!Inside, Tree!Leave, XB!Leave
  <1> QED
    BY <1>1, <1>2, <1>3, <1>4

\* Every step keeps the invariant, in a program whose forks all rebuild what
\* they resize.
LEMMA TreeStepInv ==
    Tree!SizesOK /\ Tree!NeverStale /\ Tree!IInv /\ [Tree!Next]_(Tree!vars) => Tree!IInv'
  <1> SUFFICES ASSUME Tree!SizesOK, Tree!NeverStale, Tree!IInv, [Tree!Next]_(Tree!vars)
               PROVE  Tree!IInv'
    OBVIOUS
  <1>0. /\ XB("tree", FALSE)!SizesOK /\ XB("tree", FALSE)!NeverStale
        /\ TeamInv("tree", FALSE) /\ TreeFlags /\ TreeParts
        /\ MaxThreads \in Nat /\ Tree!Thread = Thread
    BY TreeIsXB, TreeSplit DEF Tree!SizesOK, Tree!Thread, Thread
  <1>1. ASSUME NEW t \in Thread, pc[t] \notin {"out", "alone"}
        PROVE  builtFor[t] = teamSize /\ t \in Members /\ teamSize > 1
    BY <1>0, <1>1 DEF TeamInv, XB!BuiltInv, XB!InsideInv, XB!Thread, XB!Team, Thread, Members
  <1>2. ASSUME NEW t \in Thread, Tree!Enter(t) PROVE Tree!IInv'
    <2>1. /\ XB("tree", FALSE)!Call(t, "gather")
          /\ "gather" \in XB("tree", FALSE)!Label /\ "gather" \notin {"out", "alone"}
      BY <1>2, TreeIsXB DEF Tree!Enter, XB!Label
    <2>2. TeamInv("tree", FALSE)' /\ Called(t, "gather")
      BY <1>0, <2>1, CallTeam, Zenon
    <2>3. UNCHANGED <<childNotReady, wakeupSense>>
      BY <1>2 DEF Tree!Enter, Tree!treeVars
    <2>4. TreeParts'
      BY <2>2, <2>3, TreeQuiet DEF SizesKept, Called
    <2> QED
      BY <1>0, <2>2, <2>3, <2>4, TreeSplit DEF TreeFlags
  <1>3. ASSUME NEW t \in Thread, Tree!Gather(t) PROVE Tree!IInv'
    <2>1. /\ XB("tree", FALSE)!Inside(t, "rearm") /\ "rearm" \in XB("tree", FALSE)!Label
          /\ "rearm" \notin {"out", "alone"} /\ pc[t] \notin {"out", "alone"}
      BY <1>3, TreeIsXB DEF Tree!Gather, XB!Label
    <2>2. /\ TeamInv("tree", FALSE)' /\ SizesKept /\ t \in Members
          /\ pc' = [pc EXCEPT ![t] = "rearm"] /\ UNCHANGED <<left, sense>>
      BY <1>0, <2>1, InsideTeam, Zenon
    <2>3. UNCHANGED <<childNotReady, wakeupSense>> /\ childNotReady[t] = {} /\ pc[t] = "gather"
      BY <1>3 DEF Tree!Gather, Tree!treeVars
    <2>4. TreeParts'
      BY <2>2, <2>3, TreeQuiet DEF SizesKept
    <2> QED
      BY <1>0, <2>2, <2>3, <2>4, TreeSplit DEF TreeFlags
  <1>4. ASSUME NEW t \in Thread, Tree!Rearm(t) PROVE Tree!IInv'
    <2>1. /\ XB("tree", FALSE)!Inside(t, "report") /\ "report" \in XB("tree", FALSE)!Label
          /\ "report" \notin {"out", "alone"} /\ pc[t] \notin {"out", "alone"}
      BY <1>4, TreeIsXB DEF Tree!Rearm, XB!Label
    <2>2. /\ TeamInv("tree", FALSE)' /\ SizesKept /\ t \in Members
          /\ pc' = [pc EXCEPT ![t] = "report"] /\ UNCHANGED <<left, sense>>
      BY <1>0, <2>1, InsideTeam, Zenon
    <2>3. /\ childNotReady' = [childNotReady EXCEPT ![t] = Tree!HaveChild(teamSize, t)]
          /\ UNCHANGED wakeupSense /\ pc[t] = "rearm"
      BY <1>1, <1>4 DEF Tree!Rearm
    <2>4. TreeParts'
      BY <2>2, <2>3, TreeRearm DEF SizesKept
    <2>5. TreeFlags'
      BY <1>0, <2>3 DEF TreeFlags, Tree!HaveChild, Thread
    <2> QED
      BY <2>2, <2>4, <2>5, TreeSplit
  <1>5. ASSUME NEW t \in Thread, Tree!Report(t) PROVE Tree!IInv'
    <2> DEFINE label == IF t = 0 THEN "notify0" ELSE "await"
    <2>1. /\ XB("tree", FALSE)!Inside(t, label) /\ label \in XB("tree", FALSE)!Label
          /\ label \notin {"out", "alone"} /\ pc[t] \notin {"out", "alone"}
      BY <1>5, TreeIsXB DEF Tree!Report, XB!Label
    <2> HIDE DEF label
    <2>2. /\ TeamInv("tree", FALSE)' /\ SizesKept /\ t \in Members
          /\ pc' = [pc EXCEPT ![t] = label] /\ UNCHANGED <<left, sense>>
      BY <1>0, <2>1, InsideTeam, Zenon
    <2>3. /\ childNotReady' = IF t = 0 THEN childNotReady
                              ELSE [childNotReady EXCEPT ![Tree!Parent(t)] = @ \ {t}]
          /\ UNCHANGED wakeupSense /\ pc[t] = "report" /\ teamSize > 1
      BY <1>1, <1>5 DEF Tree!Report
    <2>4. TreeParts'
      BY <2>2, <2>3, TreeReport DEF SizesKept, label
    <2>5. TreeFlags'
      BY <1>0, <2>3 DEF TreeFlags
    <2> QED
      BY <2>2, <2>4, <2>5, TreeSplit
  <1>6. ASSUME NEW t \in Thread, Tree!AwaitWakeup(t) PROVE Tree!IInv'
    <2>1. /\ XB("tree", FALSE)!Inside(t, "notify0") /\ "notify0" \in XB("tree", FALSE)!Label
          /\ "notify0" \notin {"out", "alone"} /\ pc[t] \notin {"out", "alone"}
      BY <1>6, TreeIsXB DEF Tree!AwaitWakeup, XB!Label
    <2>2. /\ TeamInv("tree", FALSE)' /\ SizesKept /\ t \in Members
          /\ pc' = [pc EXCEPT ![t] = "notify0"] /\ UNCHANGED <<left, sense>>
      BY <1>0, <2>1, InsideTeam, Zenon
    <2>3. /\ UNCHANGED <<childNotReady, wakeupSense>>
          /\ wakeupSense[t] = sense[t] /\ pc[t] = "await"
      BY <1>6 DEF Tree!AwaitWakeup, Tree!treeVars
    <2>4. TreeParts'
      BY <2>2, <2>3, TreeQuiet DEF SizesKept
    <2> QED
      BY <1>0, <2>2, <2>3, <2>4, TreeSplit DEF TreeFlags
  <1>7. ASSUME NEW t \in Thread, Tree!NotifyFirst(t) PROVE Tree!IInv'
    <2>1. /\ XB("tree", FALSE)!Inside(t, "notify1") /\ "notify1" \in XB("tree", FALSE)!Label
          /\ "notify1" \notin {"out", "alone"} /\ pc[t] \notin {"out", "alone"}
      BY <1>7, TreeIsXB DEF Tree!NotifyFirst, XB!Label
    <2>2. /\ TeamInv("tree", FALSE)' /\ SizesKept /\ t \in Members
          /\ pc' = [pc EXCEPT ![t] = "notify1"] /\ UNCHANGED <<left, sense>>
      BY <1>0, <2>1, InsideTeam, Zenon
    <2>3. /\ wakeupSense' = [u \in Thread |-> IF u \in Tree!Notified(teamSize, t, 0)
                                              THEN sense[t] ELSE wakeupSense[u]]
          /\ UNCHANGED childNotReady /\ pc[t] = "notify0"
      BY <1>0, <1>1, <1>7 DEF Tree!NotifyFirst, Tree!Notify
    <2>4. TreeParts'
      BY <2>2, <2>3, TreeNotifyFirst DEF SizesKept
    <2>5. TreeFlags'
      BY <1>0, <2>3 DEF TreeFlags, TeamInv, XB!TypeOK, XB!Thread, Thread
    <2> QED
      BY <2>2, <2>4, <2>5, TreeSplit
  <1>8. ASSUME NEW t \in Thread, Tree!NotifySecond(t) PROVE Tree!IInv'
    <2>1. /\ pc[t] = "notify1" /\ XB("tree", FALSE)!Leave(t)
          /\ sense' = [sense EXCEPT ![t] = ~@]
          /\ SizesKept /\ UNCHANGED <<entered, parity, childNotReady>>
          /\ t \in Members
          /\ wakeupSense' = [u \in Thread |-> IF u \in Tree!Notified(teamSize, t, 1)
                                              THEN sense[t] ELSE wakeupSense[u]]
      BY <1>0, <1>1, <1>8, TreeIsXB DEF Tree!NotifySecond, Tree!FlipSense, Tree!Notify,
         Tree!sizeVars, SizesKept
    <2>2. parity' \in [Thread -> {0, 1}] /\ sense' \in [Thread -> BOOLEAN]
      BY <1>0, <2>1 DEF TeamInv, XB!TypeOK, XB!Thread, Thread
    <2>3. /\ TeamInv("tree", FALSE)'
          /\ pc' = [pc EXCEPT ![t] = "out"] /\ left' = [left EXCEPT ![t] = @ + 1]
      BY <1>0, <2>1, <2>2, LeaveTeam
    <2>4. TreeParts'
      BY <2>1, <2>3, TreeNotifySecond DEF SizesKept
    <2>5. TreeFlags'
      BY <1>0, <2>1 DEF TreeFlags, TeamInv, XB!TypeOK, XB!Thread, Thread
    <2> QED
      BY <2>3, <2>4, <2>5, TreeSplit
  <1>9. ASSUME NEW t \in Thread, Tree!ReturnAlone(t), UNCHANGED Tree!treeVars PROVE Tree!IInv'
    <2>1. /\ pc[t] = "alone" /\ XB("tree", FALSE)!Leave(t)
          /\ SizesKept /\ UNCHANGED <<entered, parity, sense, childNotReady, wakeupSense>>
      BY <1>9, TreeIsXB DEF Tree!ReturnAlone, Tree!sizeVars, Tree!localVars, Tree!treeVars,
         SizesKept
    <2>2. /\ parity' \in [Thread -> {0, 1}] /\ sense' \in [Thread -> BOOLEAN]
          /\ teamSize = 1 /\ t \in Members
      BY <1>0, <2>1 DEF TeamInv, XB!TypeOK, XB!InsideInv, XB!Thread, XB!Team, Thread, Members
    <2>3. /\ TeamInv("tree", FALSE)'
          /\ pc' = [pc EXCEPT ![t] = "out"] /\ left' = [left EXCEPT ![t] = @ + 1]
      BY <1>0, <2>1, <2>2, LeaveTeam
    <2>4. TreeParts'
      BY <2>1, <2>2, <2>3, TreeAlone DEF SizesKept
    <2> QED
      BY <1>0, <2>1, <2>3, <2>4, TreeSplit DEF TreeFlags
  <1>10. CASE Tree!KeepInfo /\ UNCHANGED Tree!treeVars
    <2>1. TeamInv("tree", FALSE)' /\ SameTeam
      BY <1>0, <1>10, TreeIsXB, KeepTeam
    <2>2. UNCHANGED <<childNotReady, wakeupSense>>
      BY <1>10 DEF Tree!treeVars
    <2> QED
      BY <1>0, <2>1, <2>2, TreeSame, TreeSplit DEF TreeFlags
  <1>11. ASSUME NEW n \in 1..MaxThreads, Tree!Rebuild(n) PROVE Tree!IInv'
    <2>1. TeamInv("tree", FALSE)' /\ NewTeam(n)
      BY <1>0, <1>11, TreeIsXB, RebuildTeam DEF Tree!Rebuild
    <2>2. /\ childNotReady' = [t \in Thread |-> IF t < n THEN Tree!HaveChild(n, t)
                                                ELSE childNotReady[t]]
          /\ wakeupSense' = [t \in Thread |-> t >= n /\ wakeupSense[t]]
      BY <1>0, <1>11 DEF Tree!Rebuild
    <2>3. TreeFlags'
      BY <1>0, <2>2 DEF TreeFlags, Tree!HaveChild, Thread
    <2>4. n \in Nat /\ \A t \in 0..(n - 1) : t \in Thread /\ t < n /\ ~(t >= n)
      BY <1>0 DEF Thread
    <2>5. \A t \in 0..(n - 1) : wakeupSense'[t] = FALSE
      BY <2>2, <2>4
    <2>6. \A t \in 0..(n - 1) : childNotReady'[t] = Tree!HaveChild(n, t)
      BY <2>2, <2>4
    <2>7. TreeFresh(n)'
      BY <2>1, <2>4, <2>5, <2>6 DEF NewTeam, TreeFresh, Members, Zero
    <2>8. TreeStart'
      BY <1>0, <2>7 DEF TreeStart
    <2> QED
      BY <2>1, <2>3, <2>8, TreeStartsAgain, TreeSplit
  <1>12. CASE UNCHANGED Tree!vars
    BY <1>12 DEF Tree!vars, Tree!teamVars, Tree!sizeVars, Tree!localVars, Tree!countVars,
       Tree!treeVars, Tree!IInv, Tree!TreeTypeOK, Tree!TypeOK, Tree!BuiltInv,
       Tree!InsideInv, Tree!ChildInv, Tree!OpenInv, Tree!SenseInv, Tree!WakeupInv,
       Tree!RootInv, Tree!Reported, Tree!Opened, Tree!Told, Tree!Team
  <1>13. \A t \in Thread : t + 1 \in 1..MaxThreads
    BY <1>0 DEF Thread
  <1> QED
    BY <1>0, <1>2, <1>3, <1>4, <1>5, <1>6, <1>7, <1>8, <1>9, <1>10, <1>11, <1>12, <1>13
       DEF Tree!Next, Tree!Fork, Tree!Wait

LEMMA TreeInitRefines == Tree!SizesOK /\ Tree!Init => TB!Init
  BY TeamStartRefines
     DEF Tree!SizesOK, Tree!Init, Tree!TeamInit, Tree!Zero, Zero, Tree!Thread, Thread

\* Every step of the barrier is one of TeamBarrier or changes nothing there.
LEMMA TreeStepRefines ==
    Tree!SizesOK /\ Tree!NeverStale /\ Tree!IInv /\ [Tree!Next]_(Tree!vars)
        => [TB!Next]_(TB!vars)
  <1> SUFFICES ASSUME Tree!SizesOK, Tree!NeverStale, Tree!IInv, [Tree!Next]_(Tree!vars)
               PROVE  [TB!Next]_(TB!vars)
    OBVIOUS
  <1>0. /\ XB("tree", FALSE)!SizesOK /\ XB("tree", FALSE)!NeverStale
        /\ TeamInv("tree", FALSE) /\ TreeBounds
        /\ MaxThreads \in Nat /\ Tree!Thread = Thread
        /\ left \in [Thread -> Nat]
    BY TreeIsXB, TreeFacts, TreeSplit
       DEF Tree!SizesOK, Tree!Thread, Thread, Tree!IInv, Tree!TreeTypeOK, Tree!TypeOK
  <1>1. \A u \in Thread : /\ pc[u] # "out" => u \in Members /\ entered[u] = left[u] + 1
                          /\ entered[u] = IF pc[u] = "out" THEN left[u] ELSE left[u] + 1
                          /\ pc[u] = "alone" => teamSize = 1
    BY <1>0 DEF TeamInv, XB!InsideInv, XB!Thread, XB!Team, Thread, Members
  <1>2. ASSUME NEW t \in Thread, Tree!Enter(t) PROVE TB!Enter(t)
    BY <1>0, <1>2, TreeIsXB, CallRefines DEF Tree!Enter
  <1>3. ASSUME NEW t \in Thread,
               \/ Tree!Gather(t) \/ Tree!Rearm(t) \/ Tree!Report(t)
               \/ Tree!AwaitWakeup(t) \/ Tree!NotifyFirst(t)
        PROVE  UNCHANGED TB!vars
    BY <1>3 DEF Tree!Gather, Tree!Rearm, Tree!Report, Tree!AwaitWakeup, Tree!NotifyFirst,
       Tree!Inside, Tree!sizeVars, Tree!countVars, TB!vars
  <1>4. ASSUME NEW t \in Thread, Tree!NotifySecond(t) PROVE TB!Leave(t)
    <2>1. /\ pc[t] = "notify1" /\ left' = [left EXCEPT ![t] = @ + 1]
          /\ UNCHANGED <<teamSize, entered>>
      BY <1>4 DEF Tree!NotifySecond, Tree!FlipSense, Tree!Leave, Tree!sizeVars
    <2>2. t \in Members /\ Tree!Opened(t) = left[t] + 1
      BY <1>1, <2>1 DEF Tree!Opened
    <2>3. ASSUME NEW u \in Members PROVE entered[u] > left[t]
      <3>1. /\ left[t] + 1 <= Tree!Reported(u) /\ u \in Thread
            /\ left[t] \in Nat /\ left[u] \in Nat
        BY <1>0, <2>2 DEF TreeBounds
      <3>2. Tree!Reported(u) \in {left[u], left[u] + 1}
        BY DEF Tree!Reported
      <3>3. CASE pc[u] = "out"
        <4>1. Tree!Reported(u) = left[u] /\ entered[u] = left[u]
          BY <1>1, <3>1, <3>3 DEF Tree!Reported
        <4> QED
          BY <3>1, <4>1
      <3>4. CASE pc[u] # "out"
        <4>1. entered[u] = left[u] + 1
          BY <1>1, <3>1, <3>4, Zenon
        <4> QED
          BY <3>1, <3>2, <4>1
      <3> QED
        BY <3>3, <3>4
    <2> QED
      BY <1>0, <2>1, <2>3, LeaveRefines
  <1>5. ASSUME NEW t \in Thread, Tree!ReturnAlone(t) PROVE TB!Leave(t)
    <2>1. /\ pc[t] = "alone" /\ left' = [left EXCEPT ![t] = @ + 1]
          /\ UNCHANGED <<teamSize, entered>>
      BY <1>5 DEF Tree!ReturnAlone, Tree!Leave, Tree!sizeVars
    <2>2. \A u \in Members : u = t
      BY <1>1, <2>1 DEF Members
    <2>3. entered[t] > left[t]
      BY <1>0, <1>1, <2>1
    <2> QED
      BY <1>0, <2>1, <2>2, <2>3, LeaveRefines
  <1>6. CASE Tree!KeepInfo
    BY <1>0, <1>6, TreeIsXB, KeepTeam, SameTeamRefines
  <1>7. ASSUME NEW n \in 1..MaxThreads, Tree!Rebuild(n) PROVE TB!Next
    BY <1>0, <1>7, TreeIsXB, RebuildTeam, NewTeamRefines DEF Tree!Rebuild
  <1>8. CASE UNCHANGED Tree!vars
    BY <1>8 DEF Tree!vars, Tree!teamVars, Tree!sizeVars, Tree!countVars, TB!vars
  <1>9. \A t \in Thread : t + 1 \in 1..MaxThreads
    BY <1>0 DEF Thread
  <1> QED
    BY <1>0, <1>2, <1>3, <1>4, <1>5, <1>6, <1>7, <1>8, <1>9
       DEF Tree!Next, Tree!Fork, Tree!Wait, TB!Next, Thread

-----------------------------------------------------------------------------
(* DISSEM *)

\* DISSEM's operations are the team's.
LEMMA DissemIsXB ==
    /\ Dissem!SizesOK <=> XB("dissem", TRUE)!SizesOK
    /\ Dissem!NeverStale <=> XB("dissem", TRUE)!NeverStale
    /\ Dissem!KeepInfo => XB("dissem", TRUE)!KeepInfo
    /\ \A n : Dissem!RebuildInfo(n) => XB("dissem", TRUE)!RebuildInfo(n)
    /\ \A t, label : Dissem!Call(t, label) => XB("dissem", TRUE)!Call(t, label)
    /\ \A t, label : Dissem!Inside(t, label) => XB("dissem", TRUE)!Inside(t, label)
    /\ \A t : Dissem!Leave(t) => XB("dissem", TRUE)!Leave(t)
    /\ Dissem!Label = XB("dissem", TRUE)!Label
  <1> USE DEF Dissem!Thread, XB!Thread, Dissem!Team, XB!Team, Dissem!Log2, XB!Log2,
              Dissem!Built, XB!Built, Dissem!Zero, XB!Zero, Dissem!sizeVars, XB!sizeVars,
              Dissem!localVars, XB!localVars, Dissem!countVars, XB!countVars,
              Dissem!Joined, XB!Joined, Dissem!Begin, XB!Begin, Dissem!Goto, XB!Goto
  <1>1. /\ Dissem!SizesOK <=> XB("dissem", TRUE)!SizesOK
        /\ Dissem!NeverStale <=> XB("dissem", TRUE)!NeverStale
        /\ Dissem!Label = XB("dissem", TRUE)!Label
    BY DEF Dissem!SizesOK, XB!SizesOK, Dissem!NeverStale, XB!NeverStale, Dissem!Label,
           XB!Label
  <1>2. Dissem!KeepInfo => XB("dissem", TRUE)!KeepInfo
    BY DEF Dissem!KeepInfo, XB!KeepInfo, Dissem!ForkDefault, XB!ForkDefault,
           Dissem!ForkSame, XB!ForkSame, Dissem!SetNumThreads, XB!SetNumThreads
  <1>3. \A n : Dissem!RebuildInfo(n) => XB("dissem", TRUE)!RebuildInfo(n)
    BY DEF Dissem!RebuildInfo, XB!RebuildInfo, Dissem!ForkResize, XB!ForkResize,
           Dissem!Expand, XB!Expand, Dissem!ForkExpand, XB!ForkExpand,
           Dissem!SetMoreThreads, XB!SetMoreThreads, Dissem!ResetLocals, XB!ResetLocals
  <1>4. /\ \A t, label : Dissem!Call(t, label) => XB("dissem", TRUE)!Call(t, label)
        /\ \A t, label : Dissem!Inside(t, label) => XB("dissem", TRUE)!Inside(t, label)
        /\ \A t : Dissem!Leave(t) => XB("dissem", TRUE)!Leave(t)
    BY DEF Dissem!Call, XB!Call, Dissem!Inside, XB!Inside, Dissem!Leave, XB!Leave
  <1> QED
    BY <1>1, <1>2, <1>3, <1>4

DissemFlags == /\ flag \in [Thread -> [Dissem!Rounds -> [{0, 1} -> BOOLEAN]]]
               /\ round \in [Thread -> Nat]
DissemParts == /\ Dissem!TogetherInv /\ Dissem!RoundInv /\ Dissem!HeardInv
               /\ Dissem!CycleInv /\ Dissem!FlagInv

LEMMA DissemSplit ==
    /\ Dissem!IInv <=> TeamInv("dissem", TRUE) /\ DissemFlags /\ DissemParts
    /\ Dissem!IInv' <=> TeamInv("dissem", TRUE)' /\ DissemFlags' /\ DissemParts'
  <1>1. /\ (Dissem!TypeOK /\ Dissem!BuiltInv /\ Dissem!InsideInv) <=> TeamInv("dissem", TRUE)
        /\ (Dissem!TypeOK /\ Dissem!BuiltInv /\ Dissem!InsideInv)'
             <=> TeamInv("dissem", TRUE)'
    BY DEF TeamInv, Dissem!TypeOK, Dissem!BuiltInv, Dissem!InsideInv, Dissem!Thread,
           Dissem!Team, Dissem!Label, Dissem!Log2, XB!TypeOK, XB!BuiltInv, XB!InsideInv,
           XB!Thread, XB!Team, XB!Label, XB!Log2
  <1> QED
    BY <1>1 DEF Dissem!IInv, Dissem!DissemTypeOK, DissemFlags, DissemParts, Dissem!Thread,
                Thread

\* the types, and how far the members can be apart
DissemBounds ==
    /\ teamSize \in Nat /\ Members \subseteq Thread
    /\ info = "built" => log2TeamSize \in Nat /\ log2TeamSize = Log2(teamSize)
    /\ pc \in [Thread -> Dissem!Label] /\ left \in [Thread -> Nat]
    /\ entered \in [Thread -> Nat] /\ sense \in [Thread -> BOOLEAN]
    /\ parity \in [Thread -> {0, 1}]
    /\ \A t, u \in Members : left[t] <= entered[u]
    /\ \A t \in Members : /\ entered[t] \in {left[t], left[t] + 1}
                          /\ Dissem!In(t) => /\ entered[t] = left[t] + 1
                                             /\ info = "built"

LEMMA DissemBounded == Dissem!SizesOK /\ Dissem!IInv => DissemBounds
  <1> SUFFICES ASSUME Dissem!SizesOK, Dissem!IInv PROVE DissemBounds
    OBVIOUS
  <1>1. /\ pc \in [Thread -> Dissem!Label] /\ left \in [Thread -> Nat]
        /\ entered \in [Thread -> Nat] /\ sense \in [Thread -> BOOLEAN]
        /\ parity \in [Thread -> {0, 1}]
        /\ teamSize \in 1..MaxThreads /\ MaxThreads \in Nat
    BY DEF Dissem!SizesOK, Dissem!IInv, Dissem!DissemTypeOK, Dissem!TypeOK, Dissem!Thread,
           Thread
  <1>2. teamSize \in Nat /\ Members \subseteq Thread
    BY <1>1 DEF Members, Thread
  <1>3. \A t, u \in Members : left[t] <= entered[u]
    BY DEF Dissem!IInv, Dissem!TogetherInv, Dissem!Team, Members
  <1>4. \A t \in Members : /\ entered[t] = IF pc[t] = "out" THEN left[t] ELSE left[t] + 1
                           /\ pc[t] \notin {"out", "alone"} => info = "built"
    BY <1>2 DEF Dissem!IInv, Dissem!InsideInv, Dissem!BuiltInv, Dissem!Thread, Thread
  <1>5. \A t \in Members : /\ entered[t] \in {left[t], left[t] + 1}
                           /\ Dissem!In(t) => /\ entered[t] = left[t] + 1
                                              /\ info = "built"
    BY <1>4 DEF Dissem!In
  <1>6. info = "built" => log2TeamSize = Log2(teamSize)
    BY DEF Dissem!IInv, Dissem!BuiltInv, Dissem!Log2, Log2
  <1>7. info = "built" => log2TeamSize \in Nat
    BY <1>2, <1>6, Log2Least
  <1> QED
    BY <1>1, <1>2, <1>3, <1>5, <1>6, <1>7 DEF DissemBounds

\* The ring of a team, and what one round of signals does to it.
LEMMA DissemRing ==
    ASSUME Dissem!SizesOK, Dissem!IInv, info = "built", NEW r \in 0..(log2TeamSize - 1)
    PROVE  /\ r \in Nat /\ r \in Dissem!Rounds /\ log2TeamSize \in Nat
           /\ 2^r \in Nat /\ 0 < 2^r /\ 2^r < teamSize /\ teamSize <= 2^log2TeamSize
           /\ \A t \in Members :
                 /\ Dissem!Partner(t, r) = IF t + 2^r < teamSize THEN t + 2^r
                                           ELSE t + 2^r - teamSize
                 /\ Dissem!Partner(t, r) \in Members /\ Dissem!Partner(t, r) # t
           /\ \A t, u \in Members : Dissem!Partner(t, r) = Dissem!Partner(u, r) => t = u
  <1>1. /\ log2TeamSize = Log2(teamSize) /\ Dissem!Rounds = 0..Log2(MaxThreads)
        /\ teamSize \in Nat /\ MaxThreads \in Nat /\ teamSize <= MaxThreads
        /\ \A t \in Members : builtFor[t] = teamSize
    BY DEF Dissem!SizesOK, Dissem!IInv, Dissem!BuiltInv, Dissem!Log2, Log2, Dissem!Rounds,
           Dissem!DissemTypeOK, Dissem!TypeOK, Dissem!Team, Members
  <1>2. log2TeamSize \in Nat /\ teamSize <= 2^log2TeamSize
    BY <1>1, Log2Least
  <1>3. r \in Nat /\ r < Log2(teamSize)
    BY <1>1, <1>2
  <1>4. r \in Dissem!Rounds
    BY <1>1, <1>3, Log2Grows, Log2Least
  <1>5. 2^r \in Nat /\ 0 < 2^r /\ 2^r < teamSize
    <2>1. 2^r < teamSize
      BY <1>1, <1>3, Log2Least
    <2>2. 2^r \in Nat /\ r < 2^r
      BY <1>3, PowerGrows
    <2> QED
      BY <1>3, <2>1, <2>2
  <1> DEFINE d == 2^r
  <1>6. d \in Nat /\ 0 < d /\ d < teamSize
    BY <1>5
  <1>7. \A t \in Members : Dissem!Partner(t, r) = (t + d) % teamSize
    BY <1>1 DEF Dissem!Partner
  <1> HIDE DEF d
  <1>8. \A t \in Members : Dissem!Partner(t, r) = IF t + d < teamSize THEN t + d
                                                  ELSE t + d - teamSize
    <2> SUFFICES ASSUME NEW t \in Members
                 PROVE  Dissem!Partner(t, r) = IF t + d < teamSize THEN t + d
                                               ELSE t + d - teamSize
      OBVIOUS
    <2>1. t + d \in Nat /\ t + d < 2 * teamSize
      BY <1>1, <1>6 DEF Members
    <2>2. /\ t + d < teamSize => (t + d) % teamSize = t + d
          /\ teamSize <= t + d => (t + d) % teamSize = (t + d) - teamSize
      BY <1>1, <2>1, ModOnce, Zenon
    <2>3. Dissem!Partner(t, r) = (t + d) % teamSize
      BY <1>7
    <2>4. /\ t + d < teamSize => Dissem!Partner(t, r) = t + d
          /\ teamSize <= t + d => Dissem!Partner(t, r) = (t + d) - teamSize
      BY <2>2, <2>3, Zenon
    <2> QED
      BY <1>1, <1>6, <2>4 DEF Members
  <1>9. \A t \in Members : Dissem!Partner(t, r) \in Members /\ Dissem!Partner(t, r) # t
    BY <1>1, <1>6, <1>8 DEF Members
  <1>10. \A t, u \in Members : Dissem!Partner(t, r) = Dissem!Partner(u, r) => t = u
    BY <1>1, <1>6, <1>8 DEF Members
  <1> QED
    BY <1>2, <1>3, <1>4, <1>5, <1>8, <1>9, <1>10 DEF d

\* omp_xbarrier.c:349-360
LEMMA DissemNoSignalOverwritten ==
    Dissem!SizesOK /\ Dissem!IInv => Dissem!NoSignalOverwritten
  <1> SUFFICES ASSUME Dissem!SizesOK, Dissem!IInv, NEW t \in Members,
                      pc[t] = "signal", info = "built", NEW p,
                      p = Dissem!Partner(t, round[t]),
                      pc[p] \in {"test", "signal", "spin"}, round[p] <= round[t],
                      parity[p] = parity[t], sense[p] # sense[t]
               PROVE  FALSE
    BY DEF Dissem!NoSignalOverwritten, Dissem!Team, Members
  <1>0. DissemBounds /\ DissemParts /\ DissemFlags
    BY DissemBounded, DissemSplit
  <1> DEFINE r == round[t]
  <1>1. r \in 0..(log2TeamSize - 1)
    <2>1. r \in Nat /\ r < log2TeamSize
      BY <1>0 DEF DissemParts, Dissem!RoundInv, Dissem!Team, Members, DissemBounds,
                  DissemFlags
    <2>2. log2TeamSize \in Nat
      BY <1>0 DEF DissemBounds
    <2> QED
      BY <2>1, <2>2
  <1>2. p \in Members
    BY <1>1, DissemRing
  <1>3. Dissem!Sent(t, r) = left[t] /\ Dissem!Sent(t, r) >= left[p]
    BY <1>0, <1>1 DEF DissemParts, Dissem!FlagInv, Dissem!Team, Members, Dissem!Sent
  <1>4. left[t] <= left[p] + 1 /\ left[t] \in Nat /\ left[p] \in Nat
    BY <1>0, <1>2 DEF DissemBounds, Dissem!In
  <1>5. parity[p] \in {0, 1}
    BY <1>0, <1>2 DEF DissemBounds
  <1>6. left[t] = left[p] \/ left[t] = left[p] + 1
    BY <1>3, <1>4
  <1> QED
    BY <1>0, <1>2, <1>5, <1>6 DEF DissemParts, Dissem!CycleInv, Dissem!Team, Members

DissemRings == info = "built" => \A r \in 0..(log2TeamSize - 1), t \in Members :
    /\ Dissem!Partner(t, r) \in Members /\ Dissem!Partner(t, r) # t
    /\ \A u \in Members : Dissem!Partner(t, r) = Dissem!Partner(u, r) => t = u
    /\ r \in Nat /\ r \in Dissem!Rounds

\* what the steps below start from
LEMMA DissemFacts ==
    ASSUME Dissem!SizesOK, Dissem!IInv
    PROVE  DissemBounds /\ DissemRings /\ DissemFlags /\ DissemParts
  BY DissemBounded, DissemSplit, DissemRing DEF DissemRings

\* omp_xbarrier.c:340-347
LEMMA DissemEnter ==
    ASSUME Dissem!SizesOK, Dissem!IInv, NEW t \in Members, SizesKept, pc[t] = "out",
           info # "crash",
           pc' = [pc EXCEPT ![t] = IF teamSize = 1 THEN "alone" ELSE "test"],
           entered' = [entered EXCEPT ![t] = @ + 1], round' = [round EXCEPT ![t] = 0],
           UNCHANGED <<left, parity, sense, flag>>
    PROVE  DissemParts'
  <1> USE DEF Dissem!Team, Members, SizesKept
  <1>0. DissemBounds /\ DissemRings /\ DissemFlags /\ DissemParts
    BY DissemFacts
  <1>1. \A u \in Members : u # t => /\ pc'[u] = pc[u] /\ entered'[u] = entered[u]
                                    /\ round'[u] = round[u]
    BY <1>0 DEF DissemBounds, DissemFlags
  <1>2. /\ t \in Nat /\ pc'[t] \in {"test", "alone"} /\ entered'[t] = entered[t] + 1
        /\ round'[t] = 0 /\ entered[t] \in Nat /\ left[t] \in Nat /\ t \in Thread
    BY <1>0 DEF DissemBounds, DissemFlags
  <1>3. /\ \A u \in Members : u # t => ((Dissem!In(u))' <=> Dissem!In(u))
        /\ ~Dissem!In(t)
    BY <1>1 DEF Dissem!In
  <1>4. \A u \in Members, r \in Nat : (Dissem!Sent(u, r))' = Dissem!Sent(u, r)
    <2>1. \A u \in Members, r \in Nat : u # t => (Dissem!Sent(u, r))' = Dissem!Sent(u, r)
      BY <1>1, <1>3 DEF Dissem!Sent
    <2>2. \A r \in Nat : (Dissem!Sent(t, r))' = Dissem!Sent(t, r)
      BY <1>2, <1>3 DEF Dissem!Sent
    <2> QED
      BY <2>1, <2>2
  <1>5. Dissem!TogetherInv'
    BY <1>0, <1>1, <1>2 DEF DissemBounds, Dissem!TogetherInv
  <1>6. Dissem!RoundInv'
    <2>1. pc'[t] = "test" => info = "built"
      <3>1. info = "built" \/ teamSize = 1
        BY DEF Dissem!IInv, Dissem!BuiltInv, Dissem!DissemTypeOK, Dissem!TypeOK
      <3>2. pc'[t] = IF teamSize = 1 THEN "alone" ELSE "test"
        BY <1>0 DEF DissemBounds
      <3> QED
        BY <3>1, <3>2
    <2>2. (Dissem!In(t))' => 0 <= log2TeamSize
      BY <1>0, <1>2, <2>1 DEF DissemBounds, Dissem!In
    <2>3. \A u \in Members : u # t =>
            /\ (Dissem!In(u))' => round'[u] <= log2TeamSize
            /\ pc'[u] \in {"signal", "spin"} => round'[u] < log2TeamSize
      BY <1>0, <1>1, <1>3 DEF DissemParts, Dissem!RoundInv
    <2> QED
      BY <1>2, <2>2, <2>3 DEF Dissem!RoundInv
  <1>7. Dissem!HeardInv'
    <2>1. \A u \in Members : (Dissem!Behind(t, u))' < 2^0 => u = t
      BY <1>0, PowerZero DEF Dissem!Behind, DissemBounds
    <2>2. \A u \in Members : u # t => \A v \in Members :
             (Dissem!Behind(u, v))' = Dissem!Behind(u, v)
      BY DEF Dissem!Behind
    <2>3. left[t] < entered'[t]
      BY <1>0, <1>2 DEF DissemBounds
    <2>4. \A u \in Members : entered[u] \in Nat /\ entered'[u] \in Nat /\ entered'[u] >= entered[u]
      BY <1>0, <1>1, <1>2 DEF DissemBounds
    <2>5. \A u \in Members : left[u] \in Nat
      BY <1>0 DEF DissemBounds
    <2>6. ASSUME NEW u \in Members, NEW v \in Members, (Dissem!In(u))',
                 (Dissem!Behind(u, v))' < 2^(round'[u])
          PROVE  left[u] < entered'[v]
      <3>1. CASE u = t
        <4>1. v = t
          BY <1>2, <2>1, <2>6, <3>1
        <4> QED
          BY <2>3, <3>1, <4>1
      <3>2. CASE u # t
        <4>1. left[u] < entered[v]
          BY <1>0, <1>1, <1>3, <2>2, <2>6, <3>2 DEF DissemParts, Dissem!HeardInv
        <4> QED
          BY <2>4, <2>5, <4>1
      <3> QED
        BY <3>1, <3>2
    <2> QED
      BY <2>6 DEF Dissem!HeardInv
  <1>8. Dissem!CycleInv'
    BY <1>0 DEF DissemParts, Dissem!CycleInv, Dissem!NextSense
  <1>9. Dissem!FlagInv'
    <2>1. \A u, v \in Members : /\ (Dissem!NextSense(u))' = Dissem!NextSense(u)
                                /\ \A r \in Nat : (Dissem!In(u) /\ r < round[u])'
                                     => Dissem!In(u) /\ r < round[u]
      BY <1>0, <1>1, <1>2, <1>3 DEF Dissem!NextSense
    <2>2. \A u \in Members, r \in Nat : (Dissem!Partner(u, r))' = Dissem!Partner(u, r)
      BY DEF Dissem!Partner
    <2> SUFFICES ASSUME info = "built", NEW u \in Members, NEW r \in 0..(log2TeamSize - 1),
                        NEW p, p = Dissem!Partner(u, r)
                 PROVE  /\ Dissem!Sent(u, r) >= left[p]
                        /\ (Dissem!In(p) /\ r < round[p])' => Dissem!Sent(u, r) > left[p]
                        /\ flag[p][r][parity[p]] = sense[p] <=> Dissem!Sent(u, r) > left[p]
                        /\ flag[p][r][1 - parity[p]] = Dissem!NextSense(p)
                             <=> Dissem!Sent(u, r) > left[p] + 1
      BY <1>0, <1>4, <2>1, <2>2 DEF Dissem!FlagInv, DissemRings
    <2>3. p \in Members /\ r \in Nat
      BY <1>0 DEF DissemRings
    <2> QED
      BY <1>0, <2>1, <2>3 DEF DissemParts, Dissem!FlagInv
  <1> QED
    BY <1>5, <1>6, <1>7, <1>8, <1>9 DEF DissemParts

\* omp_xbarrier.c:348
LEMMA DissemTest ==
    ASSUME Dissem!SizesOK, Dissem!IInv, NEW t \in Members, SizesKept, pc[t] = "test",
           round[t] < log2TeamSize, pc' = [pc EXCEPT ![t] = "signal"],
           UNCHANGED <<entered, left, parity, sense, flag, round>>
    PROVE  DissemParts'
  <1> USE DEF Dissem!Team, Members, SizesKept
  <1>0. DissemBounds /\ DissemRings /\ DissemFlags /\ DissemParts
    BY DissemFacts
  <1>1. /\ \A u \in Members : u # t => pc'[u] = pc[u]
        /\ pc'[t] = "signal"
    BY <1>0 DEF DissemBounds
  <1>2. \A u \in Members : (Dissem!In(u))' <=> Dissem!In(u)
    BY <1>1 DEF Dissem!In
  <1>3. \A u \in Members, r \in Nat : (Dissem!Sent(u, r))' = Dissem!Sent(u, r)
    BY <1>1, <1>2 DEF Dissem!Sent
  <1>4. Dissem!TogetherInv' /\ Dissem!CycleInv'
    BY <1>0 DEF DissemParts, Dissem!TogetherInv, Dissem!CycleInv, Dissem!NextSense
  <1>5. Dissem!RoundInv'
    BY <1>0, <1>1, <1>2 DEF DissemParts, Dissem!RoundInv
  <1>6. Dissem!HeardInv'
    BY <1>0, <1>2 DEF DissemParts, Dissem!HeardInv, Dissem!Behind
  <1>7. Dissem!FlagInv'
    <2> SUFFICES ASSUME info = "built", NEW u \in Members, NEW r \in 0..(log2TeamSize - 1),
                        NEW p, p = Dissem!Partner(u, r)
                 PROVE  /\ Dissem!Sent(u, r) >= left[p]
                        /\ (Dissem!In(p))' /\ r < round[p] => Dissem!Sent(u, r) > left[p]
                        /\ flag[p][r][parity[p]] = sense[p] <=> Dissem!Sent(u, r) > left[p]
                        /\ flag[p][r][1 - parity[p]] = Dissem!NextSense(p)
                             <=> Dissem!Sent(u, r) > left[p] + 1
      BY <1>0, <1>3 DEF Dissem!FlagInv, DissemRings, Dissem!Partner, Dissem!NextSense
    <2>1. p \in Members
      BY <1>0 DEF DissemRings
    <2> QED
      BY <1>0, <1>2, <2>1 DEF DissemParts, Dissem!FlagInv
  <1> QED
    BY <1>4, <1>5, <1>6, <1>7 DEF DissemParts

\* omp_xbarrier.c:350
LEMMA DissemSignal ==
    ASSUME Dissem!SizesOK, Dissem!IInv, NEW t \in Members, SizesKept, pc[t] = "signal",
           pc' = [pc EXCEPT ![t] = "spin"],
           flag' = [flag EXCEPT
                       ![Dissem!Partner(t, round[t])][round[t]][parity[t]] = sense[t]],
           UNCHANGED <<entered, left, parity, sense, round>>
    PROVE  DissemParts'
  <1> USE DEF Dissem!Team, Members, SizesKept
  <1> DEFINE r == round[t]
             p == Dissem!Partner(t, r)
  <1>0. DissemBounds /\ DissemRings /\ DissemFlags /\ DissemParts
    BY DissemFacts
  <1>1. /\ \A u \in Members : u # t => pc'[u] = pc[u]
        /\ pc'[t] = "spin" /\ Dissem!In(t)
    BY <1>0 DEF DissemBounds, Dissem!In
  <1>2. \A u \in Members : (Dissem!In(u))' <=> Dissem!In(u)
    BY <1>1 DEF Dissem!In
  <1>3. /\ info = "built" /\ log2TeamSize \in Nat
        /\ r \in Nat /\ r \in 0..(log2TeamSize - 1) /\ left[t] \in Nat
    BY <1>0, <1>1 DEF DissemBounds, DissemFlags, DissemParts, Dissem!RoundInv
  <1>4. p \in Members /\ p # t /\ r \in Dissem!Rounds /\ p \in Thread /\ left[p] \in Nat
    BY <1>0, <1>3 DEF DissemRings, DissemBounds
  <1> HIDE DEF p
  <1>5. /\ \A u \in Members, k \in Nat : u # t \/ k # r =>
             (Dissem!Sent(u, k))' = Dissem!Sent(u, k)
        /\ Dissem!Sent(t, r) = left[t] /\ (Dissem!Sent(t, r))' = left[t] + 1
    <2>1. \A u \in Members, k \in Nat : u # t => (Dissem!Sent(u, k))' = Dissem!Sent(u, k)
      BY <1>1, <1>2 DEF Dissem!Sent
    <2>2. \A k \in Nat : k # r => (Dissem!Sent(t, k))' = Dissem!Sent(t, k)
      BY <1>1, <1>2, <1>3 DEF Dissem!Sent
    <2>3. Dissem!Sent(t, r) = left[t]
      BY <1>3 DEF Dissem!Sent
    <2>4. (Dissem!Sent(t, r))' = left[t] + 1
      BY <1>1, <1>2, <1>3 DEF Dissem!Sent
    <2> QED
      BY <2>1, <2>2, <2>3, <2>4
  <1>6. /\ left[t] >= left[p] /\ left[t] <= left[p] + 1
        /\ flag[p][r][1 - parity[p]] = Dissem!NextSense(p) <=> left[t] > left[p] + 1
        /\ flag[p][r][parity[p]] = sense[p] <=> left[t] > left[p]
    <2>1. left[t] <= entered[p] /\ entered[p] \in {left[p], left[p] + 1}
      BY <1>0, <1>4 DEF DissemBounds
    <2> QED
      BY <1>0, <1>3, <1>4, <1>5, <2>1 DEF DissemParts, Dissem!FlagInv, p
  <1>7. /\ parity[t] \in {0, 1} /\ parity[p] \in {0, 1}
        /\ flag'[p][r][parity[t]] = sense[t]
        /\ flag'[p][r][1 - parity[t]] = flag[p][r][1 - parity[t]]
        /\ \A u \in Members, k \in Dissem!Rounds, b \in {0, 1} :
              u # p \/ k # r => flag'[u][k][b] = flag[u][k][b]
    <2>1. /\ parity[t] \in {0, 1} /\ parity[p] \in {0, 1} /\ Members \subseteq Thread
          /\ 1 - parity[t] \in {0, 1} /\ 1 - parity[t] # parity[t]
      BY <1>0, <1>4 DEF DissemBounds
    <2>2. flag \in [Thread -> [Dissem!Rounds -> [{0, 1} -> BOOLEAN]]]
      BY <1>0 DEF DissemFlags
    <2>3. flag' = [flag EXCEPT ![p][r][parity[t]] = sense[t]]
      BY DEF p
    <2>4. flag'[p][r][parity[t]] = sense[t]
      BY <1>4, <2>1, <2>2, <2>3
    <2>5. flag'[p][r][1 - parity[t]] = flag[p][r][1 - parity[t]]
      BY <1>4, <2>1, <2>2, <2>3
    <2>6. \A u \in Members, k \in Dissem!Rounds, b \in {0, 1} :
              u # p \/ k # r => flag'[u][k][b] = flag[u][k][b]
      BY <1>4, <2>1, <2>2, <2>3
    <2> QED
      BY <2>1, <2>4, <2>5, <2>6
  <1>8. Dissem!TogetherInv' /\ Dissem!CycleInv'
    BY <1>0 DEF DissemParts, Dissem!TogetherInv, Dissem!CycleInv, Dissem!NextSense
  <1>9. Dissem!RoundInv'
    BY <1>0, <1>1, <1>2 DEF DissemParts, Dissem!RoundInv
  <1>10. Dissem!HeardInv'
    BY <1>0, <1>2 DEF DissemParts, Dissem!HeardInv, Dissem!Behind
  <1>11. /\ flag'[p][r][parity[p]] = sense[p]
         /\ flag'[p][r][1 - parity[p]] = Dissem!NextSense(p) <=> left[t] + 1 > left[p] + 1
    <2>1. CASE left[t] = left[p]
      <3>1. parity[t] = parity[p] /\ sense[t] = sense[p]
        BY <1>0, <1>4, <2>1 DEF DissemParts, Dissem!CycleInv
      <3> QED
        BY <1>3, <1>4, <1>6, <1>7, <2>1, <3>1
    <2>2. CASE left[t] = left[p] + 1
      <3>1. parity[t] = 1 - parity[p] /\ sense[t] = Dissem!NextSense(p)
        BY <1>0, <1>4, <2>2 DEF DissemParts, Dissem!CycleInv
      <3>2. 1 - parity[t] = parity[p]
        BY <1>7, <3>1
      <3> QED
        BY <1>3, <1>4, <1>6, <1>7, <2>2, <3>1, <3>2
    <2> QED
      BY <1>3, <1>4, <1>6, <2>1, <2>2
  <1>12. Dissem!FlagInv'
    <2>0. /\ info' = info /\ log2TeamSize' = log2TeamSize /\ left' = left
          /\ parity' = parity /\ sense' = sense /\ round' = round
          /\ \A u, k : (Dissem!Partner(u, k))' = Dissem!Partner(u, k)
          /\ \A u : (Dissem!NextSense(u))' = Dissem!NextSense(u)
      BY DEF Dissem!Partner, Dissem!NextSense
    <2> SUFFICES ASSUME NEW u \in Members, NEW k \in 0..(log2TeamSize - 1),
                        NEW q, q = Dissem!Partner(u, k)
                 PROVE  /\ (Dissem!Sent(u, k))' >= left[q]
                        /\ Dissem!In(q) /\ k < round[q] => (Dissem!Sent(u, k))' > left[q]
                        /\ flag'[q][k][parity[q]] = sense[q]
                             <=> (Dissem!Sent(u, k))' > left[q]
                        /\ flag'[q][k][1 - parity[q]] = Dissem!NextSense(q)
                             <=> (Dissem!Sent(u, k))' > left[q] + 1
      BY <1>0, <1>2, <2>0 DEF Dissem!FlagInv, DissemRings
    <2>1. /\ q \in Members /\ k \in Nat /\ k \in Dissem!Rounds
          /\ \A v \in Members : q = Dissem!Partner(v, k) => u = v
      BY <1>0, <1>3 DEF DissemRings
    <2>2. parity[q] \in {0, 1} /\ 1 - parity[q] \in {0, 1}
      BY <1>0, <2>1 DEF DissemBounds
    <2>3. CASE u = t /\ k = r
      <3>1. q = p
        BY <2>3 DEF p
      <3> QED
        BY <1>3, <1>4, <1>5, <1>6, <1>11, <2>3, <3>1
    <2>4. CASE ~(u = t /\ k = r)
      <3>1. q # p \/ k # r
        BY <2>1, <2>4 DEF p
      <3>2. /\ flag'[q][k][parity[q]] = flag[q][k][parity[q]]
            /\ flag'[q][k][1 - parity[q]] = flag[q][k][1 - parity[q]]
        BY <1>7, <2>1, <2>2, <3>1
      <3>3. (Dissem!Sent(u, k))' = Dissem!Sent(u, k)
        BY <1>5, <2>1, <2>4
      <3> QED
        BY <1>0, <1>3, <2>1, <3>2, <3>3 DEF DissemParts, Dissem!FlagInv
    <2> QED
      BY <2>3, <2>4
  <1> QED
    BY <1>8, <1>9, <1>10, <1>12 DEF DissemParts

\* What a thread hears in a round: all that the thread 2^r places back has
\* heard, and those 2^r threads.
LEMMA DissemHears ==
    ASSUME Dissem!SizesOK, Dissem!IInv, NEW t \in Members, pc[t] = "spin",
           flag[t][round[t]][parity[t]] = sense[t], NEW u \in Members,
           Dissem!Behind(t, u) < 2^(round[t] + 1)
    PROVE  left[t] < entered[u]
  <1> USE DEF Dissem!Team, Members
  <1> DEFINE r == round[t]
             d == 2^r
  <1>0. DissemBounds /\ DissemRings /\ DissemFlags /\ DissemParts
    BY DissemFacts
  <1>1. /\ info = "built" /\ log2TeamSize \in Nat /\ Dissem!In(t)
        /\ r \in Nat /\ r \in 0..(log2TeamSize - 1)
    BY <1>0 DEF DissemBounds, DissemFlags, DissemParts, Dissem!RoundInv, Dissem!In
  <1>2. /\ d \in Nat /\ 0 < d /\ d < teamSize
        /\ \A v \in Members : Dissem!Partner(v, r) = IF v + d < teamSize THEN v + d
                                                     ELSE v + d - teamSize
    BY <1>1, DissemRing
  <1>3. 2^(r + 1) = 2 * d
    BY <1>1, PowerDoubles
  <1>4. CASE Dissem!Behind(t, u) < d
    BY <1>0, <1>1, <1>4 DEF DissemParts, Dissem!HeardInv
  <1> HIDE DEF d
  <1>5. CASE ~(Dissem!Behind(t, u) < d)
    <2>1. teamSize \in Nat /\ t \in Nat /\ u \in Nat /\ t < teamSize /\ u < teamSize
      BY <1>0 DEF DissemBounds
    <2> DEFINE s == IF d <= t THEN t - d ELSE t + teamSize - d
    <2>2. s \in Members
      BY <1>2, <2>1
    <2>3. Dissem!Partner(s, r) = t
      BY <1>2, <2>1, <2>2
    <2>4. Dissem!Behind(s, u) < d
      <3>1. Dissem!Behind(t, u) < 2 * d
        BY <1>3
      <3> QED
        BY <1>2, <1>5, <2>1, <3>1 DEF Dissem!Behind
    <2> HIDE DEF s
    <2>5. Dissem!Sent(s, r) > left[t]
      BY <1>0, <1>1, <2>2, <2>3 DEF DissemParts, Dissem!FlagInv
    <2>6. left[s] \in Nat /\ left[t] \in Nat /\ entered[u] \in Nat /\ left[s] <= entered[u]
      BY <1>0, <2>2 DEF DissemBounds
    <2>7. CASE Dissem!In(s) /\ r <= round[s]
      <3>1. round[s] \in Nat
        BY <1>0, <2>2 DEF DissemFlags, DissemBounds
      <3>2. d <= 2^round[s] /\ 2^round[s] \in Nat
        BY <1>1, <2>7, <3>1, PowerGrows DEF d
      <3>3. Dissem!Behind(s, u) \in Nat
        BY <2>1, <2>2 DEF Dissem!Behind
      <3>4. Dissem!Behind(s, u) < 2^round[s]
        BY <1>2, <2>4, <3>2, <3>3
      <3>5. left[s] < entered[u]
        BY <1>0, <2>2, <2>7, <3>4 DEF DissemParts, Dissem!HeardInv
      <3>6. Dissem!Sent(s, r) <= left[s] + 1
        BY <2>6 DEF Dissem!Sent
      <3>7. Dissem!Sent(s, r) \in Nat
        BY <2>6 DEF Dissem!Sent
      <3> QED
        BY <2>5, <2>6, <3>5, <3>6, <3>7
    <2>8. CASE ~(Dissem!In(s) /\ r <= round[s])
      <3>1. round[s] \in Nat
        BY <1>0, <2>2 DEF DissemFlags, DissemBounds
      <3>2. Dissem!Sent(s, r) = left[s]
        BY <1>1, <2>8, <3>1 DEF Dissem!Sent
      <3> QED
        BY <2>5, <2>6, <3>2
    <2> QED
      BY <2>7, <2>8
  <1> QED
    BY <1>4, <1>5

\* omp_xbarrier.c:351
LEMMA DissemSpin ==
    ASSUME Dissem!SizesOK, Dissem!IInv, NEW t \in Members, SizesKept, pc[t] = "spin",
           flag[t][round[t]][parity[t]] = sense[t],
           pc' = [pc EXCEPT ![t] = "test"], round' = [round EXCEPT ![t] = @ + 1],
           UNCHANGED <<entered, left, parity, sense, flag>>
    PROVE  DissemParts'
  <1> USE DEF Dissem!Team, Members, SizesKept
  <1> DEFINE r == round[t]
  <1>0. DissemBounds /\ DissemRings /\ DissemFlags /\ DissemParts
    BY DissemFacts
  <1>1. /\ \A u \in Members : u # t => pc'[u] = pc[u] /\ round'[u] = round[u]
        /\ pc'[t] = "test" /\ round'[t] = r + 1 /\ Dissem!In(t)
    BY <1>0 DEF DissemBounds, DissemFlags, Dissem!In
  <1>2. \A u \in Members : (Dissem!In(u))' <=> Dissem!In(u)
    BY <1>1 DEF Dissem!In
  <1>3. /\ info = "built" /\ log2TeamSize \in Nat
        /\ r \in Nat /\ r \in 0..(log2TeamSize - 1)
    BY <1>0, <1>1 DEF DissemBounds, DissemFlags, DissemParts, Dissem!RoundInv
  <1>4. \A u \in Members, k \in Nat : (Dissem!Sent(u, k))' = Dissem!Sent(u, k)
    <2>1. \A u \in Members, k \in Nat : u # t => (Dissem!Sent(u, k))' = Dissem!Sent(u, k)
      BY <1>1, <1>2 DEF Dissem!Sent
    <2>2. \A k \in Nat : (Dissem!Sent(t, k))' = Dissem!Sent(t, k)
      <3>1. \A k \in Nat : k < r + 1 <=> k < r \/ k = r
        BY <1>3
      <3> QED
        BY <1>1, <1>2, <3>1 DEF Dissem!Sent
    <2> QED
      BY <2>1, <2>2
  <1>5. Dissem!TogetherInv' /\ Dissem!CycleInv'
    BY <1>0 DEF DissemParts, Dissem!TogetherInv, Dissem!CycleInv, Dissem!NextSense
  <1>6. Dissem!RoundInv'
    <2>1. round'[t] <= log2TeamSize
      BY <1>1, <1>3
    <2> QED
      BY <1>0, <1>1, <1>2, <2>1 DEF DissemParts, Dissem!RoundInv
  <1>7. Dissem!HeardInv'
    <2> SUFFICES ASSUME NEW u \in Members, NEW v \in Members, Dissem!In(u),
                        Dissem!Behind(u, v) < 2^(round'[u])
                 PROVE  left[u] < entered[v]
      BY <1>2 DEF Dissem!HeardInv, Dissem!Behind
    <2>1. CASE u = t
      BY <1>1, <2>1, DissemHears
    <2>2. CASE u # t
      BY <1>0, <1>1, <2>2 DEF DissemParts, Dissem!HeardInv
    <2> QED
      BY <2>1, <2>2
  <1>8. Dissem!FlagInv'
    <2> SUFFICES ASSUME NEW u \in Members, NEW k \in 0..(log2TeamSize - 1),
                        NEW p, p = Dissem!Partner(u, k)
                 PROVE  /\ Dissem!Sent(u, k) >= left[p]
                        /\ Dissem!In(p) /\ k < round'[p] => Dissem!Sent(u, k) > left[p]
                        /\ flag[p][k][parity[p]] = sense[p] <=> Dissem!Sent(u, k) > left[p]
                        /\ flag[p][k][1 - parity[p]] = Dissem!NextSense(p)
                             <=> Dissem!Sent(u, k) > left[p] + 1
      BY <1>0, <1>2, <1>4 DEF Dissem!FlagInv, DissemRings, Dissem!Partner, Dissem!NextSense
    <2>1. p \in Members /\ k \in Nat
      BY <1>0, <1>3 DEF DissemRings
    <2>2. /\ Dissem!Sent(u, k) >= left[p]
          /\ Dissem!In(p) /\ k < round[p] => Dissem!Sent(u, k) > left[p]
          /\ flag[p][k][parity[p]] = sense[p] <=> Dissem!Sent(u, k) > left[p]
          /\ flag[p][k][1 - parity[p]] = Dissem!NextSense(p)
               <=> Dissem!Sent(u, k) > left[p] + 1
      BY <1>0, <1>3, <2>1 DEF DissemParts, Dissem!FlagInv
    <2>3. CASE p = t /\ k = r
      BY <2>2, <2>3
    <2>4. CASE ~(p = t /\ k = r)
      <3>1. k < round'[p] => k < round[p]
        BY <1>1, <1>3, <2>1, <2>4
      <3> QED
        BY <2>2, <3>1
    <2> QED
      BY <2>3, <2>4
  <1> QED
    BY <1>5, <1>6, <1>7, <1>8 DEF DissemParts

\* After the last round a thread has heard from everybody.
LEMMA DissemAllEntered ==
    ASSUME Dissem!SizesOK, Dissem!IInv, NEW t \in Members, pc[t] = "test",
           round[t] >= log2TeamSize
    PROVE  /\ info = "built" /\ log2TeamSize \in Nat /\ round[t] = log2TeamSize
           /\ \A u \in Members : left[t] < entered[u]
  <1> USE DEF Dissem!Team, Members
  <1>0. DissemBounds /\ DissemRings /\ DissemFlags /\ DissemParts
    BY DissemFacts
  <1>1. /\ info = "built" /\ log2TeamSize \in Nat /\ Dissem!In(t)
        /\ log2TeamSize = Log2(teamSize) /\ teamSize \in Nat
    BY <1>0 DEF DissemBounds, Dissem!In
  <1>2. round[t] = log2TeamSize
    <2>1. round[t] \in Nat
      BY <1>0 DEF DissemFlags, DissemBounds
    <2>2. round[t] <= log2TeamSize
      BY <1>0, <1>1 DEF DissemParts, Dissem!RoundInv
    <2> QED
      BY <1>1, <2>1, <2>2
  <1>3. teamSize <= 2^log2TeamSize /\ 2^log2TeamSize \in Nat
    BY <1>1, Log2Least, PowerIsNat
  <1>4. \A u \in Members : Dissem!Behind(t, u) \in Nat /\ Dissem!Behind(t, u) < teamSize
    BY <1>1 DEF Dissem!Behind
  <1>5. \A u \in Members : Dissem!Behind(t, u) < 2^log2TeamSize
    BY <1>1, <1>3, <1>4
  <1> QED
    BY <1>0, <1>1, <1>2, <1>5 DEF DissemParts, Dissem!HeardInv

\* omp_xbarrier.c:353-360
LEMMA DissemFinish ==
    ASSUME Dissem!SizesOK, Dissem!IInv, NEW t \in Members, SizesKept, pc[t] = "test",
           round[t] >= log2TeamSize,
           sense' = [sense EXCEPT ![t] = IF parity[t] = 1 THEN ~@ ELSE @],
           parity' = [parity EXCEPT ![t] = 1 - @],
           pc' = [pc EXCEPT ![t] = "out"], left' = [left EXCEPT ![t] = @ + 1],
           UNCHANGED <<entered, flag, round>>
    PROVE  DissemParts'
  <1> USE DEF Dissem!Team, Members, SizesKept
  <1>0. DissemBounds /\ DissemRings /\ DissemFlags /\ DissemParts
    BY DissemFacts
  <1>1. /\ \A u \in Members : u # t => /\ pc'[u] = pc[u] /\ left'[u] = left[u]
                                       /\ parity'[u] = parity[u] /\ sense'[u] = sense[u]
        /\ pc'[t] = "out" /\ left'[t] = left[t] + 1 /\ parity'[t] = 1 - parity[t]
        /\ sense'[t] = Dissem!NextSense(t) /\ parity[t] \in {0, 1}
        /\ sense[t] \in BOOLEAN /\ left[t] \in Nat
    BY <1>0 DEF DissemBounds, Dissem!NextSense
  <1>2. /\ info = "built" /\ log2TeamSize \in Nat /\ round[t] = log2TeamSize
        /\ \A u \in Members : left[t] < entered[u]
    BY DissemAllEntered
  <1>3. Dissem!In(t) /\ ~(Dissem!In(t))'
        /\ \A u \in Members : u # t => ((Dissem!In(u))' <=> Dissem!In(u))
    BY <1>1 DEF Dissem!In
  <1>4. (Dissem!NextSense(t))' = ~sense[t]
    BY <1>1 DEF Dissem!NextSense
  <1>5. \A u \in Members : u # t => (Dissem!NextSense(u))' = Dissem!NextSense(u)
    BY <1>1 DEF Dissem!NextSense
  <1>6. \A u \in Members, r \in 0..(log2TeamSize - 1) :
           (Dissem!Sent(u, r))' = Dissem!Sent(u, r)
    BY <1>1, <1>2, <1>3 DEF Dissem!Sent
  <1>7. \A u \in Members : left[u] \in {left[t], left[t] + 1}
    <2> SUFFICES ASSUME NEW u \in Members PROVE left[u] \in {left[t], left[t] + 1}
      OBVIOUS
    <2>1. /\ left[t] < entered[u] /\ entered[u] \in {left[u], left[u] + 1}
          /\ left[u] <= entered[t] /\ entered[t] = left[t] + 1
          /\ left[u] \in Nat /\ left[t] \in Nat
      BY <1>0, <1>2, <1>3 DEF DissemBounds
    <2> QED
      BY <2>1
  <1>8. Dissem!TogetherInv'
    <2> SUFFICES ASSUME NEW u \in Members, NEW v \in Members PROVE left'[u] <= entered[v]
      BY DEF Dissem!TogetherInv
    <2>1. left[u] \in Nat /\ entered[v] \in Nat /\ left[u] <= entered[v] /\ left[t] < entered[v]
      BY <1>0, <1>2 DEF DissemBounds
    <2> QED
      BY <1>1, <2>1
  <1>9. Dissem!RoundInv'
    BY <1>0, <1>1, <1>3 DEF DissemParts, Dissem!RoundInv
  <1>10. Dissem!HeardInv'
    BY <1>0, <1>1, <1>3 DEF DissemParts, Dissem!HeardInv, Dissem!Behind
  <1>11. Dissem!CycleInv'
    <2> SUFFICES ASSUME NEW u \in Members, NEW v \in Members
                 PROVE  /\ left'[u] = left'[v] => parity'[u] = parity'[v] /\ sense'[u] = sense'[v]
                        /\ left'[u] = left'[v] + 1 => /\ parity'[u] = 1 - parity'[v]
                                                      /\ sense'[u] = (Dissem!NextSense(v))'
      BY DEF Dissem!CycleInv
    <2>1. /\ left[u] \in Nat /\ left[v] \in Nat
          /\ parity[u] \in {0, 1} /\ parity[v] \in {0, 1}
      BY <1>0 DEF DissemBounds
    <2>2. /\ left[u] = left[v] => parity[u] = parity[v] /\ sense[u] = sense[v]
          /\ left[u] = left[v] + 1 => /\ parity[u] = 1 - parity[v]
                                      /\ sense[u] = Dissem!NextSense(v)
          /\ left[v] = left[u] => parity[v] = parity[u] /\ sense[v] = sense[u]
          /\ left[v] = left[u] + 1 => /\ parity[v] = 1 - parity[u]
                                      /\ sense[v] = Dissem!NextSense(u)
      BY <1>0 DEF DissemParts, Dissem!CycleInv
    <2>3. CASE u # t /\ v # t
      BY <1>1, <1>5, <2>2, <2>3
    <2>4. CASE u = t /\ v = t
      BY <1>1, <2>4
    <2>5. CASE u = t /\ v # t
      <3>1. left[v] = left[t] => parity[v] = parity[t] /\ Dissem!NextSense(v) = Dissem!NextSense(t)
        BY <2>2, <2>5 DEF Dissem!NextSense
      <3>2. left'[t] = left[t] + 1 /\ left'[v] = left[v]
        BY <1>1, <2>5
      <3>3. CASE left[v] = left[t]
        BY <1>1, <1>5, <2>1, <2>5, <3>1, <3>2, <3>3
      <3>4. CASE left[v] = left[t] + 1
        BY <1>1, <1>5, <2>1, <2>2, <2>5, <3>2, <3>4
      <3> QED
        BY <1>7, <3>3, <3>4
    <2>6. CASE u # t /\ v = t
      <3>1. left'[t] = left[t] + 1 /\ left'[u] = left[u]
        BY <1>1, <2>6
      <3>2. CASE left[u] = left[t]
        BY <1>1, <2>1, <2>6, <3>1, <3>2
      <3>3. CASE left[u] = left[t] + 1
        BY <1>1, <2>1, <2>2, <2>6, <3>1, <3>3
      <3> QED
        BY <1>7, <3>2, <3>3
    <2> QED
      BY <2>3, <2>4, <2>5, <2>6
  <1>12. Dissem!FlagInv'
    <2> SUFFICES ASSUME NEW u \in Members, NEW r \in 0..(log2TeamSize - 1),
                        NEW p, p = Dissem!Partner(u, r)
                 PROVE  /\ Dissem!Sent(u, r) >= left'[p]
                        /\ (Dissem!In(p))' /\ r < round[p] => Dissem!Sent(u, r) > left'[p]
                        /\ flag[p][r][parity'[p]] = sense'[p] <=> Dissem!Sent(u, r) > left'[p]
                        /\ flag[p][r][1 - parity'[p]] = (Dissem!NextSense(p))'
                             <=> Dissem!Sent(u, r) > left'[p] + 1
      BY <1>6, <1>0 DEF Dissem!FlagInv, DissemRings, Dissem!Partner
    <2>1. /\ p \in Members /\ r \in Nat /\ r \in Dissem!Rounds
          /\ left[u] \in Nat /\ left[p] \in Nat
          /\ Dissem!Sent(u, r) \in {left[u], left[u] + 1}
      BY <1>0, <1>2 DEF DissemRings, DissemBounds, Dissem!Sent
    <2>2. /\ Dissem!Sent(u, r) >= left[p]
          /\ Dissem!In(p) /\ r < round[p] => Dissem!Sent(u, r) > left[p]
          /\ flag[p][r][parity[p]] = sense[p] <=> Dissem!Sent(u, r) > left[p]
          /\ flag[p][r][1 - parity[p]] = Dissem!NextSense(p)
               <=> Dissem!Sent(u, r) > left[p] + 1
      BY <1>0, <1>2, <2>1 DEF DissemParts, Dissem!FlagInv
    <2>3. CASE p # t
      BY <1>1, <1>3, <1>5, <2>1, <2>2, <2>3
    <2>4. CASE p = t
      <3>1. Dissem!Sent(u, r) > left[t] /\ flag[t][r][parity[t]] = sense[t]
        BY <1>2, <1>3, <2>1, <2>2, <2>4
      <3>2. 1 - parity'[t] = parity[t]
        BY <1>1
      <3>3. ~(flag[t][r][1 - parity'[t]] = (Dissem!NextSense(t))')
        BY <1>1, <1>4, <3>1, <3>2
      <3>4. left[u] \in {left[t], left[t] + 1}
        BY <1>7
      <3>5. ~(Dissem!Sent(u, r) > left[t] + 2)
        BY <1>1, <2>1, <3>4
      <3>6. flag[t][r][1 - parity[t]] = Dissem!NextSense(t) <=> Dissem!Sent(u, r) > left[t] + 1
        BY <2>2, <2>4
      <3> QED
        BY <1>1, <1>3, <2>1, <2>4, <3>1, <3>3, <3>4, <3>5, <3>6
    <2> QED
      BY <2>3, <2>4
  <1> QED
    BY <1>8, <1>9, <1>10, <1>11, <1>12 DEF DissemParts

\* omp_xbarrier.c:336-338
LEMMA DissemAlone ==
    ASSUME Dissem!SizesOK, Dissem!IInv, NEW t \in Members, SizesKept, teamSize = 1,
           pc[t] = "alone", pc' = [pc EXCEPT ![t] = "out"],
           left' = [left EXCEPT ![t] = @ + 1],
           UNCHANGED <<entered, parity, sense, flag, round>>
    PROVE  DissemParts'
  <1> USE DEF Dissem!Team, SizesKept
  <1>0. DissemBounds /\ DissemRings /\ DissemFlags /\ DissemParts
    BY DissemFacts
  <1>1. Members = {0} /\ t = 0
    BY DEF Members
  <1>2. pc'[0] = "out" /\ left'[0] = left[0] + 1 /\ left[0] \in Nat /\ entered[0] = left[0] + 1
    <2>1. pc'[0] = "out" /\ left'[0] = left[0] + 1 /\ left[0] \in Nat
      BY <1>0, <1>1 DEF DissemBounds
    <2>2. entered[0] = left[0] + 1
      BY <1>0, <1>1 DEF Dissem!IInv, Dissem!InsideInv, Dissem!Thread, DissemBounds, Thread
    <2> QED
      BY <2>1, <2>2
  <1>3. Dissem!TogetherInv' /\ Dissem!CycleInv'
    BY <1>1, <1>2 DEF Dissem!TogetherInv, Dissem!CycleInv, Members
  <1>4. Dissem!RoundInv' /\ Dissem!HeardInv'
    BY <1>1, <1>2 DEF Dissem!RoundInv, Dissem!HeardInv, Dissem!In, Members
  <1>5. Dissem!FlagInv'
    <2>1. info = "built" => 0..(log2TeamSize - 1) = {}
      <3> SUFFICES ASSUME info = "built", NEW r \in 0..(log2TeamSize - 1) PROVE FALSE
        OBVIOUS
      <3> QED
        BY <1>0, <1>1 DEF DissemRings
    <2> QED
      BY <2>1 DEF Dissem!FlagInv
  <1> QED
    BY <1>3, <1>4, <1>5 DEF DissemParts

\* All the members are out and past the same barriers.
LEMMA DissemSame ==
    ASSUME Dissem!SizesOK, Dissem!IInv, SameTeam, UNCHANGED <<flag, round>>,
           info = "built" => log2TeamSize' = log2TeamSize
    PROVE  DissemParts'
  <1> USE DEF Dissem!Team, Members
  <1>0. DissemBounds /\ DissemRings /\ DissemFlags /\ DissemParts
    BY DissemFacts
  <1>1. /\ UNCHANGED <<teamSize, info, builtFor, pc, sense, parity>>
        /\ \A t \in Members : pc[t] = "out" /\ entered[t] = entered[0]
        /\ \/ UNCHANGED <<entered, left>>
           \/ entered' = Zero /\ left' = Zero
    BY DEF SameTeam
  <1>2. \A t \in Members : entered[t] = left[t]
    BY <1>0, <1>1 DEF DissemBounds, Dissem!IInv, Dissem!InsideInv, Dissem!Thread, Thread
  <1>3. \A t, u \in Members : /\ left[t] = left[u] /\ left'[t] = left'[u]
                              /\ left'[t] = entered'[u] /\ left'[t] \in Nat
                              /\ left[t] \in Nat
    BY <1>0, <1>1, <1>2 DEF DissemBounds, Zero
  <1>4. \A t \in Members : ~Dissem!In(t) /\ ~(Dissem!In(t))'
    BY <1>1 DEF Dissem!In
  <1>5. Dissem!TogetherInv' /\ Dissem!RoundInv' /\ Dissem!HeardInv'
    BY <1>1, <1>3, <1>4
       DEF Dissem!TogetherInv, Dissem!RoundInv, Dissem!HeardInv, Dissem!In
  <1>6. Dissem!CycleInv'
    BY <1>0, <1>1, <1>3 DEF DissemParts, Dissem!CycleInv
  <1>7. Dissem!FlagInv'
    <2> SUFFICES ASSUME info = "built", NEW u \in Members, NEW r \in 0..(log2TeamSize - 1),
                        NEW p, p = Dissem!Partner(u, r)
                 PROVE  /\ left'[u] >= left'[p]
                        /\ ~(flag[p][r][parity[p]] = sense[p]) /\ ~(left'[u] > left'[p])
                        /\ ~(flag[p][r][1 - parity[p]] = Dissem!NextSense(p))
                        /\ ~(left'[u] > left'[p] + 1)
      BY <1>0, <1>1, <1>4 DEF Dissem!FlagInv, DissemRings, Dissem!Partner, Dissem!NextSense,
         Dissem!Sent
    <2>1. p \in Members
      BY <1>0 DEF DissemRings
    <2>2. Dissem!Sent(u, r) = left[u]
      BY <1>4 DEF Dissem!Sent
    <2> QED
      BY <1>0, <1>3, <2>1, <2>2 DEF DissemParts, Dissem!FlagInv
  <1> QED
    BY <1>5, <1>6, <1>7 DEF DissemParts

\* A node is built for every member; the first barrier of all is alike.
DissemFresh ==
    /\ teamSize \in 1..MaxThreads /\ MaxThreads \in Nat /\ left = Zero /\ entered = Zero
    /\ TeamInv("dissem", TRUE)
    /\ \A t \in Members : /\ pc[t] = "out" /\ sense[t] = TRUE /\ parity[t] = 0
                          /\ info = "built" => flag[t] = Dissem!Cleared

LEMMA DissemFreshInv == DissemFresh => DissemParts
  <1> SUFFICES ASSUME DissemFresh PROVE DissemParts
    OBVIOUS
  <1> USE DEF Dissem!Team, Members
  <1>1. /\ teamSize \in Nat /\ MaxThreads \in Nat /\ teamSize <= MaxThreads
        /\ \A t \in Members : /\ pc[t] = "out" /\ sense[t] = TRUE /\ parity[t] = 0
                              /\ info = "built" => flag[t] = Dissem!Cleared
    BY DEF DissemFresh
  <1>2. \A t \in Members : t \in Thread /\ left[t] = 0 /\ entered[t] = 0 /\ ~Dissem!In(t)
    BY <1>1 DEF DissemFresh, Zero, Thread, Dissem!In
  <1>3. Dissem!TogetherInv /\ Dissem!RoundInv /\ Dissem!HeardInv
    BY <1>1, <1>2 DEF Dissem!TogetherInv, Dissem!RoundInv, Dissem!HeardInv
  <1>4. Dissem!CycleInv
    <2>1. \A t, u \in Members : sense[t] = sense[u] /\ parity[t] = parity[u]
      BY <1>1
    <2>2. \A t, u \in Members : left[t] # left[u] + 1
      BY <1>2
    <2> QED
      BY <2>1, <2>2 DEF Dissem!CycleInv
  <1>5. Dissem!FlagInv
    <2> SUFFICES ASSUME info = "built", NEW u \in Members, NEW r \in 0..(log2TeamSize - 1),
                        NEW p, p = Dissem!Partner(u, r)
                 PROVE  /\ Dissem!Sent(u, r) >= left[p]
                        /\ ~(Dissem!In(p) /\ r < round[p])
                        /\ ~(flag[p][r][parity[p]] = sense[p])
                        /\ ~(flag[p][r][1 - parity[p]] = Dissem!NextSense(p))
                        /\ ~(Dissem!Sent(u, r) > left[p])
                        /\ ~(Dissem!Sent(u, r) > left[p] + 1)
      BY DEF Dissem!FlagInv
    <2>1. /\ log2TeamSize = Log2(teamSize)
          /\ \A t \in Members : builtFor[t] = teamSize
      BY DEF DissemFresh, TeamInv, XB!BuiltInv, XB!Log2, Log2, XB!Team
    <2>2. r \in Nat /\ r \in Dissem!Rounds
      <3>1. Dissem!Rounds = 0..Log2(MaxThreads)
        BY DEF Dissem!Rounds, Dissem!Log2, Log2
      <3>2. Log2(teamSize) \in Nat /\ Log2(MaxThreads) \in Nat
        BY <1>1, Log2Least
      <3>3. Log2(teamSize) <= Log2(MaxThreads)
        BY <1>1, Log2Grows
      <3> QED
        BY <2>1, <3>1, <3>2, <3>3
    <2>3. p \in Members
      <3>1. p = (u + 2^r) % teamSize
        BY <2>1 DEF Dissem!Partner
      <3>2. 2^r \in Nat
        BY <2>2, PowerIsNat
      <3> DEFINE x == u + 2^r
      <3>3. x \in Nat /\ teamSize \in Nat \ {0}
        BY <1>1, <3>2
      <3> HIDE DEF x
      <3>4. x % teamSize \in 0..(teamSize - 1)
        BY <3>3
      <3> QED
        BY <3>1, <3>4 DEF x
    <2>4. Dissem!Sent(u, r) = 0 /\ left[p] = 0
      BY <1>2, <2>3 DEF Dissem!Sent
    <2>5. flag[p][r][0] = FALSE /\ flag[p][r][1] = FALSE
      BY <1>1, <2>2, <2>3 DEF Dissem!Cleared
    <2>6. sense[p] = TRUE /\ Dissem!NextSense(p) = TRUE /\ parity[p] = 0
      BY <1>1, <2>3 DEF Dissem!NextSense
    <2>7. flag[p][r][parity[p]] = FALSE /\ flag[p][r][1 - parity[p]] = FALSE
      BY <2>5, <2>6
    <2>8. /\ ~(flag[p][r][parity[p]] = sense[p])
          /\ ~(flag[p][r][1 - parity[p]] = Dissem!NextSense(p))
      BY <2>6, <2>7, TRUE # FALSE, Zenon
    <2> QED
      BY <1>2, <2>3, <2>4, <2>8
  <1> QED
    BY <1>3, <1>4, <1>5 DEF DissemParts

LEMMA DissemFreshAgain == DissemFresh' => DissemParts'
  BY DissemFreshInv, PTL

LEMMA DissemInitInv == Dissem!SizesOK /\ Dissem!Init => Dissem!IInv
  <1> SUFFICES ASSUME Dissem!SizesOK, Dissem!Init PROVE Dissem!IInv
    OBVIOUS
  <1>1. XB("dissem", TRUE)!SizesOK /\ XB("dissem", TRUE)!TeamInit
    BY DEF Dissem!SizesOK, XB!SizesOK, Dissem!Init, Dissem!TeamInit, XB!TeamInit,
           Dissem!Thread, XB!Thread, Dissem!Zero, XB!Zero, Dissem!Log2, XB!Log2,
           Dissem!Built, XB!Built
  <1>2. /\ TeamInv("dissem", TRUE) /\ teamSize \in 1..MaxThreads
        /\ left = Zero /\ entered = Zero /\ parity = Zero
        /\ sense = [t \in Thread |-> TRUE] /\ pc = [t \in Thread |-> "out"]
    BY <1>1, TeamStarts
  <1>3. /\ flag = [t \in Thread |-> Dissem!Cleared] /\ round = Zero /\ MaxThreads \in Nat
    BY DEF Dissem!Init, Dissem!SizesOK, Dissem!Thread, Thread, Dissem!Zero, Zero
  <1>4. DissemFlags
    BY <1>3 DEF DissemFlags, Dissem!Cleared, Zero
  <1>5. DissemFresh
    <2>1. Members \subseteq Thread
      BY <1>2, <1>3 DEF Members, Thread
    <2>2. \A t \in Members : pc[t] = "out" /\ parity[t] = 0 /\ flag[t] = Dissem!Cleared
      BY <1>2, <1>3, <2>1 DEF Zero
    <2>3. \A t \in Members : sense[t] = TRUE
      BY <1>2, <2>1
    <2> QED
      BY <1>2, <1>3, <2>2, <2>3 DEF DissemFresh
  <1> QED
    BY <1>2, <1>4, <1>5, DissemFreshInv, DissemSplit

\* Every step keeps the invariant, in a program whose forks all rebuild what
\* they resize.
LEMMA DissemStepInv ==
    Dissem!SizesOK /\ Dissem!NeverStale /\ Dissem!IInv /\ [Dissem!Next]_(Dissem!vars)
        => Dissem!IInv'
  <1> SUFFICES ASSUME Dissem!SizesOK, Dissem!NeverStale, Dissem!IInv,
                      [Dissem!Next]_(Dissem!vars)
               PROVE  Dissem!IInv'
    OBVIOUS
  <1>0. /\ XB("dissem", TRUE)!SizesOK /\ XB("dissem", TRUE)!NeverStale
        /\ TeamInv("dissem", TRUE) /\ DissemFlags /\ DissemParts
        /\ MaxThreads \in Nat /\ Dissem!Thread = Thread
    BY DissemIsXB, DissemSplit DEF Dissem!SizesOK, Dissem!Thread, Thread
  <1>1. \A t \in Thread : pc[t] \notin {"out", "alone"} => t \in Members /\ info = "built"
    BY <1>0 DEF TeamInv, XB!BuiltInv, XB!InsideInv, XB!Thread, XB!Team, Thread, Members
  <1>2. ASSUME NEW t \in Thread, Dissem!Enter(t) PROVE Dissem!IInv'
    <2>1. /\ XB("dissem", TRUE)!Call(t, "test")
          /\ "test" \in XB("dissem", TRUE)!Label /\ "test" \notin {"out", "alone"}
      BY <1>2, DissemIsXB DEF Dissem!Enter, XB!Label
    <2>2. TeamInv("dissem", TRUE)' /\ Called(t, "test")
      BY <1>0, <2>1, CallTeam, Zenon
    <2>3. round' = [round EXCEPT ![t] = 0] /\ UNCHANGED flag
      BY <1>2 DEF Dissem!Enter
    <2>4. DissemParts'
      BY <2>2, <2>3, DissemEnter DEF Called
    <2>5. DissemFlags'
      BY <1>0, <2>3 DEF DissemFlags
    <2> QED
      BY <2>2, <2>4, <2>5, DissemSplit
  <1>3. ASSUME NEW t \in Thread, Dissem!Test(t) PROVE Dissem!IInv'
    <2>1. /\ XB("dissem", TRUE)!Inside(t, "signal") /\ "signal" \in XB("dissem", TRUE)!Label
          /\ "signal" \notin {"out", "alone"} /\ pc[t] \notin {"out", "alone"}
      BY <1>3, DissemIsXB DEF Dissem!Test, XB!Label
    <2>2. /\ TeamInv("dissem", TRUE)' /\ SizesKept /\ t \in Members
          /\ pc' = [pc EXCEPT ![t] = "signal"] /\ UNCHANGED <<entered, left, parity, sense>>
      BY <1>0, <2>1, InsideTeam, Zenon
    <2>3. pc[t] = "test" /\ round[t] < log2TeamSize /\ UNCHANGED <<flag, round>>
      BY <1>3 DEF Dissem!Test, Dissem!dissemVars
    <2>4. DissemParts'
      BY <2>2, <2>3, DissemTest
    <2> QED
      BY <1>0, <2>2, <2>3, <2>4, DissemSplit DEF DissemFlags
  <1>4. ASSUME NEW t \in Thread, Dissem!Signal(t) PROVE Dissem!IInv'
    <2>1. pc[t] = "signal" /\ info = "built" /\ t \in Members
      BY <1>1, <1>4 DEF Dissem!Signal
    <2>2. /\ Dissem!Goto(t, "spin")
          /\ flag' = [flag EXCEPT
                 ![Dissem!Partner(t, round[t])][round[t]][parity[t]] = sense[t]]
          /\ UNCHANGED <<teamSize, log2TeamSize, allocSize, nthreadsVar, info, builtFor,
                         parity, sense, inRegion, entered, left, round>>
      BY <1>4, <2>1 DEF Dissem!Signal, Dissem!localVars, Dissem!countVars
    <2>3. /\ XB("dissem", TRUE)!Inside(t, "spin") /\ "spin" \in XB("dissem", TRUE)!Label
          /\ "spin" \notin {"out", "alone"} /\ pc[t] \notin {"out", "alone"}
      BY <2>1, <2>2 DEF XB!Inside, XB!Goto, Dissem!Goto, XB!Label, XB!sizeVars, XB!localVars,
                        XB!countVars
    <2>4. /\ TeamInv("dissem", TRUE)' /\ SizesKept
          /\ pc' = [pc EXCEPT ![t] = "spin"] /\ UNCHANGED <<entered, left, parity, sense>>
      BY <1>0, <2>3, InsideTeam, Zenon
    <2>5. DissemParts'
      BY <2>1, <2>2, <2>4, DissemSignal
    <2>6. DissemFlags'
      <3> DEFINE p == Dissem!Partner(t, round[t])
      <3>1. sense[t] \in BOOLEAN
        BY <1>0 DEF TeamInv, XB!TypeOK, XB!Thread, Thread
      <3>2. flag' = [flag EXCEPT ![p][round[t]][parity[t]] = sense[t]]
        BY <2>2
      <3> HIDE DEF p
      <3>3. flag' \in [Thread -> [Dissem!Rounds -> [{0, 1} -> BOOLEAN]]]
        BY <1>0, <3>1, <3>2 DEF DissemFlags
      <3> QED
        BY <1>0, <2>2, <3>3 DEF DissemFlags
    <2> QED
      BY <2>4, <2>5, <2>6, DissemSplit
  <1>5. ASSUME NEW t \in Thread, Dissem!Spin(t) PROVE Dissem!IInv'
    <2>1. /\ XB("dissem", TRUE)!Inside(t, "test") /\ "test" \in XB("dissem", TRUE)!Label
          /\ "test" \notin {"out", "alone"} /\ pc[t] \notin {"out", "alone"}
      BY <1>5, DissemIsXB DEF Dissem!Spin, XB!Label
    <2>2. /\ TeamInv("dissem", TRUE)' /\ SizesKept /\ t \in Members
          /\ pc' = [pc EXCEPT ![t] = "test"] /\ UNCHANGED <<entered, left, parity, sense>>
      BY <1>0, <2>1, InsideTeam, Zenon
    <2>3. /\ pc[t] = "spin" /\ flag[t][round[t]][parity[t]] = sense[t]
          /\ round' = [round EXCEPT ![t] = @ + 1] /\ UNCHANGED flag
      BY <1>5 DEF Dissem!Spin
    <2>4. DissemParts'
      BY <2>2, <2>3, DissemSpin
    <2>5. DissemFlags'
      BY <1>0, <2>3 DEF DissemFlags
    <2> QED
      BY <2>2, <2>4, <2>5, DissemSplit
  <1>6. ASSUME NEW t \in Thread, Dissem!Finish(t) PROVE Dissem!IInv'
    <2>1. /\ pc[t] = "test" /\ round[t] >= log2TeamSize /\ XB("dissem", TRUE)!Leave(t)
          /\ sense' = [sense EXCEPT ![t] = IF parity[t] = 1 THEN ~@ ELSE @]
          /\ parity' = [parity EXCEPT ![t] = 1 - @]
          /\ SizesKept /\ UNCHANGED <<entered, flag, round>>
      BY <1>6, DissemIsXB DEF Dissem!Finish, Dissem!sizeVars, Dissem!dissemVars, SizesKept
    <2>2. t \in Members
      BY <1>1, <2>1
    <2>3. parity' \in [Thread -> {0, 1}]
      BY <1>0, <2>1 DEF TeamInv, XB!TypeOK, XB!Thread, Thread
    <2>4. sense' \in [Thread -> BOOLEAN]
      BY <1>0, <2>1 DEF TeamInv, XB!TypeOK, XB!Thread, Thread
    <2>5. /\ TeamInv("dissem", TRUE)'
          /\ pc' = [pc EXCEPT ![t] = "out"] /\ left' = [left EXCEPT ![t] = @ + 1]
      BY <1>0, <2>1, <2>3, <2>4, LeaveTeam
    <2>6. DissemParts'
      BY <2>1, <2>2, <2>5, DissemFinish
    <2> QED
      BY <1>0, <2>1, <2>5, <2>6, DissemSplit DEF DissemFlags
  <1>7. ASSUME NEW t \in Thread, Dissem!ReturnAlone(t), UNCHANGED Dissem!dissemVars
        PROVE  Dissem!IInv'
    <2>1. /\ pc[t] = "alone" /\ XB("dissem", TRUE)!Leave(t)
          /\ SizesKept /\ UNCHANGED <<entered, parity, sense, flag, round>>
      BY <1>7, DissemIsXB DEF Dissem!ReturnAlone, Dissem!sizeVars, Dissem!localVars,
         Dissem!dissemVars, SizesKept
    <2>2. /\ parity' \in [Thread -> {0, 1}] /\ sense' \in [Thread -> BOOLEAN]
          /\ teamSize = 1 /\ t \in Members
      BY <1>0, <2>1 DEF TeamInv, XB!TypeOK, XB!InsideInv, XB!Thread, XB!Team, Thread, Members
    <2>3. /\ TeamInv("dissem", TRUE)'
          /\ pc' = [pc EXCEPT ![t] = "out"] /\ left' = [left EXCEPT ![t] = @ + 1]
      BY <1>0, <2>1, <2>2, LeaveTeam
    <2>4. DissemParts'
      BY <2>1, <2>2, <2>3, DissemAlone
    <2> QED
      BY <1>0, <2>1, <2>3, <2>4, DissemSplit DEF DissemFlags
  <1>8. CASE Dissem!KeepInfo /\ UNCHANGED Dissem!dissemVars
    <2>1. TeamInv("dissem", TRUE)' /\ SameTeam
      BY <1>0, <1>8, DissemIsXB, KeepTeam
    <2>2. UNCHANGED <<flag, round>>
      BY <1>8 DEF Dissem!dissemVars
    <2>3. info = "built" => log2TeamSize' = log2TeamSize
      BY <1>0, <2>1 DEF TeamInv, XB!BuiltInv, SameTeam, XB!Log2
    <2>4. DissemParts'
      BY <2>1, <2>2, <2>3, DissemSame
    <2> QED
      BY <1>0, <2>1, <2>2, <2>4, DissemSplit DEF DissemFlags
  <1>9. ASSUME NEW n \in 1..MaxThreads, Dissem!Rebuild(n) PROVE Dissem!IInv'
    <2>1. TeamInv("dissem", TRUE)' /\ NewTeam(n)
      BY <1>0, <1>9, DissemIsXB, RebuildTeam DEF Dissem!Rebuild
    <2>2. /\ flag' = [t \in Thread |-> IF t < n /\ info' = "built" THEN Dissem!Cleared
                                       ELSE flag[t]]
          /\ UNCHANGED round
      BY <1>0, <1>9 DEF Dissem!Rebuild
    <2>3. DissemFlags'
      <3>1. Dissem!Cleared \in [Dissem!Rounds -> [{0, 1} -> BOOLEAN]]
        BY DEF Dissem!Cleared
      <3> QED
        BY <1>0, <2>2, <3>1 DEF DissemFlags
    <2>4. n \in Nat /\ \A t \in 0..(n - 1) : t \in Thread /\ t < n
      BY <1>0 DEF Thread
    <2>5. \A t \in 0..(n - 1) : info' = "built" => flag'[t] = Dissem!Cleared
      BY <2>2, <2>4
    <2>6. DissemFresh'
      BY <1>0, <2>1, <2>4, <2>5 DEF NewTeam, DissemFresh, Members, Zero
    <2> QED
      BY <2>1, <2>3, <2>6, DissemFreshAgain, DissemSplit
  <1>10. CASE UNCHANGED Dissem!vars
    <2>1. UNCHANGED <<teamSize, log2TeamSize, allocSize, nthreadsVar, info, builtFor, parity,
                      sense, inRegion, entered, left, pc, flag, round>>
      BY <1>10 DEF Dissem!vars, Dissem!teamVars, Dissem!sizeVars, Dissem!localVars,
         Dissem!countVars, Dissem!dissemVars
    <2>2. DissemParts'
      BY <1>0, <2>1 DEF DissemParts, Dissem!TogetherInv, Dissem!RoundInv, Dissem!HeardInv,
         Dissem!CycleInv, Dissem!FlagInv, Dissem!Team, Dissem!In, Dissem!Behind,
         Dissem!NextSense, Dissem!Sent, Dissem!Partner
    <2>3. TeamInv("dissem", TRUE)' /\ DissemFlags'
      BY <1>0, <2>1 DEF TeamInv, XB!TypeOK, XB!BuiltInv, XB!InsideInv, XB!Team, DissemFlags
    <2> QED
      BY <2>2, <2>3, DissemSplit
  <1>11. \A t \in Thread : t + 1 \in 1..MaxThreads
    BY <1>0 DEF Thread
  <1> QED
    BY <1>0, <1>2, <1>3, <1>4, <1>5, <1>6, <1>7, <1>8, <1>9, <1>10, <1>11
       DEF Dissem!Next, Dissem!Fork, Dissem!Wait

LEMMA DissemInitRefines == Dissem!SizesOK /\ Dissem!Init => TB!Init
  BY TeamStartRefines
     DEF Dissem!SizesOK, Dissem!Init, Dissem!TeamInit, Dissem!Zero, Zero, Dissem!Thread,
         Thread

\* Every step of the barrier is one of TeamBarrier or changes nothing there.
LEMMA DissemStepRefines ==
    Dissem!SizesOK /\ Dissem!NeverStale /\ Dissem!IInv /\ [Dissem!Next]_(Dissem!vars)
        => [TB!Next]_(TB!vars)
  <1> SUFFICES ASSUME Dissem!SizesOK, Dissem!NeverStale, Dissem!IInv,
                      [Dissem!Next]_(Dissem!vars)
               PROVE  [TB!Next]_(TB!vars)
    OBVIOUS
  <1>0. /\ XB("dissem", TRUE)!SizesOK /\ XB("dissem", TRUE)!NeverStale
        /\ TeamInv("dissem", TRUE) /\ DissemBounds
        /\ MaxThreads \in Nat /\ Dissem!Thread = Thread
    BY DissemIsXB, DissemFacts, DissemSplit DEF Dissem!SizesOK, Dissem!Thread, Thread
  <1>1. \A u \in Thread : /\ pc[u] # "out" => u \in Members /\ entered[u] = left[u] + 1
                          /\ pc[u] = "alone" => teamSize = 1
    BY <1>0 DEF TeamInv, XB!InsideInv, XB!Thread, XB!Team, Thread, Members
  <1>2. ASSUME NEW t \in Thread, Dissem!Enter(t) PROVE TB!Enter(t)
    BY <1>0, <1>2, DissemIsXB, CallRefines DEF Dissem!Enter
  <1>3. ASSUME NEW t \in Thread, Dissem!Test(t) \/ Dissem!Signal(t) \/ Dissem!Spin(t)
        PROVE  UNCHANGED TB!vars
    BY <1>3 DEF Dissem!Test, Dissem!Signal, Dissem!Spin, Dissem!Inside, Dissem!sizeVars,
       Dissem!countVars, TB!vars
  <1>4. ASSUME NEW t \in Thread, Dissem!Finish(t) PROVE TB!Leave(t)
    <2>1. /\ pc[t] = "test" /\ left' = [left EXCEPT ![t] = @ + 1]
          /\ round[t] >= log2TeamSize /\ UNCHANGED <<teamSize, entered>>
      BY <1>4 DEF Dissem!Finish, Dissem!Leave, Dissem!sizeVars
    <2>2. t \in Members
      BY <1>1, <2>1
    <2>3. \A u \in Members : left[t] < entered[u]
      BY <2>1, <2>2, DissemAllEntered
    <2>4. \A u \in Members : entered[u] > left[t]
      BY <1>0, <2>2, <2>3 DEF DissemBounds
    <2> QED
      BY <1>0, <2>1, <2>4, LeaveRefines
  <1>5. ASSUME NEW t \in Thread, Dissem!ReturnAlone(t) PROVE TB!Leave(t)
    <2>1. /\ pc[t] = "alone" /\ left' = [left EXCEPT ![t] = @ + 1]
          /\ UNCHANGED <<teamSize, entered>>
      BY <1>5 DEF Dissem!ReturnAlone, Dissem!Leave, Dissem!sizeVars
    <2>2. \A u \in Members : u = t
      BY <1>1, <2>1 DEF Members
    <2>3. entered[t] > left[t]
      BY <1>0, <1>1, <2>1 DEF DissemBounds
    <2> QED
      BY <1>0, <2>1, <2>2, <2>3, LeaveRefines
  <1>6. CASE Dissem!KeepInfo
    BY <1>0, <1>6, DissemIsXB, KeepTeam, SameTeamRefines
  <1>7. ASSUME NEW n \in 1..MaxThreads, Dissem!Rebuild(n) PROVE TB!Next
    BY <1>0, <1>7, DissemIsXB, RebuildTeam, NewTeamRefines DEF Dissem!Rebuild
  <1>8. CASE UNCHANGED Dissem!vars
    BY <1>8 DEF Dissem!vars, Dissem!teamVars, Dissem!sizeVars, Dissem!countVars, TB!vars
  <1>9. \A t \in Thread : t + 1 \in 1..MaxThreads
    BY <1>0 DEF Thread
  <1> QED
    BY <1>0, <1>2, <1>3, <1>4, <1>5, <1>6, <1>7, <1>8, <1>9
       DEF Dissem!Next, Dissem!Fork, Dissem!Wait, TB!Next, Thread

-----------------------------------------------------------------------------
(* TOUR *)

\* A multiple of a power of two is one of every smaller power.
LEMMA PowerDivides ==
    ASSUME NEW x \in Nat, NEW j \in Nat, NEW m \in Nat, j <= m, x % 2^m = 0
    PROVE  x % 2^j = 0
  <1> DEFINE S == {i \in Nat : i <= m /\ x % 2^(m - i) # 0}
  <1>1. S = {}
    <2> SUFFICES ASSUME S # {} PROVE FALSE
      OBVIOUS
    <2>1. PICK i \in S : \A h \in S : i <= h
      BY Least
    <2>2. i # 0
      <3>1. m - 0 = m
        OBVIOUS
      <3> QED
        BY <2>1, <3>1
    <2>3. i - 1 \in Nat /\ i - 1 \notin S /\ i - 1 <= m
      <3>1. i \in Nat /\ i <= m
        BY <2>1
      <3> HIDE DEF S
      <3>2. i - 1 \notin S
        BY <2>1, <3>1
      <3> QED
        BY <2>2, <3>1, <3>2
    <2>4. x % 2^(m - (i - 1)) = 0
      BY <2>3
    <2> DEFINE h == m - i
    <2>5. h \in Nat /\ m - (i - 1) = h + 1
      BY <2>1
    <2>6. 2^(h + 1) = 2 * 2^h /\ 2^h \in Nat /\ 2^h > 0
      BY <2>5, PowerDoubles, PowerGrows
    <2>7. x % (2 * 2^h) = 0
      BY <2>4, <2>5, <2>6
    <2>8. x % 2^h = 0
      BY <2>6, <2>7, ModDouble
    <2> QED
      BY <2>1, <2>8
  <1>2. m - j \in Nat /\ m - j <= m /\ m - (m - j) = j
    OBVIOUS
  <1>3. x % 2^(m - (m - j)) = 0
    BY <1>1, <1>2
  <1> QED
    BY <1>2, <1>3

\* A thread loses in one round only.
LEMMA LosesOnce ==
    ASSUME NEW x \in Nat, NEW j \in Nat, NEW m \in Nat,
           x % 2^(j + 1) = 2^j, x % 2^(m + 1) = 2^m
    PROVE  j = m
  <1>1. ASSUME NEW a \in Nat, NEW b \in Nat, a < b,
               x % 2^(a + 1) = 2^a, x % 2^(b + 1) = 2^b
        PROVE  FALSE
    <2>1. 2^(b + 1) = 2 * 2^b /\ 2^b \in Nat /\ 2^b > 0 /\ 2^a > 0 /\ 2^a \in Nat
      BY PowerDoubles, PowerGrows
    <2>2. x % 2^b = 0
      BY <1>1, <2>1, ModDouble
    <2>3. x % 2^(a + 1) = 0
      BY <1>1, <2>2, PowerDivides, a + 1 \in Nat, a + 1 <= b
    <2> QED
      BY <1>1, <2>1, <2>3
  <1> QED
    BY <1>1

\* TOUR's operations are the team's.
LEMMA TourIsXB ==
    ASSUME NEW k
    PROVE  /\ Tour(k)!SizesOK <=> XB(k, TRUE)!SizesOK
           /\ Tour(k)!NeverStale <=> XB(k, TRUE)!NeverStale
           /\ Tour(k)!KeepInfo => XB(k, TRUE)!KeepInfo
           /\ \A n : Tour(k)!RebuildInfo(n) => XB(k, TRUE)!RebuildInfo(n)
           /\ \A t, label : Tour(k)!Call(t, label) => XB(k, TRUE)!Call(t, label)
           /\ \A t, label : Tour(k)!Inside(t, label) => XB(k, TRUE)!Inside(t, label)
           /\ \A t : Tour(k)!Leave(t) => XB(k, TRUE)!Leave(t)
           /\ Tour(k)!Label = XB(k, TRUE)!Label
  <1> USE DEF Tour!Thread, XB!Thread, Tour!Team, XB!Team, Tour!Log2, XB!Log2,
              Tour!Built, XB!Built, Tour!Zero, XB!Zero, Tour!sizeVars, XB!sizeVars,
              Tour!localVars, XB!localVars, Tour!countVars, XB!countVars,
              Tour!Joined, XB!Joined, Tour!Begin, XB!Begin, Tour!Goto, XB!Goto
  <1>1. /\ Tour(k)!SizesOK <=> XB(k, TRUE)!SizesOK
        /\ Tour(k)!NeverStale <=> XB(k, TRUE)!NeverStale
        /\ Tour(k)!Label = XB(k, TRUE)!Label
    BY DEF Tour!SizesOK, XB!SizesOK, Tour!NeverStale, XB!NeverStale, Tour!Label,
           XB!Label
  <1>2. Tour(k)!KeepInfo => XB(k, TRUE)!KeepInfo
    BY DEF Tour!KeepInfo, XB!KeepInfo, Tour!ForkDefault, XB!ForkDefault,
           Tour!ForkSame, XB!ForkSame, Tour!SetNumThreads, XB!SetNumThreads
  <1>3. \A n : Tour(k)!RebuildInfo(n) => XB(k, TRUE)!RebuildInfo(n)
    BY DEF Tour!RebuildInfo, XB!RebuildInfo, Tour!ForkResize, XB!ForkResize,
           Tour!Expand, XB!Expand, Tour!ForkExpand, XB!ForkExpand,
           Tour!SetMoreThreads, XB!SetMoreThreads, Tour!ResetLocals, XB!ResetLocals
  <1>4. /\ \A t, label : Tour(k)!Call(t, label) => XB(k, TRUE)!Call(t, label)
        /\ \A t, label : Tour(k)!Inside(t, label) => XB(k, TRUE)!Inside(t, label)
        /\ \A t : Tour(k)!Leave(t) => XB(k, TRUE)!Leave(t)
    BY DEF Tour!Call, XB!Call, Tour!Inside, XB!Inside, Tour!Leave, XB!Leave
  <1> QED
    BY <1>1, <1>2, <1>3, <1>4

TourFlags(k) == /\ flag \in [Thread -> [Tour(k)!Rounds -> BOOLEAN]]
                /\ championSense \in BOOLEAN /\ round \in [Thread -> Nat]
TourParts(k) == /\ Tour(k)!TogetherInv /\ Tour(k)!PlaceInv /\ Tour(k)!HeardInv
                /\ Tour(k)!ChampionInv /\ Tour(k)!SenseInv /\ Tour(k)!FlagInv

LEMMA TourSplit ==
    ASSUME NEW k
    PROVE  /\ Tour(k)!IInv <=> /\ TeamInv(k, TRUE) /\ TourFlags(k) /\ Tour(k)!FirstInv
                               /\ TourParts(k)
           /\ Tour(k)!IInv' <=> /\ TeamInv(k, TRUE)' /\ TourFlags(k)' /\ Tour(k)!FirstInv'
                                /\ TourParts(k)'
  <1>1. /\ (Tour(k)!TypeOK /\ Tour(k)!BuiltInv /\ Tour(k)!InsideInv) <=> TeamInv(k, TRUE)
        /\ (Tour(k)!TypeOK /\ Tour(k)!BuiltInv /\ Tour(k)!InsideInv)' <=> TeamInv(k, TRUE)'
    BY DEF TeamInv, Tour!TypeOK, Tour!BuiltInv, Tour!InsideInv, Tour!Thread, Tour!Team,
           Tour!Label, Tour!Log2, XB!TypeOK, XB!BuiltInv, XB!InsideInv, XB!Thread, XB!Team,
           XB!Label, XB!Log2
  <1> QED
    BY <1>1 DEF Tour!IInv, Tour!TourTypeOK, TourFlags, TourParts, Tour!Thread, Thread

\* the types, and how far the members can be apart: the champion leaves first
TourBounds(k) ==
    /\ teamSize \in Nat /\ Members \subseteq Thread /\ 0 \in Members
    /\ info = "built" => /\ log2TeamSize \in Nat /\ log2TeamSize = Log2(teamSize)
                         /\ teamSize <= 2^log2TeamSize
    /\ pc \in [Thread -> Tour(k)!Label] /\ left \in [Thread -> Nat]
    /\ entered \in [Thread -> Nat] /\ sense \in [Thread -> BOOLEAN]
    /\ \A t, u \in Members : left[t] <= entered[u]
    /\ \A t \in Members : /\ t \in Nat /\ t < teamSize
                          /\ entered[t] \in {left[t], left[t] + 1}
                          /\ left[0] \in {left[t], left[t] + 1}
                          /\ pc[t] = "out" => entered[t] = left[t]
                          /\ pc[t] # "out" => entered[t] = left[t] + 1
                          /\ Tour(k)!In(t) => info = "built" /\ builtFor[t] = teamSize

LEMMA TourBounded ==
    ASSUME NEW k, Tour(k)!SizesOK, Tour(k)!IInv
    PROVE  TourBounds(k)
  <1>1. /\ pc \in [Thread -> Tour(k)!Label] /\ left \in [Thread -> Nat]
        /\ entered \in [Thread -> Nat] /\ sense \in [Thread -> BOOLEAN]
        /\ teamSize \in 1..MaxThreads /\ MaxThreads \in Nat
    BY DEF Tour!SizesOK, Tour!IInv, Tour!TourTypeOK, Tour!TypeOK, Tour!Thread, Thread
  <1>2. /\ teamSize \in Nat /\ Members \subseteq Thread /\ 0 \in Members
        /\ \A t \in Members : t \in Nat /\ t < teamSize
    BY <1>1 DEF Members, Thread
  <1>3. \A t, u \in Members : left[t] <= entered[u]
    BY DEF Tour!IInv, Tour!TogetherInv, Tour!Team, Members
  <1>4. \A t \in Members : /\ entered[t] = IF pc[t] = "out" THEN left[t] ELSE left[t] + 1
                           /\ pc[t] \notin {"out", "alone"} => info = "built"
                           /\ info = "built" => builtFor[t] = teamSize
    BY <1>2 DEF Tour!IInv, Tour!InsideInv, Tour!BuiltInv, Tour!Thread, Thread, Tour!Team,
                Members
  <1>5. \A t \in Members : left[t] <= left[0]
    BY DEF Tour!IInv, Tour!ChampionInv, Tour!Team, Members
  <1>6. \A t \in Members : /\ entered[t] \in {left[t], left[t] + 1}
                           /\ pc[t] = "out" => entered[t] = left[t]
                           /\ pc[t] # "out" => entered[t] = left[t] + 1
                           /\ Tour(k)!In(t) => info = "built" /\ builtFor[t] = teamSize
    BY <1>4 DEF Tour!In
  <1>7. \A t \in Members : left[0] \in {left[t], left[t] + 1}
    BY <1>1, <1>2, <1>3, <1>5, <1>6
  <1>8. info = "built" => log2TeamSize = Log2(teamSize)
    BY DEF Tour!IInv, Tour!BuiltInv, Tour!Log2, Log2
  <1>9. info = "built" => log2TeamSize \in Nat /\ teamSize <= 2^log2TeamSize
    BY <1>2, <1>8, Log2Least
  <1> QED
    BY <1>1, <1>2, <1>3, <1>6, <1>7, <1>8, <1>9 DEF TourBounds

\* The rounds of a team, and the pairs that meet in one.
LEMMA TourRound ==
    ASSUME NEW k, Tour(k)!SizesOK, Tour(k)!IInv, info = "built",
           NEW r \in 0..(log2TeamSize - 1)
    PROVE  /\ r \in Nat /\ r + 1 \in Nat /\ r < log2TeamSize
           /\ r \in Tour(k)!Rounds
           /\ 2^r \in Nat /\ 0 < 2^r /\ 2^r < teamSize /\ 2^(r + 1) = 2 * 2^r
           /\ \A t \in Members : Tour(k)!Opponents(t, r) =>
                 /\ t % 2^(r + 1) = 0 /\ t + 2^r \in Members /\ t + 2^r # t
                 /\ (t + 2^r) % 2^(r + 1) = 2^r
  <1>1. /\ teamSize \in Nat /\ MaxThreads \in Nat /\ teamSize <= MaxThreads
        /\ Tour(k)!Rounds = 0..Log2(MaxThreads)
    BY DEF Tour!SizesOK, Tour!IInv, Tour!TourTypeOK, Tour!TypeOK, Tour!Rounds, Tour!Log2,
           Log2
  <1>2. log2TeamSize \in Nat /\ log2TeamSize = Log2(teamSize)
    BY TourBounded DEF TourBounds
  <1>3. r \in Nat /\ r + 1 \in Nat /\ r < Log2(teamSize)
    BY <1>2
  <1>4. r \in Tour(k)!Rounds
    BY <1>1, <1>3, Log2Grows, Log2Least
  <1>5. 2^r < teamSize
    BY <1>1, <1>3, Log2Least
  <1>6. 2^r \in Nat /\ 0 < 2^r
    <2>1. 2^r \in Nat /\ r < 2^r
      BY <1>3, PowerGrows
    <2> QED
      BY <1>3, <2>1
  <1>7. 2^(r + 1) = 2 * 2^r
    BY <1>3, PowerDoubles
  <1> DEFINE d == 2^r
  <1>8. d \in Nat /\ d > 0 /\ 2^(r + 1) = 2 * d
    BY <1>6, <1>7
  <1>9. \A t \in Members : Tour(k)!Opponents(t, r) <=> t % (2 * d) = 0 /\ t + d < teamSize
    BY <1>8 DEF Tour!Opponents
  <1> HIDE DEF d
  <1>10. ASSUME NEW t \in Members, Tour(k)!Opponents(t, r)
         PROVE  t % (2 * d) = 0 /\ t + d \in Members /\ t + d # t /\ (t + d) % (2 * d) = d
    <2>1. t % (2 * d) = 0 /\ t + d < teamSize
      BY <1>9, <1>10, Zenon
    <2>2. t \in Nat
      BY <1>1 DEF Members
    <2>3. (t + d) % (2 * d) = d
      BY <1>8, <2>1, <2>2, ModDouble, Zenon
    <2>4. t + d \in Members /\ t + d # t
      BY <1>1, <1>8, <2>1, <2>2 DEF Members
    <2> QED
      BY <2>1, <2>3, <2>4, Zenon
  <1> QED
    BY <1>2, <1>3, <1>4, <1>5, <1>6, <1>7, <1>8, <1>10 DEF d

TourPairs(k) == info = "built" => \A r \in 0..(log2TeamSize - 1), t \in Members :
    /\ r \in Nat /\ r \in Tour(k)!Rounds
    /\ Tour(k)!Opponents(t, r) => /\ t + 2^r \in Members /\ t + 2^r # t /\ 2^r \in Nat
                                  /\ 0 < 2^r /\ (t + 2^r) % 2^(r + 1) = 2^r

\* what the steps below start from
LEMMA TourFacts ==
    ASSUME NEW k, Tour(k)!SizesOK, Tour(k)!IInv
    PROVE  /\ TourBounds(k) /\ TourPairs(k) /\ TourFlags(k) /\ TourParts(k)
           /\ Tour(k)!FirstInv
  BY TourBounded, TourSplit, TourRound DEF TourPairs

\* What the role of a thread in its round says of its place in the team.
LEMMA TourRoles ==
    ASSUME NEW k, Tour(k)!SizesOK, Tour(k)!IInv, NEW t \in Members, Tour(k)!In(t)
    PROVE  /\ info = "built" /\ log2TeamSize \in Nat /\ round[t] \in 0..(log2TeamSize - 1)
           /\ round[t] \in Nat /\ t % 2^round[t] = 0
           /\ Tour(k)!Playing(t, "loser") =>
                 /\ t % 2^(round[t] + 1) = 2^round[t]
                 /\ Tour(k)!Role(teamSize, t, round[t]) = "loser"
           /\ Tour(k)!Playing(t, "winner") =>
                 Tour(k)!Opponents(t, round[t]) /\ (t # 0 \/ round[t] # log2TeamSize - 1)
           /\ Tour(k)!Playing(t, "noop") =>
                 /\ t % 2^(round[t] + 1) = 0 /\ t + 2^round[t] >= teamSize
                 /\ t # 0 \/ round[t] # log2TeamSize - 1
           /\ Tour(k)!Playing(t, "champion") => t = 0 /\ round[t] = log2TeamSize - 1
  <1>0. TourBounds(k) /\ TourFlags(k) /\ TourParts(k)
    BY TourFacts
  <1>1. /\ info = "built" /\ log2TeamSize \in Nat /\ log2TeamSize = Log2(teamSize)
        /\ builtFor[t] = teamSize /\ teamSize \in Nat /\ t \in Nat
    BY <1>0 DEF TourBounds
  <1>2. round[t] \in Nat /\ round[t] < log2TeamSize /\ t % 2^round[t] = 0
    BY <1>0 DEF TourParts, Tour!PlaceInv, Tour!Team, Members, TourFlags, TourBounds
  <1> DEFINE r == round[t]
             d == 2^r
             e == 2^(r + 1)
             m == t % e
  <1>3. d \in Nat /\ e \in Nat
    BY <1>2, PowerIsNat, r + 1 \in Nat
  <1>4. \A role : Tour(k)!Playing(t, role) <=>
           pc[t] = "round" /\ Tour(k)!Role(teamSize, t, r) = role
    BY <1>1 DEF Tour!Playing
  <1>5. Tour(k)!Role(teamSize, t, r) =
           IF t = 0 /\ r = log2TeamSize - 1 THEN "champion"
           ELSE IF m = 0
                THEN IF t + d < teamSize THEN "winner" ELSE "noop"
                ELSE IF m = d THEN "loser" ELSE "dropout"
    BY <1>1 DEF Tour!Role, Tour!Log2, Log2
  <1>6. Tour(k)!Opponents(t, r) <=> m = 0 /\ t + d < teamSize
    BY DEF Tour!Opponents
  <1>7. r \in 0..(log2TeamSize - 1)
    BY <1>1, <1>2
  <1>8. t \in Nat /\ teamSize \in Nat
    BY <1>1
  <1> HIDE DEF r, d, e, m
  <1>9. Tour(k)!Playing(t, "loser") => m = d /\ Tour(k)!Role(teamSize, t, r) = "loser"
    BY <1>4, <1>5
  <1>10. Tour(k)!Playing(t, "winner") =>
            Tour(k)!Opponents(t, r) /\ (t # 0 \/ r # log2TeamSize - 1)
    BY <1>4, <1>5, <1>6
  <1>11. Tour(k)!Playing(t, "noop") =>
            m = 0 /\ t + d >= teamSize /\ (t # 0 \/ r # log2TeamSize - 1)
    BY <1>3, <1>4, <1>5, <1>8
  <1>12. Tour(k)!Playing(t, "champion") => t = 0 /\ r = log2TeamSize - 1
    BY <1>4, <1>5
  <1> QED
    BY <1>1, <1>2, <1>7, <1>9, <1>10, <1>11, <1>12 DEF r, d, e, m

\* A flag raised in its round tells the winner of all that are up to there.
LEMMA TourHears ==
    ASSUME NEW k, Tour(k)!SizesOK, Tour(k)!IInv, NEW t \in Members, Tour(k)!In(t),
           NEW r, r = round[t], Tour(k)!Opponents(t, r), flag[t][r] = sense[t]
    PROVE  /\ Tour(k)!Lost(t + 2^r) > left[t]
           /\ \A v \in Members : t <= v /\ v < t + 2^(r + 1) => left[t] < entered[v]
  <1> USE DEF Tour!Team, Members
  <1>0. TourBounds(k) /\ TourPairs(k) /\ TourFlags(k) /\ TourParts(k)
    BY TourFacts
  <1>1. info = "built" /\ r \in 0..(log2TeamSize - 1) /\ log2TeamSize \in Nat
    BY TourRoles
  <1> DEFINE d == 2^r
             u == t + d
  <1>2. /\ r \in Nat /\ u \in Members /\ d \in Nat /\ 0 < d /\ u % 2^(r + 1) = d
        /\ 2^(r + 1) = 2 * d
    BY <1>0, <1>1, PowerDoubles DEF TourPairs
  <1>3. Tour(k)!Lost(u) = left[t] + 1
    BY <1>0, <1>1 DEF TourParts, Tour!FlagInv
  <1>4. left[t] \in Nat /\ left[u] \in Nat /\ t \in Nat /\ u \in Nat
    BY <1>0, <1>2 DEF TourBounds
  <1>5. ASSUME NEW v \in Members, u <= v, v < u + d PROVE left[t] < entered[v]
    <2>0. entered[v] \in Nat
      BY <1>0 DEF TourBounds
    <2>1. CASE pc[u] # "await"
      <3>1. left[u] = left[t] + 1
        BY <1>3, <2>1 DEF Tour!Lost
      <3>2. left[u] <= entered[v]
        BY <1>0, <1>2 DEF TourBounds
      <3> QED
        BY <1>4, <2>0, <3>1, <3>2
    <2>2. CASE pc[u] = "await"
      <3>1. Tour(k)!In(u) /\ left[u] = left[t]
        BY <1>3, <1>4, <2>2 DEF Tour!In, Tour!Lost
      <3>2. round[u] \in Nat /\ Tour(k)!Role(teamSize, u, round[u]) = "loser"
        <4>1. round[u] \in Nat
          BY <1>2, <3>1, TourRoles
        <4>2. Tour(k)!Role(teamSize, u, round[u]) = "loser"
          BY <1>0, <1>2, <2>2, <3>1 DEF TourParts, Tour!PlaceInv
        <4> QED
          BY <4>1, <4>2
      <3>3. u % 2^(round[u] + 1) = 2^round[u]
        BY <3>2 DEF Tour!Role
      <3>4. round[u] = r
        BY <1>2, <1>4, <3>2, <3>3, LosesOnce
      <3>5. left[u] < entered[v]
        BY <1>0, <1>2, <1>5, <3>1, <3>4 DEF TourParts, Tour!HeardInv
      <3> QED
        BY <3>1, <3>5
    <2> QED
      BY <2>1, <2>2
  <1>6. ASSUME NEW v \in Members, t <= v, v < t + 2^(r + 1) PROVE left[t] < entered[v]
    <2>1. v \in Nat
      BY <1>0 DEF TourBounds
    <2>2. CASE v < u
      <3>1. v < t + 2^round[t]
        BY <2>2
      <3> QED
        BY <1>0, <1>6, <3>1 DEF TourParts, Tour!HeardInv
    <2>3. CASE u <= v
      <3>1. v < u + d
        BY <1>2, <1>4, <1>6, <2>1
      <3> QED
        BY <1>5, <2>3, <3>1
    <2> QED
      BY <1>4, <2>1, <2>2, <2>3
  <1>7. Tour(k)!Lost(u) > left[t]
    BY <1>3, <1>4
  <1> QED
    BY <1>6, <1>7

\* omp_xbarrier.c:371-374
LEMMA TourEnter ==
    ASSUME NEW k, Tour(k)!SizesOK, Tour(k)!IInv, NEW t \in Members, SizesKept,
           pc[t] = "out", info # "crash",
           pc' = [pc EXCEPT ![t] = IF teamSize = 1 THEN "alone" ELSE "round"],
           entered' = [entered EXCEPT ![t] = @ + 1], round' = [round EXCEPT ![t] = 0],
           UNCHANGED <<left, parity, sense, flag, championSense>>
    PROVE  TourParts(k)'
  <1> USE DEF Tour!Team, Members, SizesKept
  <1>0. TourBounds(k) /\ TourPairs(k) /\ TourFlags(k) /\ TourParts(k)
    BY TourFacts
  <1>1. \A u \in Members : u # t => /\ pc'[u] = pc[u] /\ entered'[u] = entered[u]
                                    /\ round'[u] = round[u]
    BY <1>0 DEF TourBounds, TourFlags
  <1>2. /\ t \in Nat /\ pc'[t] = (IF teamSize = 1 THEN "alone" ELSE "round")
        /\ entered'[t] = entered[t] + 1 /\ round'[t] = 0 /\ t \in Thread
        /\ entered[t] \in Nat /\ left[t] \in Nat
    BY <1>0 DEF TourBounds, TourFlags
  <1>3. /\ \A u \in Members : u # t => ((Tour(k)!In(u))' <=> Tour(k)!In(u))
        /\ ~Tour(k)!In(t) /\ pc'[t] \notin {"await", "crown"}
        /\ (Tour(k)!In(t))' => info = "built" /\ teamSize # 1
    <2>1. info = "built" \/ teamSize = 1
      BY DEF Tour!IInv, Tour!BuiltInv, Tour!TourTypeOK, Tour!TypeOK
    <2> QED
      BY <1>1, <1>2, <2>1 DEF Tour!In
  <1>4. \A u \in Members : (Tour(k)!Lost(u))' = Tour(k)!Lost(u)
    BY <1>1, <1>2, <1>3 DEF Tour!Lost
  <1>5. Tour(k)!TogetherInv'
    BY <1>0, <1>1, <1>2 DEF TourBounds, Tour!TogetherInv
  <1>6. Tour(k)!PlaceInv'
    <2>1. ASSUME (Tour(k)!In(t))' PROVE t % 2^0 = 0 /\ 0 < log2TeamSize
      <3>1. t % 1 = 0
        BY <1>2
      <3>2. t % 2^0 = 0
        BY <3>1, PowerZero
      <3>3. log2TeamSize # 0
        <4>1. teamSize \in Nat /\ 0 < teamSize /\ teamSize # 1 /\ teamSize <= 2^log2TeamSize
          BY <1>0, <1>3, <2>1 DEF TourBounds
        <4>2. log2TeamSize = 0 => 2^log2TeamSize = 1
          BY PowerZero
        <4> QED
          BY <4>1, <4>2
      <3>4. log2TeamSize \in Nat
        BY <1>0, <1>3, <2>1 DEF TourBounds
      <3> QED
        BY <3>2, <3>3, <3>4
    <2>2. \A u \in Members : u # t => ((Tour(k)!In(u))' =>
            /\ u % 2^(round'[u]) = 0 /\ round'[u] < log2TeamSize
            /\ pc'[u] = "await" => Tour(k)!Role(teamSize, u, round'[u]) = "loser"
            /\ pc'[u] = "crown" => u = 0 /\ round'[u] = log2TeamSize - 1)
      BY <1>0, <1>1, <1>3 DEF TourParts, Tour!PlaceInv
    <2>3. (Tour(k)!In(t))' =>
            /\ t % 2^(round'[t]) = 0 /\ round'[t] < log2TeamSize
            /\ pc'[t] = "await" => Tour(k)!Role(teamSize, t, round'[t]) = "loser"
            /\ pc'[t] = "crown" => t = 0 /\ round'[t] = log2TeamSize - 1
      BY <1>2, <1>3, <2>1
    <2> QED
      BY <2>2, <2>3 DEF Tour!PlaceInv, Tour!Role, Tour!Log2
  <1>7. Tour(k)!HeardInv'
    <2>1. \A u \in Members : t <= u /\ u < t + 2^0 => u = t
      BY <1>0, PowerZero DEF TourBounds
    <2>2. left[t] < entered'[t]
      BY <1>0, <1>2 DEF TourBounds
    <2>3. \A u \in Members : /\ entered[u] \in Nat /\ entered'[u] \in Nat
                             /\ entered'[u] >= entered[u] /\ left[u] \in Nat
      BY <1>0, <1>1, <1>2 DEF TourBounds
    <2>4. ASSUME NEW u \in Members, NEW v \in Members, (Tour(k)!In(u))'
          PROVE  /\ u <= v /\ v < u + 2^(round'[u]) => left[u] < entered'[v]
                 /\ pc'[u] = "crown" => left[u] < entered'[v]
      <3>1. CASE u = t
        BY <1>2, <1>3, <2>1, <2>2, <3>1
      <3>2. CASE u # t
        <4>1. /\ u <= v /\ v < u + 2^(round'[u]) => left[u] < entered[v]
              /\ pc'[u] = "crown" => left[u] < entered[v]
          BY <1>0, <1>1, <1>3, <2>4, <3>2 DEF TourParts, Tour!HeardInv
        <4> QED
          BY <2>3, <4>1
      <3> QED
        BY <3>1, <3>2
    <2> QED
      BY <2>4 DEF Tour!HeardInv
  <1>8. Tour(k)!ChampionInv' /\ Tour(k)!SenseInv'
    BY <1>0 DEF TourParts, Tour!ChampionInv, Tour!SenseInv
  <1>9. Tour(k)!FlagInv'
    <2> SUFFICES ASSUME info = "built", NEW v \in Members, NEW r \in 0..(log2TeamSize - 1),
                        Tour(k)!Opponents(v, r), NEW u, u = v + 2^r
                 PROVE  /\ Tour(k)!Lost(u) >= left[v]
                        /\ (Tour(k)!In(v))' /\ (r < round'[v] \/ pc'[v] = "crown")
                             => Tour(k)!Lost(u) > left[v]
                        /\ flag[v][r] = sense[v] <=> Tour(k)!Lost(u) = left[v] + 1
      BY <1>0, <1>4 DEF Tour!FlagInv, TourPairs, Tour!Opponents
    <2>1. /\ Tour(k)!Lost(u) >= left[v]
          /\ Tour(k)!In(v) /\ (r < round[v] \/ pc[v] = "crown")
                => Tour(k)!Lost(u) > left[v]
          /\ flag[v][r] = sense[v] <=> Tour(k)!Lost(u) = left[v] + 1
      BY <1>0 DEF TourParts, Tour!FlagInv
    <2>2. r \in Nat /\ ~(r < 0)
      BY <1>0 DEF TourPairs
    <2>3. CASE v = t
      BY <1>2, <1>3, <2>1, <2>2, <2>3
    <2>4. CASE v # t
      BY <1>1, <1>3, <2>1, <2>4
    <2> QED
      BY <2>3, <2>4
  <1> QED
    BY <1>5, <1>6, <1>7, <1>8, <1>9 DEF TourParts

\* Only thread 0 gets to the last round as a winner.
LEMMA TourMoreRounds ==
    ASSUME NEW k, Tour(k)!SizesOK, Tour(k)!IInv, NEW t \in Members, Tour(k)!In(t),
           t % 2^(round[t] + 1) = 0, t # 0 \/ round[t] # log2TeamSize - 1
    PROVE  round[t] + 1 < log2TeamSize
  <1>0. TourBounds(k)
    BY TourFacts
  <1>1. /\ log2TeamSize \in Nat /\ round[t] \in Nat /\ round[t] < log2TeamSize
        /\ info = "built"
    BY TourRoles
  <1>2. t \in Nat /\ t < teamSize /\ teamSize \in Nat /\ teamSize <= 2^log2TeamSize
    BY <1>0, <1>1 DEF TourBounds
  <1> SUFFICES ASSUME ~(round[t] + 1 < log2TeamSize) PROVE FALSE
    OBVIOUS
  <1>3. round[t] + 1 = log2TeamSize
    BY <1>1
  <1>4. t % 2^log2TeamSize = 0
    BY <1>3
  <1>5. 2^log2TeamSize \in Nat
    BY <1>1, PowerIsNat
  <1> DEFINE d == 2^log2TeamSize
  <1>6. d \in Nat /\ t < d /\ t % d = 0
    BY <1>2, <1>4, <1>5
  <1> HIDE DEF d
  <1>7. t % d = t
    BY <1>2, <1>6
  <1>8. t = 0
    BY <1>6, <1>7, Zenon
  <1> QED
    BY <1>1, <1>3, <1>8

\* omp_xbarrier.c:385-390: on to the next round, with an opponent or without
LEMMA TourNext ==
    ASSUME NEW k, Tour(k)!SizesOK, Tour(k)!IInv, NEW t \in Members, SizesKept,
           pc[t] = "round", t % 2^(round[t] + 1) = 0,
           t # 0 \/ round[t] # log2TeamSize - 1,
           Tour(k)!Opponents(t, round[t]) => Tour(k)!Lost(t + 2^round[t]) > left[t],
           \A v \in Members : t <= v /\ v < t + 2^(round[t] + 1) => left[t] < entered[v],
           pc' = [pc EXCEPT ![t] = "round"], round' = [round EXCEPT ![t] = @ + 1],
           UNCHANGED <<entered, left, parity, sense, flag, championSense>>
    PROVE  TourParts(k)'
  <1> USE DEF Tour!Team, Members, SizesKept
  <1>0. TourBounds(k) /\ TourPairs(k) /\ TourFlags(k) /\ TourParts(k)
    BY TourFacts
  <1>1. /\ \A u \in Members : pc'[u] = pc[u] /\ (u # t => round'[u] = round[u])
        /\ round'[t] = round[t] + 1 /\ round[t] \in Nat /\ Tour(k)!In(t)
    BY <1>0 DEF TourBounds, TourFlags, Tour!In
  <1>2. \A u \in Members : /\ (Tour(k)!In(u))' <=> Tour(k)!In(u)
                           /\ (Tour(k)!Lost(u))' = Tour(k)!Lost(u)
    BY <1>1 DEF Tour!In, Tour!Lost
  <1>3. Tour(k)!TogetherInv' /\ Tour(k)!ChampionInv' /\ Tour(k)!SenseInv'
    BY <1>0 DEF TourParts, Tour!TogetherInv, Tour!ChampionInv, Tour!SenseInv
  <1>4. Tour(k)!PlaceInv'
    <2>1. round[t] + 1 < log2TeamSize
      BY <1>1, TourMoreRounds
    <2>2. /\ t % 2^(round'[t]) = 0 /\ round'[t] < log2TeamSize
          /\ pc'[t] \notin {"await", "crown"}
      BY <1>1, <2>1
    <2>3. \A u \in Members : u # t => (Tour(k)!In(u) =>
            /\ u % 2^(round'[u]) = 0 /\ round'[u] < log2TeamSize
            /\ pc'[u] = "await" => Tour(k)!Role(teamSize, u, round'[u]) = "loser"
            /\ pc'[u] = "crown" => u = 0 /\ round'[u] = log2TeamSize - 1)
      BY <1>0, <1>1 DEF TourParts, Tour!PlaceInv
    <2> QED
      BY <1>2, <2>2, <2>3 DEF Tour!PlaceInv, Tour!Role, Tour!Log2
  <1>5. Tour(k)!HeardInv'
    <2>1. ASSUME NEW u \in Members, NEW v \in Members, Tour(k)!In(u)
          PROVE  /\ u <= v /\ v < u + 2^(round'[u]) => left[u] < entered[v]
                 /\ pc'[u] = "crown" => left[u] < entered[v]
      <3>1. CASE u = t
        BY <1>1, <3>1
      <3>2. CASE u # t
        BY <1>0, <1>1, <2>1, <3>2 DEF TourParts, Tour!HeardInv
      <3> QED
        BY <3>1, <3>2
    <2> QED
      BY <1>2, <2>1 DEF Tour!HeardInv
  <1>6. Tour(k)!FlagInv'
    <2> SUFFICES ASSUME info = "built", NEW v \in Members, NEW r \in 0..(log2TeamSize - 1),
                        Tour(k)!Opponents(v, r), NEW u, u = v + 2^r
                 PROVE  /\ Tour(k)!Lost(u) >= left[v]
                        /\ Tour(k)!In(v) /\ (r < round'[v] \/ pc'[v] = "crown")
                             => Tour(k)!Lost(u) > left[v]
                        /\ flag[v][r] = sense[v] <=> Tour(k)!Lost(u) = left[v] + 1
      BY <1>0, <1>2 DEF Tour!FlagInv, TourPairs, Tour!Opponents
    <2>1. /\ Tour(k)!Lost(u) >= left[v]
          /\ Tour(k)!In(v) /\ (r < round[v] \/ pc[v] = "crown")
                => Tour(k)!Lost(u) > left[v]
          /\ flag[v][r] = sense[v] <=> Tour(k)!Lost(u) = left[v] + 1
      BY <1>0 DEF TourParts, Tour!FlagInv
    <2>2. CASE v # t
      BY <1>1, <2>1, <2>2
    <2>3. CASE v = t /\ r = round[t]
      BY <2>1, <2>3
    <2>4. CASE v = t /\ r # round[t]
      <3>1. r \in Nat
        BY <1>0 DEF TourPairs
      <3>2. r < round'[t] => r < round[t]
        BY <1>1, <2>4, <3>1
      <3> QED
        BY <1>1, <2>1, <2>4, <3>2
    <2> QED
      BY <2>2, <2>3, <2>4
  <1> QED
    BY <1>3, <1>4, <1>5, <1>6 DEF TourParts

\* omp_xbarrier.c:378-379
LEMMA TourLose ==
    ASSUME NEW k, Tour(k)!SizesOK, Tour(k)!IInv, NEW t \in Members, SizesKept,
           Tour(k)!Playing(t, "loser"),
           flag' = [flag EXCEPT ![t - 2^round[t]][round[t]] = sense[t]],
           pc' = [pc EXCEPT ![t] = "await"],
           UNCHANGED <<entered, left, parity, sense, championSense, round>>
    PROVE  TourParts(k)'
  <1> USE DEF Tour!Team, Members, SizesKept
  <1>0. TourBounds(k) /\ TourPairs(k) /\ TourFlags(k) /\ TourParts(k)
    BY TourFacts
  <1>1. /\ pc[t] = "round" /\ pc'[t] = "await" /\ Tour(k)!In(t)
        /\ \A u \in Members : u # t => pc'[u] = pc[u]
    BY <1>0 DEF Tour!Playing, TourBounds, Tour!In
  <1>2. /\ info = "built" /\ log2TeamSize \in Nat /\ round[t] \in 0..(log2TeamSize - 1)
        /\ round[t] \in Nat /\ t % 2^(round[t] + 1) = 2^round[t]
        /\ Tour(k)!Role(teamSize, t, round[t]) = "loser"
    BY <1>1, TourRoles
  <1> DEFINE r == round[t]
             d == 2^r
             w == t - d
  <1>3. /\ d \in Nat /\ 0 < d /\ 2^(r + 1) = 2 * d /\ r \in Tour(k)!Rounds
        /\ t \in Nat /\ t < teamSize /\ teamSize \in Nat
    BY <1>0, <1>2, TourRound DEF TourBounds
  <1>4. d <= t /\ (t - d) % (2 * d) = 0
    <2> HIDE DEF d
    <2>1. t % (2 * d) = d
      BY <1>2, <1>3 DEF d
    <2> QED
      BY <1>3, <2>1, ModDouble, Zenon
  <1>5. w \in Members /\ w # t /\ w + d = t /\ w \in Thread
    <2>1. d \in Nat /\ 0 < d /\ d <= t /\ t \in Nat /\ t < teamSize /\ teamSize \in Nat
      BY <1>3, <1>4
    <2> HIDE DEF d
    <2>2. w \in Members /\ w # t /\ w + d = t
      BY <2>1
    <2> QED
      BY <1>0, <2>2 DEF TourBounds
  <1>6. Tour(k)!Opponents(w, r)
    BY <1>3, <1>4, <1>5 DEF Tour!Opponents
  <1>7. /\ \A u \in Members : (Tour(k)!In(u))' <=> Tour(k)!In(u)
        /\ \A u \in Members : u # t => (Tour(k)!Lost(u))' = Tour(k)!Lost(u)
        /\ Tour(k)!Lost(t) = left[t] /\ (Tour(k)!Lost(t))' = left[t] + 1
    BY <1>1 DEF Tour!In, Tour!Lost
  <1>8. /\ flag'[w][r] = sense[t]
        /\ \A v \in Members, s \in Tour(k)!Rounds : v # w \/ s # r => flag'[v][s] = flag[v][s]
    <2> HIDE DEF r, w
    <2>1. flag' = [flag EXCEPT ![w][r] = sense[t]]
      BY DEF r, w, d
    <2>2. r \in Tour(k)!Rounds /\ w \in Thread
      BY <1>3, <1>5
    <2>3. Members \subseteq Thread /\ flag \in [Thread -> [Tour(k)!Rounds -> BOOLEAN]]
      BY <1>0 DEF TourBounds, TourFlags
    <2> HIDE DEF Members
    <2> QED
      BY <2>1, <2>2, <2>3
  <1> HIDE DEF r, d, w
  <1>9. Tour(k)!TogetherInv' /\ Tour(k)!ChampionInv' /\ Tour(k)!SenseInv'
    BY <1>0 DEF TourParts, Tour!TogetherInv, Tour!ChampionInv, Tour!SenseInv
  <1>10. Tour(k)!PlaceInv'
    <2>1. \A u \in Members : Tour(k)!In(u) =>
            /\ u % 2^(round[u]) = 0 /\ round[u] < log2TeamSize
            /\ pc'[u] = "await" => Tour(k)!Role(teamSize, u, round[u]) = "loser"
            /\ pc'[u] = "crown" => u = 0 /\ round[u] = log2TeamSize - 1
      BY <1>0, <1>1, <1>2 DEF TourParts, Tour!PlaceInv
    <2> QED
      BY <1>7, <2>1 DEF Tour!PlaceInv, Tour!Role, Tour!Log2
  <1>11. Tour(k)!HeardInv'
    BY <1>0, <1>1, <1>7 DEF TourParts, Tour!HeardInv
  <1>12. Tour(k)!FlagInv'
    <2> SUFFICES ASSUME info = "built", NEW v \in Members, NEW s \in 0..(log2TeamSize - 1),
                        Tour(k)!Opponents(v, s), NEW u, u = v + 2^s
                 PROVE  /\ (Tour(k)!Lost(u))' >= left[v]
                        /\ (Tour(k)!In(v))' /\ (s < round[v] \/ pc'[v] = "crown")
                             => (Tour(k)!Lost(u))' > left[v]
                        /\ flag'[v][s] = sense[v] <=> (Tour(k)!Lost(u))' = left[v] + 1
      BY <1>0 DEF Tour!FlagInv, TourPairs, Tour!Opponents
    <2>1. /\ Tour(k)!Lost(u) >= left[v]
          /\ Tour(k)!In(v) /\ (s < round[v] \/ pc[v] = "crown")
                => Tour(k)!Lost(u) > left[v]
          /\ flag[v][s] = sense[v] <=> Tour(k)!Lost(u) = left[v] + 1
      BY <1>0 DEF TourParts, Tour!FlagInv
    <2>2. /\ s \in Nat /\ s \in Tour(k)!Rounds /\ u \in Members
          /\ 2^s \in Nat /\ u % 2^(s + 1) = 2^s
      BY <1>0 DEF TourPairs
    <2>3. pc'[v] = "crown" => pc[v] = "crown"
      BY <1>1
    <2>4. CASE u # t
      <3>1. v # w \/ s # r
        BY <1>5, <2>4 DEF w, d
      <3>2. flag'[v][s] = flag[v][s]
        BY <1>8, <2>2, <3>1
      <3> QED
        BY <1>7, <2>1, <2>2, <2>3, <2>4, <3>2
    <2>5. CASE u = t
      <3>1. s = r
        BY <1>2, <1>3, <2>2, <2>5, LosesOnce DEF r
      <3>2. v = w
        <4>1. v + d = t /\ v \in Nat
          BY <2>5, <3>1 DEF d
        <4> QED
          BY <1>3, <1>5, <4>1 DEF w
      <3>3. sense[t] = sense[v] <=> left[t] = left[v]
        BY <1>0 DEF TourParts, Tour!SenseInv
      <3>4. left[t] \in Nat /\ left[v] \in Nat
        BY <1>0 DEF TourBounds
      <3>5. flag'[v][s] = sense[v] <=> left[t] + 1 = left[v] + 1
        BY <1>8, <3>1, <3>2, <3>3, <3>4
      <3> QED
        BY <1>7, <2>1, <2>3, <2>5, <3>4, <3>5
    <2> QED
      BY <2>4, <2>5
  <1> QED
    BY <1>9, <1>10, <1>11, <1>12 DEF TourParts

\* omp_xbarrier.c:391-395: the champion has heard of the whole team
LEMMA TourWinLast ==
    ASSUME NEW k, Tour(k)!SizesOK, Tour(k)!IInv, NEW t \in Members, SizesKept,
           Tour(k)!Playing(t, "champion"), flag[t][round[t]] = sense[t],
           pc' = [pc EXCEPT ![t] = "crown"],
           UNCHANGED <<entered, left, parity, sense, flag, championSense, round>>
    PROVE  TourParts(k)'
  <1> USE DEF Tour!Team, Members, SizesKept
  <1>0. TourBounds(k) /\ TourPairs(k) /\ TourFlags(k) /\ TourParts(k)
    BY TourFacts
  <1>1. /\ pc[t] = "round" /\ pc'[t] = "crown" /\ Tour(k)!In(t)
        /\ \A u \in Members : u # t => pc'[u] = pc[u]
    BY <1>0 DEF Tour!Playing, TourBounds, Tour!In
  <1> DEFINE r == round[t]
  <1>2. /\ info = "built" /\ log2TeamSize \in Nat /\ r \in 0..(log2TeamSize - 1)
        /\ r \in Nat /\ t = 0 /\ r = log2TeamSize - 1
    BY <1>1, TourRoles
  <1>3. /\ 2^r \in Nat /\ 0 < 2^r /\ 2^r < teamSize /\ 2^(r + 1) = 2 * 2^r
        /\ teamSize <= 2^log2TeamSize /\ teamSize \in Nat
    BY <1>0, <1>2, TourRound DEF TourBounds
  <1>4. Tour(k)!Opponents(t, r)
    <2> DEFINE e == 2^(r + 1)
    <2>1. e \in Nat /\ e > 0
      BY <1>3
    <2> HIDE DEF e
    <2>2. 0 % e = 0
      BY <2>1
    <2> QED
      BY <1>2, <1>3, <2>2 DEF Tour!Opponents, e
  <1>5. /\ Tour(k)!Lost(t + 2^r) > left[t]
        /\ \A v \in Members : t <= v /\ v < t + 2^(r + 1) => left[t] < entered[v]
    BY <1>1, <1>4, TourHears
  <1>6. \A v \in Members : left[t] < entered[v]
    <2>1. r + 1 = log2TeamSize
      BY <1>2
    <2>2. teamSize <= 2^(r + 1) /\ 2^(r + 1) \in Nat
      BY <1>3, <2>1
    <2>3. \A v \in Members : v \in Nat /\ v < teamSize
      BY <1>3
    <2>4. \A v \in Members : t <= v /\ v < t + 2^(r + 1)
      BY <1>2, <1>3, <2>2, <2>3
    <2> QED
      BY <1>5, <2>4
  <1>7. \A u \in Members : /\ (Tour(k)!In(u))' <=> Tour(k)!In(u)
                           /\ (Tour(k)!Lost(u))' = Tour(k)!Lost(u)
    BY <1>1 DEF Tour!In, Tour!Lost
  <1>8. Tour(k)!TogetherInv' /\ Tour(k)!ChampionInv' /\ Tour(k)!SenseInv'
    BY <1>0 DEF TourParts, Tour!TogetherInv, Tour!ChampionInv, Tour!SenseInv
  <1>9. Tour(k)!PlaceInv'
    <2>1. \A u \in Members : Tour(k)!In(u) =>
            /\ u % 2^(round[u]) = 0 /\ round[u] < log2TeamSize
            /\ pc'[u] = "await" => Tour(k)!Role(teamSize, u, round[u]) = "loser"
            /\ pc'[u] = "crown" => u = 0 /\ round[u] = log2TeamSize - 1
      BY <1>0, <1>1, <1>2 DEF TourParts, Tour!PlaceInv
    <2> QED
      BY <1>7, <2>1 DEF Tour!PlaceInv, Tour!Role, Tour!Log2
  <1>10. Tour(k)!HeardInv'
    BY <1>0, <1>1, <1>6, <1>7 DEF TourParts, Tour!HeardInv
  <1>11. Tour(k)!FlagInv'
    <2> SUFFICES ASSUME info = "built", NEW v \in Members, NEW s \in 0..(log2TeamSize - 1),
                        Tour(k)!Opponents(v, s), NEW u, u = v + 2^s
                 PROVE  /\ Tour(k)!Lost(u) >= left[v]
                        /\ Tour(k)!In(v) /\ (s < round[v] \/ pc'[v] = "crown")
                             => Tour(k)!Lost(u) > left[v]
                        /\ flag[v][s] = sense[v] <=> Tour(k)!Lost(u) = left[v] + 1
      BY <1>0, <1>7 DEF Tour!FlagInv, TourPairs, Tour!Opponents
    <2>1. /\ Tour(k)!Lost(u) >= left[v]
          /\ Tour(k)!In(v) /\ (s < round[v] \/ pc[v] = "crown")
                => Tour(k)!Lost(u) > left[v]
          /\ flag[v][s] = sense[v] <=> Tour(k)!Lost(u) = left[v] + 1
      BY <1>0 DEF TourParts, Tour!FlagInv
    <2>2. CASE v # t
      BY <1>1, <2>1, <2>2
    <2>3. CASE v = t /\ s = r
      BY <1>5, <2>1, <2>3
    <2>4. CASE v = t /\ s # r
      <3>1. s < r
        BY <1>2, <2>4
      <3> QED
        BY <1>1, <2>1, <2>4, <3>1
    <2> QED
      BY <2>2, <2>3, <2>4
  <1> QED
    BY <1>8, <1>9, <1>10, <1>11 DEF TourParts

\* omp_xbarrier.c:380-381: one that has lost leaves after the champion
LEMMA TourAwait ==
    ASSUME NEW k, Tour(k)!SizesOK, Tour(k)!IInv, NEW t \in Members, SizesKept,
           pc[t] = "await", championSense = sense[t],
           sense' = [sense EXCEPT ![t] = ~@], left' = [left EXCEPT ![t] = @ + 1],
           pc' = [pc EXCEPT ![t] = "out"],
           UNCHANGED <<entered, flag, championSense, round>>
    PROVE  TourParts(k)' /\ \A u \in Members : left[t] < entered[u]
  <1> USE DEF Tour!Team, Members, SizesKept
  <1>0. TourBounds(k) /\ TourPairs(k) /\ TourFlags(k) /\ TourParts(k)
    BY TourFacts
  <1>1. /\ pc'[t] = "out" /\ left'[t] = left[t] + 1 /\ Tour(k)!In(t)
        /\ \A u \in Members : u # t => /\ pc'[u] = pc[u] /\ left'[u] = left[u]
                                       /\ sense'[u] = sense[u]
    BY <1>0 DEF TourBounds, Tour!In
  <1>2. sense'[t] = ~sense[t] /\ \A u \in Members : sense[u] \in BOOLEAN
    BY <1>0 DEF TourBounds
  <1>3. 0 \in Members /\ \A u \in Members : left[u] \in Nat /\ entered[u] \in Nat
    BY <1>0 DEF TourBounds
  <1>4. t # 0 /\ left[0] = left[t] + 1 /\ sense'[t] = sense[0]
    <2>1. sense[t] # sense[0]
      BY <1>0 DEF TourParts, Tour!ChampionInv
    <2>2. left[t] # left[0]
      BY <1>0, <1>3, <2>1 DEF TourParts, Tour!SenseInv
    <2>3. left[0] = left[t] + 1
      BY <1>0, <1>3, <2>2 DEF TourBounds
    <2>4. sense'[t] = sense[0]
      BY <1>2, <1>3, <2>1
    <2> QED
      BY <2>1, <2>3, <2>4
  <1>5. \A u \in Members : left[t] < entered[u] /\ left'[t] <= entered[u]
    BY <1>0, <1>1, <1>3, <1>4 DEF TourBounds
  <1>6. /\ \A u \in Members : u # t => ((Tour(k)!In(u))' <=> Tour(k)!In(u))
        /\ ~(Tour(k)!In(t))'
        /\ \A u \in Members : (Tour(k)!Lost(u))' = Tour(k)!Lost(u)
    BY <1>1 DEF Tour!In, Tour!Lost
  <1>7. Tour(k)!TogetherInv'
    BY <1>0, <1>1, <1>5 DEF TourBounds, Tour!TogetherInv
  <1>8. Tour(k)!PlaceInv'
    <2>1. \A u \in Members : (Tour(k)!In(u))' =>
            /\ u % 2^(round[u]) = 0 /\ round[u] < log2TeamSize
            /\ pc'[u] = "await" => Tour(k)!Role(teamSize, u, round[u]) = "loser"
            /\ pc'[u] = "crown" => u = 0 /\ round[u] = log2TeamSize - 1
      BY <1>0, <1>1, <1>6 DEF TourParts, Tour!PlaceInv
    <2> QED
      BY <2>1 DEF Tour!PlaceInv, Tour!Role, Tour!Log2
  <1>9. Tour(k)!HeardInv'
    BY <1>0, <1>1, <1>6 DEF TourParts, Tour!HeardInv
  <1>10. Tour(k)!ChampionInv'
    BY <1>0, <1>1, <1>3, <1>4 DEF TourParts, Tour!ChampionInv
  <1>11. Tour(k)!SenseInv'
    <2> SUFFICES ASSUME NEW u \in Members, NEW v \in Members
                 PROVE  sense'[u] = sense'[v] <=> left'[u] = left'[v]
      BY DEF Tour!SenseInv
    <2>1. /\ sense[u] = sense[v] <=> left[u] = left[v]
          /\ sense[0] = sense[v] <=> left[0] = left[v]
          /\ sense[u] = sense[0] <=> left[u] = left[0]
      BY <1>0, <1>3 DEF TourParts, Tour!SenseInv
    <2>2. left'[t] = left[0]
      BY <1>1, <1>4
    <2> QED
      BY <1>1, <1>4, <2>1, <2>2
  <1>12. Tour(k)!FlagInv'
    <2> SUFFICES ASSUME info = "built", NEW v \in Members, NEW r \in 0..(log2TeamSize - 1),
                        Tour(k)!Opponents(v, r), NEW u, u = v + 2^r
                 PROVE  /\ Tour(k)!Lost(u) >= left'[v]
                        /\ (Tour(k)!In(v))' /\ (r < round[v] \/ pc'[v] = "crown")
                             => Tour(k)!Lost(u) > left'[v]
                        /\ flag[v][r] = sense'[v] <=> Tour(k)!Lost(u) = left'[v] + 1
      BY <1>0, <1>6 DEF Tour!FlagInv, TourPairs, Tour!Opponents
    <2>1. /\ Tour(k)!Lost(u) >= left[v]
          /\ Tour(k)!In(v) /\ (r < round[v] \/ pc[v] = "crown")
                => Tour(k)!Lost(u) > left[v]
          /\ flag[v][r] = sense[v] <=> Tour(k)!Lost(u) = left[v] + 1
      BY <1>0 DEF TourParts, Tour!FlagInv
    <2>2. CASE v # t
      BY <1>1, <1>6, <2>1, <2>2
    <2>3. CASE v = t
      <3>1. /\ round[t] \in Nat /\ t % 2^(round[t] + 1) = 2^round[t]
        <4>1. round[t] \in Nat
          BY <1>1, TourRoles
        <4>2. Tour(k)!Role(teamSize, t, round[t]) = "loser"
          BY <1>0, <1>1 DEF TourParts, Tour!PlaceInv
        <4>3. t % 2^(round[t] + 1) = 2^round[t]
          BY <4>2 DEF Tour!Role
        <4> QED
          BY <4>1, <4>3
      <3>2. r \in Nat /\ r \in Tour(k)!Rounds /\ t % 2^(r + 1) = 0
        BY <1>0, <2>3 DEF TourPairs, Tour!Opponents
      <3>3. r < round[t]
        <4> SUFFICES ASSUME round[t] <= r PROVE FALSE
          BY <3>1, <3>2
        <4>1. t % 2^(round[t] + 1) = 0
          <5>1. t \in Nat /\ round[t] + 1 \in Nat /\ r + 1 \in Nat /\ round[t] + 1 <= r + 1
            BY <1>0, <3>1, <3>2 DEF TourBounds
          <5> QED
            BY <3>2, <5>1, PowerDivides
        <4>2. 2^round[t] # 0
          BY <3>1, PowerGrows
        <4> QED
          BY <3>1, <4>1, <4>2, Zenon
      <3>4. Tour(k)!Lost(u) > left[t]
        BY <1>1, <2>1, <2>3, <3>3
      <3>5. Tour(k)!Lost(u) \in {left[u], left[u] + 1} /\ u \in Members
        BY <1>0, <2>3 DEF TourPairs, Tour!Lost
      <3>6. left[u] \in Nat /\ left[t] \in Nat /\ left[u] <= left[t] + 1
        BY <1>0, <1>3, <1>4, <3>5 DEF TourBounds
      <3>7. Tour(k)!Lost(u) \in {left[t] + 1, left[t] + 2}
        BY <3>4, <3>5, <3>6
      <3>8. flag[t][r] \in BOOLEAN
        BY <1>0, <3>2 DEF TourFlags, TourBounds
      <3>9. flag[t][r] = sense'[t] <=> flag[t][r] # sense[t]
        BY <1>2, <3>8
      <3>10. flag[t][r] = sense'[t] <=> Tour(k)!Lost(u) # left[t] + 1
        BY <2>1, <2>3, <3>9
      <3>11. Tour(k)!Lost(u) # left[t] + 1 <=> Tour(k)!Lost(u) = left'[t] + 1
        BY <1>1, <3>6, <3>7
      <3>12. flag[t][r] = sense'[t] <=> Tour(k)!Lost(u) = left'[t] + 1
        BY <3>10, <3>11
      <3>13. Tour(k)!Lost(u) >= left'[t]
        BY <1>1, <3>6, <3>7
      <3> QED
        BY <1>6, <2>3, <3>12, <3>13
    <2> QED
      BY <2>2, <2>3
  <1> QED
    BY <1>5, <1>7, <1>8, <1>9, <1>10, <1>11, <1>12 DEF TourParts

\* omp_xbarrier.c:396-399
LEMMA TourCrown ==
    ASSUME NEW k, Tour(k)!SizesOK, Tour(k)!IInv, NEW t \in Members, SizesKept,
           pc[t] = "crown", championSense' = sense[t],
           sense' = [sense EXCEPT ![t] = ~@], left' = [left EXCEPT ![t] = @ + 1],
           pc' = [pc EXCEPT ![t] = "out"], UNCHANGED <<entered, flag, round>>
    PROVE  TourParts(k)' /\ \A u \in Members : left[t] < entered[u]
  <1> USE DEF Tour!Team, Members, SizesKept
  <1>0. TourBounds(k) /\ TourPairs(k) /\ TourFlags(k) /\ TourParts(k)
    BY TourFacts
  <1>1. /\ pc'[t] = "out" /\ left'[t] = left[t] + 1 /\ Tour(k)!In(t)
        /\ \A u \in Members : u # t => /\ pc'[u] = pc[u] /\ left'[u] = left[u]
                                       /\ sense'[u] = sense[u]
    BY <1>0 DEF TourBounds, Tour!In
  <1>2. sense'[t] = ~sense[t] /\ \A u \in Members : sense[u] \in BOOLEAN
    BY <1>0 DEF TourBounds
  <1>3. 0 \in Members /\ \A u \in Members : left[u] \in Nat /\ entered[u] \in Nat
    BY <1>0 DEF TourBounds
  <1>4. t = 0
    BY <1>0, <1>1 DEF TourParts, Tour!PlaceInv
  <1>5. \A u \in Members : left[t] < entered[u]
    BY <1>0, <1>1 DEF TourParts, Tour!HeardInv
  <1>6. \A u \in Members : left[u] = left[t] /\ sense[u] = sense[t]
    <2>1. \A u \in Members : left[u] = left[t]
      <3> SUFFICES ASSUME NEW u \in Members PROVE left[u] = left[t]
        OBVIOUS
      <3>1. /\ left[t] \in {left[u], left[u] + 1} /\ entered[u] \in {left[u], left[u] + 1}
            /\ left[u] <= entered[t] /\ entered[t] \in {left[t], left[t] + 1}
            /\ left[t] < entered[u] /\ left[u] \in Nat /\ left[t] \in Nat
        BY <1>0, <1>4, <1>5 DEF TourBounds
      <3> QED
        BY <3>1
    <2> QED
      BY <1>0, <2>1 DEF TourParts, Tour!SenseInv
  <1>7. /\ \A u \in Members : u # t => /\ (Tour(k)!In(u))' <=> Tour(k)!In(u)
                                       /\ (Tour(k)!Lost(u))' = Tour(k)!Lost(u)
        /\ ~(Tour(k)!In(t))'
    BY <1>1 DEF Tour!In, Tour!Lost
  <1>8. Tour(k)!TogetherInv'
    <2>1. \A u \in Members : left[t] + 1 <= entered[u]
      BY <1>3, <1>5
    <2> QED
      BY <1>0, <1>1, <2>1 DEF TourBounds, Tour!TogetherInv
  <1>9. Tour(k)!PlaceInv'
    <2>1. \A u \in Members : (Tour(k)!In(u))' =>
            /\ u % 2^(round[u]) = 0 /\ round[u] < log2TeamSize
            /\ pc'[u] = "await" => Tour(k)!Role(teamSize, u, round[u]) = "loser"
            /\ pc'[u] = "crown" => u = 0 /\ round[u] = log2TeamSize - 1
      BY <1>0, <1>1, <1>7 DEF TourParts, Tour!PlaceInv
    <2> QED
      BY <2>1 DEF Tour!PlaceInv, Tour!Role, Tour!Log2
  <1>10. Tour(k)!HeardInv'
    BY <1>0, <1>1, <1>7 DEF TourParts, Tour!HeardInv
  <1>11. Tour(k)!ChampionInv'
    <2>1. championSense' # sense'[0]
      BY <1>2, <1>4
    <2>2. \A u \in Members : left'[u] <= left'[0]
      BY <1>1, <1>3, <1>4, <1>6
    <2> QED
      BY <2>1, <2>2 DEF Tour!ChampionInv
  <1>12. Tour(k)!SenseInv'
    <2>1. \A u \in Members : u # t => sense'[u] # sense'[t] /\ left'[u] # left'[t]
      BY <1>1, <1>2, <1>3, <1>6
    <2>2. \A u, v \in Members : u # t /\ v # t => sense'[u] = sense'[v] /\ left'[u] = left'[v]
      BY <1>1, <1>6
    <2> QED
      BY <2>1, <2>2 DEF Tour!SenseInv
  <1>13. Tour(k)!FlagInv'
    <2> SUFFICES ASSUME info = "built", NEW v \in Members, NEW r \in 0..(log2TeamSize - 1),
                        Tour(k)!Opponents(v, r), NEW u, u = v + 2^r
                 PROVE  /\ (Tour(k)!Lost(u))' >= left'[v]
                        /\ (Tour(k)!In(v))' /\ (r < round[v] \/ pc'[v] = "crown")
                             => (Tour(k)!Lost(u))' > left'[v]
                        /\ flag[v][r] = sense'[v] <=> (Tour(k)!Lost(u))' = left'[v] + 1
      BY <1>0 DEF Tour!FlagInv, TourPairs, Tour!Opponents
    <2>1. /\ Tour(k)!Lost(u) >= left[v]
          /\ Tour(k)!In(v) /\ (r < round[v] \/ pc[v] = "crown")
                => Tour(k)!Lost(u) > left[v]
          /\ flag[v][r] = sense[v] <=> Tour(k)!Lost(u) = left[v] + 1
      BY <1>0 DEF TourParts, Tour!FlagInv
    <2>2. u # t /\ u \in Members
      <3>1. v \in Nat /\ 2^r \in Nat /\ 0 < 2^r /\ v + 2^r \in Members
        BY <1>0 DEF TourPairs, TourBounds
      <3> QED
        BY <1>4, <3>1
    <2>3. CASE v # t
      BY <1>1, <1>7, <2>1, <2>2, <2>3
    <2>4. CASE v = t
      <3>1. Tour(k)!Lost(u) = left[t] + 1
        <4>1. Tour(k)!Lost(u) > left[t]
          BY <1>1, <2>1, <2>4
        <4>2. Tour(k)!Lost(u) \in {left[t], left[t] + 1}
          BY <1>6, <2>2 DEF Tour!Lost
        <4> QED
          BY <1>3, <4>1, <4>2
      <3>2. flag[t][r] # sense'[t]
        BY <1>2, <2>1, <2>4, <3>1
      <3>3. (Tour(k)!Lost(u))' = left'[t]
        BY <1>1, <1>7, <2>2, <3>1
      <3>4. left'[t] \in Nat
        BY <1>1, <1>3
      <3> QED
        BY <1>7, <2>4, <3>2, <3>3, <3>4
    <2> QED
      BY <2>3, <2>4
  <1> QED
    BY <1>5, <1>8, <1>9, <1>10, <1>11, <1>12, <1>13 DEF TourParts

\* omp_xbarrier.c:367-369
LEMMA TourAlone ==
    ASSUME NEW k, Tour(k)!SizesOK, Tour(k)!IInv, NEW t \in Members, SizesKept,
           teamSize = 1, pc[t] = "alone", pc' = [pc EXCEPT ![t] = "out"],
           left' = [left EXCEPT ![t] = @ + 1],
           UNCHANGED <<entered, parity, sense, flag, championSense, round>>
    PROVE  TourParts(k)'
  <1> USE DEF Tour!Team, SizesKept
  <1>0. TourBounds(k) /\ TourPairs(k) /\ TourFlags(k) /\ TourParts(k)
    BY TourFacts
  <1>1. Members = {0} /\ t = 0
    BY DEF Members
  <1>2. pc'[0] = "out" /\ left'[0] = left[0] + 1 /\ left[0] \in Nat /\ entered[0] = left[0] + 1
    BY <1>0, <1>1 DEF TourBounds
  <1>3. Tour(k)!TogetherInv' /\ Tour(k)!SenseInv' /\ Tour(k)!ChampionInv'
    BY <1>0, <1>1, <1>2
       DEF Tour!TogetherInv, Tour!SenseInv, Tour!ChampionInv, TourParts, Members
  <1>4. Tour(k)!PlaceInv' /\ Tour(k)!HeardInv'
    BY <1>1, <1>2 DEF Tour!PlaceInv, Tour!HeardInv, Tour!In, Members
  <1>5. Tour(k)!FlagInv'
    <2>1. info = "built" => \A v \in Members, r \in 0..(log2TeamSize - 1) :
             ~Tour(k)!Opponents(v, r)
      BY <1>0, <1>1 DEF TourPairs
    <2> QED
      BY <2>1 DEF Tour!FlagInv, Tour!Opponents, Members
  <1> QED
    BY <1>3, <1>4, <1>5 DEF TourParts

\* All the members are out and past the same barriers.
LEMMA TourSame ==
    ASSUME NEW k, Tour(k)!SizesOK, Tour(k)!IInv, SameTeam,
           UNCHANGED <<flag, championSense, round>>,
           info = "built" => log2TeamSize' = log2TeamSize
    PROVE  TourParts(k)'
  <1> USE DEF Tour!Team, Members
  <1>0. TourBounds(k) /\ TourPairs(k) /\ TourFlags(k) /\ TourParts(k)
    BY TourFacts
  <1>1. /\ UNCHANGED <<teamSize, info, pc, sense>>
        /\ \A t \in Members : pc[t] = "out" /\ entered[t] = entered[0]
        /\ \/ UNCHANGED <<entered, left>>
           \/ entered' = Zero /\ left' = Zero
    BY DEF SameTeam
  <1>2. \A t \in Members : entered[t] = left[t]
    BY <1>0, <1>1 DEF TourBounds
  <1>3. \A t, u \in Members : /\ left[t] = left[u] /\ left'[t] = left'[u]
                              /\ left'[t] = entered'[u] /\ left'[t] \in Nat
                              /\ left[t] \in Nat
    BY <1>0, <1>1, <1>2 DEF TourBounds, Zero
  <1>4. \A t \in Members : /\ ~Tour(k)!In(t) /\ ~(Tour(k)!In(t))'
                           /\ Tour(k)!Lost(t) = left[t] /\ (Tour(k)!Lost(t))' = left'[t]
    BY <1>1 DEF Tour!In, Tour!Lost
  <1>5. Tour(k)!TogetherInv' /\ Tour(k)!PlaceInv' /\ Tour(k)!HeardInv'
    BY <1>1, <1>3, <1>4 DEF Tour!TogetherInv, Tour!PlaceInv, Tour!HeardInv
  <1>6. Tour(k)!SenseInv' /\ Tour(k)!ChampionInv'
    <2>1. 0 \in Members
      BY <1>0 DEF TourBounds
    <2>2. \A t \in Members : left'[t] <= left'[0]
      BY <1>3, <2>1
    <2>3. \A t, u \in Members : sense'[t] = sense'[u] /\ left'[t] = left'[u]
      BY <1>0, <1>1, <1>3 DEF TourParts, Tour!SenseInv
    <2>4. championSense' # sense'[0]
      BY <1>0, <1>1 DEF TourParts, Tour!ChampionInv
    <2> QED
      BY <1>1, <2>2, <2>3, <2>4 DEF Tour!SenseInv, Tour!ChampionInv
  <1>7. Tour(k)!FlagInv'
    <2> SUFFICES ASSUME info = "built", NEW v \in Members, NEW r \in 0..(log2TeamSize - 1),
                        Tour(k)!Opponents(v, r), NEW u, u = v + 2^r
                 PROVE  /\ left'[u] >= left'[v]
                        /\ ~(flag[v][r] = sense[v]) /\ left'[u] # left'[v] + 1
      BY <1>0, <1>1, <1>4 DEF Tour!FlagInv, TourPairs, Tour!Opponents
    <2>1. u \in Members
      BY <1>0 DEF TourPairs
    <2>2. flag[v][r] = sense[v] <=> Tour(k)!Lost(u) = left[v] + 1
      BY <1>0 DEF TourParts, Tour!FlagInv
    <2> QED
      BY <1>3, <1>4, <2>1, <2>2
  <1> QED
    BY <1>5, <1>6, <1>7 DEF TourParts

\* The first team and the first barrier of the program.
TourFresh(k) ==
    /\ teamSize \in 1..MaxThreads /\ MaxThreads \in Nat /\ left = Zero /\ entered = Zero
    /\ TeamInv(k, TRUE) /\ championSense = FALSE
    /\ \A t \in Members : /\ pc[t] = "out" /\ sense[t] = TRUE
                          /\ info = "built" => flag[t] = Tour(k)!Cleared

LEMMA TourFreshInv ==
    ASSUME NEW k
    PROVE  TourFresh(k) => TourParts(k)
  <1> SUFFICES ASSUME TourFresh(k) PROVE TourParts(k)
    OBVIOUS
  <1> USE DEF Tour!Team, Members
  <1>1. /\ teamSize \in Nat /\ 0 < teamSize /\ MaxThreads \in Nat /\ teamSize <= MaxThreads
        /\ championSense = FALSE
        /\ \A t \in Members : /\ pc[t] = "out" /\ sense[t] = TRUE
                              /\ info = "built" => flag[t] = Tour(k)!Cleared
    BY DEF TourFresh
  <1>2. \A t \in Members : /\ t \in Thread /\ left[t] = 0 /\ entered[t] = 0
                           /\ ~Tour(k)!In(t) /\ Tour(k)!Lost(t) = 0
    BY <1>1 DEF TourFresh, Zero, Thread, Tour!In, Tour!Lost
  <1>3. Tour(k)!TogetherInv /\ Tour(k)!PlaceInv /\ Tour(k)!HeardInv
    BY <1>1, <1>2 DEF Tour!TogetherInv, Tour!PlaceInv, Tour!HeardInv
  <1>4. Tour(k)!SenseInv /\ Tour(k)!ChampionInv
    <2>1. 0 \in Members
      BY <1>1
    <2>2. championSense # sense[0]
      BY <1>1, <2>1, TRUE # FALSE, Zenon
    <2>3. \A t, u \in Members : left[t] = left[u] /\ left[t] <= left[u]
      BY <1>2
    <2>4. \A t, u \in Members : sense[t] = sense[u]
      BY <1>1
    <2> QED
      BY <2>1, <2>2, <2>3, <2>4 DEF Tour!SenseInv, Tour!ChampionInv
  <1>5. Tour(k)!FlagInv
    <2> SUFFICES ASSUME info = "built", NEW v \in Members, NEW r \in 0..(log2TeamSize - 1),
                        v + 2^r < teamSize, NEW u, u = v + 2^r
                 PROVE  /\ Tour(k)!Lost(u) >= left[v]
                        /\ ~Tour(k)!In(v)
                        /\ ~(flag[v][r] = sense[v]) /\ Tour(k)!Lost(u) # left[v] + 1
      BY DEF Tour!FlagInv, Tour!Opponents
    <2>1. log2TeamSize = Log2(teamSize)
      BY DEF TourFresh, TeamInv, XB!BuiltInv, XB!Log2, Log2
    <2>2. r \in Nat /\ r \in Tour(k)!Rounds
      <3>1. Tour(k)!Rounds = 0..Log2(MaxThreads)
        BY DEF Tour!Rounds, Tour!Log2, Log2
      <3>2. Log2(teamSize) \in Nat /\ Log2(MaxThreads) \in Nat
        BY <1>1, Log2Least
      <3>3. Log2(teamSize) <= Log2(MaxThreads)
        BY <1>1, Log2Grows
      <3> QED
        BY <2>1, <3>1, <3>2, <3>3
    <2>3. u \in Members
      <3>1. v \in Nat
        BY <1>1
      <3>2. 2^r \in Nat
        BY <2>2, PowerIsNat
      <3> DEFINE d == 2^r
      <3>3. d \in Nat /\ u = v + d /\ u < teamSize
        BY <3>2
      <3> HIDE DEF d
      <3>4. u \in Nat /\ u < teamSize
        BY <3>1, <3>3
      <3> QED
        BY <1>1, <3>4
    <2>4. flag[v][r] = FALSE
      BY <1>1, <2>2 DEF Tour!Cleared
    <2>5. ~(flag[v][r] = sense[v])
      BY <1>1, <2>4, TRUE # FALSE, Zenon
    <2> QED
      BY <1>2, <2>3, <2>5
  <1> QED
    BY <1>3, <1>4, <1>5 DEF TourParts

LEMMA TourFreshAgain ==
    ASSUME NEW k
    PROVE  TourFresh(k)' => TourParts(k)'
  BY TourFreshInv, PTL

LEMMA TourNeverStale ==
    ASSUME NEW k
    PROVE  Tour(k)!OneSize => Tour(k)!NeverStale
  BY DEF Tour!OneSize, Tour!NeverStale

\* With one team size only the first fork, before any barrier, changes the team.
LEMMA TourKeepFirst ==
    ASSUME NEW k, Tour(k)!SizesOK, Tour(k)!OneSize, Tour(k)!BuiltInv, Tour(k)!KeepInfo
    PROVE  Tour(k)!FirstInv'
  <1>1. /\ inRegion' = TRUE /\ teamSize' \in {teamSize, nthreadsVar}
        /\ teamSize' = teamSize
        /\ 0 \in ForkSizes[k] \/ teamSize \in ForkSizes[k]
    <2>1. CASE Tour(k)!ForkDefault
      BY <2>1 DEF Tour!ForkDefault, Tour!Begin, Tour!BuiltInv
    <2>2. CASE Tour(k)!ForkSame
      BY <2>2 DEF Tour!ForkSame, Tour!Begin
    <2>3. ~Tour(k)!SetNumThreads
      BY DEF Tour!SetNumThreads, Tour!OneSize
    <2> QED
      BY <2>1, <2>2, <2>3 DEF Tour!KeepInfo
  <1>2. ForkSizes[k] \subseteq {0, teamSize}
    BY <1>1 DEF Tour!OneSize
  <1> QED
    BY <1>1, <1>2 DEF Tour!FirstInv

LEMMA TourRebuildFirst ==
    ASSUME NEW k, Tour(k)!SizesOK, Tour(k)!OneSize, Tour(k)!FirstInv, Tour(k)!TypeOK,
           NEW n \in 1..MaxThreads, Tour(k)!RebuildInfo(n)
    PROVE  Tour(k)!FirstInv' /\ championSense = FALSE
  <1>0. teamSize \in Nat /\ allocSize \in Nat /\ teamSize <= allocSize /\ n \in Nat /\ n # 0
    BY DEF Tour!TypeOK, Tour!SizesOK
  <1>1. n \in ForkSizes[k] /\ n # teamSize /\ teamSize' = n /\ inRegion' = TRUE
    <2>1. CASE Tour(k)!ForkResize(n)
      BY <2>1 DEF Tour!ForkResize, Tour!Begin
    <2>2. CASE Tour(k)!ForkExpand(n)
      BY <1>0, <2>2 DEF Tour!ForkExpand, Tour!Expand, Tour!Begin
    <2>3. ~Tour(k)!SetMoreThreads(n)
      BY DEF Tour!SetMoreThreads, Tour!OneSize
    <2> QED
      BY <2>1, <2>2, <2>3 DEF Tour!RebuildInfo
  <1>2. ~inRegion
    BY <1>0, <1>1 DEF Tour!FirstInv
  <1>3. ForkSizes[k] \subseteq {0, teamSize'}
    BY <1>1 DEF Tour!OneSize
  <1>4. championSense = FALSE
    BY <1>2 DEF Tour!FirstInv
  <1> QED
    BY <1>1, <1>3, <1>4 DEF Tour!FirstInv

\* In a barrier nothing changes that FirstInv is about.
LEMMA TourInsideFirst ==
    ASSUME NEW k, Tour(k)!FirstInv, inRegion, UNCHANGED <<teamSize, inRegion>>
    PROVE  Tour(k)!FirstInv'
  BY DEF Tour!FirstInv

LEMMA TourInitInv ==
    ASSUME NEW k
    PROVE  Tour(k)!SizesOK /\ Tour(k)!Init => Tour(k)!IInv
  <1> SUFFICES ASSUME Tour(k)!SizesOK, Tour(k)!Init PROVE Tour(k)!IInv
    OBVIOUS
  <1>1. XB(k, TRUE)!SizesOK /\ XB(k, TRUE)!TeamInit
    BY DEF Tour!SizesOK, XB!SizesOK, Tour!Init, Tour!TeamInit, XB!TeamInit,
           Tour!Thread, XB!Thread, Tour!Zero, XB!Zero, Tour!Log2, XB!Log2, Tour!Built,
           XB!Built
  <1>2. /\ TeamInv(k, TRUE) /\ teamSize \in 1..MaxThreads
        /\ left = Zero /\ entered = Zero
        /\ sense = [t \in Thread |-> TRUE] /\ pc = [t \in Thread |-> "out"]
    BY <1>1, TeamStarts
  <1>3. /\ flag = [t \in Thread |-> Tour(k)!Cleared] /\ round = Zero /\ MaxThreads \in Nat
        /\ championSense = FALSE /\ inRegion = FALSE
    BY DEF Tour!Init, Tour!TeamInit, Tour!SizesOK, Tour!Thread, Thread, Tour!Zero, Zero
  <1>4. TourFlags(k)
    BY <1>3 DEF TourFlags, Tour!Cleared, Zero
  <1>5. TourFresh(k) /\ \A t \in Members : sense[t]
    <2>1. Members \subseteq Thread
      BY <1>2, <1>3 DEF Members, Thread
    <2>2. \A t \in Members : pc[t] = "out" /\ flag[t] = Tour(k)!Cleared
      BY <1>2, <1>3, <2>1 DEF Zero
    <2>3. \A t \in Members : sense[t] = TRUE
      BY <1>2, <2>1
    <2> QED
      BY <1>2, <1>3, <2>2, <2>3 DEF TourFresh
  <1>6. Tour(k)!FirstInv
    BY <1>2, <1>3, <1>5 DEF Tour!FirstInv, Tour!Zero, Zero, Tour!Thread, Thread, Tour!Team,
                            Members
  <1> QED
    BY <1>2, <1>4, <1>5, <1>6, TourFreshInv, TourSplit

\* a thread is in a barrier only in a region
LEMMA TourInRegion ==
    ASSUME NEW k, TeamInv(k, TRUE), Tour(k)!FirstInv, NEW t \in Thread, pc[t] # "out"
    PROVE  inRegion
  <1>1. entered[t] = left[t] + 1 /\ left[t] \in Nat
    BY DEF TeamInv, XB!TypeOK, XB!InsideInv, XB!Thread, Thread
  <1>2. entered = Zero /\ left = Zero => entered[t] = 0 /\ left[t] = 0
    BY DEF Zero
  <1>3. ~inRegion => entered = Zero /\ left = Zero
    BY DEF Tour!FirstInv, Tour!Zero, Zero, Tour!Thread, Thread
  <1> QED
    BY <1>1, <1>2, <1>3

\* Every step keeps the invariant, in a program that asks for one team size.
LEMMA TourStepInv ==
    ASSUME NEW k
    PROVE  Tour(k)!SizesOK /\ Tour(k)!OneSize /\ Tour(k)!IInv /\ [Tour(k)!Next]_(Tour(k)!vars)
             => Tour(k)!IInv'
  <1> SUFFICES ASSUME Tour(k)!SizesOK, Tour(k)!OneSize, Tour(k)!IInv,
                      [Tour(k)!Next]_(Tour(k)!vars)
               PROVE  Tour(k)!IInv'
    OBVIOUS
  <1>0. /\ XB(k, TRUE)!SizesOK /\ XB(k, TRUE)!NeverStale
        /\ TeamInv(k, TRUE) /\ TourFlags(k) /\ TourParts(k) /\ Tour(k)!FirstInv
        /\ MaxThreads \in Nat /\ Tour(k)!Thread = Thread
    BY TourIsXB, TourNeverStale, TourSplit DEF Tour!SizesOK, Tour!Thread, Thread
  <1>1. \A t \in Thread : /\ pc[t] # "out" => t \in Members
                          /\ pc[t] = "alone" => teamSize = 1
    BY <1>0 DEF TeamInv, XB!InsideInv, XB!Thread, XB!Team, Thread, Members
  <1>2. \A t \in Thread : pc[t] # "out" => inRegion
    BY <1>0, TourInRegion
  <1>3. inRegion /\ SizesKept => Tour(k)!FirstInv'
    BY <1>0, TourInsideFirst DEF SizesKept
  <1>4. sense \in [Thread -> BOOLEAN] /\ parity \in [Thread -> {0, 1}]
    BY <1>0 DEF TeamInv, XB!TypeOK, XB!Thread, Thread
  <1>5. ASSUME NEW t \in Thread, Tour(k)!Enter(t) PROVE Tour(k)!IInv'
    <2>1. /\ XB(k, TRUE)!Call(t, "round")
          /\ "round" \in XB(k, TRUE)!Label /\ "round" \notin {"out", "alone"}
      BY <1>5, TourIsXB DEF Tour!Enter, XB!Label
    <2>2. TeamInv(k, TRUE)' /\ Called(t, "round")
      BY <1>0, <2>1, CallTeam, Zenon
    <2>3. round' = [round EXCEPT ![t] = 0] /\ UNCHANGED <<flag, championSense>> /\ inRegion
      BY <1>5 DEF Tour!Enter, Tour!Call
    <2>4. TourParts(k)'
      BY <2>2, <2>3, TourEnter DEF Called
    <2>5. TourFlags(k)'
      BY <1>0, <2>3 DEF TourFlags, Tour!Rounds, Tour!Log2
    <2>6. Tour(k)!FirstInv'
      BY <1>3, <2>2, <2>3 DEF Called
    <2> QED
      BY <2>2, <2>4, <2>5, <2>6, TourSplit
  <1>6. ASSUME NEW t \in Thread, NEW label, label \in {"round", "await", "crown"},
               Tour(k)!Inside(t, label), pc[t] = "round"
        PROVE  /\ TeamInv(k, TRUE)' /\ SizesKept /\ t \in Members /\ Tour(k)!FirstInv'
               /\ pc' = [pc EXCEPT ![t] = label] /\ UNCHANGED <<entered, left, parity, sense>>
               /\ Tour(k)!In(t)
    <2>1. /\ XB(k, TRUE)!Inside(t, label) /\ label \in XB(k, TRUE)!Label
          /\ label \notin {"out", "alone"} /\ pc[t] \notin {"out", "alone"}
      BY <1>6, TourIsXB DEF XB!Label
    <2>2. /\ TeamInv(k, TRUE)' /\ SizesKept /\ t \in Members
          /\ pc' = [pc EXCEPT ![t] = label] /\ UNCHANGED <<entered, left, parity, sense>>
      BY <1>0, <2>1, InsideTeam, Zenon
    <2>3. inRegion
      BY <1>2, <2>1
    <2>4. Tour(k)!In(t)
      BY <1>6 DEF Tour!In
    <2> QED
      BY <1>3, <2>2, <2>3, <2>4
  <1>7. ASSUME NEW t \in Thread, Tour(k)!Lose(t) PROVE Tour(k)!IInv'
    <2>1. /\ Tour(k)!Playing(t, "loser") /\ Tour(k)!Inside(t, "await") /\ pc[t] = "round"
          /\ flag' = [flag EXCEPT ![t - 2^round[t]][round[t]] = sense[t]]
          /\ UNCHANGED <<championSense, round>>
      BY <1>7 DEF Tour!Lose, Tour!Playing
    <2>2. /\ TeamInv(k, TRUE)' /\ SizesKept /\ t \in Members /\ Tour(k)!FirstInv'
          /\ pc' = [pc EXCEPT ![t] = "await"] /\ UNCHANGED <<entered, left, parity, sense>>
      BY <1>6, <2>1
    <2>3. TourParts(k)'
      BY <2>1, <2>2, TourLose
    <2>4. TourFlags(k)'
      <3> DEFINE w == t - 2^round[t]
      <3>1. flag' = [flag EXCEPT ![w][round[t]] = sense[t]]
        BY <2>1
      <3> HIDE DEF w
      <3>2. flag' \in [Thread -> [Tour(k)!Rounds -> BOOLEAN]]
        BY <1>0, <1>4, <3>1 DEF TourFlags
      <3> QED
        BY <1>0, <2>1, <3>2 DEF TourFlags, Tour!Rounds, Tour!Log2
    <2> QED
      BY <2>2, <2>3, <2>4, TourSplit
  <1>8. ASSUME NEW t \in Thread, Tour(k)!Win(t) \/ Tour(k)!Advance(t) PROVE Tour(k)!IInv'
    <2>1. /\ Tour(k)!Inside(t, "round") /\ pc[t] = "round"
          /\ round' = [round EXCEPT ![t] = @ + 1] /\ UNCHANGED <<flag, championSense>>
          /\ \/ Tour(k)!Playing(t, "winner") /\ flag[t][round[t]] = sense[t]
             \/ Tour(k)!Playing(t, "noop")
      BY <1>8 DEF Tour!Win, Tour!Advance, Tour!Playing
    <2>2. /\ TeamInv(k, TRUE)' /\ SizesKept /\ t \in Members /\ Tour(k)!FirstInv'
          /\ pc' = [pc EXCEPT ![t] = "round"] /\ UNCHANGED <<entered, left, parity, sense>>
          /\ Tour(k)!In(t)
      BY <1>6, <2>1
    <2>3. /\ t % 2^(round[t] + 1) = 0 /\ (t # 0 \/ round[t] # log2TeamSize - 1)
          /\ Tour(k)!Opponents(t, round[t]) => Tour(k)!Lost(t + 2^round[t]) > left[t]
          /\ \A v \in Members : t <= v /\ v < t + 2^(round[t] + 1) => left[t] < entered[v]
      <3>1. CASE Tour(k)!Playing(t, "winner") /\ flag[t][round[t]] = sense[t]
        <4>1. Tour(k)!Opponents(t, round[t]) /\ (t # 0 \/ round[t] # log2TeamSize - 1)
          BY <2>2, <3>1, TourRoles
        <4>2. t % 2^(round[t] + 1) = 0
          BY <4>1 DEF Tour!Opponents
        <4>3. /\ Tour(k)!Lost(t + 2^round[t]) > left[t]
              /\ \A v \in Members : t <= v /\ v < t + 2^(round[t] + 1) => left[t] < entered[v]
          BY <2>2, <3>1, <4>1, TourHears
        <4> QED
          BY <4>1, <4>2, <4>3
      <3>2. CASE Tour(k)!Playing(t, "noop")
        <4>1. /\ t % 2^(round[t] + 1) = 0 /\ t + 2^round[t] >= teamSize
              /\ t # 0 \/ round[t] # log2TeamSize - 1
              /\ round[t] \in Nat
          BY <2>2, <3>2, TourRoles
        <4> DEFINE d == 2^round[t]
        <4>2. d \in Nat /\ t + d >= teamSize
          BY <4>1, PowerIsNat
        <4>3. teamSize \in Nat /\ \A v \in Members : v \in Nat /\ v < teamSize
          BY TourFacts DEF TourBounds
        <4>4. Tour(k)!Opponents(t, round[t]) => t + d < teamSize
          BY DEF Tour!Opponents
        <4>5. \A v \in Members : t <= v /\ v < t + d => left[t] < entered[v]
          BY <1>0, <2>2 DEF TourParts, Tour!HeardInv, Tour!Team, Members
        <4>0. t \in Nat
          BY <2>2, <4>3
        <4> HIDE DEF d
        <4>6. ~Tour(k)!Opponents(t, round[t])
          BY <4>0, <4>2, <4>3, <4>4
        <4>7. \A v \in Members : v < t + d
          BY <4>0, <4>2, <4>3
        <4>8. \A v \in Members : t <= v => left[t] < entered[v]
          BY <4>5, <4>7
        <4> QED
          BY <4>1, <4>6, <4>8
      <3> QED
        BY <2>1, <3>1, <3>2
    <2>4. TourParts(k)'
      BY <2>1, <2>2, <2>3, TourNext
    <2>5. TourFlags(k)'
      BY <1>0, <2>1 DEF TourFlags, Tour!Rounds, Tour!Log2
    <2> QED
      BY <2>2, <2>4, <2>5, TourSplit
  <1>9. ASSUME NEW t \in Thread, Tour(k)!WinLast(t) PROVE Tour(k)!IInv'
    <2>1. /\ Tour(k)!Playing(t, "champion") /\ flag[t][round[t]] = sense[t]
          /\ Tour(k)!Inside(t, "crown") /\ pc[t] = "round"
          /\ UNCHANGED <<flag, championSense, round>>
      BY <1>9 DEF Tour!WinLast, Tour!Playing, Tour!tourVars
    <2>2. /\ TeamInv(k, TRUE)' /\ SizesKept /\ t \in Members /\ Tour(k)!FirstInv'
          /\ pc' = [pc EXCEPT ![t] = "crown"] /\ UNCHANGED <<entered, left, parity, sense>>
      BY <1>6, <2>1
    <2>3. TourParts(k)'
      BY <2>1, <2>2, TourWinLast
    <2>4. TourFlags(k)'
      BY <1>0, <2>1 DEF TourFlags, Tour!Rounds, Tour!Log2
    <2> QED
      BY <2>2, <2>3, <2>4, TourSplit
  <1>10. ASSUME NEW t \in Thread, Tour(k)!AwaitChampion(t) \/ Tour(k)!Crown(t)
         PROVE  Tour(k)!IInv'
    <2>1. /\ pc[t] \notin {"out", "alone"} /\ XB(k, TRUE)!Leave(t)
          /\ sense' = [sense EXCEPT ![t] = ~@] /\ SizesKept
          /\ UNCHANGED <<parity, entered, flag, round>>
          /\ \/ pc[t] = "await" /\ championSense = sense[t] /\ UNCHANGED championSense
             \/ pc[t] = "crown" /\ championSense' = sense[t]
      BY <1>10, TourIsXB DEF Tour!AwaitChampion, Tour!Crown, Tour!FlipSense, Tour!sizeVars,
         Tour!tourVars, SizesKept
    <2>2. t \in Members /\ Tour(k)!FirstInv'
      BY <1>1, <1>2, <1>3, <2>1
    <2>3. parity' \in [Thread -> {0, 1}] /\ sense' \in [Thread -> BOOLEAN]
      BY <1>4, <2>1
    <2>4. /\ TeamInv(k, TRUE)'
          /\ pc' = [pc EXCEPT ![t] = "out"] /\ left' = [left EXCEPT ![t] = @ + 1]
      BY <1>0, <2>1, <2>3, LeaveTeam
    <2>5. TourParts(k)'
      BY <2>1, <2>2, <2>4, TourAwait, TourCrown
    <2>6. TourFlags(k)'
      <3>1. championSense' \in BOOLEAN
        BY <1>0, <1>4, <2>1 DEF TourFlags
      <3> QED
        BY <1>0, <2>1, <3>1 DEF TourFlags, Tour!Rounds, Tour!Log2
    <2> QED
      BY <2>2, <2>4, <2>5, <2>6, TourSplit
  <1>11. ASSUME NEW t \in Thread, Tour(k)!ReturnAlone(t), UNCHANGED Tour(k)!tourVars
         PROVE  Tour(k)!IInv'
    <2>1. /\ pc[t] = "alone" /\ XB(k, TRUE)!Leave(t) /\ SizesKept
          /\ UNCHANGED <<entered, parity, sense, flag, championSense, round>>
      BY <1>11, TourIsXB DEF Tour!ReturnAlone, Tour!sizeVars, Tour!localVars,
         Tour!tourVars, SizesKept
    <2>2. /\ parity' \in [Thread -> {0, 1}] /\ sense' \in [Thread -> BOOLEAN]
          /\ teamSize = 1 /\ t \in Members /\ Tour(k)!FirstInv'
      BY <1>1, <1>2, <1>3, <1>4, <2>1
    <2>3. /\ TeamInv(k, TRUE)'
          /\ pc' = [pc EXCEPT ![t] = "out"] /\ left' = [left EXCEPT ![t] = @ + 1]
      BY <1>0, <2>1, <2>2, LeaveTeam
    <2>4. TourParts(k)'
      BY <2>1, <2>2, <2>3, TourAlone
    <2>5. TourFlags(k)'
      BY <1>0, <2>1 DEF TourFlags, Tour!Rounds, Tour!Log2
    <2> QED
      BY <2>2, <2>3, <2>4, <2>5, TourSplit
  <1>12. CASE Tour(k)!KeepInfo /\ UNCHANGED Tour(k)!tourVars
    <2>1. TeamInv(k, TRUE)' /\ SameTeam
      BY <1>0, <1>12, TourIsXB, KeepTeam
    <2>2. UNCHANGED <<flag, championSense, round>>
      BY <1>12 DEF Tour!tourVars
    <2>3. info = "built" => log2TeamSize' = log2TeamSize
      BY <1>0, <2>1 DEF TeamInv, XB!BuiltInv, SameTeam, XB!Log2
    <2>4. TourParts(k)'
      BY <2>1, <2>2, <2>3, TourSame
    <2>5. Tour(k)!FirstInv'
      BY <1>12, TourKeepFirst DEF Tour!IInv
    <2>6. TourFlags(k)'
      BY <1>0, <2>2 DEF TourFlags, Tour!Rounds, Tour!Log2
    <2> QED
      BY <2>1, <2>4, <2>5, <2>6, TourSplit
  <1>13. ASSUME NEW n \in 1..MaxThreads, Tour(k)!Rebuild(n) PROVE Tour(k)!IInv'
    <2>1. TeamInv(k, TRUE)' /\ NewTeam(n)
      BY <1>0, <1>13, TourIsXB, RebuildTeam DEF Tour!Rebuild
    <2>2. /\ flag' = [t \in Thread |-> IF t < n /\ info' = "built" THEN Tour(k)!Cleared
                                       ELSE flag[t]]
          /\ UNCHANGED <<championSense, round>>
      BY <1>0, <1>13 DEF Tour!Rebuild
    <2>3. TourFlags(k)'
      <3>1. Tour(k)!Cleared \in [Tour(k)!Rounds -> BOOLEAN]
        BY DEF Tour!Cleared
      <3> QED
        BY <1>0, <2>2, <3>1 DEF TourFlags, Tour!Rounds, Tour!Log2
    <2>4. n \in Nat /\ \A t \in 0..(n - 1) : t \in Thread /\ t < n
      BY <1>0 DEF Thread
    <2>5. \A t \in 0..(n - 1) : info' = "built" => flag'[t] = Tour(k)!Cleared
      BY <2>2, <2>4
    <2>6. Tour(k)!FirstInv' /\ championSense = FALSE
      BY <1>13, TourRebuildFirst DEF Tour!Rebuild, Tour!IInv, Tour!TourTypeOK
    <2>7. TourFresh(k)'
      BY <1>0, <2>1, <2>2, <2>4, <2>5, <2>6 DEF NewTeam, TourFresh, Members, Zero,
         Tour!Cleared, Tour!Rounds, Tour!Log2
    <2> QED
      BY <2>1, <2>3, <2>6, <2>7, TourFreshAgain, TourSplit
  <1>14. CASE UNCHANGED Tour(k)!vars
    <2>1. UNCHANGED <<teamSize, log2TeamSize, allocSize, nthreadsVar, info, builtFor, parity,
                      sense, inRegion, entered, left, pc, flag, championSense, round>>
      BY <1>14 DEF Tour!vars, Tour!teamVars, Tour!sizeVars, Tour!localVars,
         Tour!countVars, Tour!tourVars
    <2>2. TourParts(k)' /\ Tour(k)!FirstInv'
      BY <1>0, <2>1 DEF TourParts, Tour!TogetherInv, Tour!PlaceInv, Tour!HeardInv,
         Tour!ChampionInv, Tour!SenseInv, Tour!FlagInv, Tour!Team, Tour!In, Tour!Lost,
         Tour!Role, Tour!Log2, Tour!Opponents, Tour!FirstInv, Tour!Zero
    <2>3. TeamInv(k, TRUE)' /\ TourFlags(k)'
      BY <1>0, <2>1 DEF TeamInv, XB!TypeOK, XB!BuiltInv, XB!InsideInv, XB!Team, TourFlags,
         Tour!Rounds, Tour!Log2
    <2> QED
      BY <2>2, <2>3, TourSplit
  <1>15. \A t \in Thread : t + 1 \in 1..MaxThreads
    BY <1>0 DEF Thread
  <1> QED
    BY <1>0, <1>5, <1>7, <1>8, <1>9, <1>10, <1>11, <1>12, <1>13, <1>14, <1>15
       DEF Tour!Next, Tour!Fork, Tour!Wait

\* omp_xbarrier.c:216-219, 375, 396
LEMMA TourClosed ==
    ASSUME NEW k, Tour(k)!SizesOK, Tour(k)!IInv
    PROVE  Tour(k)!ClosedBetweenRegions
  <1> USE DEF Tour!Team, Members
  <1>0. TourBounds(k) /\ TourParts(k)
    BY TourFacts
  <1> SUFFICES ASSUME Tour(k)!Joined, NEW t \in Members PROVE sense[t] # championSense
    BY DEF Tour!ClosedBetweenRegions
  <1>1. 0 \in Members
    BY <1>0 DEF TourBounds
  <1>2. /\ pc[t] = "out" /\ pc[0] = "out" /\ entered[t] = entered[0]
    BY <1>1 DEF Tour!Joined
  <1>3. left[t] = left[0]
    BY <1>0, <1>1, <1>2 DEF TourBounds
  <1>4. sense[t] = sense[0] /\ championSense # sense[0]
    BY <1>0, <1>1, <1>3 DEF TourParts, Tour!SenseInv, Tour!ChampionInv
  <1> QED
    BY <1>4, Zenon

LEMMA TourInitRefines ==
    ASSUME NEW k
    PROVE  Tour(k)!SizesOK /\ Tour(k)!Init => TB!Init
  BY TeamStartRefines
     DEF Tour!SizesOK, Tour!Init, Tour!TeamInit, Tour!Zero, Zero, Tour!Thread, Thread

\* Every step of the barrier is one of TeamBarrier or changes nothing there.
LEMMA TourStepRefines ==
    ASSUME NEW k
    PROVE  Tour(k)!SizesOK /\ Tour(k)!OneSize /\ Tour(k)!IInv /\ [Tour(k)!Next]_(Tour(k)!vars)
             => [TB!Next]_(TB!vars)
  <1> SUFFICES ASSUME Tour(k)!SizesOK, Tour(k)!OneSize, Tour(k)!IInv,
                      [Tour(k)!Next]_(Tour(k)!vars)
               PROVE  [TB!Next]_(TB!vars)
    OBVIOUS
  <1>0. /\ XB(k, TRUE)!SizesOK /\ XB(k, TRUE)!NeverStale
        /\ TeamInv(k, TRUE) /\ TourBounds(k)
        /\ MaxThreads \in Nat /\ Tour(k)!Thread = Thread
    BY TourIsXB, TourNeverStale, TourFacts, TourSplit DEF Tour!SizesOK, Tour!Thread, Thread
  <1>1. \A u \in Thread : /\ pc[u] # "out" => u \in Members /\ entered[u] = left[u] + 1
                          /\ pc[u] = "alone" => teamSize = 1
    BY <1>0 DEF TeamInv, XB!InsideInv, XB!Thread, XB!Team, Thread, Members
  <1>2. ASSUME NEW t \in Thread, Tour(k)!Enter(t) PROVE TB!Enter(t)
    BY <1>0, <1>2, TourIsXB, CallRefines DEF Tour!Enter
  <1>3. ASSUME NEW t \in Thread,
               Tour(k)!Lose(t) \/ Tour(k)!Win(t) \/ Tour(k)!Advance(t) \/ Tour(k)!WinLast(t)
        PROVE  UNCHANGED TB!vars
    BY <1>3 DEF Tour!Lose, Tour!Win, Tour!Advance, Tour!WinLast, Tour!Inside, Tour!sizeVars,
       Tour!countVars, TB!vars
  <1>4. ASSUME NEW t \in Thread, Tour(k)!AwaitChampion(t) \/ Tour(k)!Crown(t)
        PROVE  TB!Leave(t)
    <2>1. /\ pc[t] \notin {"out", "alone"} /\ left' = [left EXCEPT ![t] = @ + 1]
          /\ pc' = [pc EXCEPT ![t] = "out"] /\ sense' = [sense EXCEPT ![t] = ~@] /\ SizesKept
          /\ UNCHANGED <<parity, entered, flag, round>>
          /\ \/ pc[t] = "await" /\ championSense = sense[t] /\ UNCHANGED championSense
             \/ pc[t] = "crown" /\ championSense' = sense[t]
      BY <1>4 DEF Tour!AwaitChampion, Tour!Crown, Tour!FlipSense, Tour!Leave, Tour!Goto,
         Tour!sizeVars, Tour!tourVars, SizesKept
    <2>2. t \in Members /\ pc[t] # "out"
      BY <1>1, <2>1
    <2>3. \A u \in Members : left[t] < entered[u]
      BY <2>1, <2>2, TourAwait, TourCrown
    <2>4. \A u \in Members : entered[u] > left[t]
      BY <1>0, <2>2, <2>3 DEF TourBounds
    <2>5. UNCHANGED <<teamSize, entered>>
      BY <2>1 DEF SizesKept
    <2> QED
      BY <1>0, <2>1, <2>2, <2>4, <2>5, LeaveRefines
  <1>5. ASSUME NEW t \in Thread, Tour(k)!ReturnAlone(t) PROVE TB!Leave(t)
    <2>1. /\ pc[t] = "alone" /\ left' = [left EXCEPT ![t] = @ + 1]
          /\ UNCHANGED <<teamSize, entered>>
      BY <1>5 DEF Tour!ReturnAlone, Tour!Leave, Tour!sizeVars
    <2>2. \A u \in Members : u = t
      BY <1>1, <2>1 DEF Members
    <2>3. entered[t] > left[t]
      BY <1>0, <1>1, <2>1 DEF TourBounds
    <2> QED
      BY <1>0, <2>1, <2>2, <2>3, LeaveRefines
  <1>6. CASE Tour(k)!KeepInfo
    BY <1>0, <1>6, TourIsXB, KeepTeam, SameTeamRefines
  <1>7. ASSUME NEW n \in 1..MaxThreads, Tour(k)!Rebuild(n) PROVE TB!Next
    BY <1>0, <1>7, TourIsXB, RebuildTeam, NewTeamRefines DEF Tour!Rebuild
  <1>8. CASE UNCHANGED Tour(k)!vars
    BY <1>8 DEF Tour!vars, Tour!teamVars, Tour!sizeVars, Tour!countVars, TB!vars
  <1>9. \A t \in Thread : t + 1 \in 1..MaxThreads
    BY <1>0 DEF Thread
  <1> QED
    BY <1>0, <1>2, <1>3, <1>4, <1>5, <1>6, <1>7, <1>8, <1>9
       DEF Tour!Next, Tour!Fork, Tour!Wait, TB!Next, Thread

-----------------------------------------------------------------------------
(* The program of MCBarriers runs one of the four *)

\* The kind is chosen once; the program starts and runs as its algorithm does.
LEMMA KindInit ==
    Init => /\ xbarrierType = "simple" => Simple!Init
            /\ xbarrierType = "dissem" => Dissem!Init
            /\ \A k \in TourKinds : xbarrierType = k => Tour(k)!Init
            /\ xbarrierType = "tree" => Tree!Init
  <1> SUFFICES ASSUME Init
               PROVE  /\ xbarrierType = "simple" => Simple!Init
                      /\ xbarrierType = "dissem" => Dissem!Init
                      /\ \A k \in TourKinds : xbarrierType = k => Tour(k)!Init
                      /\ xbarrierType = "tree" => Tree!Init
    OBVIOUS
  <1>1. \/ xbarrierType = "simple" /\ Simple!Init
        \/ xbarrierType = "dissem" /\ Dissem!Init
        \/ \E k \in TourKinds : xbarrierType = k /\ Tour(k)!Init
        \/ xbarrierType = "tree" /\ Tree!Init
        \/ xbarrierType \in {"team", "flagged", "counted"} \cup SyncKinds
    BY DEF Init
  <1>2. ASSUME xbarrierType = "simple" PROVE Simple!Init
    BY <1>1, <1>2 DEF TourKinds, SyncKinds
  <1>3. ASSUME xbarrierType = "dissem" PROVE Dissem!Init
    BY <1>1, <1>3 DEF TourKinds, SyncKinds
  <1>4. ASSUME NEW k \in TourKinds, xbarrierType = k PROVE Tour(k)!Init
    BY <1>1, <1>4 DEF TourKinds, SyncKinds
  <1>5. ASSUME xbarrierType = "tree" PROVE Tree!Init
    BY <1>1, <1>5 DEF TourKinds, SyncKinds
  <1> QED
    BY <1>2, <1>3, <1>4, <1>5

LEMMA KindStep ==
    [Next]_vars => /\ UNCHANGED xbarrierType
                   /\ xbarrierType = "simple" => [Simple!Next]_(Simple!vars)
                   /\ xbarrierType = "dissem" => [Dissem!Next]_(Dissem!vars)
                   /\ \A k \in TourKinds : xbarrierType = k => [Tour(k)!Next]_(Tour(k)!vars)
                   /\ xbarrierType = "tree" => [Tree!Next]_(Tree!vars)
  <1> SUFFICES ASSUME [Next]_vars
               PROVE  /\ UNCHANGED xbarrierType
                      /\ xbarrierType = "simple" => [Simple!Next]_(Simple!vars)
                      /\ xbarrierType = "dissem" => [Dissem!Next]_(Dissem!vars)
                      /\ \A k \in TourKinds :
                            xbarrierType = k => [Tour(k)!Next]_(Tour(k)!vars)
                      /\ xbarrierType = "tree" => [Tree!Next]_(Tree!vars)
    OBVIOUS
  <1>1. CASE UNCHANGED vars
    <2>1. UNCHANGED <<xbarrierType, teamSize, log2TeamSize, allocSize, nthreadsVar, info,
                      builtFor, parity, sense, inRegion, entered, left, pc, barrierFlag,
                      barrierCount, seen, flag, round, championSense, childNotReady,
                      wakeupSense>>
      BY <1>1 DEF vars, simpleVars, roundVars, treeVars
    <2>2. UNCHANGED Simple!vars /\ UNCHANGED Dissem!vars /\ UNCHANGED Tree!vars
      BY <2>1 DEF Simple!vars, Simple!teamVars, Simple!sizeVars, Simple!localVars,
         Simple!countVars, Simple!simpleVars, Dissem!vars, Dissem!teamVars,
         Dissem!sizeVars, Dissem!localVars, Dissem!countVars, Dissem!dissemVars,
         Tree!vars, Tree!teamVars, Tree!sizeVars, Tree!localVars, Tree!countVars,
         Tree!treeVars
    <2>3. \A k \in TourKinds : UNCHANGED Tour(k)!vars
      BY <2>1 DEF Tour!vars, Tour!teamVars, Tour!sizeVars, Tour!localVars, Tour!countVars,
         Tour!tourVars
    <2> QED
      BY <2>1, <2>2, <2>3
  <1>2. CASE Next
    <2>1. /\ UNCHANGED xbarrierType
          /\ \/ xbarrierType = "simple" /\ Simple!Next
             \/ xbarrierType = "dissem" /\ Dissem!Next
             \/ \E k \in TourKinds : xbarrierType = k /\ Tour(k)!Next
             \/ xbarrierType = "tree" /\ Tree!Next
             \/ xbarrierType \in {"team", "flagged", "counted", "counter", "ping_pong",
                                  "sense_rev", "csr"}
      BY <1>2 DEF Next, RunSimple, RunDissem, RunTour, RunTree, RunTeam, RunImages, Chosen
    <2>2. ASSUME xbarrierType = "simple" PROVE Simple!Next
      BY <2>1, <2>2 DEF TourKinds
    <2>3. ASSUME xbarrierType = "dissem" PROVE Dissem!Next
      BY <2>1, <2>3 DEF TourKinds
    <2>4. ASSUME NEW k \in TourKinds, xbarrierType = k PROVE Tour(k)!Next
      BY <2>1, <2>4 DEF TourKinds
    <2>5. ASSUME xbarrierType = "tree" PROVE Tree!Next
      BY <2>1, <2>5 DEF TourKinds
    <2> QED
      BY <2>1, <2>2, <2>3, <2>4, <2>5
  <1> QED
    BY <1>1, <1>2

\* omp_xbarrier.c:316-328: SIMPLE's count of the threads at a barrier is right
\* whatever the sizes of the teams.
THEOREM CountsWaiters == Spec => []CountIsWaiters
  <1> DEFINE Inv == xbarrierType = "simple" => Simple!IInv
  <1>1. Init => Inv
    BY KindInit, SimpleInitInv, Sizes
  <1>2. Inv /\ [Next]_vars => Inv'
    BY KindStep, SimpleStepInv, Sizes
  <1>3. Inv => CountIsWaiters
    BY DEF CountIsWaiters, Simple!IInv
  <1> QED
    BY <1>1, <1>2, <1>3, PTL DEF Spec

\* The invariants of the four algorithms, in a program whose forks never leave
\* a stale barrier (TOUR: whose regions all ask for one size).
LEMMA Invariants == Survives => (Spec => []IInv)
  <1> SUFFICES ASSUME Survives PROVE Spec => []IInv
    OBVIOUS
  <1>1. Init => IInv
    BY KindInit, SimpleInitInv, DissemInitInv, TourInitInv, TreeInitInv, Sizes DEF IInv
  <1>2. IInv /\ [Next]_vars => IInv'
    <2> SUFFICES ASSUME IInv, [Next]_vars PROVE IInv'
      OBVIOUS
    <2>1. xbarrierType' = "simple" => Simple!IInv'
      BY KindStep, SimpleStepInv, Sizes DEF IInv
    <2>2. xbarrierType' = "dissem" => Dissem!IInv'
      BY KindStep, DissemStepInv, Sizes DEF IInv, Survives
    <2>3. \A k \in TourKinds : xbarrierType' = k => Tour(k)!IInv'
      BY KindStep, TourStepInv, Sizes DEF IInv, Survives
    <2>4. xbarrierType' = "tree" => Tree!IInv'
      BY KindStep, TreeStepInv, Sizes DEF IInv, Survives
    <2> QED
      BY <2>1, <2>2, <2>3, <2>4 DEF IInv
  <1> QED
    BY <1>1, <1>2, PTL DEF Spec

\* omp_xbarrier.c:415-421: a node of TREE that sets its flags back for the next
\* barrier has every child's report of this one.
THEOREM ReportsKept == Survives => (Spec => []NoReportLost)
  <1> SUFFICES ASSUME Survives PROVE Spec => []NoReportLost
    OBVIOUS
  <1>1. IInv => NoReportLost
    BY TreeNoReportLost, Sizes DEF IInv, NoReportLost
  <1> QED
    BY <1>1, Invariants, PTL

\* omp_xbarrier.c:349-360: two sets of flags are enough, however many threads
\* the ring has and however the barriers overlap.
THEOREM SignalsKept == Survives => (Spec => []NoSignalOverwritten)
  <1> SUFFICES ASSUME Survives PROVE Spec => []NoSignalOverwritten
    OBVIOUS
  <1>1. IInv => NoSignalOverwritten
    BY DissemNoSignalOverwritten, Sizes DEF IInv, NoSignalOverwritten
  <1> QED
    BY <1>1, Invariants, PTL

\* omp_xbarrier.c:363-400: the one global champion_sense, never set back, still
\* closes the first barrier of every region.
THEOREM StartsClosed == Survives => (Spec => []ClosedBetweenRegions)
  <1> SUFFICES ASSUME Survives PROVE Spec => []ClosedBetweenRegions
    OBVIOUS
  <1>1. IInv => ClosedBetweenRegions
    BY TourClosed, Sizes DEF IInv, ClosedBetweenRegions
  <1> QED
    BY <1>1, Invariants, PTL

OpenMPKinds == {"simple", "dissem", "tree"} \cup TourKinds

\* omp_xbarrier.c:309-431: whichever of the four runs, every step is one that
\* TeamBarrier allows or leaves its state as it is, so that no thread leaves its
\* k-th barrier of a region before all have entered it: the safety half of
\* ImplementsTeamBarrier.
THEOREM BarriersRefine ==
    Survives => (Spec /\ xbarrierType \in OpenMPKinds => TB!Init /\ [][TB!Next]_(TB!vars))
  <1> SUFFICES ASSUME Survives
               PROVE  Spec /\ xbarrierType \in OpenMPKinds
                        => TB!Init /\ [][TB!Next]_(TB!vars)
    OBVIOUS
  <1> DEFINE Kind == xbarrierType \in OpenMPKinds
  <1>1. Init /\ Kind => TB!Init
    BY KindInit, SimpleInitRefines, DissemInitRefines, TourInitRefines, TreeInitRefines, Sizes
       DEF OpenMPKinds
  <1>2. Kind /\ [Next]_vars => Kind'
    BY KindStep
  <1>3. IInv /\ Kind /\ [Next]_vars => [TB!Next]_(TB!vars)
    <2> SUFFICES ASSUME IInv, Kind, [Next]_vars PROVE [TB!Next]_(TB!vars)
      OBVIOUS
    <2>1. CASE xbarrierType = "simple"
      BY <2>1, KindStep, SimpleStepRefines, Sizes DEF IInv
    <2>2. CASE xbarrierType = "dissem"
      BY <2>2, KindStep, DissemStepRefines, Sizes DEF IInv, Survives
    <2>3. CASE xbarrierType = "tree"
      BY <2>3, KindStep, TreeStepRefines, Sizes DEF IInv, Survives
    <2>4. CASE xbarrierType \in TourKinds
      BY <2>4, KindStep, TourStepRefines, Sizes DEF IInv, Survives
    <2> QED
      BY <2>1, <2>2, <2>3, <2>4 DEF OpenMPKinds
  <1> QED
    BY <1>1, <1>2, <1>3, Invariants, PTL DEF Spec
=============================================================================
