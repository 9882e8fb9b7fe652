---------------------------- MODULE WorksharingProofs ----------------------------
(***************************************************************************)
(* Proofs about Worksharing: for programs that survive (WorksharingProps), *)
(* IInv is inductive, and every iteration and every single is executed     *)
(* once and in time, ordered regions in sequence, copies from the single.  *)
(***************************************************************************)
EXTENDS WorksharingProps, FiniteSetTheorems, NaturalsInduction, TLAPS

-----------------------------------------------------------------------------
(* Arithmetic *)

Smaller == {mn \in Nat \X Nat : mn[1] < mn[2]}

\* A set of naturals has a least member.
LEMMA Least ==
    ASSUME NEW S \in SUBSET Nat, S # {}
    PROVE  \E m \in S : \A n \in S : m <= n
<1>1. Smaller = OpToRel(<, Nat)
    BY Zenon DEF OpToRel, Smaller
<1>2. IsWellFoundedOn(Smaller, Nat)
    BY <1>1, NatLessThanWellFounded, Zenon
<1>3. PICK m \in S : \A n \in S : <<n, m>> \notin Smaller
    BY <1>2, WFMin, Zenon
<1>4. \A n \in S : <<n, m>> \in Nat \X Nat
    OBVIOUS
<1>5. \A n \in S : ~(n < m)
    BY <1>3, <1>4 DEF Smaller
<1> QED
    BY <1>5

\* Multiplication by an increment keeps the order, or turns it round.
LEMMA Scale ==
    ASSUME NEW a \in Int, NEW b \in Int, NEW c \in Int
    PROVE  /\ a * c \in Int /\ b * c \in Int
           /\ c > 0 => (a < b <=> a * c < b * c)
           /\ c < 0 => (a < b <=> b * c < a * c)
<1>1. a * c \in Int /\ b * c \in Int /\ (b - a) * c = b * c - a * c
      /\ (a - b) * c = a * c - b * c
    OBVIOUS
<1>2. \A d \in Nat : c > 0 => d * c >= 0 /\ (d > 0 => d * c > 0)
    OBVIOUS
<1>3. \A d \in Nat : c < 0 => d * c <= 0 /\ (d > 0 => d * c < 0)
    OBVIOUS
<1>4. CASE a < b
    <2>1. PICK d \in Nat : d = b - a /\ d > 0
        BY <1>4
    <2> QED
        BY <1>1, <1>2, <1>3, <1>4, <2>1
<1>5. CASE ~(a < b)
    <2>1. PICK d \in Nat : d = a - b
        BY <1>5
    <2> QED
        BY <1>1, <1>2, <1>3, <1>5, <2>1
<1> QED
    BY <1>4, <1>5, <1>1

LEMMA Distribute ==
    \A p, n, c \in Nat, d \in Int :
        /\ p * c \in Nat /\ c * n \in Int /\ (p + 1) * c = p * c + c
        /\ (p + n) * c = p * c + c * n /\ (c * d) * n = (c * n) * d
OBVIOUS

\* Quotient and remainder.
LEMMA Divide ==
    ASSUME NEW n \in Int, NEW d \in Nat \ {0}
    PROVE  /\ n \div d \in Int /\ n % d \in 0..(d - 1)
           /\ n = d * (n \div d) + (n % d)
OBVIOUS

\* The quotient is the only number of its kind.
LEMMA DivideIs ==
    ASSUME NEW n \in Int, NEW d \in Nat \ {0}, NEW q \in Int, d * q <= n, n < d * (q + 1)
    PROVE  n \div d = q
<1> DEFINE p == n \div d
<1>1. p \in Int /\ d * p <= n /\ n < d * (p + 1)
    BY Divide
<1> HIDE DEF p
<1>2. ~(p < q)
    <2>1. SUFFICES ASSUME p + 1 <= q PROVE FALSE
        BY <1>1
    <2>2. (p + 1) * d <= q * d
        BY <1>1, <2>1, Scale
    <2> QED
        BY <1>1, <2>2
<1>3. ~(q < p)
    <2>1. SUFFICES ASSUME q + 1 <= p PROVE FALSE
        BY <1>1
    <2>2. (q + 1) * d <= p * d
        BY <1>1, <2>1, Scale
    <2> QED
        BY <1>1, <2>2
<1> QED
    BY <1>1, <1>2, <1>3 DEF p

\* It grows with the dividend.
LEMMA DivideGrows ==
    ASSUME NEW m \in Int, NEW n \in Int, NEW d \in Nat \ {0}, m <= n
    PROVE  m \div d <= n \div d
<1> DEFINE p == m \div d  q == n \div d
<1>1. p \in Int /\ q \in Int /\ d * p <= m /\ n < d * (q + 1)
    BY Divide
<1> HIDE DEF p, q
<1>2. ~(q + 1 <= p)
    <2>1. SUFFICES ASSUME q + 1 <= p PROVE FALSE
        OBVIOUS
    <2>2. (q + 1) * d <= p * d
        BY <1>1, <2>1, Scale
    <2> QED
        BY <1>1, <2>2
<1> QED
    BY <1>1, <1>2 DEF p, q

\* A chunk's number says whose it is and which of his it is.
LEMMA NumberOnce ==
    ASSUME NEW d \in Nat \ {0}, NEW s \in Nat, NEW x \in Nat, NEW t \in 0..(d - 1),
           NEW u \in 0..(d - 1), s * d + t = x * d + u
    PROVE  s = x /\ t = u
<1>1. s * d \in Int /\ x * d \in Int /\ (s + 1) * d = s * d + d /\ (x + 1) * d = x * d + d
    OBVIOUS
<1>2. ~(s < x)
    <2>1. s + 1 <= x => (s + 1) * d <= x * d
        BY Scale
    <2> QED
        BY <1>1, <2>1
<1>3. ~(x < s)
    <2>1. x + 1 <= s => (x + 1) * d <= s * d
        BY Scale
    <2> QED
        BY <1>1, <2>1
<1> QED
    BY <1>1, <1>2, <1>3

-----------------------------------------------------------------------------
(* The iterations of a loop *)

LEMMA LoopFields ==
    ASSUME NEW k, IsLoop(program[k])
    PROVE  /\ program[k].lower \in Int /\ program[k].upper \in Int
           /\ program[k].incr \in Int /\ program[k].incr # 0
           /\ program[k].chunk \in Int /\ program[k].kind = "loop"
           /\ program[k].ordered \in BOOLEAN /\ program[k].collapsed \in BOOLEAN
           /\ program[k].nowait \in BOOLEAN
           /\ program[k].sched \in AtRuntime \cup {"init_even", "init_chunk"}
           /\ program[k].sched \notin {"static_even", "init_even"} => program[k].chunk > 0
           /\ program[k].collapsed =>
                 program[k].lower = 0 /\ program[k].upper >= -1 /\ program[k].incr = 1
BY DEF IsLoop

\* Which of two values the loop reaches first.
LEMMA ValueOrder ==
    ASSUME NEW k, IsLoop(program[k]), NEW i \in Int, NEW j \in Int
    PROVE  /\ Value(k, i) \in Int
           /\ Past(Value(k, i), Value(k, j), program[k].incr) <=> j < i
           /\ Value(k, i) = Value(k, j) <=> i = j
           /\ Value(k, i) + j * program[k].incr = Value(k, i + j)
           /\ Value(k, i) + program[k].incr = Value(k, i + 1)
           /\ Value(k, 0) = program[k].lower
<1> DEFINE l == program[k].lower  c == program[k].incr  a == i * c  b == j * c
<1>1. l \in Int /\ c \in Int /\ c # 0
    BY LoopFields
<1>2. a \in Int /\ b \in Int /\ (i + j) * c = a + b /\ (i + 1) * c = a + c
    BY <1>1
<1>3. /\ c > 0 => (i < j <=> a < b)
      /\ c < 0 => (i < j <=> b < a)
      /\ c > 0 => (j < i <=> b < a)
      /\ c < 0 => (j < i <=> a < b)
    BY <1>1, Scale
<1>4. Value(k, i) = l + a /\ Value(k, j) = l + b /\ Value(k, i + j) = l + (i + j) * c
      /\ Value(k, i + 1) = l + (i + 1) * c /\ Value(k, 0) = l + 0 * c
    BY DEF Value
<1> HIDE DEF a, b, l, c
<1>5. Past(Value(k, i), Value(k, j), c) <=> j < i
    BY <1>1, <1>2, <1>3, <1>4 DEF Past
<1>6. Value(k, i) = Value(k, j) <=> i = j
    BY <1>1, <1>2, <1>3, <1>4
<1>7. Value(k, i) + b = Value(k, i + j) /\ Value(k, i) + c = Value(k, i + 1) /\ Value(k, 0) = l
    BY <1>1, <1>2, <1>4
<1> QED
    BY <1>1, <1>2, <1>4, <1>5, <1>6, <1>7 DEF b, c, l

LEMMA ValueMoves ==
    ASSUME NEW k, IsLoop(program[k])
    PROVE  \A i, j \in Int : /\ Value(k, i) \in Int
                            /\ Value(k, i) + j * program[k].incr = Value(k, i + j)
<1>1. \A i \in Int : Value(k, i) \in Int
    BY ValueOrder
<1>2. ASSUME NEW i \in Int, NEW j \in Int
      PROVE  Value(k, i) + j * program[k].incr = Value(k, i + j)
    <2>1. PICK c \in Int : c = program[k].incr /\ program[k].lower \in Int
        BY LoopFields
    <2>2. (i + j) * c = i * c + j * c /\ i * c \in Int /\ j * c \in Int
        OBVIOUS
    <2> QED
        BY <2>1, <2>2 DEF Value
<1> QED
    BY <1>1, <1>2

LEMMA ValueOnce ==
    ASSUME NEW k, IsLoop(program[k]), NEW i \in Int, NEW j \in Int, Value(k, i) = Value(k, j)
    PROVE  i = j
<1>1. /\ ~Past(Value(k, i), Value(k, j), program[k].incr)
      /\ ~Past(Value(k, j), Value(k, i), program[k].incr)
    <2>1. Value(k, i) \in Int /\ program[k].incr \in Int
        BY ValueMoves, LoopFields
    <2> QED
        BY <2>1 DEF Past
<1>2. ~(i < j)
    <2>1. Past(Value(k, j), Value(k, i), program[k].incr) <=> i < j
        BY ValueOrder
    <2> QED
        BY <1>1, <2>1
<1>3. ~(j < i)
    <2>1. Past(Value(k, i), Value(k, j), program[k].incr) <=> j < i
        BY ValueOrder
    <2> QED
        BY <1>1, <2>1
<1> QED
    BY <1>2, <1>3

\* The limit of the loop cuts the values off after the last iteration.
LEMMA ValueLimit ==
    ASSUME NEW k, IsLoop(program[k])
    PROVE  /\ Trip(k) \in Nat
           /\ \A i \in Nat : Past(Value(k, i), program[k].upper, program[k].incr) <=> i >= Trip(k)
           /\ Past(program[k].lower, program[k].upper, program[k].incr) => Trip(k) = 0
           /\ ~Past(program[k].lower, program[k].upper, program[k].incr) =>
                 Trip(k) = Trips(program[k].lower, program[k].upper, program[k].incr) /\ Trip(k) > 0
<1> DEFINE l == program[k].lower  u == program[k].upper  c == program[k].incr
<1>1. l \in Int /\ u \in Int /\ c \in Int /\ c # 0
    BY LoopFields
<1>2. ASSUME NEW i \in Nat
      PROVE  i * c \in Int /\ (c > 0 => i * c >= 0) /\ (c < 0 => i * c <= 0) /\ Value(k, i) = l + i * c
    <2>1. i * c \in Int
        BY <1>1
    <2>2. (c > 0 => i * c >= 0) /\ (c < 0 => i * c <= 0)
        <3>1. i = 0 => i * c = 0
            BY <1>1
        <3>2. c > 0 => (0 < i <=> 0 * c < i * c)
            BY <1>1, Scale
        <3>3. c < 0 => (0 < i <=> i * c < 0 * c)
            BY <1>1, Scale
        <3>4. 0 * c = 0
            BY <1>1
        <3> QED
            BY <1>1, <2>1, <3>1, <3>2, <3>3, <3>4
    <2> QED
        BY <2>1, <2>2 DEF Value
<1>3. CASE Past(l, u, c)
    <2>1. Trip(k) = 0
        BY <1>3 DEF Trip
    <2>2. \A i \in Nat : Past(Value(k, i), u, c)
        <3> SUFFICES ASSUME NEW i \in Nat PROVE Past(Value(k, i), u, c)
            OBVIOUS
        <3> HIDE DEF l, u, c
        <3> QED
            BY <1>1, <1>2, <1>3 DEF Past
    <2> QED
        BY <1>3, <2>1, <2>2
<1>4. CASE ~Past(l, u, c)
    <2> DEFINE q == Abs(u - l) \div Abs(c)
    <2>1. Trip(k) = Trips(l, u, c)
        BY <1>4 DEF Trip
    <2>2. Abs(c) \in Nat \ {0} /\ Abs(u - l) \in Nat
        BY <1>1 DEF Abs
    <2>3. q \in Int /\ Abs(c) * q <= Abs(u - l) /\ Abs(u - l) < Abs(c) * (q + 1)
        <3> DEFINE m == Abs(u - l)  d == Abs(c)
        <3>1. m \in Int /\ d \in Nat \ {0}
            BY <2>2
        <3>4. q = m \div d /\ Abs(u - l) = m /\ Abs(c) = d
            OBVIOUS
        <3> HIDE DEF m, d, q
        <3>2. m \div d \in Int /\ m % d \in 0..(d - 1) /\ m = d * (m \div d) + (m % d)
            BY <3>1, Divide
        <3>3. d * (m \div d + 1) = d * (m \div d) + d
            BY <3>1, <3>2
        <3> QED
            BY <3>1, <3>2, <3>3, <3>4
    <2>4. q \in Nat
        <3>1. SUFFICES ASSUME q + 1 <= 0 PROVE FALSE
            BY <2>3
        <3>2. (q + 1) * Abs(c) <= 0 * Abs(c)
            BY <2>2, <2>3, <3>1, Scale
        <3> QED
            BY <2>2, <2>3, <3>2
    <2> HIDE DEF l, u, c
    <2>5. Quot(u - l, c) = q
        <3>1. (u - l < 0) = (c < 0) \/ u - l = 0
            BY <1>1, <1>4 DEF Past
        <3>2. u - l = 0 => q = 0
            <4>1. Abs(0) = 0
                BY DEF Abs
            <4>2. u - l = 0 => Abs(c) * q <= 0
                BY <2>3, <4>1
            <4>3. q > 0 => 0 * Abs(c) < q * Abs(c)
                BY <2>2, <2>4, Scale
            <4> QED
                BY <2>2, <2>3, <2>4, <4>2, <4>3
        <3> QED
            BY <2>4, <3>1, <3>2 DEF Quot
    <2>6. Trips(l, u, c) = q + 1
        BY <2>5 DEF Trips
    <2>7. ASSUME NEW i \in Nat PROVE Past(Value(k, i), u, c) <=> i >= q + 1
        <3> HIDE DEF q
        <3>1. i <= q => i * Abs(c) <= q * Abs(c)
            BY <2>2, <2>4, Scale
        <3>2. i >= q + 1 => i * Abs(c) >= (q + 1) * Abs(c)
            BY <2>2, <2>4, Scale
        <3>3. i <= q <=> i * Abs(c) <= Abs(u - l)
            <4>1. i * Abs(c) \in Int /\ q * Abs(c) \in Int /\ (q + 1) * Abs(c) \in Int
                BY <2>2, <2>4
            <4>2. q * Abs(c) <= Abs(u - l) /\ Abs(u - l) < (q + 1) * Abs(c)
                BY <2>2, <2>3, <2>4
            <4> QED
                BY <2>2, <2>4, <3>1, <3>2, <4>1, <4>2
        <3>4. Past(Value(k, i), u, c) <=> ~(i * Abs(c) <= Abs(u - l))
            <4>1. CASE c > 0
                <5>1. Abs(c) = c /\ Abs(u - l) = u - l
                    BY <1>1, <1>4, <4>1 DEF Abs, Past
                <5> QED
                    BY <1>1, <1>2, <4>1, <5>1 DEF Past
            <4>2. CASE c < 0
                <5>1. Abs(c) = -c /\ Abs(u - l) = l - u /\ i * (-c) = -(i * c)
                    BY <1>1, <1>4, <4>2 DEF Abs, Past
                <5> QED
                    BY <1>1, <1>2, <4>2, <5>1 DEF Past
            <4> QED
                BY <1>1, <4>1, <4>2
        <3> QED
            BY <2>4, <3>3, <3>4
    <2> HIDE DEF q
    <2>8. Trip(k) \in Nat /\ Trip(k) > 0 /\ Trip(k) = q + 1
        BY <2>1, <2>4, <2>6
    <2> QED
        BY <1>4, <2>1, <2>7, <2>8 DEF l, u, c
<1> QED
    BY <1>3, <1>4

-----------------------------------------------------------------------------
(* The chunks of a static schedule *)

InTurn(k) == program[k].sched = "static" \/ (program[k].sched = "init_chunk" /\ teamSize > 1)

\* The chunks follow one another; those of an even schedule are as many as the
\* threads, and end where the loop does.
LEMMA StartFacts ==
    ASSUME NEW k, IsLoop(program[k]), teamSize \in Nat \ {0}
    PROVE  /\ \A q \in Nat : Start(k, q) \in Nat
           /\ Start(k, 0) = 0
           /\ \A p, q \in Nat : p <= q => Start(k, p) <= Start(k, q)
           /\ InTurn(k) => \A q \in Nat : Start(k, q) = q * program[k].chunk /\ Start(k, q) >= q
           /\ ~InTurn(k) => Start(k, teamSize) >= Trip(k)
           /\ ~InTurn(k) /\ program[k].collapsed => Start(k, teamSize) = Trip(k)
<1> DEFINE c == program[k].chunk
<1>n. PICK n : n = Trip(k)
    OBVIOUS
<1>0. n \in Nat /\ (InTurn(k) => c \in Nat \ {0})
    <2>1. Trip(k) \in Nat
        BY ValueLimit
    <2>2. InTurn(k) => program[k].chunk > 0 /\ program[k].chunk \in Int
        BY LoopFields DEF InTurn
    <2> QED
        BY <1>n, <2>1, <2>2
<1>m. n \in Int
    BY <1>0
<1>1. CASE InTurn(k)
    <2>1. \A q \in Nat : Start(k, q) = q * c
        BY <1>1 DEF Start, InTurn
    <2> HIDE DEF c
    <2>2. \A q \in Nat : q * c \in Nat /\ q * c >= q
        BY <1>0, <1>1
    <2>3. \A p, q \in Nat : p <= q => p * c <= q * c
        <3> SUFFICES ASSUME NEW p \in Nat, NEW q \in Nat, p <= q PROVE p * c <= q * c
            OBVIOUS
        <3> QED
            BY <1>0, <1>1, Scale
    <2>4. 0 * c = 0
        BY <1>0, <1>1
    <2> QED
        BY <1>1, <2>1, <2>2, <2>3, <2>4 DEF c
<1>2. CASE ~InTurn(k) /\ ~program[k].collapsed
    <2> DEFINE b == (n \div teamSize) + (IF n % teamSize = 0 THEN 0 ELSE 1)
    <2>1. \A q \in Nat : Start(k, q) = q * b
        BY <1>2, <1>n DEF Start, InTurn
    <2>2. b \in Nat /\ teamSize * b >= n
        <3> DEFINE d == n \div teamSize  r == n % teamSize
        <3>1. d \in Int /\ r \in 0..(teamSize - 1) /\ n = teamSize * d + r
            BY <1>m, Divide, Zenon
        <3> HIDE DEF d, r
        <3>2. d >= 0
            <4>1. d + 1 <= 0 => (d + 1) * teamSize <= 0 * teamSize
                BY <3>1, Scale
            <4> QED
                BY <1>0, <3>1, <4>1
        <3>3. teamSize * (d + 1) = teamSize * d + teamSize
            BY <3>1
        <3>4. b = d + (IF r = 0 THEN 0 ELSE 1)
            BY DEF d, r
        <3> QED
            BY <1>0, <3>1, <3>2, <3>3, <3>4
    <2> HIDE DEF b
    <2>3. \A q \in Nat : q * b \in Nat
        BY <2>2
    <2>4. \A p, q \in Nat : p <= q => p * b <= q * b
        <3> SUFFICES ASSUME NEW p \in Nat, NEW q \in Nat, p <= q PROVE p * b <= q * b
            OBVIOUS
        <3>1. (q - p) * b = q * b - p * b /\ (q - p) * b >= 0
            BY <2>2
        <3> QED
            BY <2>2, <2>3, <3>1
    <2>5. 0 * b = 0
        BY <2>2
    <2> QED
        BY <1>2, <2>1, <2>2, <2>3, <2>4, <2>5, <1>n
<1>3. CASE ~InTurn(k) /\ program[k].collapsed
    <2> DEFINE d == n \div teamSize  r == n % teamSize
    <2>1. \A q \in Nat : Start(k, q) = d * q + (r * q) \div teamSize
        BY <1>3, <1>n DEF Start, InTurn
    <2>2. d \in Int /\ r \in 0..(teamSize - 1) /\ n = teamSize * d + r
        BY <1>m, Divide, Zenon
    <2> HIDE DEF d, r
    <2>3. d \in Nat
        <3>1. d + 1 <= 0 => (d + 1) * teamSize <= 0 * teamSize
            BY <2>2, Scale
        <3> QED
            BY <1>0, <2>2, <3>1
    <2>4. \A q \in Nat : r * q \in Nat /\ d * q \in Nat /\ (r * q) \div teamSize \in Nat
        <3> SUFFICES ASSUME NEW q \in Nat
                     PROVE  r * q \in Nat /\ d * q \in Nat /\ (r * q) \div teamSize \in Nat
            OBVIOUS
        <3>1. r * q \in Nat /\ d * q \in Nat
            BY <2>2, <2>3
        <3>2. 0 \div teamSize = 0
            BY DivideIs
        <3>3. 0 \div teamSize <= (r * q) \div teamSize /\ (r * q) \div teamSize \in Int
            BY <3>1, DivideGrows, Divide
        <3> QED
            BY <3>1, <3>2, <3>3
    <2>5. ASSUME NEW p \in Nat, NEW q \in Nat, p <= q PROVE Start(k, p) <= Start(k, q)
        <3>1. r * p <= r * q /\ d * p <= d * q
            <4>1. (q - p) * r = r * q - r * p /\ (q - p) * d = d * q - d * p
                  /\ (q - p) * r >= 0 /\ (q - p) * d >= 0
                BY <2>2, <2>3, <2>5
            <4> QED
                BY <2>4, <4>1
        <3>2. (r * p) \div teamSize <= (r * q) \div teamSize
            BY <2>4, <3>1, DivideGrows
        <3>3. Start(k, p) = d * p + (r * p) \div teamSize /\ Start(k, q) = d * q + (r * q) \div teamSize
            BY <2>1
        <3> QED
            BY <2>4, <3>1, <3>2, <3>3
    <2>6. Start(k, 0) = 0
        <3>1. d * 0 = 0 /\ r * 0 = 0 /\ 0 \div teamSize = 0
            BY <2>2, <2>3, DivideIs
        <3> QED
            BY <2>1, <3>1
    <2>7. Start(k, teamSize) = n
        <3>1. (r * teamSize) \div teamSize = r
            <4>1. r * teamSize \in Int /\ teamSize * r = r * teamSize
                  /\ teamSize * (r + 1) = r * teamSize + teamSize
                BY <2>2
            <4> QED
                BY <2>2, <4>1, DivideIs
        <3>2. Start(k, teamSize) = d * teamSize + (r * teamSize) \div teamSize
            BY <2>1
        <3>3. d * teamSize + r = n
            BY <2>2, <2>3
        <3> QED
            BY <3>1, <3>2, <3>3
    <2>8. \A q \in Nat : Start(k, q) \in Nat
        <3> SUFFICES ASSUME NEW q \in Nat PROVE Start(k, q) \in Nat
            OBVIOUS
        <3> QED
            BY <2>1, <2>4
    <2> QED
        BY <1>0, <1>3, <2>8, <2>5, <2>6, <2>7, <1>n
<1> QED
    BY <1>1, <1>2, <1>3

\* The iterations of a chunk come before those of the next ones.
LEMMA ChunkOrder ==
    ASSUME NEW k, IsLoop(program[k]), teamSize \in Nat \ {0},
           NEW p \in Nat, NEW q \in Nat, NEW i \in Int, NEW j \in Int,
           InChunk(k, p, i), InChunk(k, q, j)
    PROVE  /\ p < q => i < j
           /\ i = j => p = q
<1>1. /\ \A m \in Nat : Start(k, m) \in Nat
      /\ \A m, n \in Nat : m <= n => Start(k, m) <= Start(k, n)
    BY StartFacts
<1>2. p + 1 \in Nat /\ q + 1 \in Nat
    OBVIOUS
<1>3. /\ Start(k, p) <= i /\ i < Start(k, p + 1) /\ Start(k, q) <= j /\ j < Start(k, q + 1)
    BY DEF InChunk
<1>4. /\ p + 1 <= q => Start(k, p + 1) <= Start(k, q)
      /\ q + 1 <= p => Start(k, q + 1) <= Start(k, p)
    BY <1>1, <1>2
<1>5. /\ Start(k, p) \in Nat /\ Start(k, p + 1) \in Nat
      /\ Start(k, q) \in Nat /\ Start(k, q + 1) \in Nat
    BY <1>1, <1>2
<1> QED
    BY <1>3, <1>4, <1>5

\* A chunk's number.
LEMMA Numbers ==
    ASSUME teamSize \in Nat \ {0}, NEW t \in Team, NEW s \in Nat
    PROVE  /\ Number(t, s) \in Nat /\ Number(t, s) >= t /\ Number(t, 0) = t
           /\ Number(t, s) >= s
           /\ s >= 1 => Number(t, s) >= teamSize
           /\ Number(t, s + 1) = Number(t, s) + teamSize
           /\ \A u \in Team, x \in Nat : Number(t, s) = Number(u, x) => t = u /\ s = x
<1>1. t \in 0..(teamSize - 1)
    BY DEF Team
<1>2. /\ s * teamSize \in Nat /\ s * teamSize >= s /\ 0 * teamSize = 0
      /\ (s + 1) * teamSize = s * teamSize + teamSize
    OBVIOUS
<1>3. s >= 1 => s * teamSize >= teamSize
    OBVIOUS
<1>4. ASSUME NEW u \in Team, NEW x \in Nat, Number(t, s) = Number(u, x) PROVE t = u /\ s = x
    <2>1. u \in 0..(teamSize - 1) /\ s * teamSize + t = x * teamSize + u
        BY <1>4 DEF Team, Number
    <2> QED
        BY <1>1, <2>1, NumberOnce
<1> QED
    BY <1>1, <1>2, <1>3, <1>4 DEF Number

\* Whose iteration it is: exactly one chunk has it.
LEMMA InOneChunk ==
    ASSUME NEW k, IsLoop(program[k]), teamSize \in Nat \ {0}, NEW i \in Int,
           NEW t \in Team, NEW s \in Nat, InChunk(k, Number(t, s), i),
           NEW u \in Team, NEW x \in Nat, InChunk(k, Number(u, x), i)
    PROVE  t = u /\ s = x
<1>1. Number(t, s) \in Nat /\ Number(u, x) \in Nat
    BY Numbers
<1>2. Number(t, s) = Number(u, x)
    BY <1>1, ChunkOrder
<1> QED
    BY <1>2, Numbers

LEMMA Covered ==
    ASSUME NEW k, IsLoop(program[k]), teamSize \in Nat \ {0}, NEW i \in Iteration(k)
    PROVE  \E t \in Team, s \in 0..Trip(k) : InChunk(k, Number(t, s), i)
<1>0. Trip(k) \in Nat /\ i \in Nat /\ i < Trip(k)
    BY ValueLimit DEF Iteration
<1>1. /\ \A q \in Nat : Start(k, q) \in Nat
      /\ Start(k, 0) = 0
      /\ \A p, q \in Nat : p <= q => Start(k, p) <= Start(k, q)
      /\ InTurn(k) => \A q \in Nat : Start(k, q) >= q
      /\ ~InTurn(k) => Start(k, teamSize) >= Trip(k)
    BY StartFacts
<1> DEFINE S == {q \in Nat : i < Start(k, q + 1)}
<1>2. S # {}
    <2>1. CASE InTurn(k)
        <3>1. Start(k, i + 1) >= i + 1 /\ Start(k, i + 1) \in Nat
            BY <1>0, <1>1, <2>1
        <3> QED
            BY <1>0, <3>1
    <2>2. CASE ~InTurn(k)
        <3>1. teamSize - 1 \in Nat /\ (teamSize - 1) + 1 = teamSize /\ Start(k, teamSize) \in Nat
            BY <1>1
        <3>2. Start(k, (teamSize - 1) + 1) > i
            BY <1>0, <1>1, <2>2, <3>1
        <3> QED
            BY <3>1, <3>2
    <2> QED
        BY <2>1, <2>2
<1>3. PICK q \in S : \A m \in S : q <= m
    BY <1>2, Least
<1>4. Start(k, q) <= i
    <2>1. CASE q = 0
        BY <1>0, <1>1, <2>1
    <2>2. CASE q # 0
        <3>1. q - 1 \in Nat /\ q - 1 \notin S /\ (q - 1) + 1 = q
            BY <1>3, <2>2
        <3> QED
            BY <1>0, <1>1, <3>1
    <2> QED
        BY <2>1, <2>2
<1>5. q \in Nat /\ InChunk(k, q, i)
    BY <1>3, <1>4 DEF InChunk
<1> HIDE DEF S
<1>6. q \in Int
    BY <1>5
<1>7. q \div teamSize \in Int /\ q % teamSize \in 0..(teamSize - 1)
      /\ q = teamSize * (q \div teamSize) + (q % teamSize)
    BY <1>6, Divide, Zenon
<1>8. PICK s \in Int, t \in 0..(teamSize - 1) : q = teamSize * s + t
    BY <1>7
<1>9. s \in Nat /\ s <= q
    <2>1. s + 1 <= 0 => (s + 1) * teamSize <= 0 * teamSize
        BY Scale
    <2>2. s >= 0
        BY <1>5, <1>8, <2>1
    <2>3. s * teamSize >= s
        BY <2>2
    <2> QED
        BY <1>5, <1>8, <2>2, <2>3
<1>10. s <= Trip(k)
    <2>1. CASE InTurn(k)
        BY <1>0, <1>1, <1>4, <1>5, <1>9, <2>1
    <2>2. CASE ~InTurn(k)
        <3>1. ~(teamSize <= q)
            <4>1. teamSize <= q => Start(k, teamSize) <= Start(k, q)
                BY <1>1, <1>5
            <4>2. Start(k, teamSize) \in Nat /\ Start(k, q) \in Nat
                BY <1>1, <1>5
            <4> QED
                BY <1>0, <1>1, <1>4, <2>2, <4>1, <4>2
        <3>2. s = 0
            <4>1. s >= 1 => s * teamSize >= teamSize
                BY <1>9
            <4> QED
                BY <1>5, <1>8, <1>9, <3>1, <4>1
        <3> QED
            BY <1>0, <3>2
    <2> QED
        BY <2>1, <2>2
<1>11. Number(t, s) = q /\ t \in Team
    BY <1>8 DEF Number, Team
<1> QED
    BY <1>0, <1>5, <1>9, <1>10, <1>11

\* An even schedule has one chunk a thread.
LEMMA OneEach ==
    ASSUME NEW k, IsLoop(program[k]), teamSize \in Nat \ {0}, ~InTurn(k),
           NEW t \in Team, NEW s \in Nat, s >= 1
    PROVE  /\ \A i \in Iteration(k) : ~InChunk(k, Number(t, s), i)
           /\ Start(k, Number(t, s)) >= Trip(k)
<1>1. Number(t, s) \in Nat /\ Number(t, s) >= teamSize
    BY Numbers
<1>2. Start(k, Number(t, s)) >= Start(k, teamSize) /\ Start(k, teamSize) >= Trip(k)
      /\ Start(k, Number(t, s)) \in Nat /\ Start(k, teamSize) \in Nat /\ Trip(k) \in Nat
    BY <1>1, StartFacts, ValueLimit
<1>3. \A i \in Iteration(k) : i \in Int /\ i < Trip(k)
    BY <1>2 DEF Iteration
<1> QED
    BY <1>2, <1>3 DEF InChunk

-----------------------------------------------------------------------------
(* The chunk a thread is given *)

Records == [lower : Int, upper : Int, incr : Int, from : Int, stride : Int]

\* the iterations of a chunk
Within(k, c) == {i \in Iteration(k) : /\ ~Past(c.lower, Value(k, i), program[k].incr)
                                      /\ ~Past(Value(k, i), c.upper, program[k].incr)}

\* The compiled code cuts a chunk at the limit of the loop.
LEMMA Cut ==
    ASSUME NEW t, IsLoop(Here(t)), NEW c \in Records, c.incr = Here(t).incr,
           NEW a \in Nat, NEW b \in Int, c.lower = Value(at[t], a),
           \A i \in Iteration(at[t]) : ~Past(Value(at[t], i), c.upper, c.incr) <=> i < b,
           Here(t).collapsed => ~Past(c.upper, Here(t).upper, c.incr)
    PROVE  /\ Bounded(t, c) \in Records
           /\ Bounded(t, c).lower = c.lower /\ Bounded(t, c).incr = c.incr
           /\ Bounded(t, c).from = c.from /\ Bounded(t, c).stride = c.stride
           /\ ~Past(Bounded(t, c).upper, Here(t).upper, c.incr)
           /\ Within(at[t], Bounded(t, c)) = {i \in Iteration(at[t]) : a <= i /\ i < b}
           /\ ~Past(Bounded(t, c).lower, Bounded(t, c).upper, c.incr) => a \in Iteration(at[t])
<1> DEFINE k == at[t]  l == Here(t)  d == Bounded(t, c)
<1>0. l = program[k] /\ IsLoop(program[k])
    BY DEF Here
<1>1. /\ l.lower \in Int /\ l.upper \in Int /\ l.incr \in Int /\ l.incr # 0
      /\ l.collapsed \in BOOLEAN
    BY <1>0, LoopFields
<1>2. /\ c.lower \in Int /\ c.upper \in Int /\ c.incr \in Int /\ c.from \in Int /\ c.stride \in Int
    BY DEF Records
<1>3. /\ d \in Records /\ d.lower = c.lower /\ d.incr = c.incr
      /\ d.from = c.from /\ d.stride = c.stride
      /\ l.collapsed => d = c
      /\ ~l.collapsed => d.upper = IF c.incr > 0 THEN Lesser(c.upper, l.upper)
                                                 ELSE Larger(c.upper, l.upper)
    BY <1>1, <1>2 DEF Bounded, Records, Lesser, Larger
<1>4. \A v \in Int : ~Past(v, l.upper, c.incr) /\ ~Past(v, c.upper, c.incr) => ~Past(v, d.upper, c.incr)
    BY <1>1, <1>2, <1>3 DEF Past, Lesser, Larger
<1>5. \A v \in Int : ~Past(v, d.upper, c.incr) => ~Past(v, l.upper, c.incr) /\ ~Past(v, c.upper, c.incr)
    BY <1>1, <1>2, <1>3 DEF Past, Lesser, Larger
<1>6. ~Past(d.upper, l.upper, c.incr)
    BY <1>1, <1>2, <1>3 DEF Past, Lesser, Larger
<1>7. /\ Trip(k) \in Nat
      /\ \A i \in Nat : Value(k, i) \in Int /\ (Past(Value(k, i), l.upper, l.incr) <=> i >= Trip(k))
    <2>1. /\ Trip(k) \in Nat
          /\ \A i \in Nat : Past(Value(k, i), program[k].upper, program[k].incr) <=> i >= Trip(k)
        BY <1>0, ValueLimit
    <2>2. \A i \in Int : Value(k, i) \in Int
        BY <1>0, ValueOrder
    <2> QED
        BY <1>0, <2>1, <2>2
<1>8. \A i \in Iteration(k) : i \in Nat /\ i < Trip(k)
    BY <1>7 DEF Iteration
<1>9. Within(k, d) = {i \in Iteration(k) : a <= i /\ i < b}
    <2>1. ASSUME NEW i \in Iteration(k)
          PROVE  (~Past(d.lower, Value(k, i), l.incr) /\ ~Past(Value(k, i), d.upper, l.incr))
                    <=> (a <= i /\ i < b)
        <3>1. Past(Value(k, a), Value(k, i), l.incr) <=> i < a
            BY <1>0, <1>8, ValueOrder
        <3>2. ~Past(Value(k, i), d.upper, l.incr) <=> ~Past(Value(k, i), c.upper, l.incr)
            BY <1>4, <1>5, <1>7, <1>8
        <3>3. ~Past(Value(k, i), c.upper, l.incr) <=> i < b
            OBVIOUS
        <3> QED
            BY <1>3, <1>8, <3>1, <3>2, <3>3
    <2> QED
        BY <2>1, <1>0 DEF Within
<1>10. ASSUME ~Past(d.lower, d.upper, c.incr) PROVE a \in Iteration(k)
    <2>1. ~Past(Value(k, a), l.upper, c.incr)
        BY <1>3, <1>5, <1>7, <1>10
    <2>2. a < Trip(k)
        BY <1>7, <2>1
    <2> QED
        BY <1>7, <2>2 DEF Iteration
<1> QED
    BY <1>3, <1>6, <1>9, <1>10

\* The upper bound of a chunk that ends at an iteration.
LEMMA Ends ==
    ASSUME NEW k, IsLoop(program[k]), NEW b \in Int
    PROVE  \A i \in Iteration(k) : ~Past(Value(k, i), Value(k, b - 1), program[k].incr) <=> i < b
<1> SUFFICES ASSUME NEW i \in Iteration(k)
             PROVE  ~Past(Value(k, i), Value(k, b - 1), program[k].incr) <=> i < b
    OBVIOUS
<1>1. i \in Int /\ b - 1 \in Int
    BY ValueLimit DEF Iteration
<1>2. Past(Value(k, i), Value(k, b - 1), program[k].incr) <=> b - 1 < i
    BY <1>1, ValueOrder
<1> QED
    BY <1>1, <1>2

\* Nothing is left of a chunk of a loop without iterations.
LEMMA CutEmpty ==
    ASSUME NEW t, IsLoop(Here(t)), NEW c \in Records, c.incr = Here(t).incr,
           ~Here(t).collapsed, Trip(at[t]) = 0, NEW a \in Int, NEW b \in Int,
           c.lower = Value(at[t], a), c.upper = Value(at[t], b), a >= 0 \/ b < a
    PROVE  /\ Bounded(t, c) \in Records
           /\ Bounded(t, c).lower = c.lower /\ Bounded(t, c).incr = c.incr
           /\ Bounded(t, c).from = c.from /\ Bounded(t, c).stride = c.stride
           /\ ~Past(Bounded(t, c).upper, Here(t).upper, c.incr)
           /\ Past(Bounded(t, c).lower, Bounded(t, c).upper, c.incr)
<1> DEFINE k == at[t]  l == Here(t)  d == Bounded(t, c)
<1>0. l = program[k] /\ IsLoop(program[k])
    BY DEF Here
<1>1. /\ l.lower \in Int /\ l.upper \in Int /\ l.incr \in Int /\ l.incr # 0
    BY <1>0, LoopFields
<1>2. /\ c.lower \in Int /\ c.upper \in Int /\ c.incr \in Int /\ c.from \in Int /\ c.stride \in Int
    BY DEF Records
<1>3. /\ d \in Records /\ d.lower = c.lower /\ d.incr = c.incr
      /\ d.from = c.from /\ d.stride = c.stride
      /\ d.upper = IF c.incr > 0 THEN Lesser(c.upper, l.upper) ELSE Larger(c.upper, l.upper)
    BY <1>1, <1>2 DEF Bounded, Records, Lesser, Larger
<1>4. ~Past(d.upper, l.upper, c.incr)
    BY <1>1, <1>2, <1>3 DEF Past, Lesser, Larger
<1>5. Past(c.lower, c.upper, c.incr) \/ Past(c.lower, l.upper, c.incr)
    <2>1. CASE b < a
        <3>1. Past(Value(k, a), Value(k, b), program[k].incr)
            BY <1>0, <2>1, ValueOrder
        <3> QED
            BY <1>0, <3>1
    <2>2. CASE a >= 0
        <3>1. a \in Nat /\ a >= Trip(k)
            BY <2>2
        <3>2. Past(Value(k, a), program[k].upper, program[k].incr)
            BY <1>0, <3>1, ValueLimit
        <3> QED
            BY <1>0, <3>2
    <2> QED
        BY <2>1, <2>2
<1>6. Past(d.lower, d.upper, c.incr)
    BY <1>1, <1>2, <1>3, <1>5 DEF Past, Lesser, Larger
<1> QED
    BY <1>3, <1>4, <1>6

\* A multiple of the increment is that many of them.
LEMMA QuotExact ==
    ASSUME NEW m \in Int, NEW c \in Int, c # 0
    PROVE  Quot(m * c, c) = m
<1> DEFINE a == Abs(m)  d == Abs(c)
<1>1. a \in Nat /\ d \in Nat \ {0} /\ (m >= 0 => a = m) /\ (m < 0 => a = -m)
      /\ (c > 0 => d = c) /\ (c < 0 => d = -c)
    BY DEF Abs
<1>2. m * c \in Int /\ Abs(m * c) = a * d
    <2>1. m * c \in Int /\ (-m) * c = -(m * c) /\ m * (-c) = -(m * c) /\ (-m) * (-c) = m * c
        OBVIOUS
    <2>2. /\ c > 0 => (0 < m <=> 0 * c < m * c) /\ (m < 0 <=> m * c < 0 * c)
          /\ c < 0 => (0 < m <=> m * c < 0 * c) /\ (m < 0 <=> 0 * c < m * c)
        BY Scale
    <2>3. 0 * c = 0
        OBVIOUS
    <2>4. c > 0 \/ c < 0
        OBVIOUS
    <2>5. Abs(m * c) = IF m * c < 0 THEN -(m * c) ELSE m * c
        BY DEF Abs
    <2>6. a * d = IF m * c < 0 THEN -(m * c) ELSE m * c
        <3>1. CASE c > 0
            <4>1. d = c
                BY <1>1, <3>1
            <4>2. m >= 0 => a * d = m * c
                BY <1>1, <4>1
            <4>3. m < 0 => a * d = -(m * c)
                BY <1>1, <2>1, <4>1
            <4> HIDE DEF a, d
            <4> QED
                BY <2>1, <2>2, <2>3, <3>1, <4>2, <4>3
        <3>2. CASE c < 0
            <4>1. d = -c
                BY <1>1, <3>2
            <4>2. m >= 0 => a * d = -(m * c)
                BY <1>1, <2>1, <4>1
            <4>3. m < 0 => a * d = m * c
                BY <1>1, <2>1, <4>1
            <4>4. m = 0 => m * c = 0
                OBVIOUS
            <4> HIDE DEF a, d
            <4> QED
                BY <2>1, <2>2, <2>3, <3>2, <4>2, <4>3, <4>4
        <3> QED
            BY <2>4, <3>1, <3>2
    <2> QED
        BY <2>1, <2>5, <2>6
<1> HIDE DEF a, d
<1>3. (a * d) \div d = a
    <2>1. a * d \in Int /\ d * a <= a * d /\ a * d < d * (a + 1) /\ a \in Int
        BY <1>1
    <2> QED
        BY <1>1, <2>1, DivideIs
<1>4. (m * c < 0) = (c < 0) <=> (m > 0 \/ (m = 0 /\ c > 0))
    <2>1. /\ c > 0 => (m < 0 <=> m * c < 0 * c)
          /\ c < 0 => (0 < m <=> m * c < 0 * c)
        BY Scale
    <2>2. 0 * c = 0 /\ (c > 0 \/ c < 0) /\ m * c \in Int
        OBVIOUS
    <2>3. (m * c < 0) \in BOOLEAN /\ (c < 0) \in BOOLEAN
        OBVIOUS
    <2>4. (m * c < 0 <=> c < 0) <=> (m > 0 \/ (m = 0 /\ c > 0)) \/ (m >= 0 /\ c > 0)
        BY <2>1, <2>2
    <2> QED
        BY <2>2, <2>3, <2>4
<1>5. Quot(m * c, c) = LET q == Abs(m * c) \div Abs(c)
                       IN  IF (m * c < 0) = (c < 0) THEN q ELSE -q
    BY DEF Quot
<1> QED
    BY <1>1, <1>2, <1>3, <1>4, <1>5 DEF d

\* The block that an even schedule gives a thread is its chunk.
LEMMA EvenIs ==
    ASSUME NEW k, IsLoop(program[k]), teamSize \in Nat \ {0}, NEW t \in Team,
           ~InTurn(k), ~program[k].collapsed
    PROVE  LET l == program[k]
               c == EvenChunk(t, l.lower, l.upper, l.incr)
           IN  /\ c \in Records /\ c.incr = l.incr /\ c.from = c.lower /\ c.stride = 0
               /\ Trip(k) > 0 => /\ c.lower = Value(k, Start(k, t))
                                 /\ c.upper = Value(k, Start(k, t + 1) - 1)
                                 /\ Quot(c.upper - c.lower, c.incr) + 1
                                       = Start(k, t + 1) - Start(k, t)
               /\ \E a, b \in Int : /\ c.lower = Value(k, a) /\ c.upper = Value(k, b)
                                    /\ a >= 0 \/ b < a
<1> DEFINE lo == program[k].lower  hi == program[k].upper  incr == program[k].incr
           trips == Trips(lo, hi, incr)
           q == Quot(trips, teamSize)
           adj == IF trips % teamSize = 0 THEN -1 ELSE 0
           e == q + adj
           c == EvenChunk(t, lo, hi, incr)
<1>0. lo \in Int /\ hi \in Int /\ incr \in Int /\ incr # 0 /\ t \in Nat /\ t < teamSize
    BY LoopFields DEF Team
<1>1. c = Chunk(lo + t * (e * incr + incr), (lo + t * (e * incr + incr)) + e * incr, incr)
    BY DEF EvenChunk
<1>q. \A m \in Int, d \in Int \ {0} : Quot(m, d) \in Int
    <2>1. \A m \in Int, d \in Int \ {0} : Abs(m) \in Int /\ Abs(d) \in Nat \ {0}
        BY DEF Abs
    <2>2. ASSUME NEW m \in Int, NEW d \in Int \ {0} PROVE Abs(m) \div Abs(d) \in Int
        BY <2>1, Divide
    <2>3. ASSUME NEW m \in Int, NEW d \in Int \ {0} PROVE Quot(m, d) \in Int
        <3>1. PICK x \in Int : x = Abs(m) \div Abs(d)
            BY <2>2
        <3>2. Quot(m, d) = IF (m < 0) = (d < 0) THEN x ELSE -x
            BY <3>1 DEF Quot
        <3> QED
            BY <3>2
    <2> QED
        BY <2>3
<1>2. trips \in Int /\ q \in Int /\ adj \in {0, -1}
    <2>1. hi - lo \in Int
        BY <1>0
    <2>2. Quot(hi - lo, incr) \in Int
        BY <1>0, <2>1, <1>q
    <2>3. trips \in Int
        BY <2>2 DEF Trips
    <2> HIDE DEF trips
    <2> QED
        BY <1>q, <2>3
<1>3. e \in Int
    <2> HIDE DEF q, adj
    <2> QED
        BY <1>2
<1>4. Trip(k) > 0 => trips = Trip(k) /\ Trip(k) \in Nat
    <2>1. Past(lo, hi, incr) => Trip(k) = 0
        BY ValueLimit
    <2>2. ~Past(lo, hi, incr) => Trip(k) = trips /\ Trip(k) \in Nat
        BY ValueLimit
    <2> QED
        BY <2>1, <2>2
<1>5. Trip(k) > 0 => /\ e + 1 \in Nat /\ \A m \in Nat : Start(k, m) = m * (e + 1)
    <2> SUFFICES ASSUME Trip(k) > 0
                 PROVE  e + 1 \in Nat /\ \A m \in Nat : Start(k, m) = m * (e + 1)
        OBVIOUS
    <2>1. PICK n \in Nat : n = Trip(k) /\ n = trips /\ n > 0
        BY <1>4
    <2>2. q = n \div teamSize /\ n \div teamSize \in Nat
        <3>1. (n < 0) = (teamSize < 0) /\ Abs(n) = n /\ Abs(teamSize) = teamSize
            BY DEF Abs
        <3>2. n \div teamSize \in Int /\ 0 \div teamSize = 0 /\ 0 \div teamSize <= n \div teamSize
            BY Divide, DivideIs, DivideGrows
        <3>3. Quot(n, teamSize) = n \div teamSize
            BY <3>1 DEF Quot
        <3> QED
            BY <2>1, <3>2, <3>3
    <2>3. e + 1 = (n \div teamSize) + (IF n % teamSize = 0 THEN 0 ELSE 1)
        <3>1. adj = IF n % teamSize = 0 THEN -1 ELSE 0
            BY <2>1
        <3> HIDE DEF adj, q
        <3> QED
            BY <2>2, <3>1
    <2>4. \A m \in Nat : Start(k, m) = m * ((n \div teamSize) + (IF n % teamSize = 0 THEN 0 ELSE 1))
        BY <2>1 DEF Start, InTurn
    <2> QED
        BY <2>2, <2>3, <2>4
<1> HIDE DEF lo, hi, incr, trips, q, adj, e
<1>6. lo + t * (e * incr + incr) = Value(k, t * (e + 1))
    <2>1. e * incr + incr = (e + 1) * incr /\ t * ((e + 1) * incr) = (t * (e + 1)) * incr
        BY <1>0, <1>3
    <2> QED
        BY <2>1 DEF Value, lo, incr
<1>7. (lo + t * (e * incr + incr)) + e * incr = Value(k, (t + 1) * (e + 1) - 1)
    <2>1. t * (e + 1) \in Int /\ t * (e + 1) + e = (t + 1) * (e + 1) - 1
        BY <1>0, <1>3
    <2>2. Value(k, t * (e + 1)) + e * incr = Value(k, t * (e + 1) + e)
        <3>1. PICK a \in Int : a = t * (e + 1)
            BY <2>1
        <3>2. \A i, j \in Int : Value(k, i) + j * incr = Value(k, i + j)
            BY ValueMoves DEF incr
        <3> QED
            BY <1>3, <3>1, <3>2
    <2> QED
        BY <1>6, <2>1, <2>2
<1>8. c \in Records /\ c.incr = incr /\ c.from = c.lower /\ c.stride = 0
      /\ c.lower = Value(k, t * (e + 1)) /\ c.upper = Value(k, (t + 1) * (e + 1) - 1)
    <2>1. t * (e + 1) \in Int /\ (t + 1) * (e + 1) - 1 \in Int
        BY <1>0, <1>3
    <2>2. Value(k, t * (e + 1)) \in Int /\ Value(k, (t + 1) * (e + 1) - 1) \in Int
        BY <2>1, ValueOrder
    <2> HIDE DEF c
    <2> QED
        BY <1>0, <1>1, <1>6, <1>7, <2>2 DEF Chunk, Records
<1>9. \E a, b \in Int : /\ c.lower = Value(k, a) /\ c.upper = Value(k, b)
                        /\ a >= 0 \/ b < a
    <2>1. t * (e + 1) \in Int /\ (t + 1) * (e + 1) - 1 \in Int
          /\ (t + 1) * (e + 1) - 1 = t * (e + 1) + e /\ (e >= 0 => t * (e + 1) >= 0)
        BY <1>0, <1>3
    <2>2. t * (e + 1) >= 0 \/ (t + 1) * (e + 1) - 1 < t * (e + 1)
        BY <1>3, <2>1
    <2> HIDE DEF c
    <2> QED
        BY <1>8, <2>1, <2>2
<1>10. Trip(k) > 0 => /\ Start(k, t) = t * (e + 1) /\ Start(k, t + 1) = (t + 1) * (e + 1)
                      /\ Quot(c.upper - c.lower, c.incr) + 1 = Start(k, t + 1) - Start(k, t)
    <2> SUFFICES ASSUME Trip(k) > 0
                 PROVE  /\ Start(k, t) = t * (e + 1) /\ Start(k, t + 1) = (t + 1) * (e + 1)
                        /\ Quot(c.upper - c.lower, c.incr) + 1 = Start(k, t + 1) - Start(k, t)
        OBVIOUS
    <2>1. Start(k, t) = t * (e + 1) /\ Start(k, t + 1) = (t + 1) * (e + 1)
        BY <1>0, <1>5
    <2>2. c.upper - c.lower = e * incr
        <3>1. t * (e + 1) \in Int /\ t * (e + 1) + e = (t + 1) * (e + 1) - 1
            BY <1>0, <1>3
        <3>2. Value(k, t * (e + 1)) + e * incr = Value(k, t * (e + 1) + e)
              /\ Value(k, t * (e + 1)) \in Int
            <4>1. PICK a \in Int : a = t * (e + 1)
                BY <3>1
            <4>2. \A i, j \in Int : Value(k, i) + j * incr = Value(k, i + j) /\ Value(k, i) \in Int
                BY ValueMoves DEF incr
            <4> QED
                BY <1>3, <4>1, <4>2
        <3>3. e * incr \in Int
            BY <1>0, <1>3
        <3> HIDE DEF c
        <3> QED
            BY <1>8, <3>1, <3>2, <3>3
    <2>3. Quot(e * incr, incr) = e
        BY <1>0, <1>3, QuotExact
    <2>4. Start(k, t + 1) - Start(k, t) = e + 1
        <3>1. (t + 1) * (e + 1) = t * (e + 1) + (e + 1) /\ t * (e + 1) \in Int
            BY <1>0, <1>3
        <3> QED
            BY <1>3, <2>1, <3>1
    <2> HIDE DEF c
    <2> QED
        BY <1>8, <2>1, <2>2, <2>3, <2>4
<1> QED
    BY <1>8, <1>9, <1>10 DEF c, lo, hi, incr

\* So is what it is given of a collapsed loop.
LEMMA CollapsedIs ==
    ASSUME NEW k, IsLoop(program[k]), teamSize \in Nat \ {0}, NEW t \in Team,
           ~InTurn(k), program[k].collapsed
    PROVE  LET c == CollapsedEven(t, program[k].upper + 1)
           IN  /\ Trip(k) = program[k].upper + 1
               /\ c = Chunk(Start(k, t), Start(k, t + 1) - 1, 1)
               /\ Start(k, t) \in Nat /\ Start(k, t + 1) \in Nat
               /\ Start(k, t + 1) <= Trip(k) /\ Start(k, t) <= Start(k, t + 1)
               /\ Quot(c.upper - c.lower, c.incr) + 1 = Start(k, t + 1) - Start(k, t)
<1>0. /\ program[k].lower = 0 /\ program[k].upper \in Int /\ program[k].upper >= -1
      /\ program[k].incr = 1 /\ t \in Nat /\ t < teamSize
    BY LoopFields DEF Team
<1>1. PICK n \in Nat : n = program[k].upper + 1
    BY <1>0
<1>2. Trip(k) = n
    <2>1. Trip(k) \in Nat /\ \A i \in Nat : Past(Value(k, i), program[k].upper, 1) <=> i >= Trip(k)
        BY <1>0, ValueLimit
    <2>2. \A i \in Nat : Value(k, i) = i
        BY <1>0 DEF Value
    <2>3. \A i \in Nat : i > n - 1 <=> i >= Trip(k)
        BY <1>0, <1>1, <2>1, <2>2 DEF Past
    <2>4. n >= Trip(k)
        BY <2>1, <2>3
    <2>5. Trip(k) > n - 1
        BY <2>1, <2>3
    <2> QED
        BY <2>1, <2>4, <2>5
<1>3. /\ Start(k, t) = (n \div teamSize) * t + ((n % teamSize) * t) \div teamSize
      /\ Start(k, t + 1) = (n \div teamSize) * (t + 1) + ((n % teamSize) * (t + 1)) \div teamSize
    BY <1>2 DEF Start, InTurn
<1>4. CollapsedEven(t, n) = Chunk(Start(k, t), Start(k, t + 1) - 1, 1)
    <2> DEFINE u == (n \div teamSize) * t + ((n % teamSize) * t) \div teamSize
               x == (n \div teamSize) * (t + 1)
               y == ((n % teamSize) * (t + 1)) \div teamSize
    <2>1. CollapsedEven(t, n) = Chunk(u, x + (y - 1), 1)
        BY DEF CollapsedEven
    <2>2. u = Start(k, t) /\ x + y = Start(k, t + 1)
        BY <1>3
    <2>3. x \in Int /\ y \in Int
        <3>1. PICK d \in Int, r \in 0..(teamSize - 1) : d = n \div teamSize /\ r = n % teamSize
            BY Divide, n \in Int, Zenon
        <3>2. d * (t + 1) \in Int /\ r * (t + 1) \in Int
            BY <1>0, <3>1
        <3>3. (r * (t + 1)) \div teamSize \in Int
            BY <3>2, Divide, Zenon
        <3> QED
            BY <3>1, <3>2, <3>3
    <2> HIDE DEF u, x, y
    <2>4. x + (y - 1) = (x + y) - 1
        BY <2>3
    <2> QED
        BY <2>1, <2>2, <2>4
<1>5. /\ Start(k, t) \in Nat /\ Start(k, t + 1) \in Nat
      /\ Start(k, t + 1) <= Trip(k) /\ Start(k, t) <= Start(k, t + 1)
    <2>1. t + 1 \in Nat /\ t + 1 <= teamSize /\ teamSize \in Nat /\ t <= t + 1
        BY <1>0
    <2>2. /\ Start(k, teamSize) = Trip(k)
          /\ \A q \in Nat : Start(k, q) \in Nat
          /\ \A p, q \in Nat : p <= q => Start(k, p) <= Start(k, q)
        BY StartFacts
    <2> QED
        BY <1>0, <2>1, <2>2
<1>6. Quot((Start(k, t + 1) - 1) - Start(k, t), 1) + 1 = Start(k, t + 1) - Start(k, t)
    <2>1. PICK m \in Int : m = (Start(k, t + 1) - 1) - Start(k, t)
        BY <1>5
    <2>2. Quot(m * 1, 1) = m /\ m * 1 = m
        BY QuotExact
    <2> QED
        BY <1>5, <2>1, <2>2
<1> QED
    BY <1>1, <1>2, <1>4, <1>5, <1>6 DEF Chunk

\* Chunks in turn: a fixed number of iterations each, a fixed stride apart.
LEMMA TurnIs ==
    ASSUME NEW k, IsLoop(program[k]), teamSize \in Nat \ {0}, InTurn(k),
           NEW t \in Team, NEW s \in Nat
    PROVE  LET l == program[k]
               q == Number(t, s)
           IN  /\ l.chunk \in Nat \ {0} /\ q \in Nat
               /\ Start(k, q) = q * l.chunk /\ Start(k, q) \in Nat
               /\ Start(k, q + 1) = Start(k, q) + l.chunk
               /\ Value(k, Start(k, q)) \in Int
               /\ Value(k, Start(k, q)) = l.lower + (q * l.chunk) * l.incr
               /\ Value(k, Start(k, q)) + (l.chunk - 1) * l.incr = Value(k, Start(k, q + 1) - 1)
               /\ Value(k, Start(k, q)) + (l.chunk * l.incr) * teamSize
                     = Value(k, Start(k, Number(t, s + 1)))
<1> DEFINE l == program[k]  q == Number(t, s)
<1>1. PICK c \in Nat \ {0}, d \in Int : c = l.chunk /\ d = l.incr /\ l.lower \in Int
    BY LoopFields DEF InTurn
<1>2. q \in Nat /\ q + 1 \in Nat /\ Number(t, s + 1) = q + teamSize /\ q + teamSize \in Nat
    BY Numbers
<1>3. \A m \in Nat : Start(k, m) = m * c
    BY <1>1, StartFacts
<1>4. \A i, j \in Int : Value(k, i) + j * d = Value(k, i + j) /\ Value(k, i) \in Int
    <2>1. \A i, j \in Int : Value(k, i) \in Int /\ Value(k, i) + j * l.incr = Value(k, i + j)
        BY ValueMoves
    <2> QED
        BY <1>1, <2>1
<1> HIDE DEF q
<1>5. q * c \in Nat /\ (q + 1) * c = q * c + c /\ (q + teamSize) * c = q * c + c * teamSize
      /\ c * teamSize \in Int /\ (c * d) * teamSize = (c * teamSize) * d
    <2>1. PICK n \in Nat \ {0} : n = teamSize
        OBVIOUS
    <2>2. PICK p \in Nat : p = q
        BY <1>2
    <2> QED
        BY <2>1, <2>2, Distribute
<1>6. PICK a \in Nat : a = q * c
    BY <1>5
<1>7. Start(k, q) = a /\ Start(k, q + 1) = a + c /\ Start(k, q + teamSize) = a + c * teamSize
    BY <1>2, <1>3, <1>5, <1>6
<1>8. /\ Value(k, a) + (c - 1) * d = Value(k, a + (c - 1))
      /\ Value(k, a) + (c * teamSize) * d = Value(k, a + c * teamSize)
      /\ Value(k, a) \in Int
    <2>1. PICK m \in Int, n \in Int : m = c - 1 /\ n = c * teamSize
        BY <1>1, <1>5
    <2>2. Value(k, a) + m * d = Value(k, a + m) /\ Value(k, a) + n * d = Value(k, a + n)
          /\ Value(k, a) \in Int
        BY <1>4, <1>6
    <2> QED
        BY <2>1, <2>2
<1>9. a + (c - 1) = (a + c) - 1
    BY <1>1
<1>10. Value(k, a) = l.lower + a * d
    BY <1>1 DEF Value
<1>11. /\ l.chunk \in Nat \ {0} /\ Start(k, q) = q * l.chunk
       /\ Start(k, q) \in Nat /\ Start(k, q + 1) = Start(k, q) + l.chunk
    BY <1>1, <1>6, <1>7
<1>12. Value(k, Start(k, q)) = l.lower + (q * l.chunk) * l.incr /\ Value(k, Start(k, q)) \in Int
    BY <1>1, <1>6, <1>7, <1>8, <1>10
<1>13. Value(k, Start(k, q)) + (l.chunk - 1) * l.incr = Value(k, Start(k, q + 1) - 1)
    BY <1>1, <1>7, <1>8, <1>9
<1>14. Value(k, Start(k, q)) + (l.chunk * l.incr) * teamSize = Value(k, Start(k, Number(t, s + 1)))
    BY <1>1, <1>2, <1>5, <1>7, <1>8
<1> QED
    BY <1>2, <1>11, <1>12, <1>13, <1>14 DEF q

-----------------------------------------------------------------------------
(* The team and its program *)

LEMMA Basics ==
    ASSUME PlaceInv
    PROVE  /\ teamSize \in Nat \ {0} /\ Team \subseteq Thread /\ Team # {} /\ IsFiniteSet(Team)
           /\ Team \subseteq Nat /\ 0 \in Team
           /\ Len(program) \in Nat /\ Construct = 1..Len(program) /\ IsFiniteSet(Construct)
           /\ \A k \in Construct : IsLoop(program[k]) \/ IsSingle(program[k])
<1>1. teamSize \in Nat \ {0}
    BY ProgramAssumption DEF PlaceInv
<1>2. Team # {} /\ IsFiniteSet(Team) /\ Team \subseteq Nat /\ 0 \in Team
    <2>1. teamSize - 1 \in Int /\ 0 \in Int /\ 0 \in 0..(teamSize - 1)
        BY <1>1
    <2>2. IsFiniteSet(0..(teamSize - 1))
        BY <2>1, FS_Interval
    <2>3. 0..(teamSize - 1) \subseteq Nat
        BY <1>1
    <2> QED
        BY <2>1, <2>2, <2>3 DEF Team
<1>3. Team \subseteq Thread
    <2>1. CASE teamSize \in TeamSizes
        BY <2>1 DEF Team, Thread
    <2>2. CASE teamSize = 1
        <3>1. PICK n \in TeamSizes : n \in Nat \ {0}
            BY ProgramAssumption
        <3>2. Team = {0} /\ 0 \in 0..(n - 1)
            BY <2>2, <3>1 DEF Team
        <3> QED
            BY <3>1, <3>2 DEF Thread
    <2> QED
        BY <2>1, <2>2 DEF PlaceInv
<1>4. Len(program) \in Nat /\ Construct = 1..Len(program)
      /\ \A k \in Construct : IsLoop(program[k]) \/ IsSingle(program[k])
    <2>1. CASE program = <<>>
        <3>1. Len(<<>>) = 0 /\ DOMAIN <<>> = {} /\ 1..0 = {}
            OBVIOUS
        <3> QED
            BY <2>1, <3>1 DEF Construct
    <2>2. CASE \E r \in DOMAIN Programs : program \in Programs[r]
        BY <2>2, ProgramAssumption DEF Construct
    <2> QED
        BY <2>1, <2>2 DEF PlaceInv
<1>5. IsFiniteSet(Construct)
    BY <1>4, FS_Interval
<1> QED
    BY <1>1, <1>2, <1>3, <1>4, <1>5

\* A construct is a loop or a single.
LEMMA Kinds ==
    ASSUME NEW c
    PROVE  /\ IsLoop(c) => c.kind = "loop" /\ ~IsSingle(c)
           /\ IsSingle(c) => /\ c.kind = "single" /\ ~IsLoop(c)
                             /\ c.copy \in BOOLEAN /\ c.nowait \in BOOLEAN
BY DEF IsLoop, IsSingle

-----------------------------------------------------------------------------
(* How a step moves its thread *)

Goes(t, label) == pc' = [pc EXCEPT ![t] = label] /\ UNCHANGED <<at, met>>

Control(t) ==
    \/ /\ IsLoop(Here(t)) /\ AtScheduler(at[t])
       /\ \E m \in {<<"init", "next">>, <<"next", "body">>, <<"body", "next">>} :
             pc[t] = m[1] /\ Goes(t, m[2])
    \/ /\ IsLoop(Here(t)) /\ pc[t] = "work"
       /\ \/ AtScheduler(at[t]) /\ teamSize > 1 /\ Goes(t, "init")
          \/ AtScheduler(at[t]) /\ teamSize = 1 /\ Goes(t, "next")
          \/ ~AtScheduler(at[t]) /\ Goes(t, "body")
    \/ IsLoop(Here(t)) /\ pc[t] \in {"body", "endOrdered"} /\ Goes(t, "body")
    \/ /\ IsLoop(Here(t)) /\ pc[t] = "body"
       /\ Here(t).ordered /\ AtScheduler(at[t]) /\ Goes(t, "endOrdered")
    \/ IsLoop(Here(t)) /\ pc[t] \in {"next", "body"} /\ EndConstruct(t)
    \/ IsSingle(Here(t)) /\ pc[t] = "work" /\ teamSize > 1 /\ Goes(t, "single")
    \/ /\ IsSingle(Here(t)) /\ AfterSingle(t)
       /\ pc[t] = "single" \/ (pc[t] = "work" /\ teamSize = 1)
    \/ pc[t] = "singleEnd" /\ AllMet(t) /\ Goes(t, "publish")
    \/ pc[t] = "publish" /\ Reach(t, "published")
    \/ pc[t] = "published" /\ AllMet(t) /\ Goes(t, "copy")
    \/ pc[t] = "copy" /\ Reach(t, "barrier")
    \/ pc[t] = "barrier" /\ AllMet(t) /\ Proceed(t)

\* Where a thread is that takes a step.
LEMMA Inside ==
    ASSUME PlaceInv, NEW t \in Team, pc[t] # "idle"
    PROVE  /\ t \in Thread /\ at[t] \in Construct /\ at[t] \in Nat
           /\ IsLoop(Here(t)) \/ IsSingle(Here(t))
           /\ Here(t) = program[at[t]]
BY Basics DEF PlaceInv, Here

LEMMA StepControl ==
    ASSUME PlaceInv, NEW t \in Team, Step(t)
    PROVE  Control(t) /\ UNCHANGED regionVars /\ pc[t] # "idle"
<1>0. pc[t] # "idle" => /\ at[t] \in Construct
                        /\ Here(t) = program[at[t]]
                        /\ Here(t).kind = "loop" => IsLoop(Here(t))
                        /\ Here(t).kind = "single" => IsSingle(Here(t))
    BY Inside, Kinds
<1>1. /\ pc[t] \in LoopLabels => IsLoop(Here(t))
      /\ pc[t] \in LoopLabels \ {"body"} => AtScheduler(at[t])
      /\ pc[t] = "init" => teamSize > 1
      /\ pc[t] = "single" => IsSingle(Here(t))
    BY <1>0, Kinds DEF PlaceInv, Here, LoopLabels
<1>2. /\ pc[t] = "work" /\ Here(t).kind = "loop" /\ Here(t).sched \notin {"init_even", "init_chunk"}
            => AtScheduler(at[t])
      /\ pc[t] = "work" /\ Here(t).kind = "loop" /\ Here(t).sched \in {"init_even", "init_chunk"}
            => ~AtScheduler(at[t])
      /\ pc[t] = "body" /\ Here(t).sched \notin {"init_even", "init_chunk"} => AtScheduler(at[t])
      /\ pc[t] = "body" /\ Here(t).ordered => AtScheduler(at[t])
    BY <1>0, <1>1, LoopFields DEF AtScheduler, AtRuntime, IsLoop, LoopLabels
<1>3. CASE StaticInit(t)
    BY <1>0, <1>2, <1>3 DEF StaticInit, AtStatic, AtLoop, Take, Goto, Control, Goes
<1>4. CASE CountLoop(t)
    <2>1. teamSize = 1 \/ teamSize > 1
        BY Basics
    <2> QED
        BY <1>0, <1>2, <1>4, <2>1
        DEF CountLoop, AtScheduled, AtStatic, AtLoop, Goto, Control, Goes, regionVars
<1>5. CASE InitTeam(t)
    BY <1>0, <1>1, <1>5 DEF InitTeam, Goto, Control, Goes, LoopLabels
<1>6. CASE NextAlone(t)
    BY <1>0, <1>1, <1>6 DEF NextAlone, Take, NoMore, Goto, Control, Goes, LoopLabels, regionVars
<1>7. CASE NextEven(t)
    BY <1>0, <1>1, <1>7 DEF NextEven, Scheduled, Take, NoMore, Goto, Control, Goes, LoopLabels
<1>8. CASE NextStatic(t)
    BY <1>0, <1>1, <1>8 DEF NextStatic, Scheduled, Take, NoMore, Goto, Control, Goes, LoopLabels
<1>9. CASE NextDynamic(t)
    BY <1>0, <1>1, <1>9 DEF NextDynamic, Share, Scheduled, Take, NoMore, Goto, Control, Goes, LoopLabels
<1>10. CASE NextGuided(t)
    BY <1>0, <1>1, <1>10 DEF NextGuided, Share, Scheduled, Take, NoMore, Goto, Control, Goes, LoopLabels
<1>11. CASE Iterate(t)
    <2>1. pc' = [pc EXCEPT ![t] = "body"]
        BY <1>11 DEF Iterate, AtLoop, PlaceInv
    <2> QED
        BY <1>0, <1>11, <2>1 DEF Iterate, AtLoop, Control, Goes
<1>12. CASE EnterOrdered(t)
    BY <1>0, <1>2, <1>12 DEF EnterOrdered, AtLoop, Goto, Control, Goes
<1>13. CASE EndOrdered(t)
    BY <1>0, <1>1, <1>13 DEF EndOrdered, AtLoop, Goto, Control, Goes, LoopLabels
<1>14. CASE ChunkDone(t)
    BY <1>0, <1>2, <1>14 DEF ChunkDone, AtScheduled, AtStatic, AtLoop, Take, Goto, Control, Goes
<1>15. CASE CountSingle(t)
    <2>1. teamSize = 1 \/ teamSize > 1
        BY Basics
    <2> QED
        BY <1>0, <1>15, <2>1 DEF CountSingle, AtSingle, Goto, Control, Goes
<1>16. CASE EnterSingle(t)
    BY <1>0, <1>1, <1>16 DEF EnterSingle, Control
<1>17. CASE SingleEnd(t)
    BY <1>17 DEF SingleEnd, Goto, Control, Goes
<1>18. CASE Publish(t)
    BY <1>18 DEF Publish, Control
<1>19. CASE Published(t)
    BY <1>19 DEF Published, Goto, Control, Goes
<1>20. CASE Copy(t)
    BY <1>20 DEF Copy, Control
<1>21. CASE Barrier(t)
    BY <1>21 DEF Barrier, Control
<1> QED
    BY <1>3, <1>4, <1>5, <1>6, <1>7, <1>8, <1>9, <1>10, <1>11, <1>12, <1>13, <1>14,
       <1>15, <1>16, <1>17, <1>18, <1>19, <1>20, <1>21 DEF Step

\* Only the thread itself moves: on within its construct, or to the next one.
LEMMA Motion ==
    ASSUME PlaceInv, NEW t \in Team, Control(t), pc[t] # "idle"
    PROVE  /\ at' \in [Thread -> Nat] /\ DOMAIN pc' = Thread
           /\ \A u \in Thread \ {t} : at'[u] = at[u] /\ pc'[u] = pc[u]
           /\ \/ at' = at /\ pc'[t] \notin {"work", "idle"}
              \/ /\ at'[t] = at[t] + 1 /\ pc'[t] = IF at[t] < Len(program) THEN "work" ELSE "idle"
                 /\ met' = met
           /\ met' = met \/ met' = [met EXCEPT ![t] = @ + 1]
           /\ pc'[t] \in {"work", "idle"} => at'[t] = at[t] + 1
<1>1. /\ t \in Thread /\ at \in [Thread -> Nat] /\ DOMAIN pc = Thread
    BY Basics DEF PlaceInv
<1>2. ASSUME NEW label, Goes(t, label), label \notin {"work", "idle"}
      PROVE  /\ at' = at /\ met' = met /\ DOMAIN pc' = Thread /\ pc'[t] = label
             /\ \A u \in Thread \ {t} : pc'[u] = pc[u]
    BY <1>1, <1>2 DEF Goes
<1>3. ASSUME NEW label, Reach(t, label), label \notin {"work", "idle"}
      PROVE  /\ at' = at /\ met' = [met EXCEPT ![t] = @ + 1]
             /\ DOMAIN pc' = Thread /\ pc'[t] = label
             /\ \A u \in Thread \ {t} : pc'[u] = pc[u]
    BY <1>1, <1>3 DEF Reach, Goto
<1>4. ASSUME Proceed(t)
      PROVE  /\ at' \in [Thread -> Nat] /\ at'[t] = at[t] + 1 /\ met' = met /\ DOMAIN pc' = Thread
             /\ pc'[t] = IF at[t] < Len(program) THEN "work" ELSE "idle"
             /\ \A u \in Thread \ {t} : at'[u] = at[u] /\ pc'[u] = pc[u]
    BY <1>1, <1>4 DEF Proceed, Goto
<1>5. \/ \E label : label \notin {"work", "idle"} /\ Goes(t, label)
      \/ \E label : label \notin {"work", "idle"} /\ Reach(t, label)
      \/ Proceed(t)
    <2>1. EndConstruct(t) => Proceed(t) \/ Reach(t, "barrier")
        BY DEF EndConstruct
    <2>2. AfterSingle(t) => Goes(t, "publish") \/ Reach(t, "singleEnd") \/ EndConstruct(t)
        BY DEF AfterSingle, Goes, Goto
    <2> QED
        BY <2>1, <2>2 DEF Control
<1>6. CASE \E label : label \notin {"work", "idle"} /\ Goes(t, label)
    BY <1>1, <1>2, <1>6
<1>7. CASE \E label : label \notin {"work", "idle"} /\ Reach(t, label)
    BY <1>1, <1>3, <1>7
<1>8. CASE Proceed(t)
    BY <1>1, <1>4, <1>8
<1> QED
    BY <1>5, <1>6, <1>7, <1>8

\* Every thread stays where its construct lets it be.
LEMMA ControlPlace ==
    ASSUME PlaceInv, NEW t \in Team, Control(t), pc[t] # "idle", UNCHANGED regionVars
    PROVE  PlaceInv'
<1>0. /\ teamSize' = teamSize /\ program' = program /\ regions' = regions
      /\ Team' = Team /\ Construct' = Construct
      /\ \A k : AtScheduler(k)' = AtScheduler(k)
    BY DEF regionVars, Team, Construct, AtScheduler
<1>1. /\ t \in Thread /\ at[t] \in Construct /\ at[t] \in Nat /\ Here(t) = program[at[t]]
      /\ Len(program) \in Nat /\ Construct = 1..Len(program)
      /\ IsLoop(Here(t)) \/ IsSingle(Here(t))
      /\ ~(IsLoop(Here(t)) /\ IsSingle(Here(t)))
    BY Inside, Basics, Kinds
<1> DEFINE Allowed == {"idle", "work", "single", "singleEnd", "barrier"} \cup LoopLabels \cup CopyLabels
           Right(u, a, p) ==
              /\ p = "idle" => \A k \in Construct : k < a
              /\ p # "idle" => a \in Construct
              /\ p \in LoopLabels => IsLoop(program[a])
              /\ p \in LoopLabels \ {"body"} => AtScheduler(a)
              /\ p \in {"init", "single"} => teamSize > 1
              /\ p = "endOrdered" => program[a].ordered
              /\ p \in {"single", "singleEnd"} \cup CopyLabels => IsSingle(program[a])
              /\ p = "singleEnd" => program[a].copy /\ ~program[a].nowait
              /\ p \in CopyLabels => program[a].copy
              /\ p = "barrier" =>
                    ~program[a].nowait \/ (IsSingle(program[a]) /\ program[a].copy)
<1>2. \A u \in Team : Right(u, at[u], pc[u])
    BY Zenon DEF PlaceInv
<1>3. pc[t] \in Allowed /\ at'[t] \in Nat
    BY <1>1, Motion DEF PlaceInv
<1>4. pc'[t] \in Allowed /\ Right(t, at'[t], pc'[t])
    <2>1. ASSUME Proceed(t) PROVE pc'[t] \in Allowed /\ Right(t, at'[t], pc'[t])
        <3>1. at'[t] = at[t] + 1 /\ pc'[t] = IF at[t] < Len(program) THEN "work" ELSE "idle"
            BY <1>1, <2>1 DEF Proceed, Goto, PlaceInv
        <3>2. at[t] < Len(program) => at'[t] \in Construct
            BY <1>1, <3>1
        <3>3. ~(at[t] < Len(program)) => \A k \in Construct : k < at'[t]
            BY <1>1, <3>1
        <3> QED
            BY <3>1, <3>2, <3>3 DEF LoopLabels, CopyLabels
    <2>2. ASSUME NEW label, pc'[t] = label, at'[t] = at[t], label \in Allowed, Right(t, at[t], label)
          PROVE  pc'[t] \in Allowed /\ Right(t, at'[t], pc'[t])
        BY <2>2
    <2>3. \A label : Goes(t, label) \/ Reach(t, label) => pc'[t] = label /\ at'[t] = at[t]
        BY <1>1 DEF Goes, Reach, Goto, PlaceInv
    <2>4. EndConstruct(t) => Proceed(t) \/ (Reach(t, "barrier") /\ ~program[at[t]].nowait)
        BY <1>1 DEF EndConstruct
    <2>5. Right(t, at[t], pc[t])
        BY <1>2
    <2>6. CASE IsLoop(Here(t)) /\ pc[t] \in {"init", "next", "body", "endOrdered", "work"}
        <3>1. \/ Proceed(t) \/ (Reach(t, "barrier") /\ ~program[at[t]].nowait)
              \/ Goes(t, "body")
              \/ AtScheduler(at[t]) /\ Goes(t, "next")
              \/ AtScheduler(at[t]) /\ teamSize > 1 /\ Goes(t, "init")
              \/ AtScheduler(at[t]) /\ Here(t).ordered /\ Goes(t, "endOrdered")
            BY <1>1, <2>4, <2>6 DEF Control
        <3>2. /\ "body" \in Allowed /\ Right(t, at[t], "body")
              /\ "next" \in Allowed /\ "barrier" \in Allowed
              /\ "init" \in Allowed /\ "endOrdered" \in Allowed
              /\ AtScheduler(at[t]) => Right(t, at[t], "next")
              /\ AtScheduler(at[t]) /\ teamSize > 1 => Right(t, at[t], "init")
              /\ AtScheduler(at[t]) /\ Here(t).ordered => Right(t, at[t], "endOrdered")
              /\ ~program[at[t]].nowait => Right(t, at[t], "barrier")
            BY <1>1, <2>6 DEF LoopLabels, CopyLabels
        <3> HIDE DEF Right, Allowed
        <3> QED
            BY <2>1, <2>2, <2>3, <3>1, <3>2
    <2>7. CASE IsSingle(Here(t)) /\ pc[t] \in {"work", "single"}
        <3>1. \/ Proceed(t) \/ (Reach(t, "barrier") /\ ~program[at[t]].nowait)
              \/ teamSize > 1 /\ Goes(t, "single")
              \/ Here(t).copy /\ Goes(t, "publish")
              \/ Here(t).copy /\ ~Here(t).nowait /\ Reach(t, "singleEnd")
            BY <1>1, <2>4, <2>7 DEF Control, AfterSingle, Goto, Goes
        <3>2. /\ "single" \in Allowed /\ "publish" \in Allowed
              /\ "singleEnd" \in Allowed /\ "barrier" \in Allowed
              /\ teamSize > 1 => Right(t, at[t], "single")
              /\ Here(t).copy => Right(t, at[t], "publish")
              /\ Here(t).copy /\ ~Here(t).nowait => Right(t, at[t], "singleEnd")
              /\ ~program[at[t]].nowait => Right(t, at[t], "barrier")
            BY <1>1, <2>7 DEF LoopLabels, CopyLabels
        <3> HIDE DEF Right, Allowed
        <3> QED
            BY <2>1, <2>2, <2>3, <3>1, <3>2
    <2>8. CASE pc[t] \in {"singleEnd", "publish", "published", "copy", "barrier"}
        <3>1. \/ Proceed(t)
              \/ pc[t] = "singleEnd" /\ Goes(t, "publish")
              \/ pc[t] = "publish" /\ Reach(t, "published")
              \/ pc[t] = "published" /\ Goes(t, "copy")
              \/ pc[t] = "copy" /\ Reach(t, "barrier")
            BY <1>1, <2>8 DEF Control, AfterSingle
        <3>2. /\ "copy" \in Allowed /\ "publish" \in Allowed
              /\ "published" \in Allowed /\ "barrier" \in Allowed
              /\ pc[t] # "barrier" => /\ IsSingle(program[at[t]]) /\ program[at[t]].copy
                                      /\ Right(t, at[t], "publish") /\ Right(t, at[t], "published")
                                      /\ Right(t, at[t], "copy") /\ Right(t, at[t], "barrier")
            BY <1>1, <2>5, <2>8 DEF LoopLabels, CopyLabels
        <3> HIDE DEF Right, Allowed
        <3> QED
            BY <2>1, <2>2, <2>3, <3>1, <3>2
    <2>9. \/ IsLoop(Here(t)) /\ pc[t] \in {"init", "next", "body", "endOrdered", "work"}
          \/ IsSingle(Here(t)) /\ pc[t] \in {"work", "single"}
          \/ pc[t] \in {"singleEnd", "publish", "published", "copy", "barrier"}
        BY <1>1, <1>3, <2>5 DEF LoopLabels, CopyLabels
    <2> QED
        BY <2>6, <2>7, <2>8, <2>9
<1>5. /\ at' \in [Thread -> Nat] /\ DOMAIN pc' = Thread
      /\ \A u \in Thread \ {t} : at'[u] = at[u] /\ pc'[u] = pc[u]
    BY Motion
<1>6. /\ \A u \in Thread : pc'[u] \in Allowed
      /\ \A u \in Thread \ Team : pc'[u] = "idle"
    BY <1>4, <1>5, Zenon DEF PlaceInv
<1>7. \A u \in Team : Right(u, at'[u], pc'[u])
    BY <1>2, <1>4, <1>5, Basics
<1>8. pc' \in [Thread -> Allowed]
    <2>1. pc' = [pc EXCEPT ![t] = pc'[t]]
        BY <1>1 DEF Control, Goes, EndConstruct, AfterSingle, Reach, Proceed, Goto, PlaceInv
    <2> QED
        BY <1>5, <1>6, <2>1
<1>9. /\ teamSize \in TeamSizes \cup {1} /\ regions \in Nat
      /\ program = <<>> \/ \E r \in DOMAIN Programs : program \in Programs[r]
    BY DEF PlaceInv
<1> QED
    BY <1>0, <1>5, <1>6, <1>7, <1>8, <1>9 DEF PlaceInv

-----------------------------------------------------------------------------
(* Barriers *)

LEMMA BarrierFacts ==
    ASSUME PlaceInv
    PROVE  /\ IsFiniteSet(Barriers)
           /\ \A b \in Barriers : /\ b[1] \in Construct /\ b[1] \in Nat /\ b[2] \in {1, 3, 5}
                                  /\ b = <<b[1], b[2]>> /\ HasBarrier(b[1], b[2])
           /\ \A t : IsFiniteSet(Met(t)) /\ Met(t) \subseteq Barriers /\ Left(t) \subseteq Barriers
<1>1. IsFiniteSet(Construct) /\ Construct \subseteq Nat
    BY Basics
<1>2. IsFiniteSet({1, 3, 5})
    <2>1. {1, 3, 5} \in SUBSET Nat /\ 5 \in Nat /\ \A s \in {1, 3, 5} : s <= 5
        OBVIOUS
    <2> QED
        BY <2>1, FS_BoundedSetOfNaturals, Zenon
<1>3. IsFiniteSet(Construct \X {1, 3, 5})
    BY <1>1, <1>2, FS_Product
<1>4. Barriers \subseteq Construct \X {1, 3, 5}
    BY DEF Barriers
<1>5. IsFiniteSet(Barriers)
    BY <1>3, <1>4, FS_Subset
<1>6. \A t : Met(t) \subseteq Barriers /\ Left(t) \subseteq Barriers
    BY DEF Met, Left
<1>7. \A t : IsFiniteSet(Met(t))
    BY <1>5, <1>6, FS_Subset
<1>8. \A b \in Barriers : /\ b[1] \in Construct /\ b[1] \in Nat /\ b[2] \in {1, 3, 5}
                          /\ b = <<b[1], b[2]>> /\ HasBarrier(b[1], b[2])
    <2> SUFFICES ASSUME NEW b \in Barriers
                 PROVE  /\ b[1] \in Construct /\ b[1] \in Nat /\ b[2] \in {1, 3, 5}
                        /\ b = <<b[1], b[2]>> /\ HasBarrier(b[1], b[2])
        OBVIOUS
    <2>1. b \in Construct \X {1, 3, 5} /\ HasBarrier(b[1], b[2])
        BY DEF Barriers
    <2>2. b[1] \in Construct /\ b[2] \in {1, 3, 5} /\ b = <<b[1], b[2]>>
        BY <2>1
    <2> QED
        BY <1>1, <2>1, <2>2
<1> QED
    BY <1>5, <1>6, <1>7, <1>8

LEMMA StageIs ==
    \A t : /\ Stage(t) \in 0..5
           /\ pc[t] \notin {"singleEnd", "publish", "published", "copy", "barrier"} => Stage(t) = 0
           /\ pc[t] = "singleEnd" => Stage(t) = 1
           /\ pc[t] = "publish" => Stage(t) = 2
           /\ pc[t] = "published" => Stage(t) = 3
           /\ pc[t] = "copy" => Stage(t) = 4
           /\ pc[t] = "barrier" => Stage(t) = 5
           /\ Stage(t) = 5 => pc[t] = "barrier"
           /\ Stage(t) = 4 => pc[t] = "copy"
           /\ Stage(t) = 3 => pc[t] = "published"
           /\ Stage(t) = 2 => pc[t] = "publish"
BY DEF Stage

\* Of two threads one has met every barrier that the other has.
LEMMA MetChain ==
    ASSUME PlaceInv, NEW t \in Team, NEW u \in Team
    PROVE  Met(t) \subseteq Met(u) \/ Met(u) \subseteq Met(t)
<1>1. at[t] \in Nat /\ at[u] \in Nat /\ Stage(t) \in Nat /\ Stage(u) \in Nat
    <2>1. at[t] \in Nat /\ at[u] \in Nat
        BY Basics DEF PlaceInv
    <2>2. Stage(t) \in 0..5 /\ Stage(u) \in 0..5
        BY StageIs
    <2> QED
        BY <2>1, <2>2
<1>2. \A b \in Barriers : b[1] \in Nat /\ b[2] \in Nat
    BY BarrierFacts
<1>3. CASE at[t] < at[u] \/ (at[t] = at[u] /\ Stage(t) <= Stage(u))
    BY <1>1, <1>2, <1>3 DEF Met
<1>4. CASE at[u] < at[t] \/ (at[t] = at[u] /\ Stage(u) <= Stage(t))
    BY <1>1, <1>2, <1>4 DEF Met
<1> QED
    BY <1>1, <1>3, <1>4

\* Who passes a barrier knows that all have met it.
LEMMA AllHaveMet ==
    ASSUME PlaceInv, MetInv, NEW t \in Team, AllMet(t), NEW u \in Team
    PROVE  Met(t) \subseteq Met(u)
<1>1. met[u] >= met[t] /\ met[t] = Cardinality(Met(t)) /\ met[u] = Cardinality(Met(u))
    BY DEF AllMet, MetInv
<1>2. IsFiniteSet(Met(t)) /\ IsFiniteSet(Met(u))
    BY BarrierFacts
<1>3. CASE Met(u) \subseteq Met(t)
    <2>1. Cardinality(Met(u)) <= Cardinality(Met(t)) /\ Cardinality(Met(u)) \in Nat
          /\ Cardinality(Met(t)) \in Nat
        BY <1>2, <1>3, FS_Subset, FS_CardinalityType
    <2>2. Cardinality(Met(u)) = Cardinality(Met(t))
        BY <1>1, <2>1
    <2>3. Met(u) = Met(t)
        BY <1>2, <1>3, <2>2, FS_Subset
    <2> QED
        BY <2>3
<1> QED
    BY <1>3, MetChain

\* A step takes its thread to a barrier, or past one that all have met.
LEMMA Crossing ==
    ASSUME PlaceInv, NEW t \in Team, Control(t), pc[t] # "idle", UNCHANGED regionVars
    PROVE  \/ /\ Met(t)' = Met(t) /\ met' = met
              /\ Left(t)' = Left(t) \/ (AllMet(t) /\ Left(t)' \subseteq Met(t))
           \/ /\ \E b \in Barriers \ Met(t) : Met(t)' = Met(t) \cup {b}
              /\ met' = [met EXCEPT ![t] = @ + 1] /\ Left(t)' = Left(t)
<1>0. /\ Barriers' = Barriers
      /\ \A k, s : HasBarrier(k, s)' = HasBarrier(k, s)
    BY DEF regionVars, Barriers, HasBarrier, Construct
<1>1. /\ t \in Thread /\ at[t] \in Construct /\ at[t] \in Nat /\ Here(t) = program[at[t]]
      /\ IsLoop(Here(t)) \/ IsSingle(Here(t))
      /\ ~(IsLoop(Here(t)) /\ IsSingle(Here(t)))
      /\ DOMAIN pc = Thread /\ DOMAIN at = Thread
    BY Inside, Kinds DEF PlaceInv
<1> DEFINE k == at[t]
           M(a, s) == {b \in Barriers : b[1] < a \/ (b[1] = a /\ b[2] <= s)}
           L(a, s) == {b \in Barriers : b[1] < a \/ (b[1] = a /\ b[2] < s)}
<1>2. /\ Met(t) = M(k, Stage(t)) /\ Left(t) = L(k, Stage(t))
      /\ Met(t)' = M(at'[t], Stage(t)') /\ Left(t)' = L(at'[t], Stage(t)')
    BY <1>0 DEF Met, Left
<1>3. \A b \in Barriers : /\ b[1] \in Nat /\ b[2] \in {1, 3, 5} /\ HasBarrier(b[1], b[2])
                          /\ b = <<b[1], b[2]>>
    BY BarrierFacts
<1>4. /\ IsLoop(Here(t)) => \A s \in {1, 3, 5} : HasBarrier(k, s) <=> s = 5 /\ ~Here(t).nowait
      /\ IsSingle(Here(t)) => /\ HasBarrier(k, 1) <=> Here(t).copy /\ ~Here(t).nowait
                              /\ HasBarrier(k, 3) <=> Here(t).copy
                              /\ HasBarrier(k, 5) <=> Here(t).copy \/ ~Here(t).nowait
    BY <1>1 DEF HasBarrier
<1>5. \A s \in {1, 3, 5} : HasBarrier(k, s) => <<k, s>> \in Barriers
    BY <1>1 DEF Barriers
<1>6. \A label : /\ Goes(t, label) => at'[t] = k /\ met' = met /\ pc'[t] = label
                 /\ Reach(t, label) => /\ at'[t] = k /\ met' = [met EXCEPT ![t] = @ + 1]
                                       /\ pc'[t] = label
    BY <1>1 DEF Goes, Reach, Goto
<1>7. Proceed(t) => at'[t] = k + 1 /\ met' = met /\ pc'[t] \in {"work", "idle"}
    BY <1>1 DEF Proceed, Goto
<1>8. /\ pc'[t] \notin {"singleEnd", "publish", "published", "copy", "barrier"} => Stage(t)' = 0
      /\ pc'[t] = "singleEnd" => Stage(t)' = 1
      /\ pc'[t] = "publish" => Stage(t)' = 2
      /\ pc'[t] = "published" => Stage(t)' = 3
      /\ pc'[t] = "copy" => Stage(t)' = 4
      /\ pc'[t] = "barrier" => Stage(t)' = 5
    BY DEF Stage
<1> HIDE DEF k
<1>9. CASE IsLoop(Here(t)) /\ pc[t] \in {"init", "next", "body", "endOrdered", "work"}
    <2>1. \/ \E label \in {"body", "next", "init", "endOrdered"} : Goes(t, label)
          \/ EndConstruct(t)
        BY <1>1, <1>9 DEF Control
    <2>2. Stage(t) = 0
        BY <1>9, StageIs
    <2>3. CASE \E label \in {"body", "next", "init", "endOrdered"} : Goes(t, label)
        <3>1. Stage(t)' = 0 /\ at'[t] = k /\ met' = met
            BY <1>6, <1>8, <2>3
        <3> QED
            BY <1>2, <2>2, <3>1
    <2>4. CASE EndConstruct(t) /\ Here(t).nowait
        <3>1. at'[t] = k + 1 /\ met' = met /\ Stage(t)' = 0
            BY <1>7, <1>8, <2>4 DEF EndConstruct
        <3>2. M(k + 1, 0) = M(k, 0) /\ L(k + 1, 0) = L(k, 0)
            BY <1>1, <1>3, <1>4, <1>9, <2>4 DEF k
        <3> QED
            BY <1>2, <2>2, <3>1, <3>2
    <2>5. CASE EndConstruct(t) /\ ~Here(t).nowait
        <3>1. at'[t] = k /\ met' = [met EXCEPT ![t] = @ + 1] /\ Stage(t)' = 5
            BY <1>6, <1>8, <2>5 DEF EndConstruct
        <3>2. M(k, 5) = M(k, 0) \cup {<<k, 5>>} /\ L(k, 5) = L(k, 0)
              /\ <<k, 5>> \in Barriers \ M(k, 0)
            BY <1>1, <1>3, <1>4, <1>5, <1>9, <2>5 DEF k
        <3> QED
            BY <1>2, <2>2, <3>1, <3>2
    <2> QED
        BY <2>1, <2>3, <2>4, <2>5
<1>10. CASE IsSingle(Here(t)) /\ pc[t] \in {"work", "single"}
    <2>1. Goes(t, "single") \/ AfterSingle(t)
        BY <1>1, <1>10 DEF Control
    <2>2. Stage(t) = 0
        BY <1>10, StageIs
    <2>3. CASE Goes(t, "single")
        <3>1. Stage(t)' = 0 /\ at'[t] = k /\ met' = met
            BY <1>6, <1>8, <2>3
        <3> QED
            BY <1>2, <2>2, <3>1
    <2>4. CASE Here(t).copy /\ Here(t).nowait /\ AfterSingle(t)
        <3>0. Goes(t, "publish")
            BY <2>4 DEF AfterSingle, Goes, Goto
        <3>1. Stage(t)' = 2 /\ at'[t] = k /\ met' = met
            BY <1>6, <1>8, <3>0
        <3>2. M(k, 2) = M(k, 0) /\ L(k, 2) = L(k, 0)
            BY <1>1, <1>3, <1>4, <1>10, <2>4 DEF k
        <3> QED
            BY <1>2, <2>2, <3>1, <3>2
    <2>5. CASE Here(t).copy /\ ~Here(t).nowait /\ AfterSingle(t)
        <3>1. Stage(t)' = 1 /\ at'[t] = k /\ met' = [met EXCEPT ![t] = @ + 1]
            BY <1>6, <1>8, <2>5 DEF AfterSingle
        <3>2. M(k, 1) = M(k, 0) \cup {<<k, 1>>} /\ L(k, 1) = L(k, 0)
              /\ <<k, 1>> \in Barriers \ M(k, 0)
            BY <1>1, <1>3, <1>4, <1>5, <1>10, <2>5 DEF k
        <3> QED
            BY <1>2, <2>2, <3>1, <3>2
    <2>6. CASE ~Here(t).copy /\ Here(t).nowait /\ AfterSingle(t)
        <3>1. at'[t] = k + 1 /\ met' = met /\ Stage(t)' = 0
            BY <1>7, <1>8, <2>6 DEF AfterSingle, EndConstruct
        <3>2. M(k + 1, 0) = M(k, 0) /\ L(k + 1, 0) = L(k, 0)
            BY <1>1, <1>3, <1>4, <1>10, <2>6 DEF k
        <3> QED
            BY <1>2, <2>2, <3>1, <3>2
    <2>7. CASE ~Here(t).copy /\ ~Here(t).nowait /\ AfterSingle(t)
        <3>1. at'[t] = k /\ met' = [met EXCEPT ![t] = @ + 1] /\ Stage(t)' = 5
            BY <1>6, <1>8, <2>7 DEF AfterSingle, EndConstruct
        <3>2. M(k, 5) = M(k, 0) \cup {<<k, 5>>} /\ L(k, 5) = L(k, 0)
              /\ <<k, 5>> \in Barriers \ M(k, 0)
            BY <1>1, <1>3, <1>4, <1>5, <1>10, <2>7 DEF k
        <3> QED
            BY <1>2, <2>2, <3>1, <3>2
    <2> QED
        BY <2>1, <2>3, <2>4, <2>5, <2>6, <2>7
<1>11. CASE pc[t] \in {"singleEnd", "published", "barrier"}
    <2>1. AllMet(t)
        BY <1>11 DEF Control
    <2>2. CASE pc[t] = "singleEnd"
        <3>1. Stage(t) = 1 /\ Stage(t)' = 2 /\ at'[t] = k /\ met' = met
            BY <1>6, <1>8, <2>2, StageIs DEF Control
        <3>2. M(k, 1) = M(k, 2) /\ L(k, 2) \subseteq M(k, 1)
            BY <1>3
        <3> QED
            BY <1>2, <2>1, <3>1, <3>2
    <2>3. CASE pc[t] = "published"
        <3>1. Stage(t) = 3 /\ Stage(t)' = 4 /\ at'[t] = k /\ met' = met
            BY <1>6, <1>8, <2>3, StageIs DEF Control
        <3>2. M(k, 3) = M(k, 4) /\ L(k, 4) \subseteq M(k, 3)
            BY <1>3
        <3> QED
            BY <1>2, <2>1, <3>1, <3>2
    <2>4. CASE pc[t] = "barrier"
        <3>1. Stage(t) = 5 /\ Stage(t)' = 0 /\ at'[t] = k + 1 /\ met' = met
            BY <1>7, <1>8, <2>4, StageIs DEF Control
        <3>2. M(k, 5) = M(k + 1, 0) /\ L(k + 1, 0) \subseteq M(k, 5)
            BY <1>1, <1>3 DEF k
        <3> QED
            BY <1>2, <2>1, <3>1, <3>2
    <2> QED
        BY <1>11, <2>2, <2>3, <2>4
<1>12. CASE pc[t] \in {"publish", "copy"}
    <2>0. IsSingle(Here(t)) /\ Here(t).copy
        BY <1>1, <1>12 DEF PlaceInv, CopyLabels
    <2>1. CASE pc[t] = "publish"
        <3>1. Stage(t) = 2 /\ Stage(t)' = 3 /\ at'[t] = k /\ met' = [met EXCEPT ![t] = @ + 1]
            BY <1>6, <1>8, <2>1, StageIs DEF Control
        <3>2. M(k, 3) = M(k, 2) \cup {<<k, 3>>} /\ L(k, 3) = L(k, 2)
              /\ <<k, 3>> \in Barriers \ M(k, 2)
            BY <1>1, <1>3, <1>4, <1>5, <2>0 DEF k
        <3> QED
            BY <1>2, <3>1, <3>2
    <2>2. CASE pc[t] = "copy"
        <3>1. Stage(t) = 4 /\ Stage(t)' = 5 /\ at'[t] = k /\ met' = [met EXCEPT ![t] = @ + 1]
            BY <1>6, <1>8, <2>2, StageIs DEF Control
        <3>2. M(k, 5) = M(k, 4) \cup {<<k, 5>>} /\ L(k, 5) = L(k, 4)
              /\ <<k, 5>> \in Barriers \ M(k, 4)
            BY <1>1, <1>3, <1>4, <1>5, <2>0 DEF k
        <3> QED
            BY <1>2, <3>1, <3>2
    <2> QED
        BY <1>12, <2>1, <2>2
<1> QED
    BY <1>1, <1>9, <1>10, <1>11, <1>12 DEF Control

LEMMA ControlMet ==
    ASSUME PlaceInv, MetInv, NEW t \in Team, Control(t), pc[t] # "idle", UNCHANGED regionVars
    PROVE  MetInv'
<1>1. Team' = Team /\ t \in Thread /\ Team \subseteq Thread
    BY Basics DEF regionVars, Team
<1>2. met \in [Thread -> Nat] /\ met' \in [Thread -> Nat]
      /\ \A u \in Thread \ {t} : met'[u] = met[u]
    BY <1>1, Crossing DEF MetInv
<1>3. \A u \in Team \ {t} : Met(u)' = Met(u) /\ Left(u)' = Left(u)
    <2> SUFFICES ASSUME NEW u \in Team \ {t} PROVE Met(u)' = Met(u) /\ Left(u)' = Left(u)
        OBVIOUS
    <2>1. at'[u] = at[u] /\ pc'[u] = pc[u]
        BY <1>1, Motion
    <2>2. Stage(u)' = Stage(u)
        BY <2>1 DEF Stage
    <2>3. Barriers' = Barriers
        BY DEF regionVars, Barriers, HasBarrier, Construct
    <2> QED
        BY <2>1, <2>2, <2>3 DEF Met, Left
<1>4. CASE /\ Met(t)' = Met(t) /\ met' = met
           /\ Left(t)' = Left(t) \/ (AllMet(t) /\ Left(t)' \subseteq Met(t))
    <2>1. \A u \in Team : met'[u] = Cardinality(Met(u)')
        BY <1>3, <1>4 DEF MetInv
    <2>2. \A u \in Team : Left(t)' \subseteq Met(u)
        BY <1>4, AllHaveMet DEF MetInv
    <2>3. \A u, v \in Team : Left(u)' \subseteq Met(v)'
        BY <1>3, <1>4, <2>2 DEF MetInv
    <2> QED
        BY <1>1, <1>2, <2>1, <2>3 DEF MetInv
<1>5. CASE /\ \E b \in Barriers \ Met(t) : Met(t)' = Met(t) \cup {b}
           /\ met' = [met EXCEPT ![t] = @ + 1] /\ Left(t)' = Left(t)
    <2>1. Cardinality(Met(t)') = Cardinality(Met(t)) + 1
        BY <1>5, BarrierFacts, FS_AddElement
    <2>2. \A u \in Team : met'[u] = Cardinality(Met(u)')
        BY <1>1, <1>2, <1>3, <1>5, <2>1 DEF MetInv
    <2>3. \A u, v \in Team : Left(u)' \subseteq Met(v)'
        BY <1>3, <1>5 DEF MetInv
    <2> QED
        BY <1>1, <1>2, <2>2, <2>3 DEF MetInv
<1> QED
    BY <1>4, <1>5, Crossing

\* Nobody has reached a loop behind the barrier that follows a loop somebody is in.
LEMMA NoneBeyond ==
    ASSUME PlaceInv, MetInv, OneLoopAtATime, NEW t \in Team, at[t] \in Construct,
           AtScheduler(at[t]), Stage(t) = 0, NEW u \in Team, NEW j \in Construct,
           AtScheduler(j), at[t] < j
    PROVE  at[u] < j
<1>1. /\ at[t] \in Nat /\ at[u] \in Nat /\ j \in Nat /\ Construct \subseteq Nat
      /\ Construct = 1..Len(program) /\ Len(program) \in Nat
    BY Basics DEF PlaceInv
<1>2. PICK r \in DOMAIN Programs : program \in Programs[r]
    <2>1. program # <<>>
        <3>1. DOMAIN <<>> = {}
            OBVIOUS
        <3> QED
            BY <3>1 DEF Construct
    <2> QED
        BY <2>1 DEF PlaceInv
<1>3. PICK m \in at[t]..(j - 1) : ~program[m].nowait \/ (program[m].kind = "single" /\ program[m].copy)
    <2>1. at[t] \in DOMAIN program /\ j \in DOMAIN program
        BY DEF Construct
    <2>2. {program[at[t]].kind, program[j].kind} = {"loop"}
          /\ {program[at[t]].sched, program[j].sched} \subseteq AtRuntime
        BY Kinds DEF AtScheduler
    <2> QED
        BY <1>2, <2>1, <2>2 DEF OneLoopAtATime
<1>4. m \in Construct /\ m \in Nat /\ at[t] <= m /\ m < j
    BY <1>1, <1>3
<1>5. HasBarrier(m, 5)
    <2>1. IsLoop(program[m]) \/ IsSingle(program[m])
        BY <1>4, Basics
    <2>2. CASE IsLoop(program[m])
        BY <1>3, <2>2, Kinds DEF HasBarrier
    <2>3. CASE IsSingle(program[m])
        BY <1>3, <2>3, Kinds DEF HasBarrier
    <2> QED
        BY <2>1, <2>2, <2>3
<1>6. <<m, 5>> \in Barriers
    BY <1>4, <1>5 DEF Barriers
<1>7. ASSUME j <= at[u] PROVE FALSE
    <2>1. <<m, 5>> \in Left(u)
        BY <1>1, <1>4, <1>6, <1>7 DEF Left
    <2>2. <<m, 5>> \in Met(t)
        BY <2>1 DEF MetInv
    <2> QED
        BY <1>1, <1>4, <2>2 DEF Met
<1> QED
    BY <1>1, <1>7

-----------------------------------------------------------------------------
(* Which loops and singles have been begun *)

LEMMA BegunFacts ==
    ASSUME PlaceInv
    PROVE  /\ IsFiniteSet(Loops) /\ IsFiniteSet(Singles)
           /\ Loops \subseteq Construct /\ Singles \subseteq Construct /\ Loops \cap Singles = {}
           /\ \A ks \in SUBSET Construct :
                 /\ Begun(ks) \subseteq ks /\ IsFiniteSet(ks) /\ IsFiniteSet(Begun(ks))
                 /\ \A t : Counted(t, ks) \subseteq ks /\ IsFiniteSet(Counted(t, ks))
<1>1. IsFiniteSet(Construct)
    BY Basics
<1>2. Loops \subseteq Construct /\ Singles \subseteq Construct /\ Loops \cap Singles = {}
    BY Kinds DEF Loops, Singles, AtScheduler
<1>3. \A ks \in SUBSET Construct : Begun(ks) \subseteq ks /\ \A t : Counted(t, ks) \subseteq ks
    BY DEF Begun, Counted
<1>4. \A ks \in SUBSET Construct : IsFiniteSet(ks)
    BY <1>1, FS_Subset
<1>5. \A ks \in SUBSET Construct : IsFiniteSet(Begun(ks)) /\ \A t : IsFiniteSet(Counted(t, ks))
    BY <1>3, <1>4, FS_Subset
<1> QED
    BY <1>2, <1>3, <1>4, <1>5

\* Who has not yet asked whether it is the first is the first if its count says so.
LEMMA FirstByCount ==
    ASSUME PlaceInv, NEW t \in Team, at[t] \in Construct, pc[t] \in {"init", "single"},
           NEW ks \in SUBSET Construct, at[t] \in ks
    PROVE  /\ at[t] \in Counted(t, ks)
           /\ at[t] \in Begun(ks) <=> Cardinality(Begun(ks)) >= Cardinality(Counted(t, ks))
           /\ Cardinality(Begun(ks)) \in Nat /\ Cardinality(Counted(t, ks)) \in Nat
<1>1. /\ at[t] \in Nat /\ ks \subseteq Nat /\ \A u \in Team : at[u] \in Nat
    BY Basics DEF PlaceInv
<1>2. Counted(t, ks) = {j \in ks : j <= at[t]}
    <2>1. pc[t] # "work"
        OBVIOUS
    <2>2. \A j \in ks : Started(t, j) <=> j <= at[t]
        BY <1>1, <2>1 DEF Started
    <2> QED
        BY <2>2 DEF Counted
<1>3. \A j, k \in ks : k \in Begun(ks) /\ j <= k => j \in Begun(ks)
    BY <1>1 DEF Begun, Chosen
<1>4. IsFiniteSet(Begun(ks)) /\ IsFiniteSet(Counted(t, ks)) /\ Begun(ks) \subseteq ks
    BY BegunFacts
<1>5. Cardinality(Begun(ks)) \in Nat /\ Cardinality(Counted(t, ks)) \in Nat
    BY <1>4, FS_CardinalityType
<1>6. CASE at[t] \in Begun(ks)
    <2>1. Counted(t, ks) \subseteq Begun(ks)
        BY <1>2, <1>3, <1>6
    <2>2. Cardinality(Counted(t, ks)) <= Cardinality(Begun(ks))
        BY <1>4, <2>1, FS_Subset
    <2> QED
        BY <1>1, <1>2, <1>5, <1>6, <2>2
<1>7. CASE at[t] \notin Begun(ks)
    <2>1. Begun(ks) \subseteq Counted(t, ks) \ {at[t]}
        BY <1>1, <1>2, <1>3, <1>4, <1>7
    <2>2. IsFiniteSet(Counted(t, ks) \ {at[t]}) /\ at[t] \in Counted(t, ks)
          /\ Cardinality(Counted(t, ks) \ {at[t]}) = Cardinality(Counted(t, ks)) - 1
        <3>1. at[t] \in Counted(t, ks)
            BY <1>1, <1>2
        <3> QED
            BY <1>4, <3>1, FS_RemoveElement
    <2>3. Cardinality(Begun(ks)) <= Cardinality(Counted(t, ks) \ {at[t]})
        BY <2>1, <2>2, FS_Subset
    <2> QED
        BY <1>5, <1>7, <2>2, <2>3
<1> QED
    BY <1>6, <1>7

LEMMA Progress ==
    ASSUME PlaceInv, NEW t \in Team, Control(t), pc[t] # "idle", UNCHANGED regionVars
    PROVE  /\ \A k \in Construct : Started(t, k)' <=> Started(t, k) \/ k = at[t]
           /\ \A k \in Construct :
                 Chosen(t, k)' <=> Chosen(t, k) \/ (k = at[t] /\ pc'[t] \notin {"init", "single"})
           /\ \A u \in Team \ {t} : \A k \in Construct :
                 Started(u, k)' = Started(u, k) /\ Chosen(u, k)' = Chosen(u, k)
<1>1. /\ at[t] \in Nat /\ Construct = 1..Len(program) /\ Len(program) \in Nat
      /\ at[t] \in Construct /\ Team \subseteq Thread
    BY Inside, Basics
<1>2. \/ at'[t] = at[t] /\ pc'[t] \notin {"work", "idle"}
      \/ /\ at'[t] = at[t] + 1 /\ pc'[t] = IF at[t] < Len(program) THEN "work" ELSE "idle"
    BY Motion
<1>3. \A u \in Team \ {t} : at'[u] = at[u] /\ pc'[u] = pc[u]
    BY <1>1, Motion
<1>4. pc'[t] \in {"init", "single"} => pc[t] = "work" /\ at'[t] = at[t]
    BY <1>1, <1>2 DEF Control, Goes, AfterSingle, EndConstruct, Reach, Goto, PlaceInv, Proceed
<1>5. \A k \in Construct : Started(t, k)' <=> Started(t, k) \/ k = at[t]
    BY <1>1, <1>2 DEF Started
<1>6. \A k \in Construct :
         Chosen(t, k)' <=> Chosen(t, k) \/ (k = at[t] /\ pc'[t] \notin {"init", "single"})
    BY <1>1, <1>2, <1>4 DEF Chosen
<1>7. \A u \in Team \ {t} : \A k \in Construct :
         Started(u, k)' = Started(u, k) /\ Chosen(u, k)' = Chosen(u, k)
    BY <1>3 DEF Started, Chosen
<1> QED
    BY <1>5, <1>6, <1>7

\* What a step adds to the constructs that its thread has counted or begun.
LEMMA Adds ==
    ASSUME PlaceInv, NEW t \in Team, Control(t), pc[t] # "idle", UNCHANGED regionVars
    PROVE  /\ Loops' = Loops /\ Singles' = Singles /\ Construct' = Construct /\ Team' = Team
           /\ \A u \in Team \ {t} : /\ Counted(u, Loops)' = Counted(u, Loops)
                                    /\ Counted(u, Singles)' = Counted(u, Singles)
           /\ Counted(t, Loops)' = Counted(t, Loops) \cup ({at[t]} \cap Loops)
           /\ Counted(t, Singles)' = Counted(t, Singles) \cup ({at[t]} \cap Singles)
           /\ Begun(Loops)' = Begun(Loops) \cup
                 (IF pc'[t] \in {"init", "single"} THEN {} ELSE {at[t]} \cap Loops)
           /\ Begun(Singles)' = Begun(Singles) \cup
                 (IF pc'[t] \in {"init", "single"} THEN {} ELSE {at[t]} \cap Singles)
<1>1. Loops' = Loops /\ Singles' = Singles /\ Construct' = Construct /\ Team' = Team
    BY DEF regionVars, Loops, Singles, Construct, AtScheduler, Team
<1>2. Loops \subseteq Construct /\ Singles \subseteq Construct
    BY BegunFacts
<1>3. /\ \A k \in Construct : Started(t, k)' <=> Started(t, k) \/ k = at[t]
      /\ \A k \in Construct :
            Chosen(t, k)' <=> Chosen(t, k) \/ (k = at[t] /\ pc'[t] \notin {"init", "single"})
      /\ \A u \in Team \ {t} : \A k \in Construct :
            Started(u, k)' = Started(u, k) /\ Chosen(u, k)' = Chosen(u, k)
    BY Progress
<1>4. \A u \in Team : /\ Counted(u, Loops)' = {k \in Loops : Started(u, k)'}
                      /\ Counted(u, Singles)' = {k \in Singles : Started(u, k)'}
    BY <1>1 DEF Counted
<1>5. /\ Begun(Loops)' = {k \in Loops : \E u \in Team : Chosen(u, k)'}
      /\ Begun(Singles)' = {k \in Singles : \E u \in Team : Chosen(u, k)'}
    BY <1>1 DEF Begun
<1>6. \A u \in Team : /\ Counted(u, Loops) = {k \in Loops : Started(u, k)}
                      /\ Counted(u, Singles) = {k \in Singles : Started(u, k)}
    BY DEF Counted
<1>7. /\ Begun(Loops) = {k \in Loops : \E u \in Team : Chosen(u, k)}
      /\ Begun(Singles) = {k \in Singles : \E u \in Team : Chosen(u, k)}
    BY DEF Begun
<1>8. \A k \in Construct : (\E u \in Team : Chosen(u, k)') <=>
         (\E u \in Team : Chosen(u, k)) \/ (k = at[t] /\ pc'[t] \notin {"init", "single"})
    BY <1>3
<1>9. /\ \A u \in Team \ {t} : /\ Counted(u, Loops)' = Counted(u, Loops)
                               /\ Counted(u, Singles)' = Counted(u, Singles)
      /\ Counted(t, Loops)' = Counted(t, Loops) \cup ({at[t]} \cap Loops)
      /\ Counted(t, Singles)' = Counted(t, Singles) \cup ({at[t]} \cap Singles)
    <2>1. \A u \in Team \ {t} : /\ Counted(u, Loops)' = Counted(u, Loops)
                              /\ Counted(u, Singles)' = Counted(u, Singles)
        <3> SUFFICES ASSUME NEW u \in Team \ {t}
                     PROVE  /\ Counted(u, Loops)' = Counted(u, Loops)
                            /\ Counted(u, Singles)' = Counted(u, Singles)
            OBVIOUS
        <3>1. \A k \in Construct : Started(u, k)' = Started(u, k)
            BY <1>3
        <3>2. {k \in Loops : Started(u, k)'} = {k \in Loops : Started(u, k)}
            BY <1>2, <3>1
        <3>3. {k \in Singles : Started(u, k)'} = {k \in Singles : Started(u, k)}
            BY <1>2, <3>1
        <3> QED
            BY <1>4, <1>6, <3>2, <3>3
    <2>2. Counted(t, Loops)' = Counted(t, Loops) \cup ({at[t]} \cap Loops)
        BY <1>2, <1>3, <1>4, <1>6
    <2>3. Counted(t, Singles)' = Counted(t, Singles) \cup ({at[t]} \cap Singles)
        BY <1>2, <1>3, <1>4, <1>6
    <2> QED
        BY <2>1, <2>2, <2>3
<1>10. /\ Begun(Loops)' = Begun(Loops) \cup
             (IF pc'[t] \in {"init", "single"} THEN {} ELSE {at[t]} \cap Loops)
       /\ Begun(Singles)' = Begun(Singles) \cup
             (IF pc'[t] \in {"init", "single"} THEN {} ELSE {at[t]} \cap Singles)
    BY <1>2, <1>5, <1>7, <1>8
<1> QED
    BY <1>1, <1>9, <1>10

\* A team of several has all threads.
LEMMA WholeTeam ==
    ASSUME PlaceInv, OneTeam, teamSize # 1
    PROVE  Team = Thread
<1>1. teamSize \in TeamSizes /\ teamSize \in Nat /\ teamSize > 1
    BY Basics DEF PlaceInv
<1>2. \A n \in TeamSizes : n \in Nat \ {0} /\ (n = 1 \/ n = teamSize)
    BY <1>1, ProgramAssumption DEF OneTeam
<1>3. \A n \in TeamSizes : 0..(n - 1) \subseteq Team
    BY <1>1, <1>2 DEF Team
<1> QED
    BY <1>1, <1>3, Basics DEF Thread

\* The counts of a thread that has counted all it has been told of.
LEMMA CountStep ==
    ASSUME PlaceInv, OneTeam, CountInv, NEW t \in Team, Step(t)
    PROVE  CountInv'
<1>0. /\ Control(t) /\ UNCHANGED regionVars /\ pc[t] # "idle"
      /\ teamSize' = teamSize /\ t \in Thread /\ at[t] \in Construct /\ at[t] \in Nat
    BY StepControl, Inside DEF regionVars
<1>1. /\ Loops' = Loops /\ Singles' = Singles
      /\ \A u \in Team \ {t} : /\ Counted(u, Loops)' = Counted(u, Loops)
                               /\ Counted(u, Singles)' = Counted(u, Singles)
      /\ Counted(t, Loops)' = Counted(t, Loops) \cup ({at[t]} \cap Loops)
      /\ Counted(t, Singles)' = Counted(t, Singles) \cup ({at[t]} \cap Singles)
      /\ Begun(Loops)' = Begun(Loops) \cup
            (IF pc'[t] \in {"init", "single"} THEN {} ELSE {at[t]} \cap Loops)
      /\ Begun(Singles)' = Begun(Singles) \cup
            (IF pc'[t] \in {"init", "single"} THEN {} ELSE {at[t]} \cap Singles)
    BY <1>0, Adds
<1>2. /\ Loops \subseteq Construct /\ Singles \subseteq Construct /\ Loops \cap Singles = {}
      /\ IsFiniteSet(Begun(Loops)) /\ IsFiniteSet(Begun(Singles))
      /\ \A u : IsFiniteSet(Counted(u, Loops)) /\ IsFiniteSet(Counted(u, Singles))
    BY BegunFacts
<1>3. /\ tLoop \in [Thread -> Nat] /\ loopCount \in Nat
      /\ tSingle \in [Thread -> Nat] /\ singleCount \in Nat
    BY DEF CountInv
<1> DEFINE LoopsRight == \A u \in Thread :
              tLoop[u] + Cardinality(Begun(Loops)) = loopCount + Cardinality(Counted(u, Loops))
           SinglesRight == \A u \in Thread :
              tSingle[u] + Cardinality(Begun(Singles))
                 = singleCount + Cardinality(Counted(u, Singles))
<1>4. CASE UNCHANGED <<tLoop, tSingle, loopCount, singleCount>> /\ teamSize = 1
    BY <1>0, <1>4 DEF CountInv
<1>5. CASE teamSize # 1
    <2>1. Team = Thread /\ Team' = Thread
        BY <1>0, <1>5, WholeTeam DEF Team
    <2>2. LoopsRight /\ SinglesRight
        BY <1>5 DEF CountInv
    <2>3. SUFFICES /\ LoopsRight' /\ SinglesRight'
                   /\ tLoop' \in [Thread -> Nat] /\ loopCount' \in Nat
                   /\ tSingle' \in [Thread -> Nat] /\ singleCount' \in Nat
        BY <1>0, <1>5 DEF CountInv
    <2>4. /\ Cardinality(Begun(Loops)) \in Nat /\ Cardinality(Begun(Singles)) \in Nat
          /\ \A u : Cardinality(Counted(u, Loops)) \in Nat /\ Cardinality(Counted(u, Singles)) \in Nat
        BY <1>2, FS_CardinalityType
    <2>5. ASSUME /\ Begun(Loops)' = Begun(Loops) /\ Counted(t, Loops)' = Counted(t, Loops)
                 /\ UNCHANGED <<tLoop, loopCount>>
          PROVE  LoopsRight' /\ tLoop' \in [Thread -> Nat] /\ loopCount' \in Nat
        <3>1. \A u \in Thread : Counted(u, Loops)' = Counted(u, Loops)
            BY <1>1, <2>1, <2>5
        <3> QED
            BY <1>3, <2>2, <2>5, <3>1
    <2>6. ASSUME /\ Begun(Singles)' = Begun(Singles) /\ Counted(t, Singles)' = Counted(t, Singles)
                 /\ UNCHANGED <<tSingle, singleCount>>
          PROVE  SinglesRight' /\ tSingle' \in [Thread -> Nat] /\ singleCount' \in Nat
        <3>1. \A u \in Thread : Counted(u, Singles)' = Counted(u, Singles)
            BY <1>1, <2>1, <2>6
        <3> QED
            BY <1>3, <2>2, <2>6, <3>1
    <2>7. at[t] \notin Loops => Begun(Loops)' = Begun(Loops) /\ Counted(t, Loops)' = Counted(t, Loops)
        BY <1>1
    <2>8. at[t] \notin Singles =>
             Begun(Singles)' = Begun(Singles) /\ Counted(t, Singles)' = Counted(t, Singles)
        BY <1>1
    <2>9. pc[t] \notin {"work", "init", "single"} =>
             /\ Begun(Loops)' = Begun(Loops) /\ Counted(t, Loops)' = Counted(t, Loops)
             /\ Begun(Singles)' = Begun(Singles) /\ Counted(t, Singles)' = Counted(t, Singles)
        BY <1>1, <1>2 DEF Begun, Chosen, Counted, Started
    <2>10. CASE /\ pc[t] \notin {"work", "init", "single"} \/ at[t] \notin Loops \cup Singles
                /\ UNCHANGED <<tLoop, tSingle, loopCount, singleCount>>
        BY <2>5, <2>6, <2>7, <2>8, <2>9, <2>10
    <2>11. CASE CountLoop(t)
        <3>1. at[t] \in Loops /\ pc[t] = "work" /\ at[t] \notin Singles
            <4>1. IsLoop(program[at[t]]) /\ pc[t] = "work"
                BY <1>0, <2>11, Inside, Kinds DEF CountLoop, AtScheduled, AtLoop
            <4>2. AtScheduler(at[t])
                BY <1>0, <2>11, <4>1, LoopFields, Inside
                DEF CountLoop, AtScheduled, AtStatic, AtLoop, AtScheduler
            <4> QED
                BY <1>0, <1>2, <4>1, <4>2 DEF Loops
        <3>2. pc'[t] = "init" /\ tLoop' = [tLoop EXCEPT ![t] = @ + 1]
              /\ UNCHANGED <<tSingle, loopCount, singleCount>>
            BY <1>0, <1>5, <2>11 DEF CountLoop, Goto, PlaceInv, singleVars
        <3>3. at[t] \notin Counted(t, Loops)
            BY <1>0, <3>1 DEF Counted, Started
        <3>4. Begun(Loops)' = Begun(Loops) /\ Counted(t, Loops)' = Counted(t, Loops) \cup {at[t]}
            BY <1>1, <3>1, <3>2
        <3>5. Cardinality(Counted(t, Loops)') = Cardinality(Counted(t, Loops)) + 1
            BY <1>2, <3>3, <3>4, FS_AddElement
        <3>6. \A u \in Thread \ {t} : Counted(u, Loops)' = Counted(u, Loops) /\ tLoop'[u] = tLoop[u]
            BY <1>1, <2>1, <3>2
        <3>7. tLoop'[t] = tLoop[t] + 1
            BY <1>0, <1>3, <3>2
        <3>8. LoopsRight'
            <4> SUFFICES ASSUME NEW u \in Thread
                         PROVE  tLoop'[u] + Cardinality(Begun(Loops)')
                                   = loopCount' + Cardinality(Counted(u, Loops)')
                OBVIOUS
            <4>1. tLoop[u] + Cardinality(Begun(Loops)) = loopCount + Cardinality(Counted(u, Loops))
                BY <2>2
            <4>2. loopCount' = loopCount /\ Begun(Loops)' = Begun(Loops)
                BY <3>2, <3>4
            <4>3. CASE u = t
                BY <1>0, <1>3, <2>4, <3>5, <3>7, <4>1, <4>2, <4>3
            <4>4. CASE u # t
                BY <3>6, <4>1, <4>2, <4>4
            <4> QED
                BY <4>3, <4>4
        <3>9. tLoop' \in [Thread -> Nat] /\ loopCount' \in Nat
            <4>1. tLoop[t] + 1 \in Nat
                BY <1>0, <1>3
            <4> QED
                BY <1>0, <1>3, <3>2, <4>1
        <3> QED
            BY <2>6, <2>8, <3>1, <3>2, <3>8, <3>9
    <2>12. CASE InitTeam(t)
        <3>1. at[t] \in Loops /\ pc[t] = "init" /\ at[t] \notin Singles
            BY <1>0, <1>2, <2>12 DEF InitTeam, Loops, PlaceInv, LoopLabels
        <3>2. pc'[t] = "next" /\ UNCHANGED <<tLoop, tSingle, singleCount>>
            BY <1>0, <2>12 DEF InitTeam, Goto, PlaceInv, singleVars
        <3>3. at[t] \in Counted(t, Loops)
              /\ (at[t] \in Begun(Loops)
                     <=> Cardinality(Begun(Loops)) >= Cardinality(Counted(t, Loops)))
            BY <1>0, <1>2, <3>1, FirstByCount
        <3>4. Counted(t, Loops)' = Counted(t, Loops) /\ Begun(Loops)' = Begun(Loops) \cup {at[t]}
            BY <1>1, <3>1, <3>2, <3>3
        <3>5. loopCount >= tLoop[t] <=> at[t] \in Begun(Loops)
            BY <1>0, <1>3, <2>2, <2>4, <3>3
        <3>6. CASE at[t] \in Begun(Loops)
            <4>1. Begun(Loops)' = Begun(Loops) /\ UNCHANGED loopCount
                BY <2>12, <3>4, <3>5, <3>6 DEF InitTeam, countVars
            <4> QED
                BY <2>5, <2>6, <2>8, <3>1, <3>2, <3>4, <4>1
        <3>7. CASE at[t] \notin Begun(Loops)
            <4>1. loopCount' = loopCount + 1
                BY <2>12, <3>5, <3>7 DEF InitTeam
            <4>2. Cardinality(Begun(Loops)') = Cardinality(Begun(Loops)) + 1
                BY <1>2, <3>4, <3>7, FS_AddElement
            <4>3. \A u \in Thread : Counted(u, Loops)' = Counted(u, Loops)
                BY <1>1, <2>1, <3>4
            <4>4. LoopsRight'
                BY <1>3, <2>2, <2>4, <3>2, <4>1, <4>2, <4>3
            <4>5. tLoop' \in [Thread -> Nat] /\ loopCount' \in Nat
                BY <1>3, <3>2, <4>1
            <4> QED
                BY <2>6, <2>8, <3>1, <3>2, <4>4, <4>5
        <3> QED
            BY <3>6, <3>7
    <2>13. CASE CountSingle(t)
        <3>1. at[t] \in Singles /\ pc[t] = "work" /\ at[t] \notin Loops
            <4>1. IsSingle(program[at[t]]) /\ pc[t] = "work"
                BY <1>0, <2>13, Inside, Kinds DEF CountSingle, AtSingle
            <4> QED
                BY <1>0, <1>2, <4>1 DEF Singles
        <3>2. pc'[t] = "single" /\ tSingle' = [tSingle EXCEPT ![t] = @ + 1]
              /\ UNCHANGED <<tLoop, loopCount, singleCount>>
            BY <1>0, <1>5, <2>13 DEF CountSingle, Goto, PlaceInv, countVars
        <3>3. at[t] \notin Counted(t, Singles)
            BY <1>0, <3>1 DEF Counted, Started
        <3>4. /\ Begun(Singles)' = Begun(Singles)
              /\ Counted(t, Singles)' = Counted(t, Singles) \cup {at[t]}
            BY <1>1, <3>1, <3>2
        <3>5. Cardinality(Counted(t, Singles)') = Cardinality(Counted(t, Singles)) + 1
            BY <1>2, <3>3, <3>4, FS_AddElement
        <3>6. \A u \in Thread \ {t} :
                 Counted(u, Singles)' = Counted(u, Singles) /\ tSingle'[u] = tSingle[u]
            BY <1>1, <2>1, <3>2
        <3>7. tSingle'[t] = tSingle[t] + 1
            BY <1>0, <1>3, <3>2
        <3>8. SinglesRight'
            <4> SUFFICES ASSUME NEW u \in Thread
                         PROVE  tSingle'[u] + Cardinality(Begun(Singles)')
                                   = singleCount' + Cardinality(Counted(u, Singles)')
                OBVIOUS
            <4>1. tSingle[u] + Cardinality(Begun(Singles)) = singleCount + Cardinality(Counted(u, Singles))
                BY <2>2
            <4>2. singleCount' = singleCount /\ Begun(Singles)' = Begun(Singles)
                BY <3>2, <3>4
            <4>3. CASE u = t
                BY <1>0, <1>3, <2>4, <3>5, <3>7, <4>1, <4>2, <4>3
            <4>4. CASE u # t
                BY <3>6, <4>1, <4>2, <4>4
            <4> QED
                BY <4>3, <4>4
        <3>9. tSingle' \in [Thread -> Nat] /\ singleCount' \in Nat
            <4>1. tSingle[t] + 1 \in Nat
                BY <1>0, <1>3
            <4> QED
                BY <1>0, <1>3, <3>2, <4>1
        <3> QED
            BY <2>5, <2>7, <3>1, <3>2, <3>8, <3>9
    <2>14. CASE EnterSingle(t)
        <3>1. at[t] \in Singles /\ pc[t] = "single" /\ at[t] \notin Loops
            BY <1>0, <1>2, <2>14 DEF EnterSingle, Singles, PlaceInv
        <3>2. pc'[t] \notin {"init", "single"} /\ UNCHANGED <<tLoop, loopCount, tSingle>>
            BY <1>0, <2>14
            DEF EnterSingle, AfterSingle, EndConstruct, Reach, Proceed, Goto, PlaceInv, countVars
        <3>3. at[t] \in Counted(t, Singles)
              /\ (at[t] \in Begun(Singles)
                     <=> Cardinality(Begun(Singles)) >= Cardinality(Counted(t, Singles)))
            BY <1>0, <1>2, <3>1, FirstByCount
        <3>4. Counted(t, Singles)' = Counted(t, Singles)
              /\ Begun(Singles)' = Begun(Singles) \cup {at[t]}
            BY <1>1, <3>1, <3>2, <3>3
        <3>5. ~(singleCount < tSingle[t]) <=> at[t] \in Begun(Singles)
            BY <1>0, <1>3, <2>2, <2>4, <3>3
        <3>6. CASE at[t] \in Begun(Singles)
            <4>1. Begun(Singles)' = Begun(Singles) /\ UNCHANGED singleCount
                BY <2>14, <3>4, <3>5, <3>6 DEF EnterSingle
            <4> QED
                BY <2>5, <2>6, <2>7, <3>1, <3>2, <3>4, <4>1
        <3>7. CASE at[t] \notin Begun(Singles)
            <4>1. singleCount' = singleCount + 1
                BY <2>14, <3>5, <3>7 DEF EnterSingle
            <4>2. Cardinality(Begun(Singles)') = Cardinality(Begun(Singles)) + 1
                BY <1>2, <3>4, <3>7, FS_AddElement
            <4>3. \A u \in Thread : Counted(u, Singles)' = Counted(u, Singles)
                BY <1>1, <2>1, <3>4
            <4>4. SinglesRight'
                BY <1>3, <2>2, <2>4, <3>2, <4>1, <4>2, <4>3
            <4>5. tSingle' \in [Thread -> Nat] /\ singleCount' \in Nat
                BY <1>3, <3>2, <4>1
            <4> QED
                BY <2>5, <2>7, <3>1, <3>2, <4>4, <4>5
        <3> QED
            BY <3>6, <3>7
    <2>15. StaticInit(t) => at[t] \notin Loops \cup Singles
        BY Kinds DEF StaticInit, AtStatic, AtLoop, Here, Loops, Singles, AtScheduler, AtRuntime
    <2> HIDE DEF LoopsRight, SinglesRight
    <2>16. CASE ~(CountLoop(t) \/ InitTeam(t) \/ CountSingle(t) \/ EnterSingle(t))
        <3>1. /\ UNCHANGED <<tLoop, tSingle, loopCount, singleCount>>
              /\ pc[t] \notin {"work", "init", "single"} \/ StaticInit(t)
            BY <2>16
            DEF Step, StaticInit, NextAlone, NextEven, NextStatic, NextDynamic, NextGuided, Share,
                Scheduled, NoMore, Iterate, EnterOrdered, EndOrdered, ChunkDone, SingleEnd, Publish,
                Published, Copy, Barrier, AtLoop, countVars, singleVars
        <3> QED
            BY <2>10, <2>15, <3>1
    <2> QED
        BY <2>11, <2>12, <2>13, <2>14, <2>16
<1>6. teamSize = 1 => UNCHANGED <<tLoop, tSingle, loopCount, singleCount>>
    <2> SUFFICES ASSUME teamSize = 1 PROVE UNCHANGED <<tLoop, tSingle, loopCount, singleCount>>
        OBVIOUS
    <2>1. pc[t] \notin {"init", "single"}
        BY DEF PlaceInv
    <2> QED
        BY <2>1
        DEF Step, StaticInit, CountLoop, InitTeam, NextAlone, NextEven, NextStatic, NextDynamic,
            NextGuided, Share, Scheduled, NoMore, Iterate, EnterOrdered, EndOrdered, ChunkDone,
            CountSingle, EnterSingle, SingleEnd, Publish, Published, Copy, Barrier,
            AtLoop, countVars, singleVars, RunSingle
<1> QED
    BY <1>4, <1>5, <1>6

-----------------------------------------------------------------------------
(* Who executes a single, and whose data are copied *)

LEMMA RanAtIs ==
    ASSUME TypeInv
    PROVE  \A k, x : x \in RanAt(k) <=> <<k, x>> \in ran
BY DEF TypeInv, RanAt

\* What is executed belongs to the construct that the thread is in.
LEMMA RanGrows ==
    ASSUME NEW t, NEW w, Execute(t, w)
    PROVE  \A k : RanAt(k)' = RanAt(k) \cup (IF k = at[t] THEN {w} ELSE {})
<1>1. ran' = ran \cup {<<at[t], w>>}
    BY DEF Execute
<1> SUFFICES ASSUME NEW k PROVE RanAt(k)' = RanAt(k) \cup (IF k = at[t] THEN {w} ELSE {})
    OBVIOUS
<1>2. {x \in ran' : x[1] = k} = {x \in ran : x[1] = k}
                                  \cup (IF k = at[t] THEN {<<at[t], w>>} ELSE {})
    BY <1>1
<1>3. CASE k = at[t]
    <2>1. RanAt(k)' = {x[2] : x \in {y \in ran : y[1] = k} \cup {<<at[t], w>>}}
        BY <1>2, <1>3 DEF RanAt
    <2>2. <<at[t], w>>[2] = w
        OBVIOUS
    <2> QED
        BY <1>3, <2>1, <2>2 DEF RanAt
<1>4. CASE k # at[t]
    BY <1>2, <1>4 DEF RanAt
<1> QED
    BY <1>3, <1>4

\* the step in which a thread executes a single, and what it needs to see
Runs(t) == \/ EnterSingle(t) /\ singleCount < tSingle[t]
           \/ CountSingle(t) /\ teamSize = 1

LEMMA RunsFirst ==
    ASSUME PlaceInv, OneTeam, CountInv, NEW t \in Team, Step(t)
    PROVE  /\ Runs(t) => /\ at[t] \in Singles \ Begun(Singles)
                         /\ RunSingle(t) /\ AfterSingle(t) /\ pc[t] \in {"work", "single"}
                         /\ UNCHANGED cppriv
           /\ EnterSingle(t) /\ ~Runs(t) =>
                 /\ at[t] \in Begun(Singles) /\ ran' = ran /\ again' = again /\ pc[t] = "single"
                 /\ first' = [first EXCEPT ![t] = FALSE]
<1>0. /\ Control(t) /\ pc[t] # "idle" /\ t \in Thread
      /\ at[t] \in Construct /\ at[t] \in Nat /\ Here(t) = program[at[t]]
      /\ teamSize \in Nat \ {0}
    BY StepControl, Inside, Basics
<1>1. Singles \subseteq Construct
    BY BegunFacts
<1>2. CASE EnterSingle(t)
    <2>1. at[t] \in Singles /\ pc[t] = "single" /\ teamSize # 1
        BY <1>0, <1>2 DEF EnterSingle, Singles, PlaceInv
    <2>2. /\ at[t] \in Begun(Singles)
                 <=> Cardinality(Begun(Singles)) >= Cardinality(Counted(t, Singles))
          /\ Cardinality(Begun(Singles)) \in Nat /\ Cardinality(Counted(t, Singles)) \in Nat
        BY <1>0, <1>1, <2>1, FirstByCount
    <2>3. /\ tSingle[t] + Cardinality(Begun(Singles))
                = singleCount + Cardinality(Counted(t, Singles))
          /\ tSingle[t] \in Nat /\ singleCount \in Nat
        BY <1>0, <2>1 DEF CountInv
    <2>4. singleCount < tSingle[t] <=> at[t] \notin Begun(Singles)
        BY <2>2, <2>3
    <2>5. ~CountSingle(t)
        BY <2>1 DEF CountSingle, AtSingle
    <2>6. UNCHANGED cppriv /\ AfterSingle(t)
        BY <1>2 DEF EnterSingle
    <2>7. singleCount < tSingle[t] => RunSingle(t)
        BY <1>2 DEF EnterSingle
    <2>8. ~(singleCount < tSingle[t]) =>
             ran' = ran /\ again' = again /\ first' = [first EXCEPT ![t] = FALSE]
        BY <1>2 DEF EnterSingle, ghostVars
    <2> QED
        BY <2>1, <2>4, <2>5, <2>6, <2>7, <2>8 DEF Runs
<1>3. CASE CountSingle(t) /\ teamSize = 1
    <2>1. IsSingle(program[at[t]]) /\ pc[t] = "work" /\ ~EnterSingle(t)
        BY <1>0, <1>3, Inside, Kinds DEF CountSingle, AtSingle, EnterSingle
    <2>2. at[t] \in Singles
        BY <1>0, <2>1 DEF Singles
    <2>3. Team = {t}
        BY <1>3 DEF Team
    <2>4. at[t] \notin Begun(Singles)
        BY <1>0, <2>1, <2>3 DEF Begun, Chosen
    <2> QED
        BY <1>3, <2>1, <2>2, <2>4 DEF CountSingle
<1>4. CASE ~EnterSingle(t) /\ ~(CountSingle(t) /\ teamSize = 1)
    BY <1>4 DEF Runs
<1> QED
    BY <1>2, <1>3, <1>4

\* Nothing else touches a single that was executed, or what was published.
LEMMA NotRun ==
    ASSUME PlaceInv, OneTeam, CountInv, NEW t \in Team, Step(t)
    PROVE  /\ ~Runs(t) => \A k \in Singles : RanAt(k)' = RanAt(k)
           /\ ~Runs(t) /\ ~EnterSingle(t) => first' = first
           /\ ~Publish(t) => cppriv' = cppriv
<1>0. /\ pc[t] # "idle" /\ at[t] \in Construct /\ Here(t) = program[at[t]]
      /\ IsLoop(Here(t)) \/ IsSingle(Here(t))
    BY StepControl, Inside
<1>1. CASE Iterate(t) \/ EnterOrdered(t)
    <2>1. Here(t).kind = "loop" /\ Execute(t, cur[t].lower)
        BY <1>1 DEF Iterate, EnterOrdered, AtLoop, Advance
    <2>2. at[t] \notin Singles
        BY <1>0, <2>1, Kinds DEF Singles
    <2>3. \A k \in Singles : RanAt(k)' = RanAt(k)
        <3>1. \A k : RanAt(k)' = RanAt(k) \cup (IF k = at[t] THEN {cur[t].lower} ELSE {})
            BY <2>1, RanGrows
        <3> QED
            BY <2>2, <3>1
    <2> QED
        BY <1>1, <2>3 DEF Iterate, EnterOrdered, singleVars
<1>2. CASE CountSingle(t) /\ teamSize # 1
    BY <1>2 DEF CountSingle, ghostVars, RanAt
<1>3. CASE EnterSingle(t) \/ Runs(t)
    <2>1. ~Runs(t) => ran' = ran
        BY <1>3, RunsFirst
    <2>2. cppriv' = cppriv
        BY <1>3 DEF EnterSingle, CountSingle, Runs
    <2> QED
        BY <1>3, <2>1, <2>2 DEF RanAt
<1>4. CASE Publish(t)
    BY <1>4 DEF Publish, ghostVars, RanAt
<1>5. CASE ~(\/ Iterate(t) \/ EnterOrdered(t) \/ CountSingle(t) \/ EnterSingle(t) \/ Publish(t))
    BY <1>5
    DEF Step, StaticInit, CountLoop, InitTeam, NextAlone, NextEven, NextStatic, NextDynamic,
        NextGuided, EndOrdered, ChunkDone, SingleEnd, Published, Copy, Barrier,
        singleVars, ghostVars, RanAt
<1> QED
    BY <1>1, <1>2, <1>3, <1>4, <1>5 DEF Runs

LEMMA SingleStep ==
    ASSUME TypeInv, PlaceInv, OneTeam, CountInv, SingleInv, NEW t \in Team, Step(t)
    PROVE  SingleInv'
<1>0. /\ Control(t) /\ pc[t] # "idle" /\ UNCHANGED regionVars /\ t \in Thread
      /\ at[t] \in Construct /\ at[t] \in Nat /\ Here(t) = program[at[t]]
      /\ Team \subseteq Thread /\ first \in [Thread -> BOOLEAN]
      /\ Construct = 1..Len(program) /\ Len(program) \in Nat
    BY StepControl, Inside, Basics DEF TypeInv
<1>1. /\ Singles' = Singles /\ Team' = Team /\ Singles \subseteq Construct
      /\ Begun(Singles)' = Begun(Singles) \cup
            (IF pc'[t] \in {"init", "single"} THEN {} ELSE {at[t]} \cap Singles)
    BY <1>0, Adds, BegunFacts
<1>2. /\ \A k \in Construct : Chosen(t, k) => Chosen(t, k)'
      /\ \A u \in Team \ {t} : \A k \in Construct : Chosen(u, k)' = Chosen(u, k)
    BY <1>0, Progress
<1>3. /\ \A u \in Thread \ {t} : at'[u] = at[u] /\ pc'[u] = pc[u]
      /\ \/ at' = at /\ pc'[t] \notin {"work", "idle"}
         \/ at'[t] = at[t] + 1 /\ pc'[t] = IF at[t] < Len(program) THEN "work" ELSE "idle"
    BY <1>0, Motion
<1>4. \A k \in Singles : at'[t] = k /\ Chosen(t, k)' => k = at[t] /\ pc'[t] \notin {"init", "single"}
    BY <1>0, <1>1, <1>3 DEF Chosen
<1> SUFFICES ASSUME NEW k \in Singles
             PROVE  /\ RanAt(k)' # {} <=> k \in Begun(Singles)'
                    /\ \A x, y \in RanAt(k)' : x = y
                    /\ \A x \in RanAt(k)' : x \in Team /\ Chosen(x, k)'
                    /\ \A u \in Team : at'[u] = k /\ Chosen(u, k)' => (first'[u] <=> u \in RanAt(k)')
    BY <1>1 DEF SingleInv
<1>5. /\ RanAt(k) # {} <=> k \in Begun(Singles)
      /\ \A x, y \in RanAt(k) : x = y
      /\ \A x \in RanAt(k) : x \in Team /\ Chosen(x, k)
      /\ \A u \in Team : at[u] = k /\ Chosen(u, k) => (first[u] <=> u \in RanAt(k))
    BY DEF SingleInv
<1>6. k \in Construct
    BY <1>1
<1>7. CASE Runs(t)
    <2>1. /\ at[t] \in Singles \ Begun(Singles) /\ Execute(t, t) /\ first' = [first EXCEPT ![t] = TRUE]
          /\ pc'[t] \notin {"init", "single"}
        <3>1. /\ at[t] \in Singles \ Begun(Singles) /\ RunSingle(t) /\ AfterSingle(t)
            BY <1>7, RunsFirst
        <3>2. pc'[t] \notin {"init", "single"}
            BY <1>0, <3>1 DEF AfterSingle, EndConstruct, Reach, Proceed, Goto, PlaceInv
        <3> QED
            BY <3>1, <3>2 DEF RunSingle
    <2>2. RanAt(k)' = RanAt(k) \cup (IF k = at[t] THEN {t} ELSE {})
        BY <2>1, RanGrows
    <2>3. CASE k = at[t]
        <3>1. RanAt(k) = {} /\ RanAt(k)' = {t}
            BY <1>5, <2>1, <2>2, <2>3
        <3>2. k \in Begun(Singles)' /\ Chosen(t, k)' /\ first'[t]
            <4>1. Chosen(t, k)'
                BY <1>0, <1>6, <2>1, <2>3, Progress
            <4> QED
                BY <1>0, <1>1, <2>1, <2>3, <4>1
        <3>3. \A u \in Team \ {t} : ~Chosen(u, k)'
            BY <1>2, <1>6, <2>1, <2>3 DEF Begun
        <3> QED
            BY <3>1, <3>2, <3>3
    <2>4. CASE k # at[t]
        <3>1. RanAt(k)' = RanAt(k) /\ (k \in Begun(Singles)' <=> k \in Begun(Singles))
            BY <1>1, <2>2, <2>4
        <3>2. \A x \in RanAt(k) : Chosen(x, k)'
            BY <1>2, <1>5, <1>6
        <3>3. ~(at'[t] = k /\ Chosen(t, k)')
            BY <1>4, <2>4
        <3>4. \A u \in Team \ {t} : /\ at'[u] = at[u] /\ Chosen(u, k)' = Chosen(u, k)
                                    /\ first'[u] = first[u]
            BY <1>0, <1>2, <1>3, <1>6, <2>1
        <3> QED
            BY <1>5, <3>1, <3>2, <3>3, <3>4
    <2> QED
        BY <2>3, <2>4
<1>8. CASE ~Runs(t)
    <2>0. ASSUME ~EnterSingle(t), k = at[t], pc'[t] \notin {"init", "single"}
          PROVE  pc[t] \notin {"work", "init", "single"}
        <3>1. pc[t] # "init"
            BY <1>0, <2>0, Kinds DEF PlaceInv, LoopLabels, Singles
        <3>2. pc[t] # "single"
            BY <2>0
            DEF Step, StaticInit, CountLoop, InitTeam, NextAlone, NextEven, NextStatic,
                NextDynamic, NextGuided, Scheduled, Iterate, EnterOrdered, EndOrdered, ChunkDone,
                CountSingle, SingleEnd, Publish, Published, Copy, Barrier,
                AtLoop, AtSingle, AtStatic, AtScheduled
        <3>3. pc[t] # "work"
            <4> SUFFICES ASSUME pc[t] = "work" PROVE FALSE
                OBVIOUS
            <4>1. IsSingle(Here(t)) /\ ~IsLoop(Here(t))
                BY <1>0, <2>0, Kinds DEF Singles
            <4>2. CountSingle(t)
                BY <1>0, <4>1, Kinds
                DEF Step, StaticInit, CountLoop, InitTeam, NextAlone, NextEven, NextStatic,
                    NextDynamic, NextGuided, Scheduled, Iterate, EnterOrdered, EndOrdered,
                    ChunkDone, EnterSingle, SingleEnd, Publish, Published, Copy, Barrier,
                    AtLoop, AtSingle, AtStatic, AtScheduled
            <4>3. pc'[t] = "single"
                BY <1>0, <1>8, <4>2 DEF Runs, CountSingle, Goto, PlaceInv
            <4> QED
                BY <2>0, <4>3
        <3> QED
            BY <3>1, <3>2, <3>3
    <2>1. RanAt(k)' = RanAt(k)
        BY <1>8, NotRun
    <2>2. \A x \in RanAt(k) : Chosen(x, k)'
        BY <1>2, <1>5, <1>6
    <2>3. k \in Begun(Singles)' <=> k \in Begun(Singles)
        <3> SUFFICES ASSUME k = at[t], pc'[t] \notin {"init", "single"} PROVE k \in Begun(Singles)
            BY <1>1
        <3>1. CASE EnterSingle(t)
            BY <1>8, <3>1, RunsFirst
        <3>2. CASE ~EnterSingle(t)
            BY <1>0, <2>0, <3>2 DEF Begun, Chosen
        <3> QED
            BY <3>1, <3>2
    <2>4. \A u \in Team \ {t} : at'[u] = k /\ Chosen(u, k)' => (first'[u] <=> u \in RanAt(k))
        <3>1. \A u \in Team \ {t} : first'[u] = first[u]
            BY <1>0, <1>8, NotRun, RunsFirst
        <3> QED
            BY <1>0, <1>2, <1>3, <1>5, <1>6, <3>1
    <2>5. at'[t] = k /\ Chosen(t, k)' => (first'[t] <=> t \in RanAt(k))
        <3> SUFFICES ASSUME k = at[t], pc'[t] \notin {"init", "single"}, k \in Begun(Singles)
                     PROVE  first'[t] <=> t \in RanAt(k)
            BY <1>1, <1>4, <2>3
        <3>1. CASE EnterSingle(t)
            <4>1. ~first'[t] /\ pc[t] = "single"
                BY <1>0, <1>8, <3>1, RunsFirst
            <4>2. ~Chosen(t, k)
                BY <1>0, <4>1 DEF Chosen
            <4> QED
                BY <1>5, <4>1, <4>2
        <3>2. CASE ~EnterSingle(t)
            <4>1. first' = first
                BY <1>8, <3>2, NotRun
            <4>2. Chosen(t, k)
                <5>1. pc[t] \notin {"work", "init", "single"}
                    BY <2>0, <3>2
                <5> QED
                    BY <1>0, <5>1 DEF Chosen
            <4> QED
                BY <1>5, <4>1, <4>2
        <3> QED
            BY <3>1, <3>2
    <2> QED
        BY <1>5, <2>1, <2>2, <2>3, <2>4, <2>5
<1> QED
    BY <1>7, <1>8

\* A barrier once met is met; and who is past a construct has left its barriers.
LEMMA MetGrows ==
    ASSUME PlaceInv, NEW t \in Team, Control(t), pc[t] # "idle", UNCHANGED regionVars
    PROVE  /\ \A u \in Team : Met(u) \subseteq Met(u)'
           /\ \A u \in Team \ {t} : Met(u)' = Met(u) /\ Stage(u)' = Stage(u)
<1>1. t \in Thread /\ Team \subseteq Thread
    BY Basics
<1>2. ASSUME NEW u \in Team \ {t} PROVE Met(u)' = Met(u) /\ Stage(u)' = Stage(u)
    <2>1. at'[u] = at[u] /\ pc'[u] = pc[u]
        BY <1>1, Motion
    <2>2. Stage(u)' = Stage(u)
        BY <2>1 DEF Stage
    <2>3. Barriers' = Barriers
        BY DEF regionVars, Barriers, HasBarrier, Construct
    <2> QED
        BY <2>1, <2>2, <2>3 DEF Met
<1>3. Met(t) \subseteq Met(t)'
    BY Crossing
<1> QED
    BY <1>2, <1>3

LEMMA CopyStep ==
    ASSUME TypeInv, PlaceInv, OneTeam, CountInv, MetInv, SingleInv, SingleInv', CopyInv,
           NEW t \in Team, Step(t)
    PROVE  CopyInv'
<1>0. /\ Control(t) /\ pc[t] # "idle" /\ UNCHANGED regionVars /\ t \in Thread
      /\ at[t] \in Construct /\ at[t] \in Nat /\ Here(t) = program[at[t]]
      /\ Team \subseteq Thread /\ first \in [Thread -> BOOLEAN]
      /\ at \in [Thread -> Nat]
    BY StepControl, Inside, Basics DEF TypeInv, PlaceInv
<1>1. /\ Singles' = Singles /\ Team' = Team /\ program' = program
    BY <1>0, Adds DEF regionVars
<1>2. /\ \A u \in Team : Met(u) \subseteq Met(u)'
      /\ \A u \in Team \ {t} : Met(u)' = Met(u) /\ Stage(u)' = Stage(u)
      /\ \A u \in Thread \ {t} : at'[u] = at[u] /\ pc'[u] = pc[u]
    BY <1>0, MetGrows, Motion
<1> SUFFICES ASSUME NEW k \in Singles, program[k].copy, NEW x \in RanAt(k)', NEW u \in Team,
                    at'[x] = k, Stage(x)' \in {3, 4, 5}, <<k, 5>> \notin Met(u)'
             PROVE  cppriv' = <<k, x>>
    BY <1>1 DEF CopyInv
<1>3. x \in Team /\ k \in Construct /\ IsSingle(program[k]) /\ k \in Nat
    <2>1. x \in Team
        BY <1>1 DEF SingleInv
    <2>2. k \in Construct /\ IsSingle(program[k])
        BY DEF Singles
    <2> QED
        BY <2>1, <2>2, Basics
<1>4. <<k, 5>> \notin Met(u) /\ <<k, 5>> \in Barriers
    BY <1>2, <1>3, Kinds DEF Barriers, HasBarrier
<1>5. ~Runs(t) => RanAt(k)' = RanAt(k)
    BY NotRun
<1>6. ASSUME x = t
      PROVE  \/ Publish(t) /\ first[t] /\ k = at[t]
             \/ ~Runs(t) /\ ~Publish(t) /\ at[t] = k /\ Stage(t) \in {3, 4, 5}
    <2>0. at'[t] = k /\ pc'[t] \in {"published", "copy", "barrier"}
        BY <1>6, StageIs DEF Stage
    <2>1. k = at[t]
        BY <1>0, <1>6, <2>0, Motion
    <2>2. IsSingle(Here(t)) /\ Here(t).copy /\ ~IsLoop(Here(t)) /\ Here(t).copy \in BOOLEAN
        BY <1>0, <1>3, <2>1, Kinds
    <2>3. ~AfterSingle(t)
        BY <1>0, <2>0, <2>2 DEF AfterSingle, Reach, Goto, PlaceInv
    <2>4. ~Runs(t)
        BY <2>3, RunsFirst
    <2>5. pc[t] \in {"publish", "published", "copy"}
        BY <1>0, <2>0, <2>2, <2>3 DEF Control, Goes, Reach, Proceed, Goto, PlaceInv
    <2>6. CASE pc[t] = "publish"
        <3>1. Publish(t)
            BY <1>0, <2>2, <2>6, Kinds
            DEF Step, StaticInit, CountLoop, InitTeam, NextAlone, NextEven, NextStatic,
                NextDynamic, NextGuided, Scheduled, Iterate, EnterOrdered, EndOrdered, ChunkDone,
                CountSingle, EnterSingle, SingleEnd, Published, Copy, Barrier,
                AtLoop, AtSingle, AtStatic, AtScheduled
        <3>2. Chosen(t, k)
            BY <2>1, <2>6 DEF Chosen
        <3>3. t \in RanAt(k)
            BY <1>5, <1>6, <2>4
        <3>4. first[t]
            BY <2>1, <3>2, <3>3 DEF SingleInv
        <3> QED
            BY <2>1, <3>1, <3>4
    <2>7. CASE pc[t] # "publish"
        <3>1. Stage(t) \in {3, 4, 5}
            BY <2>5, <2>7, StageIs
        <3> QED
            BY <2>1, <2>4, <2>7, <3>1 DEF Publish
    <2> QED
        BY <2>6, <2>7
<1>7. CASE Publish(t) /\ first[t]
    <2>1. /\ cppriv' = <<at[t], t>> /\ pc[t] = "publish" /\ at' = at /\ ~Runs(t)
        BY <1>7 DEF Publish, Reach, Runs, EnterSingle, CountSingle, AtSingle
    <2>2. at[t] \in Singles /\ program[at[t]].copy /\ Stage(t) = 2 /\ Chosen(t, at[t])
        BY <1>0, <2>1, StageIs DEF PlaceInv, CopyLabels, Singles, Chosen
    <2>3. CASE k = at[t]
        <3>1. t \in RanAt(k) /\ x \in RanAt(k)
            BY <1>5, <1>7, <2>1, <2>2, <2>3 DEF SingleInv
        <3>2. x = t
            BY <3>1 DEF SingleInv
        <3> QED
            BY <2>1, <2>3, <3>2
    <2>4. CASE k < at[t]
        <3>1. <<k, 5>> \in Left(t)
            BY <1>4, <2>4 DEF Left
        <3> QED
            BY <1>4, <3>1 DEF MetInv
    <2>5. CASE k > at[t]
        <3>1. x # t /\ at[x] = k
            BY <1>0, <1>2, <1>3, <2>1, <2>5
        <3>2. <<at[t], 5>> \in Barriers
            BY <1>0, <2>2, Kinds DEF Barriers, HasBarrier, Singles
        <3>3. <<at[t], 5>> \in Left(x)
            BY <2>5, <3>1, <3>2 DEF Left
        <3>4. <<at[t], 5>> \in Met(t)
            BY <1>3, <3>3 DEF MetInv
        <3>5. <<at[t], 5>> \notin Met(t)
            BY <1>0, <2>2 DEF Met
        <3> QED
            BY <3>4, <3>5
    <2> QED
        BY <1>0, <1>3, <2>3, <2>4, <2>5
<1>8. CASE ~(Publish(t) /\ first[t])
    <2>1. x # t \/ (~Runs(t) /\ at[t] = k /\ Stage(t) \in {3, 4, 5})
        BY <1>6, <1>8
    <2>2. at[x] = k /\ Stage(x) \in {3, 4, 5}
        BY <1>0, <1>2, <1>3, <2>1
    <2>3. x \in RanAt(k)
        <3>1. CASE x # t
            <4>1. Runs(t) => RanAt(k)' = RanAt(k) \cup (IF k = at[t] THEN {t} ELSE {})
                BY RunsFirst, RanGrows DEF RunSingle
            <4> QED
                BY <1>5, <3>1, <4>1
        <3> QED
            BY <1>5, <2>1, <3>1
    <2>4. cppriv = <<k, x>>
        BY <1>4, <2>2, <2>3 DEF CopyInv
    <2>5. Publish(t) => cppriv' = cppriv
        BY <1>8 DEF Publish
    <2> QED
        BY <2>4, <2>5, NotRun
<1> QED
    BY <1>7, <1>8

\* Who copies has left the barrier at which the executor's data were published.
LEMMA Copies ==
    ASSUME TypeInv, PlaceInv, MetInv, SingleInv, CopyInv
    PROVE  CopiedFromSingle
<1> SUFFICES ASSUME NEW t \in Team, pc[t] = "copy"
             PROVE  cppriv \in ran /\ cppriv[1] = at[t] /\ at[cppriv[2]] = at[t]
    BY DEF CopiedFromSingle
<1>1. /\ t \in Thread /\ at[t] \in Construct /\ at[t] \in Nat /\ Stage(t) = 4
      /\ at[t] \in Singles /\ program[at[t]].copy /\ at \in [Thread -> Nat]
      /\ Team \subseteq Thread
    BY Inside, Basics, StageIs DEF PlaceInv, CopyLabels, Singles
<1> DEFINE k == at[t]
<1>2. PICK x \in RanAt(k) : TRUE
    BY <1>1 DEF SingleInv, Begun, Chosen
<1>3. x \in Team
    BY <1>1, <1>2 DEF SingleInv
<1>4. <<k, 3>> \in Barriers /\ <<k, 5>> \in Barriers
    <2>1. IsSingle(program[k]) /\ k \in Construct /\ program[k].copy
        BY <1>1 DEF Singles
    <2>2. HasBarrier(k, 3) /\ HasBarrier(k, 5)
        BY <2>1, Kinds DEF HasBarrier
    <2> QED
        BY <2>1, <2>2 DEF Barriers
<1>5. <<k, 3>> \in Left(t) /\ <<k, 5>> \notin Met(t)
    BY <1>1, <1>4 DEF Left, Met
<1>6. <<k, 3>> \in Met(x) /\ <<k, 5>> \notin Left(x)
    BY <1>3, <1>5 DEF MetInv
<1>7. at[x] = k /\ Stage(x) \in {3, 4, 5}
    <2>1. at[x] >= k /\ ~(at[x] > k)
        BY <1>1, <1>3, <1>4, <1>6 DEF Left, Met
    <2>2. at[x] = k
        BY <1>1, <1>3, <2>1
    <2>3. Stage(x) >= 3 /\ Stage(x) \in 0..5
        BY <1>1, <1>6, <2>2, StageIs DEF Met
    <2> QED
        BY <2>2, <2>3
<1>8. cppriv = <<k, x>>
    BY <1>1, <1>2, <1>5, <1>7 DEF CopyInv
<1>9. <<k, x>> \in ran
    BY <1>2, RanAtIs
<1> QED
    BY <1>7, <1>8, <1>9

-----------------------------------------------------------------------------
(* The chunks that threads are given *)

\* a chunk of loop k that has these iterations
Has(k, d, S) ==
    /\ d \in Records /\ d.incr = program[k].incr
    /\ ~Past(d.upper, program[k].upper, d.incr)
    /\ ~Past(d.lower, d.upper, d.incr) => \E i \in Iteration(k) : d.lower = Value(k, i)
    /\ Within(k, d) = S

\* the iterations from a up to b, and the chunk that ends there
Between(k, a, b) == {i \in Iteration(k) : a <= i /\ i < b}
ChunkOf(k, q) == {i \in Iteration(k) : InChunk(k, q, i)}
EndsBefore(k, c, b) == \A i \in Iteration(k) : ~Past(Value(k, i), c.upper, c.incr) <=> i < b

LEMMA CollapsedValue ==
    ASSUME NEW k, IsLoop(program[k]), program[k].collapsed
    PROVE  /\ program[k].lower = 0 /\ program[k].incr = 1 /\ program[k].upper \in Int
           /\ Trip(k) = program[k].upper + 1
           /\ \A i \in Int : Value(k, i) = i
<1>0. /\ program[k].lower = 0 /\ program[k].upper \in Int /\ program[k].upper >= -1
      /\ program[k].incr = 1
    BY LoopFields
<1>1. \A i \in Int : Value(k, i) = i
    BY <1>0 DEF Value
<1>2. Trip(k) \in Nat /\ \A i \in Nat : Past(Value(k, i), program[k].upper, 1) <=> i >= Trip(k)
    BY <1>0, ValueLimit
<1>3. \A i \in Nat : i > program[k].upper <=> i >= Trip(k)
    BY <1>0, <1>1, <1>2 DEF Past
<1>4. PICK n \in Nat : n = program[k].upper + 1
    BY <1>0
<1>5. n >= Trip(k)
    BY <1>0, <1>2, <1>3, <1>4
<1>6. Trip(k) > program[k].upper
    BY <1>0, <1>2, <1>3
<1> QED
    BY <1>0, <1>1, <1>2, <1>4, <1>5, <1>6

LEMMA CutHas ==
    ASSUME NEW t, NEW k, k = at[t], IsLoop(program[k]), NEW c \in Records, c.incr = program[k].incr,
           NEW a \in Nat, NEW b \in Int, c.lower = Value(k, a),
           EndsBefore(k, c, b),
           program[k].collapsed => ~Past(c.upper, program[k].upper, c.incr)
    PROVE  /\ Has(k, Bounded(t, c), Between(k, a, b))
           /\ Bounded(t, c).from = c.from /\ Bounded(t, c).stride = c.stride
<1>1. Here(t) = program[k]
    BY DEF Here
<1>2. /\ Bounded(t, c) \in Records
      /\ Bounded(t, c).lower = c.lower /\ Bounded(t, c).incr = c.incr
      /\ Bounded(t, c).from = c.from /\ Bounded(t, c).stride = c.stride
      /\ ~Past(Bounded(t, c).upper, Here(t).upper, c.incr)
      /\ Within(at[t], Bounded(t, c)) = {i \in Iteration(at[t]) : a <= i /\ i < b}
      /\ ~Past(Bounded(t, c).lower, Bounded(t, c).upper, c.incr) => a \in Iteration(at[t])
    BY <1>1, Cut DEF EndsBefore
<1> QED
    BY <1>1, <1>2 DEF Has, Between

\* the whole loop
LEMMA AllHas ==
    ASSUME NEW t, NEW k, k = at[t], IsLoop(program[k])
    PROVE  LET c == Chunk(program[k].lower, program[k].upper, program[k].incr)
           IN  Has(k, Bounded(t, c), Iteration(k)) /\ Bounded(t, c).stride = 0
<1> DEFINE c == Chunk(program[k].lower, program[k].upper, program[k].incr)
<1>1. /\ program[k].lower \in Int /\ program[k].upper \in Int /\ program[k].incr \in Int
      /\ Value(k, 0) = program[k].lower
    BY LoopFields, ValueOrder
<1>2. /\ c \in Records /\ c.incr = program[k].incr /\ c.lower = Value(k, 0)
      /\ c.upper = program[k].upper /\ c.stride = 0
    BY <1>1 DEF Chunk, Records
<1>3. Trip(k) \in Nat
      /\ \A i \in Nat : Past(Value(k, i), program[k].upper, program[k].incr) <=> i >= Trip(k)
    BY ValueLimit
<1>4. \A i \in Iteration(k) : i \in Nat /\ i < Trip(k)
    BY <1>3 DEF Iteration
<1>5. EndsBefore(k, c, Trip(k))
    BY <1>2, <1>3, <1>4 DEF EndsBefore
<1>6. ~Past(c.upper, program[k].upper, c.incr)
    BY <1>1, <1>2 DEF Past
<1> HIDE DEF c
<1>7. /\ Has(k, Bounded(t, c), Between(k, 0, Trip(k)))
      /\ Bounded(t, c).stride = c.stride
    BY <1>2, <1>3, <1>5, <1>6, CutHas
<1>8. Between(k, 0, Trip(k)) = Iteration(k)
    BY <1>4 DEF Between
<1> QED
    BY <1>2, <1>7, <1>8 DEF c

\* the iterations from a up to b
LEMMA SomeHas ==
    ASSUME NEW t, NEW k, k = at[t], IsLoop(program[k]), NEW a \in Nat, NEW b \in Int,
           NEW c \in Records, c.incr = program[k].incr, c.lower = Value(k, a),
           c.upper = Value(k, b - 1), program[k].collapsed => b <= Trip(k)
    PROVE  /\ Has(k, Bounded(t, c), Between(k, a, b))
           /\ Bounded(t, c).from = c.from /\ Bounded(t, c).stride = c.stride
<1>1. EndsBefore(k, c, b)
    BY Ends DEF EndsBefore
<1>2. ASSUME program[k].collapsed PROVE ~Past(c.upper, program[k].upper, c.incr)
    <2>1. c.upper = b - 1 /\ c.incr = 1 /\ Trip(k) = program[k].upper + 1 /\ program[k].upper \in Int
        <3>1. b - 1 \in Int
            OBVIOUS
        <3> QED
            BY <1>2, <3>1, CollapsedValue
    <2>2. b <= Trip(k)
        BY <1>2
    <2> QED
        BY <2>1, <2>2 DEF Past
<1> QED
    BY <1>1, <1>2, CutHas

\* how the runtime counts up to there
LEMMA UpperIs ==
    ASSUME NEW k, IsLoop(program[k]), NEW a \in Int, NEW n \in Int
    PROVE  Value(k, a) + (n - 1) * program[k].incr = Value(k, (a + n) - 1)
<1>1. PICK m \in Int : m = n - 1
    OBVIOUS
<1>2. a + m = (a + n) - 1
    BY <1>1
<1>3. Value(k, a) + m * program[k].incr = Value(k, a + m)
    <2> HIDE <1>1, <1>2
    <2> QED
        BY ValueMoves
<1> QED
    BY <1>1, <1>2, <1>3

\* one of an even schedule
LEMMA EvenHas ==
    ASSUME NEW k, IsLoop(program[k]), teamSize \in Nat \ {0}, NEW t \in Team, k = at[t],
           ~InTurn(k), ~program[k].collapsed
    PROVE  LET l == program[k]
               c == EvenChunk(t, l.lower, l.upper, l.incr)
           IN  /\ Has(k, Bounded(t, c), ChunkOf(k, t))
               /\ Bounded(t, c).stride = 0
<1> DEFINE l == program[k]
           c == EvenChunk(t, l.lower, l.upper, l.incr)
<1>1. /\ c \in Records /\ c.incr = l.incr /\ c.from = c.lower /\ c.stride = 0
      /\ Trip(k) > 0 => c.lower = Value(k, Start(k, t)) /\ c.upper = Value(k, Start(k, t + 1) - 1)
      /\ \E a, b \in Int : c.lower = Value(k, a) /\ c.upper = Value(k, b) /\ (a >= 0 \/ b < a)
    BY EvenIs
<1>2. t \in Nat /\ Start(k, t) \in Nat /\ Start(k, t + 1) \in Nat
    BY StartFacts DEF Team
<1>3. Trip(k) \in Nat
    BY ValueLimit
<1> HIDE DEF c
<1>4. CASE Trip(k) > 0
    <2>1. \A i \in Iteration(k) : ~Past(Value(k, i), c.upper, c.incr) <=> i < Start(k, t + 1)
        BY <1>1, <1>2, <1>4, Ends
    <2>2. /\ Has(k, Bounded(t, c), Between(k, Start(k, t), Start(k, t + 1)))
          /\ Bounded(t, c).stride = c.stride
        <3>1. PICK a \in Nat, b \in Int : a = Start(k, t) /\ b = Start(k, t + 1)
            BY <1>2
        <3>2. c.lower = Value(k, a) /\ c.incr = program[k].incr /\ ~program[k].collapsed
            BY <1>1, <1>4, <3>1
        <3>3. EndsBefore(k, c, b)
            BY <2>1, <3>1 DEF EndsBefore
        <3>4. /\ Has(k, Bounded(t, c), Between(k, a, b))
              /\ Bounded(t, c).stride = c.stride
            BY <1>1, <3>1, <3>2, <3>3, CutHas
        <3> QED
            BY <3>1, <3>4
    <2> QED
        BY <1>1, <2>2 DEF c, InChunk, Between, ChunkOf
<1>5. CASE Trip(k) = 0
    <2>1. PICK a, b \in Int : c.lower = Value(k, a) /\ c.upper = Value(k, b) /\ (a >= 0 \/ b < a)
        BY <1>1
    <2>2. Here(t) = program[k] /\ IsLoop(Here(t))
        BY DEF Here
    <2>3. /\ Bounded(t, c) \in Records
          /\ Bounded(t, c).lower = c.lower /\ Bounded(t, c).incr = c.incr
          /\ Bounded(t, c).stride = c.stride
          /\ ~Past(Bounded(t, c).upper, Here(t).upper, c.incr)
          /\ Past(Bounded(t, c).lower, Bounded(t, c).upper, c.incr)
        BY <1>1, <1>5, <2>1, <2>2, CutEmpty
    <2>4. Iteration(k) = {}
        BY <1>5 DEF Iteration
    <2> QED
        BY <1>1, <2>2, <2>3, <2>4 DEF c, Has, Within, ChunkOf
<1> QED
    BY <1>3, <1>4, <1>5

LEMMA CollapsedHas ==
    ASSUME NEW k, IsLoop(program[k]), teamSize \in Nat \ {0}, NEW t \in Team, k = at[t],
           ~InTurn(k), program[k].collapsed
    PROVE  LET c == CollapsedEven(t, program[k].upper + 1)
           IN  /\ Has(k, Bounded(t, c), ChunkOf(k, t))
               /\ Bounded(t, c).stride = 0
<1>0. t \in Nat
    BY DEF Team
<1>1. /\ Trip(k) = program[k].upper + 1
      /\ CollapsedEven(t, program[k].upper + 1) = Chunk(Start(k, t), Start(k, t + 1) - 1, 1)
      /\ Start(k, t) \in Nat /\ Start(k, t + 1) \in Nat
      /\ Start(k, t + 1) <= Trip(k) /\ Start(k, t) <= Start(k, t + 1)
    BY CollapsedIs
<1>2. /\ program[k].incr = 1 /\ \A i \in Int : Value(k, i) = i
    BY CollapsedValue
<1> DEFINE a == Start(k, t)
           b == Start(k, t + 1)
           c == Chunk(Start(k, t), Start(k, t + 1) - 1, 1)
<1>3. a \in Nat /\ b \in Int /\ c \in Records /\ c.incr = 1 /\ c.lower = a
      /\ c.upper = b - 1 /\ c.stride = 0 /\ b = Start(k, t + 1)
    BY <1>1 DEF Chunk, Records
<1> HIDE DEF a, b, c
<1>4. c.lower = Value(k, a) /\ c.upper = Value(k, b - 1) /\ c.incr = program[k].incr
    BY <1>2, <1>3
<1>5. b <= Trip(k)
    BY <1>1, <1>3
<1>6. /\ Has(k, Bounded(t, c), Between(k, a, b))
      /\ Bounded(t, c).stride = c.stride
    BY <1>3, <1>4, <1>5, SomeHas
<1> QED
    BY <1>1, <1>3, <1>6 DEF a, b, c, InChunk, Between, ChunkOf

\* one of the chunks in turn, which ends early where a collapsed loop does
LEMMA TurnHas ==
    ASSUME NEW k, IsLoop(program[k]), teamSize \in Nat \ {0}, InTurn(k), NEW t \in Team,
           k = at[t], NEW s \in Nat, NEW b \in Int, NEW c \in Records,
           c.incr = program[k].incr, c.lower = Value(k, Start(k, Number(t, s))),
           c.upper = Value(k, b - 1),
           b = IF program[k].collapsed THEN Lesser(Start(k, Number(t, s) + 1), Trip(k))
               ELSE Start(k, Number(t, s) + 1)
    PROVE  /\ Has(k, Bounded(t, c), ChunkOf(k, Number(t, s)))
           /\ Bounded(t, c).from = c.from /\ Bounded(t, c).stride = c.stride
<1>1. PICK a \in Nat : a = Start(k, Number(t, s))
    BY TurnIs
<1>2. Start(k, Number(t, s) + 1) = a + program[k].chunk /\ program[k].chunk \in Nat \ {0}
    BY <1>1, TurnIs
<1>3. Trip(k) \in Nat /\ \A i \in Iteration(k) : i \in Nat /\ i < Trip(k)
    BY ValueLimit DEF Iteration
<1>4. program[k].collapsed => b <= Trip(k)
    BY <1>1, <1>2, <1>3 DEF Lesser
<1>5. c.lower = Value(k, a)
    BY <1>1
<1>6. /\ Has(k, Bounded(t, c), Between(k, a, b))
      /\ Bounded(t, c).from = c.from /\ Bounded(t, c).stride = c.stride
    BY <1>4, <1>5, SomeHas
<1>7. Between(k, a, b) = ChunkOf(k, Number(t, s))
    <2>1. \A i \in Iteration(k) : i < b <=> i < a + program[k].chunk
        BY <1>1, <1>2, <1>3 DEF Lesser
    <2> QED
        BY <1>1, <1>2, <2>1 DEF Between, ChunkOf, InChunk
<1> QED
    BY <1>6, <1>7

-----------------------------------------------------------------------------
(* The chunks that a thread is still to be given *)

\* those from its s-th on
FromOn(t, k, s) == {i \in Iteration(k) : \E x \in 0..Trip(k) :
                                            InChunk(k, Number(t, x), i) /\ x >= s}

\* one more is dealt
LEMMA DealOne ==
    ASSUME NEW k, IsLoop(program[k]), teamSize \in Nat \ {0}, NEW t \in Team, NEW s \in Nat
    PROVE  FromOn(t, k, s) = ChunkOf(k, Number(t, s)) \cup FromOn(t, k, s + 1)
<1>1. ASSUME NEW i \in Iteration(k), InChunk(k, Number(t, s), i)
      PROVE  s \in 0..Trip(k)
    <2>1. PICK u \in Team, x \in 0..Trip(k) : InChunk(k, Number(u, x), i)
        BY Covered
    <2>2. x \in Nat /\ i \in Int
        BY <2>1, ValueLimit DEF Iteration
    <2>3. s = x
        BY <1>1, <2>1, <2>2, InOneChunk
    <2> QED
        BY <2>1, <2>3
<1>2. \A x \in 0..Trip(k) : x >= s <=> x = s \/ x >= s + 1
    BY ValueLimit
<1>3. ASSUME NEW i \in Iteration(k)
      PROVE  (\E x \in 0..Trip(k) : InChunk(k, Number(t, x), i) /\ x >= s)
               <=> \/ InChunk(k, Number(t, s), i)
                   \/ \E x \in 0..Trip(k) : InChunk(k, Number(t, x), i) /\ x >= s + 1
    <2>1. InChunk(k, Number(t, s), i) => s \in 0..Trip(k) /\ s >= s
        BY <1>1
    <2> QED
        BY <1>2, <2>1
<1> QED
    BY <1>3 DEF FromOn, ChunkOf

\* none is left behind the end of the loop
LEMMA DealNone ==
    ASSUME NEW k, IsLoop(program[k]), teamSize \in Nat \ {0}, NEW t \in Team, NEW s \in Nat,
           Start(k, Number(t, s)) >= Trip(k)
    PROVE  FromOn(t, k, s) = {}
<1> SUFFICES ASSUME NEW i \in Iteration(k), NEW x \in 0..Trip(k), x >= s,
                    InChunk(k, Number(t, x), i)
             PROVE  FALSE
    BY DEF FromOn
<1>1. Trip(k) \in Nat /\ i \in Nat /\ i < Trip(k) /\ x \in Nat
    BY ValueLimit DEF Iteration
<1>2. Number(t, s) \in Nat /\ Number(t, x) \in Nat /\ Number(t, s) <= Number(t, x)
    <2>1. Number(t, s) \in Nat /\ Number(t, x) \in Nat
        BY <1>1, Numbers
    <2>2. s * teamSize <= x * teamSize /\ s * teamSize \in Int /\ x * teamSize \in Int
        <3>1. PICK n \in Nat \ {0} : n = teamSize
            OBVIOUS
        <3>2. s < x \/ s = x
            BY <1>1
        <3>3. s < x => s * n < x * n
            BY <1>1, <3>1, Scale
        <3>4. s * n \in Int /\ x * n \in Int
            BY <1>1, <3>1, Scale
        <3> QED
            BY <3>1, <3>2, <3>3, <3>4
    <2>3. t \in Nat
        BY DEF Team
    <2> QED
        BY <2>1, <2>2, <2>3 DEF Number
<1>3. Start(k, Number(t, s)) <= Start(k, Number(t, x)) /\ Start(k, Number(t, x)) \in Nat
      /\ Start(k, Number(t, s)) \in Nat
    BY <1>2, StartFacts
<1>4. Start(k, Number(t, x)) <= i
    BY DEF InChunk
<1> QED
    BY <1>1, <1>3, <1>4

\* an even schedule deals once
LEMMA DealEven ==
    ASSUME NEW k, IsLoop(program[k]), teamSize \in Nat \ {0}, NEW t \in Team, NEW s \in Nat,
           ~InTurn(k), s >= 1
    PROVE  FromOn(t, k, s) = {}
BY OneEach, DealNone

\* The stride of the compiled code is that of the chunks in turn.
LEMMA Strides ==
    ASSUME NEW k, IsLoop(program[k]), teamSize \in Nat \ {0}, InTurn(k), NEW t \in Team,
           NEW s \in Nat, NEW x \in Nat
    PROVE  LET next == Value(k, Start(k, Number(t, s)))
                         + (program[k].chunk * program[k].incr) * teamSize
           IN  /\ next = Value(k, Start(k, Number(t, s + 1)))
               /\ ~Past(next, Value(k, Start(k, Number(t, x))), program[k].incr) <=> x >= s + 1
<1>1. /\ s + 1 \in Nat /\ Number(t, s + 1) \in Nat /\ Number(t, x) \in Nat
      /\ Start(k, Number(t, s + 1)) \in Nat /\ Start(k, Number(t, x)) \in Nat
    BY TurnIs
<1>2. Value(k, Start(k, Number(t, s))) + (program[k].chunk * program[k].incr) * teamSize
         = Value(k, Start(k, Number(t, s + 1)))
    BY TurnIs
<1>3. Past(Value(k, Start(k, Number(t, s + 1))), Value(k, Start(k, Number(t, x))), program[k].incr)
         <=> Start(k, Number(t, x)) < Start(k, Number(t, s + 1))
    BY <1>1, ValueOrder
<1>4. Start(k, Number(t, x)) < Start(k, Number(t, s + 1)) <=> x < s + 1
    <2>1. PICK c \in Nat \ {0}, n \in Nat \ {0} : c = program[k].chunk /\ n = teamSize
        BY TurnIs
    <2>2. PICK p \in Nat, q \in Nat : p = Number(t, s + 1) /\ q = Number(t, x)
        BY <1>1
    <2>3. Start(k, p) = p * c /\ Start(k, q) = q * c
        BY <1>1, <2>1, <2>2, TurnIs
    <2>4. q < p <=> q * c < p * c
        <3>1. q \in Int /\ p \in Int /\ c \in Int /\ c > 0
            BY <2>1, <2>2
        <3> HIDE <2>1, <2>2
        <3> QED
            BY <3>1, Scale
    <2>5. q < p <=> x < s + 1
        <3>1. x < s + 1 <=> x * n < (s + 1) * n
            BY <1>1, <2>1, Scale
        <3>2. x * n \in Int /\ (s + 1) * n \in Int
            BY <1>1, <2>1, Scale
        <3>3. t \in Nat /\ p = (s + 1) * n + t /\ q = x * n + t
            BY <2>1, <2>2 DEF Team, Number
        <3> QED
            BY <3>1, <3>2, <3>3
    <2> QED
        BY <2>2, <2>3, <2>4, <2>5
<1> QED
    BY <1>1, <1>2, <1>3, <1>4

LEMMA FutureNow ==
    ASSUME teamSize \in Nat \ {0}, NEW t \in Team, NEW k, k \in Nat,
           IsLoop(program[k]), at[t] \in Nat, tSchedule[t] \in Nat
    PROVE  /\ ~Static(k) => Future(t, k) = {}
           /\ Started(t, k) /\ ~(at[t] = k /\ pc[t] \in LoopLabels) => Future(t, k) = {}
           /\ Static(k) /\ ~Started(t, k) => Future(t, k) = FromOn(t, k, 0)
           /\ Static(k) /\ AtScheduler(k) /\ at[t] = k /\ pc[t] \in LoopLabels
                 => Future(t, k) = FromOn(t, k, tSchedule[t])
           /\ ~AtScheduler(k) /\ at[t] = k /\ pc[t] \in LoopLabels /\ cur[t].stride = 0
                 => Future(t, k) = {}
           /\ \A s \in Nat :
                 /\ ~AtScheduler(k) /\ at[t] = k /\ pc[t] \in LoopLabels /\ InTurn(k)
                 /\ cur[t].stride # 0
                 /\ cur[t].stride = (program[k].chunk * program[k].incr) * teamSize
                 /\ cur[t].from = Value(k, Start(k, Number(t, s)))
                 => Future(t, k) = FromOn(t, k, s + 1)
<1>1. Future(t, k) = {i \in Iteration(k) : Static(k) /\ \E s \in 0..Trip(k) :
                                  InChunk(k, Number(t, s), i) /\ Later(t, k, s)}
    BY DEF Future
<1>2. \A s : Later(t, k, s) <=>
         \/ ~(Started(t, k))
         \/ /\ at[t] = k /\ pc[t] \in LoopLabels
            /\ IF AtScheduler(k) THEN s >= tSchedule[t]
               ELSE /\ cur[t].stride # 0
                    /\ ~Past(cur[t].from + cur[t].stride,
                             Value(k, Start(k, Number(t, s))), program[k].incr)
    BY DEF Later
<1>3. /\ pc[t] \in LoopLabels /\ at[t] = k => Started(t, k)
      /\ \A s \in 0..Trip(k) : s \in Nat /\ s >= 0
    BY ValueLimit DEF Started, LoopLabels
<1>4. ~Static(k) => Future(t, k) = {}
    BY <1>1
<1>5. Started(t, k) /\ ~(at[t] = k /\ pc[t] \in LoopLabels) => Future(t, k) = {}
    BY <1>1, <1>2
<1>6. Static(k) /\ ~Started(t, k) => Future(t, k) = FromOn(t, k, 0)
    BY <1>1, <1>2, <1>3 DEF FromOn
<1>7. ASSUME Static(k), AtScheduler(k), at[t] = k, pc[t] \in LoopLabels
      PROVE  Future(t, k) = FromOn(t, k, tSchedule[t])
    <2>1. \A s : Later(t, k, s) <=> s >= tSchedule[t]
        BY <1>2, <1>3, <1>7
    <2> QED
        BY <1>1, <1>7, <2>1 DEF FromOn
<1>8. ~AtScheduler(k) /\ at[t] = k /\ pc[t] \in LoopLabels /\ cur[t].stride = 0
         => Future(t, k) = {}
    BY <1>1, <1>2, <1>3
<1>9. ASSUME NEW s \in Nat, ~AtScheduler(k), at[t] = k, pc[t] \in LoopLabels, InTurn(k),
             cur[t].stride # 0,
             cur[t].stride = (program[k].chunk * program[k].incr) * teamSize,
             cur[t].from = Value(k, Start(k, Number(t, s)))
      PROVE  Future(t, k) = FromOn(t, k, s + 1)
    <2>1. \A x \in Nat : Later(t, k, x) <=> x >= s + 1
        BY <1>2, <1>3, <1>9, Strides
    <2>2. Static(k)
        BY <1>9, LoopFields DEF InTurn, Static, Shared, AtScheduler, AtRuntime
    <2> QED
        BY <1>1, <1>3, <2>1, <2>2 DEF FromOn
<1> QED
    BY <1>4, <1>5, <1>6, <1>7, <1>8, <1>9

LEMMA FutureThen ==
    ASSUME teamSize \in Nat \ {0}, UNCHANGED regionVars, NEW t \in Team, NEW k, k \in Nat,
           IsLoop(program[k]), at'[t] \in Nat, tSchedule'[t] \in Nat
    PROVE  /\ ~Static(k) => Future(t, k)' = {}
           /\ Started(t, k)' /\ ~(at'[t] = k /\ pc'[t] \in LoopLabels) => Future(t, k)' = {}
           /\ Static(k) /\ ~Started(t, k)' => Future(t, k)' = FromOn(t, k, 0)
           /\ Static(k) /\ AtScheduler(k) /\ at'[t] = k /\ pc'[t] \in LoopLabels
                 => Future(t, k)' = FromOn(t, k, tSchedule'[t])
           /\ ~AtScheduler(k) /\ at'[t] = k /\ pc'[t] \in LoopLabels /\ cur'[t].stride = 0
                 => Future(t, k)' = {}
           /\ \A s \in Nat :
                 /\ ~AtScheduler(k) /\ at'[t] = k /\ pc'[t] \in LoopLabels /\ InTurn(k)
                 /\ cur'[t].stride # 0
                 /\ cur'[t].stride = (program[k].chunk * program[k].incr) * teamSize
                 /\ cur'[t].from = Value(k, Start(k, Number(t, s)))
                 => Future(t, k)' = FromOn(t, k, s + 1)
<1>0. /\ program' = program /\ teamSize' = teamSize
      /\ Iteration(k)' = Iteration(k) /\ Trip(k)' = Trip(k) /\ Static(k)' = Static(k)
      /\ AtScheduler(k)' = AtScheduler(k)
      /\ \A s : Number(t, s)' = Number(t, s)
      /\ \A s : Value(k, Start(k, Number(t, s)))' = Value(k, Start(k, Number(t, s)))
      /\ \A s, i : InChunk(k, Number(t, s), i)' = InChunk(k, Number(t, s), i)
    BY DEF regionVars, Iteration, Trip, Static, Shared, AtScheduler, Number, Value, Start, InChunk
<1>1. Future(t, k)' = {i \in Iteration(k) : Static(k) /\ \E s \in 0..Trip(k) :
                                  InChunk(k, Number(t, s), i) /\ Later(t, k, s)'}
    BY <1>0 DEF Future
<1>2. \A s : Later(t, k, s)' <=>
         \/ ~(Started(t, k)')
         \/ /\ at'[t] = k /\ pc'[t] \in LoopLabels
            /\ IF AtScheduler(k) THEN s >= tSchedule'[t]
               ELSE /\ cur'[t].stride # 0
                    /\ ~Past(cur'[t].from + cur'[t].stride,
                             Value(k, Start(k, Number(t, s))), program[k].incr)
    BY <1>0 DEF Later
<1>3. /\ pc'[t] \in LoopLabels /\ at'[t] = k => Started(t, k)'
      /\ \A s \in 0..Trip(k) : s \in Nat /\ s >= 0
    BY ValueLimit DEF Started, LoopLabels
<1>4. ~Static(k) => Future(t, k)' = {}
    BY <1>1
<1>5. Started(t, k)' /\ ~(at'[t] = k /\ pc'[t] \in LoopLabels) => Future(t, k)' = {}
    BY <1>1, <1>2
<1>6. Static(k) /\ ~Started(t, k)' => Future(t, k)' = FromOn(t, k, 0)
    BY <1>1, <1>2, <1>3 DEF FromOn
<1>7. ASSUME Static(k), AtScheduler(k), at'[t] = k, pc'[t] \in LoopLabels
      PROVE  Future(t, k)' = FromOn(t, k, tSchedule'[t])
    <2>1. \A s : Later(t, k, s)' <=> s >= tSchedule'[t]
        BY <1>2, <1>3, <1>7
    <2> QED
        BY <1>1, <1>7, <2>1 DEF FromOn
<1>8. ~AtScheduler(k) /\ at'[t] = k /\ pc'[t] \in LoopLabels /\ cur'[t].stride = 0
         => Future(t, k)' = {}
    BY <1>1, <1>2, <1>3
<1>9. ASSUME NEW s \in Nat, ~AtScheduler(k), at'[t] = k, pc'[t] \in LoopLabels, InTurn(k),
             cur'[t].stride # 0,
             cur'[t].stride = (program[k].chunk * program[k].incr) * teamSize,
             cur'[t].from = Value(k, Start(k, Number(t, s)))
      PROVE  Future(t, k)' = FromOn(t, k, s + 1)
    <2>1. \A x \in Nat : Later(t, k, x)' <=> x >= s + 1
        BY <1>2, <1>3, <1>9, Strides
    <2>2. Static(k)
        BY <1>9, LoopFields DEF InTurn, Static, Shared, AtScheduler, AtRuntime
    <2> QED
        BY <1>1, <1>3, <2>1, <2>2 DEF FromOn
<1> QED
    BY <1>4, <1>5, <1>6, <1>7, <1>8, <1>9

-----------------------------------------------------------------------------
(* The loop whose bounds are in the team *)

\* Nobody has begun a loop beyond the one that somebody is in.
LEMMA BegunBehind ==
    ASSUME PlaceInv, MetInv, OneLoopAtATime, NEW t \in Team, NEW k \in Loops, at[t] = k,
           pc[t] \in LoopLabels \cup {"work"}
    PROVE  \A j \in Begun(Loops) : j \in Construct /\ j \in Nat /\ j <= k
<1> SUFFICES ASSUME NEW j \in Begun(Loops) PROVE j \in Construct /\ j \in Nat /\ j <= k
    OBVIOUS
<1>1. j \in Construct /\ j \in Nat /\ k \in Nat /\ k \in Construct /\ AtScheduler(j) /\ AtScheduler(k)
    BY BegunFacts, Basics DEF Begun, Loops
<1>2. PICK u \in Team : Chosen(u, j)
    BY DEF Begun
<1>3. at[u] \in Nat /\ at[u] >= j
    BY <1>1, <1>2, Basics DEF Chosen, PlaceInv
<1>4. Stage(t) = 0
    BY StageIs DEF LoopLabels
<1>5. k < j => at[u] < j
    BY <1>1, <1>4, NoneBeyond
<1> QED
    BY <1>1, <1>3, <1>5

LEMMA IsCurrent ==
    ASSUME PlaceInv, MetInv, OneLoopAtATime, NEW t \in Team, NEW k, at[t] = k,
           pc[t] \in {"next", "body", "endOrdered"}, AtScheduler(k)
    PROVE  Current(k) /\ k \in Loops /\ k \in Begun(Loops)
<1>1. k \in Loops
    BY Inside DEF Loops
<1>2. k \in Begun(Loops)
    BY <1>1 DEF Begun, Chosen
<1>3. \A j \in Begun(Loops) : j <= k
    BY <1>1, BegunBehind DEF LoopLabels
<1> QED
    BY <1>1, <1>2, <1>3 DEF Current

\* What a thread reads in the team that asks for iterations.
LEMMA AtNext ==
    ASSUME PlaceInv, MetInv, BoundsInv, OneLoopAtATime, NEW t \in Team, NEW k, at[t] = k,
           pc[t] = "next"
    PROVE  /\ Current(k) /\ k \in Loops /\ k \in Construct /\ AtScheduler(k) /\ IsLoop(program[k])
           /\ Here(t) = program[k] /\ loopUpper = program[k].upper
           /\ (IF Collapsed(t) THEN 1 ELSE loopIncr) = program[k].incr
           /\ Collapsed(t) <=> program[k].collapsed
           /\ ~program[k].collapsed => loopIncr = program[k].incr
           /\ teamSize > 1 => /\ schedType[1] = program[k].sched /\ chunkSize = program[k].chunk
                              /\ IsOrdered <=> program[k].ordered
           /\ teamSize = 1 \/ ~Shared(k) => loopLower = program[k].lower
           /\ teamSize > 1 /\ Shared(k) =>
                 \/ Past(loopLower, program[k].upper, program[k].incr)
                 \/ \E i \in Iteration(k) : loopLower = Value(k, i)
<1>1. k \in Construct /\ AtScheduler(k) /\ IsLoop(program[k]) /\ Here(t) = program[k]
    BY Inside DEF PlaceInv, LoopLabels, AtScheduler
<1>2. Current(k) /\ k \in Loops
    BY <1>1, IsCurrent
<1>3. /\ loopUpper = program[k].upper
      /\ ~program[k].collapsed => loopIncr = program[k].incr
      /\ teamSize > 1 => /\ schedType = <<program[k].sched, program[k].ordered>>
                         /\ chunkSize = program[k].chunk
      /\ teamSize = 1 \/ ~Shared(k) => loopLower = program[k].lower
      /\ teamSize > 1 /\ Shared(k) =>
            \/ Past(loopLower, program[k].upper, program[k].incr)
            \/ \E i \in Iteration(k) : loopLower = Value(k, i)
    BY <1>1, <1>2 DEF BoundsInv
<1>4. program[k].collapsed => program[k].incr = 1
    BY <1>1, LoopFields
<1>5. teamSize > 1 => /\ schedType[1] = program[k].sched
                      /\ IsOrdered <=> program[k].ordered
    BY <1>3 DEF IsOrdered
<1> QED
    BY <1>1, <1>2, <1>3, <1>4, <1>5 DEF Collapsed

\* A chunk that is given out of the pool has an iteration at least.
LEMMA QuotInt ==
    ASSUME NEW a \in Int, NEW b \in Int, b # 0
    PROVE  Quot(a, b) \in Int
<1>1. PICK m \in Int, n \in Nat \ {0} : m = Abs(a) /\ n = Abs(b)
    BY DEF Abs
<1>2. PICK q \in Int : q = m \div n
    BY Divide
<1>3. Quot(a, b) = IF (a < 0) = (b < 0) THEN q ELSE -q
    BY <1>1, <1>2 DEF Quot
<1>4. q \in Int /\ -q \in Int
    BY <1>2
<1> QED
    BY <1>3, <1>4

-----------------------------------------------------------------------------
(* What the steps of a loop do *)

Known == /\ TypeInv /\ PlaceInv /\ MetInv /\ CountInv /\ BoundsInv /\ ChunkInv
         /\ OneTeam /\ OneLoopAtATime

\* thread t gets chunk d
Gets(t, d) == cur' = [cur EXCEPT ![t] = d] /\ cur'[t] = d /\ \A u \in Thread \ {t} : cur'[u] = cur[u]

LEMMA TakeGets ==
    ASSUME Known, NEW t \in Thread, NEW c, Take(t, c)
    PROVE  Gets(t, Bounded(t, c)) /\ pc' = [pc EXCEPT ![t] = "body"] /\ pc'[t] = "body"
<1>1. cur \in [Thread -> Records] /\ DOMAIN pc = Thread
    BY DEF Known, TypeInv, Records, PlaceInv
<1> QED
    BY <1>1 DEF Take, Gets, Goto

\* the stride of a chunk in turn of the compiled code
Strided(t, k, s) ==
    /\ InTurn(k) /\ cur[t].stride # 0
    /\ cur[t].stride = (program[k].chunk * program[k].incr) * teamSize
    /\ cur[t].from = Value(k, Start(k, Number(t, s)))

LEMMA StaticInitIs ==
    ASSUME Known, NEW t \in Team, NEW k, k = at[t], StaticInit(t)
    PROVE  /\ k \in Construct /\ IsLoop(program[k]) /\ ~AtScheduler(k) /\ Static(k)
           /\ pc[t] = "work" /\ pc'[t] = "body" /\ at' = at
           /\ \E d : Gets(t, d) /\ Has(k, d, ChunkOf(k, Number(t, 0)))
           /\ (~InTurn(k) /\ cur'[t].stride = 0) \/ Strided(t, k, 0)'
<1>0. /\ t \in Thread /\ k \in Construct /\ IsLoop(program[k]) /\ Here(t) = program[k]
      /\ teamSize \in Nat \ {0} /\ t \in Nat /\ pc[t] = "work"
    <2>1. pc[t] = "work" /\ Here(t).kind = "loop"
        BY DEF StaticInit, AtStatic, AtLoop
    <2> QED
        BY <2>1, Inside, Basics, Kinds DEF Known, Team
<1>1. program[k].sched \in {"init_even", "init_chunk"} /\ ~AtScheduler(k) /\ Static(k)
    BY <1>0 DEF StaticInit, AtStatic, AtScheduler, AtRuntime, Static, Shared
<1>2. /\ program[k].lower \in Int /\ program[k].upper \in Int /\ program[k].incr \in Int
      /\ program[k].incr # 0 /\ program[k].chunk \in Int /\ ~program[k].collapsed
    BY <1>0, <1>1, LoopFields DEF IsLoop, AtRuntime
<1>3. /\ Number(t, 0) = t /\ regionVars' = regionVars
    BY <1>0, Numbers DEF StaticInit
<1> DEFINE l == program[k]
           mine == l.lower + t * l.chunk * l.incr
           even == EvenChunk(t, l.lower, l.upper, l.incr)
           turn == [Chunk(mine, mine + (l.chunk - 1) * l.incr, l.incr)
                      EXCEPT !.stride = l.chunk * l.incr * teamSize]
           all == Chunk(l.lower, l.upper, l.incr)
           c == IF teamSize = 1 THEN all ELSE IF l.sched = "init_even" THEN even ELSE turn
<1>4. Take(t, c) /\ at' = at
    BY <1>0 DEF StaticInit
<1> HIDE DEF c
<1>5. Gets(t, Bounded(t, c)) /\ pc'[t] = "body"
    BY <1>0, <1>4, TakeGets
<1>6. CASE teamSize = 1
    <2>1. ~InTurn(k)
        BY <1>1, <1>6 DEF InTurn
    <2>2. Has(k, Bounded(t, c), Iteration(k)) /\ Bounded(t, c).stride = 0
        BY <1>0, <1>6, AllHas DEF c
    <2>3. ChunkOf(k, t) = Iteration(k)
        <3>1. t = 0
            BY <1>6 DEF Team
        <3>2. Start(k, 0) = 0 /\ Start(k, 1) >= Trip(k) /\ Start(k, 1) \in Nat /\ Trip(k) \in Nat
            BY <1>0, <1>6, <2>1, StartFacts, ValueLimit
        <3>3. \A i \in Iteration(k) : 0 <= i /\ i < Start(k, 1)
            BY <3>2 DEF Iteration
        <3>4. 0 + 1 = 1
            OBVIOUS
        <3> QED
            BY <3>1, <3>2, <3>3, <3>4 DEF ChunkOf, InChunk
    <2> QED
        BY <1>0, <1>1, <1>3, <1>4, <1>5, <2>1, <2>2, <2>3 DEF Gets
<1>7. CASE teamSize # 1 /\ l.sched = "init_even"
    <2>1. ~InTurn(k)
        BY <1>7 DEF InTurn
    <2>2. Has(k, Bounded(t, c), ChunkOf(k, t)) /\ Bounded(t, c).stride = 0
        BY <1>0, <1>2, <1>7, <2>1, EvenHas DEF c
    <2> QED
        BY <1>0, <1>1, <1>3, <1>4, <1>5, <2>1, <2>2 DEF Gets
<1>8. CASE teamSize # 1 /\ l.sched # "init_even"
    <2>1. InTurn(k) /\ c = turn
        BY <1>0, <1>1, <1>8 DEF InTurn, c
    <2>2. /\ l.chunk \in Nat \ {0} /\ Start(k, t) = t * l.chunk /\ Start(k, t) \in Nat
          /\ Value(k, Start(k, t)) = l.lower + (t * l.chunk) * l.incr
          /\ Value(k, Start(k, t)) \in Int
        BY <1>0, <1>3, <2>1, TurnIs
    <2>3. mine = Value(k, Start(k, t)) /\ l.chunk * l.incr * teamSize = (l.chunk * l.incr) * teamSize
        BY <2>2
    <2>4. PICK m \in Int, e \in Int, u \in Int : /\ m = mine /\ e = l.chunk * l.incr * teamSize
                                                /\ u = mine + (l.chunk - 1) * l.incr
        BY <1>0, <1>2, <2>2, <2>3
    <2>5. c = [lower |-> m, upper |-> u, incr |-> l.incr, from |-> m, stride |-> e]
        BY <2>1, <2>4 DEF Chunk
    <2>6. /\ c \in Records /\ c.incr = l.incr /\ c.lower = m /\ c.upper = u
          /\ c.from = m /\ c.stride = e
        BY <1>2, <2>4, <2>5 DEF Records
    <2>7. /\ c.lower = Value(k, Start(k, Number(t, 0)))
          /\ c.upper = Value(k, Start(k, Number(t, 0) + 1) - 1)
        <3>1. Value(k, Start(k, Number(t, 0))) + (l.chunk - 1) * l.incr
                 = Value(k, Start(k, Number(t, 0) + 1) - 1)
            BY <1>0, <2>1, TurnIs
        <3> QED
            BY <1>3, <2>3, <2>4, <2>6, <3>1
    <2>8. /\ Has(k, Bounded(t, c), ChunkOf(k, Number(t, 0)))
          /\ Bounded(t, c).from = c.from /\ Bounded(t, c).stride = c.stride
        <3>1. PICK b \in Int : b = Start(k, Number(t, 0) + 1)
            BY <1>0, <2>1, <2>2, TurnIs
        <3>2. 0 \in Nat /\ c.upper = Value(k, b - 1) /\ c \in Records /\ c.incr = program[k].incr
            BY <2>6, <2>7, <3>1
        <3>3. InTurn(k) /\ b = IF program[k].collapsed
                               THEN Lesser(Start(k, Number(t, 0) + 1), Trip(k))
                               ELSE Start(k, Number(t, 0) + 1)
            BY <1>2, <2>1, <3>1
        <3> QED
            BY <1>0, <2>7, <3>1, <3>2, <3>3, TurnHas
    <2>9. e # 0
        <3>1. PICK n \in Nat \ {0}, f \in Nat \ {0}, g \in Int \ {0} :
                 n = teamSize /\ f = l.chunk /\ g = l.incr
            BY <1>0, <1>2, <2>2
        <3>2. f * g # 0 /\ f * g \in Int
            BY <3>1
        <3>3. PICK h \in Int \ {0} : h = f * g
            BY <3>2
        <3>4. h * n # 0
            OBVIOUS
        <3> QED
            BY <2>3, <2>4, <3>1, <3>3, <3>4
    <2>10. Strided(t, k, 0)'
        <3>1. program' = program /\ teamSize' = teamSize
            BY <1>3 DEF regionVars
        <3>2. InTurn(k)' /\ Value(k, Start(k, Number(t, 0)))' = Value(k, Start(k, Number(t, 0)))
            BY <2>1, <3>1 DEF InTurn, Value, Start, Number, Trip
        <3>3. cur'[t].stride = e /\ cur'[t].from = m
            BY <1>5, <2>6, <2>8 DEF Gets
        <3> QED
            BY <1>3, <2>3, <2>4, <2>9, <3>1, <3>2, <3>3 DEF Strided
    <2> QED
        BY <1>0, <1>1, <1>4, <1>5, <2>8, <2>10
<1> QED
    BY <1>6, <1>7, <1>8

LEMMA BoundedKeeps ==
    ASSUME NEW t, NEW c \in Records
    PROVE  Bounded(t, c).lower = c.lower
BY DEF Bounded, Records

\* thread t has its turn with these iterations
Turned(t, k, turn, S) ==
    /\ ~program[k].ordered => UNCHANGED <<tOrdered, tRest>>
    /\ program[k].ordered =>
          /\ tOrdered' = [tOrdered EXCEPT ![t] = turn]
          /\ \E a, n \in Int : /\ cur'[t].lower = Value(k, a)
                               /\ tRest' = [tRest EXCEPT ![t] = n]
                               /\ \A i \in S : i < a + n

LEMMA NextEvenIs ==
    ASSUME Known, NEW t \in Team, NEW k, k = at[t], NextEven(t)
    PROVE  /\ Current(k) /\ k \in Construct /\ IsLoop(program[k]) /\ AtScheduler(k)
           /\ Static(k) /\ ~InTurn(k) /\ teamSize > 1 /\ pc[t] = "next"
           /\ UNCHANGED <<countVars, loopLower>>
           /\ \/ /\ tSchedule[t] = 0 /\ tSchedule' = [tSchedule EXCEPT ![t] = 1]
                 /\ \/ /\ pc'[t] = "body" /\ at' = at
                       /\ \E d : Gets(t, d) /\ Has(k, d, ChunkOf(k, Number(t, 0)))
                       /\ Turned(t, k, Number(t, 0), ChunkOf(k, Number(t, 0)))
                    \/ /\ ChunkOf(k, Number(t, 0)) = {} /\ EndConstruct(t) /\ UNCHANGED cur
                       /\ \A u \in Thread \ {t} : tOrdered'[u] = tOrdered[u] /\ tRest'[u] = tRest[u]
                       /\ tOrdered' \in [Thread -> Int] /\ tRest' \in [Thread -> Int]
              \/ /\ tSchedule[t] # 0 /\ EndConstruct(t)
                 /\ UNCHANGED <<cur, tSchedule, tOrdered, tRest>>
<1>0. /\ t \in Thread /\ teamSize \in Nat \ {0} /\ t \in Nat /\ pc[t] = "next" /\ teamSize > 1
      /\ schedType[1] = "static_even"
    BY Basics DEF Known, Team, NextEven, Scheduled
<1>1. /\ Current(k) /\ k \in Construct /\ AtScheduler(k) /\ IsLoop(program[k])
      /\ loopUpper = program[k].upper /\ Here(t) = program[k]
      /\ Collapsed(t) <=> program[k].collapsed
      /\ ~program[k].collapsed => loopIncr = program[k].incr
      /\ program[k].sched = "static_even" /\ (IsOrdered <=> program[k].ordered)
      /\ ~Shared(k) => loopLower = program[k].lower
    BY <1>0, AtNext DEF Known
<1>2. /\ Static(k) /\ ~InTurn(k) /\ loopLower = program[k].lower
    BY <1>0, <1>1 DEF Static, Shared, InTurn
<1>3. /\ program[k].lower \in Int /\ program[k].upper \in Int /\ program[k].incr \in Int
      /\ program[k].incr # 0 /\ program[k].collapsed \in BOOLEAN /\ program[k].ordered \in BOOLEAN
    BY <1>1, LoopFields
<1>4. Number(t, 0) = t
    BY <1>0, Numbers
<1> DEFINE l == program[k]
           c == IF l.collapsed THEN CollapsedEven(t, l.upper + 1)
                ELSE EvenChunk(t, l.lower, l.upper, l.incr)
           len == Quot(c.upper - c.lower, c.incr) + 1
           trips == Trips(l.lower, l.upper, l.incr)
           some == IF l.collapsed THEN c.lower <= c.upper ELSE trips >= teamSize \/ t < trips
<1>5. /\ IF l.collapsed THEN Count = l.upper + 1 ELSE loopIncr = l.incr
      /\ (IF Collapsed(t) THEN CollapsedEven(t, Count)
          ELSE EvenChunk(t, loopLower, loopUpper, loopIncr)) = c
    BY <1>1, <1>2 DEF Count
<1>6. Trips(loopLower, loopUpper, loopIncr) = trips \/ l.collapsed
    BY <1>1, <1>2
<1>7. /\ \/ /\ tSchedule[t] = 0 /\ tSchedule' = [tSchedule EXCEPT ![t] = 1]
            /\ Turn(t, t, len)
            /\ IF some THEN Take(t, c) /\ UNCHANGED <<at, met>> ELSE EndConstruct(t) /\ UNCHANGED cur
         \/ tSchedule[t] # 0 /\ NoMore(t)
      /\ UNCHANGED <<countVars, loopLower>>
    BY <1>1, <1>5, <1>6 DEF NextEven, NoMore
<1>8. /\ c \in Records
      /\ Has(k, Bounded(t, c), ChunkOf(k, t)) /\ Bounded(t, c).lower = c.lower
      /\ \E a \in Int : c.lower = Value(k, a)
      /\ c.incr = l.incr
    <2>1. CASE l.collapsed
        <3>1. /\ c = Chunk(Start(k, t), Start(k, t + 1) - 1, 1)
              /\ Start(k, t) \in Nat /\ Start(k, t + 1) \in Nat
            BY <1>0, <1>1, <1>2, <2>1, CollapsedIs
        <3>2. c \in Records /\ c.lower = Start(k, t) /\ c.incr = 1
            BY <3>1 DEF Chunk, Records
        <3>3. Value(k, Start(k, t)) = Start(k, t) /\ l.incr = 1
            BY <1>1, <2>1, <3>1, CollapsedValue
        <3>4. Has(k, Bounded(t, c), ChunkOf(k, t))
            BY <1>0, <1>1, <1>2, <2>1, CollapsedHas
        <3> HIDE DEF c
        <3> QED
            BY <3>1, <3>2, <3>3, <3>4, BoundedKeeps
    <2>2. CASE ~l.collapsed
        <3>1. c \in Records /\ c.incr = l.incr /\ \E a \in Int : c.lower = Value(k, a)
            BY <1>0, <1>1, <1>2, <2>2, EvenIs
        <3>2. Has(k, Bounded(t, c), ChunkOf(k, t))
            BY <1>0, <1>1, <1>2, <2>2, EvenHas
        <3> HIDE DEF c
        <3> QED
            BY <3>1, <3>2, BoundedKeeps
    <2> QED
        BY <2>1, <2>2
<1>9. len \in Int
    <2> HIDE DEF c
    <2>1. PICK m \in Int : m = c.upper - c.lower
        BY <1>8 DEF Records
    <2>2. Quot(m, l.incr) \in Int
        BY <1>3, <2>1, QuotInt
    <2> QED
        BY <1>8, <2>1, <2>2
<1>10. Trip(k) > 0 => c.lower = Value(k, Start(k, t)) /\ len = Start(k, t + 1) - Start(k, t)
    <2>1. CASE l.collapsed
        <3>1. /\ c = Chunk(Start(k, t), Start(k, t + 1) - 1, 1)
              /\ Start(k, t) \in Nat /\ len = Start(k, t + 1) - Start(k, t)
            BY <1>0, <1>1, <1>2, <2>1, CollapsedIs
        <3>2. Value(k, Start(k, t)) = Start(k, t) /\ c.lower = Start(k, t)
            BY <1>1, <2>1, <3>1, CollapsedValue DEF Chunk
        <3> QED
            BY <3>1, <3>2
    <2>2. CASE ~l.collapsed
        BY <1>0, <1>1, <1>2, <2>2, EvenIs
    <2> QED
        BY <2>1, <2>2
<1>11. ~some => ChunkOf(k, t) = {}
    <2> SUFFICES ASSUME ~some, NEW i \in Iteration(k), InChunk(k, t, i) PROVE FALSE
        BY DEF ChunkOf
    <2>1. /\ Trip(k) \in Nat /\ i \in Nat /\ i < Trip(k)
          /\ ~Past(l.lower, l.upper, l.incr) => Trip(k) = trips
          /\ Past(l.lower, l.upper, l.incr) => Trip(k) = 0
        BY <1>1, ValueLimit DEF Iteration
    <2>2. CASE l.collapsed
        <3>1. /\ c = Chunk(Start(k, t), Start(k, t + 1) - 1, 1)
              /\ Start(k, t) \in Nat /\ Start(k, t + 1) \in Nat
            BY <1>0, <1>1, <1>2, <2>2, CollapsedIs
        <3>2. ~(Start(k, t) <= Start(k, t + 1) - 1)
            BY <2>2, <3>1 DEF Chunk
        <3> QED
            BY <2>1, <3>1, <3>2 DEF InChunk
    <2>3. CASE ~l.collapsed
        <3>1. Trip(k) = trips /\ trips \in Nat /\ trips < teamSize /\ t >= trips
            BY <1>0, <2>1, <2>3
        <3>2. Trip(k) \div teamSize = 0 /\ Trip(k) % teamSize # 0
            <4>1. Trip(k) \div teamSize = 0
                <5>1. teamSize * 0 <= Trip(k) /\ Trip(k) < teamSize * (0 + 1)
                    BY <1>0, <2>1, <3>1
                <5> QED
                    BY <1>0, <2>1, <5>1, DivideIs
            <4>2. /\ Trip(k) % teamSize \in 0..(teamSize - 1)
                  /\ Trip(k) = teamSize * (Trip(k) \div teamSize) + (Trip(k) % teamSize)
                <5>1. Trip(k) \in Int
                    BY <2>1
                <5> QED
                    BY <1>0, <5>1, Divide, Zenon
            <4>3. teamSize * 0 = 0
                BY <1>0
            <4> QED
                BY <2>1, <4>1, <4>2, <4>3
        <3>3. Start(k, t) = t * (0 + 1)
            BY <1>2, <2>3, <3>2 DEF Start, InTurn
        <3> QED
            BY <1>0, <2>1, <3>1, <3>3 DEF InChunk
    <2> QED
        BY <2>2, <2>3
<1> HIDE DEF c, len, some
<1>12. ASSUME tSchedule[t] = 0, some, Take(t, c), at' = at, Turn(t, t, len)
       PROVE  /\ pc'[t] = "body"
              /\ \E d : Gets(t, d) /\ Has(k, d, ChunkOf(k, t))
              /\ Turned(t, k, t, ChunkOf(k, t))
    <2>1. Gets(t, Bounded(t, c)) /\ pc'[t] = "body"
        BY <1>0, <1>12, TakeGets
    <2>2. PICK a \in Int : c.lower = Value(k, a) /\ (Trip(k) > 0 => a = Start(k, t))
        <3>1. Trip(k) > 0 => Start(k, t) \in Int
            BY <1>0, <1>1, StartFacts
        <3> QED
            BY <1>8, <1>10, <3>1
    <2>3. \A i \in ChunkOf(k, t) : i < a + len
        <3> SUFFICES ASSUME NEW i \in Iteration(k), InChunk(k, t, i) PROVE i < a + len
            BY DEF ChunkOf
        <3>1. Trip(k) > 0 /\ i \in Nat
            BY <1>1, ValueLimit DEF Iteration
        <3>2. Start(k, t) \in Nat /\ Start(k, t + 1) \in Nat
            BY <1>0, <1>1, StartFacts
        <3> QED
            BY <1>10, <2>2, <3>1, <3>2 DEF InChunk
    <2>4. cur'[t].lower = Value(k, a)
        BY <1>8, <2>1, <2>2 DEF Gets
    <2>5. Turned(t, k, t, ChunkOf(k, t))
        <3>1. ~program[k].ordered => UNCHANGED <<tOrdered, tRest>>
            BY <1>1, <1>12 DEF Turn, orderVars
        <3>2. program[k].ordered => /\ tOrdered' = [tOrdered EXCEPT ![t] = t]
                                    /\ tRest' = [tRest EXCEPT ![t] = len]
            BY <1>1, <1>12 DEF Turn
        <3> QED
            BY <1>9, <2>3, <2>4, <3>1, <3>2 DEF Turned
    <2> QED
        BY <1>8, <2>1, <2>5
<1>13. Turn(t, t, len) =>
          /\ \A u \in Thread \ {t} : tOrdered'[u] = tOrdered[u] /\ tRest'[u] = tRest[u]
          /\ tOrdered' \in [Thread -> Int] /\ tRest' \in [Thread -> Int]
    <2>1. tOrdered \in [Thread -> Int] /\ tRest \in [Thread -> Int] /\ t \in Int
        BY <1>0 DEF Known, TypeInv
    <2> QED
        BY <1>0, <1>9, <2>1 DEF Turn, orderVars
<1> QED
    BY <1>0, <1>1, <1>2, <1>4, <1>7, <1>11, <1>12, <1>13 DEF NoMore, orderVars

LEMMA NextStaticIs ==
    ASSUME Known, NEW t \in Team, NEW k, k = at[t], NextStatic(t)
    PROVE  /\ Current(k) /\ k \in Construct /\ IsLoop(program[k]) /\ AtScheduler(k)
           /\ Static(k) /\ InTurn(k) /\ teamSize > 1 /\ pc[t] = "next"
           /\ UNCHANGED <<countVars, loopLower>>
           /\ \E s \in Nat : s = tSchedule[t] /\
              \/ /\ tSchedule' = [tSchedule EXCEPT ![t] = s + 1]
                 /\ pc'[t] = "body" /\ at' = at
                 /\ \E d : Gets(t, d) /\ Has(k, d, ChunkOf(k, Number(t, s)))
                 /\ Turned(t, k, Number(t, s), ChunkOf(k, Number(t, s)))
              \/ /\ FromOn(t, k, s) = {} /\ EndConstruct(t)
                 /\ UNCHANGED <<cur, tSchedule, tOrdered, tRest>>
<1>0. /\ t \in Thread /\ teamSize \in Nat \ {0} /\ t \in Nat /\ pc[t] = "next" /\ teamSize > 1
      /\ schedType[1] = "static" /\ tSchedule[t] \in Nat
    BY Basics DEF Known, Team, NextStatic, Scheduled, TypeInv
<1>1. /\ Current(k) /\ k \in Construct /\ AtScheduler(k) /\ IsLoop(program[k])
      /\ loopUpper = program[k].upper /\ Here(t) = program[k]
      /\ (IF Collapsed(t) THEN 1 ELSE loopIncr) = program[k].incr
      /\ Collapsed(t) <=> program[k].collapsed
      /\ program[k].sched = "static" /\ (IsOrdered <=> program[k].ordered)
      /\ ~Shared(k) => loopLower = program[k].lower
      /\ chunkSize = program[k].chunk
    BY <1>0, AtNext DEF Known
<1>2. /\ Static(k) /\ InTurn(k) /\ loopLower = program[k].lower
    BY <1>0, <1>1 DEF Static, Shared, InTurn
<1>3. /\ program[k].lower \in Int /\ program[k].upper \in Int /\ program[k].incr \in Int
      /\ program[k].incr # 0 /\ program[k].collapsed \in BOOLEAN /\ program[k].ordered \in BOOLEAN
      /\ program[k].collapsed => program[k].lower = 0 /\ program[k].incr = 1
    BY <1>1, LoopFields
<1> DEFINE s == tSchedule[t]
           l == program[k]
           q == Number(t, s)
           trips == IF l.collapsed THEN Count ELSE Trips(l.lower, l.upper, l.incr)
           lower == (IF l.collapsed THEN 0 ELSE loopLower) + q * l.chunk * l.incr
           length == IF l.collapsed THEN Lesser(l.chunk, Count - lower) ELSE l.chunk
           c == Chunk(lower, lower + (length - 1) * l.incr, l.incr)
<1>4. \/ /\ q * l.chunk < trips
         /\ tSchedule' = [tSchedule EXCEPT ![t] = @ + 1]
         /\ Turn(t, q, length)
         /\ Take(t, c)
         /\ UNCHANGED <<countVars, loopLower, at, met>>
      \/ q * l.chunk >= trips /\ NoMore(t)
    <2>1. tSchedule[t] * teamSize + t = q
        BY DEF Number
    <2>2. loopLower = l.lower /\ (IF Collapsed(t) THEN 1 ELSE loopIncr) = l.incr
          /\ chunkSize = l.chunk /\ (Collapsed(t) <=> l.collapsed) /\ loopUpper = l.upper
        BY <1>1, <1>2
    <2> HIDE DEF q
    <2> QED
        BY <2>1, <2>2 DEF NextStatic
<1>5. /\ s \in Nat /\ q \in Nat /\ l.chunk \in Nat \ {0}
      /\ Start(k, q) = q * l.chunk /\ Start(k, q) \in Nat
      /\ Start(k, q + 1) = Start(k, q) + l.chunk
      /\ Value(k, Start(k, q)) = l.lower + (q * l.chunk) * l.incr
      /\ Value(k, Start(k, q)) \in Int
    BY <1>0, <1>1, <1>2, TurnIs
<1>6. PICK a \in Nat : a = Start(k, q)
    BY <1>5
<1>7. lower = Value(k, a) /\ lower \in Int
    BY <1>2, <1>3, <1>5, <1>6
<1>8. /\ Trip(k) \in Nat
      /\ \A i \in Iteration(k) : i \in Nat /\ i < Trip(k)
      /\ Trip(k) > 0 => trips = Trip(k)
      /\ l.collapsed => trips = Trip(k) /\ Count = Trip(k) /\ lower = a
    <2>1. /\ Trip(k) \in Nat
          /\ ~Past(l.lower, l.upper, l.incr) => Trip(k) = Trips(l.lower, l.upper, l.incr)
          /\ Past(l.lower, l.upper, l.incr) => Trip(k) = 0
        BY <1>1, ValueLimit
    <2>2. l.collapsed => Trip(k) = l.upper + 1 /\ Value(k, a) = a
        BY <1>1, CollapsedValue
    <2>3. Count = l.upper + 1
        BY <1>1 DEF Count
    <2> HIDE DEF lower
    <2> QED
        BY <1>7, <2>1, <2>2, <2>3 DEF Iteration
<1> HIDE DEF lower
<1>9. /\ length \in Int
      /\ a + length = IF l.collapsed THEN Lesser(Start(k, q + 1), Trip(k)) ELSE Start(k, q + 1)
    BY <1>3, <1>5, <1>6, <1>8 DEF Lesser
<1> HIDE DEF length
<1>10. lower + (length - 1) * l.incr = Value(k, (a + length) - 1) /\ Value(k, (a + length) - 1) \in Int
    <2>1. a \in Int /\ (a + length) - 1 \in Int
        BY <1>9
    <2> QED
        BY <1>1, <1>7, <1>9, <2>1, UpperIs, ValueMoves
<1>11. /\ c \in Records /\ c.incr = l.incr /\ c.lower = Value(k, Start(k, q))
       /\ c.upper = Value(k, (a + length) - 1)
    <2>1. PICK v \in Int : v = lower + (length - 1) * l.incr
        BY <1>10
    <2>2. c = [lower |-> lower, upper |-> v, incr |-> l.incr, from |-> lower, stride |-> 0]
        BY <2>1 DEF Chunk
    <2> HIDE DEF c
    <2> QED
        BY <1>3, <1>6, <1>7, <1>10, <2>1, <2>2 DEF Records
<1> HIDE DEF c, trips
<1>12. Has(k, Bounded(t, c), ChunkOf(k, q))
    <2>1. PICK b \in Int : b = a + length
        BY <1>9
    <2>2. c.upper = Value(k, b - 1)
        BY <1>11, <2>1
    <2>3. b = IF l.collapsed THEN Lesser(Start(k, q + 1), Trip(k)) ELSE Start(k, q + 1)
        BY <1>9, <2>1
    <2>4. c \in Records /\ c.incr = l.incr /\ c.lower = Value(k, Start(k, q))
        BY <1>11
    <2> QED
        BY <1>0, <1>1, <1>2, <1>5, <2>2, <2>3, <2>4, TurnHas
<1> HIDE DEF q, s
<1>13. \A i \in ChunkOf(k, q) : i < a + length
    BY <1>5, <1>6, <1>8, <1>9 DEF ChunkOf, InChunk, Lesser
<1>14. ASSUME Take(t, c), Turn(t, q, length)
       PROVE  /\ pc'[t] = "body"
              /\ \E d : Gets(t, d) /\ Has(k, d, ChunkOf(k, q))
              /\ Turned(t, k, q, ChunkOf(k, q))
    <2>1. Gets(t, Bounded(t, c)) /\ pc'[t] = "body"
        BY <1>0, <1>14, TakeGets
    <2>2. cur'[t].lower = Value(k, a)
        BY <1>6, <1>11, <2>1, BoundedKeeps DEF Gets
    <2>3. program[k].ordered => /\ tOrdered' = [tOrdered EXCEPT ![t] = q]
                                /\ tRest' = [tRest EXCEPT ![t] = length]
        BY <1>1, <1>14 DEF Turn
    <2>4. ~program[k].ordered => UNCHANGED <<tOrdered, tRest>>
        BY <1>1, <1>14 DEF Turn, orderVars
    <2>5. Turned(t, k, q, ChunkOf(k, q))
        BY <1>6, <1>9, <1>13, <2>2, <2>3, <2>4 DEF Turned
    <2> QED
        BY <1>12, <2>1, <2>5
<1>15. ASSUME q * l.chunk >= trips PROVE FromOn(t, k, s) = {}
    <2>1. Start(k, q) >= Trip(k)
        BY <1>5, <1>8, <1>15
    <2> QED
        BY <1>0, <1>1, <1>5, <2>1, DealNone DEF q
<1>16. tSchedule' = [tSchedule EXCEPT ![t] = @ + 1] => tSchedule' = [tSchedule EXCEPT ![t] = s + 1]
    BY DEF s
<1> QED
    BY <1>0, <1>1, <1>2, <1>4, <1>5, <1>14, <1>15, <1>16 DEF NoMore, orderVars, s, q

\* what the next chunk of the shared rest of a loop is
Shares(t, k) ==
    \/ \E a \in Iteration(k), b \in Nat :
          /\ a < b /\ loopLower = Value(k, a) /\ loopLower' = Value(k, b)
          /\ pc'[t] = "body" /\ at' = at
          /\ \E d : Gets(t, d) /\ Has(k, d, Between(k, a, b))
          /\ Turned(t, k, scheduleCount, Between(k, a, b))
          /\ scheduleCount' = IF program[k].ordered THEN scheduleCount + 1 ELSE scheduleCount
    \/ /\ Past(loopLower, program[k].upper, program[k].incr)
       /\ EndConstruct(t)
       /\ UNCHANGED <<loopLower, scheduleCount, cur, tOrdered, tRest>>

LEMMA ShareGives ==
    ASSUME Known, NEW t \in Team, NEW k, k = at[t], pc[t] = "next", teamSize > 1,
           Shared(k), NEW length \in Int, length >= 1, Share(t, length)
    PROVE  Shares(t, k)
<1>0. /\ t \in Thread /\ teamSize \in Nat \ {0}
    BY Basics DEF Known
<1>1. /\ Current(k) /\ k \in Construct /\ IsLoop(program[k])
      /\ loopUpper = program[k].upper /\ Here(t) = program[k]
      /\ (IF Collapsed(t) THEN 1 ELSE loopIncr) = program[k].incr
      /\ Collapsed(t) <=> program[k].collapsed
      /\ IsOrdered <=> program[k].ordered
      /\ \/ Past(loopLower, program[k].upper, program[k].incr)
         \/ \E i \in Iteration(k) : loopLower = Value(k, i)
    BY <1>0, AtNext DEF Known
<1>2. /\ program[k].lower \in Int /\ program[k].upper \in Int /\ program[k].incr \in Int
      /\ program[k].incr # 0 /\ program[k].collapsed \in BOOLEAN /\ program[k].ordered \in BOOLEAN
      /\ loopLower \in Int
    BY <1>1, LoopFields DEF Known, TypeInv
<1> DEFINE l == program[k]
           n == IF l.collapsed THEN Lesser(length, Count - loopLower) ELSE length
           c == Chunk(loopLower, loopLower + (n - 1) * l.incr, l.incr)
           over == Past(loopLower, l.upper, l.incr)
<1>3. \/ /\ ~over
         /\ loopLower' = loopLower + n * l.incr
         /\ scheduleCount' = IF IsOrdered THEN scheduleCount + 1 ELSE scheduleCount
         /\ Turn(t, scheduleCount, n)
         /\ Take(t, c)
         /\ UNCHANGED <<orderedCount, loopCount, tSchedule, at, met>>
      \/ over /\ NoMore(t)
    BY <1>1 DEF Share
<1>4. CASE over /\ NoMore(t)
    BY <1>4 DEF NoMore, Shares, countVars, orderVars
<1>5. CASE /\ ~over
           /\ loopLower' = loopLower + n * l.incr
           /\ scheduleCount' = IF IsOrdered THEN scheduleCount + 1 ELSE scheduleCount
           /\ Turn(t, scheduleCount, n)
           /\ Take(t, c)
           /\ UNCHANGED <<orderedCount, loopCount, tSchedule, at, met>>
    <2>1. PICK a \in Iteration(k) : loopLower = Value(k, a)
        BY <1>1, <1>5
    <2>2. a \in Nat /\ a < Trip(k) /\ Trip(k) \in Nat
        BY <1>1, ValueLimit DEF Iteration
    <2>3. l.collapsed => Count = Trip(k) /\ loopLower = a
        <3>1. l.collapsed => Trip(k) = l.upper + 1 /\ Value(k, a) = a
            BY <1>1, <2>2, CollapsedValue
        <3> QED
            BY <1>1, <2>1, <3>1 DEF Count
    <2>4. n \in Int /\ n >= 1 /\ (l.collapsed => a + n <= Trip(k))
        BY <1>2, <2>2, <2>3 DEF Lesser
    <2> HIDE DEF n
    <2>5. PICK b \in Nat : b = a + n
        BY <2>2, <2>4
    <2>6. loopLower + (n - 1) * l.incr = Value(k, b - 1) /\ Value(k, b - 1) \in Int
        <3>1. a \in Int /\ n \in Int /\ b - 1 \in Int /\ IsLoop(program[k]) /\ b = a + n
            BY <1>1, <2>2, <2>4, <2>5
        <3>2. Value(k, a) + (n - 1) * l.incr = Value(k, (a + n) - 1)
            BY <3>1, UpperIs
        <3>3. Value(k, b - 1) \in Int
            BY <3>1, ValueMoves
        <3> QED
            BY <2>1, <3>1, <3>2, <3>3
    <2>7. loopLower' = Value(k, b)
        <3>1. a \in Int /\ n \in Int /\ IsLoop(program[k])
            BY <1>1, <2>2, <2>4
        <3>2. Value(k, a) + n * l.incr = Value(k, a + n)
            BY <3>1, ValueMoves
        <3> QED
            BY <1>5, <2>1, <2>5, <3>2
    <2>8. c \in Records /\ c.incr = l.incr /\ c.lower = Value(k, a) /\ c.upper = Value(k, b - 1)
        <3>1. PICK v \in Int : v = loopLower + (n - 1) * l.incr
            BY <2>6
        <3>2. c = [lower |-> loopLower, upper |-> v, incr |-> l.incr, from |-> loopLower, stride |-> 0]
            BY <3>1 DEF Chunk
        <3> HIDE DEF c
        <3> QED
            BY <1>2, <2>1, <2>6, <3>1, <3>2 DEF Records
    <2> HIDE DEF c
    <2>9. Has(k, Bounded(t, c), Between(k, a, b))
        <3>1. b \in Int /\ (l.collapsed => b <= Trip(k))
            BY <2>4, <2>5
        <3> QED
            BY <1>1, <2>2, <2>8, <3>1, SomeHas
    <2>10. Gets(t, Bounded(t, c)) /\ pc'[t] = "body"
        BY <1>0, <1>5, TakeGets
    <2>11. Turned(t, k, scheduleCount, Between(k, a, b))
        <3>1. cur'[t].lower = Value(k, a)
            BY <2>8, <2>10, BoundedKeeps DEF Gets
        <3>2. program[k].ordered => /\ tOrdered' = [tOrdered EXCEPT ![t] = scheduleCount]
                                    /\ tRest' = [tRest EXCEPT ![t] = n]
            BY <1>1, <1>5 DEF Turn
        <3>3. ~program[k].ordered => UNCHANGED <<tOrdered, tRest>>
            BY <1>1, <1>5 DEF Turn, orderVars
        <3>4. \A i \in Between(k, a, b) : i < a + n
            BY <2>5 DEF Between
        <3> QED
            BY <2>2, <2>4, <3>1, <3>2, <3>3, <3>4 DEF Turned
    <2>12. scheduleCount' = IF program[k].ordered THEN scheduleCount + 1 ELSE scheduleCount
        BY <1>1, <1>5
    <2>13. a < b /\ at' = at
        BY <1>5, <2>2, <2>4, <2>5
    <2> QED
        BY <2>1, <2>7, <2>9, <2>10, <2>11, <2>12, <2>13 DEF Shares
<1> QED
    BY <1>3, <1>4, <1>5

LEMMA NextSharedIs ==
    ASSUME Known, NEW t \in Team, NEW k, k = at[t], NextDynamic(t) \/ NextGuided(t)
    PROVE  /\ Current(k) /\ k \in Construct /\ IsLoop(program[k]) /\ AtScheduler(k)
           /\ Shared(k) /\ ~Static(k) /\ teamSize > 1 /\ pc[t] = "next"
           /\ UNCHANGED <<tSchedule, orderedCount>>
           /\ Shares(t, k)
<1>0. /\ t \in Thread /\ teamSize \in Nat \ {0} /\ pc[t] = "next" /\ teamSize > 1
      /\ schedType[1] \in {"dynamic", "guided"}
    BY Basics DEF Known, NextDynamic, NextGuided, Scheduled
<1>1. /\ Current(k) /\ k \in Construct /\ AtScheduler(k) /\ IsLoop(program[k])
      /\ program[k].sched = schedType[1] /\ chunkSize = program[k].chunk
      /\ loopUpper = program[k].upper /\ Here(t) = program[k]
      /\ Collapsed(t) <=> program[k].collapsed
      /\ ~program[k].collapsed => loopIncr = program[k].incr
    BY <1>0, AtNext DEF Known
<1>2. Shared(k) /\ ~Static(k)
    BY <1>0, <1>1 DEF Shared, Static
<1>3. /\ chunkSize \in Int /\ chunkSize >= 1 /\ program[k].upper \in Int /\ loopLower \in Int
      /\ program[k].incr \in Int /\ program[k].incr # 0
      /\ program[k].collapsed \in BOOLEAN
    BY <1>0, <1>1, LoopFields DEF Known, TypeInv
<1>4. Share(t, chunkSize) => Shares(t, k)
    BY <1>0, <1>2, <1>3, ShareGives
<1>5. CASE NextDynamic(t)
    BY <1>0, <1>1, <1>2, <1>4, <1>5 DEF NextDynamic, Share, NoMore, countVars
<1>6. CASE NextGuided(t)
    <2> DEFINE left == IF Collapsed(t) THEN loopUpper + 1 - loopLower
                       ELSE Trips(loopLower, loopUpper, loopIncr)
               parts == IF IsOrdered /\ ~Collapsed(t) THEN teamSize ELSE 2 * teamSize
               size == Larger(chunkSize, Quot(left, parts))
    <2>1. left \in Int
        <3>1. PICK m \in Int : m = loopUpper - loopLower
            BY <1>1, <1>3
        <3>2. Quot(m, program[k].incr) \in Int
            BY <1>3, <3>1, QuotInt
        <3> QED
            BY <1>1, <1>3, <3>1, <3>2 DEF Trips
    <2>2. parts \in Int /\ parts # 0
        BY <1>0
    <2> HIDE DEF left, parts
    <2>3. Quot(left, parts) \in Int
        BY <2>1, <2>2, QuotInt
    <2>4. size \in Int /\ size >= 1
        BY <1>3, <2>3 DEF Larger
    <2>5. Share(t, size)
        BY <1>6 DEF NextGuided, left, parts
    <2> HIDE DEF size
    <2>6. Shares(t, k)
        BY <1>0, <1>2, <2>4, <2>5, ShareGives
    <2> QED
        BY <1>0, <1>1, <1>2, <2>5, <2>6 DEF Share, NoMore, countVars
<1> QED
    BY <1>5, <1>6

LEMMA NextAloneIs ==
    ASSUME Known, NEW t \in Team, NEW k, k = at[t], NextAlone(t)
    PROVE  /\ Current(k) /\ k \in Construct /\ IsLoop(program[k]) /\ AtScheduler(k)
           /\ ~Static(k) /\ teamSize = 1 /\ pc[t] = "next"
           /\ UNCHANGED <<loopLower, tSchedule, orderedCount, tRest>>
           /\ \/ /\ scheduleCount = 0 /\ scheduleCount' = 1
                 /\ pc'[t] = "body" /\ at' = at
                 /\ tOrdered' = [tOrdered EXCEPT ![t] = 0]
                 /\ \E d : Gets(t, d) /\ Has(k, d, Iteration(k))
              \/ /\ scheduleCount # 0 /\ EndConstruct(t)
                 /\ UNCHANGED <<scheduleCount, cur, tOrdered>>
<1>0. t \in Thread /\ pc[t] = "next" /\ teamSize = 1
    BY Basics DEF Known, NextAlone
<1>1. /\ Current(k) /\ k \in Construct /\ IsLoop(program[k]) /\ AtScheduler(k)
      /\ loopUpper = program[k].upper /\ loopLower = program[k].lower
      /\ (IF Collapsed(t) THEN 1 ELSE loopIncr) = program[k].incr
    BY <1>0, AtNext DEF Known
<1>2. ~Static(k)
    BY <1>0, <1>1 DEF Static
<1> DEFINE c == Chunk(program[k].lower, program[k].upper, program[k].incr)
<1>3. \/ /\ scheduleCount = 0 /\ scheduleCount' = 1
         /\ tOrdered' = [tOrdered EXCEPT ![t] = 0]
         /\ Take(t, c)
         /\ UNCHANGED <<orderedCount, loopLower, tRest, tSchedule, at>>
      \/ scheduleCount # 0 /\ NoMore(t)
    BY <1>1 DEF NextAlone
<1>4. Take(t, c) => pc'[t] = "body" /\ \E d : Gets(t, d) /\ Has(k, d, Iteration(k))
    <2>1. Has(k, Bounded(t, c), Iteration(k))
        BY <1>1, AllHas
    <2> HIDE DEF c
    <2>2. Take(t, c) => pc'[t] = "body" /\ Gets(t, Bounded(t, c))
        BY <1>0, TakeGets
    <2> QED
        BY <2>1, <2>2
<1> QED
    BY <1>0, <1>1, <1>2, <1>3, <1>4 DEF NoMore, countVars, orderVars

\* the first of the chunk's iterations is executed
LEMMA AdvanceIs ==
    ASSUME Known, NEW t \in Team, NEW k, k = at[t], Iterate(t) \/ EnterOrdered(t)
    PROVE  /\ k \in Construct /\ IsLoop(program[k]) /\ pc[t] = "body"
           /\ at' = at /\ pc'[t] \in {"body", "endOrdered"}
           /\ UNCHANGED <<loopLower, scheduleCount, orderedCount, tSchedule, tOrdered, tRest>>
           /\ \E i \in Rest(t, k), d \in Records :
                 /\ cur[t].lower = Value(k, i) /\ \A j \in Rest(t, k) : i <= j
                 /\ Execute(t, Value(k, i))
                 /\ Gets(t, d) /\ Has(k, d, Rest(t, k) \ {i})
                 /\ d.lower = Value(k, i + 1)
                 /\ d.from = cur[t].from /\ d.stride = cur[t].stride
<1>0. /\ t \in Thread /\ k \in Construct /\ IsLoop(program[k]) /\ Here(t) = program[k]
      /\ pc[t] = "body" /\ ChunkLeft(t) /\ Advance(t) /\ at' = at
      /\ UNCHANGED <<loopLower, scheduleCount, orderedCount, tSchedule, tOrdered, tRest>>
    <2>1. pc[t] = "body" /\ Here(t).kind = "loop" /\ ChunkLeft(t) /\ Advance(t) /\ at' = at
          /\ UNCHANGED <<loopLower, scheduleCount, orderedCount, tSchedule, tOrdered, tRest>>
        BY DEF Iterate, EnterOrdered, AtLoop, boundVars, countVars, orderVars
    <2> QED
        BY <2>1, Inside, Basics, Kinds DEF Known
<1>1. pc'[t] \in {"body", "endOrdered"}
    <2>1. DOMAIN pc = Thread
        BY DEF Known, PlaceInv
    <2> QED
        BY <1>0, <2>1 DEF Iterate, EnterOrdered, Goto
<1>2. /\ cur \in [Thread -> Records] /\ cur[t] \in Records /\ cur[t].incr = program[k].incr
      /\ ~Past(cur[t].upper, program[k].upper, program[k].incr)
    BY <1>0 DEF Known, TypeInv, Records, ChunkInv
<1>3. PICK i \in Iteration(k) : cur[t].lower = Value(k, i)
    BY <1>0 DEF Known, ChunkInv
<1>4. /\ program[k].upper \in Int /\ program[k].incr \in Int /\ program[k].incr # 0
      /\ cur[t].upper \in Int /\ cur[t].lower \in Int
    BY <1>0, <1>2, LoopFields DEF Records
<1>5. /\ Trip(k) \in Nat /\ i \in Nat /\ i + 1 \in Nat
      /\ \A j \in Iteration(k) : j \in Nat
      /\ \A j \in Nat : Past(Value(k, j), program[k].upper, program[k].incr) <=> j >= Trip(k)
      /\ \A j \in Iteration(k) : j \in Int
      /\ Value(k, i + 1) \in Int /\ Value(k, i) + program[k].incr = Value(k, i + 1)
    <2>0. IsLoop(program[k])
        BY <1>0
    <2>1. /\ Trip(k) \in Nat
          /\ \A j \in Nat : Past(Value(k, j), program[k].upper, program[k].incr) <=> j >= Trip(k)
        BY <2>0, ValueLimit
    <2>2. /\ i \in Nat /\ i + 1 \in Nat /\ \A j \in Iteration(k) : j \in Nat /\ j \in Int
        BY <2>1 DEF Iteration
    <2>3. i \in Int /\ i + 1 \in Int
        BY <2>2
    <2>4. Value(k, i + 1) \in Int /\ Value(k, i) + program[k].incr = Value(k, i + 1)
        BY <2>0, <2>3, ValueOrder
    <2> QED
        BY <2>1, <2>2, <2>4
<1>6. PICK d \in Records : /\ cur' = [cur EXCEPT ![t] = d]
                           /\ d.lower = Value(k, i + 1) /\ d.upper = cur[t].upper
                           /\ d.incr = cur[t].incr /\ d.from = cur[t].from
                           /\ d.stride = cur[t].stride
    <2>1. cur[t].lower + cur[t].incr = Value(k, i + 1)
        BY <1>2, <1>3, <1>5
    <2>2. cur' = [cur EXCEPT ![t] = [cur[t] EXCEPT !.lower = Value(k, i + 1)]]
        BY <1>0, <1>2, <2>1 DEF Advance
    <2>3. [cur[t] EXCEPT !.lower = Value(k, i + 1)] \in Records
        BY <1>2, <1>5 DEF Records
    <2> QED
        BY <1>2, <2>2, <2>3 DEF Records
<1>7. Gets(t, d)
    BY <1>0, <1>2, <1>6 DEF Gets
<1>8. Rest(t, k) = Within(k, cur[t])
    BY <1>0 DEF Rest, Holds, Within
<1>9. \A j \in Iteration(k) : Past(cur[t].lower, Value(k, j), program[k].incr) <=> j < i
    <2> SUFFICES ASSUME NEW j \in Iteration(k)
                 PROVE  Past(Value(k, i), Value(k, j), program[k].incr) <=> j < i
        BY <1>3
    <2>1. IsLoop(program[k]) /\ i \in Int /\ j \in Int
        BY <1>0, <1>5
    <2> QED
        BY <2>1, ValueOrder
<1>10. i \in Rest(t, k) /\ \A j \in Rest(t, k) : i <= j
    <2>1. ~Past(Value(k, i), cur[t].upper, program[k].incr)
        BY <1>0, <1>2, <1>3 DEF ChunkLeft
    <2>2. i \in Within(k, cur[t])
        <3>1. ~(i < i)
            BY <1>5
        <3> QED
            BY <1>9, <2>1, <3>1 DEF Within
    <2>3. \A j \in Within(k, cur[t]) : i <= j
        <3> SUFFICES ASSUME NEW j \in Within(k, cur[t]) PROVE i <= j
            OBVIOUS
        <3>1. j \in Iteration(k) /\ ~Past(cur[t].lower, Value(k, j), program[k].incr)
            BY DEF Within
        <3>2. ~(j < i) /\ j \in Int
            BY <1>5, <1>9, <3>1
        <3> QED
            BY <1>5, <3>2
    <2> QED
        BY <1>8, <2>2, <2>3
<1>11. Within(k, d) = Rest(t, k) \ {i}
    <2>1. \A j \in Iteration(k) : Past(Value(k, i + 1), Value(k, j), program[k].incr) <=> j < i + 1
        <3> SUFFICES ASSUME NEW j \in Iteration(k)
                     PROVE  Past(Value(k, i + 1), Value(k, j), program[k].incr) <=> j < i + 1
            OBVIOUS
        <3>1. IsLoop(program[k]) /\ i + 1 \in Int /\ j \in Int
            BY <1>0, <1>5
        <3> QED
            BY <3>1, ValueOrder
    <2>2. \A j \in Iteration(k) : ~(j < i + 1) <=> ~(j < i) /\ j # i
        BY <1>5
    <2> QED
        BY <1>6, <1>8, <1>9, <2>1, <2>2 DEF Within
<1>12. ~Past(d.lower, d.upper, d.incr) => \E j \in Iteration(k) : d.lower = Value(k, j)
    <2> SUFFICES ASSUME ~Past(d.lower, d.upper, d.incr) PROVE i + 1 \in Iteration(k)
        BY <1>6
    <2>1. ~Past(Value(k, i + 1), program[k].upper, program[k].incr)
        BY <1>2, <1>4, <1>5, <1>6 DEF Past
    <2> QED
        BY <1>5, <2>1 DEF Iteration
<1>13. Has(k, d, Rest(t, k) \ {i})
    BY <1>2, <1>6, <1>11, <1>12 DEF Has
<1>14. Execute(t, Value(k, i))
    BY <1>0, <1>3 DEF Advance
<1> QED
    BY <1>0, <1>1, <1>3, <1>6, <1>7, <1>10, <1>13, <1>14

LEMMA ChunkDoneIs ==
    ASSUME Known, NEW t \in Team, NEW k, k = at[t], ChunkDone(t)
    PROVE  /\ k \in Construct /\ IsLoop(program[k]) /\ pc[t] = "body" /\ Rest(t, k) = {}
           /\ UNCHANGED <<loopLower, scheduleCount, orderedCount, tSchedule, tOrdered, tRest>>
           /\ \/ AtScheduler(k) /\ pc'[t] = "next" /\ at' = at /\ cur' = cur
              \/ /\ ~AtScheduler(k) /\ pc'[t] = "body" /\ at' = at
                 /\ \E s \in Nat : /\ Strided(t, k, s) /\ Strided(t, k, s + 1)' /\ s + 1 \in 0..Trip(k)
                                   /\ \E d : Gets(t, d) /\ Has(k, d, ChunkOf(k, Number(t, s + 1)))
              \/ /\ ~AtScheduler(k) /\ EndConstruct(t) /\ cur' = cur
                 /\ \/ cur[t].stride = 0
                    \/ \E s \in Nat : Strided(t, k, s) /\ FromOn(t, k, s + 1) = {}
<1>0. /\ t \in Thread /\ k \in Construct /\ IsLoop(program[k]) /\ Here(t) = program[k]
      /\ pc[t] = "body" /\ ~ChunkLeft(t) /\ teamSize \in Nat \ {0}
      /\ UNCHANGED <<loopLower, scheduleCount, orderedCount, tSchedule, tOrdered, tRest>>
      /\ program' = program /\ teamSize' = teamSize
    <2>1. pc[t] = "body" /\ Here(t).kind = "loop" /\ ~ChunkLeft(t)
          /\ UNCHANGED <<loopLower, scheduleCount, orderedCount, tSchedule, tOrdered, tRest>>
          /\ program' = program /\ teamSize' = teamSize
        BY DEF ChunkDone, AtLoop, boundVars, countVars, orderVars, regionVars
    <2> QED
        BY <2>1, Inside, Basics, Kinds DEF Known
<1>1. /\ cur \in [Thread -> Records] /\ cur[t] \in Records /\ cur[t].incr = program[k].incr
      /\ DOMAIN pc = Thread
    BY <1>0 DEF Known, TypeInv, Records, ChunkInv, PlaceInv
<1>2. /\ program[k].upper \in Int /\ program[k].incr \in Int /\ program[k].incr # 0
      /\ cur[t].upper \in Int /\ cur[t].lower \in Int /\ cur[t].stride \in Int /\ cur[t].from \in Int
    BY <1>0, <1>1, LoopFields DEF Records
<1>3. Rest(t, k) = {}
    <2>1. \A i \in Iteration(k) : Value(k, i) \in Int
        BY <1>0, ValueOrder DEF Iteration
    <2>2. Past(cur[t].lower, cur[t].upper, program[k].incr)
        BY <1>0, <1>1 DEF ChunkLeft
    <2> QED
        BY <1>2, <2>1, <2>2 DEF Rest, Past
<1>4. AtScheduler(k) <=> program[k].sched \notin {"init_even", "init_chunk"}
    BY <1>0, LoopFields DEF AtScheduler, AtRuntime
<1>5. ASSUME cur[t].stride # 0, ~AtScheduler(k)
      PROVE  /\ InTurn(k) /\ \E s \in Nat : Strided(t, k, s)
             /\ ~program[k].collapsed
    <2>1. /\ program[k].sched = "init_chunk" /\ teamSize > 1
          /\ cur[t].stride = program[k].chunk * program[k].incr * teamSize
          /\ \E s \in 0..Trip(k) : cur[t].from = Value(k, Start(k, Number(t, s)))
        BY <1>0, <1>5 DEF Known, ChunkInv
    <2>2. InTurn(k) /\ ~program[k].collapsed
        BY <1>0, <2>1 DEF InTurn, IsLoop, AtRuntime
    <2>3. \A s \in 0..Trip(k) : s \in Nat
        BY <1>0, ValueLimit
    <2>4. cur[t].stride = (program[k].chunk * program[k].incr) * teamSize
        BY <2>1
    <2> QED
        BY <1>5, <2>1, <2>2, <2>3, <2>4 DEF Strided
<1> DEFINE c == cur[t]
           from == c.from + c.stride
           last == from + (program[k].chunk - 1) * c.incr
           e == [Chunk(from, last, c.incr) EXCEPT !.stride = c.stride]
<1>6. \/ AtScheduler(k) /\ pc' = [pc EXCEPT ![t] = "next"] /\ at' = at /\ cur' = cur
      \/ ~AtScheduler(k) /\ c.stride # 0 /\ ~Past(from, program[k].upper, c.incr) /\ Take(t, e) /\ at' = at
      \/ /\ ~AtScheduler(k) /\ (c.stride = 0 \/ Past(from, program[k].upper, c.incr))
         /\ EndConstruct(t) /\ cur' = cur
    BY <1>0, <1>4 DEF ChunkDone, AtScheduled, AtStatic, AtLoop, Goto
<1>7. CASE AtScheduler(k) /\ pc' = [pc EXCEPT ![t] = "next"] /\ at' = at /\ cur' = cur
    BY <1>0, <1>1, <1>3, <1>7
<1>8. ASSUME ~AtScheduler(k), c.stride # 0
      PROVE  \E s \in Nat :
                /\ Strided(t, k, s) /\ InTurn(k)
                /\ from = Value(k, Start(k, Number(t, s + 1)))
                /\ Start(k, Number(t, s + 1)) \in Nat
                /\ Number(t, s + 1) \in Nat
                /\ Past(from, program[k].upper, c.incr) <=> Start(k, Number(t, s + 1)) >= Trip(k)
    <2>1. PICK s \in Nat : Strided(t, k, s) /\ InTurn(k)
        BY <1>5, <1>8
    <2>2. from = Value(k, Start(k, Number(t, s + 1)))
        BY <1>0, <2>1, Strides DEF Strided
    <2>3. Start(k, Number(t, s + 1)) \in Nat /\ Number(t, s + 1) \in Nat
        <3>1. s + 1 \in Nat
            BY <2>1
        <3> QED
            BY <1>0, <2>1, <3>1, TurnIs
    <2>4. Past(from, program[k].upper, c.incr) <=> Start(k, Number(t, s + 1)) >= Trip(k)
        BY <1>0, <1>1, <2>2, <2>3, ValueLimit
    <2> QED
        BY <2>1, <2>2, <2>3, <2>4
<1>9. CASE /\ ~AtScheduler(k) /\ (c.stride = 0 \/ Past(from, program[k].upper, c.incr))
           /\ EndConstruct(t) /\ cur' = cur
    <2> SUFFICES ASSUME c.stride # 0 PROVE \E s \in Nat : Strided(t, k, s) /\ FromOn(t, k, s + 1) = {}
        BY <1>0, <1>3, <1>9
    <2> HIDE DEF from
    <2>1. PICK s \in Nat : /\ Strided(t, k, s) /\ InTurn(k)
                           /\ Past(from, program[k].upper, c.incr)
                                 <=> Start(k, Number(t, s + 1)) >= Trip(k)
        BY <1>8, <1>9
    <2>2. s + 1 \in Nat /\ Start(k, Number(t, s + 1)) >= Trip(k)
        BY <1>9, <2>1
    <2>3. FromOn(t, k, s + 1) = {}
        BY <1>0, <2>2, DealNone
    <2> QED
        BY <2>1, <2>3
<1>10. CASE /\ ~AtScheduler(k) /\ c.stride # 0 /\ ~Past(from, program[k].upper, c.incr)
            /\ Take(t, e) /\ at' = at
    <2>1. PICK s \in Nat : /\ Strided(t, k, s) /\ InTurn(k)
                           /\ from = Value(k, Start(k, Number(t, s + 1)))
                           /\ Start(k, Number(t, s + 1)) \in Nat
                           /\ Number(t, s + 1) \in Nat
                           /\ Past(from, program[k].upper, c.incr)
                                 <=> Start(k, Number(t, s + 1)) >= Trip(k)
        BY <1>8, <1>10
    <2>2. s + 1 \in Nat /\ Start(k, Number(t, s + 1)) < Trip(k) /\ Trip(k) \in Nat
        BY <1>0, <1>10, <2>1, ValueLimit
    <2>3. /\ program[k].chunk \in Nat \ {0}
          /\ Value(k, Start(k, Number(t, s + 1))) + (program[k].chunk - 1) * program[k].incr
                = Value(k, Start(k, Number(t, s + 1) + 1) - 1)
          /\ Start(k, Number(t, s + 1) + 1) = Start(k, Number(t, s + 1)) + program[k].chunk
        BY <1>0, <2>1, <2>2, TurnIs
    <2>4. PICK b \in Int : b = Start(k, Number(t, s + 1) + 1)
        BY <2>1, <2>3
    <2>5. Value(k, b - 1) \in Int /\ Value(k, Start(k, Number(t, s + 1))) \in Int
        <3>1. PICK x \in Int, y \in Int : x = b - 1 /\ y = Start(k, Number(t, s + 1))
            BY <2>1, <2>4
        <3>2. Value(k, x) \in Int /\ Value(k, y) \in Int
            <4>1. IsLoop(program[k])
                BY <1>0
            <4> QED
                BY <4>1, ValueMoves
        <3> QED
            BY <3>1, <3>2
    <2>6. /\ e \in Records /\ e.incr = program[k].incr /\ e.lower = Value(k, Start(k, Number(t, s + 1)))
          /\ e.upper = Value(k, b - 1) /\ e.stride = c.stride
          /\ e.from = Value(k, Start(k, Number(t, s + 1)))
        <3>1. last = Value(k, b - 1)
            BY <1>1, <2>1, <2>3, <2>4
        <3>2. PICK f \in Int, u \in Int : f = from /\ u = last
            BY <2>1, <2>5, <3>1
        <3>3. e = [lower |-> f, upper |-> u, incr |-> c.incr, from |-> f, stride |-> c.stride]
            BY <3>2 DEF Chunk
        <3> HIDE DEF e, from, last
        <3> QED
            BY <1>1, <1>2, <2>1, <3>1, <3>2, <3>3 DEF Records
    <2> HIDE DEF e, from
    <2>7. ~program[k].collapsed
        BY <1>5, <1>10
    <2>8. /\ Has(k, Bounded(t, e), ChunkOf(k, Number(t, s + 1)))
          /\ Bounded(t, e).from = e.from /\ Bounded(t, e).stride = e.stride
        <3>1. InTurn(k) /\ b = IF program[k].collapsed
                               THEN Lesser(Start(k, Number(t, s + 1) + 1), Trip(k))
                               ELSE Start(k, Number(t, s + 1) + 1)
            BY <2>1, <2>4, <2>7
        <3>2. PICK x \in Nat : x = s + 1
            BY <2>2
        <3> QED
            BY <1>0, <2>6, <3>1, <3>2, TurnHas
    <2>9. Gets(t, Bounded(t, e)) /\ pc'[t] = "body"
        BY <1>0, <1>10, TakeGets
    <2>10. Strided(t, k, s + 1)'
        <3>1. InTurn(k)' /\ Value(k, Start(k, Number(t, s + 1)))' = Value(k, Start(k, Number(t, s + 1)))
            BY <1>0, <2>1 DEF InTurn, Value, Start, Number, Trip
        <3>2. cur'[t].stride = c.stride /\ cur'[t].from = Value(k, Start(k, Number(t, s + 1)))
            BY <2>6, <2>8, <2>9 DEF Gets
        <3> QED
            BY <1>0, <2>1, <3>1, <3>2 DEF Strided
    <2>11. s + 1 \in 0..Trip(k)
        <3>1. Start(k, Number(t, s + 1)) >= Number(t, s + 1) /\ Number(t, s + 1) >= s + 1
            BY <1>0, <2>1, <2>2, StartFacts, Numbers
        <3> QED
            BY <2>1, <2>2, <3>1
    <2> QED
        BY <1>0, <1>3, <1>10, <2>1, <2>8, <2>9, <2>10, <2>11
<1> QED
    BY <1>6, <1>7, <1>9, <1>10

-----------------------------------------------------------------------------
(* What a step leaves of the iterations of a loop *)

\* the program stays while its region runs
LEMMA SameProgram ==
    ASSUME UNCHANGED regionVars
    PROVE  /\ program' = program /\ teamSize' = teamSize /\ Team' = Team /\ Construct' = Construct
           /\ \A k : /\ Trip(k)' = Trip(k) /\ Iteration(k)' = Iteration(k) /\ Work(k)' = Work(k)
                     /\ AtScheduler(k)' = AtScheduler(k) /\ Shared(k)' = Shared(k)
                     /\ Static(k)' = Static(k) /\ InTurn(k)' = InTurn(k)
                     /\ \A i : Value(k, i)' = Value(k, i)
                     /\ \A q : Start(k, q)' = Start(k, q)
                     /\ \A q, i : InChunk(k, q, i)' = InChunk(k, q, i)
           /\ \A t, s : Number(t, s)' = Number(t, s)
BY DEF regionVars, Team, Construct, Trip, Iteration, Work, Value, AtScheduler, Shared, Static,
       InTurn, Start, InChunk, Number

\* A thread that gets a chunk holds its iterations, and the chunk is one of the loop.
LEMMA RestThen ==
    ASSUME UNCHANGED regionVars, NEW t, NEW k, IsLoop(program[k])
    PROVE  /\ ~(at'[t] = k /\ pc'[t] \in {"body", "endOrdered"}) => Rest(t, k)' = {}
           /\ \A d, S : Has(k, d, S) /\ cur'[t] = d /\ at'[t] = k /\ pc'[t] \in {"body", "endOrdered"}
                           => Rest(t, k)' = S
<1>1. /\ program' = program
      /\ Iteration(k)' = Iteration(k) /\ \A i : Value(k, i)' = Value(k, i)
    BY SameProgram
<1>2. Rest(t, k)' = {i \in Iteration(k) :
                        /\ at'[t] = k /\ pc'[t] \in {"body", "endOrdered"}
                        /\ ~Past(cur'[t].lower, Value(k, i), program[k].incr)
                        /\ ~Past(Value(k, i), cur'[t].upper, program[k].incr)}
    BY <1>1 DEF Rest, Holds, Past
<1>3. ASSUME NEW d, NEW S, Has(k, d, S), cur'[t] = d, at'[t] = k, pc'[t] \in {"body", "endOrdered"}
      PROVE  Rest(t, k)' = S
    <2>1. Within(k, d) = S
        BY <1>3 DEF Has
    <2>2. Rest(t, k)' = Within(k, d)
        BY <1>2, <1>3 DEF Within
    <2> QED
        BY <2>1, <2>2
<1> QED
    BY <1>2, <1>3

\* A step leaves alone what the runtime keeps for the other threads.
LEMMA Others ==
    ASSUME TypeInv, NEW t \in Team, Step(t)
    PROVE  /\ tSchedule' \in [Thread -> Nat]
           /\ \A u \in Thread \ {t} :
                 /\ cur'[u] = cur[u] /\ tSchedule'[u] = tSchedule[u]
                 /\ tOrdered'[u] = tOrdered[u] /\ tRest'[u] = tRest[u]
<1> USE DEF TypeInv
<1>1. CASE StaticInit(t) \/ ChunkDone(t)
    BY <1>1 DEF StaticInit, ChunkDone, Take, orderVars
<1>2. CASE CountLoop(t) \/ InitTeam(t)
    <2>1. tSchedule' = tSchedule \/ tSchedule' = [tSchedule EXCEPT ![t] = 0]
        BY <1>2 DEF CountLoop, InitTeam
    <2>2. cur' = cur /\ tOrdered' = tOrdered /\ tRest' = tRest
        BY <1>2 DEF CountLoop, InitTeam, orderVars
    <2> QED
        BY <2>1, <2>2
<1>3. CASE NextAlone(t)
    BY <1>3 DEF NextAlone, NoMore, Take, orderVars
<1>4. CASE NextEven(t) \/ NextStatic(t)
    <2>1. \/ tSchedule' = tSchedule \/ tSchedule' = [tSchedule EXCEPT ![t] = 1]
          \/ tSchedule' = [tSchedule EXCEPT ![t] = @ + 1]
        BY <1>4 DEF NextEven, NextStatic, NoMore
    <2>2. t \in Thread => tSchedule[t] + 1 \in Nat
        OBVIOUS
    <2>3. tSchedule' \in [Thread -> Nat] /\ \A u \in Thread \ {t} : tSchedule'[u] = tSchedule[u]
        BY <2>1, <2>2
    <2>4. \A u \in Thread \ {t} :
             cur'[u] = cur[u] /\ tOrdered'[u] = tOrdered[u] /\ tRest'[u] = tRest[u]
        BY <1>4 DEF NextEven, NextStatic, NoMore, Take, Turn, orderVars
    <2> QED
        BY <2>3, <2>4
<1>5. CASE NextDynamic(t) \/ NextGuided(t)
    BY <1>5 DEF NextDynamic, NextGuided, Share, NoMore, Take, Turn, orderVars
<1>6. CASE Iterate(t) \/ EnterOrdered(t)
    BY <1>6 DEF Iterate, EnterOrdered, Advance, orderVars
<1>7. CASE EndOrdered(t)
    BY <1>7 DEF EndOrdered
<1>8. CASE CountSingle(t) \/ EnterSingle(t) \/ SingleEnd(t) \/ Publish(t)
    BY <1>8 DEF CountSingle, EnterSingle, SingleEnd, Publish, orderVars
<1>9. CASE Published(t) \/ Copy(t) \/ Barrier(t)
    BY <1>9 DEF Published, Copy, Barrier, orderVars
<1> QED
    BY <1>1, <1>2, <1>3, <1>4, <1>5, <1>6, <1>7, <1>8, <1>9 DEF Step

\* What the other threads are owed stays, and what this one is of other loops.
LEMMA Elsewhere ==
    ASSUME Known, NEW t \in Team, Step(t), NEW k \in Construct, IsLoop(program[k])
    PROVE  /\ \A u \in Team \ {t} : Rest(u, k)' = Rest(u, k) /\ Future(u, k)' = Future(u, k)
           /\ k # at[t] => Rest(t, k)' = Rest(t, k) /\ Future(t, k)' = Future(t, k)
<1>0. /\ Control(t) /\ UNCHANGED regionVars /\ pc[t] # "idle" /\ t \in Thread
      /\ k \in Nat /\ teamSize \in Nat \ {0} /\ at \in [Thread -> Nat] /\ at' \in [Thread -> Nat]
      /\ Team \subseteq Thread
      /\ \A u \in Thread \ {t} : at'[u] = at[u] /\ pc'[u] = pc[u]
    BY StepControl, Inside, Basics, Motion DEF Known, PlaceInv
<1>1. /\ Iteration(k)' = Iteration(k) /\ \A i : Value(k, i)' = Value(k, i)
      /\ Trip(k)' = Trip(k) /\ Static(k)' = Static(k) /\ AtScheduler(k)' = AtScheduler(k)
      /\ program' = program
      /\ \A q, i : InChunk(k, q, i)' = InChunk(k, q, i)
      /\ \A q : Start(k, q)' = Start(k, q)
      /\ \A u, s : Number(u, s)' = Number(u, s)
    BY <1>0, SameProgram
<1>2. ASSUME NEW u \in Team \ {t} PROVE Rest(u, k)' = Rest(u, k) /\ Future(u, k)' = Future(u, k)
    <2>1. /\ cur'[u] = cur[u] /\ tSchedule'[u] = tSchedule[u]
          /\ at'[u] = at[u] /\ pc'[u] = pc[u]
        BY <1>0, Others DEF Known
    <2>2. Rest(u, k)' = Rest(u, k)
        BY <1>1, <2>1 DEF Rest, Holds, Past
    <2>3. \A s : Later(u, k, s)' = Later(u, k, s)
        BY <1>1, <2>1 DEF Later, Started, Past
    <2> QED
        BY <1>1, <2>2, <2>3 DEF Future
<1>3. ASSUME k # at[t] PROVE Rest(t, k)' = Rest(t, k) /\ Future(t, k)' = Future(t, k)
    <2>1. \/ at' = at
          \/ at'[t] = at[t] + 1 /\ pc'[t] \in {"work", "idle"}
        BY <1>0, Motion DEF Known
    <2>2. Rest(t, k) = {} /\ Rest(t, k)' = {}
        BY <1>1, <1>3, <2>1 DEF Rest, Holds
    <2>3. /\ at[t] \in Nat /\ at'[t] \in Nat
          /\ tSchedule[t] \in Nat /\ tSchedule'[t] \in Nat
        BY <1>0, Others DEF Known, TypeInv
    <2>4. CASE k < at[t]
        <3>1. Started(t, k) /\ Started(t, k)' /\ at'[t] # k
            BY <1>0, <2>1, <2>3, <2>4 DEF Started
        <3> QED
            BY <1>0, <1>3, <2>2, <2>3, <3>1, FutureNow, FutureThen
    <2>5. CASE at[t] < k
        <3>1. pc'[t] = "idle" => at'[t] # k
            <4>1. pc'[t] = "idle" => ~(at[t] < Len(program)) /\ at'[t] = at[t] + 1
                BY <1>0, Motion DEF Known
            <4>2. k <= Len(program) /\ Len(program) \in Nat
                BY Basics DEF Known
            <4> QED
                BY <1>0, <2>3, <2>5, <4>1, <4>2
        <3>2. ~Started(t, k)
            BY <1>0, <2>3, <2>5 DEF Started
        <3>3. ~Started(t, k)'
            <4>1. ~(at'[t] > k)
                BY <1>0, <2>1, <2>3, <2>5
            <4>2. at'[t] = k => pc'[t] = "work"
                BY <1>3, <2>1, <3>1
            <4> QED
                BY <4>1, <4>2 DEF Started
        <3> QED
            BY <1>0, <2>2, <2>3, <3>2, <3>3, FutureNow, FutureThen
    <2> QED
        BY <1>0, <1>3, <2>3, <2>4, <2>5
<1> QED
    BY <1>2, <1>3

\* what is to be given out to whoever asks, when the team stays as it is
LEMMA PoolSame ==
    ASSUME UNCHANGED regionVars, Begun(Loops)' = Begun(Loops), UNCHANGED <<loopLower, scheduleCount>>
    PROVE  \A k : Pool(k)' = Pool(k) /\ Current(k)' = Current(k)
<1>1. ASSUME NEW k PROVE Pool(k)' = Pool(k) /\ Current(k)' = Current(k)
    <2>1. /\ Iteration(k)' = Iteration(k) /\ \A i : Value(k, i)' = Value(k, i)
          /\ Static(k)' = Static(k) /\ program' = program /\ teamSize' = teamSize
        BY SameProgram
    <2>2. Current(k)' = Current(k)
        BY DEF Current
    <2> QED
        BY <2>1, <2>2 DEF Pool, Past
<1> QED
    BY <1>1

\* A step touches the bounds in the team only for the latest loop.
LEMMA Touches ==
    ASSUME Known, NEW t \in Team, Step(t)
    PROVE  \/ Begun(Loops)' = Begun(Loops) /\ UNCHANGED <<loopLower, scheduleCount>>
           \/ /\ at[t] \in Loops /\ at[t] \in Begun(Loops)'
              /\ pc[t] \in LoopLabels \cup {"work"}
              /\ Begun(Loops)' = Begun(Loops) \cup {at[t]}
<1>0. /\ Control(t) /\ UNCHANGED regionVars /\ pc[t] # "idle" /\ t \in Thread
      /\ at[t] \in Construct /\ Here(t) = program[at[t]]
    BY StepControl, Inside DEF Known
<1>1. Begun(Loops)' = Begun(Loops) \cup
         (IF pc'[t] \in {"init", "single"} THEN {} ELSE {at[t]} \cap Loops)
    BY <1>0, Adds DEF Known
<1>2. ASSUME at[t] \in Loops, pc[t] \in LoopLabels \cup {"work"}, pc'[t] \notin {"init", "single"}
      PROVE  /\ at[t] \in Begun(Loops)' /\ pc[t] \in LoopLabels \cup {"work"}
             /\ Begun(Loops)' = Begun(Loops) \cup {at[t]}
    BY <1>1, <1>2
<1>3. at[t] \in Construct /\ pc[t] \in LoopLabels \ {"body"} => at[t] \in Loops
    BY <1>0 DEF Known, PlaceInv, Loops
<1>4. DOMAIN pc = Thread
    BY DEF Known, PlaceInv
<1>5. ASSUME at[t] \notin Loops PROVE Begun(Loops)' = Begun(Loops)
    BY <1>1, <1>5
<1>6. CASE StaticInit(t)
    <2>1. at[t] \notin Loops /\ UNCHANGED <<loopLower, scheduleCount>>
        BY <1>0, <1>6, StaticInitIs DEF Loops, StaticInit, boundVars, countVars
    <2> QED
        BY <1>5, <2>1
<1>7. CASE CountLoop(t)
    <2>1. at[t] \in Loops /\ pc[t] = "work"
        <3>1. IsLoop(program[at[t]])
            BY <1>0, <1>7, Inside, Kinds DEF CountLoop, AtScheduled, AtLoop, Known
        <3>2. program[at[t]].sched \in AtRuntime
            BY <1>0, <1>7, <3>1, LoopFields DEF CountLoop, AtScheduled, AtStatic, AtLoop
        <3> QED
            BY <1>0, <1>7, <3>1, <3>2 DEF Loops, AtScheduler, CountLoop, AtScheduled, AtLoop
    <2>2. CASE teamSize = 1
        <3>1. pc'[t] = "next"
            BY <1>0, <1>4, <1>7, <2>2 DEF CountLoop, Goto
        <3> QED
            BY <1>2, <2>1, <3>1
    <2>3. CASE teamSize # 1
        <3>1. pc'[t] = "init" /\ UNCHANGED <<loopLower, scheduleCount>>
            BY <1>0, <1>4, <1>7, <2>3 DEF CountLoop, Goto
        <3> QED
            BY <1>1, <3>1
    <2> QED
        BY <2>2, <2>3
<1>8. CASE InitTeam(t)
    <2>1. pc[t] = "init" /\ pc'[t] = "next"
        BY <1>0, <1>4, <1>8 DEF InitTeam, Goto
    <2> QED
        BY <1>0, <1>2, <1>3, <2>1 DEF LoopLabels
<1>9. CASE NextAlone(t) \/ NextEven(t) \/ NextStatic(t) \/ NextDynamic(t) \/ NextGuided(t)
    <2>1. pc[t] = "next"
        BY <1>9 DEF NextAlone, NextEven, NextStatic, NextDynamic, NextGuided, Scheduled
    <2>2. pc'[t] \notin {"init", "single"}
        <3>1. \/ at' = at /\ pc'[t] \in {"body", "barrier"}
              \/ pc'[t] \in {"work", "idle"}
            BY <1>0, <1>4, <2>1 DEF Control, Goes, EndConstruct, Proceed, Reach, Goto, AfterSingle,
                                    Known, PlaceInv
        <3> QED
            BY <3>1
    <2> QED
        BY <1>0, <1>2, <1>3, <2>1, <2>2 DEF LoopLabels
<1>10. CASE Iterate(t) \/ EnterOrdered(t) \/ EndOrdered(t) \/ ChunkDone(t)
    <2>1. UNCHANGED <<loopLower, scheduleCount>> /\ pc[t] \in {"body", "endOrdered"}
        BY <1>10 DEF Iterate, EnterOrdered, EndOrdered, ChunkDone, AtLoop, boundVars, countVars
    <2>2. \A k \in {at[t]} \cap Loops : k \in Begun(Loops)
        BY <2>1 DEF Begun, Chosen
    <2> QED
        BY <1>1, <2>1, <2>2
<1>11. CASE CountSingle(t) \/ EnterSingle(t) \/ SingleEnd(t) \/ Publish(t) \/ Published(t) \/ Copy(t)
    <2>1. UNCHANGED <<loopLower, scheduleCount>>
        BY <1>11 DEF CountSingle, EnterSingle, SingleEnd, Publish, Published, Copy, boundVars, countVars
    <2>2. Here(t).kind = "single" \/ pc[t] \in {"single", "singleEnd"} \cup CopyLabels
        BY <1>11 DEF CountSingle, EnterSingle, SingleEnd, Publish, Published, Copy, AtSingle,
                     CopyLabels
    <2>3. IsSingle(program[at[t]])
        BY <1>0, <2>2, Inside, Kinds DEF Known, PlaceInv
    <2>4. at[t] \notin Loops
        BY <2>3, Kinds DEF Loops, AtScheduler
    <2> QED
        BY <1>5, <2>1, <2>4
<1>12. CASE Barrier(t)
    <2>1. UNCHANGED <<loopLower, scheduleCount>> /\ pc[t] = "barrier"
        BY <1>12 DEF Barrier, boundVars, countVars
    <2>2. \A k \in {at[t]} \cap Loops : k \in Begun(Loops)
        BY <2>1 DEF Begun, Chosen
    <2> QED
        BY <1>1, <2>1, <2>2
<1> QED
    BY <1>6, <1>7, <1>8, <1>9, <1>10, <1>11, <1>12 DEF Step

\* Then nothing is left in the pool of an earlier loop.
LEMMA PoolElsewhere ==
    ASSUME Known, ShareInv, NEW t \in Team, Step(t), NEW k \in Construct, IsLoop(program[k]),
           k # at[t]
    PROVE  Pool(k)' = Pool(k)
<1>0. UNCHANGED regionVars /\ Team # {}
    BY StepControl, Basics DEF Known
<1>1. CASE Begun(Loops)' = Begun(Loops) /\ UNCHANGED <<loopLower, scheduleCount>>
    BY <1>0, <1>1, PoolSame
<1>2. CASE /\ at[t] \in Loops /\ at[t] \in Begun(Loops)'
           /\ pc[t] \in LoopLabels \cup {"work"}
           /\ Begun(Loops)' = Begun(Loops) \cup {at[t]}
    <2>1. \A j \in Begun(Loops) : j \in Nat /\ j <= at[t]
        BY <1>2, BegunBehind DEF Known
    <2>2. Iteration(k)' = Iteration(k) /\ Static(k)' = Static(k)
        BY <1>0, SameProgram
    <2>3. k \in Begun(Loops) <=> k \in Begun(Loops)'
        BY <1>2
    <2>4. CASE k \notin Begun(Loops)
        BY <2>2, <2>3, <2>4 DEF Pool
    <2>5. CASE k \in Begun(Loops)
        <3>0. at[t] \in Nat /\ k \in Nat /\ k <= at[t]
            BY <2>1, <2>5, Basics DEF Known, PlaceInv
        <3>1. k < at[t] /\ k \in Nat /\ ~(at[t] <= k)
            BY <3>0
        <3>2. Pool(k) = {}
            BY <3>1 DEF ShareInv
        <3>3. ~Current(k)'
            BY <1>2, <3>1 DEF Current
        <3> QED
            BY <2>3, <2>5, <3>2, <3>3 DEF Pool
    <2> QED
        BY <2>4, <2>5
<1> QED
    BY <1>1, <1>2, Touches

\* A step of a thread in the latest loop that is begun after it makes this the current one.
LEMMA Latest ==
    ASSUME Known, NEW t \in Team, NEW k \in Loops, k = at[t], pc[t] \in LoopLabels \cup {"work"},
           Begun(Loops)' = Begun(Loops) \cup {k}
    PROVE  \A j : Current(j)' <=> j = k
<1>1. /\ k \in Nat
      /\ \A j \in Begun(Loops) : j \in Nat /\ j <= k
    BY BegunBehind, Basics DEF Known, PlaceInv, Loops
<1>2. ASSUME NEW j \in Begun(Loops)', \A m \in Begun(Loops)' : m <= j PROVE j = k
    <2>1. k <= j /\ j \in Nat /\ j <= k
        BY <1>1, <1>2
    <2> QED
        BY <1>1, <2>1
<1>3. k \in Begun(Loops)' /\ \A m \in Begun(Loops)' : m <= k
    BY <1>1
<1> QED
    BY <1>2, <1>3 DEF Current

\* The counts tell the first thread of a team at a loop.
LEMMA FirstInit ==
    ASSUME Known, NEW t \in Team, InitTeam(t)
    PROVE  /\ at[t] \in Loops /\ pc[t] = "init" /\ pc'[t] = "next" /\ at' = at /\ teamSize > 1
           /\ Begun(Loops)' = Begun(Loops) \cup {at[t]}
           /\ loopCount >= tLoop[t] <=> at[t] \in Begun(Loops)
           /\ UNCHANGED regionVars /\ UNCHANGED <<tSchedule, cur, tOrdered, tRest, ran, again>>
<1>0. pc[t] = "init" /\ pc[t] # "idle"
    BY DEF InitTeam
<1>1. /\ t \in Thread /\ at[t] \in Construct /\ Here(t) = program[at[t]]
      /\ teamSize \in Nat \ {0} /\ Loops \in SUBSET Construct
    BY <1>0, Inside, Basics, BegunFacts DEF Known
<1>2. at[t] \in Loops /\ teamSize > 1
    BY <1>0, <1>1 DEF Known, PlaceInv, LoopLabels, Loops
<1>3. /\ at[t] \in Begun(Loops) <=> Cardinality(Begun(Loops)) >= Cardinality(Counted(t, Loops))
      /\ Cardinality(Begun(Loops)) \in Nat /\ Cardinality(Counted(t, Loops)) \in Nat
    BY <1>0, <1>1, <1>2, FirstByCount DEF Known
<1>4. /\ tLoop[t] + Cardinality(Begun(Loops)) = loopCount + Cardinality(Counted(t, Loops))
      /\ tLoop[t] \in Nat /\ loopCount \in Nat
    BY <1>1, <1>2 DEF Known, CountInv
<1>5. /\ pc'[t] = "next" /\ at' = at
      /\ UNCHANGED regionVars /\ UNCHANGED <<tSchedule, cur, tOrdered, tRest, ran, again>>
    BY <1>1 DEF InitTeam, Goto, Known, PlaceInv, orderVars, ghostVars
<1>6. Begun(Loops)' = Begun(Loops) \cup {at[t]}
    <2>1. Control(t)
        BY StepControl DEF Step, Known
    <2> QED
        BY <1>0, <1>2, <1>5, <2>1, Adds DEF Known
<1> QED
    BY <1>0, <1>2, <1>3, <1>4, <1>5, <1>6

\* A thread that is through with a construct is owed nothing of it.
LEMMA Leaving ==
    ASSUME Known, UNCHANGED regionVars, NEW t \in Team, NEW k \in Construct, IsLoop(program[k]),
           tSchedule'[t] \in Nat, at'[t] \in Nat,
           at'[t] > k \/ (at'[t] = k /\ pc'[t] = "barrier")
    PROVE  Rest(t, k)' = {} /\ Future(t, k)' = {}
<1>1. Rest(t, k)' = {}
    BY RestThen
<1>2. Started(t, k)' /\ ~(at'[t] = k /\ pc'[t] \in LoopLabels)
    BY Basics DEF Known, Started, LoopLabels
<1>3. k \in Nat /\ teamSize \in Nat \ {0}
    BY Basics DEF Known
<1> QED
    BY <1>1, <1>2, <1>3, FutureThen

LEMMA Ending ==
    ASSUME PlaceInv, NEW t \in Team, NEW k, k = at[t], pc[t] # "idle", EndConstruct(t)
    PROVE  at'[t] \in Nat /\ (at'[t] > k \/ (at'[t] = k /\ pc'[t] = "barrier"))
<1>1. t \in Thread /\ at \in [Thread -> Nat] /\ DOMAIN pc = Thread
    BY Inside DEF PlaceInv
<1>2. at[t] + 1 \in Nat /\ at[t] + 1 > at[t]
    BY <1>1
<1> QED
    BY <1>1, <1>2 DEF EndConstruct, Proceed, Reach, Goto

\* The pool of a loop, now and after a step.
LEMMA PoolNow ==
    ASSUME NEW k
    PROVE  /\ Static(k) => Pool(k) = {}
           /\ ~Static(k) /\ k \notin Begun(Loops) => Pool(k) = Iteration(k)
           /\ ~Static(k) /\ Current(k) /\ teamSize = 1 /\ scheduleCount = 0 => Pool(k) = Iteration(k)
           /\ Current(k) /\ teamSize = 1 /\ scheduleCount # 0 => Pool(k) = {}
           /\ ~Static(k) /\ Current(k) /\ teamSize # 1 =>
                 Pool(k) = {i \in Iteration(k) : ~Past(loopLower, Value(k, i), program[k].incr)}
BY DEF Pool, Current

LEMMA PoolThen ==
    ASSUME UNCHANGED regionVars, NEW k
    PROVE  /\ Static(k) => Pool(k)' = {}
           /\ ~Static(k) /\ Current(k)' /\ teamSize = 1 /\ scheduleCount' = 0
                 => Pool(k)' = Iteration(k)
           /\ Current(k)' /\ teamSize = 1 /\ scheduleCount' # 0 => Pool(k)' = {}
           /\ ~Static(k) /\ Current(k)' /\ teamSize # 1 =>
                 Pool(k)' = {i \in Iteration(k) : ~Past(loopLower', Value(k, i), program[k].incr)}
<1>1. /\ Iteration(k)' = Iteration(k) /\ \A i : Value(k, i)' = Value(k, i)
      /\ Static(k)' = Static(k) /\ program' = program /\ teamSize' = teamSize
    BY SameProgram
<1>2. Current(k)' => k \in Begun(Loops)'
    BY DEF Current
<1>3. Pool(k)' = {i \in Iteration(k) :
        /\ ~Static(k)
        /\ \/ k \notin Begun(Loops)'
           \/ /\ Current(k)'
              /\ IF teamSize = 1 THEN scheduleCount' = 0
                 ELSE ~Past(loopLower', Value(k, i), program[k].incr)}
    BY <1>1 DEF Pool, Past
<1> QED
    BY <1>2, <1>3

\* A chunk has nothing of the later ones of its thread.
LEMMA ChunkApart ==
    ASSUME NEW k, IsLoop(program[k]), teamSize \in Nat \ {0}, NEW t \in Team, NEW s \in Nat
    PROVE  ChunkOf(k, Number(t, s)) \cap FromOn(t, k, s + 1) = {}
<1> SUFFICES ASSUME NEW i \in ChunkOf(k, Number(t, s)), i \in FromOn(t, k, s + 1) PROVE FALSE
    OBVIOUS
<1>1. i \in Iteration(k) /\ InChunk(k, Number(t, s), i)
    BY DEF ChunkOf
<1>2. PICK x \in 0..Trip(k) : InChunk(k, Number(t, x), i) /\ x >= s + 1
    BY DEF FromOn
<1>3. Trip(k) \in Nat
    BY ValueLimit
<1>4. x \in Nat /\ i \in Int
    BY <1>1, <1>3 DEF Iteration
<1>5. s = x
    BY <1>1, <1>2, <1>4, InOneChunk
<1> QED
    BY <1>2, <1>5

\* what a thread in a loop with a stride is still to be given
LEMMA StridedNow ==
    ASSUME Known, NEW t \in Team, NEW k \in Construct, IsLoop(program[k]), ~AtScheduler(k),
           at[t] = k, pc[t] \in LoopLabels, NEW s \in Nat, Strided(t, k, s)
    PROVE  Future(t, k) = FromOn(t, k, s + 1)
<1>1. /\ k \in Nat /\ teamSize \in Nat \ {0} /\ tSchedule[t] \in Nat /\ at[t] \in Nat
    BY Basics DEF Known, TypeInv
<1> QED
    BY <1>1, FutureNow DEF Strided

LEMMA StridedThen ==
    ASSUME Known, UNCHANGED regionVars, tSchedule' \in [Thread -> Nat], NEW t \in Team,
           NEW k \in Construct, IsLoop(program[k]), ~AtScheduler(k),
           at'[t] = k, pc'[t] \in LoopLabels, NEW s \in Nat, Strided(t, k, s)'
    PROVE  Future(t, k)' = FromOn(t, k, s + 1)
<1>1. /\ k \in Nat /\ teamSize \in Nat \ {0} /\ tSchedule'[t] \in Nat /\ at'[t] \in Nat
    BY Basics DEF Known
<1>2. /\ InTurn(k) /\ cur'[t].stride # 0
      /\ cur'[t].stride = (program[k].chunk * program[k].incr) * teamSize
      /\ cur'[t].from = Value(k, Start(k, Number(t, s)))
    <2>1. /\ InTurn(k)' = InTurn(k) /\ program' = program /\ teamSize' = teamSize
          /\ Value(k, Start(k, Number(t, s)))' = Value(k, Start(k, Number(t, s)))
        BY DEF regionVars, InTurn, Value, Start, Number, Trip
    <2> QED
        BY <2>1 DEF Strided
<1> QED
    BY <1>1, <1>2, FutureThen

\* A step at a loop gives its thread some of what is in the pool, or lets it
\* execute one of the iterations it is owed.
Draws(t, k) ==
    /\ \E R \in SUBSET Pool(k) : Owed(t, k)' = Owed(t, k) \cup R /\ Pool(k)' = Pool(k) \ R
    /\ ran' = ran /\ again' = again
Does(t, k) ==
    /\ \E i \in Owed(t, k) : Execute(t, Value(k, i)) /\ Owed(t, k)' = Owed(t, k) \ {i}
    /\ Pool(k)' = Pool(k)
Effect(t, k) ==
    /\ Draws(t, k) \/ Does(t, k)
    /\ Rest(t, k)' \cap Future(t, k)' = {}
    /\ at'[t] > k \/ (at'[t] = k /\ pc'[t] = "barrier") => Pool(k)' = {}

\* a step that keeps what its thread is owed
LEMMA Keeps ==
    ASSUME NEW t, NEW k, Owed(t, k)' = Owed(t, k), Pool(k)' = Pool(k), UNCHANGED <<ran, again>>
    PROVE  Draws(t, k)
<1>1. Owed(t, k)' = Owed(t, k) \cup {} /\ Pool(k)' = Pool(k) \ {} /\ {} \in SUBSET Pool(k)
    OBVIOUS
<1> QED
    BY <1>1 DEF Draws

LEMMA StaticInitEffect ==
    ASSUME Known, NEW t \in Team, NEW k, k = at[t], StaticInit(t)
    PROVE  Effect(t, k)
<1>0. /\ UNCHANGED regionVars /\ Step(t) /\ k \in Construct /\ k \in Nat /\ teamSize \in Nat \ {0}
      /\ at[t] \in Nat /\ tSchedule[t] \in Nat /\ tSchedule' \in [Thread -> Nat]
      /\ tSchedule'[t] \in Nat
      /\ UNCHANGED <<ran, again>>
    <2>1. Step(t) /\ UNCHANGED regionVars /\ UNCHANGED <<ran, again>>
        BY DEF Step, StaticInit, ghostVars
    <2>2. t \in Thread /\ at[t] \in Nat /\ at[t] \in Construct
        BY <2>1, StepControl, Inside DEF Known
    <2> QED
        BY <2>1, <2>2, Basics, Others DEF Known, TypeInv
<1>1. /\ IsLoop(program[k]) /\ ~AtScheduler(k) /\ Static(k)
      /\ pc[t] = "work" /\ pc'[t] = "body" /\ at'[t] = k
      /\ \E d : Gets(t, d) /\ Has(k, d, ChunkOf(k, Number(t, 0)))
      /\ (~InTurn(k) /\ cur'[t].stride = 0) \/ Strided(t, k, 0)'
    BY StaticInitIs
<1>2. Rest(t, k)' = ChunkOf(k, Number(t, 0))
    BY <1>0, <1>1, RestThen DEF Gets
<1>3. Future(t, k)' = FromOn(t, k, 1)
    <2>1. pc'[t] \in LoopLabels
        BY <1>1 DEF LoopLabels
    <2>2. CASE ~InTurn(k) /\ cur'[t].stride = 0
        <3>1. Future(t, k)' = {}
            BY <1>0, <1>1, <2>1, <2>2, FutureThen
        <3>2. FromOn(t, k, 1) = {}
            BY <1>0, <1>1, <2>2, DealEven
        <3> QED
            BY <3>1, <3>2
    <2>3. CASE Strided(t, k, 0)'
        <3>1. Future(t, k)' = FromOn(t, k, 0 + 1)
            BY <1>0, <1>1, <2>1, <2>3, StridedThen
        <3> QED
            BY <3>1
    <2> QED
        BY <1>1, <2>2, <2>3
<1>4. Rest(t, k) = {} /\ Future(t, k) = FromOn(t, k, 0)
    <2>1. Rest(t, k) = {}
        BY <1>1 DEF Rest, Holds
    <2>2. ~Started(t, k)
        BY <1>0, <1>1 DEF Started
    <2> QED
        BY <1>0, <1>1, <2>1, <2>2, FutureNow
<1>5. FromOn(t, k, 0) = ChunkOf(k, Number(t, 0)) \cup FromOn(t, k, 1)
    <2>1. FromOn(t, k, 0) = ChunkOf(k, Number(t, 0)) \cup FromOn(t, k, 0 + 1)
        BY <1>0, <1>1, DealOne
    <2> QED
        BY <2>1
<1>6. Rest(t, k)' \cap Future(t, k)' = {}
    <2>1. ChunkOf(k, Number(t, 0)) \cap FromOn(t, k, 0 + 1) = {}
        BY <1>0, <1>1, ChunkApart
    <2> QED
        BY <1>2, <1>3, <2>1
<1>7. Owed(t, k)' = Owed(t, k)
    BY <1>2, <1>3, <1>4, <1>5 DEF Owed
<1>8. Pool(k) = {} /\ Pool(k)' = {}
    BY <1>0, <1>1, PoolNow, PoolThen
<1> QED
    BY <1>0, <1>6, <1>7, <1>8, Keeps DEF Effect

LEMMA StepFacts ==
    ASSUME Known, NEW t \in Team, NEW k, k = at[t], Step(t)
    PROVE  /\ UNCHANGED regionVars /\ Control(t) /\ pc[t] # "idle" /\ t \in Thread
           /\ k \in Construct /\ k \in Nat /\ teamSize \in Nat \ {0} /\ at'[t] \in Nat
           /\ tSchedule[t] \in Nat /\ tSchedule' \in [Thread -> Nat] /\ tSchedule'[t] \in Nat
           /\ DOMAIN pc = Thread /\ Here(t) = program[k]
           /\ IsLoop(program[k]) => (program[k].sched \in AtRuntime <=> k \in Loops)
<1>1. UNCHANGED regionVars /\ Control(t) /\ pc[t] # "idle"
    BY StepControl DEF Known
<1>2. t \in Thread /\ k \in Construct /\ k \in Nat /\ DOMAIN pc = Thread /\ at' \in [Thread -> Nat]
      /\ Here(t) = program[k]
    BY <1>1, Inside, Motion DEF Known, PlaceInv
<1>3. IsLoop(program[k]) => (program[k].sched \in AtRuntime <=> k \in Loops)
    BY <1>2 DEF Loops, AtScheduler
<1> QED
    BY <1>1, <1>2, <1>3, Basics, Others DEF Known, TypeInv

\* what CountLoop does, but for the counts
LEMMA CountLoopIs ==
    ASSUME Known, NEW t \in Team, NEW k, k = at[t], CountLoop(t)
    PROVE  /\ k \in Loops /\ IsLoop(program[k]) /\ AtScheduler(k) /\ pc[t] = "work" /\ at' = at
           /\ tSchedule'[t] = 0 /\ UNCHANGED <<cur, tOrdered, tRest, ran, again>>
           /\ \/ teamSize = 1 /\ pc'[t] = "next" /\ SetBounds(program[k])
                 /\ Begun(Loops)' = Begun(Loops) \cup {k}
              \/ /\ teamSize > 1 /\ pc'[t] = "init"
                 /\ UNCHANGED <<loopLower, loopUpper, loopIncr, scheduleCount, orderedCount>>
                 /\ Begun(Loops)' = Begun(Loops)
           /\ UNCHANGED <<schedType, chunkSize>>
<1>0. /\ Control(t) /\ UNCHANGED regionVars /\ pc[t] # "idle" /\ t \in Thread /\ k \in Construct
      /\ DOMAIN pc = Thread /\ teamSize \in Nat \ {0} /\ Here(t) = program[k]
      /\ IsLoop(program[k]) => (program[k].sched \in AtRuntime <=> k \in Loops)
    BY StepFacts DEF Step
<1>1. /\ pc[t] = "work" /\ Here(t).kind = "loop" /\ Here(t).sched \notin {"init_even", "init_chunk"}
    BY DEF CountLoop, AtScheduled, AtStatic, AtLoop
<1>2. IsLoop(program[k]) /\ k \in Loops /\ AtScheduler(k)
    <2>1. IsLoop(program[k])
        BY <1>0, <1>1, Inside, Kinds DEF Known
    <2> QED
        BY <1>0, <1>1, <2>1, LoopFields DEF Loops
<1>3. at' = at /\ tSchedule'[t] = 0 /\ UNCHANGED <<cur, tOrdered, tRest, ran, again>>
      /\ UNCHANGED <<schedType, chunkSize>>
    BY <1>0 DEF CountLoop, orderVars, ghostVars, Known, TypeInv
<1>4. Begun(Loops)' = Begun(Loops) \cup
         (IF pc'[t] \in {"init", "single"} THEN {} ELSE {at[t]} \cap Loops)
    BY <1>0, Adds DEF Known
<1>5. CASE teamSize = 1
    <2>1. pc'[t] = "next" /\ SetBounds(program[k])
        BY <1>0, <1>5 DEF CountLoop, Goto
    <2> QED
        BY <1>1, <1>2, <1>3, <1>4, <1>5, <2>1
<1>6. CASE teamSize # 1
    <2>1. /\ pc'[t] = "init"
          /\ UNCHANGED <<loopLower, loopUpper, loopIncr, scheduleCount, orderedCount>>
        BY <1>0, <1>6 DEF CountLoop, Goto
    <2>2. teamSize > 1
        BY <1>0, <1>6
    <2> QED
        BY <1>1, <1>2, <1>3, <1>4, <2>1, <2>2
<1> QED
    BY <1>5, <1>6

LEMMA CountLoopEffect ==
    ASSUME Known, NEW t \in Team, NEW k, k = at[t], CountLoop(t)
    PROVE  Effect(t, k)
<1>0. /\ UNCHANGED regionVars /\ k \in Construct /\ k \in Nat /\ teamSize \in Nat \ {0}
      /\ at[t] \in Nat /\ tSchedule[t] \in Nat /\ tSchedule'[t] \in Nat
    BY StepFacts DEF Step
<1>1. /\ k \in Loops /\ IsLoop(program[k]) /\ AtScheduler(k) /\ pc[t] = "work" /\ at'[t] = k
      /\ tSchedule'[t] = 0 /\ UNCHANGED <<cur, ran, again>>
      /\ pc'[t] \in {"next", "init"}
    BY CountLoopIs
<1>2. Rest(t, k) = {} /\ Rest(t, k)' = {}
    BY <1>0, <1>1, RestThen DEF Rest, Holds
<1>3. Future(t, k)' = Future(t, k)
    <2>1. ~Started(t, k) /\ pc'[t] \in LoopLabels
        BY <1>0, <1>1 DEF Started, LoopLabels
    <2>2. ~Static(k) => Future(t, k) = {} /\ Future(t, k)' = {}
        BY <1>0, <1>1, FutureNow, FutureThen
    <2>3. Static(k) => Future(t, k) = FromOn(t, k, 0) /\ Future(t, k)' = FromOn(t, k, 0)
        BY <1>0, <1>1, <2>1, FutureNow, FutureThen
    <2> QED
        BY <2>2, <2>3
<1>4. Pool(k)' = Pool(k)
    <2>1. CASE teamSize = 1 /\ SetBounds(program[k]) /\ Begun(Loops)' = Begun(Loops) \cup {k}
        <3>1. Current(k)' /\ scheduleCount' = 0
            BY <1>1, <2>1, Latest DEF SetBounds
        <3>2. ~Static(k)
            BY <1>1, <2>1 DEF Static
        <3>3. k \notin Begun(Loops)
            <4>1. Team = {t}
                BY <2>1 DEF Team
            <4> QED
                BY <1>0, <1>1, <4>1 DEF Begun, Chosen
        <3> QED
            BY <1>0, <2>1, <3>1, <3>2, <3>3, PoolNow, PoolThen
    <2>2. CASE UNCHANGED <<loopLower, scheduleCount>> /\ Begun(Loops)' = Begun(Loops)
        BY <1>0, <2>2, PoolSame
    <2> QED
        BY <2>1, <2>2, CountLoopIs
<1>5. Draws(t, k)
    BY <1>1, <1>2, <1>3, <1>4, Keeps DEF Owed
<1> QED
    BY <1>0, <1>1, <1>2, <1>5 DEF Effect

LEMMA InitTeamEffect ==
    ASSUME Known, NEW t \in Team, NEW k, k = at[t], InitTeam(t)
    PROVE  Effect(t, k)
<1>0. /\ UNCHANGED regionVars /\ k \in Construct /\ k \in Nat /\ teamSize \in Nat \ {0}
      /\ at[t] \in Nat /\ tSchedule[t] \in Nat /\ tSchedule'[t] \in Nat /\ Here(t) = program[k]
    BY StepFacts DEF Step
<1>1. /\ k \in Loops /\ IsLoop(program[k]) /\ AtScheduler(k) /\ pc[t] = "init" /\ at'[t] = k
      /\ tSchedule'[t] = tSchedule[t] /\ UNCHANGED <<cur, ran, again>>
      /\ pc'[t] = "next" /\ teamSize > 1
      /\ Begun(Loops)' = Begun(Loops) \cup {k}
      /\ loopCount >= tLoop[t] <=> k \in Begun(Loops)
    BY FirstInit DEF Loops, AtScheduler
<1>2. Rest(t, k) = {} /\ Rest(t, k)' = {}
    BY <1>0, <1>1, RestThen DEF Rest, Holds
<1>3. Future(t, k)' = Future(t, k)
    <2>1. pc[t] \in LoopLabels /\ pc'[t] \in LoopLabels
        BY <1>1 DEF LoopLabels
    <2>2. ~Static(k) => Future(t, k) = {} /\ Future(t, k)' = {}
        BY <1>0, <1>1, FutureNow, FutureThen
    <2>3. Static(k) => /\ Future(t, k) = FromOn(t, k, tSchedule[t])
                       /\ Future(t, k)' = FromOn(t, k, tSchedule[t])
        BY <1>0, <1>1, <2>1, FutureNow, FutureThen
    <2> QED
        BY <2>2, <2>3
<1>4. Pool(k)' = Pool(k)
    <2>1. CASE k \in Begun(Loops)
        <3>1. UNCHANGED <<loopLower, scheduleCount>> /\ Begun(Loops)' = Begun(Loops)
            BY <1>1, <2>1 DEF InitTeam, boundVars, countVars
        <3> QED
            BY <1>0, <3>1, PoolSame
    <2>2. CASE k \notin Begun(Loops)
        <3>1. Current(k)' /\ loopLower' = program[k].lower
            <4>1. Current(k)'
                BY <1>1, Latest DEF LoopLabels
            <4> QED
                BY <1>0, <1>1, <2>2, <4>1 DEF InitTeam, SetBounds
        <3>2. \A i \in Iteration(k) : ~Past(program[k].lower, Value(k, i), program[k].incr)
            <4> SUFFICES ASSUME NEW i \in Iteration(k)
                         PROVE  ~Past(Value(k, 0), Value(k, i), program[k].incr)
                BY <1>1, ValueOrder
            <4>1. i \in Int /\ ~(i < 0)
                BY <1>1, ValueLimit DEF Iteration
            <4>2. IsLoop(program[k]) /\ 0 \in Int
                BY <1>1
            <4>3. Past(Value(k, 0), Value(k, i), program[k].incr) <=> i < 0
                BY <4>1, <4>2, ValueOrder
            <4> QED
                BY <4>1, <4>3
        <3>3. Static(k) => Pool(k) = {} /\ Pool(k)' = {}
            BY <1>0, PoolNow, PoolThen
        <3>4. ~Static(k) => Pool(k) = Iteration(k)
            BY <2>2, PoolNow
        <3>5. ~Static(k) => Pool(k)' = Iteration(k)
            <4>1. ~Static(k) => Pool(k)' =
                      {i \in Iteration(k) : ~Past(loopLower', Value(k, i), program[k].incr)}
                BY <1>0, <1>1, <3>1, PoolThen
            <4> QED
                BY <3>1, <3>2, <4>1
        <3> QED
            BY <3>3, <3>4, <3>5
    <2> QED
        BY <2>1, <2>2
<1>5. Draws(t, k)
    BY <1>1, <1>2, <1>3, <1>4, Keeps DEF Owed
<1> QED
    BY <1>0, <1>1, <1>2, <1>5 DEF Effect

LEMMA StillCurrent ==
    ASSUME Known, NEW t \in Team, NEW k, k = at[t], Step(t), Current(k)
    PROVE  Begun(Loops)' = Begun(Loops) /\ \A j : Current(j)' = Current(j)
<1>1. Begun(Loops)' = Begun(Loops) \cup
         (IF pc'[t] \in {"init", "single"} THEN {} ELSE {at[t]} \cap Loops)
    BY StepFacts, Adds DEF Known
<1>2. k \in Begun(Loops)
    BY DEF Current
<1>3. Begun(Loops)' = Begun(Loops)
    BY <1>1, <1>2
<1> QED
    BY <1>3 DEF Current

\* a step that ends a construct of which nothing is left for its thread
LEMMA EndEffect ==
    ASSUME Known, NEW t \in Team, NEW k, k = at[t], Step(t), IsLoop(program[k]), EndConstruct(t),
           UNCHANGED <<ran, again>>, Rest(t, k) = {}, Future(t, k) = {},
           Pool(k) = {}, Pool(k)' = {}
    PROVE  Effect(t, k)
<1>1. Rest(t, k)' = {} /\ Future(t, k)' = {}
    BY StepFacts, Ending, Leaving DEF Known
<1>2. Draws(t, k)
    BY <1>1, Keeps DEF Owed
<1> QED
    BY <1>1, <1>2 DEF Effect

LEMMA NextAloneEffect ==
    ASSUME Known, NEW t \in Team, NEW k, k = at[t], NextAlone(t)
    PROVE  Effect(t, k)
<1>0. /\ UNCHANGED regionVars /\ k \in Construct /\ k \in Nat /\ teamSize \in Nat \ {0}
      /\ at[t] \in Nat /\ at'[t] \in Nat /\ tSchedule[t] \in Nat /\ tSchedule'[t] \in Nat
      /\ Step(t)
    BY StepFacts DEF Step
<1>1. /\ Current(k) /\ IsLoop(program[k]) /\ ~Static(k) /\ teamSize = 1 /\ pc[t] = "next"
    BY NextAloneIs
<1>2. UNCHANGED <<ran, again>>
    BY DEF NextAlone, ghostVars
<1>3. Current(k)' /\ Rest(t, k) = {} /\ Future(t, k) = {} /\ Future(t, k)' = {}
    BY <1>0, <1>1, StillCurrent, FutureNow, FutureThen DEF Rest, Holds
<1>4. CASE /\ scheduleCount = 0 /\ scheduleCount' = 1
           /\ pc'[t] = "body" /\ at' = at
           /\ \E d : Gets(t, d) /\ Has(k, d, Iteration(k))
    <2>1. Rest(t, k)' = Iteration(k)
        BY <1>0, <1>1, <1>4, RestThen DEF Gets
    <2>2. Pool(k) = Iteration(k) /\ Pool(k)' = {}
        BY <1>0, <1>1, <1>3, <1>4, PoolNow, PoolThen
    <2>3. /\ Owed(t, k)' = Owed(t, k) \cup Iteration(k)
          /\ Iteration(k) \in SUBSET Pool(k) /\ Pool(k)' = Pool(k) \ Iteration(k)
        BY <1>3, <2>1, <2>2 DEF Owed
    <2> QED
        BY <1>2, <1>3, <2>2, <2>3 DEF Effect, Draws
<1>5. CASE /\ scheduleCount # 0 /\ EndConstruct(t)
           /\ UNCHANGED <<scheduleCount, cur, tOrdered>>
    <2>1. Pool(k) = {} /\ Pool(k)' = {}
        BY <1>0, <1>1, <1>3, <1>5, PoolNow, PoolThen
    <2> QED
        BY <1>0, <1>1, <1>2, <1>3, <1>5, <2>1, EndEffect
<1> QED
    BY <1>4, <1>5, NextAloneIs

\* a step that gives its thread the next of its chunks
LEMMA DealEffect ==
    ASSUME Known, NEW t \in Team, NEW k, k = at[t], Step(t), IsLoop(program[k]), AtScheduler(k),
           Static(k), pc[t] = "next", pc'[t] = "body", at' = at, UNCHANGED <<ran, again>>,
           NEW s \in Nat, s = tSchedule[t], tSchedule' = [tSchedule EXCEPT ![t] = s + 1],
           NEW d, Gets(t, d), Has(k, d, ChunkOf(k, Number(t, s)))
    PROVE  Effect(t, k)
<1>0. /\ UNCHANGED regionVars /\ k \in Construct /\ k \in Nat /\ teamSize \in Nat \ {0}
      /\ at[t] \in Nat /\ at'[t] \in Nat /\ tSchedule[t] \in Nat /\ tSchedule'[t] \in Nat
      /\ t \in Thread /\ tSchedule'[t] = s + 1
    BY StepFacts DEF Known, TypeInv
<1>1. Rest(t, k)' = ChunkOf(k, Number(t, s)) /\ Rest(t, k) = {}
    BY <1>0, RestThen DEF Gets, Rest, Holds
<1>2. Future(t, k) = FromOn(t, k, s) /\ Future(t, k)' = FromOn(t, k, s + 1)
    BY <1>0, FutureNow, FutureThen DEF LoopLabels
<1>3. FromOn(t, k, s) = ChunkOf(k, Number(t, s)) \cup FromOn(t, k, s + 1)
    BY <1>0, DealOne
<1>4. ChunkOf(k, Number(t, s)) \cap FromOn(t, k, s + 1) = {}
    BY <1>0, ChunkApart
<1>5. Pool(k) = {} /\ Pool(k)' = {}
    BY <1>0, PoolNow, PoolThen
<1>6. Owed(t, k)' = Owed(t, k)
    BY <1>1, <1>2, <1>3 DEF Owed
<1> QED
    BY <1>1, <1>2, <1>4, <1>5, <1>6, Keeps DEF Effect

LEMMA NextEvenEffect ==
    ASSUME Known, NEW t \in Team, NEW k, k = at[t], NextEven(t)
    PROVE  Effect(t, k)
<1>0. /\ UNCHANGED regionVars /\ k \in Construct /\ k \in Nat /\ teamSize \in Nat \ {0}
      /\ at[t] \in Nat /\ at'[t] \in Nat /\ tSchedule[t] \in Nat /\ tSchedule'[t] \in Nat
      /\ Step(t)
    BY StepFacts DEF Step
<1>1. /\ Current(k) /\ IsLoop(program[k]) /\ AtScheduler(k) /\ Static(k) /\ ~InTurn(k)
      /\ pc[t] = "next"
    BY NextEvenIs
<1>2. UNCHANGED <<ran, again>>
    BY DEF NextEven, ghostVars
<1>3. /\ Rest(t, k) = {} /\ Future(t, k) = FromOn(t, k, tSchedule[t])
      /\ Pool(k) = {} /\ Pool(k)' = {}
    BY <1>0, <1>1, FutureNow, PoolNow, PoolThen DEF Rest, Holds, LoopLabels
<1>4. CASE /\ tSchedule[t] = 0 /\ tSchedule' = [tSchedule EXCEPT ![t] = 1]
           /\ pc'[t] = "body" /\ at' = at
           /\ \E d : Gets(t, d) /\ Has(k, d, ChunkOf(k, Number(t, 0)))
    <2>1. tSchedule' = [tSchedule EXCEPT ![t] = 0 + 1]
        BY <1>4
    <2> QED
        BY <1>0, <1>1, <1>2, <1>4, <2>1, DealEffect
<1>5. CASE tSchedule[t] = 0 /\ ChunkOf(k, Number(t, 0)) = {} /\ EndConstruct(t)
    <2>1. FromOn(t, k, 0) = ChunkOf(k, Number(t, 0)) \cup FromOn(t, k, 0 + 1)
        BY <1>0, <1>1, DealOne
    <2>2. FromOn(t, k, 1) = {}
        BY <1>0, <1>1, DealEven
    <2>3. Future(t, k) = {}
        BY <1>3, <1>5, <2>1, <2>2
    <2> QED
        BY <1>0, <1>1, <1>2, <1>3, <1>5, <2>3, EndEffect
<1>6. CASE tSchedule[t] # 0 /\ EndConstruct(t)
    <2>1. FromOn(t, k, tSchedule[t]) = {}
        <3>1. tSchedule[t] >= 1
            BY <1>0, <1>6
        <3> QED
            BY <1>0, <1>1, <3>1, DealEven
    <2> QED
        BY <1>0, <1>1, <1>2, <1>3, <1>6, <2>1, EndEffect
<1> QED
    BY <1>4, <1>5, <1>6, NextEvenIs

LEMMA NextStaticEffect ==
    ASSUME Known, NEW t \in Team, NEW k, k = at[t], NextStatic(t)
    PROVE  Effect(t, k)
<1>0. /\ UNCHANGED regionVars /\ k \in Construct /\ k \in Nat /\ teamSize \in Nat \ {0}
      /\ at[t] \in Nat /\ at'[t] \in Nat /\ tSchedule[t] \in Nat /\ tSchedule'[t] \in Nat
      /\ Step(t)
    BY StepFacts DEF Step
<1>1. /\ Current(k) /\ IsLoop(program[k]) /\ AtScheduler(k) /\ Static(k) /\ InTurn(k)
      /\ pc[t] = "next"
    BY NextStaticIs
<1>2. UNCHANGED <<ran, again>>
    BY DEF NextStatic, ghostVars
<1>3. /\ Rest(t, k) = {} /\ Future(t, k) = FromOn(t, k, tSchedule[t])
      /\ Pool(k) = {} /\ Pool(k)' = {}
    BY <1>0, <1>1, FutureNow, PoolNow, PoolThen DEF Rest, Holds, LoopLabels
<1>4. PICK s \in Nat : s = tSchedule[t] /\
         \/ /\ tSchedule' = [tSchedule EXCEPT ![t] = s + 1]
            /\ pc'[t] = "body" /\ at' = at
            /\ \E d : Gets(t, d) /\ Has(k, d, ChunkOf(k, Number(t, s)))
         \/ FromOn(t, k, s) = {} /\ EndConstruct(t)
    BY NextStaticIs
<1>5. CASE /\ tSchedule' = [tSchedule EXCEPT ![t] = s + 1]
           /\ pc'[t] = "body" /\ at' = at
           /\ \E d : Gets(t, d) /\ Has(k, d, ChunkOf(k, Number(t, s)))
    BY <1>0, <1>1, <1>2, <1>4, <1>5, DealEffect
<1>6. CASE FromOn(t, k, s) = {} /\ EndConstruct(t)
    BY <1>0, <1>1, <1>2, <1>3, <1>4, <1>6, EndEffect
<1> QED
    BY <1>4, <1>5, <1>6

LEMMA NextSharedEffect ==
    ASSUME Known, NEW t \in Team, NEW k, k = at[t], NextDynamic(t) \/ NextGuided(t)
    PROVE  Effect(t, k)
<1>0. /\ UNCHANGED regionVars /\ k \in Construct /\ k \in Nat /\ teamSize \in Nat \ {0}
      /\ at[t] \in Nat /\ at'[t] \in Nat /\ tSchedule[t] \in Nat /\ tSchedule'[t] \in Nat
      /\ Step(t)
    BY StepFacts DEF Step
<1>1. /\ Current(k) /\ IsLoop(program[k]) /\ ~Static(k) /\ teamSize > 1 /\ pc[t] = "next"
      /\ Shares(t, k)
    BY NextSharedIs
<1>2. UNCHANGED <<ran, again>>
    BY DEF NextDynamic, NextGuided, ghostVars
<1>3. Current(k)' /\ Rest(t, k) = {} /\ Future(t, k) = {} /\ Future(t, k)' = {}
    BY <1>0, <1>1, StillCurrent, FutureNow, FutureThen DEF Rest, Holds
<1>4. /\ Pool(k) = {i \in Iteration(k) : ~Past(loopLower, Value(k, i), program[k].incr)}
      /\ Pool(k)' = {i \in Iteration(k) : ~Past(loopLower', Value(k, i), program[k].incr)}
    BY <1>0, <1>1, <1>3, PoolNow, PoolThen
<1>5. ASSUME NEW a \in Iteration(k), NEW b \in Nat, a < b, loopLower = Value(k, a),
             loopLower' = Value(k, b), pc'[t] = "body", at' = at,
             NEW d, Gets(t, d), Has(k, d, Between(k, a, b))
      PROVE  Effect(t, k)
    <2>1. Rest(t, k)' = Between(k, a, b)
        BY <1>0, <1>1, <1>5, RestThen DEF Gets
    <2>2. a \in Int /\ b \in Int /\ \A i \in Iteration(k) : i \in Int
        BY <1>1, <1>5, ValueLimit DEF Iteration
    <2>3. \A i \in Iteration(k) : /\ Past(Value(k, a), Value(k, i), program[k].incr) <=> i < a
                                  /\ Past(Value(k, b), Value(k, i), program[k].incr) <=> i < b
        <3> SUFFICES ASSUME NEW i \in Iteration(k)
                     PROVE  /\ Past(Value(k, a), Value(k, i), program[k].incr) <=> i < a
                            /\ Past(Value(k, b), Value(k, i), program[k].incr) <=> i < b
            OBVIOUS
        <3>1. IsLoop(program[k]) /\ a \in Int /\ b \in Int /\ i \in Int
            BY <1>1, <2>2
        <3> QED
            BY <3>1, ValueOrder
    <2>4. /\ Pool(k) = {i \in Iteration(k) : ~(i < a)}
          /\ Pool(k)' = {i \in Iteration(k) : ~(i < b)}
        BY <1>4, <1>5, <2>3
    <2>5. /\ Between(k, a, b) \in SUBSET Pool(k) /\ Pool(k)' = Pool(k) \ Between(k, a, b)
        BY <1>5, <2>2, <2>4 DEF Between
    <2>6. Owed(t, k)' = Owed(t, k) \cup Between(k, a, b)
        BY <1>3, <2>1 DEF Owed
    <2>7. ~(at'[t] > k) /\ pc'[t] # "barrier"
        BY <1>0, <1>5
    <2> QED
        BY <1>2, <1>3, <2>5, <2>6, <2>7 DEF Effect, Draws
<1>6. ASSUME Past(loopLower, program[k].upper, program[k].incr), EndConstruct(t),
             loopLower' = loopLower
      PROVE  Effect(t, k)
    <2>1. \A i \in Iteration(k) : Past(loopLower, Value(k, i), program[k].incr)
        <3> SUFFICES ASSUME NEW i \in Iteration(k)
                     PROVE  Past(loopLower, Value(k, i), program[k].incr)
            OBVIOUS
        <3>1. IsLoop(program[k]) /\ i \in Nat /\ i \in Int /\ ~(i >= Trip(k))
            BY <1>1, ValueLimit DEF Iteration
        <3>2. Value(k, i) \in Int /\ ~Past(Value(k, i), program[k].upper, program[k].incr)
            BY <3>1, ValueLimit, ValueMoves
        <3>3. /\ loopLower \in Int /\ program[k].upper \in Int /\ program[k].incr \in Int
              /\ program[k].incr # 0
            BY <1>1, LoopFields DEF Known, TypeInv
        <3> QED
            BY <1>6, <3>2, <3>3 DEF Past
    <2>2. Pool(k) = {} /\ Pool(k)' = {}
        BY <1>4, <1>6, <2>1
    <2> QED
        BY <1>0, <1>1, <1>2, <1>3, <1>6, <2>2, EndEffect
<1> QED
    BY <1>1, <1>5, <1>6 DEF Shares

\* what a thread is still to be given, while it stays in a loop
LEMMA SameFuture ==
    ASSUME UNCHANGED regionVars, NEW t, NEW k, at'[t] = at[t],
           pc[t] \in LoopLabels, pc'[t] \in LoopLabels, tSchedule'[t] = tSchedule[t],
           cur'[t].stride = cur[t].stride, cur'[t].from = cur[t].from
    PROVE  Future(t, k)' = Future(t, k)
<1>1. /\ Iteration(k)' = Iteration(k) /\ \A i : Value(k, i)' = Value(k, i)
      /\ Trip(k)' = Trip(k) /\ Static(k)' = Static(k) /\ AtScheduler(k)' = AtScheduler(k)
      /\ program' = program
      /\ \A q, i : InChunk(k, q, i)' = InChunk(k, q, i)
      /\ \A q : Start(k, q)' = Start(k, q)
      /\ \A s : Number(t, s)' = Number(t, s)
    BY SameProgram
<1>2. Started(t, k)' = Started(t, k)
    BY DEF Started, LoopLabels
<1>3. \A s : Later(t, k, s)' = Later(t, k, s)
    BY <1>1, <1>2 DEF Later, Past
<1> QED
    BY <1>1, <1>3 DEF Future

\* what is in the pools, while a thread works on what it has
LEMMA SamePools ==
    ASSUME Known, NEW t \in Team, Step(t), pc[t] \in {"next", "body", "endOrdered", "barrier"},
           UNCHANGED <<loopLower, scheduleCount>>
    PROVE  /\ Begun(Loops)' = Begun(Loops)
           /\ \A k : Pool(k)' = Pool(k) /\ Current(k)' = Current(k)
<1>1. UNCHANGED regionVars
    BY StepControl DEF Known
<1>2. Begun(Loops)' = Begun(Loops) \cup
         (IF pc'[t] \in {"init", "single"} THEN {} ELSE {at[t]} \cap Loops)
    BY StepControl, Adds DEF Known
<1>3. \A k \in {at[t]} \cap Loops : k \in Begun(Loops)
    BY DEF Begun, Chosen
<1>4. Begun(Loops)' = Begun(Loops)
    BY <1>2, <1>3
<1> QED
    BY <1>1, <1>4, PoolSame

LEMMA AdvanceEffect ==
    ASSUME Known, ShareInv, NEW t \in Team, NEW k, k = at[t], Iterate(t) \/ EnterOrdered(t)
    PROVE  Effect(t, k)
<1>0. /\ UNCHANGED regionVars /\ k \in Construct /\ k \in Nat /\ at[t] \in Nat /\ Step(t)
    BY StepFacts DEF Step
<1>1. /\ IsLoop(program[k]) /\ pc[t] = "body" /\ at' = at /\ pc'[t] \in {"body", "endOrdered"}
      /\ UNCHANGED <<loopLower, scheduleCount, orderedCount, tSchedule, tOrdered, tRest>>
    BY AdvanceIs
<1>2. PICK i \in Rest(t, k), d \in Records :
         /\ Execute(t, Value(k, i)) /\ Gets(t, d) /\ Has(k, d, Rest(t, k) \ {i})
         /\ d.from = cur[t].from /\ d.stride = cur[t].stride
    BY AdvanceIs
<1>3. Rest(t, k)' = Rest(t, k) \ {i}
    BY <1>0, <1>1, <1>2, RestThen DEF Gets
<1>4. Future(t, k)' = Future(t, k)
    BY <1>0, <1>1, <1>2, SameFuture DEF Gets, LoopLabels
<1>5. Pool(k)' = Pool(k)
    BY <1>0, <1>1, SamePools
<1>6. Rest(t, k) \cap Future(t, k) = {}
    BY <1>0, <1>1 DEF ShareInv
<1>7. i \in Owed(t, k) /\ Owed(t, k)' = Owed(t, k) \ {i}
    BY <1>2, <1>3, <1>4, <1>6 DEF Owed
<1>8. ~(at'[t] > k) /\ pc'[t] # "barrier"
    BY <1>0, <1>1
<1> QED
    BY <1>2, <1>3, <1>4, <1>5, <1>6, <1>7, <1>8 DEF Effect, Does

\* what EndOrdered does
LEMMA EndOrderedIs ==
    ASSUME Known, NEW t \in Team, NEW k, k = at[t], EndOrdered(t)
    PROVE  /\ IsLoop(program[k]) /\ k \in Loops /\ AtScheduler(k) /\ pc[t] = "endOrdered"
           /\ pc'[t] = "body" /\ at' = at /\ program[k].ordered
           /\ tRest[t] - 1 \in Int /\ tRest' = [tRest EXCEPT ![t] = tRest[t] - 1]
           /\ orderedCount' = IF tRest[t] - 1 > 0 \/ teamSize = 1
                              THEN orderedCount ELSE orderedCount + 1
           /\ UNCHANGED <<loopLower, scheduleCount, tOrdered, tSchedule, cur, ran, again>>
<1>0. t \in Thread /\ DOMAIN pc = Thread /\ k \in Construct
    BY StepFacts DEF Step
<1>1. pc[t] = "endOrdered"
    BY DEF EndOrdered
<1>2. IsLoop(program[k]) /\ AtScheduler(k) /\ k \in Loops /\ program[k].ordered
    BY <1>0, <1>1 DEF Known, PlaceInv, LoopLabels, Loops
<1>3. tRest \in [Thread -> Int] /\ tRest[t] - 1 \in Int
    BY <1>0 DEF Known, TypeInv
<1> QED
    BY <1>0, <1>1, <1>2, <1>3 DEF EndOrdered, Goto, boundVars, ghostVars

LEMMA EndOrderedEffect ==
    ASSUME Known, ShareInv, NEW t \in Team, NEW k, k = at[t], EndOrdered(t)
    PROVE  Effect(t, k)
<1>0. /\ UNCHANGED regionVars /\ k \in Construct /\ k \in Nat /\ at[t] \in Nat /\ Step(t)
    BY StepFacts DEF Step
<1>1. /\ IsLoop(program[k]) /\ pc[t] = "endOrdered" /\ pc'[t] = "body" /\ at' = at
      /\ UNCHANGED <<loopLower, scheduleCount, tSchedule, cur, ran, again>>
    BY EndOrderedIs
<1>2. Future(t, k)' = Future(t, k)
    BY <1>0, <1>1, SameFuture DEF LoopLabels
<1>3. Rest(t, k)' = Rest(t, k)
    <2>1. /\ Iteration(k)' = Iteration(k) /\ \A i : Value(k, i)' = Value(k, i)
          /\ program' = program
        BY <1>0, SameProgram
    <2> QED
        BY <1>1, <2>1 DEF Rest, Holds, Past
<1>4. Pool(k)' = Pool(k)
    BY <1>0, <1>1, SamePools
<1>5. Rest(t, k) \cap Future(t, k) = {}
    BY <1>0, <1>1 DEF ShareInv
<1>6. Draws(t, k)
    BY <1>1, <1>2, <1>3, <1>4, Keeps DEF Owed
<1>7. ~(at'[t] > k) /\ pc'[t] # "barrier"
    BY <1>0, <1>1
<1> QED
    BY <1>2, <1>3, <1>5, <1>6, <1>7 DEF Effect

LEMMA ChunkDoneEffect ==
    ASSUME Known, NEW t \in Team, NEW k, k = at[t], ChunkDone(t)
    PROVE  Effect(t, k)
<1>0. /\ UNCHANGED regionVars /\ k \in Construct /\ k \in Nat /\ at[t] \in Nat /\ Step(t)
      /\ teamSize \in Nat \ {0} /\ tSchedule[t] \in Nat /\ tSchedule' \in [Thread -> Nat]
    BY StepFacts DEF Step
<1>1. /\ IsLoop(program[k]) /\ pc[t] = "body" /\ Rest(t, k) = {} /\ pc[t] \in LoopLabels
      /\ UNCHANGED <<loopLower, scheduleCount, orderedCount, tSchedule, tOrdered, tRest>>
    BY ChunkDoneIs DEF LoopLabels
<1>2. UNCHANGED <<ran, again>>
    BY DEF ChunkDone, ghostVars
<1>3. ~AtScheduler(k) => Pool(k) = {} /\ Pool(k)' = {}
    <2>1. ~AtScheduler(k) => Static(k)
        BY <1>1 DEF AtScheduler, Static, Shared, AtRuntime
    <2> QED
        BY <1>0, <2>1, PoolNow, PoolThen
<1>4. CASE AtScheduler(k) /\ pc'[t] = "next" /\ at' = at /\ cur' = cur
    <2>1. Future(t, k)' = Future(t, k)
        BY <1>0, <1>1, <1>4, SameFuture DEF LoopLabels
    <2>2. Rest(t, k)' = {}
        BY <1>0, <1>1, <1>4, RestThen
    <2>3. Pool(k)' = Pool(k)
        BY <1>0, <1>1, SamePools
    <2>4. Draws(t, k)
        BY <1>1, <1>2, <2>1, <2>2, <2>3, Keeps DEF Owed
    <2>5. ~(at'[t] > k) /\ pc'[t] # "barrier"
        BY <1>0, <1>4
    <2> QED
        BY <2>2, <2>4, <2>5 DEF Effect
<1>5. ASSUME ~AtScheduler(k), pc'[t] = "body", at' = at,
             NEW s \in Nat, Strided(t, k, s), Strided(t, k, s + 1)',
             NEW d, Gets(t, d), Has(k, d, ChunkOf(k, Number(t, s + 1)))
      PROVE  Effect(t, k)
    <2>1. PICK x \in Nat : x = s + 1
        OBVIOUS
    <2>2. Strided(t, k, x)' /\ Has(k, d, ChunkOf(k, Number(t, x)))
        BY <1>5, <2>1
    <2>3. Future(t, k) = FromOn(t, k, x)
        BY <1>0, <1>1, <1>5, <2>1, StridedNow
    <2>4. Future(t, k)' = FromOn(t, k, x + 1)
        BY <1>0, <1>1, <1>5, <2>2, StridedThen
    <2>5. Rest(t, k)' = ChunkOf(k, Number(t, x))
        BY <1>0, <1>1, <1>5, <2>2, RestThen DEF Gets
    <2>6. FromOn(t, k, x) = ChunkOf(k, Number(t, x)) \cup FromOn(t, k, x + 1)
        BY <1>0, <1>1, DealOne
    <2>7. ChunkOf(k, Number(t, x)) \cap FromOn(t, k, x + 1) = {}
        BY <1>0, <1>1, ChunkApart
    <2>8. Owed(t, k)' = Owed(t, k)
        BY <1>1, <2>3, <2>4, <2>5, <2>6 DEF Owed
    <2> QED
        BY <1>2, <1>3, <1>5, <2>4, <2>5, <2>7, <2>8, Keeps DEF Effect
<1>6. CASE ~AtScheduler(k) /\ EndConstruct(t) /\ cur[t].stride = 0
    <2>1. Future(t, k) = {}
        BY <1>0, <1>1, <1>6, FutureNow
    <2> QED
        BY <1>0, <1>1, <1>2, <1>3, <1>6, <2>1, EndEffect
<1>7. ASSUME ~AtScheduler(k), EndConstruct(t), NEW s \in Nat, Strided(t, k, s),
             FromOn(t, k, s + 1) = {}
      PROVE  Effect(t, k)
    <2>1. Future(t, k) = {}
        BY <1>0, <1>1, <1>7, StridedNow
    <2> QED
        BY <1>0, <1>1, <1>2, <1>3, <1>7, <2>1, EndEffect
<1> QED
    BY <1>4, <1>5, <1>6, <1>7, ChunkDoneIs

LEMMA BarrierEffect ==
    ASSUME Known, ShareInv, NEW t \in Team, NEW k, k = at[t], Barrier(t), IsLoop(program[k])
    PROVE  Effect(t, k)
<1>0. /\ UNCHANGED regionVars /\ k \in Construct /\ k \in Nat /\ at[t] \in Nat /\ Step(t)
      /\ teamSize \in Nat \ {0} /\ tSchedule[t] \in Nat /\ tSchedule'[t] \in Nat
      /\ at'[t] \in Nat /\ DOMAIN at = Thread /\ t \in Thread
    BY StepFacts DEF Step, Known, PlaceInv
<1>1. /\ pc[t] = "barrier" /\ Proceed(t)
      /\ UNCHANGED <<loopLower, scheduleCount, ran, again>>
    BY DEF Barrier, boundVars, countVars, ghostVars
<1>2. Rest(t, k) = {} /\ Future(t, k) = {}
    <2>1. Started(t, k) /\ pc[t] \notin LoopLabels
        BY <1>1 DEF Started, LoopLabels
    <2> QED
        BY <1>0, <1>1, <2>1, FutureNow DEF Rest, Holds
<1>3. Pool(k) = {} /\ Pool(k)' = {}
    <2>1. Pool(k)' = Pool(k)
        BY <1>0, <1>1, SamePools
    <2> QED
        BY <1>0, <1>1, <2>1 DEF ShareInv
<1>4. at'[t] > k
    <2>1. at'[t] = at[t] + 1
        BY <1>0, <1>1 DEF Proceed
    <2> QED
        BY <1>0, <2>1
<1>5. Rest(t, k)' = {} /\ Future(t, k)' = {}
    BY <1>0, <1>4, Leaving
<1>6. Draws(t, k)
    BY <1>1, <1>2, <1>3, <1>5, Keeps DEF Owed
<1> QED
    BY <1>3, <1>5, <1>6 DEF Effect

\* What a step at a loop does with its iterations.
LEMMA LoopEffect ==
    ASSUME Known, ShareInv, NEW t \in Team, NEW k, k = at[t], Step(t), IsLoop(program[k])
    PROVE  Effect(t, k)
<1>1. Here(t).kind = "loop" /\ ~IsSingle(program[at[t]]) /\ k \in Construct
    BY StepFacts, Kinds
<1>2. ~(CountSingle(t) \/ EnterSingle(t) \/ SingleEnd(t) \/ Publish(t) \/ Published(t) \/ Copy(t))
    <2>1. pc[t] \notin {"single", "singleEnd"} \cup CopyLabels
        BY <1>1 DEF Known, PlaceInv
    <2> QED
        BY <1>1, <2>1 DEF CountSingle, EnterSingle, SingleEnd, Publish, Published, Copy, AtSingle,
                          CopyLabels
<1> QED
    BY <1>2, StaticInitEffect, CountLoopEffect, InitTeamEffect, NextAloneEffect, NextEvenEffect,
       NextStaticEffect, NextSharedEffect, AdvanceEffect, EndOrderedEffect, ChunkDoneEffect,
       BarrierEffect DEF Step

-----------------------------------------------------------------------------
(* Every iteration is executed, owed or in the pool *)

Divided(k) ==
    /\ RanAt(k) \subseteq Work(k)
    /\ \A i \in Iteration(k) :
          Value(k, i) \in RanAt(k) <=> i \notin Pool(k) /\ \A t \in Team : i \notin Owed(t, k)
    /\ \A t, u \in Team : t # u => Owed(t, k) \cap Owed(u, k) = {}
    /\ \A t \in Team : Rest(t, k) \cap Future(t, k) = {}
    /\ \A t \in Team : Owed(t, k) \cap Pool(k) = {}
    /\ \A t \in Team : at[t] > k \/ (at[t] = k /\ pc[t] = "barrier") => Pool(k) = {}

\* only the thread that moves gets to where nothing may be in the pool
LEMMA Passing ==
    ASSUME Known, NEW t \in Team, Step(t), NEW u \in Team, NEW k \in Construct,
           at'[u] > k \/ (at'[u] = k /\ pc'[u] = "barrier")
    PROVE  at[u] > k \/ (at[u] = k /\ pc[u] = "barrier") \/ (u = t /\ k = at[t])
<1>0. /\ Control(t) /\ pc[t] # "idle" /\ t \in Thread /\ u \in Thread /\ k \in Nat
      /\ at \in [Thread -> Nat]
    BY StepFacts, Basics DEF Known, PlaceInv
<1>1. /\ \A x \in Thread \ {t} : at'[x] = at[x] /\ pc'[x] = pc[x]
      /\ at' = at \/ (at'[t] = at[t] + 1 /\ pc'[t] \in {"work", "idle"})
    BY <1>0, Motion DEF Known
<1>2. CASE u # t
    BY <1>0, <1>1, <1>2
<1>3. CASE u = t
    <2>1. CASE at' = at
        BY <1>0, <1>3, <2>1
    <2>2. CASE at'[t] = at[t] + 1 /\ pc'[t] \in {"work", "idle"}
        <3>1. at[t] + 1 > k /\ at[t] \in Nat
            BY <1>0, <1>3, <2>2
        <3>2. at[t] > k \/ at[t] = k
            BY <1>0, <3>1
        <3> QED
            BY <1>3, <3>2
    <2> QED
        BY <1>1, <2>1, <2>2
<1> QED
    BY <1>2, <1>3

\* a loop at which the step is not
LEMMA DividedElsewhere ==
    ASSUME Known, ShareInv, NEW t \in Team, Step(t), NEW k \in Construct, IsLoop(program[k]),
           k # at[t], RanAt(k)' = RanAt(k)
    PROVE  Divided(k)'
<1>1. /\ Iteration(k)' = Iteration(k) /\ Work(k)' = Work(k) /\ Team' = Team
      /\ \A i : Value(k, i)' = Value(k, i)
    BY StepFacts, SameProgram
<1>2. Pool(k)' = Pool(k)
    BY PoolElsewhere
<1>3. \A u \in Team : Rest(u, k)' = Rest(u, k) /\ Future(u, k)' = Future(u, k)
    BY Elsewhere
<1>4. \A u \in Team : Owed(u, k)' = Owed(u, k)
    BY <1>3 DEF Owed
<1>5. Divided(k)
    BY DEF ShareInv, Divided
<1>6. ASSUME NEW u \in Team, at'[u] > k \/ (at'[u] = k /\ pc'[u] = "barrier")
      PROVE  Pool(k) = {}
    BY <1>5, <1>6, Passing DEF Divided
<1> QED
    BY <1>1, <1>2, <1>3, <1>4, <1>5, <1>6 DEF Divided

\* the loop at which it is
LEMMA DividedHere ==
    ASSUME Known, ShareInv, NEW t \in Team, NEW k, k = at[t], Step(t), IsLoop(program[k])
    PROVE  Divided(k)' /\ again' = {} /\ \A j \in Construct : j # k => RanAt(j)' = RanAt(j)
<1>0. /\ k \in Construct /\ Divided(k) /\ Effect(t, k) /\ again = {}
    BY StepFacts, LoopEffect DEF ShareInv, Divided
<1>1. /\ Iteration(k)' = Iteration(k) /\ Work(k)' = Work(k) /\ Team' = Team
      /\ \A i : Value(k, i)' = Value(k, i)
    BY StepFacts, SameProgram
<1>2. \A u \in Team \ {t} : Rest(u, k)' = Rest(u, k) /\ Future(u, k)' = Future(u, k)
    BY <1>0, Elsewhere
<1>3. \A u \in Team \ {t} : Owed(u, k)' = Owed(u, k)
    BY <1>2 DEF Owed
<1>4. \A u \in Team : Rest(u, k)' \cap Future(u, k)' = {}
    BY <1>0, <1>2 DEF Divided, Effect
<1>5. Pool(k)' \subseteq Pool(k)
    BY <1>0 DEF Effect, Draws, Does
<1>6. \A u \in Team : at'[u] > k \/ (at'[u] = k /\ pc'[u] = "barrier") => Pool(k)' = {}
    <2> SUFFICES ASSUME NEW u \in Team, at'[u] > k \/ (at'[u] = k /\ pc'[u] = "barrier")
                 PROVE  Pool(k)' = {}
        OBVIOUS
    <2>1. CASE u = t
        BY <1>0, <2>1 DEF Effect
    <2>2. CASE u # t
        <3>1. at[u] > k \/ (at[u] = k /\ pc[u] = "barrier")
            BY <1>0, <2>2, Passing
        <3> QED
            BY <1>0, <1>5, <3>1 DEF Divided
    <2> QED
        BY <2>1, <2>2
<1>7. CASE Draws(t, k)
    <2>1. PICK R \in SUBSET Pool(k) : Owed(t, k)' = Owed(t, k) \cup R /\ Pool(k)' = Pool(k) \ R
        BY <1>7 DEF Draws
    <2>2. again' = {} /\ \A j : RanAt(j)' = RanAt(j)
        BY <1>0, <1>7 DEF Draws, RanAt
    <2>3. \A i \in Iteration(k) :
             Value(k, i) \in RanAt(k) <=> i \notin Pool(k)' /\ \A u \in Team : i \notin Owed(u, k)'
        BY <1>0, <1>3, <2>1 DEF Divided
    <2>4. \A u, v \in Team : u # v => Owed(u, k)' \cap Owed(v, k)' = {}
        BY <1>0, <1>3, <2>1 DEF Divided
    <2>5. \A u \in Team : Owed(u, k)' \cap Pool(k)' = {}
        BY <1>0, <1>3, <2>1 DEF Divided
    <2> QED
        BY <1>0, <1>1, <1>4, <1>6, <2>2, <2>3, <2>4, <2>5 DEF Divided
<1>8. CASE Does(t, k)
    <2>1. PICK i \in Owed(t, k) : Execute(t, Value(k, i)) /\ Owed(t, k)' = Owed(t, k) \ {i}
        BY <1>8 DEF Does
    <2>2. Pool(k)' = Pool(k)
        BY <1>8 DEF Does
    <2>3. i \in Iteration(k)
        BY DEF Owed, Rest, Future
    <2>4. Value(k, i) \notin RanAt(k)
        BY <1>0, <2>3 DEF Divided
    <2>5. again' = {}
        <3>1. <<at[t], Value(k, i)>> \notin ran
            BY <1>0, <2>4, RanAtIs DEF Known
        <3> QED
            BY <1>0, <2>1, <3>1 DEF Execute
    <2>6. RanAt(k)' = RanAt(k) \cup {Value(k, i)} /\ \A j \in Construct : j # k => RanAt(j)' = RanAt(j)
        BY <1>0, <2>1, RanGrows DEF Known
    <2>7. \A j \in Iteration(k) : Value(k, j) = Value(k, i) <=> j = i
        <3> SUFFICES ASSUME NEW j \in Iteration(k) PROVE Value(k, j) = Value(k, i) <=> j = i
            OBVIOUS
        <3>1. IsLoop(program[k]) /\ i \in Int /\ j \in Int
            BY <2>3, ValueLimit DEF Iteration
        <3> QED
            BY <3>1, ValueOrder
    <2>8. \A j \in Iteration(k) :
             Value(k, j) \in RanAt(k) \cup {Value(k, i)}
                <=> j \notin Pool(k) /\ \A u \in Team : j \notin Owed(u, k)'
        BY <1>0, <1>3, <2>1, <2>7 DEF Divided
    <2>9. \A u, v \in Team : u # v => Owed(u, k)' \cap Owed(v, k)' = {}
        BY <1>0, <1>3, <2>1 DEF Divided
    <2>10. \A u \in Team : Owed(u, k)' \cap Pool(k) = {}
        BY <1>0, <1>3, <2>1 DEF Divided
    <2>11. RanAt(k) \cup {Value(k, i)} \subseteq Work(k)
        BY <1>0, <2>3 DEF Divided, Work
    <2> QED
        BY <1>0, <1>1, <1>4, <1>6, <2>2, <2>5, <2>6, <2>8, <2>9, <2>10, <2>11 DEF Divided
<1> QED
    BY <1>0, <1>7, <1>8 DEF Effect

\* a step at a single that executes nothing
LEMMA QuietSingle ==
    ASSUME Known, NEW t \in Team, Step(t), IsSingle(program[at[t]]), ~Runs(t)
    PROVE  ran' = ran /\ again' = again
<1>0. /\ pc[t] # "idle" /\ Here(t) = program[at[t]] /\ teamSize \in Nat \ {0}
    BY StepFacts
<1>1. /\ Here(t).kind = "single" /\ pc[t] \notin LoopLabels
    BY <1>0, Kinds DEF Known, PlaceInv, LoopLabels, CopyLabels
<1>2. Here(t).kind # "loop" /\ pc[t] # "next" /\ pc[t] # "init" /\ pc[t] # "endOrdered"
    BY <1>1 DEF LoopLabels
<1>3. \/ CountSingle(t) \/ EnterSingle(t) \/ SingleEnd(t) \/ Publish(t) \/ Published(t) \/ Copy(t)
      \/ Barrier(t)
    BY <1>2 DEF Step, StaticInit, AtStatic, CountLoop, AtScheduled, AtLoop, InitTeam, NextAlone,
        NextEven, NextStatic, NextDynamic, NextGuided, Scheduled, Iterate, EnterOrdered, EndOrdered,
        ChunkDone
<1> QED
    BY <1>3, RunsFirst DEF Known, Runs, CountSingle, EnterSingle, SingleEnd, Publish, Published,
        Copy, Barrier, ghostVars

\* A step at a single executes nothing of another construct, and nothing twice.
LEMMA SingleElsewhere ==
    ASSUME Known, SingleInv, ShareInv, NEW t \in Team, Step(t), NEW k, k = at[t],
           ~IsLoop(program[k])
    PROVE  again' = {} /\ \A j \in Construct : j # k => RanAt(j)' = RanAt(j)
<1>1. k \in Construct /\ IsSingle(program[k]) /\ k \in Singles
    BY StepFacts, Basics DEF Known, Singles
<1>2. CASE Runs(t)
    <2>1. k \notin Begun(Singles) /\ Execute(t, t)
        BY <1>2, RunsFirst DEF Known, RunSingle
    <2>2. RanAt(k) = {}
        BY <1>1, <2>1 DEF SingleInv
    <2>3. <<at[t], t>> \notin ran
        BY <1>1, <2>2, RanAtIs DEF Known
    <2>4. again' = {}
        BY <2>1, <2>3 DEF Execute, ShareInv
    <2>5. \A j \in Construct : j # k => RanAt(j)' = RanAt(j)
        BY <2>1, RanGrows DEF Known
    <2> QED
        BY <2>4, <2>5
<1>3. CASE ~Runs(t)
    <2>1. ran' = ran /\ again' = again
        BY <1>1, <1>3, QuietSingle
    <2> QED
        BY <2>1 DEF RanAt, ShareInv
<1> QED
    BY <1>2, <1>3

LEMMA ShareStep ==
    ASSUME Known, SingleInv, ShareInv, NEW t \in Team, Step(t)
    PROVE  ShareInv'
<1>0. PICK k \in Construct : k = at[t]
    BY StepFacts
<1>1. Construct' = Construct /\ program' = program
    BY StepFacts, SameProgram
<1>2. CASE IsLoop(program[k])
    <2>1. Divided(k)' /\ again' = {} /\ \A j \in Construct : j # k => RanAt(j)' = RanAt(j)
        BY <1>0, <1>2, DividedHere
    <2>2. \A j \in Construct : j # k /\ IsLoop(program[j]) => Divided(j)'
        BY <1>0, <2>1, DividedElsewhere
    <2>3. \A j \in Construct : IsLoop(program[j]) => Divided(j)'
        BY <2>1, <2>2
    <2> QED
        BY <1>1, <2>1, <2>3 DEF ShareInv, Divided
<1>3. CASE ~IsLoop(program[k])
    <2>1. again' = {} /\ \A j \in Construct : j # k => RanAt(j)' = RanAt(j)
        BY <1>0, <1>3, SingleElsewhere
    <2>2. \A j \in Construct : IsLoop(program[j]) => Divided(j)'
        BY <1>0, <1>3, <2>1, DividedElsewhere
    <2> QED
        BY <1>1, <2>1, <2>2 DEF ShareInv, Divided
<1> QED
    BY <1>2, <1>3

-----------------------------------------------------------------------------
(* The bounds in the team *)

LEMMA CurrentOnce ==
    ASSUME PlaceInv, NEW j, NEW k, Current(j), Current(k)
    PROVE  j = k
<1>1. /\ j \in Begun(Loops) /\ k \in Begun(Loops) /\ j <= k /\ k <= j
    BY DEF Current
<1>2. j \in Nat /\ k \in Nat
    BY <1>1, Basics DEF Begun, Loops
<1> QED
    BY <1>1, <1>2

\* those of loop k
BoundsFor(k) ==
    /\ loopUpper = program[k].upper
    /\ ~program[k].collapsed => loopIncr = program[k].incr
    /\ teamSize > 1 => schedType = <<program[k].sched, program[k].ordered>>
                       /\ chunkSize = program[k].chunk
    /\ teamSize = 1 \/ ~Shared(k) => loopLower = program[k].lower
    /\ teamSize > 1 /\ Shared(k) => \/ Past(loopLower, program[k].upper, program[k].incr)
                                     \/ \E i \in Iteration(k) : loopLower = Value(k, i)

\* The first thread of a team at a loop, or the only one, sets its bounds.
LEMMA BoundsSet ==
    ASSUME Known, UNCHANGED regionVars, NEW k \in Loops, SetBounds(program[k]),
           teamSize > 1 => schedType' = <<program[k].sched, program[k].ordered>>
                           /\ chunkSize' = program[k].chunk
    PROVE  BoundsFor(k)'
<1>0. IsLoop(program[k])
    BY DEF Loops, AtScheduler
<1>1. /\ program' = program /\ teamSize' = teamSize /\ Shared(k)' = Shared(k)
      /\ Iteration(k)' = Iteration(k) /\ \A i : Value(k, i)' = Value(k, i)
    BY SameProgram
<1>2. /\ loopLower' = program[k].lower /\ loopUpper' = program[k].upper
      /\ ~program[k].collapsed => loopIncr' = program[k].incr
    BY DEF SetBounds
<1>3. \/ Past(program[k].lower, program[k].upper, program[k].incr)
      \/ \E i \in Iteration(k) : program[k].lower = Value(k, i)
    <2> SUFFICES ASSUME ~Past(program[k].lower, program[k].upper, program[k].incr)
                 PROVE  \E i \in Iteration(k) : program[k].lower = Value(k, i)
        OBVIOUS
    <2>1. Trip(k) \in Nat /\ Trip(k) > 0
        BY <1>0, ValueLimit
    <2>2. 0 \in Iteration(k)
        BY <2>1 DEF Iteration
    <2>3. program[k].lower = Value(k, 0)
        BY <1>0, LoopFields DEF Value
    <2> QED
        BY <2>2, <2>3
<1> QED
    BY <1>1, <1>2, <1>3 DEF BoundsFor, Past

LEMMA BoundsStep ==
    ASSUME Known, NEW t \in Team, Step(t)
    PROVE  BoundsInv'
<1>0. /\ UNCHANGED regionVars /\ at[t] \in Construct /\ Here(t) = program[at[t]]
      /\ pc[t] # "idle"
    BY StepFacts
<1>1. /\ program' = program /\ teamSize' = teamSize /\ Construct' = Construct
      /\ \A k : /\ Shared(k)' = Shared(k) /\ Iteration(k)' = Iteration(k)
                /\ \A i : Value(k, i)' = Value(k, i)
    BY <1>0, SameProgram
<1> SUFFICES \A k \in Construct : Current(k)' => BoundsFor(k)'
    BY <1>1 DEF BoundsInv, BoundsFor
<1>2. \A k \in Construct : Current(k) => BoundsFor(k)
    BY DEF Known, BoundsInv, BoundsFor
<1>3. ASSUME UNCHANGED boundVars, \A k : Current(k)' = Current(k)
      PROVE  \A k \in Construct : Current(k)' => BoundsFor(k)'
    <2> SUFFICES ASSUME NEW k \in Construct, Current(k) PROVE BoundsFor(k)'
        BY <1>3
    <2>1. BoundsFor(k)
        BY <1>2
    <2> QED
        BY <1>1, <1>3, <2>1 DEF BoundsFor, boundVars, Past
<1>4. ASSUME Begun(Loops)' = Begun(Loops), UNCHANGED boundVars
      PROVE  \A k \in Construct : Current(k)' => BoundsFor(k)'
    BY <1>3, <1>4 DEF Current
<1>5. Begun(Loops)' = Begun(Loops) \cup
         (IF pc'[t] \in {"init", "single"} THEN {} ELSE {at[t]} \cap Loops)
    BY StepFacts, Adds DEF Known
<1>6. at[t] \notin Loops \/ pc[t] \notin {"work", "init", "single"} => Begun(Loops)' = Begun(Loops)
    <2>1. at[t] \in Loops /\ pc[t] \notin {"work", "init", "single"} => at[t] \in Begun(Loops)
        BY DEF Begun, Chosen
    <2> QED
        BY <1>5, <2>1
<1>7. CASE StaticInit(t)
    <2>1. at[t] \notin Loops /\ UNCHANGED boundVars
        BY <1>7, StaticInitIs DEF Loops, StaticInit
    <2> QED
        BY <1>4, <1>6, <2>1
<1>8. CASE CountLoop(t)
    <2>1. CASE teamSize = 1 /\ SetBounds(program[at[t]]) /\ Begun(Loops)' = Begun(Loops) \cup {at[t]}
        <3>1. PICK k \in Loops : k = at[t]
            BY <1>8, CountLoopIs
        <3>2. pc[t] = "work" /\ ~(teamSize > 1)
            BY <1>8, <2>1, CountLoopIs
        <3>3. \A j : Current(j)' <=> j = k
            BY <2>1, <3>1, <3>2, Latest
        <3>4. BoundsFor(k)'
            BY <1>0, <2>1, <3>1, <3>2, BoundsSet
        <3> QED
            BY <3>3, <3>4
    <2>2. CASE /\ UNCHANGED <<loopLower, loopUpper, loopIncr, scheduleCount, orderedCount>>
               /\ Begun(Loops)' = Begun(Loops)
        BY <1>4, <1>8, <2>2, CountLoopIs DEF boundVars
    <2> QED
        BY <1>8, <2>1, <2>2, CountLoopIs
<1>9. CASE InitTeam(t)
    <2>1. CASE loopCount >= tLoop[t]
        <3>1. Begun(Loops)' = Begun(Loops) /\ UNCHANGED boundVars
            <4>1. Begun(Loops)' = Begun(Loops)
                BY <1>9, <2>1, FirstInit
            <4> QED
                BY <1>9, <2>1, <4>1 DEF InitTeam
        <3> QED
            BY <1>4, <3>1
    <2>2. CASE ~(loopCount >= tLoop[t])
        <3>1. PICK k \in Loops : k = at[t]
            BY <1>9, FirstInit
        <3>2. pc[t] = "init" /\ Begun(Loops)' = Begun(Loops) \cup {k}
            BY <1>9, <3>1, FirstInit
        <3>3. \A j : Current(j)' <=> j = k
            BY <3>1, <3>2, Latest DEF LoopLabels
        <3>4. BoundsFor(k)'
            BY <1>0, <1>9, <2>2, <3>1, BoundsSet DEF InitTeam
        <3> QED
            BY <3>3, <3>4
    <2> QED
        BY <2>1, <2>2
<1>10. CASE NextAlone(t)
    <2>1. pc[t] = "next" /\ UNCHANGED boundVars
        BY <1>10, NextAloneIs DEF NextAlone, NoMore, boundVars
    <2> QED
        BY <1>4, <1>6, <2>1
<1>11. CASE NextEven(t) \/ NextStatic(t)
    <2>1. pc[t] = "next" /\ UNCHANGED loopLower
        BY <1>11, NextEvenIs, NextStaticIs
    <2>2. UNCHANGED boundVars
        BY <1>11, <2>1 DEF NextEven, NextStatic, boundVars
    <2> QED
        BY <1>4, <1>6, <2>1, <2>2
<1>12. CASE NextDynamic(t) \/ NextGuided(t)
    <2>1. PICK k \in Construct : k = at[t]
        BY <1>0
    <2>2. /\ Current(k) /\ IsLoop(program[k]) /\ Shared(k) /\ teamSize > 1 /\ Shares(t, k)
        BY <1>12, <2>1, NextSharedIs
    <2>3. UNCHANGED <<loopUpper, loopIncr, schedType, chunkSize>>
        BY <1>12 DEF NextDynamic, NextGuided
    <2>4. \A j : Current(j)' = Current(j)
        BY <2>1, <2>2, StillCurrent
    <2>5. CASE UNCHANGED loopLower
        BY <1>3, <2>3, <2>4, <2>5 DEF boundVars
    <2>6. ASSUME NEW b \in Nat, loopLower' = Value(k, b)
          PROVE  \A j \in Construct : Current(j)' => BoundsFor(j)'
        <3>1. \/ Past(Value(k, b), program[k].upper, program[k].incr)
              \/ b \in Iteration(k)
            BY <2>2, ValueLimit DEF Iteration
        <3>2. BoundsFor(k)
            BY <1>2, <2>2
        <3>3. BoundsFor(k)'
            <4>1. \/ Past(loopLower', program[k].upper, program[k].incr)
                  \/ \E i \in Iteration(k) : loopLower' = Value(k, i)
                BY <2>6, <3>1
            <4>2. teamSize # 1
                BY <2>2
            <4> QED
                BY <1>1, <2>2, <2>3, <3>2, <4>1, <4>2 DEF BoundsFor, Past
        <3> QED
            BY <2>2, <2>4, <3>3, CurrentOnce DEF Known
    <2> QED
        BY <2>2, <2>5, <2>6 DEF Shares
<1>13. CASE Iterate(t) \/ EnterOrdered(t) \/ EndOrdered(t) \/ ChunkDone(t)
    <2>1. UNCHANGED boundVars /\ pc[t] \in {"body", "endOrdered"}
        BY <1>13 DEF Iterate, EnterOrdered, EndOrdered, ChunkDone, AtLoop
    <2> QED
        BY <1>4, <1>6, <2>1
<1>14. CASE CountSingle(t) \/ EnterSingle(t) \/ SingleEnd(t) \/ Publish(t) \/ Published(t) \/ Copy(t)
    <2>1. UNCHANGED boundVars
        BY <1>14 DEF CountSingle, EnterSingle, SingleEnd, Publish, Published, Copy
    <2>2. Here(t).kind = "single" \/ pc[t] \in {"single", "singleEnd"} \cup CopyLabels
        BY <1>14 DEF CountSingle, EnterSingle, SingleEnd, Publish, Published, Copy, AtSingle,
                     CopyLabels
    <2>3. IsSingle(program[at[t]])
        BY <1>0, <2>2, Inside, Kinds DEF Known, PlaceInv
    <2>4. at[t] \notin Loops
        BY <2>3, Kinds DEF Loops, AtScheduler
    <2> QED
        BY <1>4, <1>6, <2>1, <2>4
<1>15. CASE Barrier(t)
    <2>1. UNCHANGED boundVars /\ pc[t] = "barrier"
        BY <1>15 DEF Barrier
    <2> QED
        BY <1>4, <1>6, <2>1
<1> QED
    BY <1>7, <1>8, <1>9, <1>10, <1>11, <1>12, <1>13, <1>14, <1>15 DEF Step

-----------------------------------------------------------------------------
(* The chunk a thread works on *)

ChunkAt(t) == LET k == at[t] IN
    pc[t] \in {"body", "endOrdered"} =>
        /\ cur[t].incr = program[k].incr
        /\ ~Past(cur[t].upper, program[k].upper, program[k].incr)
        /\ ChunkLeft(t) => \E i \in Iteration(k) : cur[t].lower = Value(k, i)
        /\ ~AtScheduler(k) /\ cur[t].stride # 0 =>
              /\ program[k].sched = "init_chunk" /\ teamSize > 1
              /\ cur[t].stride = program[k].chunk * program[k].incr * teamSize
              /\ \E s \in 0..Trip(k) : cur[t].from = Value(k, Start(k, Number(t, s)))
        /\ AtScheduler(k) /\ teamSize = 1 => scheduleCount # 0

\* a chunk as the lemmas above describe those that are given out
LEMMA ChunkThen ==
    ASSUME UNCHANGED regionVars, NEW t, NEW k, IsLoop(program[k]), at'[t] = k,
           NEW d, NEW S, cur'[t] = d, Has(k, d, S),
           ~AtScheduler(k) => d.stride = 0 \/ \E s \in 0..Trip(k) : Strided(t, k, s)',
           AtScheduler(k) /\ teamSize = 1 => scheduleCount' # 0
    PROVE  ChunkAt(t)'
<1>1. /\ program' = program /\ teamSize' = teamSize /\ InTurn(k)' = InTurn(k)
      /\ Iteration(k)' = Iteration(k) /\ \A i : Value(k, i)' = Value(k, i)
      /\ Trip(k)' = Trip(k) /\ AtScheduler(k)' = AtScheduler(k)
      /\ \A q : Start(k, q)' = Start(k, q)
      /\ \A s : Number(t, s)' = Number(t, s)
    BY SameProgram
<1>2. /\ d.incr = program[k].incr /\ ~Past(d.upper, program[k].upper, program[k].incr)
      /\ ~Past(d.lower, d.upper, d.incr) => \E i \in Iteration(k) : d.lower = Value(k, i)
    BY DEF Has
<1>3. ChunkLeft(t)' <=> ~Past(d.lower, d.upper, d.incr)
    BY DEF ChunkLeft, Past
<1>4. ~Past(d.upper, program[k].upper, program[k].incr)'
    BY <1>1, <1>2 DEF Past
<1>5. ASSUME ~AtScheduler(k), d.stride # 0
      PROVE  /\ program[k].sched = "init_chunk" /\ teamSize > 1
             /\ d.stride = program[k].chunk * program[k].incr * teamSize
             /\ \E s \in 0..Trip(k) : d.from = Value(k, Start(k, Number(t, s)))
    <2>1. PICK s \in 0..Trip(k) : Strided(t, k, s)'
        BY <1>5
    <2>2. /\ InTurn(k) /\ d.stride = (program[k].chunk * program[k].incr) * teamSize
          /\ d.from = Value(k, Start(k, Number(t, s)))
        <3>1. Value(k, Start(k, Number(t, s)))' = Value(k, Start(k, Number(t, s)))
            BY DEF regionVars, Value, Start, Number, Trip
        <3> QED
            BY <1>1, <2>1, <3>1 DEF Strided
    <2>3. program[k].sched = "init_chunk" /\ teamSize > 1
        BY <1>5, <2>2 DEF InTurn, AtScheduler, AtRuntime
    <2> QED
        BY <2>2, <2>3
<1>6. \A s : Value(k, Start(k, Number(t, s)))' = Value(k, Start(k, Number(t, s)))
    BY DEF regionVars, Value, Start, Number, Trip
<1> QED
    BY <1>1, <1>2, <1>3, <1>4, <1>5, <1>6 DEF ChunkAt

\* a chunk that stays, with the loop it is of
LEMMA ChunkStays ==
    ASSUME UNCHANGED regionVars, NEW t, at'[t] = at[t], cur'[t] = cur[t],
           pc[t] \in {"body", "endOrdered"} <=> pc'[t] \in {"body", "endOrdered"},
           teamSize = 1 => scheduleCount' = scheduleCount, ChunkAt(t)
    PROVE  ChunkAt(t)'
<1>1. PICK k : k = at[t]
    OBVIOUS
<1>2. /\ program' = program /\ teamSize' = teamSize
      /\ Iteration(k)' = Iteration(k) /\ \A i : Value(k, i)' = Value(k, i)
      /\ Trip(k)' = Trip(k) /\ AtScheduler(k)' = AtScheduler(k)
      /\ \A s : Value(k, Start(k, Number(t, s)))' = Value(k, Start(k, Number(t, s)))
    BY DEF regionVars, Trip, Iteration, Value, Start, Number, AtScheduler
<1>3. ChunkLeft(t)' = ChunkLeft(t)
    BY DEF ChunkLeft, Past
<1> QED
    BY <1>1, <1>2, <1>3 DEF ChunkAt, Past

LEMMA ChunkStep ==
    ASSUME Known, NEW t \in Team, Step(t)
    PROVE  ChunkInv'
<1>0. /\ UNCHANGED regionVars /\ t \in Thread /\ DOMAIN pc = Thread /\ Control(t) /\ pc[t] # "idle"
      /\ Team' = Team /\ Team \subseteq Thread /\ teamSize \in Nat \ {0}
    BY StepFacts, SameProgram, Basics DEF Known
<1>1. \A u \in Thread \ {t} : at'[u] = at[u] /\ pc'[u] = pc[u] /\ cur'[u] = cur[u]
    BY <1>0, Motion, Others DEF Known
<1>2. \A u \in Team : ChunkAt(u)
    BY DEF Known, ChunkInv, ChunkAt
<1>3. ASSUME NEW u \in Team \ {t} PROVE ChunkAt(u)'
    <2>1. teamSize # 1
        BY DEF Team
    <2> QED
        BY <1>0, <1>1, <1>2, <2>1, ChunkStays
<1>4. PICK k \in Construct : k = at[t]
    BY StepFacts
<1>5. ASSUME pc'[t] \in {"body", "endOrdered"} PROVE ChunkAt(t)'
    <2>1. CASE StaticInit(t)
        <3>1. PICK d : Gets(t, d) /\ Has(k, d, ChunkOf(k, Number(t, 0)))
            BY <1>4, <2>1, StaticInitIs
        <3>2. /\ IsLoop(program[k]) /\ ~AtScheduler(k) /\ at'[t] = k
              /\ (~InTurn(k) /\ cur'[t].stride = 0) \/ Strided(t, k, 0)'
            BY <1>4, <2>1, StaticInitIs
        <3>3. 0 \in 0..Trip(k)
            BY <3>2, ValueLimit
        <3>4. d.stride = 0 \/ \E s \in 0..Trip(k) : Strided(t, k, s)'
            BY <3>1, <3>2, <3>3 DEF Gets
        <3> QED
            BY <1>0, <3>1, <3>2, <3>4, ChunkThen DEF Gets
    <2>2. CASE CountLoop(t) \/ InitTeam(t)
        <3>1. pc'[t] \in {"next", "init"}
            BY <2>2, CountLoopIs, FirstInit
        <3> QED
            BY <1>5, <3>1
    <2>3. ASSUME AtScheduler(k), NEW d, Gets(t, d), NEW S, Has(k, d, S), at' = at,
                 teamSize = 1 => scheduleCount' # 0
          PROVE  ChunkAt(t)'
        BY <1>0, <1>4, <2>3, ChunkThen DEF Gets, AtScheduler
    <2>4. EndConstruct(t) => pc'[t] \notin {"body", "endOrdered"}
        BY <1>0 DEF EndConstruct, Proceed, Reach, Goto
    <2>5. CASE NextAlone(t)
        <3>1. /\ AtScheduler(k) /\ scheduleCount' = 1 /\ at' = at
              /\ \E d : Gets(t, d) /\ Has(k, d, Iteration(k))
            BY <1>4, <1>5, <2>4, <2>5, NextAloneIs
        <3> QED
            BY <2>3, <3>1
    <2>6. CASE NextEven(t)
        <3>1. /\ AtScheduler(k) /\ teamSize > 1 /\ at' = at
              /\ \E d : Gets(t, d) /\ Has(k, d, ChunkOf(k, Number(t, 0)))
            BY <1>4, <1>5, <2>4, <2>6, NextEvenIs
        <3> QED
            BY <2>3, <3>1
    <2>7. CASE NextStatic(t)
        <3>1. /\ AtScheduler(k) /\ teamSize > 1 /\ at' = at
              /\ \E s \in Nat : \E d : Gets(t, d) /\ Has(k, d, ChunkOf(k, Number(t, s)))
            BY <1>4, <1>5, <2>4, <2>7, NextStaticIs
        <3> QED
            BY <2>3, <3>1
    <2>8. CASE NextDynamic(t) \/ NextGuided(t)
        <3>1. /\ AtScheduler(k) /\ teamSize > 1 /\ at' = at
              /\ \E d, S : Gets(t, d) /\ Has(k, d, S)
            BY <1>4, <1>5, <2>4, <2>8, NextSharedIs DEF Shares
        <3> QED
            BY <2>3, <3>1
    <2>9. CASE Iterate(t) \/ EnterOrdered(t)
        <3>1. PICK i \in Rest(t, k), d \in Records :
                 /\ Gets(t, d) /\ Has(k, d, Rest(t, k) \ {i})
                 /\ d.from = cur[t].from /\ d.stride = cur[t].stride
            BY <1>4, <2>9, AdvanceIs
        <3>2. /\ IsLoop(program[k]) /\ at'[t] = k /\ scheduleCount' = scheduleCount /\ pc[t] = "body"
            BY <1>4, <2>9, AdvanceIs
        <3>3. ASSUME ~AtScheduler(k), d.stride # 0
              PROVE  \E s \in 0..Trip(k) : Strided(t, k, s)'
            <4>1. PICK s \in 0..Trip(k) : /\ program[k].sched = "init_chunk" /\ teamSize > 1
                                          /\ d.stride = program[k].chunk * program[k].incr * teamSize
                                          /\ d.from = Value(k, Start(k, Number(t, s)))
                BY <1>2, <1>4, <3>1, <3>2, <3>3 DEF ChunkAt
            <4>2. InTurn(k)' /\ Value(k, Start(k, Number(t, s)))' = Value(k, Start(k, Number(t, s)))
                  /\ program' = program /\ teamSize' = teamSize
                BY <1>0, <4>1 DEF regionVars, InTurn, Value, Start, Number, Trip
            <4>3. cur'[t] = d
                BY <3>1 DEF Gets
            <4>4. d.stride = (program[k].chunk * program[k].incr) * teamSize
                BY <4>1
            <4> QED
                BY <3>3, <4>1, <4>2, <4>3, <4>4 DEF Strided
        <3>4. AtScheduler(k) /\ teamSize = 1 => scheduleCount' # 0
            BY <1>2, <1>4, <3>2 DEF ChunkAt
        <3> QED
            BY <1>0, <3>1, <3>2, <3>3, <3>4, ChunkThen DEF Gets
    <2>10. CASE EndOrdered(t)
        <3>1. /\ pc[t] = "endOrdered" /\ pc'[t] = "body" /\ at'[t] = at[t]
              /\ UNCHANGED <<scheduleCount, cur>>
            BY <1>4, <2>10, EndOrderedIs
        <3> QED
            BY <1>0, <1>2, <3>1, ChunkStays
    <2>11. CASE ChunkDone(t)
        <3>1. IsLoop(program[k])
            BY <1>4, <2>11, ChunkDoneIs
        <3>2. PICK s \in Nat : /\ ~AtScheduler(k) /\ at' = at
                               /\ Strided(t, k, s + 1)' /\ s + 1 \in 0..Trip(k)
                               /\ \E d : Gets(t, d) /\ Has(k, d, ChunkOf(k, Number(t, s + 1)))
            BY <1>4, <1>5, <2>4, <2>11, ChunkDoneIs
        <3>3. PICK x \in 0..Trip(k) : x = s + 1
            BY <3>2
        <3>4. \E y \in 0..Trip(k) : Strided(t, k, y)'
            BY <3>2, <3>3
        <3> QED
            BY <1>0, <1>4, <3>1, <3>2, <3>4, ChunkThen DEF Gets
    <2>12. CASE CountSingle(t) \/ EnterSingle(t) \/ SingleEnd(t) \/ Publish(t) \/ Published(t)
                \/ Copy(t) \/ Barrier(t)
        <3>1. pc'[t] \notin {"body", "endOrdered"}
            BY <1>0, <2>12 DEF CountSingle, EnterSingle, SingleEnd, Publish, Published, Copy, Barrier,
                AfterSingle, EndConstruct, Proceed, Reach, Goto
        <3> QED
            BY <1>5, <3>1
    <2> QED
        BY <2>1, <2>2, <2>5, <2>6, <2>7, <2>8, <2>9, <2>10, <2>11, <2>12 DEF Step
<1>6. ChunkAt(t)'
    BY <1>5 DEF ChunkAt
<1>7. \A u \in Team : ChunkAt(u)'
    BY <1>3, <1>6
<1> QED
    BY <1>0, <1>7 DEF ChunkInv, ChunkAt

-----------------------------------------------------------------------------
(* Types *)

LEMMA TypeBounds ==
    ASSUME Known, NEW t \in Team, Step(t)
    PROVE  {loopLower', loopUpper', loopIncr', chunkSize', scheduleCount', orderedCount'} \subseteq Int
<1>0. /\ {loopLower, loopUpper, loopIncr, chunkSize, scheduleCount, orderedCount} \subseteq Int
      /\ pc[t] # "idle" /\ Here(t) = program[at[t]]
    BY StepFacts DEF Known, TypeInv
<1>1. ASSUME IsLoop(program[at[t]]), SetBounds(program[at[t]])
      PROVE  {loopLower', loopUpper', loopIncr', scheduleCount', orderedCount'} \subseteq Int
    BY <1>0, <1>1, LoopFields DEF SetBounds
<1>2. CASE CountLoop(t)
    <2>1. IsLoop(program[at[t]]) /\ chunkSize' = chunkSize
        BY <1>2, CountLoopIs
    <2>2. CASE SetBounds(program[at[t]])
        BY <1>0, <1>1, <2>1, <2>2
    <2>3. CASE UNCHANGED <<loopLower, loopUpper, loopIncr, scheduleCount, orderedCount>>
        BY <1>0, <2>1, <2>3
    <2> QED
        BY <1>2, <2>2, <2>3, CountLoopIs
<1>3. CASE InitTeam(t)
    <2>1. IsLoop(program[at[t]])
        BY <1>3, FirstInit DEF Loops, AtScheduler
    <2>2. CASE loopCount >= tLoop[t]
        BY <1>0, <1>3, <2>2 DEF InitTeam, boundVars, countVars
    <2>3. CASE ~(loopCount >= tLoop[t])
        <3>1. SetBounds(program[at[t]]) /\ chunkSize' = program[at[t]].chunk
            BY <1>0, <1>3, <2>3 DEF InitTeam
        <3> QED
            BY <1>1, <2>1, <3>1, LoopFields
    <2> QED
        BY <2>2, <2>3
<1>4. CASE NextAlone(t)
    BY <1>0, <1>4, NextAloneIs DEF NextAlone
<1>5. CASE NextEven(t) \/ NextStatic(t)
    <2>1. UNCHANGED <<countVars, loopLower>>
        BY <1>5, NextEvenIs, NextStaticIs
    <2> QED
        BY <1>0, <1>5, <2>1 DEF NextEven, NextStatic, countVars
<1>6. CASE NextDynamic(t) \/ NextGuided(t)
    <2>1. PICK k \in Construct : k = at[t]
        BY StepFacts
    <2>2. IsLoop(program[k]) /\ Shares(t, k) /\ UNCHANGED orderedCount
        BY <1>6, <2>1, NextSharedIs
    <2>3. scheduleCount + 1 \in Int /\ \A b \in Nat : Value(k, b) \in Int
        <3>1. \A b \in Nat : b \in Int
            OBVIOUS
        <3>2. scheduleCount + 1 \in Int
            BY <1>0
        <3> QED
            BY <2>2, <3>1, <3>2, ValueMoves
    <2>4. loopLower' \in Int /\ scheduleCount' \in Int
        BY <1>0, <2>2, <2>3 DEF Shares
    <2> QED
        BY <1>0, <1>6, <2>2, <2>4 DEF NextDynamic, NextGuided
<1>7. CASE Iterate(t) \/ EnterOrdered(t) \/ StaticInit(t) \/ ChunkDone(t)
    BY <1>0, <1>7 DEF Iterate, EnterOrdered, StaticInit, ChunkDone, boundVars, countVars
<1>8. CASE EndOrdered(t)
    <2>1. orderedCount + 1 \in Int
        BY <1>0
    <2> QED
        BY <1>0, <1>8, <2>1 DEF EndOrdered, boundVars
<1>9. CASE CountSingle(t) \/ EnterSingle(t) \/ SingleEnd(t) \/ Publish(t) \/ Published(t)
           \/ Copy(t) \/ Barrier(t)
    BY <1>0, <1>9 DEF CountSingle, EnterSingle, SingleEnd, Publish, Published, Copy, Barrier,
        boundVars, countVars
<1> QED
    BY <1>2, <1>3, <1>4, <1>5, <1>6, <1>7, <1>8, <1>9 DEF Step

LEMMA TypeStep ==
    ASSUME Known, NEW t \in Team, Step(t)
    PROVE  TypeInv'
<1>0. /\ UNCHANGED regionVars /\ t \in Thread /\ DOMAIN pc = Thread /\ Control(t) /\ pc[t] # "idle"
      /\ Construct' = Construct /\ tSchedule' \in [Thread -> Nat] /\ teamSize \in Nat \ {0}
      /\ Here(t) = program[at[t]]
    BY StepFacts, SameProgram, Basics
<1>1. PICK k \in Construct : k = at[t]
    BY StepFacts
<1>2. /\ cur \in [Thread -> Records] /\ tOrdered \in [Thread -> Int] /\ tRest \in [Thread -> Int]
      /\ first \in [Thread -> BOOLEAN] /\ scheduleCount \in Int
      /\ \A w \in ran : w[1] \in Construct /\ w = <<w[1], w[2]>>
    BY DEF Known, TypeInv, Records
<1>3. \A d \in Records : [cur EXCEPT ![t] = d] \in [Thread -> Records]
    BY <1>2
<1>4. \A d, S : Gets(t, d) /\ Has(k, d, S) => cur' \in [Thread -> Records]
    BY <1>3 DEF Gets, Has
<1>5. \A turn \in Int : \A S : Turned(t, k, turn, S) =>
          tOrdered' \in [Thread -> Int] /\ tRest' \in [Thread -> Int]
    <2>1. \A n \in Int : [tOrdered EXCEPT ![t] = n] \in [Thread -> Int]
                         /\ [tRest EXCEPT ![t] = n] \in [Thread -> Int]
        BY <1>2
    <2> QED
        BY <1>2, <2>1 DEF Turned
<1>6. \A s \in Nat : Number(t, s) \in Int
    <2> SUFFICES ASSUME NEW s \in Nat PROVE Number(t, s) \in Int
        OBVIOUS
    <2>1. Number(t, s) \in Nat
        BY <1>0, Numbers
    <2> QED
        BY <2>1
<1>7. CASE StaticInit(t) \/ ChunkDone(t)
    <2>1. cur' \in [Thread -> Records] /\ UNCHANGED <<tOrdered, tRest>>
        BY <1>1, <1>2, <1>4, <1>7, StaticInitIs, ChunkDoneIs DEF StaticInit, orderVars
    <2>2. first' = first /\ ran' = ran
        BY <1>7 DEF StaticInit, ChunkDone, singleVars, ghostVars
    <2> QED
        BY <1>0, <1>2, <2>1, <2>2, TypeBounds DEF TypeInv, Records
<1>8. CASE CountLoop(t) \/ InitTeam(t) \/ EndOrdered(t)
    <2>1. /\ UNCHANGED <<cur, tOrdered, ran>>
          /\ tRest' = tRest \/ (tRest[t] - 1 \in Int /\ tRest' = [tRest EXCEPT ![t] = tRest[t] - 1])
        BY <1>1, <1>8, CountLoopIs, FirstInit, EndOrderedIs
    <2>2. tRest' \in [Thread -> Int]
        BY <1>2, <2>1
    <2>3. first' = first
        BY <1>8 DEF CountLoop, InitTeam, EndOrdered, singleVars
    <2> QED
        BY <1>0, <1>2, <2>1, <2>2, <2>3, TypeBounds DEF TypeInv, Records
<1>9. CASE NextAlone(t) \/ NextEven(t) \/ NextStatic(t) \/ NextDynamic(t) \/ NextGuided(t)
    <2>1. first' = first /\ ran' = ran
        BY <1>9 DEF NextAlone, NextEven, NextStatic, NextDynamic, NextGuided, singleVars, ghostVars
    <2>2. cur' \in [Thread -> Records] /\ tOrdered' \in [Thread -> Int] /\ tRest' \in [Thread -> Int]
        <3>1. CASE NextAlone(t)
            <4>0. \A n \in Int : [tOrdered EXCEPT ![t] = n] \in [Thread -> Int]
                BY <1>2
            <4>1. [tOrdered EXCEPT ![t] = 0] \in [Thread -> Int]
                BY <4>0
            <4> QED
                BY <1>1, <1>2, <1>4, <3>1, <4>1, NextAloneIs
        <3>2. CASE NextEven(t)
            <4>1. Number(t, 0) \in Int
                BY <1>6
            <4> QED
                BY <1>1, <1>2, <1>4, <1>5, <3>2, <4>1, NextEvenIs
        <3>3. CASE NextStatic(t)
            BY <1>1, <1>2, <1>4, <1>5, <1>6, <3>3, NextStaticIs
        <3>4. CASE NextDynamic(t) \/ NextGuided(t)
            <4>1. Shares(t, k)
                BY <1>1, <3>4, NextSharedIs
            <4> QED
                BY <1>2, <1>4, <1>5, <4>1 DEF Shares
        <3> QED
            BY <1>9, <3>1, <3>2, <3>3, <3>4
    <2> QED
        BY <1>0, <1>2, <2>1, <2>2, TypeBounds DEF TypeInv, Records
<1>10. CASE Iterate(t) \/ EnterOrdered(t)
    <2>1. /\ cur' \in [Thread -> Records] /\ UNCHANGED <<tOrdered, tRest>>
          /\ \E w : ran' = ran \cup {<<k, w>>}
        BY <1>1, <1>4, <1>10, AdvanceIs DEF Execute
    <2>2. first' = first
        BY <1>10 DEF Iterate, EnterOrdered, singleVars
    <2>3. \A w \in ran' : w[1] \in Construct /\ w = <<w[1], w[2]>>
        BY <1>2, <2>1
    <2> QED
        BY <1>0, <1>2, <2>1, <2>2, <2>3, TypeBounds DEF TypeInv, Records
<1>11. CASE CountSingle(t) \/ EnterSingle(t) \/ SingleEnd(t) \/ Publish(t) \/ Published(t)
            \/ Copy(t) \/ Barrier(t)
    <2>1. UNCHANGED <<cur, tOrdered, tRest>>
        BY <1>11 DEF CountSingle, EnterSingle, SingleEnd, Publish, Published, Copy, Barrier, orderVars
    <2>2. /\ ran' = ran \/ \E w : ran' = ran \cup {<<k, w>>}
          /\ first' \in [Thread -> BOOLEAN]
        BY <1>1, <1>2, <1>11 DEF CountSingle, EnterSingle, SingleEnd, Publish, Published, Copy, Barrier,
            RunSingle, Execute, singleVars, ghostVars
    <2>3. \A w \in ran' : w[1] \in Construct /\ w = <<w[1], w[2]>>
        BY <1>2, <2>2
    <2> QED
        BY <1>0, <1>2, <2>1, <2>2, <2>3, TypeBounds DEF TypeInv, Records
<1> QED
    BY <1>7, <1>8, <1>9, <1>10, <1>11 DEF Step

-----------------------------------------------------------------------------
(* Turns *)

HoldsTurn(t, k) ==
    /\ pc[t] = "endOrdered" => tOrdered[t] = orderedCount
    /\ \A i \in Rest(t, k) :
          Past(cur[t].lower + Remaining(t) * program[k].incr, Value(k, i), program[k].incr)
StaticTurn(t, k) ==
    /\ tSchedule[t] > 0 /\ tOrdered[t] = Number(t, tSchedule[t] - 1)
    /\ \A i \in Rest(t, k) : InChunk(k, tOrdered[t], i)
OwedTurn(t, k) ==
    \A s \in 0..Trip(k) : \A i \in Owed(t, k) :
        InChunk(k, Number(t, s), i) => Number(t, s) >= orderedCount
SharedTurn(t, k) ==
    /\ tOrdered[t] < scheduleCount
    /\ \A i \in Rest(t, k) :
          tOrdered[t] >= orderedCount /\ Past(loopLower, Value(k, i), program[k].incr)
Apart(t, u, k) ==
    /\ tOrdered[t] # tOrdered[u]
    /\ tOrdered[t] < tOrdered[u] => \A i \in Rest(t, k), j \in Rest(u, k) : i < j

Turns(k) ==
    /\ \A t \in Team : Holds(t, k) => HoldsTurn(t, k)
    /\ Static(k) => /\ \A t \in Team : Holds(t, k) => StaticTurn(t, k)
                    /\ \A t \in Team : OwedTurn(t, k)
    /\ ~Static(k) =>
          /\ scheduleCount >= orderedCount
          /\ \A t \in Team : Holds(t, k) => SharedTurn(t, k)
          /\ \A t, u \in Team : Holds(t, k) /\ Holds(u, k) /\ t # u => Apart(t, u, k)

LEMMA TurnIsTurns ==
    TurnInv <=> \A k \in Construct : Current(k) /\ program[k].ordered /\ teamSize > 1 => Turns(k)
BY DEF TurnInv, Turns, HoldsTurn, StaticTurn, OwedTurn, SharedTurn, Apart

\* the same after a step
LEMMA TurnThen ==
    ASSUME UNCHANGED regionVars, NEW t, NEW k
    PROVE  /\ Holds(t, k)' <=> at'[t] = k /\ pc'[t] \in {"body", "endOrdered"}
           /\ HoldsTurn(t, k)' <=>
                 /\ pc'[t] = "endOrdered" => tOrdered'[t] = orderedCount'
                 /\ \A i \in Rest(t, k)' :
                       Past(cur'[t].lower + Remaining(t)' * program[k].incr, Value(k, i),
                            program[k].incr)
           /\ Remaining(t)' = IF pc'[t] = "endOrdered" THEN tRest'[t] - 1 ELSE tRest'[t]
           /\ StaticTurn(t, k)' <=>
                 /\ tSchedule'[t] > 0 /\ tOrdered'[t] = Number(t, tSchedule'[t] - 1)
                 /\ \A i \in Rest(t, k)' : InChunk(k, tOrdered'[t], i)
           /\ OwedTurn(t, k)' <=>
                 \A s \in 0..Trip(k) : \A i \in Owed(t, k)' :
                     InChunk(k, Number(t, s), i) => Number(t, s) >= orderedCount'
           /\ SharedTurn(t, k)' <=>
                 /\ tOrdered'[t] < scheduleCount'
                 /\ \A i \in Rest(t, k)' :
                       tOrdered'[t] >= orderedCount' /\ Past(loopLower', Value(k, i), program[k].incr)
           /\ \A u : Apart(t, u, k)' <=>
                 /\ tOrdered'[t] # tOrdered'[u]
                 /\ tOrdered'[t] < tOrdered'[u] => \A i \in Rest(t, k)', j \in Rest(u, k)' : i < j
<1>1. /\ program' = program /\ teamSize' = teamSize /\ Trip(k)' = Trip(k)
      /\ \A i : Value(k, i)' = Value(k, i)
      /\ \A q : Start(k, q)' = Start(k, q)
    BY SameProgram
<1>2. /\ StaticTurn(t, k)' <=>
                 /\ tSchedule'[t] > 0 /\ tOrdered'[t] = Number(t, tSchedule'[t] - 1)
                 /\ \A i \in Rest(t, k)' : InChunk(k, tOrdered'[t], i)
    BY <1>1 DEF StaticTurn, Number, InChunk
<1>3. OwedTurn(t, k)' <=>
                 \A s \in 0..Trip(k) : \A i \in Owed(t, k)' :
                     InChunk(k, Number(t, s), i) => Number(t, s) >= orderedCount'
    BY <1>1 DEF OwedTurn, Number, InChunk
<1>4. HoldsTurn(t, k)' <=>
                 /\ pc'[t] = "endOrdered" => tOrdered'[t] = orderedCount'
                 /\ \A i \in Rest(t, k)' :
                       Past(cur'[t].lower + Remaining(t)' * program[k].incr, Value(k, i),
                            program[k].incr)
    BY <1>1 DEF HoldsTurn, Past
<1>5. SharedTurn(t, k)' <=>
                 /\ tOrdered'[t] < scheduleCount'
                 /\ \A i \in Rest(t, k)' :
                       tOrdered'[t] >= orderedCount' /\ Past(loopLower', Value(k, i), program[k].incr)
    BY <1>1 DEF SharedTurn, Past
<1>6. \A u : Apart(t, u, k)' <=>
                 /\ tOrdered'[t] # tOrdered'[u]
                 /\ tOrdered'[t] < tOrdered'[u] => \A i \in Rest(t, k)', j \in Rest(u, k)' : i < j
    BY DEF Apart
<1>7. /\ Holds(t, k)' <=> at'[t] = k /\ pc'[t] \in {"body", "endOrdered"}
      /\ Remaining(t)' = IF pc'[t] = "endOrdered" THEN tRest'[t] - 1 ELSE tRest'[t]
    BY DEF Holds, Remaining
<1> QED
    BY <1>2, <1>3, <1>4, <1>5, <1>6, <1>7

\* what the turns of the other threads are made of
LEMMA OtherTurns ==
    ASSUME Known, NEW t \in Team, Step(t), NEW k \in Construct, IsLoop(program[k]),
           NEW u \in Team \ {t}
    PROVE  /\ Holds(u, k)' = Holds(u, k) /\ Rest(u, k)' = Rest(u, k) /\ Owed(u, k)' = Owed(u, k)
           /\ tOrdered'[u] = tOrdered[u] /\ tSchedule'[u] = tSchedule[u] /\ pc'[u] = pc[u]
           /\ cur'[u] = cur[u] /\ Remaining(u)' = Remaining(u)
<1>1. /\ at'[u] = at[u] /\ pc'[u] = pc[u]
      /\ cur'[u] = cur[u] /\ tSchedule'[u] = tSchedule[u]
      /\ tOrdered'[u] = tOrdered[u] /\ tRest'[u] = tRest[u]
    <2>1. u \in Thread \ {t}
        BY Basics DEF Known
    <2> QED
        BY <2>1, StepFacts, Motion, Others DEF Known
<1>2. Rest(u, k)' = Rest(u, k) /\ Future(u, k)' = Future(u, k)
    BY Elsewhere
<1> QED
    BY <1>1, <1>2 DEF Holds, Owed, Remaining

\* a step after which its thread has no chunk, and by which it is given nothing
LEMMA TurnQuiet ==
    ASSUME Known, NEW t \in Team, Step(t), NEW k \in Construct, IsLoop(program[k]), Turns(k),
           UNCHANGED <<loopLower, scheduleCount, orderedCount>>, ~Holds(t, k)',
           Static(k) => Owed(t, k)' \subseteq Owed(t, k)
    PROVE  Turns(k)'
<1>0. UNCHANGED regionVars
    BY StepFacts
<1>1. Team' = Team /\ Static(k)' = Static(k)
    BY <1>0, SameProgram
<1>2. ASSUME NEW u \in Team \ {t}
      PROVE  /\ Holds(u, k)' = Holds(u, k) /\ HoldsTurn(u, k)' = HoldsTurn(u, k)
             /\ StaticTurn(u, k)' = StaticTurn(u, k) /\ OwedTurn(u, k)' = OwedTurn(u, k)
             /\ SharedTurn(u, k)' = SharedTurn(u, k)
             /\ \A v \in Team \ {t} : Apart(u, v, k)' = Apart(u, v, k)
    <2>1. /\ Holds(u, k)' = Holds(u, k) /\ HoldsTurn(u, k)' = HoldsTurn(u, k)
        BY <1>0, OtherTurns, TurnThen DEF HoldsTurn
    <2>2. StaticTurn(u, k)' = StaticTurn(u, k) /\ OwedTurn(u, k)' = OwedTurn(u, k)
        BY <1>0, OtherTurns, TurnThen DEF StaticTurn, OwedTurn
    <2>3. SharedTurn(u, k)' = SharedTurn(u, k)
        BY <1>0, OtherTurns, TurnThen DEF SharedTurn
    <2>4. \A v \in Team \ {t} : Apart(u, v, k)' = Apart(u, v, k)
        BY <1>0, OtherTurns, TurnThen DEF Apart
    <2> QED
        BY <2>1, <2>2, <2>3, <2>4
<1>3. Static(k) => OwedTurn(t, k)'
    BY <1>0, TurnThen DEF Turns, OwedTurn
<1>4. \A u \in Team : Holds(u, k)' => HoldsTurn(u, k)'
    BY <1>2 DEF Turns
<1>5. Static(k) => /\ \A u \in Team : Holds(u, k)' => StaticTurn(u, k)'
                   /\ \A u \in Team : OwedTurn(u, k)'
    BY <1>2, <1>3 DEF Turns
<1>6. ~Static(k) =>
          /\ scheduleCount' >= orderedCount'
          /\ \A u \in Team : Holds(u, k)' => SharedTurn(u, k)'
          /\ \A u, v \in Team : Holds(u, k)' /\ Holds(v, k)' /\ u # v => Apart(u, v, k)'
    BY <1>2 DEF Turns
<1> QED
    BY <1>1, <1>4, <1>5, <1>6 DEF Turns

\* a thread that is given a chunk is given its turn
LEMMA TurnedThen ==
    ASSUME Known, UNCHANGED regionVars, NEW t \in Team, NEW k, IsLoop(program[k]),
           program[k].ordered, pc'[t] = "body", NEW turn, NEW S, Turned(t, k, turn, S),
           Rest(t, k)' = S
    PROVE  tOrdered'[t] = turn /\ HoldsTurn(t, k)'
<1>0. t \in Thread /\ DOMAIN tOrdered = Thread /\ DOMAIN tRest = Thread
    BY Basics DEF Known, TypeInv
<1>1. PICK a \in Int, n \in Int : /\ cur'[t].lower = Value(k, a)
                                  /\ tRest' = [tRest EXCEPT ![t] = n]
                                  /\ \A i \in S : i < a + n
    BY DEF Turned
<1>2. tOrdered'[t] = turn /\ tRest'[t] = n
    BY <1>0, <1>1 DEF Turned
<1>3. Remaining(t)' = n
    BY <1>2, TurnThen
<1>4. a + n \in Int /\ Value(k, a) + n * program[k].incr = Value(k, a + n)
    BY <1>1, ValueMoves
<1>5. \A i \in S : Past(Value(k, a + n), Value(k, i), program[k].incr)
    <2> SUFFICES ASSUME NEW i \in S PROVE Past(Value(k, a + n), Value(k, i), program[k].incr)
        OBVIOUS
    <2>1. PICK b \in Int : b = a + n
        BY <1>4
    <2>2. i \in Iteration(k)'
        BY DEF Rest
    <2>3. i \in Int /\ IsLoop(program[k]) /\ i < b
        BY <1>1, <2>1, <2>2, SameProgram, ValueLimit DEF Iteration
    <2>4. Past(Value(k, b), Value(k, i), program[k].incr)
        BY <2>1, <2>3, ValueOrder
    <2> QED
        BY <2>1, <2>4
<1> QED
    BY <1>1, <1>2, <1>3, <1>4, <1>5, TurnThen

\* the next chunk of a static schedule
LEMMA TurnDeal ==
    ASSUME Known, NEW t \in Team, Step(t), NEW k \in Construct, k = at[t], IsLoop(program[k]),
           Turns(k), program[k].ordered, UNCHANGED orderedCount, Static(k),
           pc'[t] = "body", NEW s \in Nat, tSchedule'[t] = s + 1,
           Turned(t, k, Number(t, s), ChunkOf(k, Number(t, s))),
           Rest(t, k)' = ChunkOf(k, Number(t, s)), Owed(t, k)' \subseteq Owed(t, k)
    PROVE  Turns(k)'
<1>0. UNCHANGED regionVars
    BY StepFacts
<1>1. Team' = Team /\ Static(k)' = Static(k)
    BY <1>0, SameProgram
<1>2. ASSUME NEW u \in Team \ {t}
      PROVE  /\ Holds(u, k)' = Holds(u, k) /\ HoldsTurn(u, k)' = HoldsTurn(u, k)
             /\ StaticTurn(u, k)' = StaticTurn(u, k) /\ OwedTurn(u, k)' = OwedTurn(u, k)
    <2>1. /\ Holds(u, k)' = Holds(u, k) /\ HoldsTurn(u, k)' = HoldsTurn(u, k)
        BY <1>0, OtherTurns, TurnThen DEF HoldsTurn
    <2>2. StaticTurn(u, k)' = StaticTurn(u, k) /\ OwedTurn(u, k)' = OwedTurn(u, k)
        BY <1>0, OtherTurns, TurnThen DEF StaticTurn, OwedTurn
    <2> QED
        BY <2>1, <2>2
<1>3. tOrdered'[t] = Number(t, s) /\ HoldsTurn(t, k)'
    BY <1>0, TurnedThen
<1>4. OwedTurn(t, k)'
    BY <1>0, TurnThen DEF Turns, OwedTurn
<1>5. StaticTurn(t, k)'
    <2>1. tSchedule'[t] > 0 /\ tSchedule'[t] - 1 = s
        OBVIOUS
    <2>2. \A i \in Rest(t, k)' : InChunk(k, Number(t, s), i)
        BY DEF ChunkOf
    <2> QED
        BY <1>0, <1>3, <2>1, <2>2, TurnThen
<1>6. \A u \in Team : Holds(u, k)' => HoldsTurn(u, k)'
    BY <1>2, <1>3 DEF Turns
<1>7. /\ \A u \in Team : Holds(u, k)' => StaticTurn(u, k)'
      /\ \A u \in Team : OwedTurn(u, k)'
    BY <1>2, <1>4, <1>5 DEF Turns
<1> QED
    BY <1>1, <1>6, <1>7 DEF Turns

\* the next chunk of what is shared
LEMMA TurnShare ==
    ASSUME Known, NEW t \in Team, Step(t), NEW k \in Construct, k = at[t], IsLoop(program[k]),
           Turns(k), program[k].ordered, UNCHANGED orderedCount, ~Static(k), ~Holds(t, k),
           pc'[t] = "body", NEW a \in Iteration(k), NEW b \in Nat, a < b,
           loopLower = Value(k, a), loopLower' = Value(k, b), scheduleCount' = scheduleCount + 1,
           Turned(t, k, scheduleCount, Between(k, a, b)), Rest(t, k)' = Between(k, a, b)
    PROVE  Turns(k)'
<1>0. UNCHANGED regionVars
    BY StepFacts
<1>1. Team' = Team /\ Static(k)' = Static(k)
    BY <1>0, SameProgram
<1>2. /\ scheduleCount \in Int /\ orderedCount \in Int /\ scheduleCount >= orderedCount
      /\ \A u \in Team : tOrdered[u] \in Int
    BY Basics DEF Known, TypeInv, Turns
<1>3. a \in Int /\ b \in Int /\ \A i \in Iteration(k) : i \in Int
    BY ValueLimit DEF Iteration
<1>4. \A i \in Iteration(k) : /\ Past(Value(k, a), Value(k, i), program[k].incr) <=> i < a
                              /\ Past(Value(k, b), Value(k, i), program[k].incr) <=> i < b
    <2> SUFFICES ASSUME NEW i \in Iteration(k)
                 PROVE  /\ Past(Value(k, a), Value(k, i), program[k].incr) <=> i < a
                        /\ Past(Value(k, b), Value(k, i), program[k].incr) <=> i < b
        OBVIOUS
    <2>1. IsLoop(program[k]) /\ a \in Int /\ b \in Int /\ i \in Int
        BY <1>3
    <2> QED
        BY <2>1, ValueOrder
<1>5. \A u \in Team : \A i \in Rest(u, k) : i \in Iteration(k)
    BY DEF Rest
<1>6. tOrdered'[t] = scheduleCount /\ HoldsTurn(t, k)'
    BY <1>0, TurnedThen
<1>7. SharedTurn(t, k)'
    <2>1. \A i \in Between(k, a, b) : Past(loopLower', Value(k, i), program[k].incr)
        BY <1>4 DEF Between
    <2> QED
        BY <1>0, <1>2, <1>6, <2>1, TurnThen
<1>8. ASSUME NEW u \in Team \ {t}, Holds(u, k)
      PROVE  /\ HoldsTurn(u, k)' /\ SharedTurn(u, k)' /\ Apart(t, u, k)' /\ Apart(u, t, k)'
             /\ \A v \in Team \ {t} : Apart(u, v, k)' = Apart(u, v, k)
    <2>0. HoldsTurn(u, k) /\ SharedTurn(u, k)
        BY <1>8 DEF Turns
    <2>1. HoldsTurn(u, k)'
        BY <1>0, <2>0, OtherTurns, TurnThen DEF HoldsTurn
    <2>2. /\ tOrdered[u] < scheduleCount /\ tOrdered[u] \in Int
          /\ \A i \in Rest(u, k) : i \in Iteration(k) /\ tOrdered[u] >= orderedCount /\ i < a
        BY <1>2, <1>4, <1>5, <2>0 DEF SharedTurn
    <2>3. Rest(u, k)' = Rest(u, k) /\ tOrdered'[u] = tOrdered[u]
        BY OtherTurns
    <2>4. SharedTurn(u, k)'
        <3>1. \A i \in Rest(u, k) : Past(loopLower', Value(k, i), program[k].incr)
            <4> SUFFICES ASSUME NEW i \in Rest(u, k)
                         PROVE  Past(loopLower', Value(k, i), program[k].incr)
                OBVIOUS
            <4>1. i \in Iteration(k) /\ i < b
                BY <1>3, <2>2
            <4> QED
                BY <1>4, <4>1
        <3>2. tOrdered[u] < scheduleCount + 1
            BY <1>2, <2>2
        <3> QED
            BY <1>0, <2>2, <2>3, <3>1, <3>2, TurnThen
    <2>5. Apart(t, u, k)' /\ Apart(u, t, k)'
        <3>1. tOrdered'[u] # tOrdered'[t] /\ ~(tOrdered'[t] < tOrdered'[u])
            BY <1>2, <1>6, <2>2, <2>3
        <3>2. \A i \in Rest(u, k)', j \in Rest(t, k)' : i < j
            BY <1>3, <2>2, <2>3 DEF Between
        <3> QED
            BY <1>0, <3>1, <3>2, TurnThen
    <2>6. \A v \in Team \ {t} : Apart(u, v, k)' = Apart(u, v, k)
        BY <1>0, OtherTurns, TurnThen DEF Apart
    <2> QED
        BY <2>1, <2>4, <2>5, <2>6
<1>9. \A u \in Team \ {t} : Holds(u, k)' = Holds(u, k)
    BY OtherTurns
<1>10. \A u \in Team : Holds(u, k)' => HoldsTurn(u, k)' /\ SharedTurn(u, k)'
    BY <1>6, <1>7, <1>8, <1>9
<1>11. \A u, v \in Team : Holds(u, k)' /\ Holds(v, k)' /\ u # v => Apart(u, v, k)'
    <2> SUFFICES ASSUME NEW u \in Team, NEW v \in Team, Holds(u, k)', Holds(v, k)', u # v
                 PROVE  Apart(u, v, k)'
        OBVIOUS
    <2>1. CASE u = t
        BY <1>8, <1>9, <2>1
    <2>2. CASE v = t
        BY <1>8, <1>9, <2>2
    <2>3. CASE u # t /\ v # t
        <3>1. Apart(u, v, k)' = Apart(u, v, k)
            BY <1>8, <1>9, <2>3
        <3>2. Apart(u, v, k)
            BY <1>9, <2>3 DEF Turns
        <3> QED
            BY <3>1, <3>2
    <2> QED
        BY <2>1, <2>2, <2>3
<1>12. scheduleCount' >= orderedCount'
    BY <1>2
<1> QED
    BY <1>1, <1>10, <1>11, <1>12 DEF Turns

\* a thread enters the ordered region of its first iteration
LEMMA TurnEnter ==
    ASSUME Known, NEW t \in Team, NEW k, k = at[t], EnterOrdered(t), teamSize > 1,
           Turns(k), Static(k) => Owed(t, k)' \subseteq Owed(t, k)
    PROVE  Turns(k)'
<1>0. /\ UNCHANGED regionVars /\ Step(t) /\ k \in Construct /\ t \in Thread /\ DOMAIN pc = Thread
    BY StepFacts DEF Step
<1>1. /\ IsLoop(program[k]) /\ pc[t] = "body" /\ at' = at
      /\ UNCHANGED <<loopLower, scheduleCount, orderedCount, tSchedule, tOrdered, tRest>>
    BY AdvanceIs
<1>2. PICK i \in Rest(t, k), d \in Records :
         /\ cur[t].lower = Value(k, i) /\ Gets(t, d) /\ Has(k, d, Rest(t, k) \ {i})
         /\ d.lower = Value(k, i + 1)
    BY AdvanceIs
<1>3. pc'[t] = "endOrdered" /\ orderedCount = tOrdered[t]
    BY <1>0 DEF EnterOrdered, Goto
<1>4. Rest(t, k)' = Rest(t, k) \ {i}
    BY <1>0, <1>1, <1>2, <1>3, RestThen DEF Gets
<1>5. Team' = Team /\ Static(k)' = Static(k)
    BY <1>0, SameProgram
<1>6. Holds(t, k) /\ HoldsTurn(t, k)
    BY <1>1 DEF Holds, Turns
<1>7. HoldsTurn(t, k)'
    <2>1. tRest[t] \in Int /\ i \in Int
        BY <1>0, <1>1, ValueLimit DEF Known, TypeInv, Rest, Iteration
    <2>2. PICK n \in Int : n = tRest[t]
        BY <2>1
    <2>3. Remaining(t) = n /\ Remaining(t)' = n - 1
        BY <1>0, <1>1, <1>3, <2>2, TurnThen DEF Remaining
    <2>4. Value(k, i) + n * program[k].incr = Value(k, i + n)
        BY <1>1, <2>1, <2>2, ValueMoves
    <2>5. Value(k, i + 1) + (n - 1) * program[k].incr = Value(k, i + n)
        <3>1. PICK x \in Int, y \in Int : x = i + 1 /\ y = n - 1
            BY <2>1, <2>2
        <3>2. x + y = i + n
            BY <2>1, <2>2, <3>1
        <3>3. Value(k, x) + y * program[k].incr = Value(k, x + y)
            BY <1>1, <3>1, ValueMoves
        <3> QED
            BY <3>1, <3>2, <3>3
    <2>6. \A j \in Rest(t, k) : Past(Value(k, i + n), Value(k, j), program[k].incr)
        BY <1>2, <1>6, <2>3, <2>4 DEF HoldsTurn
    <2>7. cur'[t].lower = Value(k, i + 1)
        BY <1>2 DEF Gets
    <2>8. cur'[t].lower + Remaining(t)' * program[k].incr = Value(k, i + n)
        BY <2>3, <2>5, <2>7
    <2> QED
        BY <1>0, <1>1, <1>3, <1>4, <2>6, <2>8, TurnThen
<1>8. ASSUME NEW u \in Team \ {t}
      PROVE  /\ Holds(u, k)' = Holds(u, k) /\ HoldsTurn(u, k)' = HoldsTurn(u, k)
             /\ StaticTurn(u, k)' = StaticTurn(u, k) /\ OwedTurn(u, k)' = OwedTurn(u, k)
             /\ SharedTurn(u, k)' = SharedTurn(u, k)
    <2>1. /\ Holds(u, k)' = Holds(u, k) /\ HoldsTurn(u, k)' = HoldsTurn(u, k)
        BY <1>0, <1>1, OtherTurns, TurnThen DEF HoldsTurn
    <2>2. StaticTurn(u, k)' = StaticTurn(u, k) /\ OwedTurn(u, k)' = OwedTurn(u, k)
        BY <1>0, <1>1, OtherTurns, TurnThen DEF StaticTurn, OwedTurn
    <2>3. SharedTurn(u, k)' = SharedTurn(u, k)
        BY <1>0, <1>1, OtherTurns, TurnThen DEF SharedTurn
    <2> QED
        BY <2>1, <2>2, <2>3
<1>9. \A u \in Team : Holds(u, k)' => Holds(u, k) /\ HoldsTurn(u, k)'
    BY <1>6, <1>7, <1>8 DEF Turns
<1>10. Static(k) => StaticTurn(t, k)' /\ OwedTurn(t, k)'
    <2>1. StaticTurn(t, k) => StaticTurn(t, k)'
        BY <1>0, <1>1, <1>4, TurnThen DEF StaticTurn
    <2>2. Static(k) => OwedTurn(t, k)'
        BY <1>0, <1>1, TurnThen DEF Turns, OwedTurn
    <2> QED
        BY <1>6, <2>1, <2>2 DEF Turns
<1>11. SharedTurn(t, k) => SharedTurn(t, k)'
    BY <1>0, <1>1, <1>4, TurnThen DEF SharedTurn
<1>12. \A u, v \in Team : Apart(u, v, k) => Apart(u, v, k)'
    <2> SUFFICES ASSUME NEW u \in Team, NEW v \in Team, Apart(u, v, k) PROVE Apart(u, v, k)'
        OBVIOUS
    <2>1. Rest(u, k)' \subseteq Rest(u, k) /\ Rest(v, k)' \subseteq Rest(v, k)
        BY <1>0, <1>1, <1>4, OtherTurns
    <2>2. Apart(u, v, k)' <=>
             /\ tOrdered'[u] # tOrdered'[v]
             /\ tOrdered'[u] < tOrdered'[v] => \A x \in Rest(u, k)', y \in Rest(v, k)' : x < y
        BY <1>0, TurnThen
    <2> QED
        BY <1>1, <2>1, <2>2 DEF Apart
<1>13. Static(k) => /\ \A u \in Team : Holds(u, k)' => StaticTurn(u, k)'
                    /\ \A u \in Team : OwedTurn(u, k)'
    BY <1>8, <1>10 DEF Turns
<1>14. ~Static(k) =>
          /\ scheduleCount' >= orderedCount'
          /\ \A u \in Team : Holds(u, k)' => SharedTurn(u, k)'
          /\ \A u, v \in Team : Holds(u, k)' /\ Holds(v, k)' /\ u # v => Apart(u, v, k)'
    BY <1>1, <1>6, <1>8, <1>9, <1>11, <1>12 DEF Turns
<1> QED
    BY <1>5, <1>9, <1>13, <1>14 DEF Turns

\* The turn is over when nothing is left of the chunk.
LEMMA TurnOver ==
    ASSUME Known, NEW t \in Team, NEW k, k = at[t], IsLoop(program[k]), Holds(t, k),
           HoldsTurn(t, k), Remaining(t) <= 0
    PROVE  Rest(t, k) = {}
<1> SUFFICES ASSUME NEW i \in Rest(t, k) PROVE FALSE
    OBVIOUS
<1>1. /\ i \in Iteration(k) /\ ~Past(cur[t].lower, Value(k, i), program[k].incr)
      /\ ~Past(Value(k, i), cur[t].upper, program[k].incr)
    BY DEF Rest
<1>2. IsLoop(program[k]) /\ i \in Int
    BY <1>1, ValueLimit DEF Iteration
<1>3. /\ t \in Thread /\ cur[t] \in Records /\ tRest[t] \in Int /\ pc[t] \in {"body", "endOrdered"}
    BY Basics DEF Known, TypeInv, Records, Holds
<1>4. /\ cur[t].incr = program[k].incr
      /\ ChunkLeft(t) => \E j \in Iteration(k) : cur[t].lower = Value(k, j)
    BY <1>3 DEF Known, ChunkInv
<1>5. ChunkLeft(t)
    <2>1. Value(k, i) \in Int
        BY <1>2, ValueMoves
    <2>2. /\ cur[t].lower \in Int /\ cur[t].upper \in Int /\ program[k].incr \in Int
          /\ program[k].incr # 0
        BY <1>2, <1>3, LoopFields DEF Records
    <2> QED
        BY <1>1, <1>4, <2>1, <2>2 DEF ChunkLeft, Past
<1>6. PICK j \in Iteration(k) : cur[t].lower = Value(k, j)
    BY <1>4, <1>5
<1>7. j \in Int
    BY <1>2, <1>6, ValueLimit DEF Iteration
<1>8. PICK n \in Int : n = Remaining(t)
    BY <1>3 DEF Remaining
<1>9. PICK m \in Int : m = j + n
    BY <1>7, <1>8
<1>10. Past(Value(k, m), Value(k, i), program[k].incr)
    <2>1. Value(k, j) + n * program[k].incr = Value(k, m)
        BY <1>2, <1>7, <1>8, <1>9, ValueMoves
    <2>2. Past(cur[t].lower + Remaining(t) * program[k].incr, Value(k, i), program[k].incr)
        BY DEF HoldsTurn
    <2> QED
        BY <1>6, <1>8, <2>1, <2>2
<1>11. i < m
    BY <1>2, <1>9, <1>10, ValueOrder
<1>12. ~(i < j)
    <2>1. ~Past(Value(k, j), Value(k, i), program[k].incr)
        BY <1>1, <1>6
    <2> QED
        BY <1>2, <1>7, <2>1, ValueOrder
<1> QED
    BY <1>2, <1>7, <1>8, <1>9, <1>11, <1>12

LEMMA NumbersApart ==
    ASSUME teamSize \in Nat \ {0}, NEW t \in Team, NEW s \in Nat, NEW u \in Team, NEW x \in Nat,
           Number(t, s) = Number(u, x)
    PROVE  t = u /\ s = x
BY Numbers

\* a thread leaves the ordered region, and with its last iteration the turn passes
LEMMA TurnEnd ==
    ASSUME Known, NEW t \in Team, NEW k, k = at[t], EndOrdered(t), teamSize > 1,
           Turns(k), Static(k) => Owed(t, k)' \subseteq Owed(t, k)
    PROVE  Turns(k)'
<1>0. /\ UNCHANGED regionVars /\ Step(t) /\ k \in Construct /\ t \in Thread /\ k \in Nat
      /\ teamSize \in Nat \ {0} /\ tSchedule[t] \in Nat /\ at[t] \in Nat
    BY StepFacts DEF Step
<1>1. /\ IsLoop(program[k]) /\ AtScheduler(k) /\ pc[t] = "endOrdered" /\ pc'[t] = "body" /\ at' = at
      /\ tRest[t] - 1 \in Int /\ tRest' = [tRest EXCEPT ![t] = tRest[t] - 1]
      /\ UNCHANGED <<loopLower, scheduleCount, tOrdered, tSchedule, cur>>
    BY EndOrderedIs
<1>2. Team' = Team /\ Static(k)' = Static(k)
    BY <1>0, SameProgram
<1>3. Holds(t, k) /\ HoldsTurn(t, k) /\ tOrdered[t] = orderedCount
    BY <1>1 DEF Holds, Turns, HoldsTurn
<1>4. tRest'[t] = tRest[t] - 1
    BY <1>0, <1>1 DEF Known, TypeInv
<1>5. Remaining(t)' = Remaining(t)
    BY <1>0, <1>1, <1>4, TurnThen DEF Remaining
<1>6. Rest(t, k)' = Rest(t, k)
    <2>1. /\ Iteration(k)' = Iteration(k) /\ \A i : Value(k, i)' = Value(k, i)
          /\ program' = program
        BY <1>0, SameProgram
    <2> QED
        BY <1>1, <2>1 DEF Rest, Holds, Past
<1>7. HoldsTurn(t, k)'
    <2>1. pc'[t] # "endOrdered" /\ cur'[t].lower = cur[t].lower
        BY <1>1
    <2> QED
        BY <1>0, <1>3, <1>5, <1>6, <2>1, TurnThen DEF HoldsTurn
<1>8. \A u \in Team : /\ Holds(u, k)' = Holds(u, k) /\ Rest(u, k)' = Rest(u, k)
                      /\ tOrdered'[u] = tOrdered[u] /\ tSchedule'[u] = tSchedule[u]
    <2>1. /\ Holds(t, k)' = Holds(t, k) /\ tOrdered'[t] = tOrdered[t]
          /\ tSchedule'[t] = tSchedule[t]
        BY <1>0, <1>1, <1>3, TurnThen
    <2>2. ASSUME NEW u \in Team \ {t}
          PROVE  /\ Holds(u, k)' = Holds(u, k) /\ Rest(u, k)' = Rest(u, k)
                 /\ tOrdered'[u] = tOrdered[u] /\ tSchedule'[u] = tSchedule[u]
        BY <1>0, <1>1, OtherTurns
    <2> QED
        BY <1>6, <2>1, <2>2
<1>9. \A u \in Team : StaticTurn(u, k)' = StaticTurn(u, k)
    BY <1>0, <1>8, TurnThen DEF StaticTurn
<1>10. \A u, v \in Team : Apart(u, v, k)' = Apart(u, v, k)
    BY <1>0, <1>8, TurnThen DEF Apart
<1>11. Static(k) => \A u \in Team : Owed(u, k)' \subseteq Owed(u, k)
    BY <1>0, <1>1, OtherTurns
<1>12. CASE tRest[t] - 1 > 0
    <2>1. orderedCount' = orderedCount
        BY <1>12, EndOrderedIs
    <2>2. \A u \in Team : Holds(u, k) => HoldsTurn(u, k)'
        <3> SUFFICES ASSUME NEW u \in Team, Holds(u, k), u # t PROVE HoldsTurn(u, k)'
            BY <1>7
        <3>1. HoldsTurn(u, k)
            BY DEF Turns
        <3> QED
            BY <1>0, <1>1, <2>1, <3>1, OtherTurns, TurnThen DEF HoldsTurn
    <2>3. \A u \in Team : SharedTurn(u, k)' = SharedTurn(u, k)
        BY <1>0, <1>1, <1>8, <2>1, TurnThen DEF SharedTurn
    <2>4. Static(k) => \A u \in Team : OwedTurn(u, k) => OwedTurn(u, k)'
        BY <1>0, <1>11, <2>1, TurnThen DEF OwedTurn
    <2>5. Static(k) => /\ \A u \in Team : Holds(u, k)' => StaticTurn(u, k)'
                       /\ \A u \in Team : OwedTurn(u, k)'
        BY <1>8, <1>9, <2>4 DEF Turns
    <2>6. ~Static(k) =>
              /\ scheduleCount' >= orderedCount'
              /\ \A u \in Team : Holds(u, k)' => SharedTurn(u, k)'
              /\ \A u, v \in Team : Holds(u, k)' /\ Holds(v, k)' /\ u # v => Apart(u, v, k)'
        BY <1>1, <1>8, <1>10, <2>1, <2>3 DEF Turns
    <2> QED
        BY <1>2, <1>8, <2>2, <2>5, <2>6 DEF Turns
<1>13. CASE ~(tRest[t] - 1 > 0)
    <2>1. orderedCount' = orderedCount + 1
        BY <1>13, EndOrderedIs
    <2>2. Rest(t, k) = {}
        <3>1. Remaining(t) <= 0
            BY <1>1, <1>13 DEF Remaining
        <3> QED
            BY <1>1, <1>3, <3>1, TurnOver
    <2>3. /\ orderedCount \in Int /\ scheduleCount \in Int /\ \A u \in Team : tOrdered[u] \in Int
          /\ \A u \in Team : tSchedule[u] \in Nat
        BY Basics DEF Known, TypeInv
    <2>4. ASSUME NEW u \in Team, u # t, Holds(u, k) PROVE tOrdered[u] # orderedCount
        <3>1. CASE Static(k)
            <4>1. /\ tOrdered[u] = Number(u, tSchedule[u] - 1) /\ tSchedule[u] > 0
                  /\ tOrdered[t] = Number(t, tSchedule[t] - 1) /\ tSchedule[t] > 0
                BY <1>3, <2>4, <3>1 DEF Turns, StaticTurn
            <4>2. PICK x \in Nat, y \in Nat : x = tSchedule[u] - 1 /\ y = tSchedule[t] - 1
                BY <2>3, <4>1
            <4>3. Number(u, x) # Number(t, y)
                BY <1>0, <2>4, <4>2, NumbersApart
            <4> QED
                BY <1>3, <4>1, <4>2, <4>3
        <3>2. CASE ~Static(k)
            BY <1>3, <2>4, <3>2 DEF Turns, Apart
        <3> QED
            BY <3>1, <3>2
    <2>5. \A u \in Team : Holds(u, k) => HoldsTurn(u, k)'
        <3> SUFFICES ASSUME NEW u \in Team, Holds(u, k), u # t PROVE HoldsTurn(u, k)'
            BY <1>7
        <3>1. HoldsTurn(u, k)
            BY DEF Turns
        <3>2. pc[u] # "endOrdered"
            BY <2>4, <3>1 DEF HoldsTurn
        <3> QED
            BY <1>0, <1>1, <3>1, <3>2, OtherTurns, TurnThen DEF HoldsTurn
    <2>6. ~Static(k) => \A u \in Team : Holds(u, k) => SharedTurn(u, k)'
        <3> SUFFICES ASSUME ~Static(k), NEW u \in Team, Holds(u, k) PROVE SharedTurn(u, k)'
            OBVIOUS
        <3>1. SharedTurn(u, k)
            BY DEF Turns
        <3>2. \A i \in Rest(u, k) : tOrdered[u] >= orderedCount + 1
            BY <2>2, <2>3, <2>4, <3>1 DEF SharedTurn
        <3> QED
            BY <1>0, <1>1, <1>8, <2>1, <3>1, <3>2, TurnThen DEF SharedTurn
    <2>7. ~Static(k) => scheduleCount' >= orderedCount'
        <3>1. ~Static(k) => tOrdered[t] < scheduleCount
            BY <1>3 DEF Turns, SharedTurn
        <3> QED
            BY <1>1, <1>3, <2>1, <2>3, <3>1
    <2>8. Static(k) => \A u \in Team : OwedTurn(u, k)'
        <3> SUFFICES ASSUME Static(k), NEW u \in Team, NEW s \in 0..Trip(k), NEW i \in Owed(u, k),
                            InChunk(k, Number(u, s), i)
                     PROVE  Number(u, s) >= orderedCount + 1
            BY <1>0, <1>11, <2>1, TurnThen
        <3>1. Number(u, s) >= orderedCount
            BY DEF Turns, OwedTurn
        <3>2. s \in Nat
            BY <1>1, ValueLimit
        <3>3. Number(u, s) \in Nat
            BY <1>0, <3>2, Numbers
        <3>4. ASSUME Number(u, s) = orderedCount PROVE FALSE
            <4>1. tOrdered[t] = Number(t, tSchedule[t] - 1) /\ tSchedule[t] > 0
                BY <1>3 DEF Turns, StaticTurn
            <4>2. PICK y \in Nat : y = tSchedule[t] - 1
                BY <1>0, <4>1
            <4>3. u = t /\ s = y
                <5>1. Number(u, s) = Number(t, y)
                    BY <1>3, <3>4, <4>1, <4>2
                <5> QED
                    BY <1>0, <3>2, <4>2, <5>1, NumbersApart
            <4>4. i \in FromOn(t, k, tSchedule[t])
                <5>1. i \in Future(t, k)
                    BY <2>2, <4>3 DEF Owed
                <5> QED
                    BY <1>0, <1>1, <5>1, FutureNow DEF LoopLabels
            <4>5. PICK x \in 0..Trip(k) : InChunk(k, Number(t, x), i) /\ x >= tSchedule[t]
                BY <4>4 DEF FromOn
            <4>6. x \in Nat /\ i \in Int
                <5>1. i \in Iteration(k)
                    BY <4>4 DEF FromOn
                <5> QED
                    BY <1>1, <5>1, ValueLimit DEF Iteration
            <4>7. s = x
                BY <1>0, <1>1, <3>2, <4>3, <4>5, <4>6, InOneChunk
            <4> QED
                BY <1>0, <4>2, <4>3, <4>5, <4>7
        <3> QED
            BY <2>3, <3>1, <3>3, <3>4
    <2>9. Static(k) => \A u \in Team : Holds(u, k)' => StaticTurn(u, k)'
        BY <1>8, <1>9 DEF Turns
    <2>10. ~Static(k) =>
              \A u, v \in Team : Holds(u, k)' /\ Holds(v, k)' /\ u # v => Apart(u, v, k)'
        BY <1>8, <1>10 DEF Turns
    <2> QED
        BY <1>2, <1>8, <2>5, <2>6, <2>7, <2>8, <2>9, <2>10 DEF Turns
<1> QED
    BY <1>12, <1>13

\* a loop becomes the current one: nobody works on it, and it is nobody's turn
LEMMA TurnStart ==
    ASSUME Known, NEW t \in Team, NEW k, k = at[t], InitTeam(t), ~(loopCount >= tLoop[t]),
           program[k].ordered
    PROVE  Turns(k)'
<1>0. /\ UNCHANGED regionVars /\ Step(t) /\ k \in Construct /\ teamSize \in Nat \ {0}
      /\ Here(t) = program[k] /\ Team \subseteq Thread
      /\ \A u \in Thread \ {t} : at'[u] = at[u] /\ pc'[u] = pc[u]
    BY StepFacts, Motion, Basics DEF Step, Known
<1>1. k \notin Begun(Loops) /\ k \in Loops /\ pc'[t] = "next"
    BY FirstInit
<1>2. IsLoop(program[k])
    BY <1>1 DEF Loops, AtScheduler
<1>3. orderedCount' = 0 /\ scheduleCount' = 0
    BY <1>0 DEF InitTeam, SetBounds
<1>4. \A u \in Team : ~Holds(u, k)'
    <2> SUFFICES ASSUME NEW u \in Team, at'[u] = k, pc'[u] \in {"body", "endOrdered"} PROVE FALSE
        BY <1>0, TurnThen
    <2>1. u # t
        BY <1>1
    <2>2. at[u] = k /\ pc[u] \in {"body", "endOrdered"}
        BY <1>0, <2>1
    <2> QED
        BY <1>1, <2>2 DEF Begun, Chosen
<1>5. \A u \in Team : OwedTurn(u, k)'
    <2> SUFFICES ASSUME NEW u \in Team, NEW s \in 0..Trip(k) PROVE Number(u, s) >= 0
        BY <1>0, <1>3, TurnThen
    <2>1. s \in Nat
        BY <1>2, ValueLimit
    <2>2. Number(u, s) \in Nat
        BY <1>0, <2>1, Numbers
    <2> QED
        BY <2>2
<1>6. Team' = Team /\ scheduleCount' >= orderedCount'
    BY <1>0, <1>3, SameProgram
<1> QED
    BY <1>4, <1>5, <1>6 DEF Turns

\* Only the first thread of a team makes a loop the current one.
LEMMA NewCurrent ==
    ASSUME Known, NEW t \in Team, Step(t), teamSize > 1, NEW k \in Construct, Current(k)', ~Current(k)
    PROVE  k = at[t] /\ InitTeam(t) /\ ~(loopCount >= tLoop[t])
<1>0. /\ pc[t] # "idle" /\ Here(t) = program[at[t]] /\ at[t] \in Construct /\ teamSize # 1
      /\ DOMAIN pc = Thread /\ t \in Thread
    BY StepFacts
<1>1. Begun(Loops)' # Begun(Loops)
    BY DEF Current
<1>2. /\ at[t] \in Loops /\ Begun(Loops)' = Begun(Loops) \cup {at[t]}
      /\ pc[t] \in LoopLabels \cup {"work"}
    BY <1>1, Touches
<1>3. k = at[t]
    BY <1>2, Latest
<1>4. at[t] \notin Begun(Loops)
    BY <1>1, <1>2
<1>5. pc[t] \in {"work", "init"}
    <2>1. ~Chosen(t, at[t])
        BY <1>2, <1>4 DEF Begun
    <2> QED
        BY <1>2, <2>1 DEF Chosen, LoopLabels
<1>6. IsLoop(program[at[t]]) /\ Here(t).kind = "loop" /\ AtScheduler(at[t])
    BY <1>0, <1>2, Kinds DEF Loops, AtScheduler
<1>7. ~CountLoop(t)
    <2> SUFFICES ASSUME CountLoop(t) PROVE Begun(Loops)' = Begun(Loops)
        BY <1>1
    <2> QED
        BY <1>0, CountLoopIs
<1>8. ~StaticInit(t)
    BY <1>6, StaticInitIs
<1>9. InitTeam(t)
    BY <1>5, <1>6, <1>7, <1>8 DEF Step, NextAlone, NextEven, NextStatic, NextDynamic, NextGuided,
        Scheduled, Iterate, EnterOrdered, EndOrdered, ChunkDone, CountSingle, EnterSingle, SingleEnd,
        Publish, Published, Copy, Barrier, AtLoop, AtSingle
<1>10. ~(loopCount >= tLoop[t])
    BY <1>4, <1>9, FirstInit
<1> QED
    BY <1>3, <1>9, <1>10

\* The counts in the team are changed for the current loop only.
LEMMA CountsOf ==
    ASSUME Known, NEW t \in Team, Step(t), teamSize > 1, NEW k \in Construct,
           Current(k), Current(k)', k # at[t]
    PROVE  UNCHANGED <<loopLower, scheduleCount, orderedCount>>
<1>0. /\ pc[t] # "idle" /\ Here(t) = program[at[t]] /\ at[t] \in Construct /\ teamSize # 1
    BY StepFacts
<1>1. ~Current(at[t])
    BY CurrentOnce DEF Known
<1>2. CASE CountLoop(t)
    BY <1>0, <1>2, CountLoopIs
<1>3. CASE InitTeam(t)
    <2>1. CASE loopCount >= tLoop[t]
        BY <1>3, <2>1 DEF InitTeam, boundVars, countVars
    <2>2. CASE ~(loopCount >= tLoop[t])
        <3>1. /\ at[t] \in Loops /\ pc[t] \in LoopLabels \cup {"work"}
              /\ Begun(Loops)' = Begun(Loops) \cup {at[t]}
            BY <1>3, FirstInit DEF LoopLabels
        <3>2. k = at[t]
            BY <3>1, Latest
        <3> QED
            BY <3>2
    <2> QED
        BY <2>1, <2>2
<1>4. CASE NextAlone(t) \/ NextEven(t) \/ NextStatic(t) \/ NextDynamic(t) \/ NextGuided(t)
    BY <1>1, <1>4, NextAloneIs, NextEvenIs, NextStaticIs, NextSharedIs
<1>5. CASE EndOrdered(t)
    <2>1. AtScheduler(at[t]) /\ pc[t] = "endOrdered"
        BY <1>5, EndOrderedIs
    <2> QED
        BY <1>1, <2>1, IsCurrent DEF Known
<1>6. CASE StaticInit(t) \/ Iterate(t) \/ EnterOrdered(t) \/ ChunkDone(t)
    BY <1>6 DEF StaticInit, Iterate, EnterOrdered, ChunkDone, boundVars, countVars
<1>7. CASE CountSingle(t) \/ EnterSingle(t) \/ SingleEnd(t) \/ Publish(t) \/ Published(t)
           \/ Copy(t) \/ Barrier(t)
    BY <1>7 DEF CountSingle, EnterSingle, SingleEnd, Publish, Published, Copy, Barrier,
        boundVars, countVars
<1> QED
    BY <1>2, <1>3, <1>4, <1>5, <1>6, <1>7 DEF Step

LEMMA OwedShrinks ==
    ASSUME NEW t, NEW k, Effect(t, k), Static(k)
    PROVE  Owed(t, k)' \subseteq Owed(t, k)
<1>1. Pool(k) = {}
    BY PoolNow
<1> QED
    BY <1>1 DEF Effect, Draws, Does

\* the loop at which the step is
LEMMA TurnHere ==
    ASSUME Known, ShareInv, NEW t \in Team, Step(t), teamSize > 1, NEW k \in Construct, k = at[t],
           Current(k), program[k].ordered, Turns(k)
    PROVE  Turns(k)'
<1>0. /\ UNCHANGED regionVars /\ t \in Thread /\ DOMAIN pc = Thread /\ Here(t) = program[k]
      /\ pc[t] # "idle" /\ k \in Nat /\ tSchedule \in [Thread -> Nat]
    BY StepFacts DEF Known, TypeInv
<1>1. IsLoop(program[k]) /\ AtScheduler(k) /\ k \in Loops /\ k \in Begun(Loops)
    BY DEF Current, Begun, Loops, AtScheduler
<1>2. Static(k) => Owed(t, k)' \subseteq Owed(t, k)
    BY <1>1, LoopEffect, OwedShrinks
<1>3. ASSUME UNCHANGED <<loopLower, scheduleCount, orderedCount>>,
             at'[t] # k \/ pc'[t] \notin {"body", "endOrdered"}
      PROVE  Turns(k)'
    <2>1. ~Holds(t, k)'
        BY <1>0, <1>3, TurnThen
    <2> QED
        BY <1>1, <1>2, <1>3, <2>1, TurnQuiet
<1>4. EndConstruct(t) => at'[t] # k \/ pc'[t] \notin {"body", "endOrdered"}
    <2>1. EndConstruct(t) => pc'[t] \in {"work", "idle", "barrier"}
        BY <1>0 DEF EndConstruct, Proceed, Reach, Goto
    <2> QED
        BY <2>1
<1>5. CASE CountLoop(t)
    <2>1. pc'[t] = "init" /\ UNCHANGED <<loopLower, scheduleCount, orderedCount>>
        BY <1>5, CountLoopIs
    <2> QED
        BY <1>3, <2>1
<1>6. CASE InitTeam(t)
    <2>1. loopCount >= tLoop[t] /\ pc'[t] = "next"
        BY <1>1, <1>6, FirstInit
    <2>2. UNCHANGED <<loopLower, scheduleCount, orderedCount>>
        BY <1>6, <2>1 DEF InitTeam, boundVars, countVars
    <2> QED
        BY <1>3, <2>1, <2>2
<1>7. ASSUME Static(k), UNCHANGED orderedCount, NEW s \in Nat, s = tSchedule[t],
             tSchedule' = [tSchedule EXCEPT ![t] = s + 1], pc'[t] = "body", at' = at,
             NEW d, Gets(t, d), Has(k, d, ChunkOf(k, Number(t, s))),
             Turned(t, k, Number(t, s), ChunkOf(k, Number(t, s)))
      PROVE  Turns(k)'
    <2>1. Rest(t, k)' = ChunkOf(k, Number(t, s))
        BY <1>0, <1>1, <1>7, RestThen DEF Gets
    <2>2. tSchedule'[t] = s + 1
        BY <1>0, <1>7
    <2> QED
        BY <1>1, <1>2, <1>7, <2>1, <2>2, TurnDeal
<1>8. CASE NextEven(t)
    <2>1. Static(k) /\ UNCHANGED <<loopLower, scheduleCount, orderedCount>>
        BY <1>8, NextEvenIs DEF countVars
    <2>2. CASE /\ tSchedule[t] = 0 /\ tSchedule' = [tSchedule EXCEPT ![t] = 1]
               /\ pc'[t] = "body" /\ at' = at
               /\ \E d : Gets(t, d) /\ Has(k, d, ChunkOf(k, Number(t, 0)))
               /\ Turned(t, k, Number(t, 0), ChunkOf(k, Number(t, 0)))
        <3>1. PICK s \in Nat : s = 0
            OBVIOUS
        <3>2. PICK d : Gets(t, d) /\ Has(k, d, ChunkOf(k, Number(t, 0)))
            BY <2>2
        <3>3. /\ s = tSchedule[t] /\ Has(k, d, ChunkOf(k, Number(t, s)))
              /\ Turned(t, k, Number(t, s), ChunkOf(k, Number(t, s)))
            BY <2>2, <3>1, <3>2
        <3>4. tSchedule' = [tSchedule EXCEPT ![t] = s + 1]
            <4>1. s + 1 = 1
                BY <3>1
            <4> QED
                BY <2>2, <4>1
        <3>5. UNCHANGED orderedCount
            BY <2>1
        <3> QED
            BY <1>7, <2>1, <2>2, <3>2, <3>3, <3>4, <3>5
    <2>3. CASE EndConstruct(t)
        BY <1>3, <1>4, <2>1, <2>3
    <2> QED
        BY <1>8, <2>2, <2>3, NextEvenIs
<1>9. CASE NextStatic(t)
    <2>1. Static(k) /\ UNCHANGED <<loopLower, scheduleCount, orderedCount>>
        BY <1>9, NextStaticIs DEF countVars
    <2>2. ASSUME NEW s \in Nat, s = tSchedule[t], tSchedule' = [tSchedule EXCEPT ![t] = s + 1],
                 pc'[t] = "body", at' = at,
                 \E d : Gets(t, d) /\ Has(k, d, ChunkOf(k, Number(t, s))),
                 Turned(t, k, Number(t, s), ChunkOf(k, Number(t, s)))
          PROVE  Turns(k)'
        BY <1>7, <2>1, <2>2
    <2>3. CASE EndConstruct(t)
        BY <1>3, <1>4, <2>1, <2>3
    <2> QED
        BY <1>9, <2>2, <2>3, NextStaticIs
<1>10. CASE NextDynamic(t) \/ NextGuided(t)
    <2>1. ~Static(k) /\ UNCHANGED orderedCount /\ pc[t] = "next" /\ Shares(t, k)
        BY <1>10, NextSharedIs
    <2>2. ASSUME NEW a \in Iteration(k), NEW b \in Nat, a < b,
                 loopLower = Value(k, a), loopLower' = Value(k, b), pc'[t] = "body", at' = at,
                 \E d : Gets(t, d) /\ Has(k, d, Between(k, a, b)),
                 Turned(t, k, scheduleCount, Between(k, a, b)),
                 scheduleCount' = scheduleCount + 1
          PROVE  Turns(k)'
        <3>1. Rest(t, k)' = Between(k, a, b)
            BY <1>0, <1>1, <2>2, RestThen DEF Gets
        <3>2. ~Holds(t, k)
            BY <2>1 DEF Holds
        <3> QED
            BY <1>1, <2>1, <2>2, <3>1, <3>2, TurnShare
    <2>3. CASE EndConstruct(t) /\ UNCHANGED <<loopLower, scheduleCount>>
        BY <1>3, <1>4, <2>1, <2>3
    <2> QED
        BY <2>1, <2>2, <2>3 DEF Shares
<1>11. CASE EnterOrdered(t)
    BY <1>2, <1>11, TurnEnter
<1>12. CASE EndOrdered(t)
    BY <1>2, <1>12, TurnEnd
<1>13. CASE ChunkDone(t)
    <2>1. pc'[t] = "next" /\ UNCHANGED <<loopLower, scheduleCount, orderedCount>>
        BY <1>1, <1>13, ChunkDoneIs
    <2> QED
        BY <1>3, <2>1
<1>14. CASE Barrier(t)
    <2>1. at'[t] # k /\ UNCHANGED <<loopLower, scheduleCount, orderedCount>>
        <3>1. at'[t] = at[t] + 1
            BY <1>0, <1>14 DEF Barrier, Proceed, Known, PlaceInv
        <3> QED
            BY <1>0, <1>14, <3>1 DEF Barrier, boundVars, countVars
    <2> QED
        BY <1>3, <2>1
<1>15. ~StaticInit(t) /\ ~NextAlone(t) /\ ~Iterate(t)
    BY <1>0, <1>1, StaticInitIs, NextAloneIs DEF Iterate
<1>16. ~(CountSingle(t) \/ EnterSingle(t) \/ SingleEnd(t) \/ Publish(t) \/ Published(t) \/ Copy(t))
    <2>1. pc[t] \notin {"single", "singleEnd"} \cup CopyLabels /\ Here(t).kind = "loop"
        BY <1>0, <1>1, Kinds DEF Known, PlaceInv
    <2> QED
        BY <2>1 DEF CountSingle, EnterSingle, SingleEnd, Publish, Published, Copy, AtSingle, CopyLabels
<1> QED
    BY <1>5, <1>6, <1>8, <1>9, <1>10, <1>11, <1>12, <1>13, <1>14, <1>15, <1>16 DEF Step

LEMMA TurnStep ==
    ASSUME Known, ShareInv, TurnInv, NEW t \in Team, Step(t)
    PROVE  TurnInv'
<1>0. /\ UNCHANGED regionVars /\ program' = program /\ teamSize' = teamSize /\ Construct' = Construct
    BY StepFacts, SameProgram
<1> SUFFICES ASSUME NEW k \in Construct, Current(k)', program[k].ordered, teamSize > 1
             PROVE  Turns(k)'
    BY <1>0 DEF TurnInv, Turns, HoldsTurn, StaticTurn, OwedTurn, SharedTurn, Apart
<1>1. CASE ~Current(k)
    BY <1>1, NewCurrent, TurnStart
<1>2. CASE Current(k) /\ k = at[t]
    BY <1>2, TurnHere, TurnIsTurns
<1>3. CASE Current(k) /\ k # at[t]
    <2>1. Turns(k) /\ IsLoop(program[k])
        BY <1>3, TurnIsTurns DEF Current, Begun, Loops, AtScheduler
    <2>2. UNCHANGED <<loopLower, scheduleCount, orderedCount>>
        BY <1>3, CountsOf
    <2>3. Rest(t, k)' = Rest(t, k) /\ Future(t, k)' = Future(t, k)
        BY <1>3, <2>1, Elsewhere
    <2>4. ~Holds(t, k)'
        <3>1. at' = at \/ pc'[t] \in {"work", "idle"}
            BY StepFacts, Motion DEF Known
        <3> QED
            BY <1>0, <1>3, <3>1, TurnThen
    <2> QED
        BY <2>1, <2>2, <2>3, <2>4, TurnQuiet DEF Owed
<1> QED
    BY <1>1, <1>2, <1>3

-----------------------------------------------------------------------------
(* Ordered regions *)

\* A thread owes an iteration of a static schedule by one of its chunks.
LEMMA OwedChunk ==
    ASSUME Known, NEW k \in Construct, IsLoop(program[k]), Static(k), Turns(k),
           NEW u \in Team, NEW h \in Owed(u, k)
    PROVE  \E s \in 0..Trip(k) : InChunk(k, Number(u, s), h)
<1>1. teamSize \in Nat \ {0} /\ u \in Thread
    BY Basics DEF Known
<1>2. CASE h \in Future(u, k)
    BY <1>2 DEF Future
<1>3. CASE h \in Rest(u, k)
    <2>1. Holds(u, k) /\ h \in Iteration(k)
        BY <1>3 DEF Rest, Holds
    <2>2. tSchedule[u] > 0 /\ InChunk(k, Number(u, tSchedule[u] - 1), h)
        BY <1>3, <2>1 DEF Turns, StaticTurn
    <2>3. PICK x \in Nat : x = tSchedule[u] - 1
        BY <1>1, <2>2 DEF Known, TypeInv
    <2>4. PICK v \in Team, s \in 0..Trip(k) : InChunk(k, Number(v, s), h)
        BY <1>1, <2>1, Covered
    <2>5. s \in Nat /\ h \in Int
        BY <2>1, ValueLimit DEF Iteration
    <2>6. InChunk(k, Number(u, x), h)
        BY <2>2, <2>3
    <2>7. u = v /\ x = s
        BY <1>1, <2>4, <2>5, <2>6, InOneChunk
    <2> QED
        BY <2>4, <2>7
<1> QED
    BY <1>2, <1>3 DEF Owed

\* Past is transitive where it matters.
LEMMA PastBoth ==
    ASSUME NEW a \in Int, NEW b \in Int, NEW c \in Int, NEW d \in Int, Past(a, b, d), Past(b, c, d)
    PROVE  Past(a, c, d)
BY DEF Past

\* What comes before an iteration whose turn it is has been executed.
LEMMA TurnCome ==
    ASSUME Known, ShareInv, TurnInv, NEW t \in Team, NEW k, k = at[t], EnterOrdered(t),
           NEW i \in Rest(t, k), \A j \in Rest(t, k) : i <= j, NEW h \in Iteration(k), h < i
    PROVE  Value(k, h) \in RanAt(k)
<1>1. /\ k \in Construct /\ IsLoop(program[k]) /\ pc[t] = "body" /\ Here(t) = program[k]
      /\ teamSize \in Nat \ {0} /\ t \in Thread /\ k \in Nat /\ tSchedule[t] \in Nat /\ at[t] \in Nat
    BY AdvanceIs, StepFacts DEF Step
<1>2. program[k].ordered /\ AtScheduler(k)
    <2>1. program[k].ordered
        BY <1>1 DEF EnterOrdered
    <2> QED
        BY <1>1, <2>1 DEF IsLoop, AtScheduler
<1>3. Current(k) /\ k \in Loops /\ k \in Begun(Loops)
    BY <1>1, <1>2, IsCurrent DEF Known
<1>4. i \in Iteration(k) /\ i \in Int /\ h \in Int /\ Holds(t, k)
    BY <1>1, ValueLimit DEF Rest, Iteration, Holds
<1>5. h \notin Rest(t, k)
    BY <1>4
<1> SUFFICES h \notin Pool(k) /\ \A u \in Team : h \notin Owed(u, k)
    BY <1>1 DEF ShareInv
<1>6. ~Static(k) => \A u \in Team : Future(u, k) = {}
    BY DEF Future
<1>7. CASE teamSize = 1
    <2>1. ~Static(k)
        BY <1>2, <1>7 DEF Static
    <2>2. Pool(k) = {}
        <3>1. scheduleCount # 0
            BY <1>1, <1>2, <1>7 DEF Known, ChunkInv
        <3> QED
            BY <1>3, <1>7, <3>1, PoolNow
    <2>3. \A u \in Team : u = t
        BY <1>7 DEF Team
    <2> QED
        BY <1>5, <1>6, <2>1, <2>2, <2>3 DEF Owed
<1>8. CASE teamSize > 1
    <2>1. Turns(k)
        BY <1>1, <1>2, <1>3, <1>8, TurnIsTurns
    <2>2. orderedCount = tOrdered[t]
        BY <1>8 DEF EnterOrdered
    <2>3. CASE Static(k)
        <3>1. Pool(k) = {}
            BY <2>3, PoolNow
        <3> SUFFICES ASSUME NEW u \in Team, h \in Owed(u, k) PROVE FALSE
            BY <3>1
        <3>2. PICK s \in 0..Trip(k) : InChunk(k, Number(u, s), h)
            BY <1>1, <2>1, <2>3, OwedChunk
        <3>3. s \in Nat
            BY <1>1, ValueLimit
        <3>4. /\ tSchedule[t] > 0 /\ tOrdered[t] = Number(t, tSchedule[t] - 1)
              /\ InChunk(k, tOrdered[t], i)
            BY <1>4, <2>1, <2>3 DEF Turns, StaticTurn
        <3>5. PICK y \in Nat : y = tSchedule[t] - 1
            BY <1>1, <3>4
        <3>6. PICK p \in Nat, q \in Nat : p = Number(t, y) /\ q = Number(u, s)
            BY <1>1, <3>3, Numbers
        <3>7. InChunk(k, p, i) /\ InChunk(k, q, h) /\ q >= p
            <4>1. Number(u, s) >= orderedCount
                BY <2>1, <2>3, <3>2 DEF Turns, OwedTurn
            <4> QED
                BY <2>2, <3>2, <3>4, <3>5, <3>6, <4>1
        <3>8. ~(p < q)
            BY <1>1, <1>4, <3>7, ChunkOrder
        <3>9. u = t /\ s = y
            <4>1. Number(u, s) = Number(t, y)
                BY <3>6, <3>7, <3>8
            <4> QED
                BY <1>1, <3>3, <3>5, <4>1, NumbersApart
        <3>10. h \in FromOn(t, k, tSchedule[t])
            <4>1. h \in Future(t, k)
                BY <1>5, <3>9 DEF Owed
            <4> QED
                BY <1>1, <1>2, <2>3, <4>1, FutureNow DEF LoopLabels
        <3>11. PICK x \in 0..Trip(k) : InChunk(k, Number(t, x), h) /\ x >= tSchedule[t]
            BY <3>10 DEF FromOn
        <3>12. x \in Nat
            BY <1>1, ValueLimit
        <3>13. s = x
            BY <1>1, <1>4, <3>2, <3>3, <3>9, <3>11, <3>12, InOneChunk
        <3> QED
            BY <1>1, <3>5, <3>9, <3>11, <3>13
    <2>4. CASE ~Static(k)
        <3>1. h \notin Pool(k)
            <4>1. Past(loopLower, Value(k, i), program[k].incr)
                BY <1>4, <2>1, <2>4 DEF Turns, SharedTurn
            <4>2. Past(Value(k, i), Value(k, h), program[k].incr)
                BY <1>1, <1>4, ValueOrder
            <4>3. /\ Value(k, i) \in Int /\ Value(k, h) \in Int /\ loopLower \in Int
                  /\ program[k].incr \in Int
                BY <1>1, <1>4, ValueMoves, LoopFields DEF Known, TypeInv
            <4>4. Past(loopLower, Value(k, h), program[k].incr)
                BY <4>1, <4>2, <4>3, PastBoth
            <4> QED
                BY <1>3, <1>8, <2>4, <4>4, PoolNow
        <3>2. ASSUME NEW u \in Team, h \in Rest(u, k) PROVE FALSE
            <4>1. u # t
                BY <1>5, <3>2
            <4>2. Holds(u, k)
                BY <3>2 DEF Rest, Holds
            <4>3. tOrdered[u] >= tOrdered[t]
                BY <2>1, <2>2, <2>4, <3>2, <4>2 DEF Turns, SharedTurn
            <4>4. Apart(t, u, k)
                BY <1>4, <2>1, <2>4, <4>1, <4>2 DEF Turns
            <4>5. tOrdered[u] \in Int /\ tOrdered[t] \in Int
                BY Basics DEF Known, TypeInv
            <4>6. tOrdered[t] < tOrdered[u]
                BY <4>3, <4>4, <4>5 DEF Apart
            <4>7. i < h
                BY <3>2, <4>4, <4>6 DEF Apart
            <4> QED
                BY <1>4, <4>7
        <3> QED
            BY <1>6, <2>4, <3>1, <3>2 DEF Owed
    <2> QED
        BY <2>3, <2>4
<1> QED
    BY <1>1, <1>7, <1>8

\* Of an ordered loop only a thread whose turn it is executes an iteration.
LEMMA RanOrdered ==
    ASSUME Known, SingleInv, ShareInv, NEW t \in Team, Step(t), NEW k \in Construct,
           IsLoop(program[k]), program[k].ordered
    PROVE  RanAt(k)' = RanAt(k) \/ (k = at[t] /\ EnterOrdered(t))
<1>0. PICK m \in Construct : m = at[t] /\ Here(t) = program[m]
    BY StepFacts
<1>1. CASE m # k
    <2>1. CASE IsLoop(program[m])
        BY <1>0, <1>1, <2>1, DividedHere
    <2>2. CASE ~IsLoop(program[m])
        BY <1>0, <1>1, <2>2, SingleElsewhere
    <2> QED
        BY <2>1, <2>2
<1>2. CASE m = k
    <2>1. pc[t] \notin {"single", "singleEnd"} \cup CopyLabels /\ Here(t).kind = "loop"
        BY <1>0, <1>2, Kinds, StepFacts DEF Known, PlaceInv
    <2>2. ~(CountSingle(t) \/ EnterSingle(t))
        BY <2>1 DEF CountSingle, EnterSingle, AtSingle
    <2>3. ~Iterate(t)
        BY <1>0, <1>2 DEF Iterate
    <2>4. CASE EnterOrdered(t)
        BY <1>0, <1>2, <2>4
    <2>5. CASE StaticInit(t) \/ CountLoop(t) \/ InitTeam(t) \/ NextAlone(t) \/ NextEven(t)
               \/ NextStatic(t) \/ NextDynamic(t) \/ NextGuided(t) \/ EndOrdered(t) \/ ChunkDone(t)
               \/ SingleEnd(t) \/ Publish(t) \/ Published(t) \/ Copy(t) \/ Barrier(t)
        <3>1. ran' = ran
            BY <2>5 DEF StaticInit, CountLoop, InitTeam, NextAlone, NextEven, NextStatic,
                NextDynamic, NextGuided, EndOrdered, ChunkDone, SingleEnd, Publish, Published, Copy,
                Barrier, ghostVars
        <3> QED
            BY <3>1 DEF RanAt
    <2> QED
        BY <2>2, <2>3, <2>4, <2>5 DEF Step
<1> QED
    BY <1>1, <1>2

LEMMA SequenceStep ==
    ASSUME Known, SingleInv, ShareInv, TurnInv, SequenceInv, NEW t \in Team, Step(t)
    PROVE  SequenceInv'
<1>0. /\ Construct' = Construct /\ program' = program
      /\ \A k : Iteration(k)' = Iteration(k) /\ \A i : Value(k, i)' = Value(k, i)
    BY StepFacts, SameProgram
<1> SUFFICES ASSUME NEW k \in Construct, IsLoop(program[k]), program[k].ordered,
                    NEW h \in Iteration(k), NEW j \in Iteration(k), h < j,
                    Value(k, j) \in RanAt(k)'
             PROVE  Value(k, h) \in RanAt(k)'
    BY <1>0 DEF SequenceInv
<1>1. CASE RanAt(k)' = RanAt(k)
    BY <1>1 DEF SequenceInv
<1>2. CASE k = at[t] /\ EnterOrdered(t)
    <2>1. PICK i \in Rest(t, k) : (\A x \in Rest(t, k) : i <= x) /\ Execute(t, Value(k, i))
        BY <1>2, AdvanceIs
    <2>2. RanAt(k)' = RanAt(k) \cup {Value(k, i)}
        BY <1>2, <2>1, RanGrows DEF Known
    <2>3. /\ i \in Iteration(k)
          /\ IsLoop(program[k]) /\ i \in Int /\ j \in Int
        BY ValueLimit DEF Rest, Iteration
    <2>4. CASE Value(k, j) \in RanAt(k)
        BY <2>2, <2>4 DEF SequenceInv
    <2>5. CASE Value(k, j) = Value(k, i)
        <3>1. i = j
            BY <2>3, <2>5, ValueOnce
        <3>2. Value(k, h) \in RanAt(k)
            BY <1>2, <2>1, <3>1, TurnCome
        <3> QED
            BY <2>2, <3>2
    <2> QED
        BY <2>2, <2>4, <2>5
<1> QED
    BY <1>1, <1>2, RanOrdered

-----------------------------------------------------------------------------
(* A region begins *)

\* the counts that no region resets, when all threads are idle
Even == /\ loopCount \in Nat /\ tLoop \in [Thread -> Nat]
        /\ singleCount \in Nat /\ tSingle \in [Thread -> Nat]
        /\ \A t \in Thread : tLoop[t] = loopCount /\ tSingle[t] = singleCount

\* as a fork leaves the team
Fresh ==
    /\ teamSize \in TeamSizes /\ regions \in Nat
    /\ \E r \in DOMAIN Programs : program \in Programs[r]
    /\ at = [t \in Thread |-> 1] /\ met = Zero /\ cur = [t \in Thread |-> NoChunk]
    /\ pc = [t \in Thread |-> IF t < teamSize THEN "work" ELSE "idle"]
    /\ ran = {} /\ again = {}
    /\ {loopLower, loopUpper, loopIncr, chunkSize, scheduleCount, orderedCount} \subseteq Int
    /\ tSchedule \in [Thread -> Nat] /\ tOrdered \in [Thread -> Int] /\ tRest \in [Thread -> Int]
    /\ first \in [Thread -> BOOLEAN]
    /\ Even

LEMMA FreshPlace ==
    ASSUME Fresh
    PROVE  /\ PlaceInv /\ TypeInv
           /\ \A t \in Team : t \in Thread /\ at[t] = 1 /\ pc[t] = "work"
           /\ \A k \in Construct : k \in Nat /\ k >= 1
<1>1. teamSize \in Nat \ {0} /\ Thread \subseteq Nat /\ Team \subseteq Thread
    <2>1. teamSize \in TeamSizes /\ \A n \in TeamSizes : n \in Nat \ {0}
        BY ProgramAssumption DEF Fresh
    <2>2. \A n \in TeamSizes : 0..(n - 1) \subseteq Nat
        BY <2>1
    <2> QED
        BY <2>1, <2>2 DEF Thread, Team
<1>2. /\ Construct = 1..Len(program) /\ Len(program) \in Nat \ {0}
      /\ \A k \in Construct : IsLoop(program[k]) \/ IsSingle(program[k])
    BY ProgramAssumption DEF Fresh, Construct
<1>3. 1 \in Construct /\ \A k \in Construct : k \in Nat /\ k >= 1
    BY <1>2
<1>4. \A t \in Thread : t \in Team <=> t < teamSize
    BY <1>1 DEF Team
<1>5. \A t \in Team : t \in Thread /\ at[t] = 1 /\ pc[t] = "work"
    BY <1>1, <1>4 DEF Fresh
<1>6. \A t \in Thread \ Team : pc[t] = "idle"
    BY <1>4 DEF Fresh
<1>7. /\ at \in [Thread -> Nat]
      /\ pc \in [Thread -> {"idle", "work", "single", "singleEnd", "barrier"}
                              \cup LoopLabels \cup CopyLabels]
    BY DEF Fresh
<1>8. PlaceInv
    BY <1>3, <1>5, <1>6, <1>7 DEF PlaceInv, Fresh, LoopLabels, CopyLabels
<1>9. TypeInv
    <2>1. NoChunk \in [lower : Int, upper : Int, incr : Int, from : Int, stride : Int]
        BY DEF NoChunk
    <2> QED
        BY <2>1 DEF TypeInv, Fresh
<1> QED
    BY <1>3, <1>5, <1>8, <1>9

LEMMA FreshMet ==
    ASSUME Fresh
    PROVE  MetInv
<1>1. \A t \in Team : Met(t) = {} /\ Left(t) = {} /\ met[t] = 0
    <2> SUFFICES ASSUME NEW t \in Team PROVE Met(t) = {} /\ Left(t) = {} /\ met[t] = 0
        OBVIOUS
    <2>1. t \in Thread /\ at[t] = 1 /\ pc[t] = "work"
        BY FreshPlace
    <2>2. Stage(t) = 0
        BY <2>1, StageIs
    <2>3. \A b \in Barriers : b[1] \in Nat /\ b[1] >= 1 /\ b[2] \in {1, 3, 5}
        BY FreshPlace, BarrierFacts
    <2>4. Met(t) = {} /\ Left(t) = {}
        BY <2>1, <2>2, <2>3 DEF Met, Left
    <2> QED
        BY <2>1, <2>4 DEF Fresh, Zero
<1>2. met \in [Thread -> Nat]
    BY DEF Fresh, Zero
<1> QED
    BY <1>1, <1>2, FS_EmptySet DEF MetInv

LEMMA FreshCounts ==
    ASSUME Fresh, OneTeam
    PROVE  CountInv /\ \A ks \in {Loops, Singles} : Begun(ks) = {}
<1>1. \A t \in Team, k \in Construct : ~Started(t, k) /\ ~Chosen(t, k)
    BY FreshPlace DEF Started, Chosen
<1>2. Loops \subseteq Construct /\ Singles \subseteq Construct
    BY DEF Loops, Singles
<1>3. \A ks \in {Loops, Singles} : Begun(ks) = {} /\ \A t \in Team : Counted(t, ks) = {}
    BY <1>1, <1>2 DEF Begun, Counted
<1>4. ASSUME teamSize # 1 PROVE \A t \in Thread : t \in Team
    BY <1>4, FreshPlace, WholeTeam
<1>5. Begun(Loops) = {} /\ Begun(Singles) = {}
      /\ \A t \in Team : Counted(t, Loops) = {} /\ Counted(t, Singles) = {}
    BY <1>3
<1>6. \A t \in Thread : teamSize # 1 =>
          /\ tLoop[t] + Cardinality(Begun(Loops)) = loopCount + Cardinality(Counted(t, Loops))
          /\ tSingle[t] + Cardinality(Begun(Singles)) = singleCount + Cardinality(Counted(t, Singles))
    BY <1>4, <1>5, FS_EmptySet DEF Fresh, Even
<1> QED
    BY <1>3, <1>6 DEF CountInv, Fresh, Even

\* All iterations are in the pool, or each is to be given to one thread.
LEMMA FreshDivided ==
    ASSUME Fresh, OneTeam, NEW k \in Construct, IsLoop(program[k])
    PROVE  Divided(k)
<1>1. /\ teamSize \in Nat \ {0} /\ k \in Nat /\ k >= 1 /\ TypeInv
      /\ \A t \in Team : t \in Thread /\ at[t] = 1 /\ pc[t] = "work"
    BY FreshPlace, Basics
<1>2. RanAt(k) = {} /\ k \notin Begun(Loops)
    BY FreshCounts DEF Fresh, RanAt
<1>3. \A t \in Team : Rest(t, k) = {} /\ ~Started(t, k)
    BY <1>1 DEF Rest, Holds, Started
<1>4. \A t \in Team : at[t] > k \/ (at[t] = k /\ pc[t] = "barrier") => Pool(k) = {}
    BY <1>1
<1>5. CASE Static(k)
    <2>1. Pool(k) = {}
        BY <1>5, PoolNow
    <2>2. \A t \in Team : Owed(t, k) = {i \in Iteration(k) :
                              \E s \in 0..Trip(k) : InChunk(k, Number(t, s), i)}
        BY <1>3, <1>5 DEF Owed, Future, Later
    <2>3. \A i \in Iteration(k) : \E t \in Team : i \in Owed(t, k)
        BY <1>1, <2>2, Covered
    <2>4. ASSUME NEW t \in Team, NEW u \in Team, NEW i \in Owed(t, k), i \in Owed(u, k)
          PROVE  t = u
        <3>1. PICK s \in 0..Trip(k) : InChunk(k, Number(t, s), i)
            BY <2>2
        <3>2. PICK x \in 0..Trip(k) : InChunk(k, Number(u, x), i)
            BY <2>2, <2>4
        <3>3. i \in Int /\ s \in Nat /\ x \in Nat
            BY <2>2, ValueLimit DEF Iteration
        <3> QED
            BY <1>1, <3>1, <3>2, <3>3, InOneChunk
    <2> QED
        BY <1>2, <1>3, <1>4, <2>1, <2>3, <2>4 DEF Divided
<1>6. CASE ~Static(k)
    <2>1. Pool(k) = Iteration(k)
        BY <1>2, <1>6, PoolNow
    <2>2. \A t \in Team : Owed(t, k) = {}
        BY <1>3, <1>6 DEF Owed, Future
    <2> QED
        BY <1>2, <1>3, <1>4, <2>1, <2>2 DEF Divided
<1> QED
    BY <1>5, <1>6

LEMMA FreshIInv ==
    OneTeam /\ Fresh => IInv
<1> SUFFICES ASSUME OneTeam, Fresh PROVE IInv
    OBVIOUS
<1>1. PlaceInv /\ TypeInv /\ MetInv /\ CountInv
    BY FreshPlace, FreshMet, FreshCounts
<1>2. \A t \in Team : t \in Thread /\ at[t] = 1 /\ pc[t] = "work"
    BY FreshPlace
<1>3. Begun(Loops) = {} /\ Begun(Singles) = {}
    BY FreshCounts
<1>4. \A k : RanAt(k) = {}
    BY DEF Fresh, RanAt
<1>5. BoundsInv /\ TurnInv
    BY <1>3 DEF BoundsInv, TurnInv, Current
<1>6. ChunkInv
    BY <1>2 DEF ChunkInv
<1>7. ShareInv
    BY FreshDivided DEF ShareInv, Divided, Fresh
<1>8. SequenceInv
    BY <1>4 DEF SequenceInv
<1>9. SingleInv
    <2>1. \A t \in Team, k \in Construct : ~Chosen(t, k)
        BY <1>2, FreshPlace DEF Chosen
    <2> QED
        BY <1>3, <1>4, <2>1 DEF SingleInv, Singles
<1>10. CopyInv
    BY <1>4 DEF CopyInv
<1> QED
    BY <1>1, <1>5, <1>6, <1>7, <1>8, <1>9, <1>10 DEF IInv

\* A thread that is idle has been told of all the loops and singles of its region.
LEMMA IdleEven ==
    ASSUME TypeInv, PlaceInv, CountInv, OneTeam, \A t \in Thread : pc[t] = "idle"
    PROVE  Even
<1>1. CASE teamSize = 1
    BY <1>1 DEF CountInv, Even
<1>2. CASE teamSize # 1
    <2>1. Team = Thread /\ Team # {}
        BY <1>2, WholeTeam, Basics
    <2>2. /\ \A k \in Construct : k \in Nat
          /\ \A t \in Team : at[t] \in Nat /\ \A k \in Construct : k < at[t]
        BY <2>1, Basics DEF PlaceInv
    <2>3. \A t \in Team, k \in Construct : Started(t, k) /\ Chosen(t, k)
        BY <2>2 DEF Started, Chosen
    <2>4. Loops \subseteq Construct /\ Singles \subseteq Construct
        BY DEF Loops, Singles
    <2>5. /\ Begun(Loops) = Loops /\ Begun(Singles) = Singles
          /\ \A t \in Team : Counted(t, Loops) = Loops /\ Counted(t, Singles) = Singles
        BY <2>1, <2>3, <2>4 DEF Begun, Counted
    <2>6. IsFiniteSet(Loops) /\ IsFiniteSet(Singles)
        BY <2>4, Basics, FS_Subset
    <2>7. PICK l \in Nat, s \in Nat : l = Cardinality(Loops) /\ s = Cardinality(Singles)
        BY <2>6, FS_CardinalityType
    <2>8. \A t \in Thread : tLoop[t] + l = loopCount + l /\ tSingle[t] + s = singleCount + s
        BY <1>2, <2>1, <2>5, <2>7 DEF CountInv
    <2> QED
        BY <2>7, <2>8 DEF CountInv, Even
<1> QED
    BY <1>1, <1>2

LEMMA ForkFresh ==
    ASSUME IInv, OneTeam, regions < Len(Programs), NEW n \in TeamSizes,
           NEW p \in Programs[regions + 1], Fork(n, p)
    PROVE  Fresh'
<1>1. Even
    BY IdleEven DEF IInv, Fork
<1>2. Even'
    BY <1>1 DEF Even, Fork, countVars, singleVars
<1>3. regions + 1 \in DOMAIN Programs /\ regions + 1 \in Nat
    <2>1. regions \in Nat /\ Len(Programs) \in Int
        BY ProgramAssumption DEF IInv, PlaceInv
    <2>2. DOMAIN Programs = 1..Len(Programs)
        BY ProgramAssumption
    <2> QED
        BY <2>1, <2>2
<1>4. /\ {loopLower', loopUpper', loopIncr', chunkSize', scheduleCount', orderedCount'} \subseteq Int
      /\ tSchedule' \in [Thread -> Nat] /\ tOrdered' \in [Thread -> Int]
      /\ tRest' \in [Thread -> Int] /\ first' \in [Thread -> BOOLEAN]
    BY DEF IInv, TypeInv, Fork, boundVars, countVars, singleVars, orderVars
<1>5. /\ teamSize' \in TeamSizes /\ regions' \in Nat
      /\ \E r \in DOMAIN Programs : program' \in Programs[r]
      /\ at' = [t \in Thread |-> 1] /\ met' = Zero /\ cur' = [t \in Thread |-> NoChunk]
      /\ pc' = [t \in Thread |-> IF t < teamSize' THEN "work" ELSE "idle"]
      /\ ran' = {} /\ again' = {}
    BY <1>3 DEF Fork
<1>6. Zero' = Zero /\ NoChunk' = NoChunk
    BY DEF Zero, NoChunk
<1> QED
    BY <1>2, <1>4, <1>5, <1>6 DEF Fresh

-----------------------------------------------------------------------------
(* The invariant is inductive *)

LEMMA InitIInv ==
    ASSUME Init
    PROVE  IInv
<1>1. Construct = {}
    <2>1. DOMAIN <<>> = {}
        OBVIOUS
    <2> QED
        BY <2>1 DEF Init, Construct
<1>2. Team \subseteq Thread
    <2>1. PICK n \in TeamSizes : n \in Nat \ {0}
        BY ProgramAssumption
    <2>2. 0 \in 0..(n - 1)
        BY <2>1
    <2>3. 0..(n - 1) \subseteq Thread
        BY <2>1 DEF Thread
    <2>4. Team = {0}
        BY DEF Init, Team
    <2> QED
        BY <2>2, <2>3, <2>4
<1>3. \A t \in Thread : pc[t] = "idle" /\ at[t] = 0 /\ tLoop[t] = 0 /\ tSingle[t] = 0 /\ met[t] = 0
    BY DEF Init, Zero
<1>4. PlaceInv
    <2>1. /\ teamSize \in TeamSizes \cup {1} /\ regions \in Nat /\ program = <<>>
          /\ at \in [Thread -> Nat]
          /\ pc \in [Thread -> {"idle", "work", "single", "singleEnd", "barrier"}
                                  \cup LoopLabels \cup CopyLabels]
        BY DEF Init, Zero
    <2>2. \A t \in Team : pc[t] = "idle"
        BY <1>2, <1>3
    <2> QED
        BY <1>1, <1>3, <2>1, <2>2 DEF PlaceInv, LoopLabels, CopyLabels
<1>5. TypeInv
    <2>1. NoChunk \in [lower : Int, upper : Int, incr : Int, from : Int, stride : Int]
        BY DEF NoChunk
    <2> QED
        BY <2>1 DEF TypeInv, Init, Zero
<1>6. MetInv
    <2>1. Barriers = {}
        BY <1>1 DEF Barriers
    <2>2. \A t \in Team : Met(t) = {} /\ Left(t) = {}
        BY <2>1 DEF Met, Left
    <2>3. met \in [Thread -> Nat]
        BY DEF Init, Zero
    <2> QED
        BY <1>2, <1>3, <2>2, <2>3, FS_EmptySet DEF MetInv
<1>7. CountInv
    BY <1>3 DEF CountInv, Init, Zero
<1>8. BoundsInv /\ TurnInv /\ SequenceInv
    BY <1>1 DEF BoundsInv, TurnInv, SequenceInv
<1>9. ChunkInv
    BY <1>2, <1>3 DEF ChunkInv
<1>10. ShareInv
    BY <1>1 DEF ShareInv, Init
<1>11. SingleInv /\ CopyInv
    BY <1>1 DEF SingleInv, CopyInv, Singles
<1> QED
    BY <1>4, <1>5, <1>6, <1>7, <1>8, <1>9, <1>10, <1>11 DEF IInv

LEMMA StepIInv ==
    ASSUME IInv, Survives, NEW t \in Team, Step(t)
    PROVE  IInv'
<1>1. Known
    BY DEF IInv, Known, Survives
<1>2. TypeInv /\ PlaceInv /\ MetInv /\ CountInv /\ ShareInv /\ TurnInv /\ SequenceInv /\ SingleInv
      /\ CopyInv /\ OneTeam
    BY DEF IInv, Survives
<1>3. Control(t) /\ pc[t] # "idle" /\ UNCHANGED regionVars
    BY <1>2, StepControl
<1>4. PlaceInv' /\ MetInv'
    BY <1>2, <1>3, ControlPlace, ControlMet
<1>5. TypeInv' /\ CountInv' /\ BoundsInv' /\ ChunkInv'
    BY <1>1, <1>2, TypeStep, CountStep, BoundsStep, ChunkStep
<1>6. ShareInv' /\ TurnInv' /\ SequenceInv'
    BY <1>1, <1>2, ShareStep, TurnStep, SequenceStep
<1>7. SingleInv'
    BY <1>2, SingleStep
<1>8. CopyInv'
    BY <1>2, <1>7, CopyStep
<1> QED
    BY <1>4, <1>5, <1>6, <1>7, <1>8 DEF IInv

LEMMA QuietIInv ==
    ASSUME IInv, UNCHANGED vars
    PROVE  IInv'
<1>0. /\ UNCHANGED regionVars /\ UNCHANGED <<at, pc, met, cur, ran, again, tSchedule, tLoop>>
      /\ UNCHANGED <<loopLower, loopUpper, loopIncr, schedType, chunkSize>>
      /\ UNCHANGED <<scheduleCount, orderedCount, loopCount>>
      /\ UNCHANGED <<singleCount, tSingle, cppriv, first, tOrdered, tRest>>
      /\ UNCHANGED <<teamSize, program, regions>>
    BY DEF vars, boundVars, countVars, singleVars, orderVars, regionVars, ghostVars
<1>1. /\ Construct' = Construct /\ Team' = Team
      /\ \A k : /\ Iteration(k)' = Iteration(k) /\ Work(k)' = Work(k)
                /\ AtScheduler(k)' = AtScheduler(k) /\ Shared(k)' = Shared(k)
                /\ Static(k)' = Static(k) /\ \A i : Value(k, i)' = Value(k, i)
                /\ Trip(k)' = Trip(k) /\ \A q : Start(k, q)' = Start(k, q)
                /\ \A q, i : InChunk(k, q, i)' = InChunk(k, q, i)
      /\ \A t, s : Number(t, s)' = Number(t, s)
    BY <1>0, SameProgram
<1>2. TypeInv' /\ PlaceInv'
    BY <1>0, <1>1 DEF IInv, TypeInv, PlaceInv, AtScheduler
<1>3. /\ Loops' = Loops /\ Singles' = Singles
      /\ \A t, k : Started(t, k)' = Started(t, k) /\ Chosen(t, k)' = Chosen(t, k)
      /\ \A t : Stage(t)' = Stage(t) /\ Remaining(t)' = Remaining(t)
      /\ \A k : RanAt(k)' = RanAt(k)
    BY <1>0, <1>1 DEF Loops, Singles, Started, Chosen, Stage, Remaining, RanAt
<1>4. /\ \A t : Counted(t, Loops)' = Counted(t, Loops) /\ Counted(t, Singles)' = Counted(t, Singles)
      /\ Begun(Loops)' = Begun(Loops) /\ Begun(Singles)' = Begun(Singles)
    BY <1>1, <1>3 DEF Counted, Begun
<1>5. CountInv'
    BY <1>0, <1>4 DEF IInv, CountInv
<1>6. MetInv'
    <2>1. Barriers' = Barriers
        BY <1>0, <1>1 DEF Barriers, HasBarrier
    <2>2. \A t : Met(t)' = Met(t) /\ Left(t)' = Left(t)
        BY <1>0, <1>3, <2>1 DEF Met, Left
    <2> QED
        BY <1>0, <1>1, <2>2 DEF IInv, MetInv
<1>7. \A k : Current(k)' = Current(k) /\ Pool(k)' = Pool(k)
    BY <1>0, <1>4, PoolSame
<1>8. BoundsInv'
    BY <1>0, <1>1, <1>7 DEF IInv, BoundsInv
<1>9. ChunkInv'
    <2>1. \A t : ChunkLeft(t)' = ChunkLeft(t)
        BY <1>0 DEF ChunkLeft, Past
    <2> QED
        BY <1>0, <1>1, <2>1 DEF IInv, ChunkInv
<1>10. \A t, k : /\ Holds(t, k)' = Holds(t, k) /\ Rest(t, k)' = Rest(t, k)
                 /\ Future(t, k)' = Future(t, k) /\ Owed(t, k)' = Owed(t, k)
    <2>1. \A t, k : Holds(t, k)' = Holds(t, k)
        BY <1>0 DEF Holds
    <2>2. \A t, k : Rest(t, k)' = Rest(t, k)
        BY <1>0, <1>1, <2>1 DEF Rest, Past
    <2>3. \A t, k, s : Later(t, k, s)' = Later(t, k, s)
        BY <1>0, <1>1, <1>3 DEF Later, Past
    <2>4. \A t, k : Future(t, k)' = Future(t, k)
        BY <1>1, <2>3 DEF Future
    <2> QED
        BY <2>1, <2>2, <2>4 DEF Owed
<1>11. ShareInv'
    BY <1>0, <1>1, <1>3, <1>7, <1>10 DEF IInv, ShareInv
<1>12. TurnInv'
    BY <1>0, <1>1, <1>3, <1>7, <1>10 DEF IInv, TurnInv, Past
<1>13. SequenceInv'
    BY <1>0, <1>1, <1>3 DEF IInv, SequenceInv
<1>14. SingleInv'
    BY <1>0, <1>1, <1>3, <1>4 DEF IInv, SingleInv
<1>15. CopyInv'
    <2>1. Barriers' = Barriers
        BY <1>0, <1>1 DEF Barriers, HasBarrier
    <2>2. \A t : Met(t)' = Met(t)
        BY <1>0, <1>3, <2>1 DEF Met
    <2> QED
        BY <1>0, <1>1, <1>3, <2>2 DEF IInv, CopyInv
<1> QED
    BY <1>2, <1>5, <1>6, <1>8, <1>9, <1>11, <1>12, <1>13, <1>14, <1>15 DEF IInv

-----------------------------------------------------------------------------
(* What it says of the work *)

\* nothing is left of a construct whose barrier a thread has passed, or that
\* the whole team has passed without one
LEMMA DueDone ==
    ASSUME IInv, NEW k \in Construct, Due(k), IsLoop(program[k]), NEW u \in Team
    PROVE  Owed(u, k) = {} /\ (at[u] > k \/ (at[u] = k /\ pc[u] = "barrier"))
<1>0. /\ PlaceInv /\ MetInv /\ TypeInv /\ k \in Nat /\ teamSize \in Nat \ {0} /\ u \in Thread
      /\ at[u] \in Nat /\ tSchedule[u] \in Nat
    <2>1. PlaceInv /\ MetInv /\ TypeInv
        BY DEF IInv
    <2>2. k \in Nat /\ teamSize \in Nat \ {0} /\ u \in Thread
        BY <2>1, Basics
    <2> QED
        BY <2>1, <2>2 DEF PlaceInv, TypeInv
<1>1. at[u] > k \/ (at[u] = k /\ pc[u] = "barrier")
    <2>1. CASE \A t \in Team : at[t] > k
        BY <2>1
    <2>2. ASSUME NEW t \in Team, at[t] > k, ~program[k].nowait
          PROVE  at[u] > k \/ (at[u] = k /\ pc[u] = "barrier")
        <3>1. <<k, 5>> \in Barriers
            BY <2>2 DEF Barriers, HasBarrier
        <3>2. <<k, 5>> \in Left(t)
            BY <2>2, <3>1 DEF Left
        <3>3. <<k, 5>> \in Met(u)
            BY <1>0, <3>2 DEF MetInv
        <3>4. k < at[u] \/ (k = at[u] /\ 5 <= Stage(u))
            BY <3>3 DEF Met
        <3> QED
            BY <1>0, <3>4, StageIs
    <2> QED
        BY <2>1, <2>2 DEF Due
<1>2. Rest(u, k) = {}
    BY <1>0, <1>1 DEF Rest, Holds
<1>3. Future(u, k) = {}
    <2>1. Started(u, k) /\ ~(at[u] = k /\ pc[u] \in LoopLabels)
        BY <1>0, <1>1 DEF Started, LoopLabels
    <2> QED
        BY <1>0, <2>1, FutureNow
<1> QED
    BY <1>1, <1>2, <1>3 DEF Owed

LEMMA AllDone ==
    ASSUME IInv
    PROVE  DoneBeforePassing
<1> SUFFICES ASSUME NEW k \in Construct, Due(k)
             PROVE  IF IsLoop(program[k]) THEN Work(k) \subseteq RanAt(k) ELSE RanAt(k) # {}
    BY DEF DoneBeforePassing
<1>0. PlaceInv /\ Team # {} /\ (IsLoop(program[k]) \/ IsSingle(program[k]))
    BY Basics DEF IInv
<1>1. CASE IsLoop(program[k])
    <2>1. Pool(k) = {}
        BY <1>0, <1>1, DueDone DEF IInv, ShareInv
    <2>2. \A i \in Iteration(k) : Value(k, i) \in RanAt(k)
        BY <1>1, <2>1, DueDone DEF IInv, ShareInv
    <2> QED
        BY <1>1, <2>2 DEF Work
<1>2. CASE ~IsLoop(program[k])
    <2>1. k \in Singles
        BY <1>0, <1>2 DEF Singles
    <2>2. \E t \in Team : at[t] > k
        BY <1>0 DEF Due
    <2>3. k \in Begun(Singles)
        BY <2>1, <2>2 DEF Begun, Chosen
    <2> QED
        BY <1>2, <2>1, <2>3 DEF IInv, SingleInv
<1> QED
    BY <1>1, <1>2

LEMMA AllOnce ==
    ASSUME IInv
    PROVE  OnlyOnce
<1>1. again = {}
    BY DEF IInv, ShareInv
<1>2. ASSUME NEW k \in Construct, IsLoop(program[k]) PROVE RanAt(k) \subseteq Work(k)
    BY <1>2 DEF IInv, ShareInv
<1>3. ASSUME NEW k \in Construct, ~IsLoop(program[k]) PROVE Cardinality(RanAt(k)) <= 1
    <2>1. k \in Singles
        BY <1>3, Basics DEF IInv, Singles
    <2>2. \A x, y \in RanAt(k) : x = y
        BY <2>1 DEF IInv, SingleInv
    <2>3. CASE RanAt(k) = {}
        BY <2>3, FS_EmptySet
    <2>4. CASE RanAt(k) # {}
        <3>1. PICK x : RanAt(k) = {x}
            BY <2>2, <2>4
        <3>2. Cardinality({x}) = 1
            BY FS_Singleton
        <3> QED
            BY <3>1, <3>2
    <2> QED
        BY <2>3, <2>4
<1> QED
    BY <1>1, <1>2, <1>3 DEF OnlyOnce

LEMMA AllInSequence ==
    ASSUME IInv
    PROVE  OrderedInSequence
<1> SUFFICES ASSUME NEW k \in Construct, IsLoop(program[k]), program[k].ordered,
                    NEW i \in Work(k), NEW j \in RanAt(k), ~Past(i, j, program[k].incr)
             PROVE  i \in RanAt(k)
    BY DEF OrderedInSequence
<1>1. PICK a \in Iteration(k) : i = Value(k, a)
    BY DEF Work
<1>2. PICK b \in Iteration(k) : j = Value(k, b)
    BY DEF IInv, ShareInv, Work
<1>3. IsLoop(program[k]) /\ a \in Int /\ b \in Int
    BY ValueLimit DEF Iteration
<1>4. ~(b < a)
    <2>1. Past(Value(k, a), Value(k, b), program[k].incr) <=> b < a
        BY <1>3, ValueOrder
    <2> QED
        BY <1>1, <1>2, <2>1
<1>5. CASE a = b
    BY <1>1, <1>2, <1>5
<1>6. CASE a < b
    BY <1>1, <1>2, <1>6 DEF IInv, SequenceInv
<1> QED
    BY <1>3, <1>4, <1>5, <1>6

-----------------------------------------------------------------------------
(* Theorems *)

(* omp_runtime.c:475-848, 1386-1662, 1692-1774, 1942-1959: what the team, the
   threads and the compiled code hold agree at every step of every region, for
   any bounds, increments, chunk sizes, schedules and numbers of threads. *)
THEOREM Invariance == Survives => (Spec => []IInv)
<1> SUFFICES ASSUME Survives PROVE Spec => []IInv
    OBVIOUS
<1>1. Init => IInv
    BY InitIInv
<1>2. (OneTeam /\ Fresh => IInv)'
    BY FreshIInv, PTL
<1>3. IInv /\ [Next]_vars => IInv'
    <2> SUFFICES ASSUME IInv, [Next]_vars PROVE IInv'
        OBVIOUS
    <2>1. ASSUME regions < Len(Programs), NEW n \in TeamSizes, NEW p \in Programs[regions + 1],
                 Fork(n, p)
          PROVE  IInv'
        <3>1. Fresh'
            BY <2>1, ForkFresh DEF Survives
        <3>2. OneTeam'
            BY DEF Survives, OneTeam
        <3> QED
            BY <1>2, <3>1, <3>2
    <2>2. ASSUME NEW t \in Team, Step(t) PROVE IInv'
        BY <2>2, StepIInv
    <2>3. CASE UNCHANGED vars
        BY <2>3, QuietIInv
    <2> QED
        BY <2>1, <2>2, <2>3 DEF Next, Done
<1> QED
    BY <1>1, <1>3, PTL DEF Spec

(* omp_runtime.c:475-848, 1386-1662: schedule_lock, single_lock and the counts
   under them never give an iteration or a single out twice. *)
THEOREM Once == Survives => (Spec => []OnlyOnce)
<1>1. IInv => OnlyOnce
    BY AllOnce
<1> QED
    BY <1>1, Invariance, PTL

(* omp_runtime.c:353-376: what the barrier of a construct lets through has no
   work of it left behind. *)
THEOREM Complete == Survives => (Spec => []DoneBeforePassing)
<1>1. IInv => DoneBeforePassing
    BY AllDone
<1> QED
    BY <1>1, Invariance, PTL

(* omp_runtime.c:1692-1728: ordered_count passes the turn from chunk to chunk in
   the sequence of the loop, under every schedule. *)
THEOREM InSequence == Survives => (Spec => []OrderedInSequence)
<1>1. IInv => OrderedInSequence
    BY AllInSequence
<1> QED
    BY <1>1, Invariance, PTL

(* omp_runtime.c:1952-1959: cppriv holds what the executor of this single has
   published for as long as anyone copies it. *)
THEOREM FromSingle == Survives => (Spec => []CopiedFromSingle)
<1>1. IInv => CopiedFromSingle
    BY Copies DEF IInv
<1> QED
    BY <1>1, Invariance, PTL
=============================================================================
