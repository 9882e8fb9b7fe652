---------------------------- MODULE GrowingProofs ----------------------------
(***************************************************************************)
(* Proofs about the task queues that grow, the array and the list of       *)
(* blocks, for any number of threads, items and slots to begin with: their *)
(* slots stay one ring, linked in both directions, through every growth,   *)
(* and both implement WorkDeque.                                           *)
(***************************************************************************)
EXTENDS MCQueues, FiniteSetTheorems, WellFoundedInduction, TLAPS

-----------------------------------------------------------------------------
(* Indices *)

\* The order of the indices.
IndexLess == {ss \in Nat \X Nat : ss[1] < ss[2]}

\* The slot after the last of an array is the first.
LEMMA NextModulo ==
    ASSUME NEW n \in Nat \ {0}, NEW i \in 0..(n - 1)
    PROVE  (i + 1) % n = IF i = n - 1 THEN 0 ELSE i + 1
BY SMT

\* Among indices there is a least.
LEMMA LeastIndex ==
    ASSUME NEW n \in Nat, NEW S \in SUBSET (0..n), S # {}
    PROVE  \E m \in S : \A j \in S : m <= j
<1>1. IndexLess = OpToRel(<, Nat)
    BY Zenon DEF OpToRel, IndexLess
<1>2. IsWellFoundedOn(IndexLess, Nat)
    BY <1>1, NatLessThanWellFounded, Zenon
<1>3. S \in SUBSET Nat
    OBVIOUS
<1>4. PICK m \in S : \A j \in S : <<j, m>> \notin IndexLess
    BY <1>2, <1>3, WFMin, Zenon
<1>5. ASSUME NEW j \in S PROVE m <= j
    <2>1. <<j, m>> \in Nat \X Nat
        BY <1>3
    <2> QED
        BY <1>4, <2>1 DEF IndexLess
<1> QED
    BY <1>5

\* Where the slots go when an array of n slots with its head at h grows: slot x of the
\* old ones, and the i-th of the new ring.
Unrolled(n, h, x) == IF x < h THEN x + n ELSE x
Beyond(n, h, i) == IF h + i < 2 * n THEN h + i ELSE h + i - 2 * n
LEMMA GrowingUnrolled ==
    ASSUME NEW n \in Nat \ {0}, NEW h \in 0..(n - 1)
    PROVE  /\ \A x \in 0..(n - 1) : /\ Unrolled(n, h, x) \in h..(h + n - 1)
                                     /\ Unrolled(n, h, x) \in 0..(2 * n - 1)
           /\ \A x, y \in 0..(n - 1) :
                 /\ Unrolled(n, h, x) = Unrolled(n, h, y) => x = y
                 /\ y = (IF x = n - 1 THEN 0 ELSE x + 1) /\ y # h
                      => Unrolled(n, h, y) = Unrolled(n, h, x) + 1
           /\ \A i \in n..(2 * n - 1) : /\ Beyond(n, h, i) \notin h..(h + n - 1)
                                         /\ Beyond(n, h, i) \in 0..(2 * n - 1)
           /\ \A i, j \in n..(2 * n - 1) : Beyond(n, h, i) = Beyond(n, h, j) => i = j
           /\ \A i \in n..(2 * n - 1) :
                 (IF Beyond(n, h, i) = 2 * n - 1 THEN 0 ELSE Beyond(n, h, i) + 1)
                     = IF i = 2 * n - 1 THEN h ELSE Beyond(n, h, i + 1)
           /\ Beyond(n, h, n) = IF h + n - 1 = 2 * n - 1 THEN 0 ELSE h + n
           /\ Unrolled(n, h, h) = h
           /\ Unrolled(n, h, IF h = 0 THEN n - 1 ELSE h - 1) = h + n - 1
<1>1. \A x \in 0..(n - 1) : /\ Unrolled(n, h, x) \in h..(h + n - 1)
                            /\ Unrolled(n, h, x) \in 0..(2 * n - 1)
    BY DEF Unrolled
<1>2. \A x, y \in 0..(n - 1) :
         /\ Unrolled(n, h, x) = Unrolled(n, h, y) => x = y
         /\ y = (IF x = n - 1 THEN 0 ELSE x + 1) /\ y # h
              => Unrolled(n, h, y) = Unrolled(n, h, x) + 1
    BY DEF Unrolled
<1>3. \A i \in n..(2 * n - 1) : /\ Beyond(n, h, i) \notin h..(h + n - 1)
                                /\ Beyond(n, h, i) \in 0..(2 * n - 1)
    BY DEF Beyond
<1>4. \A i, j \in n..(2 * n - 1) : Beyond(n, h, i) = Beyond(n, h, j) => i = j
    BY DEF Beyond
<1>5. \A i \in n..(2 * n - 1) :
         (IF Beyond(n, h, i) = 2 * n - 1 THEN 0 ELSE Beyond(n, h, i) + 1)
             = IF i = 2 * n - 1 THEN h ELSE Beyond(n, h, i + 1)
    BY DEF Beyond
<1>6. /\ Beyond(n, h, n) = IF h + n - 1 = 2 * n - 1 THEN 0 ELSE h + n
      /\ Unrolled(n, h, h) = h
      /\ Unrolled(n, h, IF h = 0 THEN n - 1 ELSE h - 1) = h + n - 1
    BY DEF Unrolled, Beyond
<1> QED
    BY <1>1, <1>2, <1>3, <1>4, <1>5, <1>6

\* What the queue needs to know of the constants.
LEMMA GrowingFacts ==
    ASSUME NEW w \in {"dyn", "list"}
    PROVE  /\ w \in {"dyn", "list"} /\ GrowSlots \in Nat \ {0} /\ MaxItems \in Nat
           /\ Growing(w)!Free \notin Process
BY SizesAssumption, ProcessAssumption DEF Free, Growing!Free

\* The queue starts as one block, in which each slot is next to the ones beside it.
LEMMA GrowingInit ==
    ASSUME NEW w \in {"dyn", "list"}
    PROVE  Growing(w)!Init => Growing(w)!GrowInv
<1> SUFFICES ASSUME Growing(w)!Init PROVE Growing(w)!GrowInv
    OBVIOUS
<1> USE GrowingFacts
<1>1. /\ Growing(w)!Slot = 0..(GrowSlots - 1) /\ 0 \in Growing(w)!Slot
         /\ GrowSlots - 1 \in Growing(w)!Slot
      /\ size = GrowSlots /\ used = 0 /\ first = 0 /\ last = 0
      /\ \A s \in Growing(w)!Slot : /\ prev[s] = IF s = 0 THEN GrowSlots - 1
                                           ELSE Growing(w)!NoSlot
                                    /\ next[s] = IF s = GrowSlots - 1 THEN 0
                                           ELSE Growing(w)!NoSlot
    BY DEF Growing!Init, Growing!Slot
<1>2. \A s \in Growing(w)!Slot : /\ Growing(w)!Succ(s) = IF s = GrowSlots - 1 THEN 0 ELSE s + 1
                                 /\ w = "list" => Growing(w)!Pred(s) = IF s = 0
                                        THEN GrowSlots - 1 ELSE s - 1
    <2>1. \A s \in 0..(GrowSlots - 1) : (s + 1) % GrowSlots = IF s = GrowSlots - 1 THEN 0
              ELSE s + 1
        BY NextModulo
    <2> QED
        BY <1>1, <2>1 DEF Growing!Succ, Growing!Pred, Growing!NoSlot
<1>3. w = "list" => Growing(w)!LinkInv
    <2> HAVE w = "list"
    <2>1. next \in [Growing(w)!Slot -> Growing(w)!Slot \cup {Growing(w)!NoSlot}]
          /\ prev \in [Growing(w)!Slot -> Growing(w)!Slot \cup {Growing(w)!NoSlot}]
        BY <1>1 DEF Growing!Init
    <2>2. ASSUME NEW s \in Growing(w)!Slot
          PROVE  /\ Growing(w)!Succ(s) \in Growing(w)!Slot
                    /\ Growing(w)!Pred(s) \in Growing(w)!Slot
                 /\ prev[Growing(w)!Succ(s)] = IF next[s] = Growing(w)!NoSlot
                        THEN Growing(w)!NoSlot ELSE s
                 /\ next[Growing(w)!Pred(s)] = IF prev[s] = Growing(w)!NoSlot
                        THEN Growing(w)!NoSlot ELSE s
        BY <1>1, <1>2 DEF Growing!NoSlot
    <2> QED
        BY <2>1, <2>2 DEF Growing!LinkInv
<1>4. Growing(w)!RingInv
    <2> DEFINE r == [i \in 0..(size - 1) |-> i]
    <2>1. r \in [0..(size - 1) -> Growing(w)!Slot] /\ Growing(w)!IsRing(r)
        BY <1>1, <1>2 DEF Growing!IsRing
    <2> QED
        BY <1>1, <1>3, <2>1 DEF Growing!RingInv
<1>5. Growing(w)!HolderInv /\ Growing(w)!MovedInv /\ Growing(w)!CallInv
    <2>1. l1 = Growing(w)!Free /\ empty = TRUE /\ used = 0
          /\ \A p \in Process : at[p] = "idle" /\ call[p] = "getHead" /\ result[p] = NoItem
        BY DEF Growing!Init
    <2> QED
        BY <2>1 DEF Growing!HolderInv, Growing!Holding, Growing!MovedInv, Growing!CallInv,
           Growing!Pending, Growing!Puts, Growing!Gets
<1>6. Growing(w)!TypeInv
    <2>1. Growing(w)!Slot \subseteq Nat /\ \A s \in Growing(w)!Slot : s <= GrowSlots - 1
        BY <1>1
    <2>2. /\ at \in [Process -> {"idle", "peek", "lock", "return"} \cup Growing(w)!Holding]
          /\ DOMAIN call = Process /\ DOMAIN given = Process /\ DOMAIN result = Process
        BY DEF Growing!Init
    <2> QED
        BY <1>1, <2>1, <2>2 DEF Growing!TypeInv
<1> QED
    BY <1>4, <1>5, <1>6 DEF Growing!GrowInv

\* The neighbour of a neighbour.
LEMMA GrowingNeighbours ==
    ASSUME NEW w \in {"dyn", "list"}, Growing(w)!RingInv, Growing(w)!Slot \subseteq Nat,
           NEW s \in Growing(w)!Slot
    PROVE  /\ Growing(w)!Succ(s) \in Growing(w)!Slot /\ Growing(w)!Pred(s) \in Growing(w)!Slot
           /\ Growing(w)!Pred(Growing(w)!Succ(s)) = s /\ Growing(w)!Succ(Growing(w)!Pred(s)) = s
           /\ w = "list" =>
              /\ prev[Growing(w)!Succ(s)] = IF next[s] = Growing(w)!NoSlot
                     THEN Growing(w)!NoSlot ELSE s
              /\ next[Growing(w)!Pred(s)] = IF prev[s] = Growing(w)!NoSlot
                     THEN Growing(w)!NoSlot ELSE s
              /\ next[s] # Growing(w)!NoSlot => prev[next[s]] = s
              /\ prev[s] # Growing(w)!NoSlot => next[prev[s]] = s
<1>0. w \in {"dyn", "list"}
    BY GrowingFacts
<1>1. CASE w = "list"
    <2>1. /\ Growing(w)!Succ(s) \in Growing(w)!Slot /\ Growing(w)!Pred(s) \in Growing(w)!Slot
          /\ prev[Growing(w)!Succ(s)] = IF next[s] = Growing(w)!NoSlot
                 THEN Growing(w)!NoSlot ELSE s
          /\ next[Growing(w)!Pred(s)] = IF prev[s] = Growing(w)!NoSlot
                 THEN Growing(w)!NoSlot ELSE s
        BY <1>1 DEF Growing!RingInv, Growing!LinkInv
    <2>2. s \in Nat /\ s # Growing(w)!NoSlot /\ s + 1 # Growing(w)!NoSlot
        BY DEF Growing!NoSlot
    <2>3. /\ \A n : Growing(w)!Succ(n) = IF next[n] # Growing(w)!NoSlot THEN next[n] ELSE n + 1
          /\ \A n : Growing(w)!Pred(n) = IF prev[n] # Growing(w)!NoSlot THEN prev[n] ELSE n - 1
        BY <1>1 DEF Growing!Succ, Growing!Pred
    <2>4. Growing(w)!Pred(Growing(w)!Succ(s)) = s
        BY <2>1, <2>2, <2>3
    <2>5. Growing(w)!Succ(Growing(w)!Pred(s)) = s
        BY <2>1, <2>2, <2>3
    <2>6. next[s] # Growing(w)!NoSlot => prev[next[s]] = s
        BY <2>1, <2>3
    <2>7. prev[s] # Growing(w)!NoSlot => next[prev[s]] = s
        BY <2>1, <2>3
    <2> QED
        BY <2>1, <2>4, <2>5, <2>6, <2>7
<1>2. CASE w = "dyn"
    <2>1. Growing(w)!Slot = 0..(size - 1) /\ size \in Nat \ {0}
        BY <1>2 DEF Growing!RingInv
    <2>2. \A n \in Growing(w)!Slot : /\ Growing(w)!Succ(n) = IF n = size - 1 THEN 0 ELSE n + 1
                                     /\ Growing(w)!Pred(n) = IF n # 0 THEN n - 1 ELSE size - 1
        BY <1>2, <2>1, NextModulo DEF Growing!Succ, Growing!Pred
    <2>3. Growing(w)!Succ(s) \in Growing(w)!Slot /\ Growing(w)!Pred(s) \in Growing(w)!Slot
        BY <2>1, <2>2
    <2> QED
        BY <1>2, <2>1, <2>2, <2>3
<1> QED
    BY <1>0, <1>1, <1>2

\* The ring backwards, and where it ends: a full one has its head after its tail.
LEMMA GrowingRing ==
    ASSUME NEW w \in {"dyn", "list"}, Growing(w)!TypeInv, Growing(w)!RingInv,
           NEW r \in [0..(size - 1) -> Growing(w)!Slot], Growing(w)!IsRing(r)
    PROVE  /\ first \in Growing(w)!Slot /\ last \in Growing(w)!Slot
           /\ \A i \in 0..(size - 1) : Growing(w)!Pred(r[i]) = IF i = 0 THEN r[size - 1]
                  ELSE r[i - 1]
           /\ Growing(w)!Full => Growing(w)!Succ(last) = first /\ Growing(w)!Pred(first) = last
<1>1. size \in Nat \ {0} /\ used \in 0..(size - 1)
    BY DEF Growing!RingInv
<1>2. first \in Growing(w)!Slot /\ last \in Growing(w)!Slot
    BY <1>1 DEF Growing!IsRing
<1>3. \A s \in Growing(w)!Slot : Growing(w)!Pred(Growing(w)!Succ(s)) = s
    BY GrowingNeighbours DEF Growing!TypeInv
<1>4. ASSUME NEW i \in 0..(size - 1)
      PROVE  Growing(w)!Pred(r[i]) = IF i = 0 THEN r[size - 1] ELSE r[i - 1]
    <2>1. CASE i = 0
        BY <1>1, <1>3, <2>1 DEF Growing!IsRing
    <2>2. CASE i # 0
        <3>1. i - 1 \in 0..(size - 1) /\ i - 1 # size - 1 /\ (i - 1) + 1 = i
            BY <1>1, <2>2
        <3>2. Growing(w)!Succ(r[i - 1]) = r[i] /\ r[i - 1] \in Growing(w)!Slot
            BY <3>1 DEF Growing!IsRing
        <3> QED
            BY <3>2, <1>3, <2>2
    <2> QED
        BY <2>1, <2>2
<1>5. Growing(w)!Full => Growing(w)!Succ(last) = first
    BY <1>1 DEF Growing!Full, Growing!IsRing
<1> QED
    BY <1>2, <1>3, <1>4, <1>5

\* A step that leaves the slots and the indices alone keeps the ring.
growingMemory == <<mem, next, prev, size, first, last, used>>
LEMMA GrowingKept ==
    ASSUME NEW w \in {"dyn", "list"}, Growing(w)!GrowInv, UNCHANGED growingMemory
    PROVE  Growing(w)!RingInv' /\ Growing(w)!Slot' = Growing(w)!Slot
<1>1. /\ mem' = mem /\ next' = next /\ prev' = prev /\ size' = size
      /\ first' = first /\ last' = last /\ used' = used
    BY DEF growingMemory
<1>2. Growing(w)!Slot' = Growing(w)!Slot
    BY <1>1 DEF Growing!Slot
<1>3. Growing(w)!LinkInv' <=> Growing(w)!LinkInv
    BY <1>1, <1>2 DEF Growing!LinkInv, Growing!Succ, Growing!Pred
<1>4. Growing(w)!RingInv' <=> Growing(w)!RingInv
    <2>1. \A s : Growing(w)!Succ(s)' = Growing(w)!Succ(s)
        BY <1>1 DEF Growing!Succ, Growing!NoSlot
    <2>2. \A r : Growing(w)!IsRing(r)' <=> Growing(w)!IsRing(r)
        BY <1>1, <2>1 DEF Growing!IsRing
    <2> QED
        BY <1>1, <1>2, <1>3, <2>2 DEF Growing!RingInv
<1> QED
    BY <1>2, <1>4 DEF Growing!GrowInv

\* The queue counts with the same Cardinality.
LEMMA GrowingCardinality ==
    ASSUME NEW w \in {"dyn", "list"}, NEW S
    PROVE  Growing(w)!Cardinality(S) = Cardinality(S)
BY DEF Growing!Cardinality, Cardinality

\* Only the owner puts, so at most one item is on its way.
LEMMA GrowingIncoming ==
    ASSUME NEW w \in {"dyn", "list"}, Growing(w)!CallInv
    PROVE  Growing(w)!Cardinality(Growing(w)!Incoming) \in Nat
<1>1. Growing(w)!Incoming \in SUBSET {p1}
    BY DEF Growing!CallInv, Growing!Incoming, Growing!Pending
<1>2. IsFiniteSet({p1})
    BY FS_Singleton
<1> QED
    BY <1>1, <1>2, GrowingCardinality, FS_Subset, FS_CardinalityType

\* The steps before and after a move.
LEMMA GrowingQuiet ==
    ASSUME NEW w \in {"dyn", "list"}, Growing(w)!GrowInv, NEW p \in Process,
           \/ Growing(w)!Invoke(p) \/ Growing(w)!Peek(p) \/ Growing(w)!Lock(p)
              \/ Growing(w)!GiveUp(p) \/ Growing(w)!Check(p)
           \/ Growing(w)!Flag(p) \/ Growing(w)!Unlock(p) \/ Growing(w)!Return(p)
    PROVE  Growing(w)!GrowInv'
<1>1. UNCHANGED growingMemory
    BY DEF growingMemory, Growing!Invoke, Growing!Peek, Growing!Lock, Growing!GiveUp,
       Growing!Check, Growing!Flag, Growing!Unlock, Growing!Return, Growing!queueVars,
       Growing!listVars
<1>2. Growing(w)!RingInv' /\ Growing(w)!Slot' = Growing(w)!Slot
    BY <1>1, GrowingKept
<1>3. /\ used' = used /\ size' = size /\ mem' = mem
      /\ first' = first /\ last' = last
      /\ (Growing(w)!Full' <=> Growing(w)!Full) /\ (Growing(w)!Succ(first))'
             = Growing(w)!Succ(first)
      /\ (Growing(w)!Succ(last))' = Growing(w)!Succ(last)
    BY <1>1 DEF growingMemory, Growing!Full, Growing!Succ
<1>4. Growing(w)!TypeInv /\ Growing(w)!HolderInv /\ Growing(w)!MovedInv /\ Growing(w)!CallInv
      /\ Growing(w)!Free \notin Process
      /\ size \in Nat \ {0} /\ used \in 0..(size - 1)
    BY GrowingFacts DEF Growing!GrowInv, Growing!RingInv
<1>5. Growing(w)!Slot' \subseteq Nat
      /\ \E m \in Growing(w)!Slot' : \A s \in Growing(w)!Slot' : s <= m
    BY <1>2, <1>4 DEF Growing!TypeInv
<1> DEFINE GrowingLabels == {"idle", "peek", "lock", "return"} \cup Growing(w)!Holding
<1>6. at \in [Process -> GrowingLabels] /\ DOMAIN call = Process /\ DOMAIN given = Process
      /\ DOMAIN result = Process
    BY <1>4 DEF Growing!TypeInv
<1>a. /\ l1 # Growing(w)!Free => l1 \in Process /\ at[l1] \in Growing(w)!Holding
      /\ \A q \in Process :
          /\ at[q] \in Growing(w)!Holding => l1 = q
          /\ at[q] = "grow" => call[q] \in Growing(w)!Puts /\ Growing(w)!Full
          /\ at[q] = "move" => IF call[q] \in Growing(w)!Puts THEN ~Growing(w)!Full ELSE used > 0
      /\ (\A q \in Process : at[q] # "flag") => (empty <=> used = 0)
    BY <1>4 DEF Growing!HolderInv
<1>b. \A q \in Process :
          /\ call[q] \in Growing(w)!Puts \cup Growing(w)!Gets \cup Growing(w)!Steals
          /\ call[q] \in Growing(w)!Puts => q = p1 /\ (at[q] \in Growing(w)!Pending
                 => used < MaxItems)
          /\ at[q] = "peek" => call[q] \notin Growing(w)!Puts
          /\ at[q] \in {"idle", "peek"} \cup Growing(w)!Pending => result[q] = NoItem
    BY <1>4 DEF Growing!CallInv
<1> SUFFICES /\ at' \in [Process -> GrowingLabels]
             /\ DOMAIN call' = Process /\ DOMAIN given' = Process /\ DOMAIN result' = Process
             /\ Growing(w)!HolderInv' /\ Growing(w)!MovedInv' /\ Growing(w)!CallInv'
    BY <1>2, <1>5 DEF Growing!GrowInv, Growing!TypeInv
<1>7. ASSUME NEW l \in GrowingLabels, Growing(w)!Goto(p, l)
      PROVE  at' \in [Process -> GrowingLabels]
    BY <1>6, <1>7 DEF Growing!Goto
<1> HIDE DEF GrowingLabels
\* where nobody is, or gets, between a move and its flag
<1>8. ASSUME at[p] # "flag", at'[p] # "flag", empty' = empty,
             \A q \in Process \ {p} : /\ at'[q] = at[q] /\ call'[q] = call[q] /\ given'[q]
                                             = given[q]
                                      /\ result'[q] = result[q]
      PROVE  Growing(w)!MovedInv'
    <2>1. \A q \in Process : at'[q] = "flag" => q # p /\ at[q] = "flag"
        BY <1>8
    <2> QED
        BY <1>3, <1>4, <1>8, <2>1 DEF Growing!MovedInv
<1>9. CASE Growing(w)!Invoke(p)
    <2>1. PICK o \in Growing(w)!Puts \cup Growing(w)!Gets \cup Growing(w)!Steals, x \in Item :
              /\ o \in Growing(w)!Puts => p = p1
                 /\ used + Growing(w)!Cardinality(Growing(w)!Incoming) < MaxItems
              /\ call' = [call EXCEPT ![p] = o]
              /\ given' = [given EXCEPT ![p] = IF o \in Growing(w)!Puts THEN x ELSE NoItem]
              /\ Growing(w)!Goto(p, IF o \in Growing(w)!Puts THEN "lock" ELSE "peek")
        BY <1>9 DEF Growing!Invoke, Growing!Puts, Growing!Gets, Growing!Steals
    <2>2. /\ at[p] = "idle" /\ empty' = empty /\ l1' = l1 /\ result' = result
          /\ at' = [at EXCEPT ![p] = IF o \in Growing(w)!Puts THEN "lock" ELSE "peek"]
        BY <1>9, <2>1 DEF Growing!Invoke, Growing!Goto
    <2>3. at' \in [Process -> GrowingLabels]
        BY <1>7, <2>1 DEF GrowingLabels
    <2>4. o \in Growing(w)!Puts => used < MaxItems
        BY <1>4, <2>1, GrowingIncoming, GrowingFacts
    <2>5. /\ at'[p] = IF o \in Growing(w)!Puts THEN "lock" ELSE "peek"
          /\ call'[p] = o
          /\ \A q \in Process \ {p} : at'[q] = at[q] /\ call'[q] = call[q] /\ given'[q] = given[q]
        BY <1>6, <2>1, <2>2
    <2>6. Growing(w)!HolderInv'
        <3>1. l1' # Growing(w)!Free => l1' \in Process /\ at'[l1'] \in Growing(w)!Holding
            BY <1>a, <2>2, <2>5 DEF Growing!Holding
        <3> QED
            BY <1>3, <1>a, <2>2, <2>5, <3>1 DEF Growing!HolderInv, Growing!Holding
    <2>7. Growing(w)!CallInv'
        BY <1>3, <1>b, <2>1, <2>2, <2>4, <2>5 DEF Growing!CallInv, Growing!Pending
    <2> QED
        BY <1>6, <1>8, <2>1, <2>2, <2>3, <2>5, <2>6, <2>7
<1>10. CASE Growing(w)!Peek(p) \/ Growing(w)!GiveUp(p) \/ Growing(w)!Lock(p)
       \/ Growing(w)!Check(p) \/ Growing(w)!Unlock(p)
    <2>1. /\ call' = call /\ given' = given /\ result' = result /\ empty' = empty
          /\ at[p] \in {"peek", "lock", "check", "unlock"}
          /\ \E l \in {"return", "lock", "check", "grow", "move", "unlock"} :
                 Growing(w)!Goto(p, l)
        BY <1>10 DEF Growing!Peek, Growing!GiveUp, Growing!Lock, Growing!Check, Growing!Unlock,
           Growing!callVars
    <2>2. PICK l \in {"return", "lock", "check", "grow", "move", "unlock"} : Growing(w)!Goto(p, l)
        BY <2>1
    <2>3. at'[p] = l /\ \A q \in Process \ {p} : at'[q] = at[q]
        BY <1>6, <2>2 DEF Growing!Goto
    <2>4. at' \in [Process -> GrowingLabels]
        BY <1>7, <2>2 DEF GrowingLabels, Growing!Holding
    <2>5. Growing(w)!MovedInv'
        BY <1>8, <2>1, <2>3
    <2>6. Growing(w)!CallInv'
        <3>1. l \in {"return", "unlock"} \cup Growing(w)!Pending
              /\ (at[p] \in Growing(w)!Pending \cup {"peek", "unlock"})
              /\ (at[p] = "unlock" => l = "return")
              /\ (at[p] = "peek" => call[p] \notin Growing(w)!Puts)
            <4>1. CASE Growing(w)!Peek(p)
                BY <1>b, <2>3, <4>1 DEF Growing!Pending, Growing!Peek, Growing!Goto
            <4>2. CASE Growing(w)!GiveUp(p) \/ Growing(w)!Lock(p)
                BY <1>6, <2>3, <4>2 DEF Growing!Pending, Growing!GiveUp, Growing!Lock,
                   Growing!Goto
            <4>3. CASE Growing(w)!Check(p)
                BY <1>6, <2>3, <4>3 DEF Growing!Pending, Growing!Check, Growing!Goto
            <4>4. CASE Growing(w)!Unlock(p)
                BY <1>6, <2>3, <4>4 DEF Growing!Pending, Growing!Unlock, Growing!Goto
            <4> QED
                BY <1>10, <4>1, <4>2, <4>3, <4>4
        <3> QED
            BY <1>3, <1>b, <2>1, <2>3, <3>1 DEF Growing!CallInv, Growing!Pending
    <2>7. Growing(w)!HolderInv'
        <3>1. CASE Growing(w)!Peek(p) \/ Growing(w)!GiveUp(p)
            <4>1. l1' = l1 /\ at[p] \notin Growing(w)!Holding /\ l \in {"return", "lock"}
                BY <2>2, <2>3, <3>1 DEF Growing!Peek, Growing!GiveUp, Growing!Holding,
                   Growing!Goto
            <4> QED
                BY <1>3, <1>a, <2>1, <2>3, <4>1 DEF Growing!HolderInv, Growing!Holding
        <3>2. CASE Growing(w)!Lock(p)
            <4>1. l1 = Growing(w)!Free /\ l1' = p /\ at[p] = "lock" /\ l = "check"
                BY <1>6, <2>2, <2>3, <3>2 DEF Growing!Lock, Growing!Goto
            <4> QED
                BY <1>3, <1>4, <1>a, <2>1, <2>3, <4>1 DEF Growing!HolderInv, Growing!Holding
        <3>3. CASE Growing(w)!Check(p)
            <4>1. /\ l1' = l1 /\ at[p] = "check"
                  /\ l = IF call[p] \in Growing(w)!Puts THEN IF Growing(w)!Full THEN "grow"
                         ELSE "move"
                         ELSE IF empty THEN "unlock" ELSE "move"
                BY <1>6, <2>2, <2>3, <3>3 DEF Growing!Check, Growing!Goto
            <4>2. l1 = p /\ \A q \in Process \ {p} : at[q] \notin Growing(w)!Holding
                BY <1>a, <4>1 DEF Growing!Holding
            <4>3. empty <=> used = 0
                BY <1>a, <4>1, <4>2 DEF Growing!Holding
            <4> QED
                BY <1>3, <1>4, <1>a, <2>1, <2>3, <4>1, <4>2, <4>3 DEF Growing!HolderInv,
                   Growing!Holding
        <3>4. CASE Growing(w)!Unlock(p)
            <4>1. l1' = Growing(w)!Free /\ at[p] = "unlock" /\ l = "return"
                BY <1>6, <2>2, <2>3, <3>4 DEF Growing!Unlock, Growing!Goto
            <4>2. l1 = p /\ \A q \in Process \ {p} : at[q] \notin Growing(w)!Holding
                BY <1>a, <4>1 DEF Growing!Holding
            <4> QED
                BY <1>3, <1>4, <1>a, <2>1, <2>3, <4>1, <4>2 DEF Growing!HolderInv, Growing!Holding
        <3> QED
            BY <1>10, <3>1, <3>2, <3>3, <3>4
    <2> QED
        BY <1>6, <2>1, <2>4, <2>5, <2>6, <2>7
<1>11. CASE Growing(w)!Flag(p)
    <2>1. /\ at[p] = "flag" /\ Growing(w)!Goto(p, "unlock") /\ call' = call /\ given' = given
             /\ result' = result
          /\ l1' = l1 /\ empty' = (call[p] \notin Growing(w)!Puts /\ used = 0)
        BY <1>11 DEF Growing!Flag, Growing!callVars
    <2>2. at'[p] = "unlock" /\ \A q \in Process \ {p} : at'[q] = at[q]
        BY <1>6, <2>1 DEF Growing!Goto
    <2>3. l1 = p /\ \A q \in Process \ {p} : at[q] \notin Growing(w)!Holding
        BY <1>a, <2>1 DEF Growing!Holding
    <2>4. at' \in [Process -> GrowingLabels]
        BY <1>7, <2>1 DEF GrowingLabels, Growing!Holding
    <2>5. \A q \in Process : at'[q] # "flag" /\ at'[q] # "move" /\ at'[q] # "grow"
        BY <2>2, <2>3 DEF Growing!Holding
    <2>6. call[p] \in Growing(w)!Puts => used > 0
        BY <1>4, <2>1 DEF Growing!MovedInv
    <2>7. empty' <=> used' = 0
        <3>1. empty' <=> (call[p] \notin Growing(w)!Puts /\ used = 0)
            BY <2>1, Zenon
        <3>2. used = 0 => call[p] \notin Growing(w)!Puts
            BY <1>4, <2>6
        <3> QED
            BY <1>3, <3>1, <3>2
    <2>8. Growing(w)!MovedInv' /\ Growing(w)!CallInv'
        BY <1>3, <1>b, <2>1, <2>2, <2>5 DEF Growing!MovedInv, Growing!CallInv, Growing!Pending
    <2>9. Growing(w)!HolderInv'
        BY <1>4, <2>1, <2>2, <2>3, <2>5, <2>7 DEF Growing!HolderInv, Growing!Holding
    <2> QED
        BY <1>6, <2>1, <2>4, <2>8, <2>9
<1>12. CASE Growing(w)!Return(p)
    <2>1. /\ at[p] = "return" /\ Growing(w)!Goto(p, "idle") /\ empty' = empty /\ l1' = l1
          /\ call' = [call EXCEPT ![p] = "getHead"] /\ given' = [given EXCEPT ![p] = NoItem]
          /\ result' = [result EXCEPT ![p] = NoItem]
        BY <1>12 DEF Growing!Return
    <2>2. /\ at'[p] = "idle" /\ call'[p] = "getHead" /\ result'[p] = NoItem
          /\ \A q \in Process \ {p} : /\ at'[q] = at[q] /\ call'[q] = call[q] /\ given'[q]
                                             = given[q]
                                      /\ result'[q] = result[q]
        BY <1>6, <2>1 DEF Growing!Goto
    <2>3. at' \in [Process -> GrowingLabels]
        BY <1>7, <2>1 DEF GrowingLabels
    <2>4. Growing(w)!MovedInv'
        BY <1>8, <2>1, <2>2
    <2>5. Growing(w)!HolderInv' /\ Growing(w)!CallInv'
        BY <1>3, <1>a, <1>b, <2>1, <2>2 DEF Growing!HolderInv, Growing!CallInv, Growing!Holding,
           Growing!Pending, Growing!Puts, Growing!Gets
    <2> QED
        BY <1>6, <2>1, <2>3, <2>4, <2>5
<1> QED
    BY <1>9, <1>10, <1>11, <1>12

\* A move of an index turns the ring by one slot.
LEMMA GrowingTurned ==
    ASSUME NEW w \in {"dyn", "list"}, Growing(w)!GrowInv, UNCHANGED <<next, prev, size>>,
           Growing(w)!Slot' = Growing(w)!Slot,
           used' \in 0..(size - 1),
           \/ first' = first /\ last' = Growing(w)!Succ(last) /\ used' = used + 1
           \/ first' = first /\ last' = Growing(w)!Pred(last) /\ used' = used - 1
           \/ first' = Growing(w)!Succ(first) /\ last' = last /\ used' = used - 1
           \/ first' = Growing(w)!Pred(first) /\ last' = last /\ used' = used + 1
    PROVE  Growing(w)!RingInv'
<1>1. /\ Growing(w)!TypeInv /\ Growing(w)!RingInv
      /\ \A s \in Growing(w)!Slot : Growing(w)!Succ(s)' = Growing(w)!Succ(s)
         /\ Growing(w)!Pred(s)' = Growing(w)!Pred(s)
    BY DEF Growing!GrowInv, Growing!Succ, Growing!Pred
<1>2. IF w = "list" THEN Growing(w)!LinkInv' ELSE Growing(w)!Slot' = 0..(size' - 1)
    BY <1>1 DEF Growing!LinkInv, Growing!RingInv
<1>3. size \in Nat \ {0} /\ used \in 0..(size - 1) /\ size' = size
    BY <1>1 DEF Growing!RingInv
<1> DEFINE end == size - 1
<1>4. PICK r \in [0..end -> Growing(w)!Slot] : Growing(w)!IsRing(r)
    BY <1>1 DEF Growing!RingInv
<1>5. /\ r[0] = first /\ r[used] = last
      /\ \A i \in 0..end : Growing(w)!Succ(r[i]) = IF i = end THEN r[0] ELSE r[i + 1]
      /\ \A i, j \in 0..end : r[i] = r[j] => i = j
    BY <1>4 DEF Growing!IsRing
<1>6. \A i \in 0..end : Growing(w)!Pred(r[i]) = IF i = 0 THEN r[end] ELSE r[i - 1]
    BY <1>1, <1>4, GrowingRing
<1> SUFFICES \E q \in [0..end -> Growing(w)!Slot] :
                /\ q[0] = first' /\ q[used'] = last'
                /\ \A i \in 0..end : Growing(w)!Succ(q[i]) = IF i = end THEN q[0] ELSE q[i + 1]
                /\ \A i, j \in 0..end : q[i] = q[j] => i = j
    <2>1. PICK q \in [0..end -> Growing(w)!Slot] :
             /\ q[0] = first' /\ q[used'] = last'
             /\ \A i \in 0..end : Growing(w)!Succ(q[i]) = IF i = end THEN q[0] ELSE q[i + 1]
             /\ \A i, j \in 0..end : q[i] = q[j] => i = j
        OBVIOUS
    <2>2. \A i \in 0..end : Growing(w)!Succ(q[i])' = IF i = end THEN q[0] ELSE q[i + 1]
        BY <1>1, <2>1
    <2>3. (0..(size - 1))' = 0..end /\ (size - 1)' = end
        BY <1>3
    <2>4. Growing(w)!IsRing(q)'
        BY <2>1, <2>2, <2>3 DEF Growing!IsRing
    <2>5. \E s \in [0..(size - 1) -> Growing(w)!Slot]' : Growing(w)!IsRing(s)'
        BY <2>1, <2>3, <2>4
    <2> HIDE DEF end
    <2>6. size' \in Nat \ {0} /\ used' \in 0..(size' - 1)
        BY <1>3
    <2> QED
        BY <1>2, <2>5, <2>6 DEF Growing!RingInv
<1>7. CASE first' = first /\ last' = Growing(w)!Succ(last) /\ used' = used + 1
    <2>1. used # end /\ used \in 0..end
        BY <1>3, <1>7
    <2>2. r[used'] = last'
        BY <1>5, <1>7, <2>1
    <2> QED
        BY <1>5, <1>7, <2>2
<1>8. CASE first' = first /\ last' = Growing(w)!Pred(last) /\ used' = used - 1
    <2>1. used # 0 /\ used \in 0..end
        BY <1>3, <1>8
    <2>2. r[used'] = last'
        BY <1>5, <1>6, <1>8, <2>1
    <2> QED
        BY <1>5, <1>8, <2>2
<1>9. CASE first' = Growing(w)!Succ(first) /\ last' = last /\ used' = used - 1
    <2> DEFINE q == [i \in 0..end |-> IF i = end THEN r[0] ELSE r[i + 1]]
    <2>1. q \in [0..end -> Growing(w)!Slot] /\ end > 0
        BY <1>3, <1>4, <1>9
    <2>2. q[0] = first' /\ q[used'] = last'
        BY <1>3, <1>5, <1>9, <2>1
    <2>3. \A i, j \in 0..end : q[i] = q[j] => i = j
        BY <1>3, <1>5
    <2>4. ASSUME NEW i \in 0..end PROVE Growing(w)!Succ(q[i]) = IF i = end THEN q[0] ELSE q[i + 1]
        BY <1>3, <1>5, <2>1
    <2> QED
        BY <2>1, <2>2, <2>3, <2>4
<1>10. CASE first' = Growing(w)!Pred(first) /\ last' = last /\ used' = used + 1
    <2> DEFINE q == [i \in 0..end |-> IF i = 0 THEN r[end] ELSE r[i - 1]]
    <2>1. q \in [0..end -> Growing(w)!Slot] /\ end > 0
        BY <1>3, <1>4, <1>10
    <2>2. q[0] = first' /\ q[used'] = last'
        BY <1>3, <1>5, <1>6, <1>10, <2>1
    <2>3. \A i, j \in 0..end : q[i] = q[j] => i = j
        BY <1>3, <1>5
    <2>4. ASSUME NEW i \in 0..end PROVE Growing(w)!Succ(q[i]) = IF i = end THEN q[0] ELSE q[i + 1]
        BY <1>3, <1>5, <2>1
    <2> QED
        BY <2>1, <2>2, <2>3, <2>4
<1> QED
    BY <1>7, <1>8, <1>9, <1>10

\* A put at either end; a get or a steal: of the two indices it moves one.
LEMMA GrowingMoves ==
    ASSUME NEW w \in {"dyn", "list"}, Growing(w)!GrowInv, NEW p \in Process,
           Growing(w)!MovePutTail(p) \/ Growing(w)!MovePutHead(p) \/ Growing(w)!MoveTake(p)
    PROVE  Growing(w)!GrowInv'
<1>1. /\ UNCHANGED <<next, prev, size>> /\ Growing(w)!Slot' = Growing(w)!Slot /\ at[p]
             = "move" /\ Growing(w)!Goto(p, "flag")
      /\ l1' = l1 /\ call' = call /\ given' = given /\ empty' = empty
      /\ \E x : result' = [result EXCEPT ![p] = x]
    BY DEF Growing!MovePutTail, Growing!MovePutHead, Growing!MoveTake, Growing!listVars,
       Growing!callVars, Growing!Slot
<1>2. Growing(w)!TypeInv /\ Growing(w)!RingInv /\ Growing(w)!HolderInv /\ Growing(w)!CallInv
      /\ size \in Nat \ {0}
      /\ used \in 0..(size - 1)
    BY DEF Growing!GrowInv, Growing!RingInv
<1>3. /\ IF call[p] \in Growing(w)!Puts THEN used # size - 1 ELSE used > 0
      /\ l1 = p /\ p # Growing(w)!Free /\ \A q \in Process \ {p} : at[q] \notin Growing(w)!Holding
    BY <1>1, <1>2, GrowingFacts DEF Growing!HolderInv, Growing!Full, Growing!Holding
<1>4. used' = IF call[p] \in Growing(w)!Puts THEN used + 1 ELSE used - 1
    BY DEF Growing!MovePutTail, Growing!MovePutHead, Growing!MoveTake, Growing!Puts
<1>5. \/ first' = first /\ last' = Growing(w)!Succ(last) /\ used' = used + 1
      \/ first' = first /\ last' = Growing(w)!Pred(last) /\ used' = used - 1
      \/ first' = Growing(w)!Succ(first) /\ last' = last /\ used' = used - 1
      \/ first' = Growing(w)!Pred(first) /\ last' = last /\ used' = used + 1
    BY DEF Growing!MovePutTail, Growing!MovePutHead, Growing!MoveTake
<1>6. Growing(w)!RingInv'
    BY <1>1, <1>2, <1>3, <1>4, <1>5, GrowingTurned
<1>7. /\ at'[p] = "flag" /\ \A q \in Process \ {p} : at'[q] = at[q] /\ result'[q] = result[q]
      /\ Growing(w)!TypeInv'
    BY <1>1, <1>2 DEF Growing!TypeInv, Growing!Goto, Growing!Holding
<1>8. Growing(w)!HolderInv'
    BY <1>1, <1>2, <1>3, <1>7 DEF Growing!HolderInv, Growing!Holding
<1>9. Growing(w)!CallInv'
    <2>1. \A q \in Process : call[q] \in Growing(w)!Puts /\ at'[q] \in Growing(w)!Pending
              => call[p] \notin Growing(w)!Puts
        BY <1>2, <1>7 DEF Growing!CallInv, Growing!Pending
    <2>2. call[p] \notin Growing(w)!Puts => used' < used
        BY <1>2, <1>4
    <2> QED
        BY <1>1, <1>2, <1>4, <1>7, <2>1, <2>2, GrowingFacts DEF Growing!CallInv, Growing!Pending
<1>10. Growing(w)!MovedInv'
    <2>1. \A q \in Process : at'[q] = "flag" => q = p
        BY <1>3, <1>7 DEF Growing!Holding
    <2>2. empty <=> used = 0
        BY <1>1, <1>2, <1>3 DEF Growing!HolderInv, Growing!Holding
    <2>3. /\ first \in Growing(w)!Slot /\ last \in Growing(w)!Slot
          /\ Growing(w)!Succ(last) \in Growing(w)!Slot
             /\ Growing(w)!Pred(first) \in Growing(w)!Slot
          /\ Growing(w)!Succ(Growing(w)!Pred(first)) = first
             /\ Growing(w)!Succ(Growing(w)!Pred(last)) = last
        <3>1. first \in Growing(w)!Slot /\ last \in Growing(w)!Slot
            BY <1>2, GrowingRing DEF Growing!RingInv
        <3> QED
            BY <1>2, <3>1, GrowingNeighbours DEF Growing!TypeInv
    <2>4. /\ (Growing(w)!Succ(first))' = Growing(w)!Succ(first')
          /\ (Growing(w)!Succ(last))' = Growing(w)!Succ(last')
        BY <1>1 DEF Growing!Succ
    <2>5. CASE call[p] \in Growing(w)!Puts
        <3>1. used < MaxItems
            BY <1>1, <1>2, <2>5 DEF Growing!CallInv, Growing!Pending
        <3>2. result'[p] = given'[p]
            BY <1>1, <1>2, <2>5 DEF Growing!TypeInv, Growing!MovePutTail, Growing!MovePutHead,
               Growing!MoveTake
        <3>3. given'[p] = mem'[IF call'[p] = "putTail" THEN last' ELSE Growing(w)!Succ(first')]
            BY <1>1, <2>3, <2>5 DEF Growing!MovePutTail, Growing!MovePutHead, Growing!MoveTake,
               Growing!Slot
        <3>4. used' > 0 /\ used' <= MaxItems /\ (empty' <=> used' = 1)
            BY <1>1, <1>2, <1>4, <2>2, <2>5, <3>1, GrowingFacts
        <3> QED
            BY <1>1, <2>1, <2>4, <2>5, <3>2, <3>3, <3>4 DEF Growing!MovedInv
    <2>6. CASE call[p] \notin Growing(w)!Puts
        <3>1. result'[p] = mem'[IF call'[p] \in Growing(w)!FromHead THEN first'
                  ELSE Growing(w)!Succ(last')]
            <4>1. Growing(w)!MoveTake(p)
                BY <2>6 DEF Growing!MovePutTail, Growing!MovePutHead, Growing!Puts
            <4> QED
                BY <1>1, <1>2, <2>3, <4>1 DEF Growing!MoveTake, Growing!TypeInv
        <3>2. ~empty' /\ used' < size' - 1
            BY <1>1, <1>2, <1>3, <1>4, <2>2, <2>6
        <3> QED
            BY <1>1, <2>1, <2>4, <2>6, <3>1, <3>2 DEF Growing!MovedInv
    <2> QED
        BY <2>5, <2>6
<1> QED
    BY <1>6, <1>7, <1>8, <1>9, <1>10 DEF Growing!GrowInv

\* __ompc_list_add_slots: what the links are afterwards.
LEMMA GrowingLinks ==
    ASSUME NEW w \in {"dyn", "list"}, Growing(w)!GrowInv,
           NEW p \in Process, Growing(w)!GrowList(p)
    PROVE  \E base \in Nat : LET end == base + size - 1 IN
              /\ \A s \in Growing(w)!Slot : s + 1 < base
              /\ Growing(w)!Slot' = Growing(w)!Slot \cup (base..end)
              /\ next' = [s \in Growing(w)!Slot' |-> IF s = last THEN base
                                          ELSE IF s = end THEN first
                                          ELSE IF s \in Growing(w)!Slot THEN next[s]
                                              ELSE Growing(w)!NoSlot]
              /\ prev' = [s \in Growing(w)!Slot' |-> IF s = first THEN end
                                          ELSE IF s = base THEN last
                                          ELSE IF s \in Growing(w)!Slot THEN prev[s]
                                              ELSE Growing(w)!NoSlot]
<1>1. Growing(w)!LinkInv /\ Growing(w)!TypeInv /\ Growing(w)!RingInv
      /\ Growing(w)!Slot \subseteq Nat /\ size \in Nat \ {0} /\ Growing(w)!Full
    BY DEF Growing!GrowInv, Growing!TypeInv, Growing!RingInv, Growing!HolderInv, Growing!GrowList
<1>2. /\ first \in Growing(w)!Slot /\ last \in Growing(w)!Slot
      /\ Growing(w)!Succ(last) = first /\ Growing(w)!Pred(first) = last
    BY <1>1, GrowingRing DEF Growing!RingInv
<1>3. PICK m \in Growing(w)!Slot : m = Growing(w)!Max(Growing(w)!Slot)
           /\ \A s \in Growing(w)!Slot : s <= m
    <2>1. PICK m \in Growing(w)!Slot : \A s \in Growing(w)!Slot : m >= s
        BY <1>1 DEF Growing!TypeInv
    <2>2. Growing(w)!Max(Growing(w)!Slot) \in Growing(w)!Slot
          /\ \A s \in Growing(w)!Slot : Growing(w)!Max(Growing(w)!Slot) >= s
        BY <2>1 DEF Growing!Max
    <2> QED
        BY <1>1, <2>2
<1> DEFINE base == m + 2
           end == base + size - 1
           cut == IF next[last] = Growing(w)!NoSlot THEN prev
                  ELSE [prev EXCEPT ![next[last]] = Growing(w)!NoSlot]
           none == [s \in base..end |-> Growing(w)!NoSlot]
<1>4. base \in Nat /\ base \in base..end /\ end \in base..end /\ end \in Nat
      /\ Growing(w)!Slot \cap (base..end) = {}
    BY <1>1, <1>3
<1>5. next[last] # Growing(w)!NoSlot => next[last] = first
    BY <1>2 DEF Growing!Succ, Growing!GrowList
<1>6. cut[first] = Growing(w)!NoSlot
      /\ cut \in [Growing(w)!Slot -> Growing(w)!Slot \cup {Growing(w)!NoSlot}]
      /\ \A s \in Growing(w)!Slot : s # first => cut[s] = prev[s]
    BY <1>1, <1>2, <1>5 DEF Growing!LinkInv
<1>7. /\ mem' = Growing(w)!Extended(mem, [s \in base..end |-> NoItem])
      /\ next' = Growing(w)!Extended([next EXCEPT ![last] = base], [none EXCEPT ![end] = first])
      /\ prev' = Growing(w)!Extended([cut EXCEPT ![first] = end], [none EXCEPT ![base] = last])
    BY <1>3, <1>6 DEF Growing!GrowList, Growing!Slot
<1>8. Growing(w)!Slot' = Growing(w)!Slot \cup (base..end)
    BY <1>7 DEF Growing!Slot, Growing!Extended
<1>9. next' = [s \in Growing(w)!Slot' |-> IF s = last THEN base ELSE IF s = end THEN first
                               ELSE IF s \in Growing(w)!Slot THEN next[s] ELSE Growing(w)!NoSlot]
    <2>1. /\ DOMAIN [next EXCEPT ![last] = base] = Growing(w)!Slot
          /\ DOMAIN [none EXCEPT ![end] = first] = base..end
          /\ \A s \in Growing(w)!Slot : [next EXCEPT ![last] = base][s] = IF s = last
                 THEN base ELSE next[s]
          /\ \A s \in base..end : [none EXCEPT ![end] = first][s] = IF s = end THEN first
                 ELSE Growing(w)!NoSlot
        BY <1>1, <1>2, <1>4 DEF Growing!LinkInv
    <2>2. last \notin base..end /\ end \notin Growing(w)!Slot
        BY <1>2, <1>4
    <2> QED
        BY <1>7, <1>8, <2>1, <2>2 DEF Growing!Extended
<1>10. prev' = [s \in Growing(w)!Slot' |-> IF s = first THEN end ELSE IF s = base THEN last
                                ELSE IF s \in Growing(w)!Slot THEN prev[s] ELSE Growing(w)!NoSlot]
    BY <1>1, <1>2, <1>4, <1>6, <1>7, <1>8 DEF Growing!Extended
<1>11. \A s \in Growing(w)!Slot : s + 1 < base
    BY <1>1, <1>3
<1> HIDE DEF base
<1> QED
    BY <1>4, <1>8, <1>9, <1>10, <1>11

\* The list that grows: the new block closes the ring again.
LEMMA GrowingList ==
    ASSUME NEW w \in {"dyn", "list"}, Growing(w)!GrowInv,
           NEW p \in Process, Growing(w)!GrowList(p)
    PROVE  /\ Growing(w)!LinkInv'
           /\ \E r \in [0..(size - 1) -> Growing(w)!Slot],
                 q \in [0..(2 * size - 1) -> Growing(w)!Slot'] :
                 /\ Growing(w)!IsRing(r) /\ Growing(w)!IsRing(q)'
                 /\ \A i \in 0..(size - 1) : mem'[q[i]] = mem[r[i]]
<1>0. w = "list"
    BY DEF Growing!GrowList
<1>1. Growing(w)!LinkInv /\ Growing(w)!TypeInv /\ Growing(w)!RingInv
      /\ Growing(w)!Slot \subseteq Nat /\ size \in Nat \ {0} /\ Growing(w)!Full
      /\ first' = first /\ last' = last /\ used' = used
      /\ size' = 2 * size
    BY DEF Growing!GrowInv, Growing!TypeInv, Growing!RingInv, Growing!HolderInv, Growing!GrowList
<1>2. /\ first \in Growing(w)!Slot /\ last \in Growing(w)!Slot
      /\ Growing(w)!Succ(last) = first /\ Growing(w)!Pred(first) = last
    BY <1>1, GrowingRing DEF Growing!RingInv
<1>3. PICK base \in Nat : LET end == base + size - 1 IN
              /\ \A s \in Growing(w)!Slot : s + 1 < base
              /\ Growing(w)!Slot' = Growing(w)!Slot \cup (base..end)
              /\ next' = [s \in Growing(w)!Slot' |-> IF s = last THEN base
                                          ELSE IF s = end THEN first
                                          ELSE IF s \in Growing(w)!Slot THEN next[s]
                                              ELSE Growing(w)!NoSlot]
              /\ prev' = [s \in Growing(w)!Slot' |-> IF s = first THEN end
                                          ELSE IF s = base THEN last
                                          ELSE IF s \in Growing(w)!Slot THEN prev[s]
                                              ELSE Growing(w)!NoSlot]
    BY GrowingLinks
<1>a. PICK end \in Nat : end = base + size - 1
    BY <1>1, <1>3
<1>4. /\ base \in base..end /\ end \in base..end /\ end \in Nat
      /\ Growing(w)!Slot \cap (base..end) = {} /\ base..end \subseteq Nat
      /\ Growing(w)!Slot' = Growing(w)!Slot \cup (base..end)
    BY <1>1, <1>3, <1>a
<1>5. /\ \A s \in Growing(w)!Slot : s # last => next'[s] = next[s]
      /\ next'[last] = base /\ next'[end] = first
      /\ \A s \in base..end : s # end => next'[s] = Growing(w)!NoSlot
    BY <1>1, <1>2, <1>3, <1>a, <1>4
<1>6. /\ \A s \in Growing(w)!Slot : s # first => prev'[s] = prev[s]
      /\ prev'[first] = end /\ prev'[base] = last
      /\ \A s \in base..end : s # base => prev'[s] = Growing(w)!NoSlot
    BY <1>1, <1>2, <1>3, <1>a, <1>4
<1>7. /\ \A s \in Growing(w)!Slot : Growing(w)!Succ(s)' = IF s = last THEN base
             ELSE Growing(w)!Succ(s)
      /\ Growing(w)!Succ(last)' = base /\ Growing(w)!Succ(end)' = first
      /\ \A s \in base..end : s # end => Growing(w)!Succ(s)' = s + 1
    BY <1>0, <1>1, <1>2, <1>4, <1>5 DEF Growing!Succ, Growing!NoSlot
<1>8. /\ \A s \in Growing(w)!Slot : s # first => Growing(w)!Pred(s)' = Growing(w)!Pred(s)
      /\ Growing(w)!Pred(first)' = end /\ Growing(w)!Pred(base)' = last
      /\ \A s \in base..end : s # base => Growing(w)!Pred(s)' = s - 1
    BY <1>0, <1>1, <1>2, <1>4, <1>6 DEF Growing!Pred, Growing!NoSlot
<1>9. \A s \in Growing(w)!Slot : /\ Growing(w)!Succ(s) \in Growing(w)!Slot
                                    /\ Growing(w)!Pred(s) \in Growing(w)!Slot
                                 /\ prev[Growing(w)!Succ(s)] = IF next[s]
                                        = Growing(w)!NoSlot THEN Growing(w)!NoSlot ELSE s
                                 /\ next[Growing(w)!Pred(s)] = IF prev[s]
                                        = Growing(w)!NoSlot THEN Growing(w)!NoSlot ELSE s
                                 /\ Growing(w)!Pred(Growing(w)!Succ(s)) = s
                                    /\ Growing(w)!Succ(Growing(w)!Pred(s)) = s
    BY <1>0, <1>1, GrowingNeighbours
<1>10. Growing(w)!LinkInv'
    <2>1. next' \in [Growing(w)!Slot' -> Growing(w)!Slot' \cup {Growing(w)!NoSlot}]
              /\ prev' \in [Growing(w)!Slot' -> Growing(w)!Slot' \cup {Growing(w)!NoSlot}]
        BY <1>1, <1>2, <1>3, <1>a, <1>4 DEF Growing!LinkInv
    <2>2. ASSUME NEW s \in Growing(w)!Slot'
          PROVE  /\ Growing(w)!Succ(s)' \in Growing(w)!Slot'
                 /\ prev'[Growing(w)!Succ(s)'] = IF next'[s] = Growing(w)!NoSlot
                        THEN Growing(w)!NoSlot ELSE s
        <3>1. CASE s \in Growing(w)!Slot /\ s # last
            <4>1. Growing(w)!Succ(s)' = Growing(w)!Succ(s) /\ Growing(w)!Succ(s) # first
                  /\ next'[s] = next[s]
                BY <1>2, <1>5, <1>7, <1>9, <3>1
            <4>2. PICK u \in Growing(w)!Slot : u = Growing(w)!Succ(s)
                BY <1>9, <3>1
            <4>3. prev'[u] = prev[u] /\ u \in Growing(w)!Slot'
                BY <1>4, <1>6, <4>1, <4>2
            <4> QED
                BY <1>9, <3>1, <4>1, <4>2, <4>3
        <3>2. CASE s = last
            BY <1>1, <1>2, <1>4, <1>5, <1>6, <1>7, <3>2 DEF Growing!NoSlot
        <3>3. CASE s = end
            BY <1>1, <1>2, <1>4, <1>5, <1>6, <1>7, <3>3 DEF Growing!NoSlot
        <3>4. CASE s \in base..end /\ s # end
            <4>1. s + 1 \in base..end /\ s + 1 # base
                BY <1>1, <1>4, <3>4
            <4> QED
                BY <1>4, <1>5, <1>6, <1>7, <3>4, <4>1
        <3> QED
            BY <1>4, <3>1, <3>2, <3>3, <3>4
    <2>3. ASSUME NEW s \in Growing(w)!Slot'
          PROVE  /\ Growing(w)!Pred(s)' \in Growing(w)!Slot'
                 /\ next'[Growing(w)!Pred(s)'] = IF prev'[s] = Growing(w)!NoSlot
                        THEN Growing(w)!NoSlot ELSE s
        <3>1. CASE s \in Growing(w)!Slot /\ s # first
            <4>1. Growing(w)!Pred(s)' = Growing(w)!Pred(s) /\ Growing(w)!Pred(s) # last
                  /\ prev'[s] = prev[s]
                BY <1>2, <1>6, <1>8, <1>9, <3>1
            <4>2. PICK u \in Growing(w)!Slot : u = Growing(w)!Pred(s)
                BY <1>9, <3>1
            <4>3. next'[u] = next[u] /\ u \in Growing(w)!Slot'
                BY <1>4, <1>5, <4>1, <4>2
            <4> QED
                BY <1>9, <3>1, <4>1, <4>2, <4>3
        <3>2. CASE s = first
            BY <1>1, <1>2, <1>4, <1>5, <1>6, <1>8, <3>2 DEF Growing!NoSlot
        <3>3. CASE s = base
            BY <1>1, <1>2, <1>4, <1>5, <1>6, <1>8, <3>3 DEF Growing!NoSlot
        <3>4. CASE s \in base..end /\ s # base
            <4>1. s - 1 \in base..end /\ s - 1 # end
                BY <1>1, <1>4, <3>4
            <4> QED
                BY <1>4, <1>5, <1>6, <1>8, <3>4, <4>1
        <3> QED
            BY <1>4, <3>1, <3>2, <3>3, <3>4
    <2> QED
        BY <2>1, <2>2, <2>3 DEF Growing!LinkInv
<1>b. PICK n \in Nat \ {0} : n = size
    BY <1>1
<1>c. \A s \in Growing(w)!Slot : mem'[s] = mem[s]
    BY <1>4 DEF Growing!GrowList, Growing!Extended, Growing!Slot
<1>11. \E r \in [0..(n - 1) -> Growing(w)!Slot],
                 q \in [0..(2 * n - 1) -> Growing(w)!Slot'] :
          /\ Growing(w)!IsRing(r) /\ Growing(w)!IsRing(q)'
          /\ \A i \in 0..(n - 1) : mem'[q[i]] = mem[r[i]]
    <2>0. PICK r \in [0..(n - 1) -> Growing(w)!Slot] : Growing(w)!IsRing(r)
        BY <1>1, <1>b DEF Growing!RingInv
    <2>1. /\ r[0] = first /\ r[used] = last
          /\ \A i \in 0..(n - 1) : Growing(w)!Succ(r[i]) = IF i = n - 1 THEN r[0] ELSE r[i + 1]
          /\ \A i, j \in 0..(n - 1) : r[i] = r[j] => i = j
        BY <1>b, <2>0 DEF Growing!IsRing
    <2>2. used = n - 1 /\ n \in Nat \ {0} /\ size' = 2 * n /\ end = base + n - 1
        BY <1>1, <1>a, <1>b DEF Growing!Full
    <2> DEFINE q == [i \in 0..(2 * n - 1) |-> IF i < n THEN r[i] ELSE base + (i - n)]
    <2>3. \A i \in 0..(2 * n - 1) : i >= n => base + (i - n) \in base..end
        BY <1>1, <2>2
    <2>4. q \in [0..(2 * n - 1) -> Growing(w)!Slot']
        BY <1>4, <2>1, <2>2, <2>3
    <2>5. q[0] = first' /\ q[used'] = last'
        BY <1>1, <2>1, <2>2
    <2>6. ASSUME NEW i \in 0..(2 * n - 1)
          PROVE  Growing(w)!Succ(q[i])' = IF i = 2 * n - 1 THEN q[0] ELSE q[i + 1]
        <3>1. CASE i < n - 1
            <4>1. i \in 0..(n - 1) /\ n - 1 \in 0..(n - 1) /\ i # n - 1 /\ r[i] # last
                BY <2>1, <2>2, <3>1
            <4>2. Growing(w)!Succ(r[i]) = r[i + 1] /\ q[i] = r[i] /\ q[i + 1] = r[i + 1]
                      /\ i # 2 * n - 1
                BY <2>1, <2>2, <3>1, <4>1
            <4> QED
                BY <1>7, <2>1, <4>1, <4>2
        <3>2. CASE i = n - 1
            <4>1. q[i] = last /\ q[i + 1] = base /\ i # 2 * n - 1
                BY <1>1, <2>1, <2>2, <3>2
            <4> QED
                BY <1>2, <1>7, <4>1
        <3>3. CASE i >= n /\ i # 2 * n - 1
            <4>1. base + (i - n) \in base..end /\ base + (i - n) # end
                BY <2>2, <2>3, <3>3
            <4>2. q[i] = base + (i - n) /\ q[i + 1] = (base + (i - n)) + 1
                BY <2>2, <3>3
            <4> QED
                BY <1>7, <3>3, <4>1, <4>2
        <3>4. CASE i = 2 * n - 1
            <4>1. q[i] = end /\ q[0] = first
                BY <2>1, <2>2, <3>4
            <4> QED
                BY <1>7, <3>4, <4>1
        <3> QED
            BY <2>2, <3>1, <3>2, <3>3, <3>4
    <2>7. \A i, j \in 0..(2 * n - 1) : q[i] = q[j] => i = j
        <3> TAKE i, j \in 0..(2 * n - 1)
        <3>1. i >= n => q[i] = base + (i - n) /\ q[i] \in base..end
            BY <2>2, <2>3
        <3>2. j >= n => q[j] = base + (j - n) /\ q[j] \in base..end
            BY <2>2, <2>3
        <3>3. i < n => q[i] = r[i] /\ q[i] \in Growing(w)!Slot /\ i \in 0..(n - 1)
            BY <2>1, <2>2
        <3>4. j < n => q[j] = r[j] /\ q[j] \in Growing(w)!Slot /\ j \in 0..(n - 1)
            BY <2>1, <2>2
        <3>5. Growing(w)!Slot \cap (base..end) = {}
            BY <1>4
        <3> HIDE DEF q
        <3>6. CASE i < n /\ j < n
            BY <2>1, <3>3, <3>4, <3>6
        <3>7. CASE i >= n /\ j >= n
            BY <2>2, <3>1, <3>2, <3>7
        <3> QED
            BY <2>2, <3>1, <3>2, <3>3, <3>4, <3>5, <3>6, <3>7
    <2>8. (0..(size - 1))' = 0..(2 * n - 1) /\ (size - 1)' = 2 * n - 1
        BY <1>1, <2>2
    <2>9. \A i \in 0..(n - 1) : mem'[q[i]] = mem[r[i]]
        BY <1>c, <2>0, <2>2
    <2> HIDE DEF q
    <2>10. Growing(w)!IsRing(q)'
        BY <2>5, <2>6, <2>7, <2>8 DEF Growing!IsRing
    <2> QED
        BY <2>0, <2>4, <2>9, <2>10
<1> QED
    BY <1>b, <1>10, <1>11

\* The array that grows: what has wrapped around moves behind the old end.
LEMMA GrowingArray ==
    ASSUME NEW w \in {"dyn", "list"}, Growing(w)!GrowInv,
           NEW p \in Process, Growing(w)!GrowArray(p)
    PROVE  /\ Growing(w)!Slot' = 0..(size' - 1)
           /\ \E r \in [0..(size - 1) -> Growing(w)!Slot],
                 q \in [0..(2 * size - 1) -> Growing(w)!Slot'] :
                 /\ Growing(w)!IsRing(r) /\ Growing(w)!IsRing(q)'
                 /\ \A i \in 0..(size - 1) : mem'[q[i]] = mem[r[i]]
<1>1. Growing(w)!TypeInv /\ Growing(w)!RingInv /\ size \in Nat \ {0} /\ Growing(w)!Full
      /\ w = "dyn"
      /\ first' = first /\ used' = used /\ size' = 2 * size
    BY DEF Growing!GrowInv, Growing!RingInv, Growing!HolderInv, Growing!GrowArray
<1>2. Growing(w)!Slot = 0..(size - 1)
    BY <1>1 DEF Growing!RingInv
<1>3. PICK n \in Nat \ {0} : n = size
    BY <1>1
<1>4. PICK r \in [0..(n - 1) -> 0..(n - 1)] : Growing(w)!IsRing(r)
    BY <1>1, <1>2, <1>3 DEF Growing!RingInv
<1>5. /\ r[0] = first /\ r[n - 1] = last
      /\ \A i \in 0..(n - 1) : Growing(w)!Succ(r[i]) = IF i = n - 1 THEN r[0] ELSE r[i + 1]
      /\ \A i, j \in 0..(n - 1) : r[i] = r[j] => i = j
    BY <1>1, <1>3, <1>4 DEF Growing!IsRing, Growing!Full
<1>6. \A s \in 0..(n - 1) : Growing(w)!Succ(s) = IF s = n - 1 THEN 0 ELSE s + 1
    BY <1>1, <1>3, NextModulo DEF Growing!Succ
<1>7. PICK h \in 0..(n - 1) : h = first
    BY <1>3, <1>4, <1>5
<1>8. /\ last = IF h = 0 THEN n - 1 ELSE h - 1
      /\ last \in 0..(n - 1) /\ (last < first <=> h # 0)
    <2>1. last \in 0..(n - 1) /\ Growing(w)!Succ(last) = h
        BY <1>3, <1>4, <1>5, <1>7
    <2>2. h = IF last = n - 1 THEN 0 ELSE last + 1
        BY <1>6, <2>1
    <2> QED
        BY <1>3, <1>7, <2>1, <2>2
<1>9. /\ last' = h + n - 1
      /\ mem' = [s \in 0..(2 * n - 1) |->
                      IF s < n THEN mem[s]
                      ELSE IF h # 0 /\ s - n <= h - 1 THEN mem[s - n] ELSE NoItem]
    BY <1>3, <1>7, <1>8 DEF Growing!GrowArray
<1>10. Growing(w)!Slot' = 0..(2 * n - 1)
    BY <1>9 DEF Growing!Slot
<1>11. \A s \in 0..(2 * n - 1) : Growing(w)!Succ(s)' = IF s = 2 * n - 1 THEN 0 ELSE s + 1
    <2>1. 2 * n \in Nat \ {0}
        OBVIOUS
    <2>2. \A s \in 0..(2 * n - 1) : (s + 1) % (2 * n) = IF s = 2 * n - 1 THEN 0 ELSE s + 1
        BY <2>1, NextModulo
    <2> QED
        BY <1>1, <1>3, <2>2 DEF Growing!Succ
<1> DEFINE q == [i \in 0..(2 * n - 1) |-> IF i < n THEN Unrolled(n, h, r[i]) ELSE Beyond(n, h, i)]
<1>b. r[0] = h /\ r[n - 1] = IF h = 0 THEN n - 1 ELSE h - 1
    BY <1>5, <1>7, <1>8
<1>12. \A i \in 0..(n - 1) : r[i] \in 0..(n - 1)
    BY <1>4
<1>c. q = [i \in 0..(2 * n - 1) |-> q[i]]
    OBVIOUS
<1>13. /\ \A i \in 0..(n - 1) : i \in 0..(2 * n - 1) /\ q[i] = Unrolled(n, h, r[i])
       /\ \A i \in n..(2 * n - 1) : i \in 0..(2 * n - 1) /\ q[i] = Beyond(n, h, i)
    OBVIOUS
<1> HIDE DEF q
<1>14. /\ \A i \in 0..(n - 1) : q[i] \in h..(h + n - 1) /\ q[i] \in 0..(2 * n - 1)
       /\ \A i \in n..(2 * n - 1) : q[i] \notin h..(h + n - 1) /\ q[i] \in 0..(2 * n - 1)
       /\ \A i \in 0..(2 * n - 1) : i \in 0..(n - 1) \/ i \in n..(2 * n - 1)
    <2>1. \A i \in 0..(n - 1) : q[i] \in h..(h + n - 1) /\ q[i] \in 0..(2 * n - 1)
        <3> TAKE i \in 0..(n - 1)
        <3>1. PICK x \in 0..(n - 1) : q[i] = Unrolled(n, h, x)
            BY <1>12, <1>13
        <3>2. Unrolled(n, h, x) \in h..(h + n - 1) /\ Unrolled(n, h, x) \in 0..(2 * n - 1)
            BY GrowingUnrolled
        <3> QED
            BY <3>1, <3>2
    <2>2. \A i \in n..(2 * n - 1) : q[i] \notin h..(h + n - 1) /\ q[i] \in 0..(2 * n - 1)
        <3> TAKE i \in n..(2 * n - 1)
        <3>1. q[i] = Beyond(n, h, i)
            BY <1>13
        <3>2. Beyond(n, h, i) \notin h..(h + n - 1) /\ Beyond(n, h, i) \in 0..(2 * n - 1)
            BY GrowingUnrolled
        <3> QED
            BY <3>1, <3>2
    <2>3. \A i \in 0..(2 * n - 1) : i \in 0..(n - 1) \/ i \in n..(2 * n - 1)
        OBVIOUS
    <2> QED
        BY <2>1, <2>2, <2>3
<1>a. q \in [0..(2 * n - 1) -> Growing(w)!Slot']
    BY <1>10, <1>c, <1>14
<1>15. q[0] = h /\ q[n - 1] = h + n - 1
    <2>1. 0 \in 0..(n - 1) /\ n - 1 \in 0..(n - 1)
        OBVIOUS
    <2>2. q[0] = Unrolled(n, h, h) /\ q[n - 1] = Unrolled(n, h, IF h = 0 THEN n - 1 ELSE h - 1)
        BY <1>b, <1>13, <2>1
    <2>3. /\ Unrolled(n, h, h) = h
          /\ Unrolled(n, h, IF h = 0 THEN n - 1 ELSE h - 1) = h + n - 1
        BY GrowingUnrolled
    <2> QED
        BY <2>2, <2>3
<1>16. ASSUME NEW i \in 0..(2 * n - 1)
       PROVE  Growing(w)!Succ(q[i])' = IF i = 2 * n - 1 THEN q[0] ELSE q[i + 1]
    <2>1. CASE i \in 0..(n - 1) /\ i # n - 1
        <3>1. i + 1 \in 0..(n - 1) /\ 0 \in 0..(n - 1) /\ i + 1 # 0 /\ i # 2 * n - 1
            BY <2>1
        <3>2. Growing(w)!Succ(r[i]) = r[i + 1]
            BY <1>5, <2>1, <3>1
        <3>3. r[i + 1] = IF r[i] = n - 1 THEN 0 ELSE r[i] + 1
            BY <1>6, <1>12, <2>1, <3>1, <3>2
        <3>4. r[i + 1] # h
            BY <1>5, <1>b, <3>1
        <3>5. q[i + 1] = q[i] + 1
            <4>1. PICK x \in 0..(n - 1), y \in 0..(n - 1) : x = r[i] /\ y = r[i + 1]
                BY <1>12, <2>1, <3>1
            <4>2. q[i] = Unrolled(n, h, x) /\ q[i + 1] = Unrolled(n, h, y)
                BY <1>13, <2>1, <3>1, <4>1
            <4>3. y = (IF x = n - 1 THEN 0 ELSE x + 1) /\ y # h
                BY <3>3, <3>4, <4>1
            <4>4. Unrolled(n, h, y) = Unrolled(n, h, x) + 1
                BY <4>3 DEF Unrolled
            <4> QED
                BY <4>2, <4>4
        <3>6. q[i] \in 0..(2 * n - 1) /\ q[i + 1] \in 0..(2 * n - 1)
            BY <1>14, <2>1, <3>1
        <3>7. q[i] # 2 * n - 1
            BY <3>5, <3>6
        <3> QED
            BY <1>11, <3>1, <3>5, <3>6, <3>7
    <2>2. CASE i = n - 1
        <3>1. n \in n..(2 * n - 1) /\ i # 2 * n - 1 /\ i + 1 = n /\ h + n - 1 \in 0..(2 * n - 1)
            BY <2>2
        <3>2. q[n] = IF h + n - 1 = 2 * n - 1 THEN 0 ELSE h + n
            <4>1. q[n] = Beyond(n, h, n)
                BY <1>13, <3>1
            <4>2. Beyond(n, h, n) = IF h + n - 1 = 2 * n - 1 THEN 0 ELSE h + n
                BY GrowingUnrolled
            <4> QED
                BY <4>1, <4>2
        <3>3. Growing(w)!Succ(h + n - 1)' = IF h + n - 1 = 2 * n - 1 THEN 0 ELSE h + n
            BY <1>11, <3>1
        <3> QED
            BY <1>15, <2>2, <3>1, <3>2, <3>3
    <2>3. CASE i \in n..(2 * n - 1)
        <3>1. q[i] = Beyond(n, h, i) /\ q[i] \in 0..(2 * n - 1)
            BY <1>13, <1>14, <2>3
        <3>2. Growing(w)!Succ(q[i])' = IF i = 2 * n - 1 THEN h ELSE Beyond(n, h, i + 1)
            <4>1. (IF Beyond(n, h, i) = 2 * n - 1 THEN 0 ELSE Beyond(n, h, i) + 1)
                      = IF i = 2 * n - 1 THEN h ELSE Beyond(n, h, i + 1)
                BY <2>3, GrowingUnrolled
            <4>2. PICK b \in 0..(2 * n - 1) : b = q[i] /\ b = Beyond(n, h, i)
                BY <3>1
            <4>3. Growing(w)!Succ(b)' = IF b = 2 * n - 1 THEN 0 ELSE b + 1
                BY <1>11
            <4> QED
                BY <4>1, <4>2, <4>3
        <3>3. i # 2 * n - 1 => i + 1 \in n..(2 * n - 1)
            BY <2>3
        <3> QED
            BY <1>13, <1>15, <3>2, <3>3
    <2> QED
        BY <1>14, <2>1, <2>2, <2>3
<1>17. \A i, j \in 0..(2 * n - 1) : q[i] = q[j] => i = j
    <2> TAKE i, j \in 0..(2 * n - 1)
    <2>1. CASE i \in 0..(n - 1) /\ j \in 0..(n - 1)
        <3>1. q[i] = q[j] => r[i] = r[j]
            <4>1. PICK x \in 0..(n - 1), y \in 0..(n - 1) : x = r[i] /\ y = r[j]
                BY <1>12, <2>1
            <4>2. q[i] = Unrolled(n, h, x) /\ q[j] = Unrolled(n, h, y)
                BY <1>13, <2>1, <4>1
            <4>3. Unrolled(n, h, x) = Unrolled(n, h, y) => x = y
                BY GrowingUnrolled
            <4> QED
                BY <4>1, <4>2, <4>3
        <3> QED
            BY <1>5, <2>1, <3>1
    <2>2. CASE i \in n..(2 * n - 1) /\ j \in n..(2 * n - 1)
        <3>1. q[i] = Beyond(n, h, i) /\ q[j] = Beyond(n, h, j)
            BY <1>13, <2>2
        <3>2. Beyond(n, h, i) = Beyond(n, h, j) => i = j
            BY <2>2, GrowingUnrolled
        <3> QED
            BY <3>1, <3>2
    <2> QED
        BY <1>14, <2>1, <2>2
<1>18. ASSUME NEW i \in 0..(n - 1) PROVE mem'[q[i]] = mem[r[i]]
    <2>1. PICK x \in 0..(n - 1) : x = r[i] /\ q[i] = Unrolled(n, h, x)
        BY <1>12, <1>13
    <2>2. PICK y : y = Unrolled(n, h, x)
        OBVIOUS
    <2>3. mem'[y] = mem[x]
        BY <1>9, <2>2 DEF Unrolled
    <2> QED
        BY <2>1, <2>2, <2>3
<1>19. used' = n - 1 /\ (size - 1)' = 2 * n - 1 /\ 2 * size - 1 = 2 * n - 1
    BY <1>1, <1>3 DEF Growing!Full
<1>20. Growing(w)!IsRing(q)'
    BY <1>1, <1>7, <1>9, <1>15, <1>16, <1>17, <1>19 DEF Growing!IsRing
<1> QED
    BY <1>1, <1>2, <1>3, <1>4, <1>10, <1>a, <1>18, <1>20

\* A full queue that grows is a ring again, of twice the slots.
LEMMA GrowingGrows ==
    ASSUME NEW w \in {"dyn", "list"}, Growing(w)!GrowInv,
           NEW p \in Process, Growing(w)!GrowList(p) \/ Growing(w)!GrowArray(p)
    PROVE  /\ Growing(w)!GrowInv'
           /\ \E r \in [0..(size - 1) -> Growing(w)!Slot],
                 q \in [0..(size' - 1) -> Growing(w)!Slot'] :
                 /\ Growing(w)!IsRing(r) /\ Growing(w)!IsRing(q)'
                 /\ \A i \in 0..(size - 1) : mem'[q[i]] = mem[r[i]]
<1>1. Growing(w)!TypeInv /\ Growing(w)!RingInv /\ Growing(w)!HolderInv /\ Growing(w)!MovedInv
      /\ Growing(w)!CallInv /\ size \in Nat \ {0}
      /\ used = size - 1 /\ call[p] \in Growing(w)!Puts
    BY DEF Growing!GrowInv, Growing!RingInv, Growing!HolderInv, Growing!GrowArray,
       Growing!GrowList, Growing!Full
<1>2. /\ at[p] = "grow" /\ Growing(w)!Goto(p, "move") /\ call' = call /\ given' = given
         /\ result' = result
      /\ l1' = l1 /\ empty' = empty /\ used' = used
      /\ size' = 2 * size
    BY DEF Growing!GrowArray, Growing!GrowList, Growing!callVars
<1>3. \E r \in [0..(size - 1) -> Growing(w)!Slot], q \in [0..(size' - 1) -> Growing(w)!Slot'] :
         /\ Growing(w)!IsRing(r) /\ Growing(w)!IsRing(q)'
         /\ \A i \in 0..(size - 1) : mem'[q[i]] = mem[r[i]]
    BY <1>2, GrowingList, GrowingArray
<1>4. IF w = "list" THEN Growing(w)!LinkInv' ELSE Growing(w)!Slot' = 0..(size' - 1)
    <2>1. Growing(w)!GrowList(p) => w = "list"
        BY DEF Growing!GrowList
    <2>2. Growing(w)!GrowArray(p) => w # "list"
        BY DEF Growing!GrowArray
    <2> QED
        BY <2>1, <2>2, GrowingList, GrowingArray
<1>5. Growing(w)!RingInv'
    <2>1. size' \in Nat \ {0} /\ used' \in 0..(size' - 1)
        BY <1>1, <1>2
    <2> QED
        BY <1>3, <1>4, <2>1 DEF Growing!RingInv
<1>6. Growing(w)!Slot' \subseteq Nat
      /\ \E m \in Growing(w)!Slot' : \A s \in Growing(w)!Slot' : s <= m
    <2>1. CASE Growing(w)!GrowList(p)
        <3>1. PICK base \in Nat : /\ \A s \in Growing(w)!Slot : s + 1 < base
                                  /\ Growing(w)!Slot'
                                         = Growing(w)!Slot \cup (base..(base + size - 1))
            BY <2>1, GrowingLinks
        <3>2. \A s \in Growing(w)!Slot' : s <= base + size - 1 /\ s \in Nat
            BY <1>1, <3>1 DEF Growing!TypeInv
        <3> QED
            BY <1>1, <3>1, <3>2
    <2>2. CASE Growing(w)!GrowArray(p)
        <3>1. Growing(w)!Slot' = 0..(2 * size - 1)
            BY <1>1, <1>2, <2>2, GrowingArray
        <3>2. 2 * size - 1 \in Nat
            BY <1>1
        <3>3. 2 * size - 1 \in Growing(w)!Slot'
            BY <3>1, <3>2
        <3>4. \A s \in Growing(w)!Slot' : s \in Nat /\ s <= 2 * size - 1
            BY <3>1, <3>2
        <3> QED
            BY <3>3, <3>4
    <2> QED
        BY <2>1, <2>2
<1>7. /\ at'[p] = "move" /\ \A q \in Process \ {p} : at'[q] = at[q]
      /\ at' \in [Process -> {"idle", "peek", "lock", "return"} \cup Growing(w)!Holding]
    BY <1>1, <1>2 DEF Growing!TypeInv, Growing!Goto, Growing!Holding
<1>8. l1 = p /\ \A q \in Process \ {p} : at[q] \notin Growing(w)!Holding
    BY <1>1, <1>2 DEF Growing!HolderInv, Growing!Holding
<1>9. Growing(w)!HolderInv'
    <2>1. ~Growing(w)!Full'
        BY <1>1, <1>2 DEF Growing!Full
    <2>2. \A q \in Process : at'[q] \in Growing(w)!Holding => q = p
        BY <1>7, <1>8
    <2>3. empty <=> used = 0
        BY <1>1, <1>2, <1>8 DEF Growing!HolderInv, Growing!Holding
    <2> QED
        BY <1>1, <1>2, <1>7, <1>8, <2>1, <2>2, <2>3 DEF Growing!HolderInv, Growing!Holding
<1>10. Growing(w)!MovedInv' /\ Growing(w)!CallInv'
    <2>1. \A q \in Process : at'[q] # "flag"
        BY <1>7, <1>8 DEF Growing!Holding
    <2> QED
        BY <1>1, <1>2, <1>7, <2>1 DEF Growing!MovedInv, Growing!CallInv, Growing!Pending
<1> QED
    BY <1>1, <1>2, <1>3, <1>5, <1>6, <1>7, <1>9, <1>10 DEF Growing!GrowInv, Growing!TypeInv

\* Every step keeps the invariant.
LEMMA GrowingStep ==
    ASSUME NEW w \in {"dyn", "list"}
    PROVE  Growing(w)!GrowInv /\ [Growing(w)!Next]_(Growing(w)!vars) => Growing(w)!GrowInv'
<1> SUFFICES ASSUME Growing(w)!GrowInv, [Growing(w)!Next]_(Growing(w)!vars)
             PROVE  Growing(w)!GrowInv'
    OBVIOUS
<1>1. CASE Growing(w)!Next
    BY <1>1, GrowingQuiet, GrowingMoves, GrowingGrows DEF Growing!Next, Growing!Step
<1>2. CASE UNCHANGED Growing(w)!vars
    <2>1. UNCHANGED growingMemory /\ at' = at /\ call' = call /\ given' = given /\ result'
              = result
          /\ l1' = l1 /\ empty' = empty
        BY <1>2 DEF Growing!vars, growingMemory, Growing!queueVars, Growing!listVars,
           Growing!callVars
    <2>2. Growing(w)!RingInv' /\ Growing(w)!Slot' = Growing(w)!Slot
        BY <2>1, GrowingKept
    <2>3. Growing(w)!HolderInv' /\ Growing(w)!MovedInv' /\ Growing(w)!CallInv'
          /\ Growing(w)!TypeInv'
        BY <2>1, <2>2 DEF Growing!GrowInv, Growing!HolderInv, Growing!MovedInv, Growing!CallInv,
           Growing!TypeInv, growingMemory, Growing!Full, Growing!Succ
    <2> QED
        BY <2>2, <2>3 DEF Growing!GrowInv
<1> QED
    BY <1>1, <1>2

\* The invariant says that the links are there in both directions.
LEMMA GrowingLinked ==
    ASSUME NEW w \in {"dyn", "list"}
    PROVE  Growing(w)!GrowInv => Growing(w)!LinkedBothWays
<1> SUFFICES ASSUME Growing(w)!GrowInv, w = "list" PROVE Growing(w)!LinkedBothWays
    BY DEF Growing!LinkedBothWays
<1>1. Growing(w)!TypeInv /\ Growing(w)!RingInv
    BY DEF Growing!GrowInv
<1>2. first \in Growing(w)!Slot /\ last \in Growing(w)!Slot
    BY <1>1, GrowingRing DEF Growing!RingInv
<1>3. \A s \in Growing(w)!Slot : /\ next[s] # Growing(w)!NoSlot => prev[next[s]] = s
                                 /\ prev[s] # Growing(w)!NoSlot => next[prev[s]] = s
    BY <1>1, GrowingNeighbours DEF Growing!TypeInv
<1> QED
    BY <1>2, <1>3 DEF Growing!LinkedBothWays

-----------------------------------------------------------------------------
(* The queue that grows implements WorkDeque. *)

\* What Ring reads is any chain of slots that starts at its head.
RingLaw(w) == \A n \in Nat : \A q :
    (\A i \in 1..n : q[i] = Growing(w)!Succ(q[i - 1])) =>
        Growing(w)!Ring(q[0], n) = [i \in 1..n |-> mem[q[i]]]
RingLaws == \A w \in {"dyn", "list"} : RingLaw(w)
LEMMA GrowingRingLaw == RingLaws
<1> SUFFICES ASSUME NEW w \in {"dyn", "list"}, NEW n \in Nat, NEW q,
                    \A i \in 1..n : q[i] = Growing(w)!Succ(q[i - 1])
             PROVE  Growing(w)!Ring(q[0], n) = [i \in 1..n |-> mem[q[i]]]
    BY DEF RingLaw, RingLaws
<1> DEFINE Along(f) == f = [i \in 0..n |-> IF i = 0 THEN q[0] ELSE Growing(w)!Succ(f[i - 1])]
           path == CHOOSE f : Along(f)
           S == {i \in 0..n : path[i] # q[i]}
<1>1. Along([i \in 0..n |-> q[i]])
    <2> DEFINE f == [i \in 0..n |-> q[i]]
    <2>1. \A i \in 0..n : f[i] = IF i = 0 THEN q[0] ELSE Growing(w)!Succ(f[i - 1])
        OBVIOUS
    <2> QED
        BY <2>1
<1>2. Along(path)
    <2> HIDE DEF Along
    <2> QED
        BY <1>1
<1>3. \A i \in 0..n : path[i] = IF i = 0 THEN q[0] ELSE Growing(w)!Succ(path[i - 1])
    BY <1>2
<1>4. Growing(w)!Ring(q[0], n) = [i \in 1..n |-> mem[path[i]]]
    BY DEF Growing!Ring
<1> HIDE DEF path
<1>5. S = {}
    <2> SUFFICES ASSUME S # {} PROVE FALSE
        OBVIOUS
    <2>1. PICK m \in S : \A j \in S : m <= j
        BY LeastIndex
    <2>2. m # 0
        BY <1>3, <2>1
    <2>3. m - 1 \in 0..n /\ m - 1 \notin S /\ m \in 1..n
        BY <2>1, <2>2
    <2>4. path[m - 1] = q[m - 1] /\ q[m] = Growing(w)!Succ(q[m - 1])
        BY <2>3
    <2>5. m \in 0..n /\ path[m] # q[m]
        BY <2>1
    <2>6. path[m] = Growing(w)!Succ(path[m - 1])
        BY <1>3, <2>2, <2>5
    <2> QED
        BY <2>4, <2>5, <2>6
<1> QED
    BY <1>4, <1>5

LEMMA GrowingChain ==
    ASSUME NEW w \in {"dyn", "list"}
    PROVE  RingLaw(w)
BY GrowingRingLaw DEF RingLaws

\* The items after the head, after the slot behind it, and after the one before it.
LEMMA GrowingContents ==
    ASSUME NEW w \in {"dyn", "list"}, Growing(w)!TypeInv, Growing(w)!RingInv,
           NEW r \in [0..(size - 1) -> Growing(w)!Slot], Growing(w)!IsRing(r),
           NEW m \in 0..(size - 1)
    PROVE  /\ Growing(w)!Ring(first, m) = [i \in 1..m |-> mem[r[i]]]
           /\ m # size - 1 => Growing(w)!Ring(Growing(w)!Succ(first), m)
                  = [i \in 1..m |-> mem[r[i + 1]]]
           /\ Growing(w)!Ring(Growing(w)!Pred(first), m) = [i \in 1..m |-> mem[r[i - 1]]]
<1>1. /\ size \in Nat \ {0} /\ r[0] = first
      /\ \A i \in 0..(size - 1) : Growing(w)!Succ(r[i]) = IF i = size - 1 THEN r[0] ELSE r[i + 1]
    BY DEF Growing!RingInv, Growing!IsRing
<1>2. Growing(w)!Pred(first) = r[size - 1]
    <2>1. 0 \in 0..(size - 1)
        BY <1>1
    <2> QED
        BY <1>1, <2>1, GrowingRing
<1>3. m \in Nat
    BY <1>1
<1>4. Growing(w)!Ring(first, m) = [i \in 1..m |-> mem[r[i]]]
    <2>1. ASSUME NEW i \in 1..m PROVE r[i] = Growing(w)!Succ(r[i - 1])
        <3>1. i - 1 \in 0..(size - 1) /\ i - 1 # size - 1 /\ (i - 1) + 1 = i
            BY <1>1
        <3> QED
            BY <1>1, <3>1
    <2>2. Growing(w)!Ring(r[0], m) = [i \in 1..m |-> mem[r[i]]]
        <3>1. RingLaw(w)
            BY GrowingChain
        <3>2. (\A i \in 1..m : r[i] = Growing(w)!Succ(r[i - 1])) =>
                 Growing(w)!Ring(r[0], m) = [i \in 1..m |-> mem[r[i]]]
            BY <1>3, <3>1, Zenon DEF RingLaw
        <3> QED
            BY <2>1, <3>2
    <2> QED
        BY <1>1, <2>2
<1>5. m # size - 1 => Growing(w)!Ring(Growing(w)!Succ(first), m) = [i \in 1..m |-> mem[r[i + 1]]]
    <2> HAVE m # size - 1
    <2> DEFINE q == [i \in 0..m |-> r[i + 1]]
    <2>1. q[0] = Growing(w)!Succ(first)
        BY <1>1
    <2>2. ASSUME NEW i \in 1..m PROVE q[i] = Growing(w)!Succ(q[i - 1])
        <3>1. i \in 0..(size - 1) /\ i # size - 1 /\ (i - 1) + 1 = i /\ i - 1 \in 0..m
              /\ i \in 0..m
            BY <1>1
        <3>2. q[i - 1] = r[i] /\ q[i] = r[i + 1]
            BY <3>1
        <3> QED
            BY <1>1, <3>1, <3>2
    <2>3. \A i \in 1..m : q[i] = r[i + 1]
        OBVIOUS
    <2> HIDE DEF q
    <2>4. Growing(w)!Ring(q[0], m) = [i \in 1..m |-> mem[q[i]]]
        <3>1. RingLaw(w)
            BY GrowingChain
        <3>2. (\A i \in 1..m : q[i] = Growing(w)!Succ(q[i - 1])) =>
                 Growing(w)!Ring(q[0], m) = [i \in 1..m |-> mem[q[i]]]
            BY <1>3, <3>1, Zenon DEF RingLaw
        <3> QED
            BY <2>2, <3>2
    <2> QED
        BY <2>1, <2>3, <2>4
<1>6. Growing(w)!Ring(Growing(w)!Pred(first), m) = [i \in 1..m |-> mem[r[i - 1]]]
    <2> DEFINE q == [i \in 0..m |-> IF i = 0 THEN r[size - 1] ELSE r[i - 1]]
    <2>1. q[0] = Growing(w)!Pred(first)
        BY <1>2, <1>3
    <2>2. ASSUME NEW i \in 1..m PROVE q[i] = Growing(w)!Succ(q[i - 1])
        <3>1. CASE i = 1
            <4>1. q[i] = r[0] /\ q[i - 1] = r[size - 1]
                BY <1>3, <3>1
            <4> QED
                BY <1>1, <4>1
        <3>2. CASE i # 1
            <4>1. /\ i \in 0..m /\ i - 1 \in 0..m /\ i # 0 /\ i - 1 # 0 /\ i - 2 \in 0..(size - 1)
                  /\ i - 2 # size - 1 /\ (i - 2) + 1 = i - 1 /\ (i - 1) - 1 = i - 2
                BY <1>1, <3>2
            <4>2. q[i] = r[i - 1] /\ q[i - 1] = r[i - 2]
                BY <4>1
            <4> QED
                BY <1>1, <4>1, <4>2
        <3> QED
            BY <3>1, <3>2
    <2>3. \A i \in 1..m : q[i] = r[i - 1]
        OBVIOUS
    <2> HIDE DEF q
    <2>4. Growing(w)!Ring(q[0], m) = [i \in 1..m |-> mem[q[i]]]
        <3>1. RingLaw(w)
            BY GrowingChain
        <3>2. (\A i \in 1..m : q[i] = Growing(w)!Succ(q[i - 1])) =>
                 Growing(w)!Ring(q[0], m) = [i \in 1..m |-> mem[q[i]]]
            BY <1>3, <3>1, Zenon DEF RingLaw
        <3> QED
            BY <2>2, <3>2
    <2> QED
        BY <2>1, <2>3, <2>4
<1> QED
    BY <1>4, <1>5, <1>6

\* The content between two moves, and while p has moved and not yet written is_empty.
LEMMA GrowingSettled ==
    ASSUME NEW w \in {"dyn", "list"}, Growing(w)!GrowInv, \A q \in Process : at[q] # "flag"
    PROVE  Growing(w)!Content = Growing(w)!Ring(first, used)
BY DEF Growing!GrowInv, Growing!HolderInv, Growing!Content
LEMMA GrowingMoving ==
    ASSUME NEW w \in {"dyn", "list"}, Growing(w)!GrowInv, NEW p \in Process, at[p] = "flag"
    PROVE  Growing(w)!Content = Growing(w)!Before(call[p])
BY GrowingFacts DEF Growing!GrowInv, Growing!HolderInv, Growing!Holding, Growing!Content

\* A step that leaves the slots and the indices alone and moves the call of p on.
LEMMA GrowingSameContent ==
    ASSUME NEW w \in {"dyn", "list"}, Growing(w)!GrowInv, Growing(w)!GrowInv',
           NEW p \in Process, UNCHANGED growingMemory,
           at[p] # "flag", at'[p] # "flag",
           \A q \in Process \ {p} : at'[q] = at[q] /\ call'[q] = call[q]
    PROVE  Growing(w)!Content' = Growing(w)!Content
<1>1. \A h, n : Growing(w)!Ring(h, n)' = Growing(w)!Ring(h, n)
    BY DEF growingMemory, Growing!Ring, Growing!Succ
<1>2. /\ first' = first /\ used' = used
      /\ Growing(w)!Succ(first)' = Growing(w)!Succ(first) /\ Growing(w)!Pred(first)'
             = Growing(w)!Pred(first)
    BY DEF growingMemory, Growing!Succ, Growing!Pred
<1>3. CASE \A q \in Process : at[q] # "flag"
    <2>1. \A q \in Process : at'[q] # "flag"
        BY <1>3
    <2>2. Growing(w)!Content' = Growing(w)!Ring(first, used)'
        BY <2>1 DEF Growing!GrowInv, Growing!HolderInv, Growing!Content
    <2> QED
        BY <1>1, <1>2, <1>3, <2>2, GrowingSettled
<1>4. ASSUME NEW q \in Process, at[q] = "flag" PROVE Growing(w)!Content' = Growing(w)!Content
    <2>1. q # p /\ at'[q] = "flag" /\ call'[q] = call[q]
        BY <1>4
    <2>2. Growing(w)!Content' = Growing(w)!Before(call[q])'
        BY <2>1, GrowingFacts DEF Growing!GrowInv, Growing!HolderInv, Growing!Holding,
           Growing!Content
    <2>3. Growing(w)!Content = Growing(w)!Before(call[q])
        BY <1>4, GrowingMoving
    <2> QED
        BY <1>1, <1>2, <2>1, <2>2, <2>3 DEF Growing!Before
<1> QED
    BY <1>3, <1>4

\* is_empty is read as 1, with or without the lock: the queue is empty.
LEMMA GrowingEmpty ==
    ASSUME NEW w \in {"dyn", "list"}, Growing(w)!GrowInv, empty
    PROVE  Growing(w)!Content = <<>>
<1>1. \A h : Growing(w)!Ring(h, 0) = <<>>
    BY DEF Growing!Ring
<1>2. CASE \A q \in Process : at[q] # "flag"
    <2>1. used = 0
        BY <1>2 DEF Growing!GrowInv, Growing!HolderInv
    <2> QED
        BY <1>1, <1>2, <2>1, GrowingSettled
<1>3. ASSUME NEW q \in Process, at[q] = "flag" PROVE Growing(w)!Content = <<>>
    <2>1. call[q] \in Growing(w)!Puts /\ used - 1 = 0
        BY <1>3 DEF Growing!GrowInv, Growing!MovedInv
    <2> QED
        BY <1>1, <1>3, <2>1, GrowingMoving DEF Growing!Before, Growing!Puts
<1> QED
    BY <1>2, <1>3

\* A move of an index does not show: the call takes effect when it writes is_empty.
LEMMA GrowingMoveContent ==
    ASSUME NEW w \in {"dyn", "list"}, Growing(w)!GrowInv, Growing(w)!GrowInv', NEW p \in Process,
           Growing(w)!MovePutTail(p) \/ Growing(w)!MovePutHead(p) \/ Growing(w)!MoveTake(p)
    PROVE  Growing(w)!Content' = Growing(w)!Content
<1>1. /\ Growing(w)!TypeInv /\ Growing(w)!RingInv /\ size \in Nat \ {0} /\ used \in 0..(size - 1)
      /\ size' = size /\ next' = next /\ prev' = prev
      /\ at[p] = "move" /\ Growing(w)!Goto(p, "flag") /\ call' = call
    BY DEF Growing!GrowInv, Growing!RingInv, Growing!MovePutTail, Growing!MovePutHead,
       Growing!MoveTake, Growing!listVars, Growing!callVars
<1>2. /\ at'[p] = "flag" /\ l1 = p
      /\ \A q \in Process : at[q] # "flag"
      /\ IF call[p] \in Growing(w)!Puts THEN used # size - 1 ELSE used > 0
    BY <1>1 DEF Growing!GrowInv, Growing!HolderInv, Growing!Holding, Growing!TypeInv,
       Growing!Goto, Growing!Full
<1>3. PICK r \in [0..(size - 1) -> Growing(w)!Slot] : Growing(w)!IsRing(r)
    BY DEF Growing!GrowInv, Growing!RingInv
<1>4. /\ r[0] = first /\ r[used] = last /\ first \in Growing(w)!Slot
      /\ \A i \in 0..(size - 1) : Growing(w)!Succ(r[i]) = IF i = size - 1 THEN r[0] ELSE r[i + 1]
      /\ \A i, j \in 0..(size - 1) : r[i] = r[j] => i = j
    BY <1>1, <1>3, GrowingRing DEF Growing!IsRing
<1>5. Growing(w)!Content = [i \in 1..used |-> mem[r[i]]]
    BY <1>1, <1>2, <1>3, GrowingSettled, GrowingContents
<1>6. \A s : Growing(w)!Succ(s)' = Growing(w)!Succ(s) /\ Growing(w)!Pred(s)' = Growing(w)!Pred(s)
    BY <1>1 DEF Growing!Succ, Growing!Pred
<1>7. Growing(w)!Content' = Growing(w)!Before(call[p])'
    BY <1>1, <1>2, GrowingFacts DEF Growing!GrowInv, Growing!HolderInv, Growing!Holding,
       Growing!Content
<1>8. PICK h, n : h = first /\ n = used
    OBVIOUS
<1>9. /\ Growing(w)!Before(call[p])' = Growing(w)!Ring(h, n)'
      /\ \A i \in 1..used : mem'[r[i]] = mem[r[i]]
    <2>1. CASE Growing(w)!MovePutTail(p)
        <3>1. used + 1 \in 0..(size - 1) /\ Growing(w)!Succ(last) = r[used + 1]
            BY <1>1, <1>2, <1>4, <2>1 DEF Growing!MovePutTail, Growing!Puts
        <3>2. \A i \in 1..used : r[i] # Growing(w)!Succ(last)
            BY <1>1, <1>4, <3>1
        <3>3. \A s : s # Growing(w)!Succ(last) => mem'[s] = mem[s]
            BY <2>1 DEF Growing!MovePutTail
        <3>4. first' = h /\ used' - 1 = n /\ call[p] = "putTail"
            BY <1>1, <1>8, <2>1 DEF Growing!MovePutTail
        <3> QED
            BY <1>1, <3>2, <3>3, <3>4 DEF Growing!Before
    <2>2. CASE Growing(w)!MovePutHead(p)
        <3>1. \A i \in 1..used : r[i] # first
            BY <1>1, <1>4
        <3>2. \A s : s # first => mem'[s] = mem[s]
            BY <2>2 DEF Growing!MovePutHead
        <3>3. Growing(w)!Succ(first)' = h
            <4>1. Growing(w)!Succ(first)' = Growing(w)!Succ(first')
                BY <1>1 DEF Growing!Succ
            <4> QED
                BY <1>1, <1>4, <1>8, <2>2, <4>1, GrowingNeighbours DEF Growing!MovePutHead,
                   Growing!TypeInv
        <3>4. used' - 1 = n /\ call[p] = "putHead"
            BY <1>1, <1>8, <2>2 DEF Growing!MovePutHead
        <3> QED
            BY <1>1, <3>1, <3>2, <3>3, <3>4 DEF Growing!Before
    <2>3. CASE Growing(w)!MoveTake(p)
        <3>1. mem' = mem /\ used' + 1 = n /\ call[p] \notin Growing(w)!Puts
            BY <1>1, <1>8, <2>3 DEF Growing!MoveTake
        <3>2. CASE call[p] \in Growing(w)!FromHead
            <4>1. Growing(w)!Pred(first)' = Growing(w)!Pred(first')
                BY <1>1 DEF Growing!Pred
            <4>2. Growing(w)!Pred(first)' = h
                BY <1>1, <1>4, <1>8, <2>3, <3>2, <4>1, GrowingNeighbours DEF Growing!MoveTake,
                   Growing!TypeInv
            <4> QED
                BY <1>1, <3>1, <3>2, <4>2 DEF Growing!Before, Growing!Puts, Growing!FromHead
        <3>3. CASE call[p] \notin Growing(w)!FromHead
            <4>1. first' = h
                BY <1>8, <2>3, <3>3 DEF Growing!MoveTake
            <4> QED
                BY <1>1, <3>1, <3>3, <4>1 DEF Growing!Before, Growing!Puts
        <3> QED
            BY <3>2, <3>3
    <2> QED
        BY <2>1, <2>2, <2>3
<1>10. Growing(w)!Ring(h, n)' = [i \in 1..n |-> mem'[r[i]]]
    <2>1. ASSUME NEW i \in 1..n PROVE r[i] = Growing(w)!Succ(r[i - 1])'
        <3>1. i - 1 \in 0..(size - 1) /\ i - 1 # size - 1 /\ (i - 1) + 1 = i
            BY <1>1, <1>8
        <3> QED
            BY <1>4, <1>6, <3>1
    <2>2. RingLaws'
        BY GrowingRingLaw, PTL
    <2>3. n \in Nat /\ r[0] = h
        BY <1>1, <1>4, <1>8
    <2>4. RingLaw(w)'
        BY <2>2 DEF RingLaws
    <2> QED
        BY <2>1, <2>3, <2>4 DEF RingLaw
<1> QED
    BY <1>5, <1>7, <1>8, <1>9, <1>10

\* Nor does it show that the queue grows.
LEMMA GrowingGrowContent ==
    ASSUME NEW w \in {"dyn", "list"}, Growing(w)!GrowInv, Growing(w)!GrowInv',
           NEW p \in Process, Growing(w)!GrowList(p) \/ Growing(w)!GrowArray(p)
    PROVE  Growing(w)!Content' = Growing(w)!Content
<1>1. /\ Growing(w)!TypeInv /\ Growing(w)!RingInv /\ size \in Nat \ {0} /\ used \in 0..(size - 1)
      /\ at[p] = "grow" /\ Growing(w)!Goto(p, "move") /\ used' = used
      /\ size' = 2 * size
    BY DEF Growing!GrowInv, Growing!RingInv, Growing!GrowList, Growing!GrowArray
<1>2. /\ \A q \in Process : at[q] # "flag"
      /\ \A q \in Process : at'[q] # "flag"
    BY <1>1 DEF Growing!GrowInv, Growing!HolderInv, Growing!Holding, Growing!TypeInv, Growing!Goto
<1>3. PICK r \in [0..(size - 1) -> Growing(w)!Slot], q \in [0..(size' - 1) -> Growing(w)!Slot'] :
         /\ Growing(w)!IsRing(r) /\ Growing(w)!IsRing(q)'
         /\ \A i \in 0..(size - 1) : mem'[q[i]] = mem[r[i]]
    BY GrowingGrows
<1>4. PICK n \in Nat : n = used
    BY <1>1
<1>5. Growing(w)!Content = [i \in 1..n |-> mem[r[i]]]
    <2>1. Growing(w)!Content = Growing(w)!Ring(first, n)
        BY <1>2, <1>4, GrowingSettled
    <2>2. n \in 0..(size - 1)
        BY <1>1, <1>4
    <2> QED
        BY <1>1, <1>3, <2>1, <2>2, GrowingContents
<1>6. Growing(w)!Content' = Growing(w)!Ring(q[0], n)'
    <2>1. Growing(w)!Content' = Growing(w)!Ring(first, used)'
        BY <1>2 DEF Growing!GrowInv, Growing!HolderInv, Growing!Content
    <2>2. q[0] = first'
        BY <1>3 DEF Growing!IsRing
    <2> QED
        BY <1>1, <1>4, <2>1, <2>2
<1>7. Growing(w)!Ring(q[0], n)' = [i \in 1..n |-> mem'[q[i]]]
    <2>1. \A i \in 0..(size' - 1) : Growing(w)!Succ(q[i])' = IF i = size' - 1 THEN q[0]
              ELSE q[i + 1]
        BY <1>3 DEF Growing!IsRing
    <2>2. ASSUME NEW i \in 1..n PROVE q[i] = Growing(w)!Succ(q[i - 1])'
        <3>1. i - 1 \in 0..(size' - 1) /\ i - 1 # size' - 1 /\ (i - 1) + 1 = i
            BY <1>1, <1>4
        <3> QED
            BY <2>1, <3>1
    <2>3. RingLaws'
        BY GrowingRingLaw, PTL
    <2>4. RingLaw(w)'
        BY <2>3 DEF RingLaws
    <2> QED
        BY <1>4, <2>2, <2>4 DEF RingLaw
<1>8. \A i \in 1..n : mem'[q[i]] = mem[r[i]]
    BY <1>1, <1>3, <1>4
<1> QED
    BY <1>5, <1>6, <1>7, <1>8

\* A step of p shows in the call of p alone.
growingAbsVars(w) == <<Growing(w)!Content, call, given, Growing(w)!AbsPhase, Growing(w)!AbsRes>>
GrowingCallOnly(p) == \A q \in Process \ {p} : at'[q] = at[q] /\ result'[q] = result[q]
LEMMA GrowingDone ==
    ASSUME NEW w \in {"dyn", "list"}, NEW p \in Process, GrowingCallOnly(p), NEW x, NEW s,
           Growing(w)!Phase(p) = "called", Growing(w)!Phase(p)'
               = "done", Growing(w)!Result(p)' = x, Growing(w)!Content' = s,
           call' = call, given' = given
    PROVE  Growing(w)!Deque!Done(p, s, x)
<1>1. ASSUME NEW q \in Process, q # p PROVE Growing(w)!Phase(q)' = Growing(w)!Phase(q)
             /\ Growing(w)!Result(q)' = Growing(w)!Result(q)
    BY <1>1 DEF GrowingCallOnly, Growing!Phase, Growing!Result
<1>2. /\ Growing(w)!AbsPhase' = [Growing(w)!AbsPhase EXCEPT ![p] = "done"]
      /\ Growing(w)!AbsRes' = [Growing(w)!AbsRes EXCEPT ![p] = x]
    BY <1>1 DEF Growing!AbsPhase, Growing!AbsRes
<1> QED
    BY <1>2 DEF Growing!Deque!Done, Growing!AbsPhase
LEMMA GrowingSilent ==
    ASSUME NEW w \in {"dyn", "list"},
           NEW p \in Process, GrowingCallOnly(p), Growing(w)!Phase(p)'
               = Growing(w)!Phase(p), Growing(w)!Result(p)' = Growing(w)!Result(p),
           Growing(w)!Content' = Growing(w)!Content, call' = call, given' = given
    PROVE  UNCHANGED growingAbsVars(w)
<1>1. ASSUME NEW q \in Process PROVE Growing(w)!Phase(q)' = Growing(w)!Phase(q)
             /\ Growing(w)!Result(q)' = Growing(w)!Result(q)
    BY DEF GrowingCallOnly, Growing!Phase, Growing!Result
<1>2. Growing(w)!AbsPhase' = Growing(w)!AbsPhase /\ Growing(w)!AbsRes' = Growing(w)!AbsRes
    BY <1>1 DEF Growing!AbsPhase, Growing!AbsRes
<1> QED
    BY <1>2 DEF growingAbsVars

\* The call that has moved an index takes effect when it writes is_empty.
LEMMA GrowingFlagMaps ==
    ASSUME NEW w \in {"dyn", "list"}, Growing(w)!GrowInv, Growing(w)!GrowInv',
           NEW p \in Process, Growing(w)!Flag(p)
    PROVE  Growing(w)!Deque!PutHead(p) \/ Growing(w)!Deque!PutTail(p)
           \/ Growing(w)!Deque!TakeHead(p) \/ Growing(w)!Deque!TakeTail(p)
<1>1. /\ Growing(w)!TypeInv /\ Growing(w)!RingInv /\ Growing(w)!MovedInv /\ Growing(w)!CallInv
      /\ size \in Nat \ {0} /\ used \in 0..(size - 1)
      /\ at[p] = "flag" /\ Growing(w)!Goto(p, "unlock") /\ call' = call /\ given' = given
         /\ result' = result
      /\ UNCHANGED growingMemory
    BY DEF Growing!GrowInv, Growing!RingInv, Growing!Flag, Growing!callVars, growingMemory,
       Growing!queueVars, Growing!listVars
<1>2. at'[p] = "unlock" /\ GrowingCallOnly(p)
      /\ call[p] \in Growing(w)!Puts \cup Growing(w)!Gets \cup Growing(w)!Steals
    BY <1>1 DEF Growing!TypeInv, Growing!Goto, GrowingCallOnly, Growing!CallInv
<1>3. \A q \in Process : at'[q] # "flag"
    BY <1>1, <1>2 DEF Growing!GrowInv, Growing!HolderInv, Growing!Holding, GrowingCallOnly
<1>4. PICK r \in [0..(size - 1) -> Growing(w)!Slot] : Growing(w)!IsRing(r)
    BY <1>1 DEF Growing!RingInv
<1>5. /\ r[0] = first /\ r[used] = last
      /\ \A i \in 0..(size - 1) : Growing(w)!Succ(r[i]) = IF i = size - 1 THEN r[0] ELSE r[i + 1]
    BY <1>4 DEF Growing!IsRing
<1> DEFINE n == used
<1>6. Growing(w)!Content' = [i \in 1..n |-> mem[r[i]]]
    <2>1. Growing(w)!Content' = Growing(w)!Ring(first, used)'
        BY <1>3 DEF Growing!GrowInv, Growing!HolderInv, Growing!Content
    <2>2. Growing(w)!Ring(first, used)' = Growing(w)!Ring(first, used)
        BY <1>1 DEF growingMemory, Growing!Ring, Growing!Succ
    <2> QED
        BY <1>1, <1>4, <2>1, <2>2, GrowingContents
<1>7. Growing(w)!Content = Growing(w)!Before(call[p])
    BY <1>1, GrowingMoving
<1>8. Growing(w)!Deque!Done(p, Growing(w)!Content', result[p])
    <2>1. Growing(w)!Phase(p) = "called" /\ Growing(w)!Phase(p)' = "done"
          /\ Growing(w)!Result(p)' = result[p]
        BY <1>1, <1>2 DEF Growing!Phase, Growing!Result
    <2> QED
        BY <1>1, <1>2, <2>1, GrowingDone
<1>9. CASE call[p] \in Growing(w)!Puts
    <2>1. /\ result[p] = given[p] /\ n > 0 /\ n <= MaxItems /\ n - 1 \in 0..(size - 1)
          /\ n - 1 # size - 1
          /\ given[p] = mem[IF call[p] = "putTail" THEN last ELSE Growing(w)!Succ(first)]
        BY <1>1, <1>9 DEF Growing!MovedInv
    <2>2. CASE call[p] = "putTail"
        <3>1. Growing(w)!Content = [i \in 1..(n - 1) |-> mem[r[i]]]
            BY <1>1, <1>4, <1>7, <2>1, <2>2, GrowingContents DEF Growing!Before
        <3>2. given[p] = mem[r[n]]
            BY <1>5, <2>1, <2>2
        <3>3. Growing(w)!Content' = Append(Growing(w)!Content, given[p])
              /\ Len(Growing(w)!Content) < MaxItems
            BY <1>1, <1>6, <2>1, <3>1, <3>2, GrowingFacts
        <3> QED
            BY <1>8, <2>1, <2>2, <3>3 DEF Growing!Deque!PutTail
    <2>3. CASE call[p] = "putHead"
        <3>1. Growing(w)!Content = [i \in 1..(n - 1) |-> mem[r[i + 1]]]
            BY <1>1, <1>4, <1>7, <2>1, <2>3, GrowingContents DEF Growing!Before
        <3>2. given[p] = mem[r[1]]
            BY <1>1, <1>5, <2>1, <2>3
        <3>3. Growing(w)!Content' = <<given[p]>> \o Growing(w)!Content
              /\ Len(Growing(w)!Content) < MaxItems
            BY <1>1, <1>6, <2>1, <3>1, <3>2, GrowingFacts
        <3> QED
            BY <1>8, <2>1, <2>3, <3>3 DEF Growing!Deque!PutHead
    <2> QED
        BY <1>9, <2>2, <2>3 DEF Growing!Puts
<1>10. CASE call[p] \notin Growing(w)!Puts
    <2>1. /\ n + 1 \in 0..(size - 1) /\ n \in Nat
          /\ result[p] = mem[IF call[p] \in Growing(w)!FromHead THEN first
                 ELSE Growing(w)!Succ(last)]
        BY <1>1, <1>10 DEF Growing!MovedInv
    <2>2. CASE call[p] \in Growing(w)!FromHead
        <3>1. Growing(w)!Content = [i \in 1..(n + 1) |-> mem[r[i - 1]]]
            BY <1>1, <1>4, <1>7, <1>10, <2>1, <2>2, GrowingContents DEF Growing!Before,
               Growing!Puts, Growing!FromHead
        <3>2. result[p] = mem[r[0]]
            BY <1>5, <2>1, <2>2
        <3>3. Growing(w)!Content' = Tail(Growing(w)!Content) /\ Growing(w)!Content # <<>>
              /\ result[p] = Head(Growing(w)!Content)
            BY <1>6, <2>1, <3>1, <3>2
        <3> QED
            BY <1>8, <2>2, <3>3 DEF Growing!Deque!TakeHead, Growing!Deque!FromHead,
               Growing!FromHead
    <2>3. CASE call[p] \notin Growing(w)!FromHead
        <3>1. Growing(w)!Content = [i \in 1..(n + 1) |-> mem[r[i]]]
            BY <1>1, <1>4, <1>7, <1>10, <2>1, <2>3, GrowingContents DEF Growing!Before,
               Growing!Puts
        <3>2. result[p] = mem[r[n + 1]]
            BY <1>1, <1>5, <2>1, <2>3
        <3>3. /\ Growing(w)!Content'
                     = SubSeq(Growing(w)!Content, 1, Len(Growing(w)!Content) - 1)
                     /\ Growing(w)!Content # <<>>
              /\ result[p] = Growing(w)!Content[Len(Growing(w)!Content)]
            BY <1>6, <2>1, <3>1, <3>2
        <3>4. call[p] \in Growing(w)!Deque!FromTail
            BY <1>2, <1>10, <2>3 DEF Growing!Gets, Growing!Steals, Growing!FromHead,
               Growing!Deque!FromTail
        <3> QED
            BY <1>8, <3>3, <3>4 DEF Growing!Deque!TakeTail
    <2> QED
        BY <2>2, <2>3
<1> QED
    BY <1>9, <1>10

\* A call starts, fails, gives up or returns, or is on its way.
LEMMA GrowingQuietMaps ==
    ASSUME NEW w \in {"dyn", "list"}, Growing(w)!GrowInv, Growing(w)!GrowInv', NEW p \in Process,
           \/ Growing(w)!Invoke(p) \/ Growing(w)!Peek(p) \/ Growing(w)!Lock(p)
              \/ Growing(w)!GiveUp(p) \/ Growing(w)!Check(p) \/ Growing(w)!Unlock(p)
                 \/ Growing(w)!Return(p)
    PROVE  Growing(w)!Deque!Call(p) \/ Growing(w)!Deque!Return(p) \/ Growing(w)!Deque!Fail(p)
           \/ UNCHANGED growingAbsVars(w)
<1>1. /\ UNCHANGED growingMemory /\ \E l : Growing(w)!Goto(p, l) /\ l # "flag"
      /\ at[p] \in {"idle", "peek", "lock", "check", "unlock", "return"}
      /\ \A q \in Process \ {p} : call'[q] = call[q] /\ result'[q] = result[q]
    BY DEF Growing!Invoke, Growing!Peek, Growing!Lock, Growing!GiveUp, Growing!Check,
       Growing!Unlock, Growing!Return, Growing!callVars, growingMemory,
       Growing!queueVars, Growing!listVars, Growing!GrowInv, Growing!TypeInv
<1>2. Growing(w)!TypeInv /\ Growing(w)!CallInv /\ Growing(w)!HolderInv /\ GrowingCallOnly(p)
    BY <1>1 DEF Growing!GrowInv, Growing!TypeInv, GrowingCallOnly, Growing!Goto
<1>3. Growing(w)!Content' = Growing(w)!Content
    <2>1. at[p] # "flag" /\ at'[p] # "flag"
        BY <1>1, <1>2 DEF Growing!TypeInv, Growing!Goto
    <2> QED
        BY <1>1, <1>2, <2>1, GrowingSameContent DEF GrowingCallOnly
<1>4. ASSUME at[p] \in {"peek", "lock", "check"}, at'[p] \in {"unlock", "return"},
             call' = call, given' = given, result' = result,
             \/ call[p] \notin Growing(w)!Puts /\ Growing(w)!Content = <<>>
             \/ call[p] \in Growing(w)!Steals
                /\ \E o \in Process \ {p} : Growing(w)!Phase(o) # "idle"
      PROVE  Growing(w)!Deque!Fail(p)
    <2>1. Growing(w)!Phase(p) = "called" /\ Growing(w)!Phase(p)' = "done"
          /\ Growing(w)!Result(p)' = NoItem
        BY <1>2, <1>4 DEF Growing!Phase, Growing!Result, Growing!CallInv, Growing!Pending
    <2>2. Growing(w)!Deque!Done(p, Growing(w)!Content, NoItem)
        BY <1>2, <1>3, <1>4, <2>1, GrowingDone
    <2> QED
        BY <1>4, <2>2 DEF Growing!Deque!Fail, Growing!Deque!Puts, Growing!Deque!Steals,
           Growing!Puts, Growing!Steals, Growing!AbsPhase
<1>5. ASSUME call' = call, given' = given, result' = result,
             \/ at[p] \in {"peek", "lock", "check"}
                /\ at'[p] \in {"lock", "check", "grow", "move"}
             \/ at[p] = "unlock" /\ at'[p] = "return"
      PROVE  UNCHANGED growingAbsVars(w)
    <2>1. Growing(w)!Phase(p)' = Growing(w)!Phase(p) /\ Growing(w)!Result(p)'
              = Growing(w)!Result(p)
        BY <1>5 DEF Growing!Phase, Growing!Result
    <2> QED
        BY <1>2, <1>3, <1>5, <2>1, GrowingSilent
<1>6. CASE Growing(w)!Invoke(p)
    <2>1. at[p] = "idle" /\ at'[p] \in {"lock", "peek"} /\ result' = result
        BY <1>2, <1>6 DEF Growing!Invoke, Growing!Goto, Growing!TypeInv
    <2>2. /\ Growing(w)!AbsPhase[p] = "idle" /\ Growing(w)!AbsPhase'
                 = [Growing(w)!AbsPhase EXCEPT ![p] = "called"]
          /\ Growing(w)!AbsRes' = Growing(w)!AbsRes
        <3>1. ASSUME NEW q \in Process, q # p PROVE Growing(w)!Phase(q)' = Growing(w)!Phase(q)
                     /\ Growing(w)!Result(q)' = Growing(w)!Result(q)
            BY <1>2, <3>1 DEF GrowingCallOnly, Growing!Phase, Growing!Result
        <3>2. /\ Growing(w)!Phase(p) = "idle" /\ Growing(w)!Phase(p)' = "called"
              /\ Growing(w)!Result(p)' = NoItem /\ Growing(w)!Result(p) = NoItem
            BY <2>1 DEF Growing!Phase, Growing!Result
        <3> QED
            BY <3>1, <3>2 DEF Growing!AbsPhase, Growing!AbsRes
    <2>3. \E o \in Growing(w)!Deque!Ops, x \in Item :
             /\ call' = [call EXCEPT ![p] = o]
             /\ given' = [given EXCEPT ![p] = IF o \in Growing(w)!Deque!Puts THEN x ELSE NoItem]
        BY <1>6 DEF Growing!Invoke, Growing!Deque!Ops, Growing!Deque!Puts, Growing!Deque!Gets,
           Growing!Deque!Steals, Growing!Puts, Growing!Gets, Growing!Steals
    <2> QED
        BY <1>3, <2>2, <2>3 DEF Growing!Deque!Call
<1>7. CASE Growing(w)!Peek(p)
    <2>1. call' = call /\ given' = given /\ result' = result /\ at[p] = "peek"
          /\ call[p] \notin Growing(w)!Puts
          /\ at'[p] = IF empty THEN "return" ELSE "lock"
        BY <1>2, <1>7 DEF Growing!Peek, Growing!Goto, Growing!TypeInv, Growing!CallInv,
           Growing!callVars
    <2> QED
        BY <1>4, <1>5, <2>1, GrowingEmpty
<1>8. CASE Growing(w)!Lock(p)
    <2>1. call' = call /\ given' = given /\ result' = result /\ at[p] = "lock" /\ at'[p] = "check"
        BY <1>2, <1>8 DEF Growing!Lock, Growing!Goto, Growing!TypeInv, Growing!callVars
    <2> QED
        BY <1>5, <2>1
<1>9. CASE Growing(w)!GiveUp(p)
    <2>1. call' = call /\ given' = given /\ result' = result /\ at[p] = "lock" /\ at'[p]
              = "return"
          /\ call[p] \in Growing(w)!Steals
        BY <1>2, <1>9 DEF Growing!GiveUp, Growing!Goto, Growing!TypeInv, Growing!callVars
    <2>2. l1 \in Process /\ l1 # p /\ Growing(w)!Phase(l1) # "idle"
        BY <1>2, <1>9, <2>1 DEF Growing!GiveUp, Growing!HolderInv, Growing!Holding, Growing!Phase
    <2> QED
        BY <1>4, <2>1, <2>2
<1>10. CASE Growing(w)!Check(p)
    <2>1. /\ call' = call /\ given' = given /\ result' = result /\ at[p] = "check"
          /\ at'[p] = IF call[p] \in Growing(w)!Puts THEN IF Growing(w)!Full THEN "grow"
                 ELSE "move"
                      ELSE IF empty THEN "unlock" ELSE "move"
        BY <1>2, <1>10 DEF Growing!Check, Growing!Goto, Growing!TypeInv, Growing!callVars
    <2> QED
        BY <1>4, <1>5, <2>1, GrowingEmpty
<1>11. CASE Growing(w)!Unlock(p)
    <2>1. call' = call /\ given' = given /\ result' = result /\ at[p] = "unlock" /\ at'[p]
              = "return"
        BY <1>2, <1>11 DEF Growing!Unlock, Growing!Goto, Growing!TypeInv, Growing!callVars
    <2> QED
        BY <1>5, <2>1
<1>12. CASE Growing(w)!Return(p)
    <2>1. at[p] = "return" /\ at'[p] = "idle" /\ result' = [result EXCEPT ![p] = NoItem]
        BY <1>2, <1>12 DEF Growing!Return, Growing!Goto, Growing!TypeInv
    <2>2. /\ Growing(w)!AbsPhase[p] = "done" /\ Growing(w)!AbsPhase'
                 = [Growing(w)!AbsPhase EXCEPT ![p] = "idle"]
          /\ Growing(w)!AbsRes' = [Growing(w)!AbsRes EXCEPT ![p] = NoItem]
        <3>1. ASSUME NEW q \in Process, q # p PROVE Growing(w)!Phase(q)' = Growing(w)!Phase(q)
                     /\ Growing(w)!Result(q)' = Growing(w)!Result(q)
            BY <1>2, <3>1 DEF GrowingCallOnly, Growing!Phase, Growing!Result
        <3>2. Growing(w)!Phase(p) = "done" /\ Growing(w)!Phase(p)' = "idle"
              /\ Growing(w)!Result(p)' = NoItem
            BY <2>1 DEF Growing!Phase, Growing!Result
        <3> QED
            BY <3>1, <3>2 DEF Growing!AbsPhase, Growing!AbsRes
    <2> QED
        BY <1>3, <1>12, <2>2 DEF Growing!Return, Growing!Deque!Return
<1> QED
    BY <1>6, <1>7, <1>8, <1>9, <1>10, <1>11, <1>12

LEMMA GrowingMaps ==
    ASSUME NEW w \in {"dyn", "list"}
    PROVE  Growing(w)!GrowInv /\ [Growing(w)!Next]_(Growing(w)!vars) => Growing(w)!DequeStep
<1> SUFFICES ASSUME Growing(w)!GrowInv, [Growing(w)!Next]_(Growing(w)!vars)
             PROVE  Growing(w)!DequeStep
    OBVIOUS
<1>1. Growing(w)!GrowInv'
    BY GrowingStep
<1>2. UNCHANGED growingAbsVars(w) => Growing(w)!DequeStep
    BY DEF growingAbsVars, Growing!DequeStep, Growing!Deque!vars
<1>3. CASE UNCHANGED Growing(w)!vars
    <2>1. /\ mem' = mem /\ next' = next /\ size' = size /\ prev' = prev
          /\ first' = first /\ used' = used
          /\ l1' = l1 /\ at' = at /\ call' = call /\ given' = given /\ result' = result
        BY <1>3 DEF Growing!vars, Growing!queueVars, Growing!listVars, Growing!callVars
    <2>2. Growing(w)!Content' = Growing(w)!Content
        BY <2>1 DEF Growing!Content, Growing!Before, Growing!Ring, Growing!Succ, Growing!Pred
    <2>3. Growing(w)!AbsPhase' = Growing(w)!AbsPhase /\ Growing(w)!AbsRes' = Growing(w)!AbsRes
        BY <2>1 DEF Growing!AbsPhase, Growing!AbsRes, Growing!Phase, Growing!Result
    <2> QED
        BY <1>2, <2>1, <2>2, <2>3 DEF growingAbsVars
<1>4. CASE Growing(w)!Next
    <2>1. PICK p \in Process : Growing(w)!Step(p)
        BY <1>4 DEF Growing!Next
    <2>2. CASE \/ Growing(w)!MovePutTail(p) \/ Growing(w)!MovePutHead(p) \/ Growing(w)!MoveTake(p)
               \/ Growing(w)!GrowList(p) \/ Growing(w)!GrowArray(p)
        <3>1. Growing(w)!Content' = Growing(w)!Content
            BY <1>1, <2>2, GrowingMoveContent, GrowingGrowContent
        <3>2. /\ at[p] \in {"grow", "move"} /\ \E l \in {"move", "flag"} : Growing(w)!Goto(p, l)
              /\ call' = call /\ given' = given
              /\ result' = result \/ \E x : result' = [result EXCEPT ![p] = x]
            BY <2>2 DEF Growing!MovePutTail, Growing!MovePutHead, Growing!MoveTake,
               Growing!GrowList, Growing!GrowArray, Growing!callVars
        <3>3. GrowingCallOnly(p) /\ Growing(w)!Phase(p)' = Growing(w)!Phase(p)
              /\ Growing(w)!Result(p)' = Growing(w)!Result(p)
            BY <3>2 DEF Growing!GrowInv, Growing!TypeInv, GrowingCallOnly, Growing!Goto,
               Growing!Phase, Growing!Result
        <3> QED
            BY <1>2, <3>1, <3>2, <3>3, GrowingSilent
    <2>3. CASE Growing(w)!Flag(p)
        BY <1>1, <2>3, GrowingFlagMaps DEF Growing!DequeStep, Growing!Deque!Next
    <2>4. CASE \/ Growing(w)!Invoke(p) \/ Growing(w)!Peek(p) \/ Growing(w)!Lock(p)
                  \/ Growing(w)!GiveUp(p) \/ Growing(w)!Check(p) \/ Growing(w)!Unlock(p)
               \/ Growing(w)!Return(p)
        BY <1>1, <1>2, <2>4, GrowingQuietMaps DEF Growing!DequeStep, Growing!Deque!Next
    <2> QED
        BY <2>1, <2>2, <2>3, <2>4 DEF Growing!Step
<1> QED
    BY <1>3, <1>4

LEMMA GrowingInitMaps ==
    ASSUME NEW w \in {"dyn", "list"}
    PROVE  Growing(w)!Init => Growing(w)!Deque!Init
<1> SUFFICES ASSUME Growing(w)!Init PROVE Growing(w)!Deque!Init
    OBVIOUS
<1>1. Growing(w)!Content = <<>>
    BY DEF Growing!Init, Growing!Content, Growing!Ring
<1>2. Growing(w)!AbsPhase = [p \in Process |-> "idle"] /\ Growing(w)!AbsRes
          = [p \in Process |-> NoItem]
    BY DEF Growing!Init, Growing!AbsPhase, Growing!AbsRes, Growing!Phase, Growing!Result
<1> QED
    BY <1>1, <1>2 DEF Growing!Init, Growing!Deque!Init

-----------------------------------------------------------------------------
(* The queues as the program chooses them *)

\* A step of another queue, or of none, leaves the queue that grows alone.
LEMMA GrowingOfQueues ==
    ASSUME NEW w \in {"dyn", "list"}, kind = w, [QueuesNext]_queuesVars
    PROVE  kind' = kind /\ [Growing(w)!Next]_(Growing(w)!vars)
<1>1. CASE QueuesNext
    <2>1. CASE w = "dyn"
        <3>1. RunGrowing("dyn")
            BY <1>1, <2>1 DEF QueuesNext, Chosen, RunGrowing, RunTwoLocks, RunLockless, RunPool
        <3> QED
            BY <2>1, <3>1 DEF RunGrowing, Chosen
    <2>2. CASE w = "list"
        <3>1. RunGrowing("list")
            BY <1>1, <2>2 DEF QueuesNext, Chosen, RunGrowing, RunTwoLocks, RunLockless, RunPool
        <3> QED
            BY <2>2, <3>1 DEF RunGrowing, Chosen
    <2> QED
        BY <2>1, <2>2
<1>2. CASE UNCHANGED queuesVars
    BY <1>2 DEF queuesVars, otherVars, memVars, growVars, callVars2, Growing!vars,
        Growing!queueVars, Growing!listVars, Growing!callVars
<1> QED
    BY <1>1, <1>2

\* The queue that grows keeps its invariant, whichever it is.
GrowingInvs == /\ kind = "dyn" => Growing("dyn")!GrowInv
               /\ kind = "list" => Growing("list")!GrowInv
LEMMA GrowingKind == [QueuesNext]_queuesVars => kind' = kind
<1>1. CASE QueuesNext
    BY <1>1 DEF QueuesNext, Chosen, RunGrowing, RunTwoLocks, RunLockless, RunPool, PoolKeeps
<1>2. CASE UNCHANGED queuesVars
    BY <1>2 DEF queuesVars
<1> QED
    BY <1>1, <1>2
LEMMA GrowingInvsStart == QueuesInit => GrowingInvs
<1>1. QueuesInit => /\ kind = "dyn" => Growing("dyn")!Init
                    /\ kind = "list" => Growing("list")!Init
    BY DEF QueuesInit
<1> QED
    BY <1>1, GrowingInit DEF GrowingInvs
LEMMA GrowingInvsStep == GrowingInvs /\ [QueuesNext]_queuesVars => GrowingInvs'
<1> SUFFICES ASSUME GrowingInvs, [QueuesNext]_queuesVars PROVE GrowingInvs'
    OBVIOUS
<1>1. ASSUME kind = "dyn" PROVE Growing("dyn")!GrowInv'
    <2>1. [Growing("dyn")!Next]_(Growing("dyn")!vars)
        BY <1>1, GrowingOfQueues
    <2> QED
        BY <1>1, <2>1, GrowingStep DEF GrowingInvs
<1>2. ASSUME kind = "list" PROVE Growing("list")!GrowInv'
    <2>1. [Growing("list")!Next]_(Growing("list")!vars)
        BY <1>2, GrowingOfQueues
    <2> QED
        BY <1>2, <2>1, GrowingStep DEF GrowingInvs
<1> QED
    BY <1>1, <1>2, GrowingKind DEF GrowingInvs

\* omp_queue.c:918 and 953: the slots of the list are one ring, linked in both
\* directions, so that no call follows a link that does not lead back.
THEOREM ListLinks == QueuesSpec => []LinkedBothWays
<1>1. GrowingInvs => LinkedBothWays
    BY GrowingLinked DEF GrowingInvs, LinkedBothWays
<1> QED
    BY <1>1, GrowingInvsStart, GrowingInvsStep, PTL DEF QueuesSpec

\* omp_queue.c:559-626 and 665-964: for any number of thieves and slots, and however
\* often it grows, the array and the list are queues: each item put at either end
\* comes out once and in its order, no put is refused, and a get that fails has seen
\* the queue empty.
THEOREM GrowingRefinement == QueuesSpec => GrowingImplementDeque
<1> DEFINE S == /\ kind = "dyn" => Growing("dyn")!DequeStep
                /\ kind = "list" => Growing("list")!DequeStep
<1>1. QueuesInit => /\ kind = "dyn" => Growing("dyn")!Deque!Init
                    /\ kind = "list" => Growing("list")!Deque!Init
    <2>1. QueuesInit => /\ kind = "dyn" => Growing("dyn")!Init
                        /\ kind = "list" => Growing("list")!Init
        BY DEF QueuesInit
    <2> QED
        BY <2>1, GrowingInitMaps
<1>2. GrowingInvs /\ [QueuesNext]_queuesVars => S
    <2> SUFFICES ASSUME GrowingInvs, [QueuesNext]_queuesVars PROVE S
        OBVIOUS
    <2>1. ASSUME kind = "dyn" PROVE Growing("dyn")!DequeStep
        <3>1. [Growing("dyn")!Next]_(Growing("dyn")!vars)
            BY <2>1, GrowingOfQueues
        <3> QED
            BY <2>1, <3>1, GrowingMaps DEF GrowingInvs
    <2>2. ASSUME kind = "list" PROVE Growing("list")!DequeStep
        <3>1. [Growing("list")!Next]_(Growing("list")!vars)
            BY <2>2, GrowingOfQueues
        <3> QED
            BY <2>2, <3>1, GrowingMaps DEF GrowingInvs
    <2> QED
        BY <2>1, <2>2
<1>3. S => [S]_queuesVars
    OBVIOUS
<1> QED
    BY <1>1, <1>2, <1>3, GrowingInvsStart, GrowingInvsStep, PTL
       DEF QueuesSpec, GrowingImplementDeque
===============================================================================
