--------------------------- MODULE SyncImagesProofs ---------------------------
(***************************************************************************)
(* SYNC IMAGES matches pairs of images, whichever algorithm runs it: for   *)
(* any set of images, any lists and any number of statements.              *)
(***************************************************************************)
EXTENDS SyncImages, TLAPS

\* what the proofs need of the constants: a node is the same for both images
ConstantsOK ==
    /\ Image \subseteq Nat /\ Callers \subseteq Image /\ IsFiniteSet(Callers)
    /\ \A p, q \in Image : Near(p, q) <=> Near(q, p)
    /\ Chars \in Nat \ {0}
    /\ Algorithm \in {"counter", "ping_pong", "sense_rev", "csr"}

TypeOK ==
    /\ named \in [Image -> [Image -> Nat]]
    /\ list \in [Image -> Seq(Callers)] /\ at \in [Image -> Nat]
    /\ todo \in [Image -> SUBSET Callers]
    /\ pc \in [Image -> {"out", "signal", "take", "pong", "putBack"}]
    /\ flag \in [Image -> [Image -> Nat]] /\ check \in [Image -> [Image -> Nat]]
    /\ sense \in [Image -> [Image -> Nat]] /\ net \in [Image -> [Image -> Nat]]
    /\ DOMAIN got = Image

\* p has yet to signal q in the statement it executes
Yet(p, q) ==
    pc[p] = "signal" /\ \E k \in (at[p] + 1)..Len(list[p]) : list[p][k] = q

\* the signals p has sent to q, and those of q it has taken
Sent(p, q) == named[p][q] - (IF Yet(p, q) THEN 1 ELSE 0)
TakenOf(p, q) == named[p][q] - (IF q \in todo[p] THEN 1 ELSE 0)

\* p has a signal of q in its hands
Holds(p, q) == pc[p] \in {"pong", "putBack"} /\ got[p][1] = q

\* where an image is in its statement
CallInv == \A p \in Image :
    /\ pc[p] = "out" => todo[p] = {}
    /\ \A j, k \in 1..Len(list[p]) : list[p][j] = list[p][k] => j = k
    /\ \A k \in 1..Len(list[p]) : list[p][k] # p
    /\ todo[p] \subseteq Range(list[p])
    /\ pc[p] = "signal" => at[p] < Len(list[p]) /\ todo[p] = Range(list[p])
    /\ \A q \in todo[p] : named[p][q] > 0
    /\ pc[p] \in {"pong", "putBack"} => got[p][1] \in todo[p]
    /\ pc[p] = "pong" => Algorithm = "ping_pong" /\ got[p][1] < p
    /\ pc[p] = "putBack" => BySense(p, got[p][1])

-----------------------------------------------------------------------------
(* What each algorithm keeps for an image p and one, q, that signals it *)

Due(p, q) == Sent(q, p) - TakenOf(p, q)

\* the signals that are due are in the count or under way to it
CountInv(p, q) == Due(p, q) = flag[p][q] + net[q][p]

\* the val is as far ahead of the check as signals are due, and at most two
Inc(c) == (c + 1) % Chars
CharInv(p, q) ==
    /\ net[q][p] = 0
    /\ \/ Due(p, q) = 0 /\ flag[p][q] = check[p][q]
       \/ Due(p, q) = 1 /\ flag[p][q] = Inc(check[p][q])
       \/ Due(p, q) = 2 /\ flag[p][q] = Inc(Inc(check[p][q]))

\* the value of the n-th signal
Sense(n) == IF n = 0 THEN 0 ELSE IF n % 2 = 1 THEN 1 ELSE 2

\* of two signals that are due the older one may have been overwritten
SenseInv(p, q) ==
    LET newest == Sense(Sent(q, p))
    IN  /\ sense[p][q] = Sense(Sent(p, q))
        /\ Yet(q, p) => net[q][p] = 0
        /\ \/ Due(p, q) = 0 /\ ~Holds(p, q) /\ flag[p][q] = 0 /\ net[q][p] = 0
           \/ Due(p, q) = 1 /\ ~Holds(p, q) /\ flag[p][q] = newest /\ net[q][p] = 0
           \/ Due(p, q) = 1 /\ ~Holds(p, q) /\ flag[p][q] = 0 /\ net[q][p] = newest
           \/ Due(p, q) = 2 /\ ~Holds(p, q) /\ flag[p][q] = newest /\ net[q][p] = 0
           \/ /\ Due(p, q) = 2 /\ ~Holds(p, q)
              /\ flag[p][q] = Sense(Sent(q, p) - 1) /\ net[q][p] = newest
           \/ /\ Due(p, q) = 2 /\ Holds(p, q) /\ got[p][2] = newest
              /\ flag[p][q] = 0 /\ net[q][p] = 0

\* of a ping and its pong there is one at a time
PingInv(p, q) ==
    p < q =>
        /\ Sent(p, q) - TakenOf(q, p) =
               net[p][q] + flag[q][p] + (IF Holds(q, p) THEN 1 ELSE 0)
        /\ TakenOf(q, p) - TakenOf(p, q) = net[q][p] + flag[p][q]

PairInv == \A p \in Image : \A q \in Image \ {p} :
    /\ Algorithm = "counter" => CountInv(p, q)
    /\ ByChars(p, q) => CharInv(p, q)
    /\ BySense(p, q) => SenseInv(p, q)
    /\ Algorithm = "ping_pong" => PingInv(p, q)

IInv == TypeOK /\ CallInv /\ PairInv

-----------------------------------------------------------------------------
(* What the counts of signals are worth *)

LEMMA Counts ==
    ASSUME TypeOK, CallInv, NEW p \in Image, NEW q \in Image
    PROVE  /\ Sent(p, q) \in Nat /\ TakenOf(p, q) \in Nat
           /\ Sent(p, q) <= named[p][q]
           /\ Sent(p, q) <= TakenOf(p, q) + 1
           /\ Yet(p, q) => Sent(p, q) = TakenOf(p, q)
           /\ q \notin todo[p] => TakenOf(p, q) = named[p][q] /\ Sent(p, q) = named[p][q]
           /\ q \in todo[p] /\ pc[p] # "signal" => Sent(p, q) = TakenOf(p, q) + 1
  <1>1. named[p][q] \in Nat /\ at[p] \in Nat /\ list[p] \in Seq(Callers)
    BY DEF TypeOK
  <1>2. Yet(p, q) => q \in todo[p]
    BY <1>1 DEF CallInv, Yet, Range
  <1>3. q \in todo[p] => named[p][q] > 0
    BY DEF CallInv
  <1>4. pc[p] # "signal" => ~Yet(p, q)
    BY DEF Yet
  <1> QED
    BY <1>1, <1>2, <1>3, <1>4 DEF Sent, TakenOf

LEMMA SenseFacts ==
    ASSUME NEW n \in Nat
    PROVE  /\ Sense(n) \in Nat /\ Sense(n + 1) # 0
           /\ Sense(n + 1) = NextSense(Sense(n)) /\ Sense(n + 1) # Sense(n)
  BY DEF Sense, NextSense

-----------------------------------------------------------------------------
(* What the actions do to the counts *)

\* Who calls the statement is to send as many signals, and take as many, as
\* it names images.
LEMMA CallEffect ==
    ASSUME ConstantsOK, TypeOK, CallInv, NEW p \in Callers, NEW l \in Lists[p], Call(p, l)
    PROVE  /\ TypeOK' /\ CallInv'
           /\ \A a, b \in Image :
                /\ Sent(a, b)' = Sent(a, b) /\ TakenOf(a, b)' = TakenOf(a, b)
                /\ Holds(a, b)' <=> Holds(a, b)
                /\ Yet(a, b)' => a = p \/ Yet(a, b)
  <1> USE DEF Call, Goto
  <1>0. p \in Image /\ Callers \subseteq Image
    BY DEF ConstantsOK
  <1>1. PICK n \in Nat \ {0} : l \in [1..n -> Callers \ {p}] /\ IsInjective(l)
    BY DEF Lists, ConstantsOK
  <1>2. l \in Seq(Callers) /\ Len(l) = n /\ DOMAIN l = 1..n
    BY <1>1
  <1>3. /\ \A j, k \in 1..n : l[j] = l[k] => j = k
        /\ \A k \in 1..n : l[k] # p
        /\ Range(l) \subseteq Callers
    BY <1>1, <1>2 DEF IsInjective, Range
  <1>4. TypeOK'
    <2>1. list' \in [Image -> Seq(Callers)] /\ at' \in [Image -> Nat]
      BY <1>0, <1>2 DEF TypeOK
    <2>2. todo' \in [Image -> SUBSET Callers]
      BY <1>0, <1>3 DEF TypeOK
    <2>3. pc' \in [Image -> {"out", "signal", "take", "pong", "putBack"}]
      BY <1>0 DEF TypeOK
    <2>4. named' \in [Image -> [Image -> Nat]]
      <3>1. [q \in Image |-> IF q \in Range(l) THEN named[p][q] + 1 ELSE named[p][q]]
              \in [Image -> Nat]
        <4>1. \A q \in Image : named[p][q] \in Nat
          BY <1>0 DEF TypeOK
        <4> HIDE DEF Call
        <4> QED
          BY <4>1
      <3> QED
        BY <1>0, <3>1 DEF TypeOK
    <2> QED
      BY <2>1, <2>2, <2>3, <2>4 DEF TypeOK, flagVars
  <1>5. CallInv'
    <2>1. list'[p] = l /\ at'[p] = 0 /\ todo'[p] = Range(l) /\ pc'[p] = "signal"
      BY <1>0 DEF TypeOK
    <2>3. ASSUME NEW b \in Range(l) PROVE named'[p][b] > 0
      <3>1. b \in Image /\ named[p][b] \in Nat
        BY <1>0, <1>3 DEF TypeOK
      <3>2. named'[p][b] = named[p][b] + 1
        BY <1>0, <3>1 DEF TypeOK
      <3> QED
        BY <3>1, <3>2
    <2>2. \A a \in Image \ {p} :
            /\ list'[a] = list[a] /\ at'[a] = at[a] /\ todo'[a] = todo[a]
            /\ pc'[a] = pc[a] /\ named'[a] = named[a] /\ got'[a] = got[a]
      BY <1>0 DEF TypeOK
    <2> HIDE DEF Call, Goto
    <2> QED
      BY <1>0, <1>2, <1>3, <2>1, <2>2, <2>3 DEF CallInv
  <1>6. ASSUME NEW a \in Image, NEW b \in Image
        PROVE  /\ Sent(a, b)' = Sent(a, b) /\ TakenOf(a, b)' = TakenOf(a, b)
               /\ Holds(a, b)' <=> Holds(a, b)
               /\ Yet(a, b)' => a = p \/ Yet(a, b)
    <2>1. CASE a = p
      <3>1. Yet(p, b)' <=> b \in Range(l)
        <4>1. list'[p] = l /\ at'[p] = 0 /\ pc'[p] = "signal"
          BY <1>0 DEF TypeOK
        <4>2. Yet(p, b)' <=> \E k \in 1..n : l[k] = b
          BY <1>2, <4>1 DEF Yet
        <4> QED
          BY <1>2, <4>2 DEF Range
      <3>2. ~Yet(p, b) /\ b \notin todo[p] /\ todo'[p] = Range(l)
        BY <1>0 DEF Yet, CallInv, TypeOK
      <3>3. named'[p][b] = IF b \in Range(l) THEN named[p][b] + 1 ELSE named[p][b]
        BY <1>0 DEF TypeOK
      <3>4. named[p][b] \in Nat
        BY <1>0 DEF TypeOK
      <3>5. ~Holds(p, b) /\ ~Holds(p, b)'
        BY <1>0 DEF Holds, TypeOK
      <3> QED
        BY <2>1, <3>1, <3>2, <3>3, <3>4, <3>5 DEF Sent, TakenOf
    <2>2. CASE a # p
      BY <1>0, <2>2 DEF Yet, Sent, TakenOf, Holds, TypeOK
    <2> QED
      BY <2>1, <2>2
  <1> QED
    BY <1>4, <1>5, <1>6

\* One more signal is sent, and nothing taken.
LEMMA SignalEffect ==
    ASSUME ConstantsOK, TypeOK, CallInv, NEW p \in Callers, Signal(p),
           NEW q, q = list[p][at[p] + 1]
    PROVE  /\ q \in Image /\ q # p
           /\ CallInv'
           /\ Yet(p, q) /\ ~Yet(p, q)' /\ Sent(p, q)' = Sent(p, q) + 1
           /\ \A a, b \in Image :
                /\ TakenOf(a, b)' = TakenOf(a, b)
                /\ Holds(a, b)' <=> Holds(a, b)
                /\ ~(a = p /\ b = q) =>
                     Sent(a, b)' = Sent(a, b) /\ (Yet(a, b)' <=> Yet(a, b))
  <1> USE DEF Signal, Goto
  <1>0. p \in Image /\ Callers \subseteq Image
    BY DEF ConstantsOK
  <1>1. /\ at[p] \in Nat /\ list[p] \in Seq(Callers) /\ Len(list[p]) \in Nat
        /\ at[p] < Len(list[p]) /\ todo[p] = Range(list[p])
    BY <1>0 DEF TypeOK, CallInv
  <1>2. q \in Callers /\ q # p /\ q \in todo[p]
    BY <1>0, <1>1 DEF CallInv, Range
  <1>3. CallInv'
    <2>1. /\ list' = list /\ todo' = todo /\ named' = named /\ got' = got
          /\ at'[p] = at[p] + 1
          /\ pc'[p] = IF at[p] + 1 = Len(list[p]) THEN "take" ELSE "signal"
          /\ \A a \in Image \ {p} : at'[a] = at[a] /\ pc'[a] = pc[a]
      BY <1>0 DEF TypeOK
    <2> HIDE DEF Signal, Goto
    <2> QED
      BY <1>0, <1>1, <2>1 DEF CallInv
  <1>4. Yet(p, q) /\ ~Yet(p, q)'
    <2>1. Yet(p, q)
      BY <1>0, <1>1 DEF Yet
    <2>2. ASSUME NEW k \in (at[p] + 2)..Len(list[p]) PROVE list[p][k] # q
      <3>1. \A i, j \in 1..Len(list[p]) : list[p][i] = list[p][j] => i = j
        BY <1>0 DEF CallInv
      <3>2. k \in 1..Len(list[p]) /\ at[p] + 1 \in 1..Len(list[p]) /\ k # at[p] + 1
        BY <1>1
      <3> HIDE DEF Signal, Goto
      <3> QED
        BY <3>1, <3>2
    <2>3. at'[p] + 1 = at[p] + 2 /\ list' = list
      BY <1>0, <1>1 DEF TypeOK
    <2> QED
      BY <1>1, <2>1, <2>2, <2>3 DEF Yet
  <1>5. ASSUME NEW a \in Image, NEW b \in Image, ~(a = p /\ b = q)
        PROVE  Yet(a, b)' <=> Yet(a, b)
    <2>1. CASE a = p
      <3>1. at'[p] = at[p] + 1 /\ list' = list
        BY <1>0, <1>1 DEF TypeOK
      <3>2. CASE at[p] + 1 = Len(list[p])
        <4>1. pc'[p] = "take" /\ (at[p] + 1)..Len(list[p]) = {at[p] + 1}
          <5>1. pc'[p] = "take"
            BY <1>0, <3>2 DEF TypeOK
          <5>2. \A k \in (at[p] + 1)..Len(list[p]) : k = at[p] + 1
            BY <1>1, <3>2
          <5> QED
            BY <1>1, <5>1, <5>2
        <4> QED
          BY <1>1, <1>5, <2>1, <4>1 DEF Yet
      <3>3. CASE at[p] + 1 # Len(list[p])
        <4>1. pc'[p] = "signal" /\ pc[p] = "signal"
          BY <1>0, <3>3 DEF TypeOK
        <4>2. \A k \in (at[p] + 1)..Len(list[p]) :
                k \in (at[p] + 2)..Len(list[p]) \/ list[p][k] = q
          BY <1>1
        <4> QED
          BY <1>1, <1>5, <2>1, <3>1, <4>1, <4>2 DEF Yet
      <3> QED
        BY <3>2, <3>3
    <2>2. CASE a # p
      BY <1>0, <2>2 DEF Yet, TypeOK
    <2> QED
      BY <2>1, <2>2
  <1>6. named[p][q] \in Nat
    BY <1>0, <1>2 DEF TypeOK
  <1>7. \A a, b \in Image : Holds(a, b)' <=> Holds(a, b)
    BY <1>0 DEF Holds, TypeOK
  <1> QED
    BY <1>0, <1>2, <1>3, <1>4, <1>5, <1>6, <1>7 DEF Sent, TakenOf

\* One signal is taken, and the statement may be over.
LEMMA TakenEffect ==
    ASSUME ConstantsOK, TypeOK, CallInv, NEW p \in Callers, NEW q \in todo[p],
           pc[p] \in {"take", "pong", "putBack"}, Taken(p, q), UNCHANGED callVars,
           DOMAIN got' = Image,
           \A a \in Image \ {p} : got'[a] = got[a]
    PROVE  /\ CallInv'
           /\ TakenOf(p, q)' = TakenOf(p, q) + 1
           /\ \A a, b \in Image :
                /\ Sent(a, b)' = Sent(a, b) /\ (Yet(a, b)' <=> Yet(a, b))
                /\ ~(a = p /\ b = q) => TakenOf(a, b)' = TakenOf(a, b)
                /\ Holds(a, b)' <=> a # p /\ Holds(a, b)
  <1> USE DEF Taken, Goto, callVars
  <1>0. p \in Image /\ Callers \subseteq Image /\ q \in Image
    BY DEF ConstantsOK, TypeOK
  <1>1. CallInv'
    BY <1>0 DEF CallInv, TypeOK
  <1>2. \A a, b \in Image : Yet(a, b)' <=> Yet(a, b)
    BY <1>0 DEF Yet, TypeOK
  <1>3. \A a, b \in Image : Holds(a, b)' <=> a # p /\ Holds(a, b)
    BY <1>0 DEF Holds, TypeOK
  <1>4. named[p][q] \in Nat /\ named' = named
    BY <1>0 DEF TypeOK
  <1>5. todo'[p] = todo[p] \ {q} /\ \A a \in Image \ {p} : todo'[a] = todo[a]
    BY <1>0 DEF TypeOK
  <1> QED
    BY <1>0, <1>1, <1>2, <1>3, <1>4, <1>5 DEF Sent, TakenOf

\* A signal is in the hands of the image that has yet to take it.
LEMMA HoldEffect ==
    ASSUME ConstantsOK, TypeOK, CallInv, NEW p \in Callers, NEW q \in todo[p], NEW label,
           pc[p] = "take", Goto(p, label), UNCHANGED <<callVars, todo>>,
           got'[p][1] = q, \A a \in Image \ {p} : got'[a] = got[a],
           \/ label = "pong" /\ Algorithm = "ping_pong" /\ q < p
           \/ label = "putBack" /\ BySense(p, q)
    PROVE  /\ CallInv'
           /\ \A a, b \in Image :
                /\ Sent(a, b)' = Sent(a, b) /\ (Yet(a, b)' <=> Yet(a, b))
                /\ TakenOf(a, b)' = TakenOf(a, b)
                /\ Holds(a, b)' <=> (Holds(a, b) \/ (a = p /\ b = q))
  <1> USE DEF Goto, callVars
  <1>0. p \in Image
    BY DEF ConstantsOK
  <1>1. CallInv'
    <2>1. /\ pc'[p] = label /\ \A a \in Image \ {p} : pc'[a] = pc[a] /\ got'[a] = got[a]
          /\ UNCHANGED <<named, list, at, todo>>
      BY <1>0 DEF TypeOK
    <2>2. label # "out" /\ label # "signal"
      OBVIOUS
    <2> QED
      BY <1>0, <2>1, <2>2 DEF CallInv
  <1>2. \A a, b \in Image : Yet(a, b)' <=> Yet(a, b)
    BY <1>0 DEF Yet, TypeOK
  <1>3. \A a, b \in Image : Holds(a, b)' <=> (Holds(a, b) \/ (a = p /\ b = q))
    BY <1>0 DEF Holds, TypeOK
  <1> QED
    BY <1>1, <1>2, <1>3 DEF Sent, TakenOf

-----------------------------------------------------------------------------
(* Every action keeps the invariant *)

LEMMA Updated ==
    ASSUME NEW f \in [Image -> [Image -> Nat]], NEW a \in Image, NEW b \in Image,
           NEW v \in Nat
    PROVE  [f EXCEPT ![a][b] = v] \in [Image -> [Image -> Nat]]
  OBVIOUS

LEMMA CallKeeps ==
    ASSUME ConstantsOK, IInv, NEW p \in Callers, NEW l \in Lists[p], Call(p, l)
    PROVE  IInv'
  <1>1. TypeOK' /\ CallInv'
    BY CallEffect DEF IInv
  <1>2. \A a, b \in Image :
          /\ Sent(a, b)' = Sent(a, b) /\ TakenOf(a, b)' = TakenOf(a, b)
          /\ Holds(a, b)' <=> Holds(a, b)
          /\ Yet(a, b)' => a = p \/ Yet(a, b)
    BY CallEffect DEF IInv
  <1>3. flag' = flag /\ check' = check /\ net' = net /\ sense' = sense /\ got' = got
    BY DEF Call, flagVars
  <1>4. Algorithm # "counter" => \A b \in Image : net[p][b] = 0
    BY DEF Call, WritesLanded
  <1>5. ASSUME NEW a \in Image, NEW b \in Image \ {a}
        PROVE  /\ Algorithm = "counter" => CountInv(a, b)'
               /\ ByChars(a, b) => CharInv(a, b)'
               /\ BySense(a, b) => SenseInv(a, b)'
               /\ Algorithm = "ping_pong" => PingInv(a, b)'
    <2>1. Due(a, b)' = Due(a, b)
      BY <1>2 DEF Due
    <2>2. Algorithm = "counter" => CountInv(a, b)'
      BY <1>3, <2>1 DEF IInv, PairInv, CountInv
    <2>3. ByChars(a, b) => CharInv(a, b)'
      BY <1>3, <2>1 DEF IInv, PairInv, CharInv
    <2>4. BySense(a, b) => SenseInv(a, b)'
      <3>1. BySense(a, b) => (Yet(b, a)' => net[b][a] = 0)
        BY <1>2, <1>4 DEF BySense, IInv, PairInv, SenseInv
      <3> QED
        BY <1>2, <1>3, <2>1, <3>1 DEF IInv, PairInv, SenseInv
    <2>5. Algorithm = "ping_pong" => PingInv(a, b)'
      BY <1>2, <1>3 DEF IInv, PairInv, PingInv
    <2> QED
      BY <2>2, <2>3, <2>4, <2>5
  <1> QED
    BY <1>1, <1>5 DEF IInv, PairInv, ByChars, BySense

LEMMA SignalKeeps ==
    ASSUME ConstantsOK, IInv, NEW p \in Callers, Signal(p)
    PROVE  IInv'
  <1>1. PICK q : q = list[p][at[p] + 1]
    OBVIOUS
  <1>2. /\ q \in Image /\ q # p /\ p \in Image
        /\ CallInv'
        /\ Yet(p, q) /\ ~Yet(p, q)' /\ Sent(p, q)' = Sent(p, q) + 1
    BY <1>1, SignalEffect DEF IInv, ConstantsOK
  <1>3. \A a, b \in Image :
          /\ TakenOf(a, b)' = TakenOf(a, b)
          /\ Holds(a, b)' <=> Holds(a, b)
          /\ ~(a = p /\ b = q) => Sent(a, b)' = Sent(a, b) /\ (Yet(a, b)' <=> Yet(a, b))
    BY <1>1, SignalEffect DEF IInv
  <1>4. /\ got' = got
        /\ \/ Algorithm = "counter" /\ Count(p, q)
           \/ Algorithm = "ping_pong" /\ Ping(p, q)
           \/ BySense(p, q) /\ WriteSense(p, q)
           \/ ByChars(p, q) /\ BumpVal(p, q)
    BY <1>1 DEF Signal
  <1>5. TypeOK'
    <2>1. /\ at' \in [Image -> Nat] /\ DOMAIN got' = Image
          /\ pc' \in [Image -> {"out", "signal", "take", "pong", "putBack"}]
          /\ named' = named /\ list' = list /\ todo' = todo
      <3>1. /\ at' = [at EXCEPT ![p] = @ + 1] /\ named' = named /\ list' = list
            /\ todo' = todo /\ got' = got
            /\ \E label \in {"take", "signal"} : pc' = [pc EXCEPT ![p] = label]
        BY DEF Signal, Goto
      <3> QED
        <4>1. at' \in [Image -> Nat]
          <5>1. at' = [at EXCEPT ![p] = at[p] + 1] /\ at \in [Image -> Nat]
            BY <1>2, <3>1 DEF IInv, TypeOK
          <5> QED
            BY <1>2, <5>1
        <4>2. pc' \in [Image -> {"out", "signal", "take", "pong", "putBack"}]
          <5>1. PICK label \in {"take", "signal"} : pc' = [pc EXCEPT ![p] = label]
            BY <3>1
          <5>2. pc \in [Image -> {"out", "signal", "take", "pong", "putBack"}]
            BY DEF IInv, TypeOK
          <5> QED
            BY <1>2, <5>1, <5>2
        <4> QED
          BY <3>1, <4>1, <4>2 DEF IInv, TypeOK
    <2>2. /\ flag \in [Image -> [Image -> Nat]] /\ net \in [Image -> [Image -> Nat]]
          /\ sense \in [Image -> [Image -> Nat]] /\ check \in [Image -> [Image -> Nat]]
      BY DEF IInv, TypeOK
    <2>3. /\ flag[q][p] + 1 \in Nat /\ net[p][q] + 1 \in Nat
          /\ (flag[q][p] + 1) % Chars \in Nat /\ NextSense(sense[p][q]) \in Nat
      BY <1>2, <2>2 DEF NextSense, ConstantsOK
    <2>4. CASE Count(p, q)
      <3>1. flag' \in [Image -> [Image -> Nat]] /\ net' \in [Image -> [Image -> Nat]]
        <4>1. CASE Near(p, q)
          <5>1. flag' = [flag EXCEPT ![q][p] = flag[q][p] + 1] /\ net' = net
            BY <1>2, <2>2, <2>4, <4>1 DEF Count
          <5> QED
            BY <1>2, <2>2, <2>3, <5>1, Updated
        <4>2. CASE ~Near(p, q)
          <5>1. net' = [net EXCEPT ![p][q] = net[p][q] + 1] /\ flag' = flag
            BY <1>2, <2>2, <2>4, <4>2 DEF Count
          <5> QED
            BY <1>2, <2>2, <2>3, <5>1, Updated
        <4> QED
          BY <4>1, <4>2
      <3> QED
        BY <2>1, <2>2, <2>4, <3>1 DEF Count, IInv, TypeOK
    <2>5. CASE Ping(p, q)
      BY <1>2, <2>1, <2>2, <2>3, <2>5, Updated DEF Ping, IInv, TypeOK
    <2>6. CASE WriteSense(p, q)
      BY <1>2, <2>1, <2>2, <2>3, <2>6, Updated DEF WriteSense, IInv, TypeOK
    <2>7. CASE BumpVal(p, q)
      BY <1>2, <2>1, <2>2, <2>3, <2>7, Updated DEF BumpVal, IInv, TypeOK
    <2> QED
      BY <1>4, <2>4, <2>5, <2>6, <2>7
  <1>6. Due(q, p)' = Due(q, p) + 1
    BY <1>2, <1>3, Counts DEF Due, IInv
  <1>7. Due(q, p) \in {0, 1} \/ Algorithm = "ping_pong"
    <2>1. /\ Sent(p, q) = TakenOf(p, q) /\ Sent(p, q) \in Nat
          /\ Sent(q, p) \in Nat /\ TakenOf(q, p) \in Nat
          /\ Sent(q, p) <= TakenOf(q, p) + 1
      BY <1>2, Counts DEF IInv
    <2>2. Algorithm # "ping_pong" => Due(q, p) >= 0 /\ Due(p, q) >= 0
      <3>1. flag[q][p] \in Nat /\ net[p][q] \in Nat /\ flag[p][q] \in Nat /\ net[q][p] \in Nat
        BY <1>2 DEF IInv, TypeOK
      <3> QED
        BY <1>2, <3>1 DEF ConstantsOK, IInv, PairInv, CountInv, CharInv, SenseInv, ByChars, BySense
    <2> QED
      BY <2>1, <2>2 DEF Due
  <1>8. \A a, b \in Image : ~(a = q /\ b = p) => Due(a, b)' = Due(a, b)
    BY <1>2, <1>3 DEF Due
  <1>9. /\ flag \in [Image -> [Image -> Nat]] /\ net \in [Image -> [Image -> Nat]]
        /\ sense \in [Image -> [Image -> Nat]]
    BY DEF IInv, TypeOK
  <1>10. ASSUME NEW a \in Image, NEW b \in Image \ {a}
         PROVE  /\ Algorithm = "counter" => CountInv(a, b)'
                /\ ByChars(a, b) => CharInv(a, b)'
                /\ BySense(a, b) => SenseInv(a, b)'
                /\ Algorithm = "ping_pong" => PingInv(a, b)'
    <2>1. CASE Algorithm = "counter"
      <3>1. CountInv(a, b)
        BY <2>1 DEF IInv, PairInv
      <3>2. Count(p, q)
        BY <1>4, <2>1 DEF BySense, ByChars
      <3>3. flag'[a][b] + net'[b][a] =
              flag[a][b] + net[b][a] + (IF a = q /\ b = p THEN 1 ELSE 0)
        BY <1>2, <1>9, <3>2 DEF Count
      <3> QED
        <4>1. flag[a][b] \in Nat /\ net[b][a] \in Nat
          BY <1>9
        <4>2. Due(a, b)' = Due(a, b) + (IF a = q /\ b = p THEN 1 ELSE 0)
          BY <1>6, <1>8, <3>1, <4>1 DEF CountInv
        <4>3. CountInv(a, b)'
          BY <3>1, <3>3, <4>1, <4>2 DEF CountInv
        <4> QED
          BY <2>1, <4>3 DEF BySense, ByChars
    <2>2. CASE ByChars(p, q) /\ BumpVal(p, q)
      <3>1. /\ flag'[a][b] = IF a = q /\ b = p THEN Inc(flag[q][p]) ELSE flag[a][b]
            /\ check' = check /\ net' = net /\ sense' = sense
        BY <1>2, <1>9, <2>2 DEF BumpVal, Inc
      <3>2. ByChars(a, b) => CharInv(a, b)'
        BY <1>6, <1>7, <1>8, <2>2, <3>1 DEF CharInv, ByChars, IInv, PairInv
      <3>3. ASSUME BySense(a, b) PROVE SenseInv(a, b)'
        <4>1. ~(a = q /\ b = p) /\ ~(a = p /\ b = q)
          BY <1>2, <2>2, <3>3 DEF ByChars, BySense, ConstantsOK
        <4>2. flag'[a][b] = flag[a][b]
          BY <3>1, <4>1
        <4> QED
          BY <1>3, <1>4, <1>8, <3>1, <3>3, <4>1, <4>2 DEF SenseInv, IInv, PairInv
      <3> QED
        BY <2>2, <3>2, <3>3 DEF ByChars
    <2>3. CASE BySense(p, q) /\ WriteSense(p, q)
      <3>1. /\ sense'[a][b] = IF a = p /\ b = q THEN NextSense(sense[p][q]) ELSE sense[a][b]
            /\ net'[b][a] = IF a = q /\ b = p THEN NextSense(sense[p][q]) ELSE net[b][a]
            /\ flag' = flag /\ check' = check
        BY <1>2, <1>9, <2>3 DEF WriteSense
      <3>2. ByChars(a, b) => CharInv(a, b)'
        <4>1. ByChars(a, b) => ~(a = q /\ b = p)
          BY <1>2, <2>3 DEF ByChars, BySense, ConstantsOK
        <4> QED
          BY <1>8, <3>1, <4>1 DEF CharInv, IInv, PairInv
      <3>3. ASSUME BySense(a, b) PROVE SenseInv(a, b)'
        <4>1. sense[p][q] = Sense(Sent(p, q)) /\ SenseInv(a, b)
          BY <1>2, <2>3, <3>3 DEF SenseInv, IInv, PairInv
        <4>2. NextSense(sense[p][q]) = Sense(Sent(p, q)') /\ Sent(p, q) \in Nat
          BY <1>2, <4>1, Counts, SenseFacts DEF IInv
        <4>3. CASE a = q /\ b = p
          <5>1. /\ Due(q, p) \in {0, 1} /\ Due(q, p)' = Due(q, p) + 1
                /\ net[p][q] = 0 /\ ~Holds(q, p) /\ ~Holds(q, p)'
            BY <1>2, <1>3, <1>6, <1>7, <2>3, <4>1, <4>3 DEF SenseInv, BySense
          <5>2. flag[q][p] = IF Due(q, p) = 0 THEN 0 ELSE Sense(Sent(p, q))
            BY <4>1, <4>3, <5>1, <4>2, SenseFacts DEF SenseInv
          <5>3. Sent(p, q)' - 1 = Sent(p, q) /\ Sent(q, p)' = Sent(q, p)
            BY <1>2, <1>3, <4>2
          <5>4. sense'[q][p] = Sense(Sent(q, p)')
            BY <1>2, <3>1, <4>1, <4>3, <5>3 DEF SenseInv
          <5> QED
            BY <1>2, <3>1, <4>2, <4>3, <5>1, <5>2, <5>3, <5>4 DEF SenseInv
        <4>4. CASE a = p /\ b = q
          BY <1>2, <1>3, <1>4, <1>8, <3>1, <4>1, <4>2, <4>4 DEF SenseInv
        <4>5. CASE ~(a = q /\ b = p) /\ ~(a = p /\ b = q)
          BY <1>3, <1>4, <1>8, <3>1, <4>1, <4>5 DEF SenseInv
        <4> QED
          BY <4>3, <4>4, <4>5
      <3> QED
        BY <2>3, <3>2, <3>3 DEF BySense
    <2>4. CASE Algorithm = "ping_pong"
      <3>1. Ping(p, q)
        BY <1>4, <2>4 DEF BySense, ByChars
      <3>2. /\ flag' = flag
            /\ net'[a][b] = IF a = p /\ b = q /\ p < q THEN 1 ELSE net[a][b]
            /\ net'[b][a] = IF b = p /\ a = q /\ p < q THEN 1 ELSE net[b][a]
        BY <1>2, <1>9, <3>1 DEF Ping
      <3>3. PingInv(a, b)
        BY <2>4 DEF IInv, PairInv
      <3>4. ASSUME a < b PROVE PingInv(a, b)'
        <4>1. b \in Int /\ a \in Int /\ ~(b < a)
          BY <3>4 DEF ConstantsOK
        <4>2. CASE a = p /\ b = q
          <5>1. Sent(p, q) = TakenOf(p, q) /\ TakenOf(p, q) \in Nat /\ TakenOf(q, p) \in Nat
            BY <1>2, Counts DEF IInv
          <5>2. /\ net[p][q] \in Nat /\ flag[q][p] \in Nat
                /\ net[q][p] \in Nat /\ flag[p][q] \in Nat
            BY <1>2, <1>9
          <5>3. net[p][q] = 0
            BY <3>3, <3>4, <4>2, <5>1, <5>2 DEF PingInv
          <5> QED
            BY <1>2, <1>3, <3>2, <3>3, <3>4, <4>1, <4>2, <5>1, <5>2, <5>3 DEF PingInv
        <4>3. CASE ~(a = p /\ b = q)
          BY <1>3, <3>2, <3>3, <3>4, <4>1, <4>3 DEF PingInv
        <4> QED
          BY <4>2, <4>3
      <3> QED
        BY <2>4, <3>4 DEF PingInv, BySense, ByChars
    <2> QED
      BY <1>4, <2>1, <2>2, <2>3, <2>4
  <1> QED
    BY <1>2, <1>5, <1>10 DEF IInv, PairInv, ByChars, BySense

\* What a step that takes the signal of q means for the counts.
LEMMA TakenDue ==
    ASSUME ConstantsOK, IInv, NEW p \in Callers, NEW q \in todo[p],
           pc[p] \in {"take", "pong", "putBack"}, Taken(p, q), UNCHANGED callVars,
           DOMAIN got' = Image, \A a \in Image \ {p} : got'[a] = got[a]
    PROVE  /\ p \in Image /\ q \in Image /\ p # q
           /\ CallInv' /\ Due(p, q)' = Due(p, q) - 1
           /\ \A a, b \in Image : ~(a = p /\ b = q) => Due(a, b)' = Due(a, b)
           /\ Sent(p, q) = TakenOf(p, q) + 1 /\ TakenOf(p, q)' = TakenOf(p, q) + 1
  <1>1. p \in Image /\ q \in Image /\ p # q
    <2>1. p \in Image /\ q \in Image /\ list[p] \in Seq(Callers)
      BY DEF ConstantsOK, IInv, TypeOK
    <2>2. \E k \in 1..Len(list[p]) : list[p][k] = q
      BY <2>1 DEF IInv, CallInv, Range
    <2> QED
      BY <2>1, <2>2 DEF IInv, CallInv
  <1>2. /\ CallInv' /\ TakenOf(p, q)' = TakenOf(p, q) + 1
        /\ \A a, b \in Image :
             /\ Sent(a, b)' = Sent(a, b)
             /\ ~(a = p /\ b = q) => TakenOf(a, b)' = TakenOf(a, b)
    BY TakenEffect DEF IInv
  <1>3. Sent(p, q) = TakenOf(p, q) + 1 /\ TakenOf(p, q) \in Nat /\ Sent(q, p) \in Nat
    BY <1>1, Counts DEF IInv
  <1> QED
    BY <1>1, <1>2, <1>3 DEF Due

LEMMA TakenType ==
    ASSUME ConstantsOK, TypeOK, NEW p \in Callers, NEW q, Taken(p, q), UNCHANGED callVars
    PROVE  /\ named' \in [Image -> [Image -> Nat]] /\ list' \in [Image -> Seq(Callers)]
           /\ at' \in [Image -> Nat] /\ todo' \in [Image -> SUBSET Callers]
           /\ pc' \in [Image -> {"out", "signal", "take", "pong", "putBack"}]
  BY DEF Taken, Goto, callVars, TypeOK, ConstantsOK

LEMMA TakeCountKeeps ==
    ASSUME ConstantsOK, IInv, NEW p \in Callers, NEW q \in Image, TakeCount(p, q)
    PROVE  IInv'
  <1>1. /\ Algorithm = "counter" /\ Taken(p, q) /\ q \in todo[p] /\ pc[p] = "take"
        /\ flag[p][q] # 0 /\ flag' = [flag EXCEPT ![p][q] = @ - 1]
        /\ UNCHANGED <<callVars, check, net, sense, got>>
    BY DEF TakeCount, Turn
  <1>2. DOMAIN got' = Image /\ \A a \in Image \ {p} : got'[a] = got[a]
    BY <1>1 DEF IInv, TypeOK
  <1>3. /\ p \in Image /\ p # q
        /\ CallInv' /\ Due(p, q)' = Due(p, q) - 1
        /\ \A a, b \in Image : ~(a = p /\ b = q) => Due(a, b)' = Due(a, b)
    BY <1>1, <1>2, TakenDue
  <1>4. flag \in [Image -> [Image -> Nat]] /\ net \in [Image -> [Image -> Nat]]
    BY DEF IInv, TypeOK
  <1>5. flag' = [flag EXCEPT ![p][q] = flag[p][q] - 1] /\ flag[p][q] - 1 \in Nat
    <2>1. flag[p][q] \in Nat
      BY <1>3, <1>4
    <2> QED
      BY <1>1, <2>1
  <1>6. flag' \in [Image -> [Image -> Nat]]
    BY <1>3, <1>4, <1>5, Updated
  <1>7. TypeOK'
    BY <1>1, <1>2, <1>6, TakenType DEF IInv, TypeOK
  <1>8. ASSUME NEW a \in Image, NEW b \in Image \ {a} PROVE CountInv(a, b)'
    <2>1. CountInv(a, b) /\ flag[a][b] \in Nat /\ net[b][a] \in Nat /\ net' = net
      BY <1>1, <1>4 DEF IInv, PairInv
    <2>2. flag'[a][b] = IF a = p /\ b = q THEN flag[a][b] - 1 ELSE flag[a][b]
      BY <1>3, <1>4, <1>5
    <2> QED
      BY <1>3, <2>1, <2>2 DEF CountInv
  <1> QED
    BY <1>1, <1>3, <1>7, <1>8 DEF IInv, PairInv, ByChars, BySense

LEMMA TakeCharKeeps ==
    ASSUME ConstantsOK, IInv, NEW p \in Callers, NEW q \in Image, TakeChar(p, q)
    PROVE  IInv'
  <1>1. /\ ByChars(p, q) /\ Taken(p, q) /\ q \in todo[p] /\ pc[p] = "take"
        /\ flag[p][q] # check[p][q]
        /\ check' = [check EXCEPT ![p][q] = Inc(check[p][q])]
        /\ UNCHANGED <<callVars, flag, net, sense, got>>
    BY DEF TakeChar, Turn, Inc
  <1>2. DOMAIN got' = Image /\ \A a \in Image \ {p} : got'[a] = got[a]
    BY <1>1 DEF IInv, TypeOK
  <1>3. /\ p \in Image /\ p # q
        /\ CallInv' /\ Due(p, q)' = Due(p, q) - 1
        /\ \A a, b \in Image : ~(a = p /\ b = q) => Due(a, b)' = Due(a, b)
    BY <1>1, <1>2, TakenDue
  <1>4. check \in [Image -> [Image -> Nat]] /\ Inc(check[p][q]) \in Nat
    <2>1. check \in [Image -> [Image -> Nat]]
      BY DEF IInv, TypeOK
    <2>2. check[p][q] + 1 \in Nat /\ Chars \in Nat \ {0}
      BY <1>3, <2>1 DEF ConstantsOK
    <2> QED
      BY <2>1, <2>2 DEF Inc
  <1>5. check' \in [Image -> [Image -> Nat]]
    BY <1>1, <1>3, <1>4, Updated
  <1>6. TypeOK'
    BY <1>1, <1>2, <1>5, TakenType DEF IInv, TypeOK
  <1>7. ASSUME NEW a \in Image, NEW b \in Image \ {a}, ByChars(a, b) PROVE CharInv(a, b)'
    <2>1. CharInv(a, b) /\ flag' = flag /\ net' = net
      BY <1>1, <1>7 DEF IInv, PairInv
    <2>2. check'[a][b] = IF a = p /\ b = q THEN Inc(check[a][b]) ELSE check[a][b]
      BY <1>1, <1>3, <1>4
    <2> QED
      BY <1>1, <1>3, <2>1, <2>2 DEF CharInv
  <1>8. ASSUME NEW a \in Image, NEW b \in Image \ {a}, BySense(a, b) PROVE SenseInv(a, b)'
    <2>1. SenseInv(a, b) /\ ~(a = p /\ b = q)
      BY <1>1, <1>8 DEF IInv, PairInv, ByChars, BySense
    <2>2. /\ Sent(a, b)' = Sent(a, b) /\ Sent(b, a)' = Sent(b, a)
          /\ Yet(b, a)' <=> Yet(b, a)
          /\ Holds(a, b)' <=> a # p /\ Holds(a, b)
      BY <1>1, <1>2, TakenEffect DEF IInv
    <2>3. Holds(a, b)' <=> Holds(a, b)
      BY <1>1, <2>2 DEF Holds
    <2> QED
      BY <1>1, <1>3, <2>1, <2>2, <2>3 DEF SenseInv
  <1> QED
    BY <1>1, <1>3, <1>6, <1>7, <1>8 DEF IInv, PairInv, ByChars, BySense

LEMMA SwapKeeps ==
    ASSUME ConstantsOK, IInv, NEW p \in Callers, NEW q \in Image, Swap(p, q)
    PROVE  IInv'
  <1>1. /\ BySense(p, q) /\ q \in todo[p] /\ pc[p] = "take"
        /\ flag[p][q] # 0 /\ flag' = [flag EXCEPT ![p][q] = 0]
        /\ UNCHANGED <<callVars, check, net, sense>>
    BY DEF Swap, Turn
  <1>2. /\ p \in Image /\ p # q
        /\ Sent(p, q) = TakenOf(p, q) + 1
        /\ Sent(p, q) \in Nat /\ Sent(q, p) \in Nat /\ TakenOf(p, q) \in Nat
    <2>1. p \in Image /\ list[p] \in Seq(Callers)
      BY DEF ConstantsOK, IInv, TypeOK
    <2>2. \E k \in 1..Len(list[p]) : list[p][k] = q
      BY <1>1, <2>1 DEF IInv, CallInv, Range
    <2>3. p # q
      BY <2>1, <2>2 DEF IInv, CallInv
    <2> QED
      BY <1>1, <2>1, <2>3, Counts DEF IInv
  <1>3. SenseInv(p, q) /\ ~Holds(p, q) /\ sense[p][q] = Sense(Sent(p, q))
    BY <1>1, <1>2 DEF IInv, PairInv, SenseInv, Holds
  <1>4. flag \in [Image -> [Image -> Nat]] /\ flag' \in [Image -> [Image -> Nat]]
    BY <1>1, <1>2, Updated DEF IInv, TypeOK
  <1>5. \A a, b \in Image : flag'[a][b] = IF a = p /\ b = q THEN 0 ELSE flag[a][b]
    BY <1>1, <1>2, <1>4
  <1>6. \A a, b \in Image : ByChars(a, b) => ~(a = p /\ b = q)
    BY <1>1 DEF ByChars, BySense
  <1>7. CASE flag[p][q] = sense[p][q]
    <2>1. Taken(p, q) /\ got' = got
      BY <1>7 DEF Swap
    <2>2. DOMAIN got' = Image /\ \A a \in Image \ {p} : got'[a] = got[a]
      BY <2>1 DEF IInv, TypeOK
    <2>3. /\ CallInv' /\ Due(p, q)' = Due(p, q) - 1
          /\ \A a, b \in Image : ~(a = p /\ b = q) => Due(a, b)' = Due(a, b)
      BY <1>1, <2>1, <2>2, TakenDue
    <2>4. \A a, b \in Image :
            /\ Sent(a, b)' = Sent(a, b) /\ (Yet(a, b)' <=> Yet(a, b))
            /\ Holds(a, b)' <=> a # p /\ Holds(a, b)
      BY <1>1, <2>1, <2>2, TakenEffect DEF IInv
    <2>5. \A a, b \in Image : Holds(a, b)' <=> Holds(a, b)
      BY <1>1, <2>4 DEF Holds
    <2>6. TypeOK'
      BY <1>1, <1>4, <2>1, <2>2, TakenType DEF IInv, TypeOK
    <2>7. \/ Due(p, q) = 1 /\ net[q][p] = 0
          \/ Due(p, q) = 2 /\ net[q][p] = Sense(Sent(q, p))
      <3>1. CASE Due(p, q) = 2 /\ flag[p][q] = Sense(Sent(q, p))
        <4>1. Sent(q, p) = Sent(p, q) + 1
          BY <1>2, <3>1 DEF Due
        <4> QED
          BY <1>2, <1>3, <1>7, <3>1, <4>1, SenseFacts
      <3>2. CASE ~(Due(p, q) = 2 /\ flag[p][q] = Sense(Sent(q, p)))
        BY <1>1, <1>3, <3>2 DEF SenseInv
      <3> QED
        BY <3>1, <3>2
    <2>8. ASSUME NEW a \in Image, NEW b \in Image \ {a}, BySense(a, b) PROVE SenseInv(a, b)'
      <3>1. SenseInv(a, b) /\ net' = net /\ sense' = sense /\ got' = got
        BY <1>1, <2>1, <2>8 DEF IInv, PairInv
      <3>2. CASE a = p /\ b = q
        BY <1>2, <1>3, <1>5, <2>3, <2>4, <2>5, <2>7, <3>1, <3>2 DEF SenseInv
      <3>3. CASE ~(a = p /\ b = q)
        BY <1>5, <2>3, <2>4, <2>5, <3>1, <3>3 DEF SenseInv
      <3> QED
        BY <3>2, <3>3
    <2>9. ASSUME NEW a \in Image, NEW b \in Image \ {a}, ByChars(a, b) PROVE CharInv(a, b)'
      BY <1>1, <1>5, <1>6, <2>3, <2>9 DEF CharInv, IInv, PairInv
    <2> QED
      BY <1>1, <2>3, <2>6, <2>8, <2>9 DEF IInv, PairInv, ByChars, BySense
  <1>8. CASE flag[p][q] # sense[p][q]
    <2>1. /\ got' = [got EXCEPT ![p] = <<q, flag[p][q]>>] /\ Goto(p, "putBack")
          /\ todo' = todo
      BY <1>8 DEF Swap
    <2>2. /\ DOMAIN got' = Image /\ got'[p] = <<q, flag[p][q]>>
          /\ \A a \in Image \ {p} : got'[a] = got[a]
      BY <1>2, <2>1 DEF IInv, TypeOK
    <2>3. /\ CallInv'
          /\ \A a, b \in Image :
               /\ Sent(a, b)' = Sent(a, b) /\ (Yet(a, b)' <=> Yet(a, b))
               /\ TakenOf(a, b)' = TakenOf(a, b)
               /\ Holds(a, b)' <=> (Holds(a, b) \/ (a = p /\ b = q))
      BY <1>1, <2>1, <2>2, HoldEffect DEF IInv
    <2>4. TypeOK'
      BY <1>1, <1>2, <1>4, <2>1, <2>2 DEF IInv, TypeOK, Goto, callVars
    <2>5. /\ Due(p, q) = 2 /\ flag[p][q] = Sense(Sent(q, p)) /\ net[q][p] = 0
      <3>1. Due(p, q) = 1 => Sent(q, p) = Sent(p, q)
        BY <1>2 DEF Due
      <3>2. Due(p, q) = 2 => Sent(q, p) - 1 = Sent(p, q)
        BY <1>2 DEF Due
      <3> QED
        BY <1>1, <1>3, <1>8, <3>1, <3>2 DEF SenseInv
    <2>6. \A a, b \in Image : Due(a, b)' = Due(a, b)
      BY <2>3 DEF Due
    <2>7. ASSUME NEW a \in Image, NEW b \in Image \ {a}, BySense(a, b) PROVE SenseInv(a, b)'
      <3>1. SenseInv(a, b) /\ net' = net /\ sense' = sense
        BY <1>1, <2>7 DEF IInv, PairInv
      <3>2. CASE a = p /\ b = q
        BY <1>2, <1>3, <1>5, <2>2, <2>3, <2>5, <2>6, <3>1, <3>2 DEF SenseInv
      <3>3. CASE ~(a = p /\ b = q)
        <4>1. Holds(a, b) => got'[a] = got[a]
          BY <1>1, <2>2 DEF Holds
        <4> QED
          BY <1>5, <2>3, <2>6, <3>1, <3>3, <4>1 DEF SenseInv
      <3> QED
        BY <3>2, <3>3
    <2>8. ASSUME NEW a \in Image, NEW b \in Image \ {a}, ByChars(a, b) PROVE CharInv(a, b)'
      BY <1>1, <1>5, <1>6, <2>6, <2>8 DEF CharInv, IInv, PairInv
    <2> QED
      BY <1>1, <2>3, <2>4, <2>7, <2>8 DEF IInv, PairInv, ByChars, BySense
  <1> QED
    BY <1>7, <1>8

LEMMA PutBackKeeps ==
    ASSUME ConstantsOK, IInv, NEW p \in Callers, PutBack(p)
    PROVE  IInv'
  <1>1. PICK q : q = got[p][1]
    OBVIOUS
  <1>2. /\ pc[p] = "putBack" /\ Taken(p, q) /\ got' = [got EXCEPT ![p] = NoSignal]
        /\ flag' = [flag EXCEPT ![p][q] = got[p][2]]
        /\ UNCHANGED <<callVars, check, net, sense>>
    BY <1>1 DEF PutBack
  <1>3. q \in todo[p] /\ BySense(p, q) /\ p \in Image
    BY <1>1, <1>2 DEF IInv, CallInv, ConstantsOK
  <1>4. DOMAIN got' = Image /\ \A a \in Image \ {p} : got'[a] = got[a]
    BY <1>2 DEF IInv, TypeOK
  <1>5. /\ q \in Image /\ p # q
        /\ CallInv' /\ Due(p, q)' = Due(p, q) - 1
        /\ \A a, b \in Image : ~(a = p /\ b = q) => Due(a, b)' = Due(a, b)
    BY <1>2, <1>3, <1>4, TakenDue
  <1>6. \A a, b \in Image :
          /\ Sent(a, b)' = Sent(a, b) /\ (Yet(a, b)' <=> Yet(a, b))
          /\ Holds(a, b)' <=> a # p /\ Holds(a, b)
    BY <1>2, <1>3, <1>4, TakenEffect DEF IInv
  <1>7. /\ Due(p, q) = 2 /\ got[p][2] = Sense(Sent(q, p)) /\ net[q][p] = 0
        /\ sense[p][q] = Sense(Sent(p, q))
    <2>1. SenseInv(p, q) /\ Holds(p, q)
      BY <1>1, <1>2, <1>3, <1>5 DEF IInv, PairInv, Holds
    <2> QED
      BY <2>1 DEF SenseInv
  <1>8. got[p][2] \in Nat
    BY <1>5, <1>3, <1>7, Counts, SenseFacts DEF IInv
  <1>9. flag \in [Image -> [Image -> Nat]] /\ flag' \in [Image -> [Image -> Nat]]
    BY <1>2, <1>3, <1>5, <1>8, Updated DEF IInv, TypeOK
  <1>10. \A a, b \in Image :
           flag'[a][b] = IF a = p /\ b = q THEN got[p][2] ELSE flag[a][b]
    BY <1>2, <1>3, <1>5, <1>9
  <1>11. TypeOK'
    BY <1>2, <1>4, <1>9, TakenType DEF IInv, TypeOK
  <1>12. ASSUME NEW a \in Image, NEW b \in Image \ {a}, BySense(a, b) PROVE SenseInv(a, b)'
    <2>1. SenseInv(a, b) /\ net' = net /\ sense' = sense
      BY <1>2, <1>12 DEF IInv, PairInv
    <2>2. CASE a = p /\ b = q
      BY <1>3, <1>5, <1>6, <1>7, <1>10, <2>1, <2>2 DEF SenseInv
    <2>3. CASE ~(a = p /\ b = q)
      <3>1. Holds(a, b)' <=> Holds(a, b)
        BY <1>1, <1>6, <2>3 DEF Holds
      <3>2. Holds(a, b) => got'[a] = got[a]
        BY <1>4, <1>6, <3>1
      <3> QED
        BY <1>5, <1>6, <1>10, <2>1, <2>3, <3>1, <3>2 DEF SenseInv
    <2> QED
      BY <2>2, <2>3
  <1>13. ASSUME NEW a \in Image, NEW b \in Image \ {a}, ByChars(a, b) PROVE CharInv(a, b)'
    <2>1. CharInv(a, b) /\ ~(a = p /\ b = q)
      BY <1>3, <1>13 DEF IInv, PairInv, ByChars, BySense
    <2> QED
      BY <1>2, <1>5, <1>10, <2>1 DEF CharInv
  <1> QED
    BY <1>3, <1>5, <1>11, <1>12, <1>13 DEF IInv, PairInv, ByChars, BySense

LEMMA TakePingKeeps ==
    ASSUME ConstantsOK, IInv, NEW p \in Callers, NEW q \in Image, TakePing(p, q)
    PROVE  IInv'
  <1>1. /\ Algorithm = "ping_pong" /\ q \in todo[p] /\ pc[p] = "take"
        /\ flag[p][q] = 1 /\ flag' = [flag EXCEPT ![p][q] = 0]
        /\ UNCHANGED <<callVars, check, net, sense>>
    BY DEF TakePing, Turn
  <1>2. p \in Image /\ p # q /\ p \in Nat /\ q \in Nat
    <2>1. p \in Image /\ list[p] \in Seq(Callers) /\ p \in Nat /\ q \in Nat
      BY DEF ConstantsOK, IInv, TypeOK
    <2>2. \E k \in 1..Len(list[p]) : list[p][k] = q
      BY <1>1, <2>1 DEF IInv, CallInv, Range
    <2> QED
      BY <2>1, <2>2 DEF IInv, CallInv
  <1>3. flag \in [Image -> [Image -> Nat]] /\ flag' \in [Image -> [Image -> Nat]]
    BY <1>1, <1>2, Updated DEF IInv, TypeOK
  <1>4. \A a, b \in Image :
          /\ flag'[a][b] = IF a = p /\ b = q THEN flag[a][b] - 1 ELSE flag[a][b]
          /\ flag[a][b] \in Nat /\ net'[a][b] = net[a][b] /\ net[a][b] \in Nat
    <2>1. \A a, b \in Image : flag'[a][b] = IF a = p /\ b = q THEN 0 ELSE flag[a][b]
      BY <1>1, <1>2, <1>3
    <2>2. net' = net /\ flag[p][q] - 1 = 0
      BY <1>1
    <2>3. \A a, b \in Image : flag[a][b] \in Nat /\ net[a][b] \in Nat
      BY DEF IInv, TypeOK
    <2> QED
      BY <2>1, <2>2, <2>3
  <1>5. \A a, b \in Image : Sent(a, b) \in Nat /\ TakenOf(a, b) \in Nat
    BY Counts DEF IInv
  <1>6. CASE q < p
    <2>1. /\ got' = [got EXCEPT ![p] = <<q, 1>>] /\ Goto(p, "pong")
          /\ todo' = todo
      BY <1>6 DEF TakePing
    <2>2. /\ DOMAIN got' = Image /\ got'[p][1] = q
          /\ \A a \in Image \ {p} : got'[a] = got[a]
      BY <1>2, <2>1 DEF IInv, TypeOK
    <2>3. /\ CallInv'
          /\ \A a, b \in Image :
               /\ Sent(a, b)' = Sent(a, b) /\ TakenOf(a, b)' = TakenOf(a, b)
               /\ Holds(a, b)' <=> (Holds(a, b) \/ (a = p /\ b = q))
      BY <1>1, <1>6, <2>1, <2>2, HoldEffect DEF IInv
    <2>4. TypeOK'
      BY <1>1, <1>2, <1>3, <2>1, <2>2 DEF IInv, TypeOK, Goto, callVars
    <2>5. ASSUME NEW a \in Image, NEW b \in Image \ {a}, a < b PROVE PingInv(a, b)'
      <3>1. PingInv(a, b)
        BY <1>1 DEF IInv, PairInv
      <3>2. CASE a = q /\ b = p
        <4>1. ~Holds(p, q) /\ Holds(p, q)'
          BY <1>1, <1>2, <2>3 DEF Holds
        <4> QED
          BY <1>2, <1>4, <1>5, <2>3, <2>5, <3>1, <3>2, <4>1 DEF PingInv
      <3>3. CASE ~(a = q /\ b = p)
        <4>1. ~(a = p /\ b = q)
          BY <1>2, <1>6, <2>5
        <4> QED
          BY <1>4, <2>3, <2>5, <3>1, <3>3, <4>1 DEF PingInv
      <3> QED
        BY <3>2, <3>3
    <2>6. \A a, b \in Image : ~(a < b) => PingInv(a, b)'
      BY DEF PingInv
    <2> QED
      BY <1>1, <2>3, <2>4, <2>5, <2>6 DEF IInv, PairInv, ByChars, BySense
  <1>7. CASE ~(q < p)
    <2>1. Taken(p, q) /\ got' = got
      BY <1>7 DEF TakePing
    <2>2. DOMAIN got' = Image /\ \A a \in Image \ {p} : got'[a] = got[a]
      BY <2>1 DEF IInv, TypeOK
    <2>3. /\ CallInv' /\ TakenOf(p, q)' = TakenOf(p, q) + 1
          /\ \A a, b \in Image :
               /\ Sent(a, b)' = Sent(a, b)
               /\ ~(a = p /\ b = q) => TakenOf(a, b)' = TakenOf(a, b)
               /\ Holds(a, b)' <=> a # p /\ Holds(a, b)
      BY <1>1, <2>1, <2>2, TakenEffect DEF IInv
    <2>4. \A a, b \in Image : Holds(a, b)' <=> Holds(a, b)
      BY <1>1, <2>3 DEF Holds
    <2>5. TypeOK'
      BY <1>1, <1>3, <2>1, <2>2, TakenType DEF IInv, TypeOK
    <2>6. ASSUME NEW a \in Image, NEW b \in Image \ {a}, a < b PROVE PingInv(a, b)'
      <3>1. PingInv(a, b)
        BY <1>1 DEF IInv, PairInv
      <3>2. ~(a = q /\ b = p)
        BY <1>7, <2>6
      <3>3. CASE a = p /\ b = q
        <4>1. Holds(q, p)' <=> Holds(q, p)
          BY <1>2, <2>4
        <4>2. /\ flag'[p][q] = flag[p][q] - 1 /\ flag'[q][p] = flag[q][p]
              /\ flag[p][q] \in Nat /\ net' = net /\ net[q][p] \in Nat
          BY <1>1, <1>2, <1>4
        <4> QED
          BY <1>2, <1>5, <2>3, <2>6, <3>1, <3>3, <4>1, <4>2 DEF PingInv
      <3>4. CASE ~(a = p /\ b = q)
        BY <1>4, <2>3, <2>4, <2>6, <3>1, <3>2, <3>4 DEF PingInv
      <3> QED
        BY <3>3, <3>4
    <2>7. \A a, b \in Image : ~(a < b) => PingInv(a, b)'
      BY DEF PingInv
    <2> QED
      BY <1>1, <2>3, <2>5, <2>6, <2>7 DEF IInv, PairInv, ByChars, BySense
  <1> QED
    BY <1>6, <1>7

LEMMA PongKeeps ==
    ASSUME ConstantsOK, IInv, NEW p \in Callers, Pong(p)
    PROVE  IInv'
  <1>1. PICK q : q = got[p][1]
    OBVIOUS
  <1>2. /\ pc[p] = "pong" /\ Taken(p, q) /\ got' = [got EXCEPT ![p] = NoSignal]
        /\ net' = [net EXCEPT ![p][q] = 1]
        /\ UNCHANGED <<callVars, flag, check, sense>>
    BY <1>1 DEF Pong
  <1>3. q \in todo[p] /\ Algorithm = "ping_pong" /\ q < p /\ p \in Image
    BY <1>1, <1>2 DEF IInv, CallInv, ConstantsOK
  <1>4. DOMAIN got' = Image /\ \A a \in Image \ {p} : got'[a] = got[a]
    BY <1>2 DEF IInv, TypeOK
  <1>5. q \in Image /\ p # q /\ q \in Nat /\ p \in Nat
    BY <1>2, <1>3, <1>4, TakenDue DEF ConstantsOK
  <1>6. /\ CallInv' /\ TakenOf(p, q)' = TakenOf(p, q) + 1
        /\ \A a, b \in Image :
             /\ Sent(a, b)' = Sent(a, b)
             /\ ~(a = p /\ b = q) => TakenOf(a, b)' = TakenOf(a, b)
             /\ Holds(a, b)' <=> a # p /\ Holds(a, b)
    BY <1>2, <1>3, <1>4, TakenEffect DEF IInv
  <1>7. net \in [Image -> [Image -> Nat]] /\ net' \in [Image -> [Image -> Nat]]
    BY <1>2, <1>3, <1>5, Updated DEF IInv, TypeOK
  <1>8. TypeOK'
    BY <1>2, <1>4, <1>7, TakenType DEF IInv, TypeOK
  <1>9. \A a, b \in Image : Sent(a, b) \in Nat /\ TakenOf(a, b) \in Nat
    BY Counts DEF IInv
  <1>10. Sent(q, p) <= TakenOf(q, p) + 1
    BY <1>3, <1>5, Counts DEF IInv
  <1>11. \A a, b \in Image : flag[a][b] \in Nat /\ net[a][b] \in Nat
    BY DEF IInv, TypeOK
  <1>12. Holds(p, q) /\ PingInv(q, p)
    BY <1>1, <1>2, <1>3, <1>5 DEF Holds, IInv, PairInv
  <1>13. net[p][q] = 0
    BY <1>3, <1>5, <1>9, <1>10, <1>11, <1>12 DEF PingInv
  <1>14. \A a, b \in Image : net'[a][b] = IF a = p /\ b = q THEN 1 ELSE net[a][b]
    BY <1>2, <1>3, <1>5, <1>7
  <1>15. ASSUME NEW a \in Image, NEW b \in Image \ {a}, a < b PROVE PingInv(a, b)'
    <2>1. ~(a = p /\ b = q) /\ PingInv(a, b) /\ flag' = flag
      BY <1>2, <1>3, <1>5, <1>15 DEF IInv, PairInv
    <2>2. CASE a = q /\ b = p
      BY <1>3, <1>5, <1>6, <1>9, <1>11, <1>12, <1>13, <1>14, <1>15, <2>1, <2>2 DEF PingInv
    <2>3. CASE ~(a = q /\ b = p)
      <3>1. Holds(b, a)' <=> Holds(b, a)
        BY <1>1, <1>6, <2>3 DEF Holds
      <3> QED
        BY <1>6, <1>14, <1>15, <2>1, <2>3, <3>1 DEF PingInv
    <2> QED
      BY <2>2, <2>3
  <1>16. \A a, b \in Image : ~(a < b) => PingInv(a, b)'
    BY DEF PingInv
  <1> QED
    BY <1>3, <1>6, <1>8, <1>15, <1>16 DEF IInv, PairInv, ByChars, BySense

LEMMA LandKeeps ==
    ASSUME ConstantsOK, IInv, NEW p \in Callers, NEW q \in Image, Land(p, q)
    PROVE  IInv'
  <1>1. /\ net[p][q] # 0
        /\ UNCHANGED <<callVars, todo, pc, check, sense, got>>
        /\ p \in Image
    BY DEF Land, ConstantsOK
  <1>2. flag \in [Image -> [Image -> Nat]] /\ net \in [Image -> [Image -> Nat]]
    BY DEF IInv, TypeOK
  <1>3. PICK f, n \in Nat :
          /\ flag' = [flag EXCEPT ![q][p] = f] /\ net' = [net EXCEPT ![p][q] = n]
          /\ Algorithm = "counter" => f = flag[q][p] + 1 /\ n = net[p][q] - 1
          /\ Algorithm # "counter" => f = net[p][q] /\ n = 0
    <2>1. flag[q][p] + 1 \in Nat /\ net[p][q] - 1 \in Nat /\ net[p][q] \in Nat /\ 0 \in Nat
      BY <1>1, <1>2
    <2>2. CASE Algorithm = "counter"
      <3>1. /\ flag' = [flag EXCEPT ![q][p] = flag[q][p] + 1]
            /\ net' = [net EXCEPT ![p][q] = net[p][q] - 1]
        BY <2>2 DEF Land
      <3> QED
        BY <2>1, <2>2, <3>1
    <2>3. CASE Algorithm # "counter"
      <3>1. flag' = [flag EXCEPT ![q][p] = net[p][q]] /\ net' = [net EXCEPT ![p][q] = 0]
        BY <2>3 DEF Land
      <3> QED
        BY <2>1, <2>3, <3>1
    <2> QED
      BY <2>2, <2>3
  <1>4. flag' \in [Image -> [Image -> Nat]] /\ net' \in [Image -> [Image -> Nat]]
    BY <1>1, <1>2, <1>3, Updated
  <1>5. TypeOK'
    BY <1>1, <1>4 DEF IInv, TypeOK, callVars
  <1>6. CallInv'
    BY <1>1 DEF IInv, CallInv, callVars
  <1>7. \A a, b \in Image :
          /\ flag'[a][b] = IF a = q /\ b = p THEN f ELSE flag[a][b]
          /\ net'[a][b] = IF a = p /\ b = q THEN n ELSE net[a][b]
          /\ flag[a][b] \in Nat /\ net[a][b] \in Nat
    BY <1>1, <1>2, <1>3
  <1>8. \A a, b \in Image :
          /\ Sent(a, b)' = Sent(a, b) /\ TakenOf(a, b)' = TakenOf(a, b)
          /\ Due(a, b)' = Due(a, b)
          /\ (Yet(a, b)' <=> Yet(a, b)) /\ (Holds(a, b)' <=> Holds(a, b))
    BY <1>1 DEF Sent, TakenOf, Due, Yet, Holds, callVars
  <1>9. ASSUME NEW a \in Image, NEW b \in Image \ {a}
        PROVE  /\ Algorithm = "counter" => CountInv(a, b)'
               /\ ByChars(a, b) => CharInv(a, b)'
               /\ BySense(a, b) => SenseInv(a, b)'
               /\ Algorithm = "ping_pong" => PingInv(a, b)'
    <2>1. ASSUME Algorithm = "counter" PROVE CountInv(a, b)'
      BY <1>3, <1>7, <1>8, <2>1 DEF CountInv, IInv, PairInv
    <2>2. ASSUME ByChars(a, b) PROVE CharInv(a, b)'
      <3>1. CharInv(a, b)
        BY <2>2 DEF IInv, PairInv
      <3>2. ~(a = q /\ b = p)
        BY <1>1, <3>1 DEF CharInv
      <3> QED
        BY <1>1, <1>7, <1>8, <3>1, <3>2 DEF CharInv
    <2>3. ASSUME BySense(a, b) PROVE SenseInv(a, b)'
      <3>1. SenseInv(a, b) /\ sense' = sense /\ got' = got /\ Algorithm # "counter"
        BY <1>1, <2>3 DEF IInv, PairInv, BySense
      <3>2. CASE a = q /\ b = p
        BY <1>1, <1>3, <1>7, <1>8, <3>1, <3>2 DEF SenseInv
      <3>3. CASE ~(a = q /\ b = p)
        BY <1>7, <1>8, <3>1, <3>3 DEF SenseInv
      <3> QED
        BY <3>2, <3>3
    <2>4. ASSUME Algorithm = "ping_pong", a < b PROVE PingInv(a, b)'
      <3>1. PingInv(a, b) /\ f = net[p][q] /\ n = 0
        BY <1>3, <2>4 DEF IInv, PairInv
      <3>2. /\ Sent(a, b) \in Nat /\ TakenOf(a, b) \in Nat /\ TakenOf(b, a) \in Nat
            /\ Sent(a, b) <= TakenOf(a, b) + 1
        BY Counts DEF IInv
      <3>3. Sent(b, a) \in Nat /\ Sent(b, a) <= TakenOf(b, a) + 1
        BY Counts DEF IInv
      <3>4. CASE a = p /\ b = q
        <4>1. flag[q][p] = 0
          <5>1. /\ flag[q][p] \in Nat /\ flag[p][q] \in Nat
                /\ net[q][p] \in Nat /\ net[p][q] \in Nat /\ net[p][q] # 0
            BY <1>1, <1>7
          <5>2. /\ Sent(p, q) - TakenOf(q, p) =
                      net[p][q] + flag[q][p] + (IF Holds(q, p) THEN 1 ELSE 0)
                /\ TakenOf(q, p) - TakenOf(p, q) = net[q][p] + flag[p][q]
            BY <2>4, <3>1, <3>4 DEF PingInv
          <5>3. /\ Sent(p, q) \in Nat /\ TakenOf(p, q) \in Nat /\ TakenOf(q, p) \in Nat
                /\ Sent(p, q) <= TakenOf(p, q) + 1
            BY <3>2, <3>4
          <5>4. PICK h \in Nat : h = IF Holds(q, p) THEN 1 ELSE 0
            OBVIOUS
          <5>5. Sent(p, q) - TakenOf(q, p) = net[p][q] + flag[q][p] + h
            BY <5>2, <5>4
          <5>6. TakenOf(q, p) - TakenOf(p, q) = net[q][p] + flag[p][q]
            BY <5>2
          <5>7. TakenOf(q, p) >= TakenOf(p, q)
            BY <5>1, <5>3, <5>6
          <5>8. \A s, t, u, m, v \in Nat :
                  s - u = m + v + h /\ u >= t /\ s <= t + 1 /\ m # 0 => v = 0
            OBVIOUS
          <5> QED
            BY <5>1, <5>3, <5>5, <5>7, <5>8
        <4> QED
          BY <1>7, <1>8, <2>4, <3>1, <3>4, <4>1 DEF PingInv
      <3>5. CASE a = q /\ b = p
        <4>1. flag[q][p] = 0
          BY <1>1, <1>7, <2>4, <3>1, <3>2, <3>5 DEF PingInv
        <4> QED
          BY <1>7, <1>8, <2>4, <3>1, <3>5, <4>1 DEF PingInv
      <3>6. CASE ~(a = p /\ b = q) /\ ~(a = q /\ b = p)
        BY <1>7, <1>8, <3>1, <3>6 DEF PingInv
      <3> QED
        BY <3>4, <3>5, <3>6
    <2>5. ~(a < b) => PingInv(a, b)'
      BY DEF PingInv
    <2> QED
      BY <2>1, <2>2, <2>3, <2>4, <2>5
  <1> QED
    BY <1>5, <1>6, <1>9 DEF IInv, PairInv, ByChars, BySense

-----------------------------------------------------------------------------
LEMMA InitInv == ConstantsOK /\ Init => IInv
  <1> SUFFICES ASSUME ConstantsOK, Init PROVE IInv
    OBVIOUS
  <1>1. TypeOK /\ CallInv
    BY DEF Init, Pairs, TypeOK, CallInv, Range
  <1>2. \A a, b \in Image :
          /\ Sent(a, b) = 0 /\ TakenOf(a, b) = 0 /\ ~Yet(a, b) /\ ~Holds(a, b)
          /\ flag[a][b] = 0 /\ net[a][b] = 0 /\ check[a][b] = 0 /\ sense[a][b] = 0
    BY DEF Init, Pairs, Sent, TakenOf, Yet, Holds
  <1>3. Sense(0) = 0
    BY DEF Sense
  <1> QED
    BY <1>1, <1>2, <1>3
       DEF IInv, PairInv, CountInv, CharInv, SenseInv, PingInv, Due

LEMMA StepInv == ConstantsOK /\ IInv /\ [Next]_vars => IInv'
  <1> SUFFICES ASSUME ConstantsOK, IInv, [Next]_vars PROVE IInv'
    OBVIOUS
  <1>1. ASSUME UNCHANGED vars PROVE IInv'
    <2>1. TypeOK' /\ CallInv'
      BY <1>1 DEF vars, callVars, flagVars, IInv, TypeOK, CallInv
    <2>2. \A a, b \in Image :
            /\ Sent(a, b)' = Sent(a, b) /\ TakenOf(a, b)' = TakenOf(a, b)
            /\ Due(a, b)' = Due(a, b)
            /\ (Yet(a, b)' <=> Yet(a, b)) /\ (Holds(a, b)' <=> Holds(a, b))
      BY <1>1 DEF vars, callVars, Sent, TakenOf, Due, Yet, Holds
    <2>3. flag' = flag /\ net' = net /\ check' = check /\ sense' = sense /\ got' = got
      BY <1>1 DEF vars, flagVars
    <2>4. ASSUME NEW a \in Image, NEW b \in Image \ {a}
          PROVE  /\ CountInv(a, b) => CountInv(a, b)'
                 /\ CharInv(a, b) => CharInv(a, b)'
                 /\ PingInv(a, b) => PingInv(a, b)'
      BY <2>2, <2>3 DEF CountInv, CharInv, PingInv
    <2>5. ASSUME NEW a \in Image, NEW b \in Image \ {a}, SenseInv(a, b)
          PROVE  SenseInv(a, b)'
      BY <2>2, <2>3, <2>5 DEF SenseInv
    <2> QED
      BY <2>1, <2>4, <2>5 DEF IInv, PairInv, ByChars, BySense
  <1> QED
    BY <1>1, CallKeeps, SignalKeeps, TakeCountKeeps, TakeCharKeeps, SwapKeeps,
       PutBackKeeps, TakePingKeeps, PongKeeps, LandKeeps
       DEF Next, Progress, Take, Landing, Unmatched

LEMMA Invariance == ConstantsOK => (Spec => []IInv)
  <1> SUFFICES ASSUME ConstantsOK PROVE Spec => []IInv
    OBVIOUS
  <1>1. Init => IInv
    BY InitInv
  <1>2. IInv /\ [Next]_vars => IInv'
    BY StepInv
  <1> QED
    BY <1>1, <1>2, PTL DEF Spec

-----------------------------------------------------------------------------
(* The promise: no image leaves a statement before those it names are in   *)
(* the matching ones.                                                      *)

PS == INSTANCE PairSync WITH partners <- Partners

\* an image has taken no more signals of another than that one had to send
Matching == \A p \in Image : \A q \in Image \ {p} : TakenOf(p, q) <= named[q][p]

\* What p has taken of q, q has sent, and what q has sent it was asked for.
LEMMA TakenWasNamed ==
    ASSUME ConstantsOK, IInv, NEW p \in Image, NEW q \in Image, p # q
    PROVE  TakenOf(p, q) <= named[q][p]
  <1>1. /\ Sent(q, p) \in Nat /\ TakenOf(p, q) \in Nat /\ Sent(q, p) <= named[q][p]
        /\ TakenOf(q, p) \in Nat /\ TakenOf(q, p) <= named[q][p]
        /\ named[q][p] \in Nat
    <2>1. named[q][p] \in Nat
      BY DEF IInv, TypeOK
    <2> QED
      BY <2>1, Counts DEF IInv, TakenOf
  <1>2. /\ flag[p][q] \in Nat /\ flag[q][p] \in Nat
        /\ net[p][q] \in Nat /\ net[q][p] \in Nat /\ p \in Nat /\ q \in Nat
    BY DEF IInv, TypeOK, ConstantsOK
  <1>3. CASE Algorithm # "ping_pong"
    <2>1. CountInv(p, q) \/ CharInv(p, q) \/ SenseInv(p, q)
      BY <1>3 DEF IInv, PairInv, ByChars, BySense, ConstantsOK
    <2>2. Due(p, q) \in Nat
      BY <1>2, <2>1 DEF CountInv, CharInv, SenseInv
    <2> QED
      BY <1>1, <2>2 DEF Due
  <1>4. CASE Algorithm = "ping_pong"
    <2>1. PingInv(p, q) /\ PingInv(q, p)
      BY <1>4 DEF IInv, PairInv
    <2>2. CASE p < q
      <3>1. TakenOf(q, p) - TakenOf(p, q) = net[q][p] + flag[p][q]
        BY <2>1, <2>2 DEF PingInv
      <3> QED
        BY <1>1, <1>2, <3>1
    <2>3. CASE q < p
      <3>1. PICK h \in Nat : Sent(q, p) - TakenOf(p, q) = net[q][p] + flag[p][q] + h
        BY <2>1, <2>3 DEF PingInv
      <3> QED
        BY <1>1, <1>2, <3>1
    <2> QED
      BY <1>2, <2>2, <2>3
  <1> QED
    BY <1>3, <1>4

LEMMA InitRefines == ConstantsOK /\ Init => PS!Init
  BY DEF Init, Pairs, PS!Init, Partners

LEMMA CallRefines ==
    ASSUME ConstantsOK, IInv, NEW p \in Callers, NEW l \in Lists[p], Call(p, l)
    PROVE  PS!Next
  <1>1. p \in Image /\ Callers \subseteq Image
    BY DEF ConstantsOK
  <1>2. PICK n \in Nat \ {0} : l \in [1..n -> Callers \ {p}]
    BY DEF Lists, ConstantsOK
  <1>3. Range(l) \subseteq Image \ {p} /\ Range(l) # {}
    <2>1. l[1] \in Range(l)
      BY <1>2 DEF Range
    <2> QED
      BY <1>1, <1>2, <2>1 DEF Range
  <1>4. Partners[p] = {} /\ Partners' = [Partners EXCEPT ![p] = Range(l)]
    BY <1>1 DEF Call, Goto, Partners, IInv, TypeOK
  <1>5. PS!Begin(p, Range(l))
    BY <1>4 DEF Call, PS!Begin
  <1> QED
    BY <1>1, <1>3, <1>5 DEF PS!Next

\* A step that takes the last signal ends the statement, with all matched.
LEMMA TakenRefines ==
    ASSUME ConstantsOK, IInv, Matching', NEW p \in Callers, NEW q, q \in todo[p],
           Taken(p, q), pc[p] # "out", named' = named, list' = list
    PROVE  PS!End(p) \/ UNCHANGED <<named, Partners>>
  <1>1. p \in Image
    BY DEF ConstantsOK
  <1>2. CASE todo[p] # {q}
    <2>1. pc'[p] # "out" /\ \A a \in Image \ {p} : pc'[a] = pc[a]
      BY <1>1, <1>2 DEF Taken, Goto, IInv, TypeOK
    <2>2. Partners' = Partners
      BY <2>1 DEF Partners
    <2> QED
      BY <2>2
  <1>3. CASE todo[p] = {q}
    <2>1. /\ pc'[p] = "out" /\ todo'[p] = {}
          /\ \A a \in Image \ {p} : pc'[a] = pc[a]
      BY <1>1, <1>3 DEF Taken, Goto, IInv, TypeOK
    <2>2. Partners' = [Partners EXCEPT ![p] = {}]
      BY <1>1, <2>1 DEF Partners
    <2>3. Partners[p] = Range(list[p]) /\ q \in Partners[p]
      BY <1>1 DEF Partners, IInv, CallInv
    <2>4. \A b \in Partners[p] : b \in Image /\ b # p
      <3>1. list[p] \in Seq(Callers) /\ Callers \subseteq Image
        BY <1>1 DEF IInv, TypeOK, ConstantsOK
      <3>2. \A k \in 1..Len(list[p]) : list[p][k] # p
        BY <1>1 DEF IInv, CallInv
      <3> QED
        BY <2>3, <3>1, <3>2 DEF Range
    <2>5. ASSUME NEW b \in Partners[p] PROVE named[b][p] >= named[p][b]
      <3>1. TakenOf(p, b)' <= named[b][p]
        <4>1. TakenOf(p, b)' <= named'[b][p]
          BY <1>1, <2>4, <2>5 DEF Matching
        <4> QED
          BY <4>1
      <3>2. TakenOf(p, b)' = named[p][b] /\ named[p][b] \in Nat /\ named[b][p] \in Nat
        BY <1>1, <2>1, <2>4, <2>5 DEF TakenOf, IInv, TypeOK
      <3> QED
        BY <3>1, <3>2
    <2> QED
      BY <2>2, <2>3, <2>5 DEF PS!End, PS!Matched
  <1> QED
    BY <1>2, <1>3

LEMMA StepRefines ==
    ASSUME ConstantsOK, IInv, Matching', [Next]_vars
    PROVE  [PS!Next]_(PS!vars)
  <1> Callers \subseteq Image
    BY DEF ConstantsOK
  <1>1. ASSUME NEW p \in Callers, NEW l \in Lists[p], Call(p, l) PROVE PS!Next
    BY <1>1, CallRefines
  <1>2. ASSUME NEW p \in Callers, NEW q, q \in todo[p], Taken(p, q), pc[p] # "out",
               UNCHANGED callVars
        PROVE  [PS!Next]_(PS!vars)
    <2>1. PS!End(p) \/ UNCHANGED <<named, Partners>>
      BY <1>2, TakenRefines DEF callVars
    <2> QED
      BY <2>1 DEF PS!Next, PS!vars
  <1>3. ASSUME NEW p \in Callers, pc[p] # "out", UNCHANGED <<named, list>>,
               \E label \in {"signal", "take", "pong", "putBack"} : Goto(p, label)
        PROVE  UNCHANGED PS!vars
    <2>1. pc'[p] # "out" /\ \A a \in Image \ {p} : pc'[a] = pc[a]
      BY <1>3 DEF Goto, IInv, TypeOK
    <2> QED
      BY <1>3, <2>1 DEF Partners, PS!vars
  <1>4. ASSUME NEW p \in Callers, Signal(p) PROVE UNCHANGED PS!vars
    BY <1>3, <1>4 DEF Signal
  <1>5. ASSUME NEW p \in Callers, NEW q \in Image, Take(p, q)
        PROVE  [PS!Next]_(PS!vars)
    <2>1. /\ q \in todo[p] /\ pc[p] # "out" /\ UNCHANGED callVars
          /\ Taken(p, q) \/ Goto(p, "pong") \/ Goto(p, "putBack")
      BY <1>5 DEF Take, TakeCount, TakePing, TakeChar, Swap, Turn
    <2> QED
      BY <1>2, <1>3, <2>1 DEF callVars
  <1>6. ASSUME NEW p \in Callers, Pong(p) \/ PutBack(p) PROVE [PS!Next]_(PS!vars)
    <2>1. /\ pc[p] \in {"pong", "putBack"} /\ Taken(p, got[p][1])
          /\ UNCHANGED callVars
      BY <1>6 DEF Pong, PutBack
    <2>2. got[p][1] \in todo[p] /\ pc[p] # "out"
      BY <2>1 DEF IInv, CallInv
    <2> QED
      BY <1>2, <2>1, <2>2
  <1>7. ASSUME NEW p \in Callers, NEW q \in Image, Land(p, q) PROVE UNCHANGED PS!vars
    BY <1>7 DEF Land, callVars, Partners, PS!vars
  <1>8. ASSUME UNCHANGED vars PROVE UNCHANGED PS!vars
    BY <1>8 DEF vars, callVars, Partners, PS!vars
  <1> QED
    BY <1>1, <1>4, <1>5, <1>6, <1>7, <1>8 DEF Next, Progress, Landing, Unmatched

(* Whichever algorithm the runtime was told to use, an image that leaves a *)
(* SYNC IMAGES statement leaves it when each image it names has named it   *)
(* as often: signals lost, overwritten or taken for those of a later       *)
(* statement would break it (gasnet_comm_layer.c:4643-5165).               *)
THEOREM Refinement == ConstantsOK => (Spec => PS!Init /\ [][PS!Next]_(PS!vars))
  <1> SUFFICES ASSUME ConstantsOK PROVE Spec => PS!Init /\ [][PS!Next]_(PS!vars)
    OBVIOUS
  <1>1. Init => PS!Init
    BY InitRefines
  <1>2. Spec => []IInv
    BY Invariance
  <1>3. IInv => Matching
    BY TakenWasNamed DEF Matching
  <1>4. IInv /\ Matching' /\ [Next]_vars => [PS!Next]_(PS!vars)
    BY StepRefines
  <1> QED
    BY <1>1, <1>2, <1>3, <1>4, PTL DEF Spec
=============================================================================
