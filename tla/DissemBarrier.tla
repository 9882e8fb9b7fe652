------------------------------ MODULE DissemBarrier ------------------------------
(***************************************************************************)
(* DISSEM_XBARRIER (omp_xbarrier.c:96-110, 332-361): in round r a thread   *)
(* signals the one 2^r places on and waits for the one 2^r places back.    *)
(* Two sets of flags, chosen by parity, and a sense that flips every       *)
(* second barrier make the flags reusable without a reset.                 *)
(***************************************************************************)
EXTENDS XBarrier

VARIABLES
    flag,    \* nodes[t][r].flag[p]
    round    \* r of each thread

dissemVars == <<flag, round>>
vars == <<teamVars, dissemVars>>

Rounds == 0..Log2(MaxThreads)
Cleared == [r \in Rounds |-> [p \in {0, 1} |-> FALSE]]

\* nodes[t][r].partner, as the last rebuild left it
Partner(t, r) == (t + 2^r) % builtFor[t]

Init == /\ TeamInit
        /\ flag = [t \in Thread |-> Cleared]
        /\ round = Zero

Enter(t) ==
    /\ Call(t, "test")
    /\ round' = [round EXCEPT ![t] = 0]
    /\ UNCHANGED flag

\* r < log2_team_size
Test(t) ==
    /\ pc[t] = "test" /\ round[t] < log2TeamSize
    /\ Inside(t, "signal")
    /\ UNCHANGED dissemVars

\* writes through nodes, which a rebuild for a team of one has set to NULL
Signal(t) ==
    /\ pc[t] = "signal" /\ info # "crash"
    /\ IF info = "null"
       THEN info' = "crash" /\ UNCHANGED <<flag, pc>>
       ELSE /\ flag' = [flag EXCEPT
                           ![Partner(t, round[t])][round[t]][parity[t]] = sense[t]]
            /\ Goto(t, "spin") /\ UNCHANGED info
    /\ UNCHANGED <<teamSize, log2TeamSize, allocSize, nthreadsVar, localVars,
                   inRegion, countVars, round>>

Spin(t) ==
    /\ pc[t] = "spin" /\ flag[t][round[t]][parity[t]] = sense[t]
    /\ round' = [round EXCEPT ![t] = @ + 1]
    /\ Inside(t, "test")
    /\ UNCHANGED flag

\* mutant: one set of flags
FinishOneParity(t) ==
    /\ pc[t] = "test" /\ round[t] >= log2TeamSize
    /\ sense' = [sense EXCEPT ![t] = ~@]
    /\ Leave(t)
    /\ UNCHANGED <<sizeVars, builtFor, parity, inRegion, entered, dissemVars>>

Finish(t) ==
    /\ pc[t] = "test" /\ round[t] >= log2TeamSize
    /\ sense' = [sense EXCEPT ![t] = IF parity[t] = 1 THEN ~@ ELSE @]
    /\ parity' = [parity EXCEPT ![t] = 1 - @]
    /\ Leave(t)
    /\ UNCHANGED <<sizeVars, builtFor, inRegion, entered, dissemVars>>

Wait(t) == \/ Test(t) \/ Signal(t) \/ Spin(t) \/ Finish(t)
           \/ ReturnAlone(t) /\ UNCHANGED dissemVars

\* mutant: the flags keep what the last team left in them
RebuildNoFlags(n) == RebuildInfo(n) /\ UNCHANGED dissemVars

Rebuild(n) ==
    /\ RebuildInfo(n)
    /\ flag' = [t \in Thread |-> IF t < n /\ info' = "built" THEN Cleared ELSE flag[t]]
    /\ UNCHANGED round

Fork == \/ KeepInfo /\ UNCHANGED dissemVars
        \/ \E n \in Thread : Rebuild(n + 1)

Next == Fork \/ \E t \in Thread : Enter(t) \/ Wait(t)

\* a thread inside a barrier keeps running; it may stay outside for ever
Spec == Init /\ [][Next]_vars /\ \A t \in Thread : WF_vars(Wait(t))

-----------------------------------------------------------------------------
(* Properties *)

\* omp_xbarrier.c:349-360: a thread that is a barrier ahead never overwrites
\* a signal its partner still waits for.
NoSignalOverwritten ==
    \A t \in Team : pc[t] = "signal" /\ info = "built" =>
        LET p == Partner(t, round[t])
        IN  ~ /\ pc[p] \in {"test", "signal", "spin"} /\ round[p] <= round[t]
              /\ parity[p] = parity[t] /\ sense[p] # sense[t]

(* Why: the inductive invariant, in a program that is NeverStale *)

DissemTypeOK ==
    /\ TypeOK /\ PerThreadRows
    /\ flag \in [Thread -> [Rounds -> [{0, 1} -> BOOLEAN]]]
    /\ round \in [Thread -> Nat]

In(t) == pc[t] \in {"test", "signal", "spin"}

\* the barriers of this region to whose round r a thread has signalled
Sent(t, r) ==
    IF In(t) /\ (r < round[t] \/ (r = round[t] /\ pc[t] = "spin"))
    THEN left[t] + 1 ELSE left[t]

\* how many places a thread comes after another in the ring
Behind(t, u) == IF u <= t THEN t - u ELSE t + teamSize - u

\* a thread's sense in the barrier after the one it is at
NextSense(t) == IF parity[t] = 1 THEN ~sense[t] ELSE sense[t]

RoundInv == \A t \in Team :
    /\ In(t) => round[t] <= log2TeamSize
    /\ pc[t] \in {"signal", "spin"} => round[t] < log2TeamSize

\* After r rounds the 2^r threads up to this one are known to have entered.
HeardInv == \A t, u \in Team :
    In(t) /\ Behind(t, u) < 2^round[t] => left[t] < entered[u]

\* parity and sense tell barriers that a thread can be at apart
CycleInv == \A t, u \in Team :
    /\ left[t] = left[u] => parity[t] = parity[u] /\ sense[t] = sense[u]
    /\ left[t] = left[u] + 1 => parity[t] = 1 - parity[u] /\ sense[t] = NextSense(u)

\* the flags tell whether the signal for this barrier, and that for the next,
\* has been sent
FlagInv == info = "built" =>
    \A t \in Team, r \in 0..(log2TeamSize - 1) :
        LET u == Partner(t, r)
        IN  /\ Sent(t, r) >= left[u]
            /\ In(u) /\ r < round[u] => Sent(t, r) > left[u]
            /\ flag[u][r][parity[u]] = sense[u] <=> Sent(t, r) > left[u]
            /\ flag[u][r][1 - parity[u]] = NextSense(u) <=> Sent(t, r) > left[u] + 1

IInv == /\ DissemTypeOK /\ BuiltInv /\ InsideInv /\ TogetherInv
        /\ RoundInv /\ HeardInv /\ CycleInv /\ FlagInv
=============================================================================
