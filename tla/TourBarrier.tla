------------------------------- MODULE TourBarrier -------------------------------
(***************************************************************************)
(* TOUR_XBARRIER (omp_xbarrier.c:267-304, 363-401): a tournament.  In      *)
(* round k the loser raises the flag of the winner 2^k places before it    *)
(* and waits for champion_sense; thread 0, the champion, sets it when it   *)
(* has won the last round.  Senses flip, so nothing is reset.              *)
(***************************************************************************)
EXTENDS XBarrier

VARIABLES
    flag,           \* rounds[t][k].flag
    championSense,  \* one global, initialised once with the program
    round           \* where round points, of each thread

tourVars == <<flag, championSense, round>>
vars == <<teamVars, tourVars>>

Rounds == 0..Log2(MaxThreads)
Cleared == [k \in Rounds |-> FALSE]

\* tour_xbarrier_init: rounds[t][k].role of a team of n
Role(n, t, k) ==
    IF t = 0 /\ k = Log2(n) - 1 THEN "champion"
    ELSE IF t % 2^(k + 1) = 0
         THEN IF t + 2^k < n THEN "winner" ELSE "noop"
         ELSE IF t % 2^(k + 1) = 2^k THEN "loser" ELSE "dropout"

Playing(t, role) == /\ pc[t] = "round"
                    /\ Role(builtFor[t], t, round[t]) = role

Init == /\ TeamInit
        /\ flag = [t \in Thread |-> Cleared]
        /\ championSense = FALSE
        /\ round = Zero

Enter(t) ==
    /\ Call(t, "round")
    /\ round' = [round EXCEPT ![t] = 0]
    /\ UNCHANGED <<flag, championSense>>

Lose(t) ==
    /\ Playing(t, "loser")
    /\ flag' = [flag EXCEPT ![t - 2^round[t]][round[t]] = sense[t]]
    /\ Inside(t, "await")
    /\ UNCHANGED <<championSense, round>>

\* mutant: a loser does not flip its sense
AwaitNoFlip(t) ==
    /\ pc[t] = "await" /\ championSense = sense[t]
    /\ Leave(t)
    /\ UNCHANGED <<sizeVars, localVars, inRegion, entered, tourVars>>

AwaitChampion(t) ==
    /\ pc[t] = "await" /\ championSense = sense[t]
    /\ FlipSense(t)
    /\ UNCHANGED tourVars

Win(t) ==
    /\ Playing(t, "winner") /\ flag[t][round[t]] = sense[t]
    /\ round' = [round EXCEPT ![t] = @ + 1]
    /\ Inside(t, "round")
    /\ UNCHANGED <<flag, championSense>>

\* no opponent in this round
Advance(t) ==
    /\ Playing(t, "noop")
    /\ round' = [round EXCEPT ![t] = @ + 1]
    /\ Inside(t, "round")
    /\ UNCHANGED <<flag, championSense>>

\* mutant: the champion does not wait for the last loser
CrownAtOnce(t) ==
    /\ Playing(t, "champion")
    /\ Inside(t, "crown")
    /\ UNCHANGED tourVars

WinLast(t) ==
    /\ Playing(t, "champion") /\ flag[t][round[t]] = sense[t]
    /\ Inside(t, "crown")
    /\ UNCHANGED tourVars

Crown(t) ==
    /\ pc[t] = "crown"
    /\ championSense' = sense[t]
    /\ FlipSense(t)
    /\ UNCHANGED <<flag, round>>

Wait(t) == \/ Lose(t) \/ AwaitChampion(t) \/ Win(t) \/ Advance(t)
           \/ WinLast(t) \/ Crown(t)
           \/ ReturnAlone(t) /\ UNCHANGED tourVars

\* the flags of the new team are cleared; champion_sense stays as it is
Rebuild(n) ==
    /\ RebuildInfo(n)
    /\ flag' = [t \in Thread |-> IF t < n /\ info' = "built" THEN Cleared ELSE flag[t]]
    /\ UNCHANGED <<championSense, round>>

Fork == \/ KeepInfo /\ UNCHANGED tourVars
        \/ \E n \in Thread : Rebuild(n + 1)

Next == Fork \/ \E t \in Thread : Enter(t) \/ Wait(t)

\* a thread inside a barrier keeps running; it may stay outside for ever
Spec == Init /\ [][Next]_vars /\ \A t \in Thread : WF_vars(Wait(t))

-----------------------------------------------------------------------------
(* Properties *)

\* omp_xbarrier.c:216-219, 375, 396: the local senses are set to True and
\* the global champion_sense flips in step with them, so that of a team
\* between two regions no member's sense equals it: the next barrier closes.
ClosedBetweenRegions ==
    Joined /\ teamSize > 1 => \A t \in Team : sense[t] # championSense

\* omp_thread.c:1736 (change in team size means xbarrier info needs to be
\* reconstructed): no thread leaves its k-th barrier before all have entered it.
NoEarlyExit ==
    [][\A t \in Team : left'[t] > left[t] => \A u \in Team : entered[u] > left[t]]_vars

(* Why: the inductive invariant, in a program with OneSize *)

TourTypeOK ==
    /\ TypeOK /\ PerThreadRows
    /\ flag \in [Thread -> [Rounds -> BOOLEAN]]
    /\ championSense \in BOOLEAN /\ round \in [Thread -> Nat]

In(t) == pc[t] \in {"round", "await", "crown"}

\* the barriers of this region that a thread has lost
Lost(t) == IF pc[t] = "await" THEN left[t] + 1 ELSE left[t]

\* t meets the one 2^k places on in round k
Opponents(t, k) == t % 2^(k + 1) = 0 /\ t + 2^k < teamSize

\* only the first fork changes the team, before any barrier
FirstInv == /\ inRegion => ForkSizes \subseteq {0, teamSize}
            /\ ~inRegion => /\ ~championSense /\ entered = Zero /\ left = Zero
                            /\ \A t \in Team : sense[t]

PlaceInv == \A t \in Team : In(t) =>
    /\ t % 2^round[t] = 0 /\ round[t] < log2TeamSize
    /\ pc[t] = "await" => Role(teamSize, t, round[t]) = "loser"
    /\ pc[t] = "crown" => t = 0 /\ round[t] = log2TeamSize - 1

\* After k rounds the 2^k threads from this one on are known to have entered.
HeardInv == \A t, u \in Team : In(t) =>
    /\ t <= u /\ u < t + 2^round[t] => left[t] < entered[u]
    /\ pc[t] = "crown" => left[t] < entered[u]

\* the champion leaves first; two senses agree when the threads have left the
\* same barriers, and the champion's own is never in championSense
ChampionInv == /\ championSense # sense[0]
               /\ \A t \in Team : left[t] <= left[0]
SenseInv == \A t, u \in Team : sense[t] = sense[u] <=> left[t] = left[u]

\* the flag of a winner tells whether its opponent has lost this barrier
FlagInv == info = "built" =>
    \A t \in Team, k \in 0..(log2TeamSize - 1) : Opponents(t, k) =>
        LET u == t + 2^k
        IN  /\ Lost(u) >= left[t]
            /\ In(t) /\ (k < round[t] \/ pc[t] = "crown") => Lost(u) > left[t]
            /\ flag[t][k] = sense[t] <=> Lost(u) = left[t] + 1

IInv == /\ TourTypeOK /\ BuiltInv /\ InsideInv /\ TogetherInv /\ FirstInv
        /\ PlaceInv /\ HeardInv /\ ChampionInv /\ SenseInv /\ FlagInv
=============================================================================
