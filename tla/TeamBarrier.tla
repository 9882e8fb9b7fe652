------------------------------ MODULE TeamBarrier ------------------------------
(***************************************************************************)
(* What a barrier of libopenmp promises, whichever algorithm runs it: in   *)
(* one parallel region nobody leaves its k-th barrier before every member  *)
(* of the team has entered it, and everybody leaves once all have.  The    *)
(* four algorithms of omp_xbarrier.c are shown to implement this.          *)
(***************************************************************************)
EXTENDS Naturals

CONSTANTS Thread, Episodes    \* 0..n; barriers of a region (a bound)

VARIABLES
    teamSize,
    entered, left      \* barriers of this region a thread has reached, passed

vars == <<teamSize, entered, left>>

Team == {t \in Thread : t < teamSize}
Zero == [t \in Thread |-> 0]

Init == teamSize \in {t + 1 : t \in Thread} /\ entered = Zero /\ left = Zero

Enter(t) ==
    /\ t \in Team /\ entered[t] = left[t] /\ entered[t] < Episodes
    /\ entered' = [entered EXCEPT ![t] = @ + 1]
    /\ UNCHANGED <<teamSize, left>>

Leave(t) ==
    /\ t \in Team /\ left[t] < entered[t]
    /\ \A u \in Team : entered[u] > left[t]
    /\ left' = [left EXCEPT ![t] = @ + 1]
    /\ UNCHANGED <<teamSize, entered>>

\* the region ends when all have passed the same barriers; another begins
Fork(n) ==
    /\ \A t \in Team : left[t] = entered[0] /\ entered[t] = entered[0]
    /\ teamSize' = n /\ entered' = Zero /\ left' = Zero

Next == \/ \E t \in Thread : Enter(t) \/ Leave(t)
        \/ \E t \in Thread : Fork(t + 1)

Fairness == \A t \in Thread : WF_vars(Leave(t))

Spec == Init /\ [][Next]_vars /\ Fairness
=============================================================================
