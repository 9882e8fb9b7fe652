------------------------------ MODULE ParallelRegion ------------------------------
(***************************************************************************)
(* What fork and join promise: every member of the team executes the       *)
(* region's body once, nobody else does, and the master goes on when all   *)
(* have.  Teams are 0..n-1, whatever n the program asks for.               *)
(***************************************************************************)
EXTENDS Naturals, Sequences

CONSTANTS Thread, Size

VARIABLES
    region,   \* regions forked so far
    inside,   \* the master has forked and not yet joined
    todo,     \* members that have not executed the body
    done      \* the regions each thread has executed, in order

vars == <<region, inside, todo, done>>

Init ==
    /\ region = 0 /\ inside = FALSE /\ todo = {}
    /\ done = [t \in Thread |-> <<>>]

Fork(n) ==
    /\ ~inside /\ inside' = TRUE
    /\ region' = region + 1
    /\ todo' = {t \in Thread : t < n}
    /\ UNCHANGED done

Run(t) ==
    /\ t \in todo /\ todo' = todo \ {t}
    /\ done' = [done EXCEPT ![t] = Append(@, region)]
    /\ UNCHANGED <<region, inside>>

Join ==
    /\ inside /\ todo = {}
    /\ inside' = FALSE
    /\ UNCHANGED <<region, todo, done>>

Work == Join \/ \E t \in Thread : Run(t)
Next == Work \/ \E n \in Size : Fork(n)

Safety == Init /\ [][Next]_vars

\* what is forked is joined
Spec == Safety /\ WF_vars(Work)
=============================================================================
