------------------------------ MODULE TaskRegion ------------------------------
(***************************************************************************)
(* What the tasking runtime promises to an OpenMP program, without saying  *)
(* how: threads meet at a sequence of barriers, deferred tasks are spawned *)
(* and finished, and a barrier releases the team only when every thread is *)
(* there and every task spawned so far is finished.  TaskRuntime is shown  *)
(* to implement it.                                                        *)
(***************************************************************************)
EXTENDS Naturals

CONSTANTS Thread, TaskId, Episodes   \* the last episode ends the region

VARIABLES
    arrived,     \* barriers each thread has reached
    left,        \* barriers each thread has come out of
    released,    \* barriers that have let the team go
    unfinished,  \* tasks spawned and not finished
    finished

vars == <<arrived, left, released, unfinished, finished>>

Init ==
    /\ arrived = [t \in Thread |-> 0] /\ left = [t \in Thread |-> 0]
    /\ released = 0 /\ unfinished = {} /\ finished = {}

\* only running code spawns: a task, or a thread that is not at a barrier
Spawn(n) ==
    /\ n \notin unfinished \cup finished
    /\ unfinished # {} \/ \E t \in Thread : arrived[t] = left[t]
    /\ unfinished' = unfinished \cup {n}
    /\ UNCHANGED <<arrived, left, released, finished>>

Finish(n) ==
    /\ n \in unfinished
    /\ unfinished' = unfinished \ {n} /\ finished' = finished \cup {n}
    /\ UNCHANGED <<arrived, left, released>>

Arrive(t) ==
    /\ arrived[t] = left[t] /\ arrived[t] < Episodes
    /\ arrived' = [arrived EXCEPT ![t] = @ + 1]
    /\ UNCHANGED <<left, released, unfinished, finished>>

Release ==
    /\ unfinished = {}
    /\ \A t \in Thread : arrived[t] > released
    /\ released' = released + 1
    /\ UNCHANGED <<arrived, left, unfinished, finished>>

Leave(t) ==
    /\ left[t] < arrived[t] /\ arrived[t] <= released
    /\ left' = [left EXCEPT ![t] = @ + 1]
    /\ UNCHANGED <<arrived, released, unfinished, finished>>

Next == \/ \E n \in TaskId : Spawn(n) \/ Finish(n)
        \/ \E t \in Thread : Arrive(t) \/ Leave(t)
        \/ Release

Spec == Init /\ [][Next]_vars
=============================================================================
