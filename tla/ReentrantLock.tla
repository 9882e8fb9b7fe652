----------------------------- MODULE ReentrantLock -----------------------------
(***************************************************************************)
(* What a nestable lock promises its users (omp_lock.c:146-179, 216-228,   *)
(* 251-277): it has at most one owner, who may take it again, it is free   *)
(* after as many releases, and a test fails only while another thread owns *)
(* the lock.                                                               *)
(***************************************************************************)
EXTENDS Naturals

CONSTANTS Thread, NoThread

VARIABLES
    owner,     \* the thread that owns the lock, or NoThread
    depth,     \* how often the owner has taken it
    answer     \* what omp_test_nest_lock last returned to each thread

vars == <<owner, depth, answer>>

Init == /\ owner = NoThread
        /\ depth = 0
        /\ answer = [t \in Thread |-> 0]

Take(t) == /\ owner = NoThread
           /\ owner' = t /\ depth' = 1
           /\ UNCHANGED answer

TakeAgain(t) == /\ owner = t
                /\ depth' = depth + 1
                /\ UNCHANGED <<owner, answer>>

Release(t) == /\ owner = t /\ depth > 1
              /\ depth' = depth - 1
              /\ UNCHANGED <<owner, answer>>

Free(t) == /\ owner = t /\ depth = 1
           /\ owner' = NoThread /\ depth' = 0
           /\ UNCHANGED answer

\* a successful test reports the depth it reached
Report(t) == /\ owner = t
             /\ answer' = [answer EXCEPT ![t] = depth]
             /\ UNCHANGED <<owner, depth>>

\* a test fails only while another thread owns the lock
Refuse(t) == /\ owner \notin {t, NoThread}
             /\ answer' = [answer EXCEPT ![t] = 0]
             /\ UNCHANGED <<owner, depth>>

Next == \E t \in Thread : \/ Take(t) \/ TakeAgain(t) \/ Release(t) \/ Free(t)
                          \/ Report(t) \/ Refuse(t)

Spec == Init /\ [][Next]_vars
=============================================================================
