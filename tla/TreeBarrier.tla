------------------------------- MODULE TreeBarrier -------------------------------
(***************************************************************************)
(* TREE_XBARRIER (omp_xbarrier.c:230-265, 403-431): threads report up a    *)
(* tree of fan-out 4 and are woken down a tree of fan-out 2.  A node sets  *)
(* its children's not-ready flags back before it reports itself.           *)
(***************************************************************************)
EXTENDS XBarrier

VARIABLES
    childNotReady,  \* the children that have not reported
    wakeupSense

treeVars == <<childNotReady, wakeupSense>>
vars == <<teamVars, treeVars>>

\* tree_xbarrier_init, in a team of n
Parent(t) == (t - 1) \div 4
HaveChild(n, t) == {c \in (4 * t + 1)..(4 * t + 4) : c < n}
Notified(n, t, i) == {c \in {2 * t + 1 + i} : c < n}

Init == /\ TeamInit
        /\ childNotReady = [t \in Thread |-> HaveChild(teamSize, t)]
        /\ wakeupSense = [t \in Thread |-> FALSE]

Enter(t) ==
    /\ Call(t, "gather")
    /\ UNCHANGED treeVars

\* mutants: a node does not wait for all its children; it does not set their
\* flags back
GatherSome(t) ==
    /\ pc[t] = "gather" /\ (childNotReady[t] = {} \/ childNotReady[t] # HaveChild(builtFor[t], t))
    /\ Inside(t, "rearm")
    /\ UNCHANGED treeVars
GatherNoRearm(t) ==
    /\ pc[t] = "gather" /\ childNotReady[t] = {}
    /\ Inside(t, "report")
    /\ UNCHANGED treeVars

Gather(t) ==
    /\ pc[t] = "gather" /\ childNotReady[t] = {}
    /\ Inside(t, "rearm")
    /\ UNCHANGED treeVars

Rearm(t) ==
    /\ pc[t] = "rearm"
    /\ childNotReady' = [childNotReady EXCEPT ![t] = HaveChild(builtFor[t], t)]
    /\ Inside(t, "report")
    /\ UNCHANGED wakeupSense

\* the parent flag of thread 0 is a dummy
Report(t) ==
    /\ pc[t] = "report" /\ builtFor[t] > 1
    /\ childNotReady' = IF t = 0 THEN childNotReady
                        ELSE [childNotReady EXCEPT ![Parent(t)] = @ \ {t}]
    /\ Inside(t, IF t = 0 THEN "notify0" ELSE "await")
    /\ UNCHANGED wakeupSense

AwaitWakeup(t) ==
    /\ pc[t] = "await" /\ wakeupSense[t] = sense[t]
    /\ Inside(t, "notify0")
    /\ UNCHANGED treeVars

Notify(t, i) ==
    wakeupSense' = [u \in Thread |-> IF u \in Notified(builtFor[t], t, i)
                                     THEN sense[t] ELSE wakeupSense[u]]

NotifyFirst(t) ==
    /\ pc[t] = "notify0"
    /\ Notify(t, 0)
    /\ Inside(t, "notify1")
    /\ UNCHANGED childNotReady

NotifySecond(t) ==
    /\ pc[t] = "notify1"
    /\ Notify(t, 1)
    /\ FlipSense(t)
    /\ UNCHANGED childNotReady

Wait(t) == \/ Gather(t) \/ Rearm(t) \/ Report(t) \/ AwaitWakeup(t)
           \/ NotifyFirst(t) \/ NotifySecond(t)
           \/ ReturnAlone(t) /\ UNCHANGED treeVars

\* a team of one only has its shared array cleared
Rebuild(n) ==
    /\ RebuildInfo(n)
    /\ childNotReady' = [t \in Thread |-> IF t < n THEN HaveChild(n, t)
                                          ELSE childNotReady[t]]
    /\ wakeupSense' = [t \in Thread |-> t >= n /\ wakeupSense[t]]

Fork == \/ KeepInfo /\ UNCHANGED treeVars
        \/ \E n \in Thread : Rebuild(n + 1)

Next == Fork \/ \E t \in Thread : Enter(t) \/ Wait(t)

\* a thread inside a barrier keeps running; it may stay outside for ever
Spec == Init /\ [][Next]_vars /\ \A t \in Thread : WF_vars(Wait(t))

-----------------------------------------------------------------------------
(* Properties *)

\* omp_xbarrier.c:415-421: when a node sets its children's flags back, none
\* of them has reported to the next barrier yet: no report is overwritten.
NoReportLost ==
    \A t \in Team : pc[t] = "rearm" =>
        \A c \in HaveChild(teamSize, t) : pc[c] = "await" /\ entered[c] = entered[t]

(* Why: the inductive invariant, in a program that is NeverStale *)

TreeTypeOK ==
    /\ TypeOK /\ ~PerThreadRows
    /\ childNotReady \in [Thread -> SUBSET Nat] /\ wakeupSense \in [Thread -> BOOLEAN]

\* the barriers of this region that a thread has reported to, the barriers it
\* knows to be open, and those that its parent in the wakeup tree told it of
Reported(t) == IF pc[t] \in {"await", "notify0", "notify1"} THEN left[t] + 1 ELSE left[t]
Opened(t) ==
    IF \/ pc[t] \in {"notify0", "notify1"}
       \/ pc[t] = "await" /\ wakeupSense[t] = sense[t]
    THEN left[t] + 1 ELSE left[t]
Waker(t) == (t - 1) \div 2
Told(t) == IF t = 2 * Waker(t) + 1 /\ pc[Waker(t)] = "notify1"
           THEN left[Waker(t)] + 1 ELSE left[Waker(t)]

\* a child's flag says whether it is a barrier ahead of its parent
ChildInv == \A t \in Team :
    /\ childNotReady[t] \subseteq HaveChild(teamSize, t)
    /\ pc[t] = "rearm" => childNotReady[t] = {}
    /\ pc[t] = "report" => childNotReady[t] = HaveChild(teamSize, t)
    /\ \A c \in HaveChild(teamSize, t) :
           Reported(c) = IF pc[t] = "report" \/ c \notin childNotReady[t]
                         THEN Reported(t) + 1 ELSE Reported(t)

\* no thread is woken before all have reported
OpenInv == \A t, u \in Team : Opened(t) <= Reported(u)

\* two senses agree when the threads have left the same barriers
SenseInv == \A t, u \in Team : sense[t] = sense[u] <=> left[t] = left[u]

\* a thread is told of one barrier at a time, and goes on when it is
WakeupInv == \A t \in Team \ {0} :
    /\ Told(t) \in {left[t], left[t] + 1}
    /\ wakeupSense[t] = sense[t] <=> Told(t) = left[t] + 1
    /\ pc[t] \in {"notify0", "notify1"} => wakeupSense[t] = sense[t]

\* thread 0 waits for nobody, the others are not at the root
RootInv == pc[0] # "await"

IInv == /\ TreeTypeOK /\ BuiltInv /\ InsideInv
        /\ ChildInv /\ OpenInv /\ SenseInv /\ WakeupInv /\ RootInv
=============================================================================
