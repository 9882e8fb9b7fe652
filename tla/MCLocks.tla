-------------------------------- MODULE MCLocks --------------------------------
(***************************************************************************)
(* The locks of the two run-times: the nestable lock, the lock of a        *)
(* critical construct, and the coarray lock on the three communication     *)
(* layers.  They share nothing: `kind` chooses the one that runs, so that  *)
(* TLC checks their behaviours one after the other, not their product.     *)
(***************************************************************************)
EXTENDS NestLockProps, Images, Sequences

VARIABLES kind,
    lck, threadLock, ready, taken, criticalPc,      \* CriticalLock
    layer, tail, req, found, net, imagePc,          \* CoarrayLock
    ahead                                           \* history of CoarrayLockProps

Critical == INSTANCE CriticalLock WITH pc <- criticalPc
CL == INSTANCE CoarrayLockProps WITH pc <- imagePc

criticalVars == <<lck, threadLock, ready, taken, criticalPc>>
coarrayVars == <<layer, tail, req, found, net, imagePc, ahead>>
locksVars == <<kind, vars, criticalVars, coarrayVars>>

LocksInit == /\ kind \in {"nest", "critical", "coarray"}
             /\ kind # "coarray" => layer = "gasnet"
             /\ Init /\ Critical!Init /\ CL!Init /\ CL!NobodyAhead

RunNest(A) == kind = "nest" /\ A /\ UNCHANGED <<kind, criticalVars, coarrayVars>>
RunCritical(A) == kind = "critical" /\ A /\ UNCHANGED <<kind, vars, coarrayVars>>
RunCoarray(A) == /\ kind = "coarray" /\ A /\ CL!KeepOrder
                 /\ UNCHANGED <<kind, layer, vars, criticalVars>>

Progress(i) == RunCoarray(CL!Progress(i))
UnlockImage(i) == RunCoarray(CL!Unlock(i))
Landing == RunCoarray(CL!Landing)

LocksNext == RunNest(Next) \/ RunCritical(Critical!Next) \/ RunCoarray(CL!Next)

\* an image in a lock or unlock statement keeps running, remote writes land, and
\* the program unlocks what it locked
LocksSpec ==
    /\ LocksInit /\ [][LocksNext]_locksVars
    /\ \A i \in Image : WF_locksVars(Progress(i)) /\ WF_locksVars(UnlockImage(i))
    /\ WF_locksVars(Landing)

-----------------------------------------------------------------------------
(* Properties; WaitMeansZero, NestedStaysOwned and ImplementsReentrantLock *)
(* of the nestable lock are those of NestLockProps                         *)

\* omp_lock.c:286-298: no two threads inside a critical construct, although its
\* lock is looked up, and created, by whoever comes first; and no thread takes a
\* lock that is not initialised yet.
OneInside == Critical!OneInside /\ Critical!ReadyWhenUsed

\* lock.c:98-375: one image at most between LOCK and UNLOCK.
MutualExclusion == CL!MutualExclusion

\* lock.c:463-475, 546-551: a lock variable that reads as unlocked belongs to nobody.
EmptyMeansFree == CL!EmptyMeansFree

\* lock.c:158-163, 247-249, 333-347: remote writes land in live requests.
NoStrayWrite == CL!NoStrayWrite

\* lock.c:240-249: a link is whole when its image is seen.
WholeLink == CL!WholeLink

\* lock.c:145-148, 220-249: with compare-and-swap the lock is handed on in the
\* order in which the images have swapped themselves into the lock variable:
\* whoever owns it, or is being granted it, has nobody ahead of it.
InOrder == CL!InOrder

\* lock.c:165-168, 232-249: with compare-and-swap every request is granted.
Granting == CL!Granting

\* lock.c:301-347: without it, some image always gets the lock.
NoneStuck == CL!NoneStuck
=============================================================================
