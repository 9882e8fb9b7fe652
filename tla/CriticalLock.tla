------------------------------ MODULE CriticalLock ------------------------------
(***************************************************************************)
(* The lock of a critical construct or a reduction (omp_lock.c:282-344).   *)
(* The first thread that comes to the construct creates it, under          *)
(* _ompc_thread_lock, after a test without that lock.  A lock is named     *)
(* after the thread that made it.                                          *)
(***************************************************************************)
EXTENDS Naturals

CONSTANTS Thread, NoThread

VARIABLES
    lck,         \* the construct's lock pointer: a lock, or NoThread for NULL
    threadLock,  \* who is inside _ompc_thread_lock
    ready,       \* the locks __ompc_init_lock has initialised
    taken,       \* taken[l]: the thread that holds lock l
    pc

vars == <<lck, threadLock, ready, taken, pc>>

Init == /\ lck = NoThread /\ threadLock = NoThread
        /\ ready = {}
        /\ taken = [l \in Thread |-> NoThread]
        /\ pc = [t \in Thread |-> "outside"]

At(t, from, to) == pc[t] = from /\ pc' = [pc EXCEPT ![t] = to]

\* line 286: the test without the lock
Arrive(t) ==
    /\ At(t, "outside", IF lck = NoThread THEN "create" ELSE "enter")
    /\ UNCHANGED <<lck, threadLock, ready, taken>>

\* mutant: no second test under the lock
CreateAlways(t) ==
    /\ At(t, "create", "init")
    /\ threadLock = NoThread
    /\ threadLock' = t
    /\ UNCHANGED <<lck, ready, taken>>

\* lines 287-288: the test again, under the lock
Recheck(t) ==
    /\ At(t, "create", IF lck = NoThread THEN "init" ELSE "created")
    /\ threadLock = NoThread
    /\ threadLock' = t
    /\ UNCHANGED <<lck, ready, taken>>

\* mutant: the pointer is set before the lock is initialised
PublishFirst(t) ==
    /\ At(t, "init", "publish")
    /\ lck' = t
    /\ UNCHANGED <<threadLock, ready, taken>>

InitLock(t) ==
    /\ At(t, "init", "publish")
    /\ ready' = ready \cup {t}
    /\ UNCHANGED <<lck, threadLock, taken>>

Publish(t) ==
    /\ At(t, "publish", "created")
    /\ lck' = t
    /\ UNCHANGED <<threadLock, ready, taken>>

Created(t) ==
    /\ At(t, "created", "enter")
    /\ threadLock' = NoThread
    /\ UNCHANGED <<lck, ready, taken>>

\* __ompc_test_lock, or __ompc_lock after a failed test
Enter(t) ==
    /\ At(t, "enter", "inside")
    /\ taken[lck] = NoThread
    /\ taken' = [taken EXCEPT ![lck] = t]
    /\ UNCHANGED <<lck, threadLock, ready>>

\* __ompc_end_critical, __ompc_end_reduction
Leave(t) ==
    /\ At(t, "inside", "outside")
    /\ taken' = [taken EXCEPT ![lck] = NoThread]
    /\ UNCHANGED <<lck, threadLock, ready>>

Next == \E t \in Thread :
    \/ Arrive(t) \/ Recheck(t) \/ InitLock(t) \/ Publish(t) \/ Created(t)
    \/ Enter(t) \/ Leave(t)

-----------------------------------------------------------------------------
\* omp_lock.c:286-298: although the lock is looked up without a lock, two threads
\* are never inside the construct at once.
OneInside ==
    \A t, u \in Thread : pc[t] = "inside" /\ pc[u] = "inside" => t = u

\* omp_lock.c:294-295: no thread takes a lock that is not initialised yet.
ReadyWhenUsed == \A t \in Thread : pc[t] \in {"enter", "inside"} => lck \in ready

TypeOK ==
    /\ lck \in Thread \cup {NoThread} /\ threadLock \in Thread \cup {NoThread}
    /\ ready \subseteq Thread
    /\ taken \in [Thread -> Thread \cup {NoThread}]
    /\ pc \in [Thread -> {"outside", "create", "init", "publish", "created", "enter",
                         "inside"}]

\* the pointer is set once, by the thread inside _ompc_thread_lock, to a lock that
\* is ready
LockMade == /\ lck # NoThread => lck \in ready
            /\ \A t \in Thread :
                 /\ pc[t] \in {"init", "publish", "created"} <=> threadLock = t
                 /\ pc[t] \in {"init", "publish"} => lck = NoThread
                 /\ pc[t] = "publish" => t \in ready
                 /\ pc[t] \in {"created", "enter", "inside"} => lck # NoThread

\* who is inside holds the lock the pointer shows, and no other lock is held
HolderInside == \A t \in Thread :
    /\ pc[t] = "inside" => taken[lck] = t
    /\ taken[t] # NoThread => lck = t /\ pc[taken[t]] = "inside"

IInv == TypeOK /\ LockMade /\ HolderInside
=============================================================================
