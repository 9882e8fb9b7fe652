-------------------------------- MODULE NestLock --------------------------------
(***************************************************************************)
(* The nestable lock of the OpenMP run-time: __ompc_init_nest_lock,        *)
(* __ompc_nest_lock, __ompc_nest_unlock and __ompc_test_nest_lock          *)
(* (omp_lock.c:129-135, 146-179, 216-228, 251-277).  `wait` is held for as *)
(* long as the lock is owned, `lock` guards thread_id and count, and the   *)
(* test of a new attempt (line 152) reads these two without it.            *)
(* The mutexes are pthread's; users release only what they own.            *)
(*                                                                         *)
(* Not this lock: __ompc_nest_lock_s (181-214), which nothing in the       *)
(* repository calls.  It takes a pthread mutex at the address of the       *)
(* struct (line 191, by 65-77; the fields are omp_lock.h:51-66), while     *)
(* 197 and 237 test and release the one inside it.                         *)
(***************************************************************************)
EXTENDS Naturals

CONSTANTS
    Thread, NoThread,
    MaxDepth          \* bound: how deep the program nests

ASSUME NestLockAssumption == NoThread \notin Thread /\ MaxDepth \in Nat \ {0}

VARIABLES
    lock,      \* the thread inside the mutex `lock`, or NoThread
    wait,      \* the thread that holds the mutex `wait`, or NoThread
    threadId,  \* thread_id: never cleared
    count,
    pc,        \* where each thread is in an operation
    held,      \* how often each thread has taken the lock, as its program knows
    answer     \* what __ompc_test_nest_lock last returned to each thread

vars == <<lock, wait, threadId, count, pc, held, answer>>

Idle == "idle"

Init == /\ lock = NoThread /\ wait = NoThread
        /\ threadId = NoThread /\ count = 0
        /\ pc = [t \in Thread |-> Idle]
        /\ held = [t \in Thread |-> 0]
        /\ answer = [t \in Thread |-> 0]

At(t, from, to) == pc[t] = from /\ pc' = [pc EXCEPT ![t] = to]

-----------------------------------------------------------------------------
(* __ompc_nest_lock *)

ReadCount(t) ==
    /\ held[t] < MaxDepth
    /\ At(t, Idle, IF count > 0 THEN "readId" ELSE "wait")
    /\ UNCHANGED <<lock, wait, threadId, count, held, answer>>

\* mutant: count > 0 is taken for being the owner
ReadNoId(t) ==
    /\ At(t, "readId", "nested")
    /\ UNCHANGED <<lock, wait, threadId, count, held, answer>>

ReadId(t) ==
    /\ At(t, "readId", IF threadId = t THEN "nested" ELSE "wait")
    /\ UNCHANGED <<lock, wait, threadId, count, held, answer>>

TakeWait(t) ==
    /\ At(t, "wait", "first")
    /\ wait = NoThread
    /\ wait' = t
    /\ UNCHANGED <<lock, threadId, count, held, answer>>

TakeLock(t) ==
    /\ \/ At(t, "nested", "recheck") \/ At(t, "first", "setId")
       \/ At(t, "unlock", "decrement") \/ At(t, "test", "decide")
    /\ lock = NoThread
    /\ lock' = t
    /\ UNCHANGED <<wait, threadId, count, held, answer>>

\* nest = 1: the reads of line 152 are repeated under `lock`; if the lock was
\* released or changed hands since, it is taken again or waited for
Recheck(t) ==
    LET released == count = 0 /\ wait = NoThread
        again == released \/ (count > 0 /\ threadId = t)
    IN /\ At(t, "recheck", IF again THEN "taken" ELSE "wait")
       /\ wait' = IF released THEN t ELSE wait
       /\ threadId' = IF released THEN t ELSE threadId
       /\ count' = IF again THEN count + 1 ELSE count
       /\ lock' = IF again THEN lock ELSE NoThread
       /\ UNCHANGED <<held, answer>>

SetId(t) ==
    /\ At(t, "setId", "setCount")
    /\ threadId' = t
    /\ UNCHANGED <<lock, wait, count, held, answer>>

SetCount(t) ==
    /\ At(t, "setCount", "taken")
    /\ count' = 1
    /\ UNCHANGED <<lock, wait, threadId, held, answer>>

Taken(t) ==
    /\ At(t, "taken", Idle)
    /\ lock' = NoThread
    /\ held' = [held EXCEPT ![t] = @ + 1]
    /\ UNCHANGED <<wait, threadId, count, answer>>

-----------------------------------------------------------------------------
(* __ompc_nest_unlock *)

Unlock(t) ==
    /\ held[t] > 0
    /\ At(t, Idle, "unlock")
    /\ held' = [held EXCEPT ![t] = @ - 1]
    /\ UNCHANGED <<lock, wait, threadId, count, answer>>

\* mutant: every unlock releases `wait`
DecrementAndFree(t) ==
    /\ At(t, "decrement", "free")
    /\ count' = IF count > 0 THEN count - 1 ELSE count
    /\ UNCHANGED <<lock, wait, threadId, held, answer>>

Decrement(t) ==
    /\ At(t, "decrement", IF count = 1 THEN "free" ELSE "done")
    /\ count' = IF count > 0 THEN count - 1 ELSE count
    /\ UNCHANGED <<lock, wait, threadId, held, answer>>

FreeWait(t) ==
    /\ At(t, "free", "done")
    /\ wait' = NoThread
    /\ UNCHANGED <<lock, threadId, count, held, answer>>

Done(t) ==
    /\ At(t, "done", Idle)
    /\ lock' = NoThread
    /\ UNCHANGED <<wait, threadId, count, held, answer>>

-----------------------------------------------------------------------------
(* __ompc_test_nest_lock *)

Test(t) ==
    /\ held[t] < MaxDepth
    /\ At(t, Idle, "test")
    /\ UNCHANGED <<lock, wait, threadId, count, held, answer>>

TestAgain(t) ==
    /\ At(t, "decide", "tested")
    /\ count > 0 /\ threadId = t
    /\ count' = count + 1
    /\ UNCHANGED <<lock, wait, threadId, held, answer>>

TestFirst(t) ==
    /\ At(t, "decide", "setTested")
    /\ count = 0 /\ wait = NoThread
    /\ wait' = t
    /\ threadId' = t
    /\ UNCHANGED <<lock, count, held, answer>>

SetTested(t) ==
    /\ At(t, "setTested", "tested")
    /\ count' = 1
    /\ UNCHANGED <<lock, wait, threadId, held, answer>>

\* mutant: a test whose trylock of `wait` fails is taken for a success
TestFailsLate(t) ==
    /\ At(t, "decide", "tested")
    /\ \/ count > 0 /\ threadId # t
       \/ count = 0 /\ wait # NoThread
    /\ answer' = [answer EXCEPT ![t] = 0]
    /\ UNCHANGED <<lock, wait, threadId, count, held>>

TestFails(t) ==
    /\ At(t, "decide", "done")
    /\ \/ count > 0 /\ threadId # t
       \/ count = 0 /\ wait # NoThread
    /\ answer' = [answer EXCEPT ![t] = 0]
    /\ UNCHANGED <<lock, wait, threadId, count, held>>

TestSucceeds(t) ==
    /\ At(t, "tested", "return")
    /\ lock' = NoThread
    /\ held' = [held EXCEPT ![t] = @ + 1]
    /\ UNCHANGED <<wait, threadId, count, answer>>

\* return lp->count: read after `lock` is released
Return(t) ==
    /\ At(t, "return", Idle)
    /\ answer' = [answer EXCEPT ![t] = count]
    /\ UNCHANGED <<lock, wait, threadId, count, held>>

-----------------------------------------------------------------------------
NestLockOp(t) ==
    \/ ReadCount(t) \/ ReadId(t) \/ TakeWait(t) \/ Recheck(t)
    \/ SetId(t) \/ SetCount(t) \/ Taken(t)

NestUnlockOp(t) == Unlock(t) \/ Decrement(t) \/ FreeWait(t) \/ Done(t)

TestOp(t) == \/ Test(t) \/ TestAgain(t) \/ TestFirst(t) \/ SetTested(t)
             \/ TestFails(t) \/ TestSucceeds(t) \/ Return(t)

Next == \E t \in Thread : \/ TakeLock(t) \/ NestLockOp(t) \/ NestUnlockOp(t)
                          \/ TestOp(t)

Spec == Init /\ [][Next]_vars
=============================================================================
