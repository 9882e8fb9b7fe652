----------------------------- MODULE NestLockProps -----------------------------
(***************************************************************************)
(* The properties of NestLock, the invariant that carries their proofs,    *)
(* and the lock it implements.                                             *)
(***************************************************************************)
EXTENDS NestLock

Pc == {Idle, "readId", "wait", "nested", "first", "recheck", "setId",
       "setCount", "taken", "unlock", "decrement", "free", "done", "test",
       "decide", "setTested", "tested", "return"}

\* between them, the steps taken with `lock` held
Inside == {"recheck", "setId", "setCount", "taken", "decrement", "free", "done",
           "decide", "setTested", "tested"}

TypeOK == /\ lock \in Thread \cup {NoThread}
          /\ wait \in Thread \cup {NoThread}
          /\ threadId \in Thread \cup {NoThread}
          /\ count \in Nat
          /\ pc \in [Thread -> Pc]
          /\ held \in [Thread -> Nat]
          /\ answer \in [Thread -> Nat]

\* the takes of the owner that its program does not know of yet, or has
\* already given back
Pending(t) == IF pc[t] \in {"taken", "unlock", "decrement", "tested"} THEN 1 ELSE 0

\* `lock` is held exactly inside the sections it guards
LockInv == \A t \in Thread : pc[t] \in Inside <=> lock = t

\* a thread that does not hold `wait` owns nothing, and only the holder of
\* `wait` is where an owner is
WaitInv == \A t \in Thread :
    wait # t => /\ held[t] = 0
                /\ pc[t] \in {Idle, "readId", "wait",
                             "done", "test", "decide"}
                /\ pc[t] = "readId" => threadId # t

\* the count is what the owner's program holds, but while the owner is
\* between its two mutexes
OwnerInv == \A t \in Thread :
    wait = t =>
        /\ count = IF pc[t] \in {"first", "setId", "setCount", "setTested", "free"}
                     THEN 0 ELSE held[t] + Pending(t)
        /\ pc[t] \in {"first", "setId", "setCount", "setTested", "free"} =>
             held[t] = 0
        /\ pc[t] \notin {"first", "setId", "setCount", "setTested", "free"} =>
             held[t] + Pending(t) > 0
        /\ pc[t] \notin {"wait", "first", "setId"} => threadId = t
        /\ pc[t] # "wait"

FreeInv == wait = NoThread => count = 0

IInv == TypeOK /\ LockInv /\ WaitInv /\ OwnerInv /\ FreeInv

-----------------------------------------------------------------------------
\* omp_lock.c:174, "get the 'wait' lock. Assert:( lp->count == 0 )": whoever
\* gets `wait` finds the count zero.
WaitMeansZero == \A t \in Thread : pc[t] \in {"first", "setId"} => count = 0

\* omp_lock.c:160-173: an owner that takes the lock again finds it still its
\* own, so a nested attempt never falls back to waiting.
NestedStaysOwned ==
    \A t \in Thread : pc[t] \in {"nested", "recheck"} => count > 0 /\ threadId = t

-----------------------------------------------------------------------------
\* The lock as its users see it: taken when `wait` is, free when `wait` is.
Depth == CASE wait = NoThread -> 0
           [] wait # NoThread ->
                IF pc[wait] \in {"first", "setId", "setCount", "setTested", "free"}
                  THEN 1 ELSE count

RL == INSTANCE ReentrantLock WITH owner <- wait, depth <- Depth

\* omp_lock.c:146-179, 216-228, 251-277: the two mutexes, the thread id and the
\* count are a reentrant lock; a test fails only while another thread owns it and
\* reports the depth it reached, although it reads the count without the mutex.
ImplementsReentrantLock == RL!Spec
=============================================================================
