------------------------------ MODULE LocksProofs ------------------------------
(***************************************************************************)
(* The locks of MCLocks, for any number of threads and images: who owns    *)
(* them, and where the remote writes of the coarray lock land.             *)
(***************************************************************************)
EXTENDS MCLocks, TLAPS

\* Whichever of the three moves, each of them makes a step of its own or none.
LEMMA EachAlone ==
  [LocksNext]_locksVars => /\ [Next]_vars
                           /\ [Critical!Next]_(Critical!vars)
                           /\ [CL!Next]_(CL!vars)
                           /\ [CL!Next /\ CL!KeepOrder]_<<CL!vars, ahead>>
  BY DEF LocksNext, RunNest, RunCritical, RunCoarray, locksVars, criticalVars,
         coarrayVars,
         Critical!vars, CL!vars, CL!Next

-----------------------------------------------------------------------------
(* The nestable lock *)

USE NestLockAssumption DEF Idle

LEMMA NestInit == Init => IInv
  BY DEF Init, IInv, TypeOK, Pc, LockInv, Inside, WaitInv, OwnerInv, FreeInv

\* Every step keeps the invariant: one step per action of the code.
LEMMA NestStep == IInv /\ [Next]_vars => IInv'
  <1> SUFFICES ASSUME IInv, [Next]_vars PROVE IInv'
    OBVIOUS
  <1> USE DEF IInv, TypeOK, Pc, LockInv, Inside, WaitInv, OwnerInv, FreeInv, Pending,
              At
  <1>1. ASSUME NEW t \in Thread, TakeLock(t) PROVE IInv'
    BY <1>1 DEF TakeLock
  <1>2. ASSUME NEW t \in Thread, ReadCount(t) PROVE IInv'
    BY <1>2 DEF ReadCount
  <1>3. ASSUME NEW t \in Thread, ReadId(t) PROVE IInv'
    BY <1>3 DEF ReadId
  <1>4. ASSUME NEW t \in Thread, TakeWait(t) PROVE IInv'
    BY <1>4 DEF TakeWait
  <1>5. ASSUME NEW t \in Thread, Recheck(t) PROVE IInv'
    BY <1>5 DEF Recheck
  <1>6. ASSUME NEW t \in Thread, SetId(t) PROVE IInv'
    BY <1>6 DEF SetId
  <1>7. ASSUME NEW t \in Thread, SetCount(t) PROVE IInv'
    BY <1>7 DEF SetCount
  <1>8. ASSUME NEW t \in Thread, Taken(t) PROVE IInv'
    BY <1>8 DEF Taken
  <1>9. ASSUME NEW t \in Thread, Unlock(t) PROVE IInv'
    BY <1>9 DEF Unlock
  <1>10. ASSUME NEW t \in Thread, Decrement(t) PROVE IInv'
    BY <1>10 DEF Decrement
  <1>11. ASSUME NEW t \in Thread, FreeWait(t) PROVE IInv'
    BY <1>11 DEF FreeWait
  <1>12. ASSUME NEW t \in Thread, Done(t) PROVE IInv'
    BY <1>12 DEF Done
  <1>13. ASSUME NEW t \in Thread, Test(t) PROVE IInv'
    BY <1>13 DEF Test
  <1>14. ASSUME NEW t \in Thread, TestAgain(t) PROVE IInv'
    BY <1>14 DEF TestAgain
  <1>15. ASSUME NEW t \in Thread, TestFirst(t) PROVE IInv'
    BY <1>15 DEF TestFirst
  <1>16. ASSUME NEW t \in Thread, SetTested(t) PROVE IInv'
    BY <1>16 DEF SetTested
  <1>17. ASSUME NEW t \in Thread, TestFails(t) PROVE IInv'
    BY <1>17 DEF TestFails
  <1>18. ASSUME NEW t \in Thread, TestSucceeds(t) PROVE IInv'
    BY <1>18 DEF TestSucceeds
  <1>19. ASSUME NEW t \in Thread, Return(t) PROVE IInv'
    BY <1>19 DEF Return
  <1>20. CASE UNCHANGED vars
    BY <1>20 DEF vars
  <1> HIDE DEF IInv
  <1> QED
    BY <1>1, <1>2, <1>3, <1>4, <1>5, <1>6, <1>7, <1>8, <1>9, <1>10, <1>11, <1>12,
       <1>13, <1>14, <1>15, <1>16, <1>17, <1>18, <1>19, <1>20
       DEF Next, NestLockOp, NestUnlockOp, TestOp

LEMMA NestInvariance == LocksSpec => []IInv
  <1>1. LocksInit => IInv
    BY NestInit DEF LocksInit
  <1> QED BY <1>1, EachAlone, NestStep, PTL DEF LocksSpec

\* The invariant gives both properties.
LEMMA NestImplies == IInv => WaitMeansZero /\ NestedStaysOwned
  BY DEF IInv, TypeOK, LockInv, WaitInv, OwnerInv, FreeInv, Pending,
         WaitMeansZero, NestedStaysOwned, Pc

\* omp_lock.c:174: the assertion its comment makes holds.
THEOREM AssertionHolds == LocksSpec => []WaitMeansZero
  BY NestInvariance, NestImplies, PTL

\* omp_lock.c:160-173: the owner never loses the lock between the unlocked test
\* and the check under `lock`.
THEOREM NestedStaysOwnedHolds == LocksSpec => []NestedStaysOwned
  BY NestInvariance, NestImplies, PTL
-----------------------------------------------------------------------------
(* The refinement *)

LEMMA InitRefines == Init => RL!Init
  BY DEF Init, RL!Init, Depth

\* Every step is a step of the abstract lock or leaves it alone: the lock is
\* taken with `wait`, given back with `wait`, and counted in between.
LEMMA StepRefines == IInv /\ [Next]_vars => [RL!Next]_(RL!vars)
  <1> SUFFICES ASSUME IInv, [Next]_vars PROVE [RL!Next]_(RL!vars)
    OBVIOUS
  <1> USE DEF IInv, TypeOK, Pc, LockInv, Inside, WaitInv, OwnerInv, FreeInv, Pending,
              At, Depth, RL!vars
  <1>1. ASSUME NEW t \in Thread, TakeLock(t) PROVE UNCHANGED RL!vars
    BY <1>1 DEF TakeLock
  <1>2. ASSUME NEW t \in Thread, ReadCount(t) \/ ReadId(t) \/ SetId(t) \/ Taken(t)
        PROVE UNCHANGED RL!vars
    BY <1>2 DEF ReadCount, ReadId, SetId, Taken
  <1>3. ASSUME NEW t \in Thread, SetCount(t) \/ SetTested(t) PROVE UNCHANGED RL!vars
    BY <1>3 DEF SetCount, SetTested
  <1>4. ASSUME NEW t \in Thread, Unlock(t) \/ Done(t) \/ Test(t) \/ TestSucceeds(t)
        PROVE UNCHANGED RL!vars
    BY <1>4 DEF Unlock, Done, Test, TestSucceeds
  <1>5. ASSUME NEW t \in Thread, TakeWait(t) PROVE RL!Take(t)
    BY <1>5 DEF TakeWait, RL!Take
  <1>6. ASSUME NEW t \in Thread, Recheck(t) PROVE RL!TakeAgain(t)
    BY <1>6 DEF Recheck, RL!TakeAgain
  <1>7. ASSUME NEW t \in Thread, Decrement(t)
        PROVE RL!Release(t) \/ UNCHANGED RL!vars
    BY <1>7 DEF Decrement, RL!Release
  <1>8. ASSUME NEW t \in Thread, FreeWait(t) PROVE RL!Free(t)
    BY <1>8 DEF FreeWait, RL!Free
  <1>9. ASSUME NEW t \in Thread, TestAgain(t) PROVE RL!TakeAgain(t)
    BY <1>9 DEF TestAgain, RL!TakeAgain
  <1>10. ASSUME NEW t \in Thread, TestFirst(t) PROVE RL!Take(t)
    BY <1>10 DEF TestFirst, RL!Take
  <1>11. ASSUME NEW t \in Thread, TestFails(t) PROVE RL!Refuse(t)
    BY <1>11 DEF TestFails, RL!Refuse
  <1>12. ASSUME NEW t \in Thread, Return(t) PROVE RL!Report(t)
    BY <1>12 DEF Return, RL!Report
  <1>13. CASE UNCHANGED vars
    BY <1>13 DEF vars
  <1> HIDE DEF IInv, RL!vars
  <1> QED
    BY <1>1, <1>2, <1>3, <1>4, <1>5, <1>6, <1>7, <1>8, <1>9, <1>10, <1>11, <1>12,
       <1>13
       DEF Next, NestLockOp, NestUnlockOp, TestOp, RL!Next

\* omp_lock.c:146-179, 216-228, 251-277: for every number of threads and every depth,
\* __ompc_nest_lock, __ompc_nest_unlock and __ompc_test_nest_lock implement the
\* reentrant lock their users see.
THEOREM Refinement == LocksSpec => ImplementsReentrantLock
  <1>1. LocksInit => RL!Init
    BY InitRefines DEF LocksInit
  <1>2. LocksSpec => RL!Init /\ [][RL!Next]_(RL!vars)
    BY <1>1, EachAlone, StepRefines, NestInvariance, PTL DEF LocksSpec
  <1> QED
    BY <1>2, PTL DEF ImplementsReentrantLock, RL!Spec

-----------------------------------------------------------------------------
(* The lock of a critical construct *)

LEMMA CriticalInit == Critical!Init => Critical!IInv
  BY DEF Critical!Init, Critical!IInv, Critical!TypeOK, Critical!LockMade,
         Critical!HolderInside

LEMMA CriticalStep == Critical!IInv /\ [Critical!Next]_(Critical!vars) => Critical!IInv'
  <1> SUFFICES ASSUME Critical!IInv, [Critical!Next]_(Critical!vars)
               PROVE  Critical!IInv'
    OBVIOUS
  <1> USE DEF Critical!IInv, Critical!TypeOK, Critical!LockMade, Critical!HolderInside,
              Critical!At
  <1>1. ASSUME NEW t \in Thread, Critical!Arrive(t) PROVE Critical!IInv'
    BY <1>1 DEF Critical!Arrive
  <1>2. ASSUME NEW t \in Thread, Critical!Recheck(t) PROVE Critical!IInv'
    BY <1>2 DEF Critical!Recheck
  <1>3. ASSUME NEW t \in Thread, Critical!InitLock(t) PROVE Critical!IInv'
    BY <1>3 DEF Critical!InitLock
  <1>4. ASSUME NEW t \in Thread, Critical!Publish(t) PROVE Critical!IInv'
    BY <1>4 DEF Critical!Publish
  <1>5. ASSUME NEW t \in Thread, Critical!Created(t) PROVE Critical!IInv'
    BY <1>5 DEF Critical!Created
  <1>6. ASSUME NEW t \in Thread, Critical!Enter(t) PROVE Critical!IInv'
    BY <1>6 DEF Critical!Enter
  <1>7. ASSUME NEW t \in Thread, Critical!Leave(t) PROVE Critical!IInv'
    BY <1>7 DEF Critical!Leave
  <1>8. CASE UNCHANGED Critical!vars
    BY <1>8 DEF Critical!vars
  <1> HIDE DEF Critical!IInv
  <1> QED
    BY <1>1, <1>2, <1>3, <1>4, <1>5, <1>6, <1>7, <1>8 DEF Critical!Next

\* omp_lock.c:282-344: for every number of threads, one thread at most is inside a
\* critical construct, whoever created its lock, and that lock is initialised.
THEOREM OneInsideHolds == LocksSpec => []OneInside
  <1>1. LocksInit => Critical!IInv
    BY CriticalInit DEF LocksInit
  <1>2. Critical!IInv => OneInside
    BY DEF Critical!IInv, Critical!TypeOK, Critical!LockMade, Critical!HolderInside,
           OneInside, Critical!OneInside, Critical!ReadyWhenUsed
  <1> QED
    BY <1>1, <1>2, EachAlone, CriticalStep, PTL DEF LocksSpec

-----------------------------------------------------------------------------
(* The coarray lock, a token: whoever owns it, a grant under way, or the   *)
(* empty lock variable has it, never two                                   *)

LEMMA CoarrayInit == CL!Init => CL!IInv
  BY ImagesAssumption
     DEF CL!Init, CL!IInv, CL!TypeOK, CL!Pc, CL!NewRequest,
         CL!OneOwner, CL!EmptyMeansFree, CL!Grants, CL!Owns,
         CL!HasVictims

\* The words of a link are no grant, nor is what is left of them.
LEMMA LinkIsNoGrant ==
  ASSUME NEW to, NEW image \in Image \cup {NoImage}, NEW ofst \in Image \cup {NoImage},
         NEW done \in {0, 1}, NEW m \in CL!LinkWrites(to, image, ofst, done)
  PROVE  /\ m = [to |-> m.to, words |-> m.words]
         /\ m.words \in Seq(CL!LinkWord) /\ m.words # <<>>
         /\ m # CL!Grant(m.to)
  <1> DEFINE a == [field |-> "image", value |-> image]
             b == [field |-> "ofst", value |-> ofst]
             c == [field |-> "done", value |-> done]
  <1>1. a \in CL!LinkWord /\ b \in CL!LinkWord /\ c \in CL!LinkWord
    BY DEF CL!LinkWord
  <1>2. \/ m = [to |-> to, words |-> <<a, b, c>>]
        \/ m = [to |-> to, words |-> <<c, b, a>>]
    BY DEF CL!LinkWrites, CL!Word
  <1>3. PICK x \in CL!LinkWord, y \in CL!LinkWord, z \in CL!LinkWord :
          m = [to |-> to, words |-> <<x, y, z>>]
    BY <1>1, <1>2
  <1> HIDE DEF a, b, c, CL!LinkWord
  <1>4. /\ m.words = <<x, y, z>> /\ m.to = to
        /\ <<x, y, z>> \in Seq(CL!LinkWord)
        /\ <<x, y, z>> # <<>>
        /\ <<x, y, z>> # <<CL!Word("locked", 0)>>
    BY <1>3
  <1> QED
    BY <1>3, <1>4 DEF CL!Grant

\* A word laid down in a request leaves it a request, and its other words alone.
LEMMA WordLands ==
  ASSUME CL!TypeOK, NEW to, NEW w \in CL!LinkWord \cup {CL!Word("locked", 0)},
         req' = [req EXCEPT ![to][w.field] = w.value]
  PROVE  /\ req' \in [Image -> [locked : {0, 1}, image : Image \cup {NoImage},
                               ofst : Image \cup {NoImage}, done : {0, 1}]]
         /\ \A j \in Image : j # to \/ w \in CL!LinkWord => req'[j].locked = req[j].locked
  <1> DEFINE R == [locked : {0, 1}, image : Image \cup {NoImage},
                   ofst : Image \cup {NoImage}, done : {0, 1}]
  <1>1. ASSUME NEW r \in R PROVE [r EXCEPT ![w.field] = w.value] \in R
    <2>1. CASE w.field = "locked"
      <3>1. w.value = 0
        BY <2>1 DEF CL!LinkWord, CL!Word
      <3>2. [r EXCEPT ![w.field] = w.value] = [r EXCEPT !.locked = 0]
        BY <2>1, <3>1
      <3> QED BY <1>1, <3>2
    <2>2. CASE w.field = "image"
      <3>1. w.value \in Image \cup {NoImage}
        BY <2>2 DEF CL!LinkWord, CL!Word
      <3>2. [r EXCEPT ![w.field] = w.value] = [r EXCEPT !.image = w.value]
        BY <2>2
      <3> QED BY <1>1, <3>1, <3>2
    <2>3. CASE w.field = "ofst"
      <3>1. w.value \in Image \cup {NoImage}
        BY <2>3 DEF CL!LinkWord, CL!Word
      <3>2. [r EXCEPT ![w.field] = w.value] = [r EXCEPT !.ofst = w.value]
        BY <2>3
      <3> QED BY <1>1, <3>1, <3>2
    <2>4. CASE w.field = "done"
      <3>1. w.value \in {0, 1}
        BY <2>4 DEF CL!LinkWord, CL!Word
      <3>2. [r EXCEPT ![w.field] = w.value] = [r EXCEPT !.done = w.value]
        BY <2>4
      <3> QED BY <1>1, <3>1, <3>2
    <2> QED BY <2>1, <2>2, <2>3, <2>4 DEF CL!LinkWord, CL!Word
  <1>2. req \in [Image -> R]
    BY DEF CL!TypeOK
  <1> HIDE DEF R
  <1>3. req' = [j \in Image |-> IF j = to THEN [req[j] EXCEPT ![w.field] = w.value]
                                         ELSE req[j]]
    BY <1>2
  <1>4. req' \in [Image -> R]
    BY <1>1, <1>2, <1>3
  <1>5. ASSUME NEW j \in Image, j # to \/ w \in CL!LinkWord
        PROVE  req'[j].locked = req[j].locked
    <2>1. CASE j # to
      BY <1>3, <2>1
    <2>2. CASE w \in CL!LinkWord
      <3>1. w.field # "locked"
        BY <2>2 DEF CL!LinkWord
      <3>2. req[j] \in R
        BY <1>2
      <3>3. [req[j] EXCEPT ![w.field] = w.value].locked = req[j].locked
        BY <3>1, <3>2 DEF R
      <3> QED BY <1>3, <3>3
    <2> QED BY <1>5, <2>1, <2>2
  <1> QED
    BY <1>4, <1>5 DEF R

LEMMA RestOfLink ==
  ASSUME NEW s \in Seq(CL!LinkWord), s # <<>>
  PROVE  /\ Head(s) \in CL!LinkWord
         /\ Tail(s) \in Seq(CL!LinkWord)
         /\ s # <<CL!Word("locked", 0)>>
  BY DEF CL!LinkWord, CL!Word

\* A step that keeps owners and grants, or makes fewer, and does not empty the
\* lock variable keeps the token in one place.
LEMMA NoNewOwner ==
  ASSUME CL!IInv, CL!Grants' \subseteq CL!Grants, \A i \in Image : CL!Owns(i)' => CL!Owns(i),
         tail' = NoImage => tail = NoImage
  PROVE  CL!OneOwner' /\ CL!EmptyMeansFree'
  BY DEF CL!IInv, CL!OneOwner, CL!EmptyMeansFree

LEMMA CoarrayStep == CL!IInv /\ [CL!Next]_(CL!vars) => CL!IInv'
  <1> SUFFICES ASSUME CL!IInv, [CL!Next]_(CL!vars) PROVE CL!IInv'
    OBVIOUS
  <1> USE ImagesAssumption
  <1>1. ASSUME NEW i \in Image, CL!Lock(i) PROVE CL!IInv'
    <2>1. CL!TypeOK' /\ CL!HasVictims'
      BY <1>1 DEF CL!IInv, CL!TypeOK, CL!HasVictims, CL!Lock,
                  CL!At, CL!Pc, CL!NewRequest
    <2>2. CL!Grants' = CL!Grants /\ \A j \in Image : CL!Owns(j)' => CL!Owns(j)
      BY <1>1 DEF CL!IInv, CL!TypeOK, CL!Lock, CL!At,
                  CL!NewRequest, CL!Grants, CL!Owns
    <2> QED BY <1>1, <2>1, <2>2, NoNewOwner DEF CL!IInv, CL!Lock
  <1>2. ASSUME NEW i \in Image, CL!TryLock(i) PROVE CL!IInv'
    <2>1. CL!TypeOK' /\ CL!HasVictims'
      BY <1>2 DEF CL!IInv, CL!TypeOK, CL!HasVictims, CL!TryLock,
                  CL!At, CL!Pc, CL!NewRequest
    <2>2. CL!Grants' = CL!Grants
      BY <1>2 DEF CL!TryLock, CL!Grants
    <2>3. CASE imagePc'[i] = "held"
      <3>1. tail = NoImage /\ tail' = i
        BY <1>2, <2>3 DEF CL!IInv, CL!TypeOK, CL!TryLock, CL!At
      <3>2. \A j \in Image : CL!Owns(j)' => j = i
        BY <1>2, <3>1 DEF CL!IInv, CL!TypeOK, CL!EmptyMeansFree,
                          CL!TryLock, CL!At, CL!Owns, CL!NewRequest
      <3> QED BY <2>1, <2>2, <3>1, <3>2 DEF CL!IInv, CL!OneOwner,
                                            CL!EmptyMeansFree
    <2>4. CASE imagePc'[i] # "held"
      <3>1. tail' = tail /\ \A j \in Image : CL!Owns(j)' => CL!Owns(j)
        BY <1>2, <2>4 DEF CL!IInv, CL!TypeOK, CL!TryLock, CL!At,
                          CL!Owns, CL!NewRequest
      <3> QED BY <2>1, <2>2, <3>1, NoNewOwner DEF CL!IInv
    <2> QED BY <2>3, <2>4
  <1>3. ASSUME NEW i \in Image, CL!Enqueue(i) PROVE CL!IInv'
    <2>1. CL!TypeOK' /\ CL!HasVictims'
      BY <1>3 DEF CL!IInv, CL!TypeOK, CL!HasVictims, CL!Enqueue,
                  CL!At, CL!Pc
    <2>2. CL!Grants' = CL!Grants /\ tail' = i
      BY <1>3 DEF CL!Enqueue, CL!Grants
    <2>3. CASE tail = NoImage
      <3>1. \A j \in Image : CL!Owns(j)' => j = i
        BY <1>3, <2>3 DEF CL!IInv, CL!TypeOK, CL!EmptyMeansFree,
                          CL!Enqueue, CL!At, CL!Owns
      <3> QED BY <2>1, <2>2, <2>3, <3>1 DEF CL!IInv, CL!OneOwner,
                                            CL!EmptyMeansFree
    <2>4. CASE tail # NoImage
      <3>1. \A j \in Image : CL!Owns(j)' => CL!Owns(j)
        BY <1>3, <2>4 DEF CL!IInv, CL!TypeOK, CL!Enqueue, CL!At,
                          CL!Owns
      <3> QED BY <2>1, <2>2, <3>1, NoNewOwner DEF CL!IInv
    <2> QED BY <2>3, <2>4
  <1>4. ASSUME NEW i \in Image, CL!Link(i) PROVE CL!IInv'
    <2>1. PICK m \in CL!LinkWrites(found[i], i, i, 1) : net' = net \cup {m}
      BY <1>4 DEF CL!Link
    <2>2. /\ m = [to |-> m.to, words |-> m.words]
          /\ m.words \in Seq(CL!LinkWord) /\ m.words # <<>>
          /\ m # CL!Grant(m.to)
      BY <2>1, LinkIsNoGrant
    <2>3. CL!TypeOK' /\ CL!HasVictims'
      BY <1>4, <2>1, <2>2 DEF CL!IInv, CL!TypeOK, CL!HasVictims,
                              CL!Link, CL!At, CL!Pc
    <2>4. CL!Grants' = CL!Grants
      BY <2>1, <2>2 DEF CL!Grants
    <2>5. tail' = tail /\ \A j \in Image : CL!Owns(j)' => CL!Owns(j)
      BY <1>4 DEF CL!IInv, CL!TypeOK, CL!Link, CL!At, CL!Owns
    <2> QED BY <2>3, <2>4, <2>5, NoNewOwner DEF CL!IInv
  <1>5. ASSUME NEW i \in Image, CL!Granted(i) PROVE CL!IInv'
    <2>1. CL!TypeOK' /\ CL!HasVictims'
      BY <1>5 DEF CL!IInv, CL!TypeOK, CL!HasVictims, CL!Granted,
                  CL!At, CL!Pc
    <2>2. /\ CL!Grants' = CL!Grants /\ tail' = tail
          /\ \A j \in Image : CL!Owns(j)' => CL!Owns(j)
      BY <1>5 DEF CL!IInv, CL!TypeOK, CL!Granted, CL!At,
                  CL!Grants, CL!Owns
    <2> QED BY <2>1, <2>2, NoNewOwner DEF CL!IInv
  <1>6. ASSUME NEW i \in Image, CL!Unlock(i) PROVE CL!IInv'
    <2>1. CL!TypeOK' /\ CL!HasVictims'
      BY <1>6 DEF CL!IInv, CL!TypeOK, CL!HasVictims, CL!Unlock,
                  CL!At, CL!Pc
    <2>2. /\ CL!Grants' = CL!Grants /\ tail' = tail
          /\ \A j \in Image : CL!Owns(j)' => CL!Owns(j)
      BY <1>6 DEF CL!IInv, CL!TypeOK, CL!Unlock, CL!At,
                  CL!Grants, CL!Owns
    <2> QED BY <2>1, <2>2, NoNewOwner DEF CL!IInv
  <1>7. ASSUME NEW i \in Image, CL!Release(i) \/ CL!TakeOut(i) PROVE CL!IInv'
    <2>1. CL!TypeOK' /\ CL!HasVictims'
      BY <1>7 DEF CL!IInv, CL!TypeOK, CL!HasVictims,
                  CL!EmptyMeansFree, CL!Owns, CL!Release,
                  CL!TakeOut,
                  CL!FreeRequest, CL!NewRequest, CL!At, CL!Pc
    <2>2. CL!Owns(i) /\ ~CL!Owns(i)'
      BY <1>7 DEF CL!IInv, CL!TypeOK, CL!Release, CL!TakeOut,
                  CL!FreeRequest, CL!NewRequest, CL!At, CL!Owns
    <2>3. CL!Grants' = CL!Grants /\ \A j \in Image : CL!Owns(j)' => CL!Owns(j)
      BY <1>7, <2>2 DEF CL!IInv, CL!TypeOK, CL!Release, CL!TakeOut,
                        CL!FreeRequest, CL!NewRequest, CL!At,
                        CL!Owns, CL!Grants
    <2> QED BY <2>1, <2>2, <2>3 DEF CL!IInv, CL!OneOwner,
                                    CL!EmptyMeansFree
  <1>8. ASSUME NEW i \in Image, CL!KeepTail(i) PROVE CL!IInv'
    <2>1. CL!TypeOK' /\ CL!HasVictims'
      BY <1>8 DEF CL!IInv, CL!TypeOK, CL!HasVictims, CL!KeepTail,
                  CL!At, CL!Pc
    <2>2. /\ CL!Grants' = CL!Grants /\ tail' = tail
          /\ \A j \in Image : CL!Owns(j)' => CL!Owns(j)
      BY <1>8 DEF CL!IInv, CL!TypeOK, CL!KeepTail, CL!At,
                  CL!Grants, CL!Owns
    <2> QED BY <2>1, <2>2, NoNewOwner DEF CL!IInv
  <1>9. ASSUME NEW i \in Image, CL!PutBack(i) PROVE CL!IInv'
    <2>1. CL!TypeOK' /\ CL!HasVictims'
      BY <1>9 DEF CL!IInv, CL!TypeOK, CL!HasVictims, CL!PutBack,
                  CL!At, CL!Pc
    <2>2. CL!Grants' = CL!Grants /\ tail' # NoImage
      BY <1>9 DEF CL!IInv, CL!HasVictims, CL!PutBack, CL!Grants,
                  CL!At
    <2>3. CASE tail = NoImage
      <3>1. \A j \in Image : CL!Owns(j)' => j = i
        BY <1>9, <2>3 DEF CL!IInv, CL!TypeOK, CL!EmptyMeansFree,
                          CL!PutBack, CL!At, CL!Owns
      <3>2. CL!Grants' = {}
        BY <2>2, <2>3 DEF CL!IInv, CL!EmptyMeansFree
      <3> QED BY <2>1, <2>2, <3>1, <3>2 DEF CL!IInv, CL!OneOwner,
                                            CL!EmptyMeansFree
    <2>4. CASE tail # NoImage
      <3>1. \A j \in Image : CL!Owns(j)' => CL!Owns(j)
        BY <1>9, <2>4 DEF CL!IInv, CL!TypeOK, CL!PutBack, CL!At,
                          CL!Owns
      <3> QED BY <2>1, <2>2, <2>4, <3>1, NoNewOwner DEF CL!IInv
    <2> QED BY <2>3, <2>4
  <1>10. ASSUME NEW i \in Image, CL!PassOn(i), found[i] = NoImage PROVE CL!IInv'
    <2>1. CL!TypeOK' /\ CL!HasVictims'
      BY <1>10 DEF CL!IInv, CL!TypeOK, CL!HasVictims, CL!PassOn,
                   CL!FreeRequest, CL!NewRequest, CL!At, CL!Pc,
                   CL!Grant
    <2>2. /\ CL!Owns(i) /\ ~CL!Owns(i)'
          /\ \A j \in Image : CL!Owns(j)' => CL!Owns(j)
      BY <1>10 DEF CL!IInv, CL!TypeOK, CL!PassOn, CL!FreeRequest,
                   CL!NewRequest, CL!At, CL!Owns
    <2>3. CL!Grants = {} /\ CL!Grants' \subseteq {CL!Grant(req[i].ofst)}
      BY <1>10, <2>2 DEF CL!IInv, CL!OneOwner, CL!PassOn, CL!Grants
    <2>4. tail # NoImage /\ tail' = tail
      BY <1>10, <2>2 DEF CL!IInv, CL!EmptyMeansFree, CL!PassOn
    <2> QED BY <2>1, <2>2, <2>3, <2>4 DEF CL!IInv, CL!OneOwner,
                                          CL!EmptyMeansFree
  <1>11. ASSUME NEW i \in Image, CL!PassOn(i), found[i] # NoImage PROVE CL!IInv'
    <2>1. PICK m \in CL!LinkWrites(found[i], req[i].image, req[i].ofst, req[i].done) :
            net' = net \cup {m}
      BY <1>11 DEF CL!PassOn
    <2>2. /\ m = [to |-> m.to, words |-> m.words]
          /\ m.words \in Seq(CL!LinkWord) /\ m.words # <<>>
          /\ m # CL!Grant(m.to)
      BY <2>1, LinkIsNoGrant DEF CL!IInv, CL!TypeOK
    <2>3. CL!TypeOK' /\ CL!HasVictims'
      BY <1>11, <2>1, <2>2 DEF CL!IInv, CL!TypeOK, CL!HasVictims,
                               CL!PassOn, CL!FreeRequest,
                               CL!NewRequest, CL!At, CL!Pc
    <2>4. CL!Grants' = CL!Grants
      BY <2>1, <2>2 DEF CL!Grants
    <2>5. tail' = tail /\ \A j \in Image : CL!Owns(j)' => CL!Owns(j)
      BY <1>11 DEF CL!IInv, CL!TypeOK, CL!PassOn, CL!FreeRequest,
                   CL!NewRequest, CL!At, CL!Owns
    <2> QED BY <2>3, <2>4, <2>5, NoNewOwner DEF CL!IInv
  <1>12. ASSUME NEW m \in net, CL!Land(m), m = CL!Grant(m.to) PROVE CL!IInv'
    <2>1. /\ req' = [req EXCEPT ![m.to]["locked"] = 0]
          /\ net' = net \ {m}
      <3>1. m.words = <<CL!Word("locked", 0)>>
        BY <1>12 DEF CL!Grant
      <3>2. Head(m.words) = CL!Word("locked", 0) /\ Tail(m.words) = <<>>
        BY <3>1
      <3>3. Head(m.words).field = "locked" /\ Head(m.words).value = 0
        BY <3>2 DEF CL!Word
      <3> QED BY <1>12, <3>2, <3>3 DEF CL!Land
    <2>2. /\ UNCHANGED <<tail, imagePc, found>>
          /\ m \in CL!Grants
      BY <1>12 DEF CL!Land, CL!Grants
    <2>3. CL!TypeOK' /\ CL!HasVictims'
      <3>1. CL!Word("locked", 0).field = "locked" /\ CL!Word("locked", 0).value = 0
        BY DEF CL!Word
      <3>2. req' = [req EXCEPT ![m.to][CL!Word("locked", 0).field]
                                  = CL!Word("locked", 0).value]
        BY <2>1, <3>1
      <3> HIDE DEF CL!Word
      <3>3. req' \in [Image -> [locked : {0, 1}, image : Image \cup {NoImage},
                                ofst : Image \cup {NoImage}, done : {0, 1}]]
        BY <3>2, WordLands DEF CL!IInv
      <3> QED BY <2>1, <2>2, <3>3 DEF CL!IInv, CL!TypeOK, CL!HasVictims
    <2>4. /\ \A i \in Image : ~CL!Owns(i)
          /\ CL!Grants' = {}
          /\ tail # NoImage
      BY <2>1, <2>2 DEF CL!IInv, CL!OneOwner, CL!EmptyMeansFree,
                        CL!Grants
    <2>5. \A j \in Image : CL!Owns(j)' => j = m.to
      BY <2>1, <2>2, <2>4 DEF CL!IInv, CL!TypeOK, CL!Owns
    <2> QED BY <2>2, <2>3, <2>4, <2>5 DEF CL!IInv, CL!OneOwner,
                                          CL!EmptyMeansFree
  <1>13. ASSUME NEW m \in net, CL!Land(m), m # CL!Grant(m.to) PROVE CL!IInv'
    <2> DEFINE w == Head(m.words)
               r == [to |-> m.to, words |-> Tail(m.words)]
    <2>1. /\ m = [to |-> m.to, words |-> m.words]
          /\ m.words \in Seq(CL!LinkWord) /\ m.words # <<>>
      BY <1>13 DEF CL!IInv, CL!TypeOK
    <2>2. /\ w \in CL!LinkWord
          /\ r = [to |-> r.to, words |-> r.words] /\ r.words \in Seq(CL!LinkWord)
          /\ r.words # <<>> => r # CL!Grant(r.to)
      BY <2>1, RestOfLink DEF CL!Grant
    <2>3. /\ req' = [req EXCEPT ![m.to][w.field] = w.value]
          /\ \/ net' = net \ {m}
             \/ net' = (net \ {m}) \cup {r} /\ r.words # <<>>
          /\ UNCHANGED <<tail, imagePc, found>>
      BY <1>13 DEF CL!Land
    <2> HIDE DEF w, r
    <2>4. /\ \A j \in Image : req'[j].locked = req[j].locked
          /\ req' \in [Image -> [locked : {0, 1}, image : Image \cup {NoImage},
                                 ofst : Image \cup {NoImage}, done : {0, 1}]]
      BY <2>2, <2>3, WordLands DEF CL!IInv
    <2>5. CL!TypeOK' /\ CL!HasVictims'
      BY <2>1, <2>2, <2>3, <2>4 DEF CL!IInv, CL!TypeOK, CL!HasVictims
    <2>6. CL!Grants' \subseteq CL!Grants
      BY <2>2, <2>3 DEF CL!Grants
    <2>7. \A j \in Image : CL!Owns(j)' => CL!Owns(j)
      BY <2>3, <2>4 DEF CL!Owns
    <2> QED BY <2>3, <2>5, <2>6, <2>7, NoNewOwner DEF CL!IInv
  <1>14. CASE UNCHANGED CL!vars
    BY <1>14 DEF CL!vars, CL!IInv, CL!TypeOK, CL!OneOwner,
                 CL!EmptyMeansFree, CL!HasVictims, CL!Grants,
                 CL!Owns
  <1> QED
    BY <1>1, <1>2, <1>3, <1>4, <1>5, <1>6, <1>7, <1>8, <1>9, <1>10, <1>11, <1>12,
       <1>13, <1>14
       DEF CL!Next, CL!LockSteps, CL!Progress, CL!Landing

LEMMA CoarrayInvariance == LocksSpec => []CL!IInv
  <1>1. LocksInit => CL!IInv
    BY CoarrayInit DEF LocksInit
  <1> QED BY <1>1, EachAlone, CoarrayStep, PTL DEF LocksSpec

\* lock.c:98-375: for every number of images and every layer, one image at most is
\* between LOCK and UNLOCK.
THEOREM MutualExclusionHolds == LocksSpec => []MutualExclusion
  <1>1. CL!IInv => MutualExclusion
    BY DEF CL!IInv, CL!OneOwner, CL!Owns, CL!MutualExclusion,
           MutualExclusion
  <1> QED
    BY <1>1, CoarrayInvariance, PTL

\* lock.c:463-475, 546-551: for every number of images, a lock variable that reads as
\* unlocked belongs to nobody.
THEOREM EmptyMeansFreeHolds == LocksSpec => []EmptyMeansFree
  <1>1. CL!IInv => EmptyMeansFree
    BY DEF CL!IInv, EmptyMeansFree
  <1> QED
    BY <1>1, CoarrayInvariance, PTL

-----------------------------------------------------------------------------
(* Where the remote writes of the coarray lock land, and in which order it *)
(* is passed on                                                            *)

LEMMA QueueStart == CL!Init => CL!QueueInv
  BY ImagesAssumption
     DEF CL!Init, CL!QueueInv, CL!PointInv, CL!LinkInv,
         CL!ToldInv, CL!GrantInv, CL!NextInv, CL!NewRequest,
         CL!Points, CL!Queued, CL!Links, CL!Grants, CL!Told,
         CL!Landed, CL!Blank, CL!Whole

\* A link announces one image, and a request that is blank or whole has no part of it.
LEMMA OneAnnounced ==
  ASSUME NEW m, NEW j \in Image, NEW k \in Image, CL!LinkOf(m, j), CL!LinkOf(m, k)
  PROVE  j = k
  BY DEF CL!LinkOf, CL!Landed, CL!Blank, CL!Word

LEMMA OneAnnouncedNext ==
  ASSUME NEW m, NEW j \in Image, NEW k \in Image, CL!LinkOf(m, j)', CL!LinkOf(m, k)'
  PROVE  j = k
  BY DEF CL!LinkOf, CL!Landed, CL!Blank, CL!Word

LEMMA LinkNotWhole ==
  ASSUME NEW m, NEW j \in Image, CL!LinkOf(m, j)
  PROVE  ~CL!Whole(m.to)
  BY ImagesAssumption DEF CL!LinkOf, CL!Landed, CL!Blank, CL!Whole

\* What is left of a link, and what has landed of it, says who is announced.
LEMMA SameLanded ==
  ASSUME NEW m, NEW j, req'[m.to].image = req[m.to].image,
         req'[m.to].ofst = req[m.to].ofst, req'[m.to].done = req[m.to].done
  PROVE  CL!LinkOf(m, j)' <=> CL!LinkOf(m, j)
  BY DEF CL!LinkOf, CL!Landed, CL!Blank

\* Steps that write no request and no message leave who is announced to whom.
LEMMA Quiet ==
  ASSUME CL!QueueInv, net' = net,
         \A i \in Image : /\ req'[i].image = req[i].image /\ req'[i].ofst = req[i].ofst
                          /\ req'[i].done = req[i].done,
         \A j \in Image : imagePc[j] = "waiting" /\ req[j].locked = 1 =>
                            imagePc'[j] = "waiting" /\ req'[j].locked = 1
  PROVE  /\ \A i \in Image : (CL!Blank(i)' <=> CL!Blank(i)) /\ (CL!Whole(i)' <=> CL!Whole(i))
         /\ CL!Links' = CL!Links
         /\ \A m \in CL!Links : \A j \in Image : CL!LinkOf(m, j)' <=> CL!LinkOf(m, j)
         /\ \A i, j \in Image : CL!Told(i, j)' <=> CL!Told(i, j)
         /\ CL!ToldInv' /\ CL!GrantInv'
  <1>1. \A i \in Image : (CL!Blank(i)' <=> CL!Blank(i)) /\ (CL!Whole(i)' <=> CL!Whole(i))
    BY DEF CL!Blank, CL!Whole, CL!Landed
  <1>2. CL!Links' = CL!Links /\ CL!Grants' = CL!Grants
    BY DEF CL!Links, CL!Grants
  <1>3. ASSUME NEW m \in CL!Links, NEW j \in Image PROVE CL!LinkOf(m, j)' <=> CL!LinkOf(m, j)
    <2>1. m.to \in Image
      BY DEF CL!QueueInv, CL!LinkInv
    <2> QED BY <2>1, SameLanded
  <1>4. \A i, j \in Image : CL!Told(i, j)' <=> CL!Told(i, j)
    BY <1>1, <1>2, <1>3 DEF CL!Told
  <1>5. CL!ToldInv' /\ CL!GrantInv'
    BY <1>2, <1>4 DEF CL!QueueInv, CL!ToldInv, CL!GrantInv
  <1> QED BY <1>1, <1>2, <1>3, <1>4, <1>5

\* The steps that write no message.
LEMMA QuietStep ==
  ASSUME CL!TypeOK, CL!HasVictims, CL!QueueInv, NEW i \in Image,
         \/ CL!Lock(i) \/ CL!TryLock(i) \/ CL!Enqueue(i) \/ CL!Granted(i) \/ CL!Unlock(i)
         \/ CL!Release(i) \/ CL!KeepTail(i) \/ CL!TakeOut(i) \/ CL!PutBack(i),
         UNCHANGED layer
  PROVE  CL!QueueInv' /\ \A k, j \in Image : CL!Told(k, j)' <=> CL!Told(k, j)
  <1> DEFINE Same == \A k \in Image : /\ req'[k].image = req[k].image
                                      /\ req'[k].ofst = req[k].ofst
                                      /\ req'[k].done = req[k].done
             Waits == \A j \in Image : imagePc[j] = "waiting" /\ req[j].locked = 1 =>
                                         imagePc'[j] = "waiting" /\ req'[j].locked = 1
             Kept == /\ \A k \in Image : (CL!Blank(k)' <=> CL!Blank(k)) /\ (CL!Whole(k)' <=> CL!Whole(k))
                     /\ CL!Links' = CL!Links
                     /\ \A m \in CL!Links : \A j \in Image : CL!LinkOf(m, j)' <=> CL!LinkOf(m, j)
                     /\ \A k, j \in Image : CL!Told(k, j)' <=> CL!Told(k, j)
  <1> USE ImagesAssumption
  <1>1. CASE CL!Lock(i) \/ CL!TryLock(i)
    <2>1. /\ imagePc[i] = "out" /\ CL!Blank(i) /\ net' = net /\ found' = found
          /\ req' = [req EXCEPT ![i] = CL!NewRequest]
          /\ imagePc' = [imagePc EXCEPT ![i] = imagePc'[i]]
          /\ \/ imagePc'[i] \in {"out", "enqueue"} /\ tail' = tail
             \/ imagePc'[i] = "held" /\ tail = NoImage /\ tail' = i
      BY <1>1 DEF CL!QueueInv, CL!PointInv, CL!Queued, CL!TypeOK,
                  CL!Lock, CL!TryLock, CL!At
    <2>2. Same /\ Waits
      BY <2>1 DEF CL!Blank, CL!Landed, CL!NewRequest, CL!TypeOK
    <2>3. Kept /\ CL!ToldInv' /\ CL!GrantInv'
      BY <2>1, <2>2, Quiet
    <2> HIDE DEF Same, Waits
    <2>4. CL!PointInv' /\ CL!LinkInv'
      BY <2>1, <2>3 DEF CL!QueueInv, CL!PointInv, CL!LinkInv,
                        CL!Points, CL!Queued, CL!TypeOK
    <2>5. CL!NextInv'
      BY <2>1, <2>3 DEF CL!QueueInv, CL!NextInv, CL!UnlockByCswap,
                        CL!Queued, CL!TypeOK
    <2> QED BY <2>3, <2>4, <2>5 DEF CL!QueueInv
  <1>2. CASE CL!Enqueue(i)
    <2>1. /\ imagePc[i] = "enqueue" /\ CL!Blank(i) /\ UNCHANGED <<net, req>>
          /\ imagePc' = [imagePc EXCEPT ![i] = IF tail = NoImage THEN "held" ELSE "link"]
          /\ tail' = i /\ found' = [found EXCEPT ![i] = tail]
      BY <1>2 DEF CL!QueueInv, CL!PointInv, CL!Queued, CL!TypeOK,
                  CL!Enqueue, CL!At
    <2>2. Same /\ Waits
      BY <2>1 DEF CL!TypeOK
    <2>3. Kept /\ CL!ToldInv' /\ CL!GrantInv'
      BY <2>1, <2>2, Quiet
    <2> HIDE DEF Same, Waits
    <2>4. CL!PointInv' /\ CL!LinkInv'
      BY <2>1, <2>3 DEF CL!QueueInv, CL!PointInv, CL!LinkInv,
                        CL!Points, CL!Queued, CL!TypeOK
    <2>5. CL!NextInv'
      BY <2>1, <2>3 DEF CL!QueueInv, CL!NextInv, CL!UnlockByCswap,
                        CL!Queued, CL!TypeOK, CL!ToldInv
    <2> QED BY <2>3, <2>4, <2>5 DEF CL!QueueInv
  <1>3. CASE CL!Granted(i)
    <2>1. /\ imagePc[i] = "waiting" /\ req[i].locked = 0 /\ UNCHANGED <<net, req, tail, found>>
          /\ imagePc' = [imagePc EXCEPT ![i] = "held"]
      BY <1>3 DEF CL!Granted, CL!At
    <2>2. Same /\ Waits
      BY <2>1 DEF CL!TypeOK
    <2>3. Kept /\ CL!ToldInv' /\ CL!GrantInv'
      BY <2>1, <2>2, Quiet
    <2> HIDE DEF Same, Waits
    <2>4. CL!PointInv' /\ CL!LinkInv'
      BY <2>1, <2>3 DEF CL!QueueInv, CL!PointInv, CL!LinkInv,
                        CL!Points, CL!Queued, CL!TypeOK
    <2>5. CL!NextInv'
      BY <2>1, <2>3 DEF CL!QueueInv, CL!NextInv, CL!UnlockByCswap,
                        CL!Queued, CL!TypeOK
    <2> QED BY <2>3, <2>4, <2>5 DEF CL!QueueInv
  <1>4. CASE CL!Unlock(i) \/ CL!KeepTail(i)
    <2>1. /\ imagePc[i] \in {"held", "dequeue"} /\ UNCHANGED <<net, req, tail>>
          /\ imagePc'[i] \in {"dequeue", "await"} /\ imagePc' = [imagePc EXCEPT ![i] = imagePc'[i]]
          /\ found' = [found EXCEPT ![i] = NoImage]
      BY <1>4 DEF CL!QueueInv, CL!PointInv, CL!TypeOK, CL!Unlock,
                  CL!KeepTail, CL!At
    <2>2. Same /\ Waits
      BY <2>1 DEF CL!TypeOK
    <2>3. Kept /\ CL!ToldInv' /\ CL!GrantInv'
      BY <2>1, <2>2, Quiet
    <2> HIDE DEF Same, Waits
    <2>4. CL!PointInv' /\ CL!LinkInv'
      BY <2>1, <2>3 DEF CL!QueueInv, CL!PointInv, CL!LinkInv,
                        CL!Points, CL!Queued, CL!TypeOK
    <2>5. CL!NextInv'
      BY <2>1, <2>3 DEF CL!QueueInv, CL!NextInv, CL!ToldInv,
                        CL!UnlockByCswap, CL!Queued, CL!TypeOK
    <2> QED BY <2>3, <2>4, <2>5 DEF CL!QueueInv
  <1>5. CASE CL!Release(i)
    <2>1. /\ imagePc[i] = "dequeue" /\ tail = i /\ tail' = NoImage /\ net' = net /\ CL!Blank(i)
          /\ imagePc' = [imagePc EXCEPT ![i] = "out"] /\ found' = [found EXCEPT ![i] = NoImage]
          /\ req' = [req EXCEPT ![i] = CL!NewRequest]
      BY <1>5 DEF CL!QueueInv, CL!PointInv, CL!Release,
                  CL!FreeRequest, CL!At
    <2>2. Same /\ Waits
      BY <2>1 DEF CL!Blank, CL!Landed, CL!NewRequest, CL!TypeOK
    <2>3. Kept /\ CL!ToldInv' /\ CL!GrantInv'
      BY <2>1, <2>2, Quiet
    <2> HIDE DEF Same, Waits
    <2>4. CL!PointInv' /\ CL!LinkInv'
      BY <2>1, <2>3 DEF CL!QueueInv, CL!PointInv, CL!LinkInv,
                        CL!Points, CL!Queued, CL!TypeOK
    <2>5. CL!NextInv'
      BY <2>1, <2>3 DEF CL!QueueInv, CL!NextInv, CL!ToldInv,
                        CL!UnlockByCswap, CL!Queued, CL!TypeOK
    <2> QED BY <2>3, <2>4, <2>5 DEF CL!QueueInv
  <1>6. CASE CL!TakeOut(i) \/ CL!PutBack(i)
    <2>1. /\ ~CL!UnlockByCswap /\ UNCHANGED <<net, req>>
          /\ \/ imagePc[i] = "dequeue" /\ imagePc' = [imagePc EXCEPT ![i] = "putBack"] /\ tail' = NoImage
             \/ /\ imagePc[i] = "putBack" /\ imagePc' = [imagePc EXCEPT ![i] = "await"]
                /\ tail' = found[i] /\ found[i] # NoImage
          /\ found' = [found EXCEPT ![i] = tail]
      BY <1>6 DEF CL!HasVictims, CL!QueueInv, CL!NextInv,
                  CL!TakeOut, CL!PutBack, CL!At
    <2>2. Same /\ Waits
      BY <2>1 DEF CL!TypeOK
    <2>3. Kept /\ CL!ToldInv' /\ CL!GrantInv'
      BY <2>1, <2>2, Quiet
    <2> HIDE DEF Same, Waits
    <2>4. CL!PointInv' /\ CL!LinkInv'
      BY <2>1, <2>3 DEF CL!QueueInv, CL!PointInv, CL!LinkInv,
                        CL!Points, CL!Queued, CL!TypeOK
    <2>5. CL!NextInv'
      BY <2>1 DEF CL!NextInv, CL!UnlockByCswap
    <2> QED BY <2>3, <2>4, <2>5 DEF CL!QueueInv
  <1> QED
    BY <1>1, <1>2, <1>3, <1>4, <1>5, <1>6

\* A link that starts out on its way to a blank request, or a successor moved there.
LEMMA NewLink ==
  ASSUME NEW p \in Image, NEW j \in Image, CL!Blank(p)', NEW m \in CL!LinkWrites(p, j, j, 1)
  PROVE  /\ m \notin CL!Grants' /\ m.to = p /\ CL!LinkOf(m, j)'
  <1>1. m # CL!Grant(m.to)
    BY LinkIsNoGrant
  <1>2. /\ m.to = p
        /\ \/ m.words = <<CL!Word("image", j), CL!Word("ofst", j), CL!Word("done", 1)>>
           \/ m.words = <<CL!Word("done", 1), CL!Word("ofst", j), CL!Word("image", j)>>
    BY DEF CL!LinkWrites
  <1> QED BY <1>1, <1>2 DEF CL!Grants, CL!LinkOf

\* The message that announces j at p, when whoever pointed at p has written it.
LEMMA NewLinkStep ==
  ASSUME CL!TypeOK, CL!QueueInv, UNCHANGED <<layer, tail>>,
         NEW i \in Image, NEW p \in Image, NEW j \in Image, CL!Points(i, p), ~CL!Points(i, p)',
         NEW m \in CL!LinkWrites(p, j, j, 1), net' = net \cup {m},
         \A k \in Image \ {i} : imagePc'[k] = imagePc[k] /\ found'[k] = found[k] /\ req'[k] = req[k],
         \/ /\ imagePc[i] = "link" /\ imagePc'[i] = "waiting" /\ found'[i] = p /\ j = i
            /\ req'[i].image = req[i].image /\ req'[i].ofst = req[i].ofst
            /\ req'[i].done = req[i].done /\ req'[i].locked = 1
         \/ /\ imagePc[i] = "await" /\ imagePc'[i] = "out" /\ found'[i] = NoImage
            /\ CL!Whole(i) /\ req[i].image = j /\ CL!Blank(i)' /\ i # p /\ ~CL!UnlockByCswap
  PROVE  CL!QueueInv' /\ \A k, l \in Image : CL!Told(k, l)' => (k = p /\ l = j) \/ CL!Told(k, l)
  <1> USE ImagesAssumption
  <1>1. /\ CL!Blank(p) /\ CL!Blank(p)' /\ tail # p /\ CL!Queued(p) /\ CL!Queued(p)'
        /\ \A n \in CL!Links : n.to # p
    BY DEF CL!QueueInv, CL!PointInv, CL!LinkInv, CL!Blank,
           CL!Landed, CL!Queued
  <1>2. /\ m \notin CL!Grants' /\ m.to = p /\ CL!LinkOf(m, j)'
    BY <1>1, NewLink
  <1>3. CL!Links' = CL!Links \cup {m} /\ CL!Grants' = CL!Grants /\ m \notin CL!Links
    BY <1>1, <1>2 DEF CL!Links, CL!Grants
  <1>4. \A k \in Image \ {i} : (CL!Blank(k)' <=> CL!Blank(k)) /\ (CL!Whole(k)' <=> CL!Whole(k))
    BY DEF CL!Blank, CL!Whole, CL!Landed
  <1>5. ASSUME NEW n \in CL!Links, NEW k \in Image
        PROVE  /\ n.to = i => imagePc[i] = "link"
               /\ CL!LinkOf(n, k)' <=> CL!LinkOf(n, k)
    <2>1. n.to \in Image /\ \E l \in Image : CL!LinkOf(n, l)
      BY DEF CL!QueueInv, CL!LinkInv
    <2>2. n.to = i => imagePc[i] = "link"
      BY <2>1, LinkNotWhole
    <2> QED BY <2>1, <2>2, SameLanded
  <1>6. imagePc[i] = "link" => (CL!Blank(i)' <=> CL!Blank(i)) /\ (CL!Whole(i)' <=> CL!Whole(i))
    BY DEF CL!Blank, CL!Whole, CL!Landed
  <1>7. ASSUME NEW k \in Image, NEW l \in Image
        PROVE  CL!Told(k, l)' <=>
                 (k = p /\ l = j) \/ (CL!Told(k, l) /\ (k = i => imagePc[i] = "link"))
    <2>1. CL!LinkOf(m, l)' => l = j
      BY <1>2, OneAnnouncedNext
    <2>2. k = i /\ imagePc[i] = "await" => ~CL!Whole(k)'
      BY DEF CL!Blank, CL!Whole, CL!Landed
    <2>3. CL!Whole(k)' =>
            CL!Whole(k) /\ req'[k].image = req[k].image /\ (k = i => imagePc[i] = "link")
      BY <1>4, <1>6, <2>2
    <2>4. CL!Whole(k) /\ (k = i => imagePc[i] = "link") => CL!Whole(k)' /\ req'[k].image = req[k].image
      BY <1>4, <1>6
    <2> QED BY <1>2, <1>3, <1>5, <2>1, <2>3, <2>4 DEF CL!Told
  <1>8. CL!PointInv'
    <2>1. ASSUME NEW k \in Image PROVE CL!Blank(k)' \/ CL!Whole(k)' \/ \E n \in CL!Links' : n.to = k
      BY <1>3, <1>4, <1>6 DEF CL!QueueInv, CL!PointInv
    <2>2. CL!Queued(p) /\ \A k \in Image \ {i} : CL!Queued(k)' <=> CL!Queued(k)
      BY <1>1 DEF CL!Queued
    <2>3. /\ ~CL!Queued(i)' => CL!Blank(i)'
          /\ imagePc'[i] # "dequeue" /\ imagePc'[i] # "link"
          /\ tail = i => imagePc[i] = "link"
      BY DEF CL!Queued, CL!QueueInv, CL!PointInv, CL!Blank,
             CL!Whole, CL!Landed
    <2>4. /\ imagePc[i] = "link" => CL!Queued(i) /\ CL!Queued(i)'
          /\ imagePc[i] = "await" => ~CL!Blank(i)
      BY DEF CL!Queued, CL!Blank, CL!Whole, CL!Landed
    <2>5. ASSUME NEW a \in Image, NEW k \in Image, CL!Points(a, k)'
          PROVE  CL!Points(a, k) /\ a # i
      BY <2>5 DEF CL!Points
    <2>6. ASSUME NEW k \in Image, CL!Blank(k), CL!Queued(k) PROVE CL!Blank(k)' /\ CL!Queued(k)'
      BY <1>4, <1>6, <2>2, <2>4, <2>6
    <2>7. \A a, k \in Image : CL!Points(a, k)' => tail' # k /\ CL!Blank(k)' /\ CL!Queued(k)'
      BY <2>5, <2>6 DEF CL!QueueInv, CL!PointInv
    <2>8. \A a, b, k \in Image : CL!Points(a, k)' /\ CL!Points(b, k)' => a = b
      BY <2>5 DEF CL!QueueInv, CL!PointInv
    <2>9. ASSUME NEW k \in Image
          PROVE  /\ imagePc'[k] = "link" => found'[k] # NoImage
                 /\ imagePc'[k] = "dequeue" => found'[k] = NoImage
                 /\ tail' = k => CL!Blank(k)' /\ CL!Queued(k)'
                 /\ ~CL!Queued(k)' => CL!Blank(k)'
      BY <1>4, <2>2, <2>3, <2>6 DEF CL!QueueInv, CL!PointInv
    <2> QED BY <2>1, <2>7, <2>8, <2>9 DEF CL!PointInv
  <1>9. CL!LinkInv'
    <2>1. \A n \in CL!Links : CL!Queued(n.to)'
      BY <1>5 DEF CL!QueueInv, CL!LinkInv, CL!Queued
    <2>2. ASSUME NEW a \in Image, NEW k \in Image, CL!Points(a, k)'
          PROVE  CL!Points(a, k) /\ a # i
      BY <2>2 DEF CL!Points
    <2>3. ASSUME NEW n \in CL!Links'
          PROVE  /\ n.to \in Image /\ CL!Queued(n.to)' /\ n.to # tail'
                 /\ \A a \in Image : ~CL!Points(a, n.to)'
                 /\ \E l \in Image : CL!LinkOf(n, l)'
      <3>1. CASE n = m
        BY <1>1, <1>2, <2>2, <3>1 DEF CL!QueueInv, CL!PointInv
      <3>2. CASE n \in CL!Links
        BY <1>5, <2>1, <2>2, <3>2 DEF CL!QueueInv, CL!LinkInv
      <3> QED BY <1>3, <3>1, <3>2
    <2>4. \A n, o \in CL!Links' : n.to = o.to => n = o
      BY <1>1, <1>2, <1>3 DEF CL!QueueInv, CL!LinkInv
    <2> QED BY <2>3, <2>4 DEF CL!LinkInv
  <1>10. CL!ToldInv' /\ CL!GrantInv'
    <2>1. imagePc[i] = "link" => \A k \in Image : ~CL!Told(k, i)
      BY DEF CL!QueueInv, CL!ToldInv
    <2>2. imagePc[i] = "await" => /\ CL!Told(i, j)
                             /\ \A k \in Image : ~CL!Told(k, i)
      BY DEF CL!QueueInv, CL!ToldInv, CL!Told
    <2>3. \A k \in Image : CL!Grant(k) \in net' <=> CL!Grant(k) \in net
      BY <1>2, <1>3 DEF CL!Grants, CL!Grant
    <2>4. \A k, l, n \in Image : CL!Told(k, l)' /\ CL!Told(n, l)' => k = n
      BY <1>7, <2>1, <2>2 DEF CL!QueueInv, CL!ToldInv
    <2>5. CL!Grant(i) \notin net
      BY DEF CL!QueueInv, CL!ToldInv
    <2>6. ASSUME NEW k \in Image, CL!Grant(k) \in net'
          PROVE  imagePc'[k] = "waiting" /\ req'[k].locked = 1
      BY <2>3, <2>5, <2>6 DEF CL!QueueInv, CL!ToldInv
    <2>7. ASSUME NEW k \in Image, NEW l \in Image, CL!Told(k, l)'
          PROVE  imagePc'[l] = "waiting" /\ req'[l].locked = 1 /\ CL!Grant(l) \notin net'
      <3>1. CASE l = i
        BY <1>7, <2>1, <2>2, <2>3, <2>5, <2>7, <3>1
      <3>2. CASE l # i
        BY <1>7, <2>2, <2>3, <2>7, <3>2 DEF CL!QueueInv, CL!ToldInv
      <3> QED BY <3>1, <3>2
    <2>8. CL!GrantInv'
      BY <1>3 DEF CL!QueueInv, CL!GrantInv
    <2> QED BY <2>4, <2>6, <2>7, <2>8 DEF CL!ToldInv
  <1>11. CL!NextInv'
    <2> SUFFICES ASSUME CL!UnlockByCswap, NEW k \in Image
                 PROVE  /\ imagePc'[k] # "putBack" /\ (imagePc'[k] = "await" => found'[k] = NoImage)
                        /\ CL!Queued(k)' /\ tail # k =>
                             \E l \in Image : found'[l] = k /\ (imagePc'[l] = "link" \/ CL!Told(k, l)')
      BY DEF CL!NextInv, CL!UnlockByCswap
    <2>1. imagePc[i] = "link" /\ imagePc'[i] = "waiting" /\ found'[i] = p /\ found[i] = p /\ j = i
      BY DEF CL!Points
    <2>2. CL!Queued(k)' => CL!Queued(k)
      BY <2>1 DEF CL!Queued
    <2>3. ASSUME NEW l \in Image, found[l] = k, imagePc[l] = "link" \/ CL!Told(k, l)
          PROVE  found'[l] = k /\ (imagePc'[l] = "link" \/ CL!Told(k, l)')
      BY <1>7, <2>1, <2>3
    <2> QED BY <2>1, <2>2, <2>3 DEF CL!QueueInv, CL!NextInv
  <1> QED BY <1>7, <1>8, <1>9, <1>10, <1>11 DEF CL!QueueInv

LEMMA LinkStep ==
  ASSUME CL!TypeOK, CL!QueueInv, NEW i \in Image, CL!Link(i), UNCHANGED layer
  PROVE  CL!QueueInv' /\ \A k, l \in Image : CL!Told(k, l)' =>
                            (k = found[i] /\ l = i) \/ CL!Told(k, l)
  <1> USE ImagesAssumption
  <1>1. /\ imagePc[i] = "link" /\ imagePc' = [imagePc EXCEPT ![i] = "waiting"]
        /\ req' = [req EXCEPT ![i].locked = 1]
        /\ UNCHANGED <<tail, found>>
    BY DEF CL!Link, CL!At
  <1>2. found[i] \in Image
    BY <1>1 DEF CL!QueueInv, CL!PointInv, CL!TypeOK
  <1> PICK p \in Image : p = found[i]
    BY <1>2
  <1>3. CL!Points(i, p) /\ ~CL!Points(i, p)'
    BY <1>1 DEF CL!Points, CL!TypeOK
  <1>4. PICK m \in CL!LinkWrites(p, i, i, 1) : net' = net \cup {m}
    BY DEF CL!Link
  <1>5. /\ \A k \in Image \ {i} : imagePc'[k] = imagePc[k] /\ found'[k] = found[k] /\ req'[k] = req[k]
        /\ imagePc'[i] = "waiting" /\ found'[i] = p
        /\ req'[i].image = req[i].image /\ req'[i].ofst = req[i].ofst
        /\ req'[i].done = req[i].done /\ req'[i].locked = 1
    BY <1>1 DEF CL!TypeOK
  <1> QED
    BY <1>1, <1>2, <1>3, <1>4, <1>5, NewLinkStep

\* Whoever passes the lock or its successor on has a whole request.
LEMMA WholeWhenSeen ==
  ASSUME CL!QueueInv, NEW i \in Image, req[i].done # 0, req[i].image # NoImage
  PROVE  CL!Whole(i) /\ \A m \in CL!Links : m.to # i
  <1>1. ASSUME NEW m \in CL!Links, m.to = i PROVE FALSE
    <2>1. PICK j \in Image : CL!LinkOf(m, j)
      BY DEF CL!QueueInv, CL!LinkInv
    <2> QED BY <1>1, <2>1, ImagesAssumption
               DEF CL!LinkOf, CL!Landed, CL!Blank
  <1>2. ~CL!Blank(i)
    BY DEF CL!Blank, CL!Landed
  <1> QED BY <1>1, <1>2 DEF CL!QueueInv, CL!PointInv

LEMMA PassLinkStep ==
  ASSUME CL!TypeOK, CL!QueueInv, NEW i \in Image, CL!PassOn(i), found[i] # NoImage, UNCHANGED layer
  PROVE  CL!QueueInv'
  <1> USE ImagesAssumption
  <1>1. /\ imagePc[i] = "await" /\ imagePc' = [imagePc EXCEPT ![i] = "out"]
        /\ req' = [req EXCEPT ![i] = CL!NewRequest]
        /\ found' = [found EXCEPT ![i] = NoImage]
        /\ tail' = tail
        /\ CL!Whole(i) /\ req[i].image # NoImage
    BY WholeWhenSeen DEF CL!PassOn, CL!FreeRequest, CL!At
  <1>2. /\ found[i] \in Image /\ req[i].image \in Image
        /\ req[i].ofst = req[i].image /\ req[i].done = 1
    BY <1>1 DEF CL!TypeOK, CL!Whole, CL!Landed
  <1> PICK p \in Image, j \in Image : p = found[i] /\ j = req[i].image
    BY <1>2
  <1>3. CL!Points(i, p) /\ ~CL!Points(i, p)'
    BY <1>1 DEF CL!Points, CL!TypeOK
  <1>4. PICK m \in CL!LinkWrites(p, j, j, 1) : net' = net \cup {m}
    BY <1>2 DEF CL!PassOn
  <1>5. /\ \A k \in Image \ {i} : imagePc'[k] = imagePc[k] /\ found'[k] = found[k] /\ req'[k] = req[k]
        /\ imagePc'[i] = "out" /\ found'[i] = NoImage /\ CL!Blank(i)'
    BY <1>1 DEF CL!TypeOK, CL!Blank, CL!Landed, CL!NewRequest
  <1>6. i # p
    BY <1>1, <1>2, <1>3 DEF CL!QueueInv, CL!PointInv, CL!Blank,
                            CL!Whole, CL!Landed
  <1>7. ~CL!UnlockByCswap
    BY <1>1, <1>2 DEF CL!QueueInv, CL!NextInv
  <1> QED
    BY <1>1, <1>2, <1>3, <1>4, <1>5, <1>6, <1>7, NewLinkStep

LEMMA PassLockStep ==
  ASSUME CL!TypeOK, CL!OneOwner, CL!QueueInv, NEW i \in Image, CL!PassOn(i), found[i] = NoImage,
         UNCHANGED layer
  PROVE  CL!QueueInv' /\ \A k, l \in Image : CL!Told(k, l)' => CL!Told(k, l)
  <1> DEFINE j == req[i].image
  <1> USE ImagesAssumption
  <1>1. /\ imagePc[i] = "await" /\ imagePc' = [imagePc EXCEPT ![i] = "out"]
        /\ req' = [req EXCEPT ![i] = CL!NewRequest]
        /\ found' = [found EXCEPT ![i] = NoImage]
        /\ UNCHANGED <<tail>>
        /\ CL!Whole(i) /\ j # NoImage /\ \A m \in CL!Links : m.to # i
        /\ net' = net \cup {CL!Grant(req[i].ofst)}
    BY WholeWhenSeen DEF CL!PassOn, CL!FreeRequest, CL!At
  <1>2. j \in Image /\ req[i].ofst = j /\ CL!Told(i, j)
    BY <1>1 DEF CL!TypeOK, CL!Whole, CL!Landed, CL!Told
  <1>3. /\ imagePc[j] = "waiting" /\ req[j].locked = 1 /\ j # i /\ CL!Grant(j) \notin net
        /\ CL!Grant(i) \notin net
        /\ \A k \in Image : ~CL!Told(k, i) /\ (CL!Told(k, j) => k = i)
    BY <1>1, <1>2 DEF CL!QueueInv, CL!ToldInv
  <1>4. /\ CL!Links' = CL!Links /\ CL!Grants' = CL!Grants \cup {CL!Grant(j)}
    <2>1. CL!Grant(j).to = j
      BY DEF CL!Grant
    <2> QED BY <1>1, <1>2, <2>1 DEF CL!Links, CL!Grants
  <1> HIDE DEF j
  <1>5. /\ CL!Blank(i)' /\ ~CL!Blank(i) /\ ~CL!Whole(i)'
        /\ \A k \in Image \ {i} : /\ (CL!Blank(k)' <=> CL!Blank(k)) /\ (CL!Whole(k)' <=> CL!Whole(k))
                                  /\ req'[k] = req[k]
    BY <1>1 DEF CL!TypeOK, CL!Blank, CL!Whole, CL!Landed,
                CL!NewRequest
  <1>6. ASSUME NEW n \in CL!Links, NEW k \in Image PROVE CL!LinkOf(n, k)' <=> CL!LinkOf(n, k)
    <2>1. n.to \in Image \ {i}
      BY <1>1 DEF CL!QueueInv, CL!LinkInv
    <2> QED BY <1>5, <2>1, SameLanded
  <1>7. \A k, l \in Image : CL!Told(k, l)' <=> CL!Told(k, l) /\ k # i
    BY <1>1, <1>4, <1>5, <1>6 DEF CL!Told
  <1>8. CL!PointInv' /\ CL!LinkInv'
    BY <1>1, <1>4, <1>5, <1>6 DEF CL!QueueInv, CL!PointInv, CL!LinkInv,
                                  CL!Points, CL!Queued, CL!TypeOK
  <1>9. CL!ToldInv' /\ CL!GrantInv'
    <2>1. \A k \in Image : CL!Grant(k) \in net' => CL!Grant(k) \in net \/ k = j
      BY <1>1, <1>2 DEF CL!Grant
    <2>2. \A k \in Image \ {i} : imagePc'[k] = imagePc[k] /\ req'[k] = req[k]
      BY <1>1, <1>5 DEF CL!TypeOK
    <2>3. CL!GrantInv'
      BY <1>2, <1>4 DEF CL!QueueInv, CL!GrantInv, CL!Grant
    <2> QED BY <1>3, <1>7, <2>1, <2>2, <2>3 DEF CL!QueueInv, CL!ToldInv
  <1>10. CL!NextInv'
    BY <1>1, <1>3, <1>7 DEF CL!QueueInv, CL!NextInv, CL!UnlockByCswap,
                            CL!Queued, CL!TypeOK
  <1> QED BY <1>7, <1>8, <1>9, <1>10 DEF CL!QueueInv

-----------------------------------------------------------------------------
\* A grant that lands changes no link.
LEMMA LandGrantStep ==
  ASSUME CL!TypeOK, CL!OneOwner, CL!QueueInv, NEW m \in net, CL!Land(m), m = CL!Grant(m.to), UNCHANGED layer
  PROVE  /\ CL!QueueInv' /\ \A k, l \in Image : CL!Told(k, l)' <=> CL!Told(k, l)
         /\ req' = [req EXCEPT ![m.to].locked = 0] /\ net' = net \ {m}
  <1> USE ImagesAssumption
  <1>1. /\ req' = [req EXCEPT ![m.to].locked = 0] /\ net' = net \ {m}
        /\ UNCHANGED <<tail, imagePc, found>>
    <2>1. m.words = <<CL!Word("locked", 0)>>
      BY DEF CL!Grant
    <2>2. Head(m.words) = CL!Word("locked", 0) /\ Tail(m.words) = <<>>
      BY <2>1
    <2>3. Head(m.words).field = "locked" /\ Head(m.words).value = 0
      BY <2>2 DEF CL!Word
    <2> QED BY <2>2, <2>3 DEF CL!Land
  <1>2. /\ m \in CL!Grants /\ CL!Links' = CL!Links /\ CL!Grants' = {}
    BY <1>1 DEF CL!OneOwner, CL!Grants, CL!Links
  <1>3. \A k \in Image : /\ req'[k].image = req[k].image /\ req'[k].ofst = req[k].ofst
                         /\ req'[k].done = req[k].done
                         /\ k # m.to => req'[k].locked = req[k].locked
    BY <1>1 DEF CL!TypeOK
  <1>4. \A k \in Image : (CL!Blank(k)' <=> CL!Blank(k)) /\ (CL!Whole(k)' <=> CL!Whole(k))
    BY <1>3 DEF CL!Blank, CL!Whole, CL!Landed
  <1>5. ASSUME NEW n \in CL!Links, NEW k \in Image PROVE CL!LinkOf(n, k)' <=> CL!LinkOf(n, k)
    <2>1. n.to \in Image
      BY DEF CL!QueueInv, CL!LinkInv
    <2> QED BY <1>3, <2>1, SameLanded
  <1>6. \A k, l \in Image : CL!Told(k, l)' <=> CL!Told(k, l)
    BY <1>2, <1>3, <1>4, <1>5 DEF CL!Told
  <1>7. CL!PointInv' /\ CL!LinkInv'
    BY <1>1, <1>2, <1>4, <1>5 DEF CL!QueueInv, CL!PointInv, CL!LinkInv,
                                  CL!Points, CL!Queued
  <1>8. CL!ToldInv' /\ CL!GrantInv'
    <2>1. \A k \in Image : CL!Grant(k) \notin net'
      BY <1>2 DEF CL!Grants, CL!Grant
    <2>2. \A k, l \in Image : CL!Told(k, l) => l # m.to
      BY DEF CL!QueueInv, CL!ToldInv
    <2> QED BY <1>1, <1>2, <1>3, <1>6, <2>1, <2>2
               DEF CL!QueueInv, CL!ToldInv, CL!GrantInv
  <1>9. CL!NextInv'
    BY <1>1, <1>6 DEF CL!QueueInv, CL!NextInv, CL!UnlockByCswap,
                      CL!Queued
  <1> QED BY <1>1, <1>6, <1>7, <1>8, <1>9 DEF CL!QueueInv

\* A word of a link that lands leaves the rest of the link, or the request whole.
LEMMA WordOfLink ==
  ASSUME CL!TypeOK, NEW m \in CL!Links, m.to \in Image, NEW j \in Image, CL!LinkOf(m, j), CL!Land(m)
  PROVE  /\ \/ net' = net \ {m} /\ CL!Whole(m.to)' /\ req'[m.to].image = j
            \/ \E r : /\ net' = (net \ {m}) \cup {r} /\ r.to = m.to /\ r # CL!Grant(r.to)
                      /\ CL!LinkOf(r, j)'
         /\ \A k \in Image : /\ req'[k].locked = req[k].locked
                             /\ k # m.to => req'[k] = req[k]
  <1> DEFINE i == m.to
             w == Head(m.words)
             s == Tail(m.words)
             image == CL!Word("image", j)
             ofst == CL!Word("ofst", j)
             done == CL!Word("done", 1)
             grant == CL!Word("locked", 0)
  <1> USE ImagesAssumption
  <1>1. /\ image.field = "image" /\ image.value = j /\ ofst.field = "ofst" /\ ofst.value = j
        /\ done.field = "done" /\ done.value = 1
        /\ grant # image /\ grant # ofst /\ grant # done
    BY DEF CL!Word
  <1>2. /\ req' = [req EXCEPT ![i][w.field] = w.value]
        /\ s = <<>> => net' = net \ {m}
        /\ s # <<>> => net' = (net \ {m}) \cup {[to |-> i, words |-> s]}
    BY DEF CL!Land
  <1>3. \/ w = image /\ s = <<ofst, done>> /\ CL!Blank(i)
        \/ w = ofst /\ s = <<done>> /\ CL!Landed(i, j, NoImage, 0)
        \/ w = done /\ s = <<>> /\ CL!Landed(i, j, j, 0)
        \/ w = done /\ s = <<ofst, image>> /\ CL!Blank(i)
        \/ w = ofst /\ s = <<image>> /\ CL!Landed(i, NoImage, NoImage, 1)
        \/ w = image /\ s = <<>> /\ CL!Landed(i, NoImage, j, 1)
    <2> HIDE DEF image, ofst, done, grant
    <2>1. \/ m.words = <<image, ofst, done>> /\ CL!Blank(i)
          \/ m.words = <<ofst, done>> /\ CL!Landed(i, j, NoImage, 0)
          \/ m.words = <<done>> /\ CL!Landed(i, j, j, 0)
          \/ m.words = <<done, ofst, image>> /\ CL!Blank(i)
          \/ m.words = <<ofst, image>> /\ CL!Landed(i, NoImage, NoImage, 1)
          \/ m.words = <<image>> /\ CL!Landed(i, NoImage, j, 1)
      BY DEF CL!LinkOf, image, ofst, done
    <2>2. ASSUME NEW x, NEW y, NEW z
          PROVE  /\ Head(<<x, y, z>>) = x /\ Tail(<<x, y, z>>) = <<y, z>>
                 /\ Head(<<x, y>>) = x /\ Tail(<<x, y>>) = <<y>>
                 /\ Head(<<x>>) = x /\ Tail(<<x>>) = <<>>
      OBVIOUS
    <2>3. ASSUME NEW x, NEW y, NEW z
          PROVE  /\ m.words = <<x, y, z>> => w = x /\ s = <<y, z>>
                 /\ m.words = <<x, y>> => w = x /\ s = <<y>>
                 /\ m.words = <<x>> => w = x /\ s = <<>>
      <3>1. CASE m.words = <<x, y, z>>
        BY <2>2, <3>1
      <3>2. CASE m.words = <<x, y>>
        BY <2>2, <3>2
      <3>3. CASE m.words = <<x>>
        BY <2>2, <3>3
      <3> QED BY <3>1, <3>2, <3>3
    <2> HIDE DEF w, s
    <2> QED BY <2>1, <2>3
  <1>4. /\ w.field \in {"image", "ofst", "done"}
        /\ req[i] \in [locked : {0, 1}, image : Image \cup {NoImage},
                       ofst : Image \cup {NoImage}, done : {0, 1}]
        /\ req'[i] = [req[i] EXCEPT ![w.field] = w.value]
        /\ \A k \in Image : k # i => req'[k] = req[k]
    BY <1>1, <1>2, <1>3 DEF CL!TypeOK
  <1> HIDE DEF w, s, i, image, ofst, done, grant
  <1>5. /\ w = image => req'[i] = [req[i] EXCEPT !.image = j]
        /\ w = ofst => req'[i] = [req[i] EXCEPT !.ofst = j]
        /\ w = done => req'[i] = [req[i] EXCEPT !.done = 1]
    BY <1>1, <1>4
  <1>6. /\ req'[i].locked = req[i].locked
        /\ w = image => /\ req'[i].image = j /\ req'[i].ofst = req[i].ofst
                        /\ req'[i].done = req[i].done
        /\ w = ofst => /\ req'[i].image = req[i].image /\ req'[i].ofst = j
                       /\ req'[i].done = req[i].done
        /\ w = done => /\ req'[i].image = req[i].image /\ req'[i].ofst = req[i].ofst
                       /\ req'[i].done = 1
    BY <1>3, <1>4, <1>5
  <1>7. \/ s = <<>> /\ CL!Whole(i)' /\ req'[i].image = j
        \/ s = <<ofst, done>> /\ CL!Landed(i, j, NoImage, 0)'
        \/ s = <<done>> /\ CL!Landed(i, j, j, 0)'
        \/ s = <<ofst, image>> /\ CL!Landed(i, NoImage, NoImage, 1)'
        \/ s = <<image>> /\ CL!Landed(i, NoImage, j, 1)'
    BY <1>3, <1>6 DEF CL!Whole, CL!Blank, CL!Landed, i
  <1> QED
    <2> DEFINE r == [to |-> i, words |-> s]
    <2>1. r.to = m.to /\ r.words = s
      BY DEF i
    <2>2. CASE s = <<>>
      BY <1>2, <1>4, <1>6, <1>7, <2>2 DEF i
    <2>3. CASE s # <<>>
      <3>1. CL!LinkOf(r, j)'
        BY <1>7, <2>1, <2>3 DEF CL!LinkOf, image, ofst, done, i
      <3>2. r # CL!Grant(r.to)
        <4>1. CL!Grant(r.to).words = <<grant>>
          BY DEF CL!Grant, grant
        <4>2. s # <<grant>>
          BY <1>1, <1>7, <2>3
        <4> QED BY <2>1, <4>1, <4>2
      <3>3. net' = (net \ {m}) \cup {r}
        BY <1>2, <2>3
      <3> HIDE DEF r
      <3> QED BY <1>4, <1>6, <2>1, <3>1, <3>2, <3>3 DEF i
    <2> QED BY <2>2, <2>3

LEMMA LandLinkStep ==
  ASSUME CL!TypeOK, CL!QueueInv, NEW m \in CL!Links, CL!Land(m), UNCHANGED layer
  PROVE  /\ CL!QueueInv' /\ \A k, l \in Image : CL!Told(k, l)' <=> CL!Told(k, l)
         /\ CL!Grants' = CL!Grants
         /\ \A k \in Image : req'[k].locked = req[k].locked
  <1> DEFINE i == m.to
  <1> USE ImagesAssumption
  <1>1. PICK j \in Image : CL!LinkOf(m, j)
    BY DEF CL!QueueInv, CL!LinkInv
  <1>2. /\ i \in Image /\ CL!Queued(i) /\ tail # i
        /\ \A a \in Image : ~CL!Points(a, i)
        /\ \A n \in CL!Links : n.to = i => n = m
    BY DEF CL!QueueInv, CL!LinkInv
  <1>3. ~CL!Whole(i)
    BY <1>1, LinkNotWhole
  <1>4. UNCHANGED <<tail, imagePc, found>>
    BY DEF CL!Land
  <1>5. /\ \/ net' = net \ {m} /\ CL!Whole(i)' /\ req'[i].image = j
           \/ \E r : /\ net' = (net \ {m}) \cup {r} /\ r.to = i /\ r # CL!Grant(r.to)
                     /\ CL!LinkOf(r, j)'
        /\ \A k \in Image : /\ req'[k].locked = req[k].locked
                            /\ k # i => req'[k] = req[k]
    BY <1>1, <1>2, WordOfLink
  <1>6. PICK R : /\ \/ R = {} /\ CL!Whole(i)' /\ req'[i].image = j
                    \/ \E r : R = {r} /\ r.to = i /\ r # CL!Grant(r.to) /\ CL!LinkOf(r, j)'
                 /\ net' = (net \ {m}) \cup R
    <2>1. CASE net' = net \ {m} /\ CL!Whole(i)' /\ req'[i].image = j
      <3>1. net' = (net \ {m}) \cup {}
        BY <2>1
      <3> QED BY <2>1, <3>1
    <2>2. CASE ~(net' = net \ {m} /\ CL!Whole(i)' /\ req'[i].image = j)
      BY <1>5, <2>2
    <2> QED BY <2>1, <2>2
  <1>7. CL!Links' = (CL!Links \ {m}) \cup R /\ CL!Grants' = CL!Grants
    BY <1>6 DEF CL!Links, CL!Grants
  <1>8. \A k \in Image \ {i} : (CL!Blank(k)' <=> CL!Blank(k)) /\ (CL!Whole(k)' <=> CL!Whole(k))
    BY <1>5 DEF CL!Blank, CL!Whole, CL!Landed
  <1>9. ASSUME NEW n \in CL!Links \ {m}, NEW k \in Image
        PROVE  n.to \in Image \ {i} /\ (CL!LinkOf(n, k)' <=> CL!LinkOf(n, k))
    <2>1. n.to \in Image \ {i}
      BY <1>2 DEF CL!QueueInv, CL!LinkInv
    <2> QED BY <1>5, <2>1, SameLanded
  <1> HIDE DEF i
  <1>10. ASSUME NEW k \in Image, NEW l \in Image PROVE CL!Told(k, l)' <=> CL!Told(k, l)
    <2>1. CASE k = i
      <3>1. CL!Told(i, l) <=> l = j
        BY <1>1, <1>2, <1>3, OneAnnounced DEF CL!Told, i
      <3>2. CASE R = {} /\ CL!Whole(i)' /\ req'[i].image = j
        BY <1>7, <1>9, <2>1, <3>1, <3>2 DEF CL!Told
      <3>3. CASE \E r : R = {r} /\ r.to = i /\ r # CL!Grant(r.to) /\ CL!LinkOf(r, j)'
        <4>1. PICK r : R = {r} /\ r.to = i /\ r # CL!Grant(r.to) /\ CL!LinkOf(r, j)'
          BY <3>3
        <4>2. CL!LinkOf(r, l)' <=> l = j
          BY <4>1, OneAnnouncedNext
        <4>3. ~CL!Whole(i)'
          BY <4>1 DEF CL!LinkOf, CL!Landed, CL!Blank, CL!Whole
        <4> QED BY <1>7, <1>9, <2>1, <3>1, <4>1, <4>2, <4>3 DEF CL!Told
      <3> QED BY <1>6, <3>2, <3>3
    <2>2. CASE k # i
      <3>1. \A r \in R : r.to = i
        BY <1>6
      <3> QED BY <1>5, <1>7, <1>8, <1>9, <2>2, <3>1 DEF CL!Told, i
    <2> QED BY <2>1, <2>2
  <1>11. /\ \A k \in Image : CL!Queued(k)' <=> CL!Queued(k)
         /\ \A a, k \in Image : CL!Points(a, k)' <=> CL!Points(a, k)
    BY <1>4 DEF CL!Queued, CL!Points
  <1>12. CL!PointInv'
    <2>1. CL!Whole(i)' \/ \E n \in CL!Links' : n.to = i
      BY <1>6, <1>7
    <2>2. \A k \in Image \ {i} : CL!Blank(k)' \/ CL!Whole(k)' \/ \E n \in CL!Links' : n.to = k
      BY <1>7, <1>8 DEF CL!QueueInv, CL!PointInv, i
    <2> QED BY <1>2, <1>4, <1>8, <1>11, <2>1, <2>2
               DEF CL!QueueInv, CL!PointInv, i
  <1>13. CL!LinkInv'
    <2>1. ASSUME NEW n \in CL!Links'
          PROVE  /\ n.to \in Image /\ CL!Queued(n.to)' /\ n.to # tail'
                 /\ \A a \in Image : ~CL!Points(a, n.to)'
                 /\ \E l \in Image : CL!LinkOf(n, l)'
      <3>1. CASE n \in R
        <4>1. n.to = i /\ CL!LinkOf(n, j)'
          BY <1>6, <3>1
        <4> QED BY <1>2, <1>4, <1>11, <4>1 DEF i
      <3>2. CASE n \in CL!Links \ {m}
        BY <1>4, <1>9, <1>11, <3>2 DEF CL!QueueInv, CL!LinkInv
      <3> QED BY <1>7, <3>1, <3>2
    <2>2. \A n \in CL!Links' : (n \in R <=> n.to = i) /\ \A o \in R : n \in R => n = o
      BY <1>6, <1>7, <1>9
    <2>3. ASSUME NEW n \in CL!Links', NEW o \in CL!Links', n.to = o.to PROVE n = o
      BY <1>7, <2>2, <2>3 DEF CL!QueueInv, CL!LinkInv
    <2> QED BY <2>1, <2>3 DEF CL!LinkInv
  <1>14. CL!ToldInv' /\ CL!GrantInv'
    <2>1. \A k \in Image : CL!Grant(k) \in net' <=> CL!Grant(k) \in net
      <3>1. \A k \in Image : CL!Grant(k).to = k
        BY DEF CL!Grant
      <3> QED BY <1>7, <3>1 DEF CL!Grants
    <2> QED BY <1>4, <1>5, <1>7, <1>10, <2>1
               DEF CL!QueueInv, CL!ToldInv, CL!GrantInv
  <1>15. CL!NextInv'
    BY <1>4, <1>10 DEF CL!QueueInv, CL!NextInv, CL!UnlockByCswap,
                       CL!Queued
  <1> QED BY <1>5, <1>7, <1>10, <1>12, <1>13, <1>14, <1>15 DEF CL!QueueInv

LEMMA QueueStep == CL!IInv /\ CL!QueueInv /\ [CL!Next]_(CL!vars) => CL!QueueInv'
  <1> SUFFICES ASSUME CL!IInv, CL!QueueInv, [CL!Next]_(CL!vars) PROVE CL!QueueInv'
    OBVIOUS
  <1>1. CL!TypeOK /\ CL!OneOwner /\ CL!HasVictims
    BY DEF CL!IInv
  <1>2. ASSUME NEW i \in Image, UNCHANGED layer,
               CL!LockSteps(i) \/ CL!Unlock(i) \/ CL!Progress(i)
        PROVE  CL!QueueInv'
    <2>1. CASE CL!Link(i)
      BY <1>1, <1>2, <2>1, LinkStep
    <2>2. CASE CL!PassOn(i)
      BY <1>1, <1>2, <2>2, PassLinkStep, PassLockStep
    <2>3. CASE ~CL!Link(i) /\ ~CL!PassOn(i)
      BY <1>1, <1>2, <2>3, QuietStep DEF CL!LockSteps, CL!Progress
    <2> QED BY <2>1, <2>2, <2>3
  <1>3. ASSUME NEW m \in net, UNCHANGED layer, CL!Land(m) PROVE CL!QueueInv'
    <2>1. CASE m = CL!Grant(m.to)
      BY <1>1, <1>3, <2>1, LandGrantStep
    <2>2. CASE m # CL!Grant(m.to)
      BY <1>1, <1>3, <2>2, LandLinkStep DEF CL!Links, CL!Grants
    <2> QED BY <2>1, <2>2
  <1>4. CASE UNCHANGED CL!vars
    <2>1. UNCHANGED <<layer, tail, req, imagePc, found, net>>
      BY <1>4 DEF CL!vars
    <2>2. /\ CL!Links' = CL!Links
          /\ \A k \in Image : (CL!Blank(k)' <=> CL!Blank(k)) /\ (CL!Whole(k)' <=> CL!Whole(k))
          /\ \A m \in CL!Links : \A j \in Image : CL!LinkOf(m, j)' <=> CL!LinkOf(m, j)
          /\ \A k, j \in Image : CL!Told(k, j)' <=> CL!Told(k, j)
          /\ CL!ToldInv' /\ CL!GrantInv'
      BY <2>1, Quiet
    <2> QED
      BY <2>1, <2>2 DEF CL!QueueInv, CL!PointInv, CL!LinkInv,
                        CL!NextInv, CL!UnlockByCswap, CL!Points,
                        CL!Queued
  <1> QED
    BY <1>2, <1>3, <1>4 DEF CL!Next, CL!Landing

LEMMA QueueInvariance == LocksSpec => []CL!QueueInv
  <1>1. LocksInit => CL!QueueInv
    BY QueueStart DEF LocksInit
  <1> QED BY <1>1, EachAlone, CoarrayInvariance, QueueStep, PTL DEF LocksSpec

\* lock.c:158-163, 247-249, 333-347: for every number of images and every layer, a
\* remote write lands in a request that is still allocated and waits for it.
THEOREM NoStrayWriteHolds == LocksSpec => []NoStrayWrite
  <1>1. CL!QueueInv => CL!NoStrayWrite
    <2> SUFFICES ASSUME CL!QueueInv, NEW m \in net
                 PROVE  IF m \in CL!Grants
                          THEN imagePc[m.to] = "waiting" /\ req[m.to].locked = 1
                          ELSE /\ imagePc[m.to] # "out"
                               /\ ~(req[m.to].done = 1 /\ req[m.to].image # NoImage)
      BY DEF CL!NoStrayWrite
    <2>1. CASE m \in CL!Grants
      <3>1. m.to \in Image /\ CL!Grant(m.to) \in net
        BY <2>1 DEF CL!QueueInv, CL!GrantInv, CL!Grants
      <3> QED BY <2>1, <3>1 DEF CL!QueueInv, CL!ToldInv
    <2>2. CASE m \notin CL!Grants
      <3>1. m \in CL!Links
        BY <2>2 DEF CL!Links
      <3>2. m.to \in Image /\ CL!Queued(m.to)
        BY <3>1 DEF CL!QueueInv, CL!LinkInv
      <3>3. req[m.to].done = 0 \/ req[m.to].image = NoImage
        BY <3>1, <3>2, WholeWhenSeen
      <3> QED BY <2>2, <3>2, <3>3 DEF CL!Queued
    <2> QED BY <2>1, <2>2
  <1> QED
    BY <1>1, QueueInvariance, PTL DEF NoStrayWrite

\* lock.c:240-249: for every number of images and every layer, and whichever end of a
\* link lands first, the offset of a successor is there when its image is.
THEOREM WholeLinkHolds == LocksSpec => []WholeLink
  <1>1. CL!QueueInv => CL!WholeLink
    BY WholeWhenSeen DEF CL!WholeLink, CL!Whole, CL!Landed
  <1> QED
    BY <1>1, QueueInvariance, PTL DEF WholeLink

-----------------------------------------------------------------------------
(* The order in which the coarray lock is handed on                        *)

LEMMA OrderStart == CL!Init /\ CL!NobodyAhead => CL!OrderInv
  BY DEF CL!Init, CL!NobodyAhead, CL!OrderInv, CL!InQueue, CL!Queued, CL!Told, CL!Links,
         CL!Whole, CL!NewRequest

\* Who is served is in the queue.
LEMMA InQueueServed ==
  ASSUME CL!TypeOK, CL!QueueInv, CL!UnlockByCswap, NEW i \in Image, CL!Served(i)
  PROVE  i \in CL!InQueue
  BY DEF CL!Served, CL!Owns, CL!InQueue, CL!Queued, CL!QueueInv, CL!ToldInv

\* Steps that move nobody into the queue or out of it, and serve nobody new.
LEMMA SameOrder ==
  ASSUME CL!OrderInv, CL!UnlockByCswap, UNCHANGED <<layer, tail>>, CL!KeepOrder,
         \A k \in Image : CL!Queued(k)' <=> CL!Queued(k),
         \A k \in Image : CL!Served(k)' <=> CL!Served(k),
         \A k \in Image : CL!Served(k) \/ found'[k] = found[k],
         \A k, l \in Image : CL!Told(k, l)' => found'[l] = k
  PROVE  CL!OrderInv'
  <1>1. CL!InQueue' = CL!InQueue
    BY DEF CL!InQueue
  <1>2. ahead' = [k \in Image |-> ahead[k] \cap CL!InQueue]
    BY <1>1 DEF CL!KeepOrder
  <1>3. \A k \in Image : ahead'[k] = ahead[k]
    BY <1>2 DEF CL!OrderInv
  <1>4. tail # NoImage => tail \in Image
    BY DEF CL!OrderInv, CL!InQueue
  <1> QED BY <1>1, <1>3, <1>4 DEF CL!OrderInv, CL!UnlockByCswap, CL!InQueue

\* Whoever comes gets behind everyone who is there.
LEMMA Comes ==
  ASSUME CL!OrderInv, CL!UnlockByCswap, CL!KeepOrder, UNCHANGED layer,
         NEW i \in Image, ~CL!Queued(i), CL!Queued(i)', tail' = i,
         \A k \in Image \ {i} : /\ CL!Queued(k)' <=> CL!Queued(k)
                                /\ CL!Served(k)' <=> CL!Served(k)
                                /\ found'[k] = found[k],
         IF tail = NoImage THEN CL!Served(i)' ELSE ~CL!Served(i)' /\ found'[i] = tail,
         i # NoImage,
         \A k, l \in Image : CL!Told(k, l)' => l # i /\ CL!Told(k, l)
  PROVE  CL!OrderInv'
  <1>1. CL!InQueue' = CL!InQueue \cup {i} /\ i \notin CL!InQueue
    BY DEF CL!InQueue
  <1>2. ahead' = [k \in Image |-> IF k = i THEN CL!InQueue ELSE ahead[k] \cap CL!InQueue']
    BY DEF CL!KeepOrder
  <1>3. ahead'[i] = CL!InQueue /\ \A k \in Image \ {i} : ahead'[k] = ahead[k]
    BY <1>1, <1>2 DEF CL!OrderInv
  <1>4. CL!UnlockByCswap'
    BY DEF CL!UnlockByCswap
  <1>5. CL!InQueue' = ahead'[tail'] \cup {tail'}
    BY <1>1, <1>3
  <1>6. ASSUME NEW k \in CL!InQueue'
        PROVE  /\ k \notin ahead'[k]
               /\ IF CL!Served(k)' THEN ahead'[k] = {}
                  ELSE found'[k] \in CL!InQueue' /\ ahead'[k] = ahead'[found'[k]] \cup {found'[k]}
    <2>1. CASE k = i
      BY <1>1, <1>3, <2>1 DEF CL!OrderInv, CL!InQueue
    <2>2. CASE k # i
      BY <1>1, <1>3, <2>2 DEF CL!OrderInv, CL!InQueue
    <2> QED BY <2>1, <2>2
  <1>7. \A k, l \in CL!InQueue' : k = l \/ k \in ahead'[l] \/ l \in ahead'[k]
    BY <1>1, <1>3 DEF CL!OrderInv, CL!InQueue
  <1>8. \A k \in Image : ahead'[k] \subseteq CL!InQueue'
    BY <1>1, <1>3 DEF CL!OrderInv
  <1>9. \A k, l \in Image : CL!Told(k, l)' => found'[l] = k
    BY DEF CL!OrderInv
  <1> QED BY <1>4, <1>5, <1>6, <1>7, <1>8, <1>9 DEF CL!OrderInv

\* Whoever unlocks with nobody behind it leaves the queue empty.
LEMMA Empties ==
  ASSUME CL!OrderInv, CL!UnlockByCswap, CL!KeepOrder, UNCHANGED layer,
         NEW i \in Image, i # NoImage, tail = i, tail' = NoImage, CL!Served(i),
         ~CL!Queued(i)', \A k \in Image \ {i} : CL!Queued(k)' <=> CL!Queued(k),
         \A k, l \in Image : CL!Told(k, l)' => found'[l] = k
  PROVE  CL!OrderInv'
  <1>1. CL!InQueue = {i}
    BY DEF CL!OrderInv, CL!InQueue
  <1>2. CL!InQueue' = {}
    BY <1>1 DEF CL!InQueue
  <1>3. \A k \in Image : ahead'[k] = {}
    BY <1>2 DEF CL!KeepOrder, CL!InQueue
  <1>4. CL!UnlockByCswap'
    BY DEF CL!UnlockByCswap
  <1> QED BY <1>2, <1>3, <1>4 DEF CL!OrderInv

\* Whoever is served next was right behind the one that unlocks, and alone there.
LEMMA HandsOn ==
  ASSUME CL!OrderInv, CL!UnlockByCswap, CL!KeepOrder, UNCHANGED <<layer, tail>>,
         NEW i \in Image, NEW j \in Image, i # j, tail # i, tail # NoImage, CL!Served(i),
         \A k \in Image : CL!Served(k) => k = i,
         \A k \in Image : CL!Served(k)' => k = j,
         CL!Queued(i), ~CL!Queued(i)', CL!Queued(j), found[j] = i, CL!Served(j)',
         \A k \in Image \ {i} : (CL!Queued(k)' <=> CL!Queued(k)) /\ found'[k] = found[k],
         \A k, l \in Image : CL!Told(k, l)' => l # i /\ CL!Told(k, l)
  PROVE  CL!OrderInv'
  <1>1. CL!InQueue' = CL!InQueue \ {i} /\ i \in CL!InQueue /\ j \in CL!InQueue'
    BY DEF CL!InQueue
  <1>2. ahead' = [k \in Image |-> ahead[k] \cap CL!InQueue']
    BY <1>1 DEF CL!KeepOrder, CL!InQueue
  <1>3. \A k \in Image : ahead'[k] = ahead[k] \ {i}
    BY <1>1, <1>2 DEF CL!OrderInv
  <1>4. CL!UnlockByCswap'
    BY DEF CL!UnlockByCswap
  <1>5. ahead[i] = {} /\ ahead[j] = {i}
    BY <1>1 DEF CL!OrderInv
  <1>6. CL!InQueue' = ahead'[tail'] \cup {tail'}
    <2>1. tail \in Image
      BY DEF CL!OrderInv, CL!InQueue
    <2> QED BY <1>1, <1>3, <2>1 DEF CL!OrderInv
  <1>7. ASSUME NEW k \in CL!InQueue'
        PROVE  /\ k \notin ahead'[k]
               /\ IF CL!Served(k)' THEN ahead'[k] = {}
                  ELSE found'[k] \in CL!InQueue' /\ ahead'[k] = ahead'[found'[k]] \cup {found'[k]}
    <2>1. k \in Image \ {i} /\ k \in CL!InQueue
      BY <1>1 DEF CL!InQueue
    <2>2. CASE k = j
      BY <1>3, <1>5, <2>1, <2>2 DEF CL!OrderInv
    <2>3. CASE k # j
      <3>1. /\ ~CL!Served(k) /\ ~CL!Served(k)' /\ found'[k] = found[k]
            /\ found[k] \in CL!InQueue /\ ahead[k] = ahead[found[k]] \cup {found[k]}
        BY <2>1, <2>3 DEF CL!OrderInv
      <3>2. found[k] # i
        <4>1. j \in CL!InQueue
          BY <1>1
        <4>2. k \in ahead[j] \/ j \in ahead[k]
          BY <2>1, <2>3, <4>1 DEF CL!OrderInv
        <4>3. SUFFICES ASSUME found[k] = i PROVE FALSE
          OBVIOUS
        <4>4. ahead[k] = {i}
          BY <1>5, <3>1, <4>3
        <4> QED BY <1>5, <2>1, <4>2, <4>4
      <3>3. found[k] \in Image
        BY <3>1 DEF CL!InQueue
      <3>4. ahead'[k] = ahead[k] \ {i} /\ ahead'[found[k]] = ahead[found[k]] \ {i}
        BY <1>3, <2>1, <3>3
      <3> QED BY <1>1, <2>1, <3>1, <3>2, <3>4 DEF CL!OrderInv
    <2> QED BY <2>2, <2>3
  <1>8. \A k, l \in CL!InQueue' : k = l \/ k \in ahead'[l] \/ l \in ahead'[k]
    BY <1>1, <1>3 DEF CL!OrderInv, CL!InQueue
  <1>9. \A k \in Image : ahead'[k] \subseteq CL!InQueue'
    BY <1>1, <1>3 DEF CL!OrderInv
  <1>10. \A k, l \in Image : CL!Told(k, l)' => found'[l] = k
    BY DEF CL!OrderInv
  <1> QED BY <1>4, <1>6, <1>7, <1>8, <1>9, <1>10 DEF CL!OrderInv

LEMMA OrderStep ==
  CL!IInv /\ CL!QueueInv /\ CL!OrderInv /\ [CL!Next /\ CL!KeepOrder]_<<CL!vars, ahead>>
    => CL!OrderInv'
  <1> SUFFICES ASSUME CL!IInv, CL!QueueInv, CL!OrderInv, CL!UnlockByCswap',
                      [CL!Next /\ CL!KeepOrder]_<<CL!vars, ahead>>
               PROVE  CL!OrderInv'
    BY DEF CL!OrderInv
  <1> USE ImagesAssumption
  <1>1. CL!UnlockByCswap /\ UNCHANGED layer
    BY DEF CL!UnlockByCswap, CL!Next, CL!vars
  <1>2. CL!TypeOK /\ CL!OneOwner /\ CL!HasVictims /\ CL!EmptyMeansFree
    BY DEF CL!IInv
  <1>3. \A k, l \in Image : CL!Told(k, l) => found[l] = k /\ imagePc[l] = "waiting"
    BY <1>1 DEF CL!OrderInv, CL!QueueInv, CL!ToldInv
  <1>4. ASSUME NEW i \in Image, CL!Lock(i) \/ (CL!TryLock(i) /\ imagePc'[i] # "held"),
               CL!KeepOrder
        PROVE  CL!OrderInv'
    <2>1. CL!QueueInv' /\ \A k, l \in Image : CL!Told(k, l)' <=> CL!Told(k, l)
      BY <1>1, <1>2, <1>4, QuietStep
    <2>2. /\ UNCHANGED <<tail, found, net>> /\ imagePc[i] = "out" /\ imagePc'[i] \in {"out", "enqueue"}
          /\ \A k \in Image \ {i} : imagePc'[k] = imagePc[k] /\ req'[k] = req[k]
      BY <1>1, <1>2, <1>4 DEF CL!Lock, CL!TryLock, CL!At, CL!TypeOK
    <2>3. \A k \in Image : (CL!Queued(k)' <=> CL!Queued(k)) /\ (CL!Served(k)' <=> CL!Served(k))
      BY <2>2 DEF CL!Queued, CL!Served, CL!Owns
    <2> QED BY <1>1, <1>3, <1>4, <2>1, <2>2, <2>3, SameOrder
  <1>5. ASSUME NEW i \in Image, CL!Enqueue(i) \/ (CL!TryLock(i) /\ imagePc'[i] = "held"),
               CL!KeepOrder
        PROVE  CL!OrderInv'
    <2>1. CL!QueueInv' /\ \A k, l \in Image : CL!Told(k, l)' <=> CL!Told(k, l)
      BY <1>1, <1>2, <1>5, QuietStep
    <2>2. /\ tail' = i /\ net' = net /\ imagePc[i] \in {"out", "enqueue"}
          /\ IF tail = NoImage THEN imagePc'[i] = "held"
                               ELSE imagePc'[i] = "link" /\ found'[i] = tail
          /\ \A k \in Image \ {i} : imagePc'[k] = imagePc[k] /\ req'[k] = req[k] /\ found'[k] = found[k]
      BY <1>1, <1>2, <1>5 DEF CL!Enqueue, CL!TryLock, CL!At, CL!TypeOK
    <2>3. /\ ~CL!Queued(i) /\ CL!Queued(i)'
          /\ \A k \in Image \ {i} : (CL!Queued(k)' <=> CL!Queued(k)) /\ (CL!Served(k)' <=> CL!Served(k))
      BY <2>2 DEF CL!Queued, CL!Served, CL!Owns
    <2>4. CL!Grant(i) \notin net
      BY <2>2 DEF CL!QueueInv, CL!ToldInv
    <2>5. IF tail = NoImage THEN CL!Served(i)' ELSE ~CL!Served(i)' /\ found'[i] = tail
      BY <2>2, <2>4 DEF CL!Served, CL!Owns
    <2>6. \A k, l \in Image : CL!Told(k, l)' => l # i /\ CL!Told(k, l)
      BY <1>3, <2>1, <2>2
    <2> QED BY <1>1, <1>5, <2>2, <2>3, <2>5, <2>6, Comes
  <1>6. ASSUME NEW i \in Image, CL!Granted(i) \/ CL!Unlock(i) \/ CL!KeepTail(i), CL!KeepOrder
        PROVE  CL!OrderInv'
    <2>1. CL!QueueInv' /\ \A k, l \in Image : CL!Told(k, l)' <=> CL!Told(k, l)
      BY <1>1, <1>2, <1>6, QuietStep
    <2>2. /\ UNCHANGED <<tail, net, req>>
          /\ \A k \in Image \ {i} : imagePc'[k] = imagePc[k] /\ found'[k] = found[k]
      BY <1>2, <1>6 DEF CL!Granted, CL!Unlock, CL!KeepTail, CL!At, CL!TypeOK
    <2>3. /\ imagePc[i] \in {"waiting", "held", "dequeue"} /\ CL!Owns(i)
          /\ imagePc'[i] \in {"held", "dequeue", "await"} /\ CL!Owns(i)'
          /\ imagePc[i] = "waiting" => req[i].locked = 0
      BY <1>2, <1>6 DEF CL!Granted, CL!Unlock, CL!KeepTail, CL!At, CL!TypeOK, CL!Owns,
                        CL!QueueInv, CL!PointInv
    <2>4. \A k \in Image : (CL!Queued(k)' <=> CL!Queued(k)) /\ (CL!Served(k)' <=> CL!Served(k))
      BY <2>2, <2>3 DEF CL!Queued, CL!Served, CL!Owns
    <2>5. \A k \in Image : CL!Served(k) \/ found'[k] = found[k]
      BY <2>2, <2>3 DEF CL!Served
    <2>6. \A k, l \in Image : CL!Told(k, l)' => found'[l] = k
      <3>1. \A k \in Image : ~CL!Told(k, i)
        BY <2>3 DEF CL!QueueInv, CL!ToldInv
      <3> QED BY <1>3, <2>1, <2>2, <3>1
    <2> QED BY <1>1, <1>6, <2>2, <2>4, <2>5, <2>6, SameOrder
  <1>7. ASSUME NEW i \in Image, CL!Release(i), CL!KeepOrder PROVE CL!OrderInv'
    <2>1. CL!QueueInv' /\ \A k, l \in Image : CL!Told(k, l)' <=> CL!Told(k, l)
      BY <1>1, <1>2, <1>7, QuietStep
    <2>2. /\ tail = i /\ tail' = NoImage /\ imagePc[i] = "dequeue" /\ imagePc'[i] = "out"
          /\ \A k \in Image \ {i} : imagePc'[k] = imagePc[k] /\ found'[k] = found[k]
      BY <1>2, <1>7 DEF CL!Release, CL!FreeRequest, CL!At, CL!TypeOK
    <2>3. /\ CL!Served(i) /\ ~CL!Queued(i)'
          /\ \A k \in Image \ {i} : CL!Queued(k)' <=> CL!Queued(k)
      BY <2>2 DEF CL!Served, CL!Owns, CL!Queued
    <2>4. \A k, l \in Image : CL!Told(k, l)' => found'[l] = k
      BY <1>3, <2>1, <2>2
    <2> QED BY <1>1, <1>7, <2>2, <2>3, <2>4, Empties
  <1>8. ASSUME NEW i \in Image, CL!Link(i), CL!KeepOrder PROVE CL!OrderInv'
    <2>1. \A k, l \in Image : CL!Told(k, l)' => (k = found[i] /\ l = i) \/ CL!Told(k, l)
      BY <1>1, <1>2, <1>8, LinkStep
    <2>2. /\ UNCHANGED <<tail, found>> /\ imagePc[i] = "link" /\ imagePc'[i] = "waiting"
          /\ req'[i].locked = 1
          /\ \A k \in Image \ {i} : imagePc'[k] = imagePc[k] /\ req'[k] = req[k]
      BY <1>2, <1>8 DEF CL!Link, CL!At, CL!TypeOK
    <2>3. PICK m \in CL!LinkWrites(found[i], i, i, 1) : net' = net \cup {m}
      BY <1>8 DEF CL!Link
    <2>4. m # CL!Grant(m.to)
      BY <2>3, LinkIsNoGrant
    <2>5. \A k \in Image : CL!Grant(k) \in net' <=> CL!Grant(k) \in net
      BY <2>3, <2>4 DEF CL!Grant
    <2>6. \A k \in Image : (CL!Queued(k)' <=> CL!Queued(k)) /\ (CL!Served(k)' <=> CL!Served(k))
      BY <2>2, <2>5 DEF CL!Queued, CL!Served, CL!Owns
    <2> QED BY <1>1, <1>3, <1>8, <2>1, <2>2, <2>6, SameOrder
  <1>9. ASSUME NEW i \in Image, CL!PassOn(i), CL!KeepOrder PROVE CL!OrderInv'
    <2>1. /\ imagePc[i] = "await" /\ found[i] = NoImage /\ CL!Owns(i)
          /\ imagePc' = [imagePc EXCEPT ![i] = "out"] /\ tail' = tail
          /\ found' = [found EXCEPT ![i] = NoImage]
          /\ req' = [req EXCEPT ![i] = CL!NewRequest]
          /\ net' = net \cup {CL!Grant(req[i].ofst)}
          /\ CL!Whole(i) /\ req[i].image # NoImage
      BY <1>1, <1>9, WholeWhenSeen
         DEF CL!PassOn, CL!FreeRequest, CL!At, CL!Owns, CL!QueueInv, CL!NextInv
    <2>2. PICK j \in Image : j = req[i].image /\ CL!Told(i, j) /\ req[i].ofst = j
      BY <1>2, <2>1 DEF CL!TypeOK, CL!Told, CL!Whole, CL!Landed
    <2>3. \A k, l \in Image : CL!Told(k, l)' => CL!Told(k, l)
      BY <1>1, <1>2, <1>9, <2>1, PassLockStep
    <2>4. /\ imagePc[j] = "waiting" /\ found[j] = i /\ i # j
          /\ \A k \in Image : ~CL!Told(k, i)
      BY <1>3, <2>1, <2>2 DEF CL!QueueInv, CL!ToldInv
    <2>5. tail # i /\ tail # NoImage
      BY <1>2, <2>1 DEF CL!QueueInv, CL!PointInv, CL!Blank, CL!Whole, CL!Landed,
                        CL!EmptyMeansFree
    <2>6. \A k \in Image \ {i} : /\ imagePc'[k] = imagePc[k] /\ found'[k] = found[k]
                                 /\ req'[k] = req[k]
      BY <1>2, <2>1 DEF CL!TypeOK
    <2>7. imagePc'[i] = "out"
      BY <1>2, <2>1 DEF CL!TypeOK
    <2>8. \A k \in Image : CL!Grant(k) \notin net
      <3>1. \A k \in Image : CL!Grant(k) \in net => CL!Grant(k) \in CL!Grants
        BY DEF CL!Grants, CL!Grant
      <3> QED BY <1>2, <2>1, <3>1 DEF CL!OneOwner
    <2>9. \A k \in Image : CL!Grant(k) \in net' <=> k = j
      <3>1. \A k \in Image : CL!Grant(k) = CL!Grant(j) => k = j
        BY DEF CL!Grant
      <3> QED BY <2>1, <2>2, <2>8, <3>1
    <2>10. /\ CL!Served(i) /\ CL!Served(j)'
           /\ \A k \in Image : CL!Served(k) => k = i
           /\ \A k \in Image : CL!Served(k)' => k = j
      <3>1. \A k \in Image : CL!Owns(k) => k = i
        BY <1>2, <2>1 DEF CL!OneOwner
      <3>2. \A k \in Image : ~CL!Owns(k)'
        BY <2>6, <2>7, <3>1 DEF CL!Owns
      <3> QED BY <2>1, <2>8, <2>9, <3>1, <3>2 DEF CL!Served
    <2>11. /\ CL!Queued(i) /\ ~CL!Queued(i)' /\ CL!Queued(j)
           /\ \A k \in Image \ {i} : (CL!Queued(k)' <=> CL!Queued(k)) /\ found'[k] = found[k]
      BY <2>1, <2>4, <2>6, <2>7 DEF CL!Queued
    <2>12. \A k, l \in Image : CL!Told(k, l)' => l # i /\ CL!Told(k, l)
      BY <2>3, <2>4
    <2> QED BY <1>1, <1>9, <2>1, <2>4, <2>5, <2>10, <2>11, <2>12, HandsOn
  <1>10. ASSUME NEW m \in net, CL!Land(m), CL!KeepOrder PROVE CL!OrderInv'
    <2>1. UNCHANGED <<tail, imagePc, found>>
      BY <1>10 DEF CL!Land
    <2>2. \A k \in Image : CL!Queued(k)' <=> CL!Queued(k)
      BY <2>1 DEF CL!Queued
    <2>3. CASE m = CL!Grant(m.to)
      <3>1. /\ \A k, l \in Image : CL!Told(k, l)' <=> CL!Told(k, l)
            /\ req' = [req EXCEPT ![m.to].locked = 0]
            /\ net' = net \ {m}
        BY <1>1, <1>2, <1>10, <2>3, LandGrantStep
      <3>2. /\ m.to \in Image /\ imagePc[m.to] = "waiting"
            /\ \A k \in Image : CL!Grant(k) \in net <=> k = m.to
        <4>1. m \in CL!Grants /\ m.to \in Image
          BY <1>10, <2>3 DEF CL!Grants, CL!QueueInv, CL!GrantInv
        <4>2. \A k \in Image : /\ CL!Grant(k).to = k
                               /\ CL!Grant(k) \in net => CL!Grant(k) \in CL!Grants
          BY DEF CL!Grants, CL!Grant
        <4>3. \A k \in Image : CL!Grant(k) \in net => CL!Grant(k) = m
          BY <1>2, <4>1, <4>2 DEF CL!OneOwner
        <4> QED BY <1>10, <2>3, <4>1, <4>2, <4>3 DEF CL!QueueInv, CL!ToldInv
      <3>3. /\ req'[m.to].locked = 0
            /\ \A k \in Image \ {m.to} : req'[k] = req[k]
            /\ \A k \in Image : CL!Grant(k) \notin net'
        BY <1>2, <2>3, <3>1, <3>2 DEF CL!TypeOK
      <3>4. \A k \in Image : CL!Served(k)' <=> CL!Served(k)
        BY <2>1, <3>2, <3>3 DEF CL!Served, CL!Owns
      <3> QED BY <1>1, <1>3, <1>10, <2>1, <2>2, <3>1, <3>4, SameOrder
    <2>4. CASE m # CL!Grant(m.to)
      <3>1. /\ \A k, l \in Image : CL!Told(k, l)' <=> CL!Told(k, l)
            /\ CL!Grants' = CL!Grants
            /\ \A k \in Image : req'[k].locked = req[k].locked
        BY <1>1, <1>2, <1>10, <2>4, LandLinkStep DEF CL!Links, CL!Grants
      <3>2. \A k \in Image : CL!Grant(k) \in net' <=> CL!Grant(k) \in net
        BY <3>1 DEF CL!Grants, CL!Grant
      <3>3. \A k \in Image : CL!Served(k)' <=> CL!Served(k)
        BY <2>1, <3>1, <3>2 DEF CL!Served, CL!Owns
      <3> QED BY <1>1, <1>3, <1>10, <2>1, <2>2, <3>1, <3>3, SameOrder
    <2> QED BY <2>3, <2>4
  <1>11. CASE UNCHANGED <<CL!vars, ahead>>
    <2>1. UNCHANGED <<layer, tail, req, imagePc, found, net, ahead>>
      BY <1>11 DEF CL!vars
    <2> QED BY <2>1 DEF CL!OrderInv, CL!InQueue, CL!Queued, CL!Served, CL!Owns, CL!Told,
                        CL!Links, CL!Grants, CL!LinkOf, CL!Whole, CL!Blank, CL!Landed,
                        CL!UnlockByCswap
  <1>12. \A i \in Image : ~CL!TakeOut(i) /\ ~CL!PutBack(i)
    BY <1>1 DEF CL!TakeOut, CL!PutBack, CL!At, CL!QueueInv, CL!NextInv
  <1>13. ASSUME NEW i \in Image, CL!LockSteps(i) \/ CL!Unlock(i) \/ CL!Progress(i),
                CL!KeepOrder
         PROVE  CL!OrderInv'
    BY <1>4, <1>5, <1>6, <1>7, <1>8, <1>9, <1>12, <1>13 DEF CL!LockSteps, CL!Progress
  <1> QED
    BY <1>10, <1>11, <1>13 DEF CL!Next, CL!Landing

LEMMA OrderInvariance == LocksSpec => []CL!OrderInv
  <1>1. LocksInit => CL!OrderInv
    BY OrderStart DEF LocksInit
  <1> QED BY <1>1, EachAlone, CoarrayInvariance, QueueInvariance, OrderStep, PTL DEF LocksSpec

\* lock.c:145-148, 220-249: for every number of images, with compare-and-swap whoever
\* owns the lock, or is being granted it, has nobody ahead of it.
THEOREM InOrderHolds == LocksSpec => []InOrder
  <1>1. CL!IInv /\ CL!QueueInv /\ CL!OrderInv => CL!InOrder
    BY InQueueServed DEF CL!IInv, CL!InOrder, CL!OrderInv
  <1> QED
    BY <1>1, CoarrayInvariance, QueueInvariance, OrderInvariance, PTL DEF InOrder
=============================================================================
