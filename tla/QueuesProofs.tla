----------------------------- MODULE QueuesProofs -----------------------------
(***************************************************************************)
(* Proofs about the other task queues, for any number of processes, items  *)
(* and slots: the fixed array keeps its assertions and implements          *)
(* WorkDeque, the two-level pool has every task in one place, and the FIFO *)
(* with two locks and the queue without locks implement WorkDeque.         *)
(***************************************************************************)
EXTENDS GrowingProofs

-----------------------------------------------------------------------------
(* Ring arithmetic without "%": how the indices of omp_queue.c move. *)

(* An offset of at most num_slots wraps at most once. *)
LEMMA RingOffset ==
    ASSUME NEW h \in Index, NEW k \in 0..NumSlots
    PROVE  (h + k) % NumSlots = IF h + k < NumSlots THEN h + k ELSE h + k - NumSlots
BY SlotsAssumption, SMT DEF Index

(* (index + 1) % num_slots, as in put_tail and get_head. *)
LEMMA SuccValue ==
    ASSUME NEW i \in Index
    PROVE  /\ Succ(i) = IF i = NumSlots - 1 THEN 0 ELSE i + 1
           /\ Succ(i) \in Index
BY SlotsAssumption, SMT DEF Succ, Index

(* index ? (index - 1) % num_slots : num_slots - 1, as in put_head and get_tail. *)
LEMMA PredValue ==
    ASSUME NEW i \in Index
    PROVE  /\ Pred(i) = IF i = 0 THEN NumSlots - 1 ELSE i - 1
           /\ Pred(i) \in Index
BY SlotsAssumption, SMT DEF Pred, Index

(* The two index updates undo each other. *)
LEMMA SuccPred ==
    ASSUME NEW i \in Index
    PROVE  Succ(Pred(i)) = i /\ Pred(Succ(i)) = i
BY SuccValue, PredValue, SlotsAssumption DEF Index

(* How the distance from head_index to tail_index follows used_slots when
   one of the four moves changes an index. *)
LEMMA RingMoves ==
    ASSUME NEW h \in Index, NEW u \in 0..(NumSlots - 1)
    PROVE  /\ u < NumSlots - 1 => /\ Succ((h + u) % NumSlots) = (h + (u + 1)) % NumSlots
                                 /\ (Pred(h) + (u + 1)) % NumSlots = (h + u) % NumSlots
           /\ u > 0 => /\ Pred((h + u) % NumSlots) = (h + (u - 1)) % NumSlots
                      /\ (Succ(h) + (u - 1)) % NumSlots = (h + u) % NumSlots
<1>1. (h + u) % NumSlots \in Index
    BY RingOffset, SlotsAssumption DEF Index
<1>2. Succ(h) \in Index /\ Pred(h) \in Index
    BY SuccValue, PredValue
<1>3. u < NumSlots - 1 => /\ Succ((h + u) % NumSlots) = (h + (u + 1)) % NumSlots
                          /\ (Pred(h) + (u + 1)) % NumSlots = (h + u) % NumSlots
    <2> HAVE u < NumSlots - 1
    <2>1. u \in 0..NumSlots /\ u + 1 \in 0..NumSlots
        BY SlotsAssumption
    <2>2. (h + (u + 1)) % NumSlots = IF h + (u + 1) < NumSlots
                                     THEN h + (u + 1) ELSE h + (u + 1) - NumSlots
        BY <2>1, RingOffset
    <2>3. (Pred(h) + (u + 1)) % NumSlots = IF Pred(h) + (u + 1) < NumSlots
                                  THEN Pred(h) + (u + 1) ELSE Pred(h) + (u + 1) - NumSlots
        BY <2>1, <1>2, RingOffset
    <2>4. (h + u) % NumSlots = IF h + u < NumSlots THEN h + u ELSE h + u - NumSlots
        BY <2>1, RingOffset
    <2> QED
        BY <2>2, <2>3, <2>4, <1>1, SuccValue, PredValue, SlotsAssumption DEF Index
<1>4. u > 0 => /\ Pred((h + u) % NumSlots) = (h + (u - 1)) % NumSlots
               /\ (Succ(h) + (u - 1)) % NumSlots = (h + u) % NumSlots
    <2> HAVE u > 0
    <2>1. u \in 0..NumSlots /\ u - 1 \in 0..NumSlots
        BY SlotsAssumption
    <2>2. (h + (u - 1)) % NumSlots = IF h + (u - 1) < NumSlots
                                     THEN h + (u - 1) ELSE h + (u - 1) - NumSlots
        BY <2>1, RingOffset
    <2>3. (Succ(h) + (u - 1)) % NumSlots = IF Succ(h) + (u - 1) < NumSlots
                                  THEN Succ(h) + (u - 1) ELSE Succ(h) + (u - 1) - NumSlots
        BY <2>1, <1>2, RingOffset
    <2>4. (h + u) % NumSlots = IF h + u < NumSlots THEN h + u ELSE h + u - NumSlots
        BY <2>1, RingOffset
    <2>5. Pred((h + u) % NumSlots) = IF (h + u) % NumSlots = 0
                                     THEN NumSlots - 1 ELSE ((h + u) % NumSlots) - 1
        BY <1>1, PredValue
    <2>6. Succ(h) = IF h = NumSlots - 1 THEN 0 ELSE h + 1
        BY SuccValue
    <2>7. Pred((h + u) % NumSlots) = (h + (u - 1)) % NumSlots
        BY <2>2, <2>4, <2>5, SlotsAssumption DEF Index
    <2>8. (Succ(h) + (u - 1)) % NumSlots = (h + u) % NumSlots
        BY <2>3, <2>4, <2>6, SlotsAssumption DEF Index
    <2> QED
        BY <2>7, <2>8
<1> QED
    BY <1>3, <1>4

-----------------------------------------------------------------------------
(* The initial state: the empty ring of __ompc_queue_array_init satisfies IInv. *)
LEMMA InitIInv == Init => IInv
<1> SUFFICES ASSUME Init PROVE IInv
    OBVIOUS
<1> USE SlotsAssumption, ItemAssumption, ProcessAssumption DEF Init
<1>1. TypeOK
    BY DEF TypeOK, Index, Ops, Puts, Gets, Steals, Labels
<1>2. LockInv
    BY DEF LockInv, Holding
<1>3. RingInv
    BY RingOffset DEF RingInv, Index
<1>4. EmptyInv /\ ChecksInv /\ MovedInv /\ CallInv
    BY DEF EmptyInv, ChecksInv, MovedInv, CallInv
<1> QED
    BY <1>1, <1>2, <1>3, <1>4 DEF IInv

-----------------------------------------------------------------------------
(* Every step preserves IInv. *)

Inside == {"move", "flag"}
SameQueue == UNCHANGED <<queueVars, isEmpty>>

(* lock1 is the mutual exclusion of the critical section. *)
LEMMA Exclusion ==
    ASSUME IInv, NEW p \in Process, NEW q \in Process,
           pc[p] \in Holding, pc[q] \in Holding
    PROVE  p = q
BY DEF IInv, LockInv

(* A step outside the critical section: only the call of p changes, and p
   neither enters nor leaves the part where it touches the ring. *)
LEMMA OutsideStep ==
    ASSUME IInv, NEW p \in Process, NEW label \in Labels \ {"move", "flag"},
           pc[p] \notin Inside, SameQueue,
           Goto(p, label),
           \A q \in Process \ {p} : op'[q] = op[q] /\ arg'[q] = arg[q] /\ res'[q] = res[q],
           label \notin {"unlock", "return"} => res'[p] = NoItem,
           label = "peek" => op'[p] \notin Puts,
           TypeOK', LockInv'
    PROVE  IInv'
<1> USE SlotsAssumption DEF SameQueue, queueVars, Goto
<1> DEFINE others == Process \ {p}
<1>1. /\ pc' \in [Process -> Labels]
      /\ pc'[p] = label
      /\ \A q \in others : pc'[q] = pc[q]
    BY DEF IInv, TypeOK
<1>2. RingInv'
    BY DEF IInv, RingInv
<1>3. EmptyInv'
    BY <1>1 DEF IInv, EmptyInv, Inside
<1>4. ChecksInv'
    BY <1>1 DEF IInv, ChecksInv
<1>5. MovedInv'
    BY <1>1 DEF IInv, MovedInv, Succ
<1>6. CallInv'
    BY <1>1 DEF IInv, CallInv
<1> QED
    BY <1>2, <1>3, <1>4, <1>5, <1>6 DEF IInv

(* The invocation of a call. *)
LEMMA InvokeIInv == ASSUME IInv, NEW p \in Process, Invoke(p) PROVE IInv'
<1> USE DEF Invoke, Goto, queueVars
<1>1. TypeOK'
    BY DEF IInv, TypeOK, Labels, Ops, Index
<1>2. LockInv'
    BY DEF IInv, TypeOK, LockInv, Holding
<1>3. PICK label \in {"lock", "peek"} :
           Goto(p, label) /\ (label = "peek" => op'[p] \notin Puts)
    BY DEF IInv, TypeOK
<1>4. \A q \in Process \ {p} : op'[q] = op[q] /\ arg'[q] = arg[q] /\ res'[q] = res[q]
    BY DEF IInv, TypeOK
<1>5. res'[p] = NoItem
    BY DEF IInv, CallInv
<1>6. pc[p] \notin Inside /\ SameQueue
    BY DEF Inside, SameQueue
<1>7. label \in Labels \ {"move", "flag"}
    BY DEF Labels
<1> HIDE DEF Invoke
<1> QED
    BY <1>1, <1>2, <1>3, <1>4, <1>5, <1>6, <1>7, OutsideStep

(* The unlocked test of is_empty. *)
LEMMA PeekIInv == ASSUME IInv, NEW p \in Process, Peek(p) PROVE IInv'
<1> USE DEF Peek, Goto, queueVars, callVars
<1>1. TypeOK'
    BY DEF IInv, TypeOK, Labels, Index
<1>2. LockInv'
    BY DEF IInv, TypeOK, LockInv, Holding
<1>3. res'[p] = NoItem
    BY DEF IInv, CallInv
<1>4. PICK label \in {"return", "lock"} : Goto(p, label)
    OBVIOUS
<1>5. pc[p] \notin Inside /\ SameQueue /\ label \in Labels \ {"move", "flag", "peek"}
    BY DEF Inside, SameQueue, Labels
<1> QED
    BY <1>1, <1>2, <1>3, <1>4, <1>5, OutsideStep

(* The lock is taken. *)
LEMMA LockIInv == ASSUME IInv, NEW p \in Process, Lock(p) PROVE IInv'
<1> USE DEF Lock, Goto, queueVars, callVars
<1>1. TypeOK'
    BY DEF IInv, TypeOK, Labels, Index
<1>2. LockInv'
    BY ProcessAssumption DEF IInv, TypeOK, LockInv, Holding
<1>3. res'[p] = NoItem
    BY DEF IInv, CallInv
<1> QED
    BY <1>1, <1>2, <1>3, OutsideStep DEF SameQueue, Inside, Labels

(* A steal that finds the lock taken. *)
LEMMA GiveUpIInv == ASSUME IInv, NEW p \in Process, GiveUp(p) PROVE IInv'
<1> USE DEF GiveUp, Goto, queueVars, callVars
<1>1. TypeOK'
    BY DEF IInv, TypeOK, Labels, Index
<1>2. LockInv'
    BY DEF IInv, TypeOK, LockInv, Holding
<1> QED
    BY <1>1, <1>2, OutsideStep DEF SameQueue, Inside, Labels

(* The lock is released. *)
LEMMA UnlockIInv == ASSUME IInv, NEW p \in Process, Unlock(p) PROVE IInv'
<1> USE DEF Unlock, Goto, queueVars, callVars
<1>1. TypeOK'
    BY DEF IInv, TypeOK, Labels, Index
<1>2. LockInv'
    BY ProcessAssumption DEF IInv, TypeOK, LockInv, Holding
<1> QED
    BY <1>1, <1>2, OutsideStep DEF SameQueue, Inside, Labels

(* The call returns its result. *)
LEMMA ReturnIInv == ASSUME IInv, NEW p \in Process, Return(p) PROVE IInv'
<1> USE DEF Return, Goto, queueVars, callVars
<1>1. TypeOK'
    BY DEF IInv, TypeOK, Labels, Index, Ops, Gets
<1>2. LockInv'
    BY DEF IInv, TypeOK, LockInv, Holding
<1>3. /\ res'[p] = NoItem
      /\ \A q \in Process \ {p} : op'[q] = op[q] /\ arg'[q] = arg[q] /\ res'[q] = res[q]
    BY DEF IInv, TypeOK
<1> QED
    BY <1>1, <1>2, <1>3, OutsideStep DEF SameQueue, Inside, Labels

(* The test made with the lock held. *)
LEMMA CheckIInv == ASSUME IInv, NEW p \in Process, Check(p) PROVE IInv'
<1> USE DEF Check, Goto, queueVars, callVars
<1>1. TypeOK'
    BY DEF IInv, TypeOK, Labels, Index
<1>2. LockInv'
    BY DEF IInv, TypeOK, LockInv, Holding
<1>3. RingInv'
    BY DEF IInv, RingInv
<1>4. \A q \in Process : pc[q] # "flag" /\ pc'[q] # "flag"
    BY Exclusion DEF IInv, TypeOK, Holding
<1>5. EmptyInv'
    BY <1>4 DEF IInv, EmptyInv
<1>6. ChecksInv'
    <2> SUFFICES ASSUME NEW q \in Process, pc'[q] = "move"
                 PROVE  IF op[q] \in Puts THEN usedSlots < NumSlots - 1 ELSE usedSlots > 0
        BY DEF ChecksInv
    <2>1. q = p
        BY Exclusion DEF IInv, TypeOK, Holding
    <2>2. CASE op[p] \in Puts
        BY <2>1, <2>2, SlotsAssumption DEF IInv, TypeOK, Full
    <2>3. CASE op[p] \notin Puts
        BY <2>1, <2>3, <1>4 DEF IInv, TypeOK, EmptyInv
    <2> QED
        BY <2>2, <2>3
<1>7. MovedInv'
    BY <1>4 DEF MovedInv
<1>8. CallInv'
    BY DEF IInv, TypeOK, CallInv
<1> QED
    BY <1>1, <1>2, <1>3, <1>5, <1>6, <1>7, <1>8 DEF IInv

(* Facts every update of the ring needs: p alone is in the critical section. *)
LEMMA Alone ==
    ASSUME IInv, NEW p \in Process, pc[p] \in Inside
    PROVE  /\ \A q \in Process \ {p} : pc[q] \notin Holding
           /\ pc[p] = "move" => (isEmpty <=> usedSlots = 0)
BY Exclusion DEF IInv, EmptyInv, Inside, Holding

(* put_tail writes the slot after the last item. *)
LEMMA PutTailIInv == ASSUME IInv, NEW p \in Process, MovePutTail(p) PROVE IInv'
<1> USE SlotsAssumption DEF MovePutTail, Goto, callVars
<1>1. /\ usedSlots < NumSlots - 1
      /\ \A q \in Process \ {p} : pc[q] \notin Holding
      /\ isEmpty <=> usedSlots = 0
    BY Alone DEF IInv, ChecksInv, Puts, Inside
<1>2. TypeOK'
    BY <1>1, SuccValue DEF IInv, TypeOK, Labels, Index
<1>3. LockInv'
    BY DEF IInv, TypeOK, LockInv, Holding
<1>4. RingInv'
    <2>1. headIndex \in Index /\ usedSlots \in 0..(NumSlots - 1)
        BY DEF IInv, TypeOK
    <2> QED
        BY <1>1, <2>1, RingMoves DEF IInv, RingInv
<1>5. \A q \in Process : pc'[q] \in Holding => q = p
    BY <1>1 DEF IInv, TypeOK
<1>6. pc'[p] = "flag" /\ res'[p] = arg[p] /\ slots'[tailIndex'] = arg[p]
    BY SuccValue DEF IInv, TypeOK
<1>7. EmptyInv'
    BY <1>1, <1>5, <1>6 DEF IInv, TypeOK, EmptyInv, Holding, Puts
<1>8. ChecksInv'
    BY <1>5, <1>6 DEF ChecksInv, Holding
<1>9. MovedInv'
    BY <1>5, <1>6 DEF MovedInv, Holding, FromHead, FromTail
<1>10. CallInv'
    BY <1>6 DEF IInv, TypeOK, CallInv
<1> QED
    BY <1>2, <1>3, <1>4, <1>7, <1>8, <1>9, <1>10 DEF IInv

(* put_head writes the free slot before the first item. *)
LEMMA PutHeadIInv == ASSUME IInv, NEW p \in Process, MovePutHead(p) PROVE IInv'
<1> USE SlotsAssumption DEF MovePutHead, Goto, callVars
<1>1. /\ usedSlots < NumSlots - 1
      /\ \A q \in Process \ {p} : pc[q] \notin Holding
      /\ isEmpty <=> usedSlots = 0
    BY Alone DEF IInv, ChecksInv, Puts, Inside
<1>2. TypeOK'
    BY <1>1, PredValue DEF IInv, TypeOK, Labels, Index
<1>3. LockInv'
    BY DEF IInv, TypeOK, LockInv, Holding
<1>4. RingInv'
    <2>1. headIndex \in Index /\ usedSlots \in 0..(NumSlots - 1)
        BY DEF IInv, TypeOK
    <2> QED
        BY <1>1, <2>1, RingMoves DEF IInv, RingInv
<1>5. \A q \in Process : pc'[q] \in Holding => q = p
    BY <1>1 DEF IInv, TypeOK
<1>6. pc'[p] = "flag" /\ res'[p] = arg[p] /\ slots'[Succ(headIndex')] = arg[p]
    BY SuccPred DEF IInv, TypeOK
<1>7. EmptyInv'
    BY <1>1, <1>5, <1>6 DEF IInv, TypeOK, EmptyInv, Holding, Puts
<1>8. ChecksInv'
    BY <1>5, <1>6 DEF ChecksInv, Holding
<1>9. MovedInv'
    BY <1>5, <1>6 DEF MovedInv, Holding, FromHead, FromTail, Succ
<1>10. CallInv'
    BY <1>6 DEF IInv, TypeOK, CallInv
<1> QED
    BY <1>2, <1>3, <1>4, <1>7, <1>8, <1>9, <1>10 DEF IInv

(* get_head and steal_head read the first item. *)
LEMMA TakeHeadIInv == ASSUME IInv, NEW p \in Process, MoveTakeHead(p) PROVE IInv'
<1> USE SlotsAssumption DEF MoveTakeHead, Goto, callVars
<1>1. /\ usedSlots > 0 /\ op[p] \notin Puts
      /\ \A q \in Process \ {p} : pc[q] \notin Holding
      /\ isEmpty <=> usedSlots = 0
    BY Alone DEF IInv, ChecksInv, Puts, FromHead, Inside
<1>2. TypeOK'
    BY <1>1, SuccValue DEF IInv, TypeOK, Labels, Index
<1>3. LockInv'
    BY DEF IInv, TypeOK, LockInv, Holding
<1>4. RingInv'
    <2>1. headIndex \in Index /\ usedSlots \in 0..(NumSlots - 1)
        BY DEF IInv, TypeOK
    <2> QED
        BY <1>1, <2>1, RingMoves DEF IInv, RingInv
<1>5. \A q \in Process : pc'[q] \in Holding => q = p
    BY <1>1 DEF IInv, TypeOK
<1>6. pc'[p] = "flag" /\ res'[p] = slots'[headIndex']
    BY DEF IInv, TypeOK
<1>7. EmptyInv'
    BY <1>1, <1>5, <1>6 DEF IInv, TypeOK, EmptyInv, Holding
<1>8. ChecksInv'
    BY <1>5, <1>6 DEF ChecksInv, Holding
<1>9. MovedInv'
    BY <1>5, <1>6 DEF MovedInv, Holding, FromHead, FromTail
<1>10. CallInv'
    BY <1>1, <1>6 DEF IInv, TypeOK, CallInv
<1> QED
    BY <1>2, <1>3, <1>4, <1>7, <1>8, <1>9, <1>10 DEF IInv

(* get_tail and steal_tail read the last item. *)
LEMMA TakeTailIInv == ASSUME IInv, NEW p \in Process, MoveTakeTail(p) PROVE IInv'
<1> USE SlotsAssumption DEF MoveTakeTail, Goto, callVars
<1>1. /\ usedSlots > 0 /\ op[p] \notin Puts
      /\ \A q \in Process \ {p} : pc[q] \notin Holding
      /\ isEmpty <=> usedSlots = 0
    BY Alone DEF IInv, ChecksInv, Puts, FromTail, Inside
<1>2. TypeOK'
    BY <1>1, PredValue DEF IInv, TypeOK, Labels, Index
<1>3. LockInv'
    BY DEF IInv, TypeOK, LockInv, Holding
<1>4. RingInv'
    <2>1. headIndex \in Index /\ usedSlots \in 0..(NumSlots - 1)
        BY DEF IInv, TypeOK
    <2> QED
        BY <1>1, <2>1, RingMoves DEF IInv, RingInv
<1>5. \A q \in Process : pc'[q] \in Holding => q = p
    BY <1>1 DEF IInv, TypeOK
<1>6. pc'[p] = "flag" /\ res'[p] = slots'[Succ(tailIndex')]
    BY SuccPred DEF IInv, TypeOK
<1>7. EmptyInv'
    BY <1>1, <1>5, <1>6 DEF IInv, TypeOK, EmptyInv, Holding
<1>8. ChecksInv'
    BY <1>5, <1>6 DEF ChecksInv, Holding
<1>9. MovedInv'
    BY <1>5, <1>6 DEF MovedInv, Holding, FromHead, FromTail, Succ
<1>10. CallInv'
    BY <1>1, <1>6 DEF IInv, TypeOK, CallInv
<1> QED
    BY <1>2, <1>3, <1>4, <1>7, <1>8, <1>9, <1>10 DEF IInv

(* is_empty follows used_slots. *)
LEMMA FlagIInv == ASSUME IInv, NEW p \in Process, Flag(p) PROVE IInv'
<1> USE DEF Flag, Goto, queueVars, callVars
<1>1. TypeOK'
    BY DEF IInv, TypeOK, Labels, Index
<1>2. LockInv'
    BY DEF IInv, TypeOK, LockInv, Holding
<1>3. RingInv'
    BY DEF IInv, RingInv
<1>4. \A q \in Process : pc'[q] # "flag" /\ pc'[q] # "move"
    BY Alone DEF IInv, TypeOK, Inside, Holding
<1>5. isEmpty' <=> usedSlots = 0
    <2>1. CASE op[p] \in Puts
        <3>1. usedSlots > 0
            BY <2>1 DEF IInv, EmptyInv
        <3>2. isEmpty' = FALSE
            BY <2>1
        <3> QED
            BY <3>1, <3>2
    <2>2. CASE op[p] \notin Puts
        <3>1. isEmpty = FALSE
            BY <2>2 DEF IInv, TypeOK, EmptyInv
        <3>2. isEmpty' = (usedSlots = 0)
            BY <2>2, <3>1
        <3> QED
            BY <3>2
    <2> QED
        BY <2>1, <2>2
<1>6. EmptyInv'
    BY <1>4, <1>5 DEF EmptyInv
<1>7. ChecksInv' /\ MovedInv'
    BY <1>4 DEF ChecksInv, MovedInv
<1>8. CallInv'
    BY DEF IInv, TypeOK, CallInv
<1> QED
    BY <1>1, <1>2, <1>3, <1>6, <1>7, <1>8 DEF IInv

-----------------------------------------------------------------------------
(* Every reachable state of the queue satisfies the inductive invariant,   *)
(* in particular its typing: the indices stay in the ring and used_slots   *)
(* never reaches num_slots (omp_queue.c:68-288).                           *)
THEOREM Invariance == Spec => []IInv
<1>1. ASSUME IInv, [Next]_vars PROVE IInv'
    <2>1. CASE UNCHANGED vars
        BY <1>1, <2>1 DEF vars, queueVars, callVars, IInv, TypeOK, LockInv, RingInv,
           EmptyInv, ChecksInv, MovedInv, CallInv, Succ
    <2>2. ASSUME NEW p \in Process, Step(p) PROVE IInv'
        BY <1>1, <2>2, InvokeIInv, PeekIInv, LockIInv, GiveUpIInv, CheckIInv,
           PutTailIInv, PutHeadIInv, TakeHeadIInv, TakeTailIInv, FlagIInv,
           UnlockIInv, ReturnIInv DEF Step
    <2> QED
        BY <1>1, <2>1, <2>2 DEF Next
<1> QED
    BY <1>1, InitIInv, PTL DEF Spec

(* The assertions "queue overflow" of the gets and the steals never fail   *)
(* (omp_queue.c:126-128, 159-161, 197-199, 233-235).                       *)
THEOREM Assertions == Spec => []NoOverflow
<1>1. IInv => NoOverflow
    <2> SUFFICES ASSUME IInv, usedSlots # 0 PROVE headIndex # tailIndex
        BY DEF NoOverflow
    <2>1. headIndex \in Index /\ usedSlots \in 1..(NumSlots - 1)
        BY DEF IInv, TypeOK
    <2>2. tailIndex = IF headIndex + usedSlots < NumSlots
                      THEN headIndex + usedSlots ELSE headIndex + usedSlots - NumSlots
        <3>1. usedSlots \in 0..NumSlots
            BY <2>1, SlotsAssumption
        <3> QED
            BY <2>1, <3>1, RingOffset DEF IInv, RingInv
    <2> QED
        BY <2>1, <2>2, SlotsAssumption DEF Index
<1> QED
    BY <1>1, Invariance, PTL

-----------------------------------------------------------------------------
(* The array task queue implements WorkDeque: each step of                 *)
(* omp_queue.c:68-288 is a step of the abstract queue or leaves it alone.  *)

absVars == <<Content, op, arg, AbsPhase, AbsRes>>

(* The content between two updates of the ring. *)
LEMMA ContentSettled ==
    ASSUME IInv, \A q \in Process : pc[q] # "flag"
    PROVE  Content = Ring(headIndex, usedSlots)
BY DEF IInv, TypeOK, Content

(* The content while p has moved the indices and not yet is_empty. *)
LEMMA ContentMoving ==
    ASSUME IInv, NEW p \in Process, pc[p] = "flag"
    PROVE  Content = Before(op[p])
BY ProcessAssumption DEF IInv, LockInv, Holding, Content

(* A step that moves the call of p on and leaves the ring alone. *)
LEMMA ContentKept ==
    ASSUME IInv, IInv', NEW p \in Process, SameQueue,
           pc[p] # "flag", pc'[p] # "flag",
           \A q \in Process \ {p} : pc'[q] = pc[q] /\ op'[q] = op[q]
    PROVE  Content' = Content
<1> USE DEF SameQueue, queueVars
<1>1. CASE \A q \in Process : pc[q] # "flag"
    <2>1. \A q \in Process : pc'[q] # "flag"
        BY <1>1
    <2>2. Content' = Ring(headIndex, usedSlots)'
        BY <2>1 DEF IInv, TypeOK, Content
    <2> QED
        BY <1>1, <2>2, ContentSettled DEF Ring
<1>2. ASSUME NEW q \in Process, pc[q] = "flag" PROVE Content' = Content
    <2>1. q # p /\ pc'[q] = "flag" /\ op'[q] = op[q]
        BY <1>2
    <2>2. Content' = Before(op[q])'
        BY <2>1, ProcessAssumption DEF IInv, LockInv, Holding, Content
    <2>3. Content = Before(op[q])
        BY <1>2, ContentMoving
    <2> QED
        BY <2>1, <2>2, <2>3 DEF Before, Ring, Succ, Pred
<1> QED
    BY <1>1, <1>2

(* How the abstract phase and result follow the label of the call. *)
LEMMA PhaseMoves ==
    ASSUME IInv, NEW p \in Process, NEW label \in Labels, Goto(p, label)
    PROVE  /\ Phase(p) = AbsPhase[p]
           /\ AbsPhase' = [AbsPhase EXCEPT ![p] = 
                  IF label = "idle" THEN "idle"
                  ELSE IF label \in {"unlock", "return"} THEN "done" ELSE "called"]
BY DEF IInv, TypeOK, Goto, Phase, AbsPhase

-----------------------------------------------------------------------------
(* Gets and puts that fail see the abstract queue empty or full. *)

(* is_empty is read as 1, with or without the lock: the queue is empty. *)
LEMMA EmptyContent == ASSUME IInv, isEmpty PROVE Content = <<>>
<1>1. CASE \A q \in Process : pc[q] # "flag"
    <2>1. usedSlots = 0
        BY <1>1 DEF IInv, EmptyInv
    <2>2. Ring(headIndex, 0) = <<>>
        BY DEF Ring
    <2> QED
        BY <1>1, <2>1, <2>2, ContentSettled
<1>2. ASSUME NEW q \in Process, pc[q] = "flag" PROVE Content = <<>>
    <2>1. op[q] \in Puts /\ usedSlots = 1
        BY <1>2 DEF IInv, EmptyInv
    <2>2. Content = Ring(headIndex, 0) \/ Content = Ring(Succ(headIndex), 0)
        BY <1>2, <2>1, ContentMoving DEF Before, Puts
    <2> QED
        BY <2>2 DEF Ring
<1> QED
    BY <1>1, <1>2

(* put finds used_slots at num_slots - 1 with the lock held: it is full. *)
LEMMA FullContent ==
    ASSUME IInv, \A q \in Process : pc[q] # "flag", Full
    PROVE  Len(Content) = NumSlots - 1
BY ContentSettled, SlotsAssumption DEF Full, Ring

-----------------------------------------------------------------------------
(* One lemma per step. *)

(* A call starts. *)
LEMMA InvokeStep == ASSUME IInv, IInv', NEW p \in Process, Invoke(p) PROVE Deque!Call(p)
<1>1. Content' = Content
    BY ContentKept DEF Invoke, Goto, SameQueue, IInv, TypeOK, Puts
<1>2. AbsPhase[p] = "idle" /\ AbsPhase' = [AbsPhase EXCEPT ![p] = "called"]
    BY PhaseMoves DEF Invoke, Phase, Labels
<1>3. AbsRes' = AbsRes
    BY DEF Invoke, Goto, IInv, TypeOK, AbsRes, Phase
<1> QED
    BY <1>1, <1>2, <1>3 DEF Invoke, Deque!Call, Ops, Puts, Gets, Steals,
       Deque!Ops, Deque!Puts, Deque!Gets, Deque!Steals

(* A call returns. *)
LEMMA ReturnStep == ASSUME IInv, IInv', NEW p \in Process, Return(p) PROVE Deque!Return(p)
<1>1. Content' = Content
    BY ContentKept DEF Return, Goto, SameQueue, IInv, TypeOK, callVars
<1>2. AbsPhase[p] = "done" /\ AbsPhase' = [AbsPhase EXCEPT ![p] = "idle"]
    BY PhaseMoves DEF Return, Phase, Labels
<1>3. AbsRes' = [AbsRes EXCEPT ![p] = NoItem]
    BY DEF Return, Goto, IInv, TypeOK, AbsRes, Phase
<1> QED
    BY <1>1, <1>2, <1>3 DEF Return, Deque!Return, callVars

(* A call fails: the abstract call takes effect without an item. *)
LEMMA FailStep ==
    ASSUME IInv, IInv', NEW p \in Process, NEW label \in {"unlock", "return"},
           pc[p] \in {"peek", "lock", "check"}, Goto(p, label),
           SameQueue, UNCHANGED <<op, arg, res>>,
           \/ op[p] \in Puts /\ Len(Content) = NumSlots - 1
           \/ op[p] \notin Puts /\ Content = <<>>
           \/ op[p] \in Steals /\ \E o \in Process \ {p} : pc[o] # "idle"
    PROVE  Deque!Fail(p)
<1>1. Content' = Content
    BY ContentKept DEF Goto, IInv, TypeOK
<1>2. AbsPhase[p] = "called" /\ AbsPhase' = [AbsPhase EXCEPT ![p] = "done"]
    BY PhaseMoves DEF Phase, Labels
<1>3. AbsRes' = [AbsRes EXCEPT ![p] = NoItem]
    BY DEF Goto, IInv, TypeOK, CallInv, AbsRes, Phase
<1>4. \A o \in Process : pc[o] # "idle" => AbsPhase[o] # "idle"
    BY DEF AbsPhase, Phase
<1> QED
    BY <1>1, <1>2, <1>3, <1>4 DEF Deque!Fail, Deque!Done, Deque!Puts, Deque!Steals, Puts, Steals

(* A step within a call that the abstract queue does not see. *)
LEMMA SilentStep ==
    ASSUME IInv, IInv', NEW p \in Process, NEW label \in Labels, Goto(p, label),
           UNCHANGED <<op, arg>>, Content' = Content,
           \/ pc[p] \in {"unlock", "return"} /\ label \in {"unlock", "return"} /\ res' = res
           \/ /\ pc[p] \notin {"idle", "unlock", "return"}
              /\ label \notin {"idle", "unlock", "return"}
              /\ \A q \in Process \ {p} : res'[q] = res[q]
    PROVE  UNCHANGED absVars
<1>1. AbsPhase' = AbsPhase
    BY DEF IInv, TypeOK, Goto, AbsPhase, Phase
<1>2. AbsRes' = AbsRes
    BY DEF IInv, TypeOK, Goto, AbsRes, Phase
<1> QED
    BY <1>1, <1>2 DEF absVars

(* The unlocked test of is_empty: NULL at once, or on to the lock. *)
LEMMA PeekStep ==
    ASSUME IInv, IInv', NEW p \in Process, Peek(p)
    PROVE  Deque!Fail(p) \/ UNCHANGED absVars
<1> USE DEF Peek
<1>1. CASE isEmpty
    <2>1. op[p] \notin Puts /\ Content = <<>>
        BY <1>1, EmptyContent DEF IInv, CallInv
    <2> QED
        BY <1>1, <2>1, FailStep DEF SameQueue, callVars
<1>2. CASE ~isEmpty
    <2>1. Content' = Content
        BY <1>2, ContentKept DEF Goto, SameQueue, IInv, TypeOK, callVars
    <2> QED
        BY <1>2, <2>1, SilentStep DEF Labels, callVars
<1> QED
    BY <1>1, <1>2

(* The lock is taken. *)
LEMMA LockStep == ASSUME IInv, IInv', NEW p \in Process, Lock(p) PROVE UNCHANGED absVars
<1>1. Content' = Content
    BY ContentKept DEF Lock, Goto, SameQueue, IInv, TypeOK, callVars
<1> QED
    BY <1>1, SilentStep DEF Lock, Labels, callVars

(* A steal that does not wait for the lock. *)
LEMMA GiveUpStep == ASSUME IInv, IInv', NEW p \in Process, GiveUp(p) PROVE Deque!Fail(p)
<1>1. \E o \in Process \ {p} : pc[o] # "idle"
    BY DEF GiveUp, IInv, TypeOK, LockInv, Holding
<1> QED
    BY <1>1, FailStep DEF GiveUp, SameQueue, callVars

(* The test with the lock held refuses the call or lets it go on. *)
LEMMA CheckStep ==
    ASSUME IInv, IInv', NEW p \in Process, Check(p)
    PROVE  Deque!Fail(p) \/ UNCHANGED absVars
<1> USE DEF Check
<1>1. CASE op[p] \in Puts /\ Full
    <2>1. \A q \in Process : pc[q] # "flag"
        BY Exclusion DEF Holding
    <2> QED
        BY <1>1, <2>1, FullContent, FailStep DEF SameQueue, callVars
<1>2. CASE op[p] \notin Puts /\ isEmpty
    BY <1>2, EmptyContent, FailStep DEF SameQueue, callVars
<1>3. CASE ~((op[p] \in Puts /\ Full) \/ (op[p] \notin Puts /\ isEmpty))
    <2>1. Goto(p, "move")
        BY <1>3
    <2>2. Content' = Content
        BY <2>1, ContentKept DEF Goto, SameQueue, IInv, TypeOK, callVars
    <2> QED
        BY <2>1, <2>2, SilentStep DEF Labels, callVars
<1> QED
    BY <1>1, <1>2, <1>3

(* The lock is released. *)
LEMMA UnlockStep == ASSUME IInv, IInv', NEW p \in Process, Unlock(p) PROVE UNCHANGED absVars
<1>1. Content' = Content
    BY ContentKept DEF Unlock, Goto, SameQueue, IInv, TypeOK, callVars
<1> QED
    BY <1>1, SilentStep DEF Unlock, Labels, callVars

-----------------------------------------------------------------------------
(* The indices move: nothing the abstract queue sees. *)

(* Before and after a move: only p is in the critical section. *)
LEMMA MoveContents ==
    ASSUME IInv, IInv', NEW p \in Process, pc[p] = "move", Goto(p, "flag"), op' = op
    PROVE  Content = Ring(headIndex, usedSlots) /\ Content' = Before(op[p])'
<1>1. Content = Ring(headIndex, usedSlots)
    BY Exclusion, ContentSettled DEF Holding
<1>2. pc'[p] = "flag"
    BY DEF Goto, IInv, TypeOK
<1>3. Content' = Before(op[p])'
    BY <1>2, ProcessAssumption DEF IInv, LockInv, Holding, Content
<1> QED
    BY <1>1, <1>3

(* put_tail writes outside the slots in use. *)
LEMMA PutTailMove ==
    ASSUME IInv, IInv', NEW p \in Process, MovePutTail(p)
    PROVE  UNCHANGED absVars
<1> USE DEF MovePutTail, callVars
<1>1. usedSlots < NumSlots - 1 /\ headIndex \in Index /\ usedSlots \in 0..(NumSlots - 1)
    BY DEF IInv, TypeOK, ChecksInv, Puts
<1>2. Succ(tailIndex) = (headIndex + (usedSlots + 1)) % NumSlots
    BY <1>1, RingMoves DEF IInv, RingInv
<1>3. ASSUME NEW i \in 1..usedSlots
      PROVE  slots'[(headIndex + i) % NumSlots] = slots[(headIndex + i) % NumSlots]
    <2>1. i \in 0..NumSlots /\ usedSlots + 1 \in 0..NumSlots
        BY <1>1, SlotsAssumption
    <2>2. (headIndex + i) % NumSlots =
             IF headIndex + i < NumSlots THEN headIndex + i ELSE headIndex + i - NumSlots
        BY <1>1, <2>1, RingOffset
    <2>3. (headIndex + (usedSlots + 1)) % NumSlots =
             IF headIndex + (usedSlots + 1) < NumSlots
             THEN headIndex + (usedSlots + 1) ELSE headIndex + (usedSlots + 1) - NumSlots
        BY <1>1, <2>1, RingOffset
    <2>4. (headIndex + i) % NumSlots # Succ(tailIndex)
        BY <1>1, <1>2, <2>2, <2>3, SlotsAssumption DEF Index
    <2>5. (headIndex + i) % NumSlots \in Index
        BY <1>1, <2>2, SlotsAssumption DEF Index
    <2> QED
        BY <2>4, <2>5 DEF IInv, TypeOK
<1>4. Content' = Content
    <2>1. Content = [i \in 1..usedSlots |-> slots[(headIndex + i) % NumSlots]]
        BY MoveContents DEF Ring
    <2>2. Content' = [i \in 1..(usedSlots' - 1) |-> slots'[(headIndex + i) % NumSlots]]
        BY MoveContents DEF Before, Ring
    <2>3. usedSlots' - 1 = usedSlots
        BY <1>1
    <2> QED
        BY <1>3, <2>1, <2>2, <2>3
<1> QED
    BY <1>4, SilentStep DEF Labels, IInv, TypeOK

(* put_head writes the slot before those in use. *)
LEMMA PutHeadMove ==
    ASSUME IInv, IInv', NEW p \in Process, MovePutHead(p)
    PROVE  UNCHANGED absVars
<1> USE DEF MovePutHead, callVars
<1>1. usedSlots < NumSlots - 1 /\ headIndex \in Index /\ usedSlots \in 0..(NumSlots - 1)
    BY DEF IInv, TypeOK, ChecksInv, Puts
<1>2. ASSUME NEW i \in 1..usedSlots
      PROVE  slots'[(headIndex + i) % NumSlots] = slots[(headIndex + i) % NumSlots]
    <2>1. i \in 0..NumSlots
        BY <1>1, SlotsAssumption
    <2>2. (headIndex + i) % NumSlots =
             IF headIndex + i < NumSlots THEN headIndex + i ELSE headIndex + i - NumSlots
        BY <1>1, <2>1, RingOffset
    <2>3. (headIndex + i) % NumSlots # headIndex /\ (headIndex + i) % NumSlots \in Index
        BY <1>1, <2>2, SlotsAssumption DEF Index
    <2> QED
        BY <2>3 DEF IInv, TypeOK
<1>3. Content' = Content
    <2>1. Content = [i \in 1..usedSlots |-> slots[(headIndex + i) % NumSlots]]
        BY MoveContents DEF Ring
    <2>2. Content' = [i \in 1..(usedSlots' - 1) |-> slots'[(Succ(headIndex') + i) % NumSlots]]
        BY MoveContents DEF Before, Ring, Succ
    <2>3. usedSlots' - 1 = usedSlots /\ Succ(headIndex') = headIndex
        BY <1>1, SuccPred
    <2> QED
        BY <1>2, <2>1, <2>2, <2>3
<1> QED
    BY <1>3, SilentStep DEF Labels, IInv, TypeOK

(* get_head and steal_head leave the slot they read as it is. *)
LEMMA TakeHeadMove ==
    ASSUME IInv, IInv', NEW p \in Process, MoveTakeHead(p)
    PROVE  UNCHANGED absVars
<1> USE DEF MoveTakeHead, callVars
<1>1. Content' = Content
    <2>1. Content = [i \in 1..usedSlots |-> slots[(headIndex + i) % NumSlots]]
        BY MoveContents DEF Ring
    <2>2. Content' = [i \in 1..(usedSlots' + 1) |-> slots'[(Pred(headIndex') + i) % NumSlots]]
        BY MoveContents DEF Before, Ring, Pred, FromHead
    <2>3. usedSlots' + 1 = usedSlots /\ Pred(headIndex') = headIndex
        BY SuccPred DEF IInv, TypeOK
    <2> QED
        BY <2>1, <2>2, <2>3
<1> QED
    BY <1>1, SilentStep DEF Labels, IInv, TypeOK

(* So do get_tail and steal_tail. *)
LEMMA TakeTailMove ==
    ASSUME IInv, IInv', NEW p \in Process, MoveTakeTail(p)
    PROVE  UNCHANGED absVars
<1> USE DEF MoveTakeTail, callVars
<1>1. Content' = Content
    <2>1. Content = [i \in 1..usedSlots |-> slots[(headIndex + i) % NumSlots]]
        BY MoveContents DEF Ring
    <2>2. Content' = [i \in 1..(usedSlots' + 1) |-> slots'[(headIndex + i) % NumSlots]]
        BY MoveContents DEF Before, Ring, FromHead, FromTail
    <2>3. usedSlots' + 1 = usedSlots
        BY DEF IInv, TypeOK
    <2> QED
        BY <2>1, <2>2, <2>3
<1> QED
    BY <1>1, SilentStep DEF Labels, IInv, TypeOK

-----------------------------------------------------------------------------
(* is_empty is written: the call takes effect on the abstract queue. *)

(* After the write no process is between its move and its flag. *)
LEMMA FlagContents ==
    ASSUME IInv, IInv', NEW p \in Process, Flag(p)
    PROVE  /\ Content = Before(op[p])
           /\ Content' = Ring(headIndex, usedSlots)
           /\ headIndex \in Index /\ usedSlots \in 0..(NumSlots - 1)
<1>1. Content = Before(op[p])
    BY ContentMoving DEF Flag
<1>2. \A q \in Process : pc'[q] # "flag"
    BY Alone DEF Flag, Goto, IInv, TypeOK, Inside, Holding
<1>3. Content' = Ring(headIndex, usedSlots)'
    BY <1>2 DEF IInv, TypeOK, Content
<1> QED
    BY <1>1, <1>3 DEF Flag, queueVars, Ring, IInv, TypeOK

(* The call is done, with the result the code has in hand. *)
LEMMA FlagDone ==
    ASSUME IInv, IInv', NEW p \in Process, Flag(p)
    PROVE  Deque!Done(p, Content', res[p])
<1>1. AbsPhase[p] = "called" /\ AbsPhase' = [AbsPhase EXCEPT ![p] = "done"]
    BY PhaseMoves DEF Flag, Phase, Labels
<1>2. AbsRes' = [AbsRes EXCEPT ![p] = res[p]]
    BY DEF Flag, Goto, IInv, TypeOK, AbsRes, Phase
<1> QED
    BY <1>1, <1>2 DEF Deque!Done, Flag, callVars

(* put_tail appends its item. *)
LEMMA PutTailFlag ==
    ASSUME IInv, IInv', NEW p \in Process, Flag(p), op[p] = "putTail"
    PROVE  Deque!PutTail(p)
<1>1. usedSlots \in 1..(NumSlots - 1) /\ res[p] = arg[p]
      /\ arg[p] = slots[(headIndex + usedSlots) % NumSlots]
    BY FlagContents DEF IInv, EmptyInv, MovedInv, CallInv, RingInv, Flag, Puts
<1>2. Content = [i \in 1..(usedSlots - 1) |-> slots[(headIndex + i) % NumSlots]]
    BY FlagContents DEF Before, Ring
<1>3. Content' = [i \in 1..usedSlots |-> slots[(headIndex + i) % NumSlots]]
    BY FlagContents DEF Ring
<1>4. Len(Content) = usedSlots - 1
    BY <1>1, <1>2
<1>5. Content' = Append(Content, arg[p])
    BY <1>1, <1>2, <1>3
<1> QED
    BY <1>1, <1>4, <1>5, FlagDone, SlotsAssumption DEF Deque!PutTail

(* put_head puts its item in front. *)
LEMMA PutHeadFlag ==
    ASSUME IInv, IInv', NEW p \in Process, Flag(p), op[p] = "putHead"
    PROVE  Deque!PutHead(p)
<1>1. usedSlots \in 1..(NumSlots - 1) /\ res[p] = arg[p]
      /\ arg[p] = slots[Succ(headIndex)] /\ headIndex \in Index
    BY FlagContents DEF IInv, EmptyInv, MovedInv, CallInv, Flag, Puts
<1>2. Content = [i \in 1..(usedSlots - 1) |-> slots[(Succ(headIndex) + i) % NumSlots]]
    BY FlagContents DEF Before, Ring
<1>3. Content' = [i \in 1..usedSlots |-> slots[(headIndex + i) % NumSlots]]
    BY FlagContents DEF Ring
<1>4. ASSUME NEW i \in 1..(usedSlots - 1)
      PROVE  (Succ(headIndex) + i) % NumSlots = (headIndex + (i + 1)) % NumSlots
    <2>1. i + 1 \in 0..(NumSlots - 1) /\ (i + 1) - 1 = i /\ i + 1 > 0
        BY <1>1, SlotsAssumption
    <2>2. (Succ(headIndex) + ((i + 1) - 1)) % NumSlots = (headIndex + (i + 1)) % NumSlots
        BY <1>1, <2>1, RingMoves
    <2> QED
        BY <2>1, <2>2
<1>5. Len(Content) = usedSlots - 1
    BY <1>1, <1>2
<1>6. Content' = <<arg[p]>> \o Content
    <2>1. Content' = [i \in 1..usedSlots |-> IF i = 1 THEN arg[p] ELSE Content[i - 1]]
        <3>1. ASSUME NEW i \in 1..usedSlots
              PROVE  slots[(headIndex + i) % NumSlots] =
                        IF i = 1 THEN arg[p] ELSE Content[i - 1]
            <4>1. CASE i = 1
                BY <1>1, <4>1 DEF Succ
            <4>2. CASE i # 1
                <5>1. i - 1 \in 1..(usedSlots - 1) /\ (i - 1) + 1 = i
                    BY <1>1, <4>2
                <5>2. Content[i - 1] = slots[(Succ(headIndex) + (i - 1)) % NumSlots]
                    BY <1>2, <5>1
                <5> QED
                    BY <4>2, <5>1, <5>2, <1>4
            <4> QED
                BY <4>1, <4>2
        <3> QED
            BY <1>3, <3>1
    <2> QED
        BY <1>1, <1>2, <1>5, <2>1
<1> QED
    BY <1>1, <1>5, <1>6, FlagDone, SlotsAssumption DEF Deque!PutHead

(* get_head and steal_head return the first item. *)
LEMMA TakeHeadFlag ==
    ASSUME IInv, IInv', NEW p \in Process, Flag(p), op[p] \in FromHead
    PROVE  Deque!TakeHead(p)
<1>1. usedSlots \in 0..(NumSlots - 1) /\ headIndex \in Index /\ res[p] = slots[headIndex]
    BY FlagContents DEF IInv, MovedInv, Flag
<1>2. Content = [i \in 1..(usedSlots + 1) |-> slots[(Pred(headIndex) + i) % NumSlots]]
    BY FlagContents DEF Before, Ring, FromHead
<1>3. Content' = [i \in 1..usedSlots |-> slots[(headIndex + i) % NumSlots]]
    BY FlagContents DEF Ring
<1>4. ASSUME NEW i \in 0..usedSlots
      PROVE  (Pred(headIndex) + (i + 1)) % NumSlots = (headIndex + i) % NumSlots
    <2>1. i \in 0..(NumSlots - 1) /\ i + 1 \in 0..NumSlots /\ i \in 0..NumSlots
        BY <1>1, SlotsAssumption
    <2>2. Pred(headIndex) \in Index
        BY <1>1, PredValue
    <2>3. (Pred(headIndex) + (i + 1)) % NumSlots =
             IF Pred(headIndex) + (i + 1) < NumSlots
             THEN Pred(headIndex) + (i + 1) ELSE Pred(headIndex) + (i + 1) - NumSlots
        BY <2>1, <2>2, RingOffset
    <2>4. (headIndex + i) % NumSlots = IF headIndex + i < NumSlots
                                       THEN headIndex + i ELSE headIndex + i - NumSlots
        BY <1>1, <2>1, RingOffset
    <2> QED
        BY <1>1, <2>1, <2>3, <2>4, PredValue, SlotsAssumption DEF Index
<1>5. Content # <<>> /\ Len(Content) = usedSlots + 1
    BY <1>1, <1>2
<1>6. Head(Content) = res[p]
    <2>1. (Pred(headIndex) + (0 + 1)) % NumSlots = (headIndex + 0) % NumSlots
        BY <1>1, <1>4
    <2>2. (headIndex + 0) % NumSlots = headIndex
        <3>1. 0 \in 0..NumSlots /\ headIndex + 0 = headIndex /\ headIndex < NumSlots
            BY <1>1, SlotsAssumption DEF Index
        <3> QED
            BY <1>1, <3>1, RingOffset
    <2> QED
        BY <1>1, <1>2, <1>5, <2>1, <2>2
<1>7. Tail(Content) = Content'
    BY <1>1, <1>2, <1>3, <1>4, <1>5
<1> QED
    BY <1>5, <1>6, <1>7, FlagDone DEF Deque!TakeHead, Deque!FromHead, FromHead

(* get_tail and steal_tail return the last item. *)
LEMMA TakeTailFlag ==
    ASSUME IInv, IInv', NEW p \in Process, Flag(p), op[p] \in FromTail
    PROVE  Deque!TakeTail(p)
<1>1. /\ usedSlots \in 0..(NumSlots - 1) /\ headIndex \in Index
      /\ tailIndex = (headIndex + usedSlots) % NumSlots /\ tailIndex \in Index
      /\ res[p] = slots[Succ(tailIndex)]
    BY FlagContents DEF IInv, TypeOK, MovedInv, RingInv, Flag
<1>2. Content = [i \in 1..(usedSlots + 1) |-> slots[(headIndex + i) % NumSlots]]
    BY FlagContents DEF Before, Ring, FromHead, FromTail
<1>3. Content' = [i \in 1..usedSlots |-> slots[(headIndex + i) % NumSlots]]
    BY FlagContents DEF Ring
<1>4. (headIndex + (usedSlots + 1)) % NumSlots = Succ(tailIndex)
    <2>1. usedSlots \in 0..NumSlots /\ usedSlots + 1 \in 0..NumSlots
        BY <1>1, SlotsAssumption
    <2>2. (headIndex + (usedSlots + 1)) % NumSlots =
             IF headIndex + (usedSlots + 1) < NumSlots
             THEN headIndex + (usedSlots + 1) ELSE headIndex + (usedSlots + 1) - NumSlots
        BY <1>1, <2>1, RingOffset
    <2>3. tailIndex = IF headIndex + usedSlots < NumSlots
                      THEN headIndex + usedSlots ELSE headIndex + usedSlots - NumSlots
        BY <1>1, <2>1, RingOffset
    <2>4. Succ(tailIndex) = IF tailIndex = NumSlots - 1 THEN 0 ELSE tailIndex + 1
        BY <1>1, SuccValue
    <2> QED
        BY <1>1, <2>2, <2>3, <2>4, SlotsAssumption DEF Index
<1>5. Content # <<>> /\ Len(Content) = usedSlots + 1
    <2>1. usedSlots + 1 \in Nat \ {0}
        BY <1>1
    <2> QED
        BY <1>2, <2>1
<1>6. Content[Len(Content)] = res[p]
    BY <1>1, <1>2, <1>4, <1>5
<1>7. SubSeq(Content, 1, Len(Content) - 1) = Content'
    BY <1>1, <1>2, <1>3, <1>5
<1> QED
    BY <1>5, <1>6, <1>7, FlagDone DEF Deque!TakeTail, Deque!FromTail, FromTail

-----------------------------------------------------------------------------
(* The array queue starts empty, and each of its steps is one of WorkDeque.*)
LEMMA InitStep == Init => Deque!Init
<1> SUFFICES ASSUME Init PROVE Deque!Init
    OBVIOUS
<1>1. Content = <<>>
    BY DEF Init, Content, Ring
<1>2. AbsPhase = [p \in Process |-> "idle"] /\ AbsRes = [p \in Process |-> NoItem]
    BY DEF Init, AbsPhase, AbsRes, Phase
<1> QED
    BY <1>1, <1>2 DEF Init, Deque!Init

(* Every get, steal and put of omp_queue.c:101-288 takes effect in one     *)
(* step of the abstract queue, between its call and its return, for any    *)
(* number of threads and slots: no item is lost or handed out twice, and a *)
(* get returns NULL only from a queue that is empty at that step.          *)
THEOREM Refinement == Spec => ImplementsDeque
<1>1. ASSUME IInv, IInv', [Next]_vars PROVE [Deque!Next]_(Deque!vars)
    <2>1. UNCHANGED vars => UNCHANGED absVars
        BY DEF vars, queueVars, callVars, absVars, Content, Before, Ring, Succ, Pred,
           AbsPhase, AbsRes, Phase
    <2>2. ASSUME NEW p \in Process, Step(p) PROVE Deque!Next \/ UNCHANGED absVars
        <3>1. CASE Invoke(p)
            BY <1>1, <3>1, InvokeStep DEF Deque!Next
        <3>2. CASE Return(p)
            BY <1>1, <3>2, ReturnStep DEF Deque!Next
        <3>3. CASE Peek(p) \/ GiveUp(p) \/ Check(p)
            BY <1>1, <3>3, PeekStep, GiveUpStep, CheckStep DEF Deque!Next
        <3>4. CASE Lock(p) \/ Unlock(p)
            BY <1>1, <3>4, LockStep, UnlockStep
        <3>5. CASE MovePutTail(p) \/ MovePutHead(p) \/ MoveTakeHead(p) \/ MoveTakeTail(p)
            BY <1>1, <3>5, PutTailMove, PutHeadMove, TakeHeadMove, TakeTailMove
        <3>6. CASE Flag(p)
            <4>1. op[p] \in {"putTail", "putHead"} \cup FromHead \cup FromTail
                BY <1>1 DEF IInv, TypeOK, Ops, Puts, Gets, Steals, FromHead, FromTail
            <4> QED
                BY <1>1, <3>6, <4>1, PutTailFlag, PutHeadFlag, TakeHeadFlag, TakeTailFlag
                   DEF Deque!Next
        <3> QED
            BY <2>2, <3>1, <3>2, <3>3, <3>4, <3>5, <3>6 DEF Step
    <2>3. UNCHANGED absVars => UNCHANGED Deque!vars
        BY DEF absVars, Deque!vars
    <2> QED
        BY <1>1, <2>1, <2>2, <2>3 DEF Next
<1> QED
    BY <1>1, Invariance, InitStep, PTL DEF Spec, ImplementsDeque, Deque!Spec

-----------------------------------------------------------------------------
(* The pool of two levels *)

\* What the pool needs to know of the constants.
LEMMA PoolFacts ==
    ASSUME NEW f \in BOOLEAN
    PROVE  /\ PoolSlots \in Nat \ {0} /\ ChunkSize \in Nat \ {0} /\ MaxTasks \in Nat
           /\ Pool(f)!Free \notin Process /\ Pool(f)!Community \notin Process
BY SizesAssumption, ProcessAssumption, CommunityAssumption DEF Pool!Free, Pool!Community, Free

\* The slots after h up to t in a ring of n, and how many they are.
After(h, t, n) == {j \in 0..(n - 1) : IF h <= t THEN h < j /\ j <= t ELSE h < j \/ j <= t}
Distance(h, t, n) == IF h <= t THEN t - h ELSE t - h + n

\* An offset of at most n wraps at most once.
LEMMA PoolRingPlace ==
    ASSUME NEW n \in Nat \ {0}, NEW h \in 0..(n - 1), NEW i \in 0..n
    PROVE  (h + i) % n = IF h + i < n THEN h + i ELSE h + i - n
BY SMT

\* The distance between two indices of a ring, as the source computes it.
LEMMA PoolRingDist ==
    ASSUME NEW n \in Nat \ {0}, NEW h \in 0..(n - 1), NEW t \in 0..(n - 1)
    PROVE  /\ (t + n - h) % n = Distance(h, t, n)
           /\ Distance(h, t, n) \in 0..(n - 1)
<1>1. (t + n - h) % n = Distance(h, t, n)
    <2>1. CASE h = 0
        BY <2>1, PoolRingPlace DEF Distance
    <2>2. CASE h # 0
        <3>1. PICK k \in 0..n : k = n - h /\ t + n - h = t + k
            BY <2>2
        <3>2. (t + k) % n = IF t + k < n THEN t + k ELSE t + k - n
            BY PoolRingPlace
        <3> QED
            BY <2>2, <3>1, <3>2 DEF Distance
    <2> QED
        BY <2>1, <2>2
<1> QED
    BY <1>1 DEF Distance

\* The slots the source would read one after the other are those between the indices.
LEMMA PoolRingLive ==
    ASSUME NEW n \in Nat \ {0}, NEW h \in 0..(n - 1), NEW t \in 0..(n - 1)
    PROVE  {(h + i) % n : i \in 1..Distance(h, t, n)} = After(h, t, n)
<1>1. Distance(h, t, n) \in 0..(n - 1)
    BY PoolRingDist
<1>2. ASSUME NEW i \in 1..Distance(h, t, n) PROVE (h + i) % n \in After(h, t, n)
    <2>1. (h + i) % n = IF h + i < n THEN h + i ELSE h + i - n
        BY <1>1, PoolRingPlace
    <2> QED
        BY <2>1 DEF After, Distance
<1>3. ASSUME NEW j \in After(h, t, n)
      PROVE  \E i \in 1..Distance(h, t, n) : j = (h + i) % n
    <2>1. PICK i \in 1..Distance(h, t, n) : j = IF h + i < n THEN h + i ELSE h + i - n
        <3>1. CASE h < j
            <4>1. /\ j - h \in 1..Distance(h, t, n)
                  /\ j = IF h + (j - h) < n THEN h + (j - h) ELSE h + (j - h) - n
                BY <3>1 DEF After, Distance
            <4> QED
                BY <4>1
        <3>2. CASE ~(h < j)
            <4>1. /\ j - h + n \in 1..Distance(h, t, n)
                  /\ j = IF h + (j - h + n) < n THEN h + (j - h + n) ELSE h + (j - h + n) - n
                BY <3>2 DEF After, Distance
            <4> QED
                BY <4>1
        <3> QED
            BY <3>1, <3>2
    <2>2. i \in 0..n
        BY <1>1
    <2>3. (h + i) % n = IF h + i < n THEN h + i ELSE h + i - n
        BY <2>2, PoolRingPlace
    <2> QED
        BY <2>1, <2>3
<1> QED
    BY <1>2, <1>3

\* Two places of a ring are the same only for the same offset.
LEMMA PoolRingOnce ==
    ASSUME NEW n \in Nat \ {0}, NEW h \in 0..(n - 1), NEW i \in 1..(n - 1), NEW j \in 1..(n - 1),
           (h + i) % n = (h + j) % n
    PROVE  i = j
<1>1. /\ (h + i) % n = IF h + i < n THEN h + i ELSE h + i - n
      /\ (h + j) % n = IF h + j < n THEN h + j ELSE h + j - n
    <2>1. i \in 0..n /\ j \in 0..n
        OBVIOUS
    <2> QED
        BY <2>1, PoolRingPlace
<1> QED
    BY <1>1

\* (index + 1) % n.
LEMMA PoolRingNext ==
    ASSUME NEW n \in Nat \ {0}, NEW h \in 0..(n - 1)
    PROVE  (h + 1) % n = IF h = n - 1 THEN 0 ELSE h + 1
<1>1. 1 \in 0..n
    OBVIOUS
<1>2. (h + 1) % n = IF h + 1 < n THEN h + 1 ELSE h + 1 - n
    BY <1>1, PoolRingPlace
<1> QED
    BY <1>2

\* The four moves of an index.
LEMMA PoolRingMoves ==
    ASSUME NEW n \in Nat \ {0}, NEW h \in 0..(n - 1), NEW t \in 0..(n - 1)
    PROVE  /\ \A up : up = (IF h = n - 1 THEN 0 ELSE h + 1) /\ Distance(h, t, n) # 0 =>
                 /\ up \in After(h, t, n)
                 /\ After(up, t, n) = After(h, t, n) \ {up}
                 /\ Distance(up, t, n) = Distance(h, t, n) - 1
           /\ \A down : down = (IF t = 0 THEN n - 1 ELSE t - 1) /\ Distance(h, t, n) # 0 =>
                 /\ t \in After(h, t, n)
                 /\ After(h, down, n) = After(h, t, n) \ {t}
                 /\ Distance(h, down, n) = Distance(h, t, n) - 1
           /\ \A up : up = (IF t = n - 1 THEN 0 ELSE t + 1) /\ Distance(h, t, n) # n - 1 =>
                 /\ up \notin After(h, t, n)
                 /\ After(h, up, n) = After(h, t, n) \cup {up}
                 /\ Distance(h, up, n) = Distance(h, t, n) + 1
<1>2. ASSUME NEW up, up = (IF h = n - 1 THEN 0 ELSE h + 1), Distance(h, t, n) # 0
      PROVE  /\ up \in After(h, t, n)
             /\ After(up, t, n) = After(h, t, n) \ {up}
             /\ Distance(up, t, n) = Distance(h, t, n) - 1
    BY <1>2 DEF After, Distance
<1>3. ASSUME NEW down, down = (IF t = 0 THEN n - 1 ELSE t - 1), Distance(h, t, n) # 0
      PROVE  /\ t \in After(h, t, n)
             /\ After(h, down, n) = After(h, t, n) \ {t}
             /\ Distance(h, down, n) = Distance(h, t, n) - 1
    BY <1>3 DEF After, Distance
<1>4. ASSUME NEW up, up = (IF t = n - 1 THEN 0 ELSE t + 1), Distance(h, t, n) # n - 1
      PROVE  /\ up \notin After(h, t, n)
             /\ After(h, up, n) = After(h, t, n) \cup {up}
             /\ Distance(h, up, n) = Distance(h, t, n) + 1
    BY <1>4 DEF After, Distance
<1> QED
    BY <1>2, <1>3, <1>4

\* What a queue holds, without "%".
LEMMA PoolQueueIs ==
    ASSUME NEW f \in BOOLEAN, Pool(f)!TypeInv, NEW q \in Pool(f)!Queue
    PROVE  /\ Pool(f)!Size(q) \in Nat \ {0}
           /\ first[q] \in 0..(Pool(f)!Size(q) - 1) /\ last[q] \in 0..(Pool(f)!Size(q) - 1)
           /\ Pool(f)!Used(q) = Distance(first[q], last[q], Pool(f)!Size(q))
           /\ Pool(f)!Live(q) = After(first[q], last[q], Pool(f)!Size(q))
           /\ Pool(f)!Used(q) \in 0..(Pool(f)!Size(q) - 1)
<1>1. Pool(f)!Size(q) \in Nat \ {0}
    BY PoolFacts DEF Pool!Size
<1>2. first[q] \in 0..(Pool(f)!Size(q) - 1) /\ last[q] \in 0..(Pool(f)!Size(q) - 1)
    BY <1>1 DEF Pool!TypeInv
<1>3. Pool(f)!Used(q) = Distance(first[q], last[q],
      Pool(f)!Size(q)) /\ Pool(f)!Used(q) \in 0..(Pool(f)!Size(q) - 1)
    BY <1>1, <1>2, PoolRingDist DEF Pool!Used
<1>4. Pool(f)!Live(q) = After(first[q], last[q], Pool(f)!Size(q))
    BY <1>1, <1>2, <1>3, PoolRingLive DEF Pool!Live
<1> QED
    BY <1>1, <1>2, <1>3, <1>4

RingOK(f) == /\ first \in [Pool(f)!Queue -> Nat] /\ last \in [Pool(f)!Queue -> Nat]
             /\ \A q \in Pool(f)!Queue : first[q] < Pool(f)!Size(q) /\ last[q] < Pool(f)!Size(q)
\* The same of the indices after a step.
LEMMA PoolQueueWillBe ==
    ASSUME NEW f \in BOOLEAN, RingOK(f)', NEW q \in Pool(f)!Queue
    PROVE  /\ Pool(f)!Size(q) \in Nat \ {0}
           /\ first'[q] \in 0..(Pool(f)!Size(q) - 1) /\ last'[q] \in 0..(Pool(f)!Size(q) - 1)
           /\ Pool(f)!Used(q)' = Distance(first'[q], last'[q], Pool(f)!Size(q))
           /\ Pool(f)!Live(q)' = After(first'[q], last'[q], Pool(f)!Size(q))
           /\ Pool(f)!Used(q)' \in 0..(Pool(f)!Size(q) - 1)
<1>1. Pool(f)!Size(q) \in Nat \ {0}
    BY PoolFacts DEF Pool!Size
<1>2. first'[q] \in 0..(Pool(f)!Size(q) - 1) /\ last'[q] \in 0..(Pool(f)!Size(q) - 1)
    BY <1>1 DEF RingOK
<1>3. Pool(f)!Used(q)' = Distance(first'[q], last'[q],
      Pool(f)!Size(q)) /\ Pool(f)!Used(q)' \in 0..(Pool(f)!Size(q) - 1)
    BY <1>1, <1>2, PoolRingDist DEF Pool!Used
<1>4. Pool(f)!Live(q)' = After(first'[q], last'[q], Pool(f)!Size(q))
    BY <1>1, <1>2, <1>3, PoolRingLive DEF Pool!Live
<1> QED
    BY <1>1, <1>2, <1>3, <1>4
\* A queue no index of which changes.
LEMMA PoolQueueSame ==
    ASSUME NEW f \in BOOLEAN, NEW q \in Pool(f)!Queue, first'[q] = first[q], last'[q] = last[q]
    PROVE  Pool(f)!Used(q)' = Pool(f)!Used(q) /\ Pool(f)!Live(q)' = Pool(f)!Live(q)
<1>1. Pool(f)!Used(q)' = Pool(f)!Used(q)
    BY DEF Pool!Used
<1> QED
    BY <1>1 DEF Pool!Live

\* What a take and a put do to the rings.
TakenAt(f, q, i) ==
    /\ mem' = mem /\ RingOK(f)'
    /\ i \in Pool(f)!Live(q) /\ Pool(f)!Live(q)' = Pool(f)!Live(q) \ {i}
           /\ Pool(f)!Used(q)' = Pool(f)!Used(q) - 1
    /\ \A r \in Pool(f)!Queue : r # q => Pool(f)!Live(r)' = Pool(f)!Live(r)
           /\ Pool(f)!Used(r)' = Pool(f)!Used(r)
PutAt(f, q, i, x) ==
    /\ mem' = [mem EXCEPT ![q][i] = x] /\ RingOK(f)'
    /\ i \in 0..(Pool(f)!Size(q) - 1)
    /\ i \notin Pool(f)!Live(q) /\ Pool(f)!Live(q)' = Pool(f)!Live(q) \cup {i}
           /\ Pool(f)!Used(q)' = Pool(f)!Used(q) + 1
    /\ \A r \in Pool(f)!Queue : r # q => Pool(f)!Live(r)' = Pool(f)!Live(r)
           /\ Pool(f)!Used(r)' = Pool(f)!Used(r)

\* get_head takes the slot after the head.
LEMMA PoolHeadTaken ==
    ASSUME NEW f \in BOOLEAN, Pool(f)!TypeInv, NEW q \in Pool(f)!Queue,
           Pool(f)!TakeHead(q), Pool(f)!Used(q) # 0
    PROVE  TakenAt(f, q, Pool(f)!Succ(q, first[q]))
<1> DEFINE n == Pool(f)!Size(q)
           h == first[q]
           up == IF h = n - 1 THEN 0 ELSE h + 1
<1>1. /\ n \in Nat \ {0} /\ h \in 0..(n - 1) /\ last[q] \in 0..(n - 1)
      /\ Pool(f)!Used(q) = Distance(h, last[q], n) /\ Pool(f)!Live(q) = After(h, last[q], n)
    BY PoolQueueIs
<1>2. Pool(f)!Succ(q, h) = up /\ up \in 0..(n - 1)
    BY <1>1, PoolRingNext DEF Pool!Succ
<1>3. mem' = mem /\ last' = last /\ first' = [first EXCEPT ![q] = up]
    BY <1>2 DEF Pool!TakeHead
<1>4. RingOK(f)' /\ first'[q] = up
    BY <1>1, <1>2, <1>3 DEF RingOK, Pool!TypeInv
<1>5. /\ up \in Pool(f)!Live(q) /\ Pool(f)!Live(q)' = Pool(f)!Live(q) \ {up}
             /\ Pool(f)!Used(q)' = Pool(f)!Used(q) - 1
    <2> HIDE DEF n, h
    <2>1. /\ up \in After(h, last[q], n)
          /\ After(up, last[q], n) = After(h, last[q], n) \ {up}
          /\ Distance(up, last[q], n) = Distance(h, last[q], n) - 1
        BY <1>1, PoolRingMoves
    <2>2. Pool(f)!Used(q)' = Distance(up, last[q], n) /\ Pool(f)!Live(q)' = After(up, last[q], n)
        BY <1>3, <1>4, PoolQueueWillBe DEF n
    <2> QED
        BY <1>1, <2>1, <2>2
<1>6. ASSUME NEW r \in Pool(f)!Queue, r # q
      PROVE Pool(f)!Live(r)' = Pool(f)!Live(r) /\ Pool(f)!Used(r)' = Pool(f)!Used(r)
    <2>1. first'[r] = first[r] /\ last'[r] = last[r]
        BY <1>3, <1>6 DEF Pool!TypeInv
    <2> QED
        BY <2>1, PoolQueueSame
<1> QED
    BY <1>2, <1>3, <1>4, <1>5, <1>6 DEF TakenAt

\* get_tail takes the slot at the tail.
LEMMA PoolTailTaken ==
    ASSUME NEW f \in BOOLEAN, Pool(f)!TypeInv, NEW q \in Pool(f)!Queue,
           Pool(f)!TakeTail(q), Pool(f)!Used(q) # 0
    PROVE  TakenAt(f, q, last[q])
<1> DEFINE n == Pool(f)!Size(q)
           t == last[q]
           down == IF t = 0 THEN n - 1 ELSE t - 1
<1>1. /\ n \in Nat \ {0} /\ t \in 0..(n - 1) /\ first[q] \in 0..(n - 1)
      /\ Pool(f)!Used(q) = Distance(first[q], t, n) /\ Pool(f)!Live(q) = After(first[q], t, n)
    BY PoolQueueIs
<1>2. Pool(f)!Pred(q, t) = down /\ down \in 0..(n - 1)
    BY <1>1 DEF Pool!Pred
<1>3. mem' = mem /\ first' = first /\ last' = [last EXCEPT ![q] = down]
    BY <1>2 DEF Pool!TakeTail
<1>4. RingOK(f)' /\ last'[q] = down
    BY <1>1, <1>2, <1>3 DEF RingOK, Pool!TypeInv
<1>5. t \in Pool(f)!Live(q) /\ Pool(f)!Live(q)' = Pool(f)!Live(q) \ {t}
          /\ Pool(f)!Used(q)' = Pool(f)!Used(q) - 1
    <2> HIDE DEF n, t
    <2>1. /\ t \in After(first[q], t, n)
          /\ After(first[q], down, n) = After(first[q], t, n) \ {t}
          /\ Distance(first[q], down, n) = Distance(first[q], t, n) - 1
        BY <1>1, PoolRingMoves
    <2>2. Pool(f)!Used(q)' = Distance(first[q], down, n)
              /\ Pool(f)!Live(q)' = After(first[q], down, n)
        BY <1>3, <1>4, PoolQueueWillBe DEF n
    <2> QED
        BY <1>1, <2>1, <2>2
<1>6. ASSUME NEW r \in Pool(f)!Queue, r # q
      PROVE Pool(f)!Live(r)' = Pool(f)!Live(r) /\ Pool(f)!Used(r)' = Pool(f)!Used(r)
    <2>1. first'[r] = first[r] /\ last'[r] = last[r]
        BY <1>3, <1>6 DEF Pool!TypeInv
    <2> QED
        BY <2>1, PoolQueueSame
<1> QED
    BY <1>3, <1>4, <1>5, <1>6 DEF TakenAt

\* Where Put writes.
PutPlace(f, q) == Pool(f)!Succ(q, last[q])
\* put_tail fills one slot that was free.
LEMMA PoolTaskPut ==
    ASSUME NEW f \in BOOLEAN, Pool(f)!TypeInv,
           NEW t \in Process, queueAt[t] \in Pool(f)!Queue, Pool(f)!Put(t)
    PROVE  \E q \in Pool(f)!Queue : q = queueAt[t] /\ PutAt(f, q, PutPlace(f, q), task[t])
<1>q. PICK q \in Pool(f)!Queue : q = queueAt[t]
    OBVIOUS
<1> DEFINE n == Pool(f)!Size(q)
           h == first[q]
           e == last[q]
           up == IF e = n - 1 THEN 0 ELSE e + 1
<1>1. /\ n \in Nat \ {0} /\ h \in 0..(n - 1) /\ e \in 0..(n - 1)
      /\ Pool(f)!Used(q) = Distance(h, e, n) /\ Pool(f)!Live(q) = After(h, e, n)
    BY PoolQueueIs
<1>2. Pool(f)!Succ(q, e) = up /\ up \in 0..(n - 1)
    BY <1>1, PoolRingNext DEF Pool!Succ
<1>3. Distance(h, e, n) # n - 1
    BY <1>q, <1>1 DEF Pool!Put, Pool!Full
<1>4. mem' = [mem EXCEPT ![q][PutPlace(f, q)] = task[t]]
    BY <1>q DEF Pool!Put, PutPlace
<1>5. /\ RingOK(f)' /\ PutPlace(f, q) \in 0..(n - 1)
      /\ PutPlace(f, q) \notin Pool(f)!Live(q)
      /\ Pool(f)!Live(q)' = Pool(f)!Live(q) \cup {PutPlace(f, q)}
      /\ Pool(f)!Used(q)' = Pool(f)!Used(q) + 1
    <2>1. last' = [last EXCEPT ![q] = up] /\ first' = first
        BY <1>q, <1>2 DEF Pool!Put
    <2>2. RingOK(f)' /\ last'[q] = up /\ PutPlace(f, q) = up
        BY <1>1, <1>2, <2>1 DEF RingOK, Pool!TypeInv, PutPlace
    <2> HIDE DEF n, h, e
    <2>3. /\ up \notin After(h, e, n)
          /\ After(h, up, n) = After(h, e, n) \cup {up}
          /\ Distance(h, up, n) = Distance(h, e, n) + 1
        BY <1>1, <1>3, PoolRingMoves
    <2>4. Pool(f)!Used(q)' = Distance(h, up, n) /\ Pool(f)!Live(q)' = After(h, up, n)
        BY <2>1, <2>2, PoolQueueWillBe DEF n, h
    <2> QED
        BY <1>1, <1>2, <2>2, <2>3, <2>4
<1>6. ASSUME NEW r \in Pool(f)!Queue, r # q
      PROVE Pool(f)!Live(r)' = Pool(f)!Live(r) /\ Pool(f)!Used(r)' = Pool(f)!Used(r)
    <2>1. first'[r] = first[r] /\ last'[r] = last[r]
        BY <1>q, <1>6 DEF Pool!TypeInv, Pool!Put
    <2> QED
        BY <2>1, PoolQueueSame
<1> QED
    BY <1>q, <1>4, <1>5, <1>6 DEF PutAt

\* A head that moves over k of the slots.
LEMMA PoolRingAdvance ==
    ASSUME NEW n \in Nat \ {0}, NEW h \in 0..(n - 1), NEW t \in 0..(n - 1),
           NEW k \in 1..Distance(h, t, n)
    PROVE  /\ (h + k) % n \in 0..(n - 1)
           /\ After((h + k) % n, t, n) = After(h, t, n) \ {(h + i) % n : i \in 1..k}
           /\ {(h + i) % n : i \in 1..k} \subseteq After(h, t, n)
<1>1. Distance(h, t, n) \in 0..(n - 1) /\ k \in 0..n
    BY PoolRingDist
<1>2. (h + k) % n = IF h + k < n THEN h + k ELSE h + k - n
    BY <1>1, PoolRingPlace
<1>3. PICK m \in 0..(n - 1) : m = (h + k) % n
    BY <1>1, <1>2
<1>4. Distance(h, m, n) = k
    BY <1>1, <1>2, <1>3 DEF Distance
<1>5. {(h + i) % n : i \in 1..k} = After(h, m, n)
    BY <1>4, PoolRingLive
<1>6. After(m, t, n) = After(h, t, n) \ After(h, m, n)
    BY <1>1, <1>2, <1>3 DEF After, Distance
<1>7. After(h, m, n) \subseteq After(h, t, n)
    BY <1>1, <1>2, <1>3 DEF After, Distance
<1> QED
    BY <1>3, <1>5, <1>6, <1>7

\* The chunk is the least of three sizes.
LEMMA LeastOfThree ==
    ASSUME NEW f \in BOOLEAN, NEW a \in Nat \ {0}, NEW b \in Nat \ {0}, NEW c \in Nat \ {0}
    PROVE  LET m == Pool(f)!Min({a, b, c}) IN m \in Nat \ {0} /\ m <= a /\ m <= b /\ m <= c
<1>1. \E x \in {a, b, c} : \A y \in {a, b, c} : x <= y
    <2>1. CASE a <= b /\ a <= c
        BY <2>1
    <2>2. CASE b <= a /\ b <= c
        BY <2>2
    <2>3. CASE c <= a /\ c <= b
        BY <2>3
    <2> QED
        BY <2>1, <2>2, <2>3
<1>2. Pool(f)!Min({a, b, c}) \in {a, b, c} /\ \A y \in {a, b, c} : Pool(f)!Min({a, b, c}) <= y
    BY <1>1 DEF Pool!Min
<1> QED
    BY <1>2

\* What Copy does to the rings: a chunk leaves the community's queue, its first
\* task goes to the thread and the others to the thread's own queue.
CopiedTo(f, t, n, p) ==
    /\ RingOK(f)' /\ p \in [1..n -> Pool(f)!Live(Pool(f)!Community)]
    /\ \A i, j \in 1..n : p[i] = p[j] => i = j
    /\ Pool(f)!Live(Pool(f)!Community)' = Pool(f)!Live(Pool(f)!Community) \ {p[i] : i \in 1..n}
    /\ Pool(f)!Live(t)' = 1..(n - 1) /\ first'[t] = 0 /\ n - 1 < Pool(f)!Size(t)
    /\ task' = [task EXCEPT ![t] = mem[Pool(f)!Community][p[1]]]
    /\ mem' = [mem EXCEPT ![t] = [i \in DOMAIN @ |->
                   IF i \in 1..(n - 1) THEN mem[Pool(f)!Community][p[i + 1]] ELSE @[i]]]
    /\ \A r \in Pool(f)!Queue : r \notin {t, Pool(f)!Community} =>
          /\ Pool(f)!Live(r)' = Pool(f)!Live(r) /\ Pool(f)!Used(r)' = Pool(f)!Used(r)
          /\ first'[r] = first[r]

\* transfer_chunk moves the n slots after the head of the community queue.
LEMMA PoolChunkCopied ==
    ASSUME NEW f \in BOOLEAN, Pool(f)!TypeInv, NEW t \in Process, Pool(f)!Copy(t),
           Pool(f)!Used(Pool(f)!Community) # 0
    PROVE  \E n \in Nat \ {0} : \E p : CopiedTo(f, t, n, p)
<1> DEFINE n == Pool(f)!ChunkTaken
           C == Pool(f)!Community
           h == first[C]
           s == Pool(f)!Size(C)
           p == [i \in 1..n |-> (h + i) % s]
<1>1. C \in Pool(f)!Queue /\ t \in Pool(f)!Queue /\ t # C /\ Pool(f)!Size(t) = PoolSlots
    BY PoolFacts DEF Pool!Queue, Pool!Size
<1>2. /\ s \in Nat \ {0} /\ h \in 0..(s - 1) /\ last[C] \in 0..(s - 1)
      /\ Pool(f)!Used(C) = Distance(h, last[C], s) /\ Pool(f)!Live(C) = After(h, last[C], s)
      /\ Pool(f)!Used(C) \in 0..(s - 1)
    BY <1>1, PoolQueueIs
<1>3. n \in Nat \ {0} /\ n <= Pool(f)!Used(C) /\ n <= PoolSlots
    BY <1>2, PoolFacts, LeastOfThree DEF Pool!ChunkTaken
<1>4. /\ first' = [first EXCEPT ![C] = (h + n) % s, ![t] = 0]
      /\ last' = [last EXCEPT ![t] = n - 1]
      /\ task' = [task EXCEPT ![t] = mem[C][(h + 1) % s]]
      /\ mem' = [mem EXCEPT ![t] = [i \in DOMAIN @ |->
                     IF i \in 1..(n - 1) THEN mem[C][(h + 1 + i) % s] ELSE @[i]]]
    BY DEF Pool!Copy, Pool!First, Pool!Succ
<1> HIDE DEF n, h, s
<1>5. /\ (h + n) % s \in 0..(s - 1)
      /\ After((h + n) % s, last[C], s)
            = After(h, last[C], s) \ {(h + i) % s : i \in 1..n}
      /\ {(h + i) % s : i \in 1..n} \subseteq After(h, last[C], s)
    <2>1. n \in 1..Distance(h, last[C], s)
        BY <1>2, <1>3
    <2> QED
        BY <1>2, <2>1, PoolRingAdvance
<1>6. RingOK(f)' /\ first'[C] = (h + n) % s /\ first'[t] = 0 /\ last'[t] = n - 1
      /\ last'[C] = last[C]
    <2>1. n - 1 \in Nat /\ n - 1 < PoolSlots
        BY <1>3, PoolFacts
    <2>2. first \in [Pool(f)!Queue -> Nat] /\ last \in [Pool(f)!Queue -> Nat]
              /\ (h + n) % s \in Nat
        BY <1>2, <1>5 DEF Pool!TypeInv
    <2>3. /\ first' \in [Pool(f)!Queue -> Nat] /\ first'[C] = (h + n) % s /\ first'[t] = 0
          /\ \A r \in Pool(f)!Queue : r \notin {C, t} => first'[r] = first[r]
        BY <1>1, <1>4, <2>2
    <2>4. /\ last' \in [Pool(f)!Queue -> Nat] /\ last'[t] = n - 1
          /\ \A r \in Pool(f)!Queue : r # t => last'[r] = last[r]
        BY <1>1, <1>4, <2>1, <2>2
    <2>5. \A r \in Pool(f)!Queue : first'[r] < Pool(f)!Size(r) /\ last'[r] < Pool(f)!Size(r)
        <3> TAKE r \in Pool(f)!Queue
        <3>1. first[r] < Pool(f)!Size(r) /\ last[r] < Pool(f)!Size(r)
            BY DEF Pool!TypeInv
        <3>2. Pool(f)!Size(C) = s /\ (h + n) % s < s /\ 0 < PoolSlots
            BY <1>2, <1>5, PoolFacts DEF s
        <3> QED
            BY <1>1, <2>1, <2>3, <2>4, <3>1, <3>2
    <2> QED
        BY <1>1, <2>3, <2>4, <2>5 DEF RingOK
<1>7. p \in [1..n -> Pool(f)!Live(C)] /\ \A i, j \in 1..n : p[i] = p[j] => i = j
    <2>1. p \in [1..n -> Pool(f)!Live(C)]
        BY <1>2, <1>5
    <2>2. ASSUME NEW i \in 1..n, NEW j \in 1..n, p[i] = p[j] PROVE i = j
        <3>1. i \in 1..(s - 1) /\ j \in 1..(s - 1) /\ (h + i) % s = (h + j) % s
            BY <1>2, <1>3, <2>2
        <3> QED
            BY <1>2, <3>1, PoolRingOnce
    <2> QED
        BY <2>1, <2>2
<1>8. Pool(f)!Live(C)' = Pool(f)!Live(C) \ {p[i] : i \in 1..n}
    <2>1. Pool(f)!Live(C)' = After((h + n) % s, last[C], s)
        BY <1>1, <1>6, PoolQueueWillBe DEF s
    <2>2. {p[i] : i \in 1..n} = {(h + i) % s : i \in 1..n}
        OBVIOUS
    <2> QED
        BY <1>2, <1>5, <2>1, <2>2
<1>9. Pool(f)!Live(t)' = 1..(n - 1) /\ n - 1 < Pool(f)!Size(t)
    <2>1. Pool(f)!Live(t)' = After(0, n - 1, PoolSlots)
        BY <1>1, <1>6, PoolQueueWillBe
    <2> QED
        BY <1>1, <1>3, <2>1, PoolFacts DEF After
<1>10. /\ task' = [task EXCEPT ![t] = mem[C][p[1]]]
       /\ mem' = [mem EXCEPT ![t] = [i \in DOMAIN @ |->
                      IF i \in 1..(n - 1) THEN mem[C][p[i + 1]] ELSE @[i]]]
    <2>1. 1 \in 1..n /\ p[1] = (h + 1) % s
        BY <1>3
    <2>2. \A i \in 1..(n - 1) : p[i + 1] = (h + 1 + i) % s
        <3> TAKE i \in 1..(n - 1)
        <3>1. i + 1 \in 1..n /\ h + (i + 1) = h + 1 + i
            BY <1>2, <1>3
        <3> QED
            BY <3>1
    <2> QED
        BY <1>4, <2>1, <2>2
<1>11. ASSUME NEW r \in Pool(f)!Queue, r \notin {t, C}
       PROVE  Pool(f)!Live(r)' = Pool(f)!Live(r) /\ Pool(f)!Used(r)' = Pool(f)!Used(r)
                  /\ first'[r] = first[r]
    <2>1. first'[r] = first[r] /\ last'[r] = last[r]
        BY <1>4, <1>11 DEF Pool!TypeInv
    <2> QED
        BY <2>1, PoolQueueSame
<1>12. CopiedTo(f, t, n, p)
    BY <1>6, <1>7, <1>8, <1>9, <1>10, <1>11 DEF CopiedTo
<1> QED
    BY <1>3, <1>12

\* ShareInv, a task at a time.
InHand(f, k) == \E t \in Pool(f)!Holder : task[t] = k
InQueue(f, k) == \E q \in Pool(f)!Queue : k \in Pool(f)!Tasks(q)
Shared(f) ==
    /\ \A q \in Pool(f)!Queue : \A k \in Pool(f)!Tasks(q) : k \notin done /\ ~InHand(f, k)
    /\ \A q, r \in Pool(f)!Queue : \A k : k \in Pool(f)!Tasks(q) /\ k \in Pool(f)!Tasks(r)
           => q = r
    /\ \A q \in Pool(f)!Queue : \A i, j \in Pool(f)!Live(q) : mem[q][i] = mem[q][j] => i = j
    /\ \A t, u \in Pool(f)!Holder : task[t] = task[u] => t = u
    /\ \A t \in Pool(f)!Holder : task[t] \notin done
    /\ \A k : k \in 1..created <=> k \in done \/ InHand(f, k) \/ InQueue(f, k)
\* The two forms of the partition of the tasks are one, before a step
LEMMA PoolSharedIs ==
    ASSUME NEW f \in BOOLEAN
    PROVE  Pool(f)!ShareInv <=> Shared(f)
<1>1. ASSUME Pool(f)!ShareInv PROVE Shared(f)
    <2>1. \A q, r \in Pool(f)!Queue : \A k : k \in Pool(f)!Tasks(q) /\ k \in Pool(f)!Tasks(r)
              => q = r
        BY <1>1 DEF Pool!ShareInv
    <2>2. \A k : k \in 1..created <=> k \in done \/ InHand(f, k) \/ InQueue(f, k)
        BY <1>1 DEF Pool!ShareInv, InHand, InQueue
    <2> QED
        BY <1>1, <2>1, <2>2 DEF Pool!ShareInv, Shared, InHand
<1>2. ASSUME Shared(f) PROVE Pool(f)!ShareInv
    <2>1. 1..created = done \cup {task[t] : t \in Pool(f)!Holder} \cup UNION {Pool(f)!Tasks(q) : q \in Pool(f)!Queue}
        BY <1>2 DEF Shared, InHand, InQueue
    <2>2. \A q, r \in Pool(f)!Queue : q # r => Pool(f)!Tasks(q) \cap Pool(f)!Tasks(r) = {}
        BY <1>2 DEF Shared
    <2>3. \A q \in Pool(f)!Queue : Pool(f)!Tasks(q) \cap done = {}
        BY <1>2 DEF Shared
    <2>4. \A t \in Pool(f)!Holder : task[t] \notin done
              /\ \A q \in Pool(f)!Queue : task[t] \notin Pool(f)!Tasks(q)
        BY <1>2 DEF Shared, InHand
    <2> QED
        BY <1>2, <2>1, <2>2, <2>3, <2>4 DEF Pool!ShareInv, Shared
<1> QED
    BY <1>1, <1>2

\* and after it.
LEMMA PoolSharedWillBe ==
    ASSUME NEW f \in BOOLEAN, Shared(f)'
    PROVE  Pool(f)!ShareInv'
<1>1. (1..created = done \cup {task[t] : t \in Pool(f)!Holder} \cup UNION {Pool(f)!Tasks(q) : q \in Pool(f)!Queue})'
    BY DEF Shared, InHand, InQueue
<1>2. \A q, r \in Pool(f)!Queue : q # r => Pool(f)!Tasks(q)' \cap Pool(f)!Tasks(r)' = {}
    BY DEF Shared, Pool!Queue
<1>3. \A q \in Pool(f)!Queue : Pool(f)!Tasks(q)' \cap done' = {}
    BY DEF Shared, Pool!Queue
<1>4. \A t \in Pool(f)!Holder' : task'[t] \notin done'
          /\ \A q \in Pool(f)!Queue : task'[t] \notin Pool(f)!Tasks(q)'
    BY DEF Shared, InHand, Pool!Queue
<1> QED
    BY <1>1, <1>2, <1>3, <1>4 DEF Pool!ShareInv, Shared, Pool!Queue

\* A step that moves no task.
LEMMA PoolShareKept ==
    ASSUME NEW f \in BOOLEAN, Pool(f)!ShareInv, mem' = mem, done' = done, created' = created,
           \A q \in Pool(f)!Queue : Pool(f)!Live(q)' = Pool(f)!Live(q),
           Pool(f)!Holder' = Pool(f)!Holder, \A t \in Pool(f)!Holder : task'[t] = task[t]
    PROVE  Pool(f)!ShareInv'
<1>1. Shared(f)
    BY PoolSharedIs
<1>2. \A q \in Pool(f)!Queue : Pool(f)!Tasks(q)' = Pool(f)!Tasks(q)
    BY DEF Pool!Tasks
<1>3. \A k : (InHand(f, k)' <=> InHand(f, k)) /\ (InQueue(f, k)' <=> InQueue(f, k))
    BY <1>2 DEF InHand, InQueue, Pool!Queue
<1>4. Shared(f)'
    BY <1>1, <1>2, <1>3 DEF Shared, Pool!Queue
<1> QED
    BY <1>4, PoolSharedWillBe

\* A new task is in the hands of its creator.
LEMMA PoolShareCreated ==
    ASSUME NEW f \in BOOLEAN, Pool(f)!TypeInv,
           Pool(f)!ShareInv, mem' = mem, done' = done, created' = created + 1,
           \A q \in Pool(f)!Queue : Pool(f)!Live(q)' = Pool(f)!Live(q),
           NEW t \in Process, t \notin Pool(f)!Holder, Pool(f)!Holder' = Pool(f)!Holder \cup {t},
           task' = [task EXCEPT ![t] = created + 1]
    PROVE  Pool(f)!ShareInv'
<1>1. Shared(f) /\ created \in Nat
    BY PoolSharedIs DEF Pool!TypeInv
<1>2. \A q \in Pool(f)!Queue : Pool(f)!Tasks(q)' = Pool(f)!Tasks(q)
    BY DEF Pool!Tasks
<1>3. task'[t] = created + 1 /\ \A u \in Pool(f)!Holder : task'[u] = task[u] /\ u # t
    BY DEF Pool!TypeInv, Pool!Holder
<1>4. \A k : (InHand(f, k)' <=> InHand(f, k) \/ k = created + 1)
          /\ (InQueue(f, k)' <=> InQueue(f, k))
    BY <1>2, <1>3 DEF InHand, InQueue, Pool!Queue
<1>5. created + 1 \notin done /\ ~InHand(f, created + 1) /\ ~InQueue(f, created + 1)
    BY <1>1 DEF Shared
<1>6. Shared(f)'
    <2>1. \A q \in Pool(f)!Queue : \A k \in Pool(f)!Tasks(q)' : k \notin done' /\ ~InHand(f, k)'
        BY <1>1, <1>2, <1>4, <1>5 DEF Shared, InQueue
    <2>2. \A q, r \in Pool(f)!Queue : \A k : k \in Pool(f)!Tasks(q)'
              /\ k \in Pool(f)!Tasks(r)' => q = r
        BY <1>1, <1>2 DEF Shared
    <2>3. \A u, v \in Pool(f)!Holder' : task'[u] = task'[v] => u = v
        BY <1>1, <1>3, <1>5 DEF Shared, InHand
    <2>4. \A u \in Pool(f)!Holder' : task'[u] \notin done'
        BY <1>1, <1>3, <1>5 DEF Shared
    <2>5. \A k : k \in 1..created' <=> k \in done' \/ InHand(f, k)' \/ InQueue(f, k)'
        <3> TAKE k
        <3>1. k \in 1..(created + 1) <=> k \in 1..created \/ k = created + 1
            BY <1>1
        <3> QED
            BY <1>1, <1>4, <3>1 DEF Shared
    <2>6. \A q \in Pool(f)!Queue : \A i, j \in Pool(f)!Live(q)' : mem'[q][i] = mem'[q][j] => i = j
        BY <1>1 DEF Shared
    <2> QED
        BY <2>1, <2>2, <2>3, <2>4, <2>5, <2>6 DEF Shared, Pool!Queue
<1> QED
    BY <1>6, PoolSharedWillBe

\* A task in hand is done.
LEMMA PoolShareDone ==
    ASSUME NEW f \in BOOLEAN, Pool(f)!TypeInv, Pool(f)!ShareInv, mem' = mem, created' = created,
           \A q \in Pool(f)!Queue : Pool(f)!Live(q)' = Pool(f)!Live(q),
           NEW t \in Pool(f)!Holder, Pool(f)!Holder' = Pool(f)!Holder \ {t},
           \A u \in Pool(f)!Holder' : task'[u] = task[u],
           done' = done \cup {task[t]}
    PROVE  Pool(f)!ShareInv'
<1>1. Shared(f)
    BY PoolSharedIs
<1>2. \A q \in Pool(f)!Queue : Pool(f)!Tasks(q)' = Pool(f)!Tasks(q)
    BY DEF Pool!Tasks
<1>3. InHand(f, task[t])
    BY DEF InHand
<1>4. \A k : (InHand(f, k)' <=> InHand(f, k) /\ k # task[t]) /\ (InQueue(f, k)' <=> InQueue(f, k))
    <2>1. \A u \in Pool(f)!Holder : task[u] = task[t] => u = t
        BY <1>1 DEF Shared
    <2>2. \A k : InHand(f, k)' <=> InHand(f, k) /\ k # task[t]
        BY <2>1 DEF InHand
    <2> QED
        BY <1>2, <2>2 DEF InQueue, Pool!Queue
<1>5. Shared(f)'
    <2>1. \A q \in Pool(f)!Queue : \A k \in Pool(f)!Tasks(q)' : k \notin done' /\ ~InHand(f, k)'
        BY <1>1, <1>2, <1>3, <1>4 DEF Shared
    <2>2. \A q, r \in Pool(f)!Queue : \A k : k \in Pool(f)!Tasks(q)'
              /\ k \in Pool(f)!Tasks(r)' => q = r
        BY <1>1, <1>2 DEF Shared
    <2>3. \A u, v \in Pool(f)!Holder' : task'[u] = task'[v] => u = v
        BY <1>1 DEF Shared
    <2>4. \A u \in Pool(f)!Holder' : task'[u] \notin done'
        BY <1>1 DEF Shared
    <2>5. \A k : k \in 1..created' <=> k \in done' \/ InHand(f, k)' \/ InQueue(f, k)'
        BY <1>1, <1>3, <1>4 DEF Shared
    <2>6. \A q \in Pool(f)!Queue : \A i, j \in Pool(f)!Live(q)' : mem'[q][i] = mem'[q][j] => i = j
        BY <1>1 DEF Shared
    <2> QED
        BY <2>1, <2>2, <2>3, <2>4, <2>5, <2>6 DEF Shared, Pool!Queue
<1> QED
    BY <1>5, PoolSharedWillBe

\* A task goes from a thread's hands into a queue.
LEMMA PoolSharePut ==
    ASSUME NEW f \in BOOLEAN, Pool(f)!TypeInv, Pool(f)!ShareInv, NEW q \in Pool(f)!Queue,
           NEW i, NEW t \in Pool(f)!Holder, PutAt(f, q, i, task[t]),
           Pool(f)!Holder' = Pool(f)!Holder \ {t}, \A u \in Pool(f)!Holder' : task'[u] = task[u],
           created' = created, done' = done
    PROVE  Pool(f)!ShareInv'
<1>1. Shared(f)
    BY PoolSharedIs
<1>x. PICK x : x = task[t]
    OBVIOUS
<1>2. /\ InHand(f, x) /\ x \notin done /\ ~InQueue(f, x)
      /\ \A u \in Pool(f)!Holder : task[u] = x => u = t
    BY <1>1, <1>x DEF Shared, InHand, InQueue
<1>3. /\ mem'[q][i] = x
      /\ \A j \in Pool(f)!Live(q) : j # i /\ mem'[q][j] = mem[q][j]
      /\ Pool(f)!Live(q)' = Pool(f)!Live(q) \cup {i}
      /\ \A r \in Pool(f)!Queue : r # q => mem'[r] = mem[r] /\ Pool(f)!Live(r)' = Pool(f)!Live(r)
    <2>1. /\ mem = [r \in Pool(f)!Queue |-> mem[r]]
                 /\ mem[q] \in [0..(Pool(f)!Size(q) - 1) -> Pool(f)!Task \cup {Pool(f)!NoTask}]
          /\ mem' = [mem EXCEPT ![q][i] = x] /\ i \in 0..(Pool(f)!Size(q) - 1)
        BY <1>x DEF PutAt, Pool!TypeInv
    <2>2. DOMAIN mem = Pool(f)!Queue
        BY <2>1
    <2>3. mem'[q] = [mem[q] EXCEPT ![i] = x] /\ \A r \in Pool(f)!Queue : r # q => mem'[r] = mem[r]
        BY <2>1, <2>2
    <2>4. mem'[q][i] = x /\ \A j : j \in DOMAIN mem[q] /\ j # i => mem'[q][j] = mem[q][j]
        BY <2>1, <2>3
    <2>5. \A j \in Pool(f)!Live(q) : j # i /\ j \in DOMAIN mem[q]
        BY <2>1, PoolQueueIs DEF PutAt, After
    <2> QED
        BY <2>3, <2>4, <2>5 DEF PutAt
<1>4. Pool(f)!Tasks(q)' = Pool(f)!Tasks(q) \cup {x}
    BY <1>3 DEF Pool!Tasks
<1>5. \A r \in Pool(f)!Queue : r # q => Pool(f)!Tasks(r)' = Pool(f)!Tasks(r)
    BY <1>3 DEF Pool!Tasks
<1>6. \A k : (InHand(f, k)' <=> InHand(f, k) /\ k # x)
          /\ (InQueue(f, k)' <=> InQueue(f, k) \/ k = x)
    <2>1. \A k : InHand(f, k)' <=> InHand(f, k) /\ k # x
        BY <1>2, <1>x DEF InHand
    <2>2. \A k : InQueue(f, k)' <=> InQueue(f, k) \/ k = x
        BY <1>4, <1>5 DEF InQueue, Pool!Queue
    <2> QED
        BY <2>1, <2>2
<1>7. Shared(f)'
    <2>1. \A r \in Pool(f)!Queue : \A k \in Pool(f)!Tasks(r)' : k \notin done' /\ ~InHand(f, k)'
        BY <1>1, <1>2, <1>4, <1>5, <1>6 DEF Shared
    <2>2. \A r, s \in Pool(f)!Queue : \A k : k \in Pool(f)!Tasks(r)'
              /\ k \in Pool(f)!Tasks(s)' => r = s
        BY <1>1, <1>2, <1>4, <1>5 DEF Shared, InQueue
    <2>3. \A u, v \in Pool(f)!Holder' : task'[u] = task'[v] => u = v
        BY <1>1 DEF Shared
    <2>4. \A u \in Pool(f)!Holder' : task'[u] \notin done'
        BY <1>1 DEF Shared
    <2>5. \A k : k \in 1..created' <=> k \in done' \/ InHand(f, k)' \/ InQueue(f, k)'
        BY <1>1, <1>2, <1>6 DEF Shared
    <2>6. \A r \in Pool(f)!Queue : \A j, m \in Pool(f)!Live(r)' : mem'[r][j] = mem'[r][m] => j = m
        <3>1. \A j \in Pool(f)!Live(q) : mem[q][j] # x
            BY <1>2 DEF InQueue, Pool!Tasks
        <3>2. \A j, m \in Pool(f)!Live(q)' : mem'[q][j] = mem'[q][m] => j = m
            BY <1>1, <1>3, <3>1 DEF Shared
        <3>3. \A r \in Pool(f)!Queue : r # q =>
                \A j, m \in Pool(f)!Live(r)' : mem'[r][j] = mem'[r][m] => j = m
            BY <1>1, <1>3 DEF Shared
        <3> QED
            BY <3>2, <3>3
    <2> QED
        BY <2>1, <2>2, <2>3, <2>4, <2>5, <2>6 DEF Shared, Pool!Queue
<1> QED
    BY <1>7, PoolSharedWillBe

\* A task goes from a queue into a thread's hands.
LEMMA PoolShareTaken ==
    ASSUME NEW f \in BOOLEAN, Pool(f)!TypeInv, Pool(f)!ShareInv, NEW q \in Pool(f)!Queue,
           NEW i, TakenAt(f, q, i),
           NEW t \in Process, t \notin Pool(f)!Holder, Pool(f)!Holder' = Pool(f)!Holder \cup {t},
           task' = [task EXCEPT ![t] = mem[q][i]],
           created' = created, done' = done
    PROVE  Pool(f)!ShareInv' /\ mem[q][i] \in 1..created
<1>1. Shared(f)
    BY PoolSharedIs
<1>x. PICK x : x = mem[q][i]
    OBVIOUS
<1>2. x \in Pool(f)!Tasks(q) /\ InQueue(f, x) /\ x \notin done /\ ~InHand(f, x)
          /\ x \in 1..created
    <2>1. x \in Pool(f)!Tasks(q)
        BY <1>x DEF TakenAt, Pool!Tasks
    <2> QED
        BY <1>1, <2>1 DEF Shared, InQueue
<1>3. /\ mem' = mem /\ i \in Pool(f)!Live(q) /\ Pool(f)!Live(q)' = Pool(f)!Live(q) \ {i}
      /\ \A r \in Pool(f)!Queue : r # q => Pool(f)!Live(r)' = Pool(f)!Live(r)
    BY DEF TakenAt
<1>4. Pool(f)!Tasks(q)' = Pool(f)!Tasks(q) \ {x}
    <2>1. \A j \in Pool(f)!Live(q) : mem[q][j] = x => j = i
        BY <1>1, <1>3, <1>x DEF Shared
    <2> QED
        BY <1>3, <1>x, <2>1 DEF Pool!Tasks
<1>5. \A r \in Pool(f)!Queue : r # q => Pool(f)!Tasks(r)' = Pool(f)!Tasks(r)
          /\ x \notin Pool(f)!Tasks(r)
    BY <1>1, <1>2, <1>3 DEF Pool!Tasks, Shared
<1>h. task'[t] = x /\ \A u \in Pool(f)!Holder : task'[u] = task[u] /\ u # t
    BY <1>x DEF Pool!TypeInv, Pool!Holder
<1>6. \A k : (InHand(f, k)' <=> InHand(f, k) \/ k = x)
          /\ (InQueue(f, k)' <=> InQueue(f, k) /\ k # x)
    <2>1. \A k : InHand(f, k)' <=> InHand(f, k) \/ k = x
        BY <1>h DEF InHand
    <2>2. \A k : InQueue(f, k)' <=> InQueue(f, k) /\ k # x
        BY <1>4, <1>5 DEF InQueue, Pool!Queue
    <2> QED
        BY <2>1, <2>2
<1>7. Shared(f)'
    <2>1. \A r \in Pool(f)!Queue : \A k \in Pool(f)!Tasks(r)' : k \notin done' /\ ~InHand(f, k)'
        BY <1>1, <1>4, <1>5, <1>6 DEF Shared
    <2>2. \A r, s \in Pool(f)!Queue : \A k : k \in Pool(f)!Tasks(r)'
              /\ k \in Pool(f)!Tasks(s)' => r = s
        BY <1>1, <1>4, <1>5 DEF Shared
    <2>3. \A u, v \in Pool(f)!Holder' : task'[u] = task'[v] => u = v
        BY <1>1, <1>2, <1>h DEF Shared, InHand
    <2>4. \A u \in Pool(f)!Holder' : task'[u] \notin done'
        BY <1>1, <1>2, <1>h DEF Shared
    <2>5. \A k : k \in 1..created' <=> k \in done' \/ InHand(f, k)' \/ InQueue(f, k)'
        BY <1>1, <1>2, <1>6 DEF Shared
    <2>6. \A r \in Pool(f)!Queue : \A j, m \in Pool(f)!Live(r)' : mem'[r][j] = mem'[r][m] => j = m
        BY <1>1, <1>3 DEF Shared
    <2> QED
        BY <2>1, <2>2, <2>3, <2>4, <2>5, <2>6 DEF Shared, Pool!Queue
<1>8. Pool(f)!ShareInv'
    BY <1>7, PoolSharedWillBe
<1> QED
    BY <1>2, <1>8, <1>x

\* A chunk of the community's tasks goes to a thread and its own queue, which is empty.
LEMMA PoolShareCopied ==
    ASSUME NEW f \in BOOLEAN, Pool(f)!TypeInv, Pool(f)!ShareInv, NEW t \in Process,
           NEW n \in Nat \ {0}, NEW p, CopiedTo(f, t, n, p),
           t \notin Pool(f)!Holder, Pool(f)!Holder' = Pool(f)!Holder \cup {t},
           Pool(f)!Live(t) = {},
           created' = created, done' = done
    PROVE  Pool(f)!ShareInv' /\ mem[Pool(f)!Community][p[1]] \in 1..created
<1> DEFINE C == Pool(f)!Community
<1>1. Shared(f) /\ C \in Pool(f)!Queue /\ t \in Pool(f)!Queue /\ t # C
    BY PoolSharedIs, PoolFacts DEF Pool!Queue
<1>x. PICK x : x = mem[C][p[1]]
    OBVIOUS
<1>2. p \in [1..n -> Pool(f)!Live(C)] /\ (\A i, j \in 1..n : p[i] = p[j] => i = j) /\ 1 \in 1..n
    BY DEF CopiedTo
<1>3. /\ mem'[C] = mem[C] /\ Pool(f)!Live(C)' = Pool(f)!Live(C) \ {p[i] : i \in 1..n}
      /\ Pool(f)!Live(t)' = 1..(n - 1)
      /\ \A r \in Pool(f)!Queue : r \notin {t, C} => mem'[r] = mem[r]
             /\ Pool(f)!Live(r)' = Pool(f)!Live(r)
    BY <1>1 DEF CopiedTo, Pool!TypeInv
<1>4. \A i \in 1..(n - 1) : i + 1 \in 1..n /\ i + 1 # 1 /\ mem'[t][i] = mem[C][p[i + 1]]
    <2>1. \A i \in 1..(n - 1) : i \in DOMAIN mem[t]
        <3>1. Pool(f)!Size(t) \in Nat /\ n - 1 < Pool(f)!Size(t)
                  /\ DOMAIN mem[t] = 0..(Pool(f)!Size(t) - 1)
            BY <1>1, PoolQueueIs DEF CopiedTo, Pool!TypeInv
        <3> QED
            BY <3>1
    <2>2. \A i \in 1..(n - 1) : mem'[t][i] = mem[C][p[i + 1]]
        BY <1>1, <2>1 DEF CopiedTo, Pool!TypeInv
    <2> QED
        BY <2>2
<1> DEFINE X == {mem[C][p[i]] : i \in 1..n}
<1>5. X \subseteq Pool(f)!Tasks(C) /\ x \in X
    BY <1>2, <1>x DEF Pool!Tasks
<1>6. \A i \in Pool(f)!Live(C), j \in 1..n : mem[C][i] = mem[C][p[j]] => i = p[j]
    BY <1>1, <1>2 DEF Shared
<1>7. Pool(f)!Tasks(C)' = Pool(f)!Tasks(C) \ X
    BY <1>3, <1>2, <1>6 DEF Pool!Tasks
<1>8. Pool(f)!Tasks(t) = {} /\ Pool(f)!Tasks(t)' = X \ {x}
    <2>1. Pool(f)!Tasks(t) = {}
        BY DEF Pool!Tasks
    <2>2. Pool(f)!Tasks(t)' = {mem'[t][i] : i \in 1..(n - 1)}
        BY <1>3 DEF Pool!Tasks
    <2>3. ASSUME NEW i \in 1..(n - 1) PROVE mem'[t][i] \in X \ {x}
        BY <1>2, <1>4, <1>6, <1>x
    <2>4. ASSUME NEW k \in X \ {x} PROVE \E i \in 1..(n - 1) : k = mem'[t][i]
        <3>1. PICK j \in 1..n : k = mem[C][p[j]]
            OBVIOUS
        <3>2. j # 1
            BY <1>x, <3>1
        <3>3. j - 1 \in 1..(n - 1) /\ (j - 1) + 1 = j
            BY <3>2
        <3> QED
            BY <1>4, <3>1, <3>3
    <2> QED
        BY <2>1, <2>2, <2>3, <2>4
<1> HIDE DEF X
<1>9. \A r \in Pool(f)!Queue : r \notin {t, C} => Pool(f)!Tasks(r)' = Pool(f)!Tasks(r)
    BY <1>3 DEF Pool!Tasks
<1>10. \A k \in X : InQueue(f, k) /\ ~InHand(f, k) /\ k \notin done
           /\ \A r \in Pool(f)!Queue : r # C => k \notin Pool(f)!Tasks(r)
    BY <1>1, <1>5 DEF Shared, InQueue
<1>11. x \in 1..created
    BY <1>1, <1>5, <1>10 DEF Shared
<1>h. task'[t] = x /\ \A u \in Pool(f)!Holder : task'[u] = task[u] /\ u # t
    BY <1>x DEF Pool!TypeInv, Pool!Holder, CopiedTo
<1>12. \A k : (InHand(f, k)' <=> InHand(f, k) \/ k = x)
           /\ (InQueue(f, k)' <=> InQueue(f, k) /\ k # x)
    <2>1. \A k : InHand(f, k)' <=> InHand(f, k) \/ k = x
        BY <1>h DEF InHand
    <2>2. \A k : InQueue(f, k)' <=> \E r \in Pool(f)!Queue : k \in Pool(f)!Tasks(r)'
        BY DEF InQueue, Pool!Queue
    <2>3. ASSUME NEW k, InQueue(f, k)' PROVE InQueue(f, k) /\ k # x
        <3>1. PICK r \in Pool(f)!Queue : k \in Pool(f)!Tasks(r)'
            BY <2>2, <2>3
        <3>2. CASE r = C
            BY <1>1, <1>5, <1>7, <3>1, <3>2 DEF InQueue
        <3>3. CASE r = t
            BY <1>8, <1>10, <3>1, <3>3
        <3>4. CASE r \notin {t, C}
            BY <1>5, <1>9, <1>10, <3>1, <3>4 DEF InQueue
        <3> QED
            BY <3>2, <3>3, <3>4
    <2>4. ASSUME NEW k, InQueue(f, k), k # x PROVE InQueue(f, k)'
        <3>1. PICK r \in Pool(f)!Queue : k \in Pool(f)!Tasks(r)
            BY <2>4 DEF InQueue
        <3>2. CASE k \in X
            BY <1>1, <1>8, <2>2, <2>4, <3>2
        <3>3. CASE k \notin X
            BY <1>1, <1>7, <1>8, <1>9, <2>2, <3>1, <3>3
        <3> QED
            BY <3>2, <3>3
    <2> QED
        BY <2>1, <2>3, <2>4
<1>13. Shared(f)'
    <2>1. \A r \in Pool(f)!Queue : \A k \in Pool(f)!Tasks(r)' : k \notin done' /\ ~InHand(f, k)'
        <3> TAKE r \in Pool(f)!Queue
        <3> TAKE k \in Pool(f)!Tasks(r)'
        <3>1. InQueue(f, k)'
            BY DEF InQueue, Pool!Queue
        <3>2. InQueue(f, k) /\ k # x
            BY <1>12, <3>1
        <3> QED
            BY <1>1, <1>12, <3>2 DEF Shared, InQueue
    <2>2. \A r, s \in Pool(f)!Queue : \A k : k \in Pool(f)!Tasks(r)'
              /\ k \in Pool(f)!Tasks(s)' => r = s
        <3>1. \A r, s \in Pool(f)!Queue : \A k : k \in Pool(f)!Tasks(r)
                  /\ k \in Pool(f)!Tasks(s) => r = s
            BY <1>1 DEF Shared
        <3> QED
            BY <1>1, <1>7, <1>8, <1>9, <1>10, <3>1
    <2>3. \A u, v \in Pool(f)!Holder' : task'[u] = task'[v] => u = v
        BY <1>1, <1>5, <1>10, <1>h DEF Shared, InHand
    <2>4. \A u \in Pool(f)!Holder' : task'[u] \notin done'
        BY <1>1, <1>5, <1>10, <1>h DEF Shared
    <2>5. \A k : k \in 1..created' <=> k \in done' \/ InHand(f, k)' \/ InQueue(f, k)'
        BY <1>1, <1>11, <1>12 DEF Shared
    <2>6. \A r \in Pool(f)!Queue : \A j, m \in Pool(f)!Live(r)' : mem'[r][j] = mem'[r][m] => j = m
        <3>1. \A j, m \in Pool(f)!Live(C)' : mem'[C][j] = mem'[C][m] => j = m
            BY <1>1, <1>3 DEF Shared
        <3>2. \A j, m \in Pool(f)!Live(t)' : mem'[t][j] = mem'[t][m] => j = m
            <4> TAKE j, m \in Pool(f)!Live(t)'
            <4>1. j \in 1..(n - 1) /\ m \in 1..(n - 1)
                BY <1>3
            <4> HAVE mem'[t][j] = mem'[t][m]
            <4>2. p[j + 1] = p[m + 1]
                BY <1>2, <1>4, <1>6, <4>1
            <4>3. j + 1 = m + 1
                BY <1>2, <1>4, <4>1, <4>2
            <4> QED
                BY <4>1, <4>3
        <3>3. \A r \in Pool(f)!Queue : r \notin {t, C} =>
                \A j, m \in Pool(f)!Live(r)' : mem'[r][j] = mem'[r][m] => j = m
            BY <1>1, <1>3 DEF Shared
        <3> QED
            BY <3>1, <3>2, <3>3
    <2> QED
        BY <2>1, <2>2, <2>3, <2>4, <2>5, <2>6 DEF Shared, Pool!Queue
<1>14. Pool(f)!ShareInv'
    BY <1>13, PoolSharedWillBe
<1> QED
    BY <1>11, <1>14, <1>x

\* The pool starts empty.
LEMMA PoolStart ==
    ASSUME NEW f \in BOOLEAN
    PROVE  Pool(f)!Init => Pool(f)!PoolInv
<1> SUFFICES ASSUME Pool(f)!Init PROVE Pool(f)!PoolInv
    OBVIOUS
<1> USE PoolFacts DEF Pool!Init
<1>1. \A q \in Pool(f)!Queue : Pool(f)!Size(q) \in Nat \ {0}
    BY DEF Pool!Size
<1>2. Pool(f)!TypeInv
    <2>1. \A q \in Pool(f)!Queue : mem[q] = [i \in 0..(Pool(f)!Size(q) - 1) |-> Pool(f)!NoTask]
        OBVIOUS
    <2>2. \A q \in Pool(f)!Queue : mem[q] \in [0..(Pool(f)!Size(q) - 1) -> Pool(f)!Task \cup {Pool(f)!NoTask}]
        BY <2>1
    <2>3. mem = [q \in Pool(f)!Queue |-> mem[q]]
        OBVIOUS
    <2>4. /\ first \in [Pool(f)!Queue -> Nat] /\ last \in [Pool(f)!Queue -> Nat]
          /\ \A q \in Pool(f)!Queue : first[q] < Pool(f)!Size(q) /\ last[q] < Pool(f)!Size(q)
        BY <1>1
    <2>5. /\ empty \in [Pool(f)!Queue -> BOOLEAN]
          /\ l1 \in [Pool(f)!Queue -> Process \cup {Pool(f)!Free}]
          /\ l2 \in [Pool(f)!Queue -> Process \cup {Pool(f)!Free}]
        OBVIOUS
    <2>6. queueAt \in [Process -> Pool(f)!Queue]
        BY DEF Pool!Queue
    <2>7. created \in 0..MaxTasks /\ task \in [Process -> 0..created]
        BY DEF Pool!NoTask
    <2>8. at \in [Process -> Pool(f)!Labels] /\ todo \in [Process -> SUBSET Process]
        BY DEF Pool!Labels
    <2> QED
        BY <2>2, <2>3, <2>4, <2>5, <2>6, <2>7, <2>8 DEF Pool!TypeInv
<1>3. \A q \in Pool(f)!Queue : Pool(f)!Used(q) = 0 /\ Pool(f)!Live(q) = {}
          /\ Pool(f)!Tasks(q) = {}
    <2> TAKE q \in Pool(f)!Queue
    <2>1. Pool(f)!Used(q) = 0
        BY <1>1, <1>2, PoolQueueIs DEF Distance
    <2>2. Pool(f)!Live(q) = {}
        BY <1>1, <1>2, PoolQueueIs DEF After
    <2> QED
        BY <2>1, <2>2 DEF Pool!Tasks
<1>4. Pool(f)!PlaceInv /\ Pool(f)!LockInv
    BY DEF Pool!PlaceInv, Pool!LockInv, Pool!Taking
<1>5. Pool(f)!EmptyInv
    BY <1>3 DEF Pool!EmptyInv, Pool!Taking
<1>6. Pool(f)!ShareInv
    <2>1. Pool(f)!Holder = {}
        BY DEF Pool!Holder, Pool!Taking
    <2>2. Shared(f)
        BY <1>3, <2>1 DEF Shared, InHand, InQueue
    <2> QED
        BY <2>2, PoolSharedIs
<1> QED
    BY <1>2, <1>4, <1>5, <1>6 DEF Pool!PoolInv

\* A thread that does not stay for a flag, before and after its step.
Lagging(f) == {"putFlag"} \cup Pool(f)!Taking
OthersStay(t) == \A u \in Process : u # t => /\ at'[u] = at[u] /\ queueAt'[u] = queueAt[u]
                                             /\ task'[u] = task[u]
\* Its step keeps the locks and the flags as good as they were.
LEMMA PoolQuietKept ==
    ASSUME NEW f \in BOOLEAN, Pool(f)!LockInv, Pool(f)!EmptyInv, NEW t \in Process, OthersStay(t),
           UNCHANGED <<first, last, empty, Pool(f)!lockVars>>,
           at[t] \notin Lagging(f), at'[t] \notin Lagging(f),
           at'[t] \in {"chunk", "copy", "scan", "steal"} => empty[t]
    PROVE  Pool(f)!LockInv' /\ Pool(f)!EmptyInv'
<1>1. \A q \in Pool(f)!Queue : Pool(f)!Used(q)' = Pool(f)!Used(q)
    BY PoolQueueSame
<1>2. /\ \A q : Pool(f)!Puts(t, q) = FALSE /\ Pool(f)!Takes(t, q) = FALSE
      /\ \A q : Pool(f)!Puts(t, q)' = FALSE /\ Pool(f)!Takes(t, q)' = FALSE
      /\ \A u \in Process : u # t => \A q : /\ Pool(f)!Puts(u, q)' <=> Pool(f)!Puts(u, q)
                                            /\ Pool(f)!Takes(u, q)' <=> Pool(f)!Takes(u, q)
    BY DEF Pool!Puts, Pool!Takes, OthersStay, Lagging
<1>3. Pool(f)!LockInv'
    BY DEF Pool!LockInv, OthersStay, Lagging, Pool!lockVars
<1>4. Pool(f)!EmptyInv'
    <2>1. ASSUME NEW q \in Pool(f)!Queue
          PROVE  /\ empty'[q] => \/ Pool(f)!Used(q)' = 0
                                 \/ \E u \in Process : Pool(f)!Puts(u, q)'
                                        \/ (q = u /\ at'[u] = "ownFlag")
                 /\ ~empty'[q] => Pool(f)!Used(q)' # 0 \/ \E u \in Process : Pool(f)!Takes(u, q)'
        <3>1. (\E u \in Process : Pool(f)!Takes(u, q)) => \E u \in Process : Pool(f)!Takes(u, q)'
            BY <1>2
        <3>2. (\E u \in Process : Pool(f)!Puts(u, q) \/ (q = u /\ at[u] = "ownFlag"))
                => \E u \in Process : Pool(f)!Puts(u, q)' \/ (q = u /\ at'[u] = "ownFlag")
            BY <1>2 DEF OthersStay, Lagging, Pool!Taking
        <3> QED
            BY <1>1, <3>1, <3>2 DEF Pool!EmptyInv
    <2>2. ASSUME NEW u \in Process
          PROVE  /\ at'[u] \in Pool(f)!Taking => ~empty'[queueAt'[u]]
                 /\ at'[u] \in {"chunk", "copy", "ownFlag", "scan", "steal"} => empty'[u]
                 /\ at'[u] = "ownFlag" => first'[u] = 0
                 /\ at'[u] = "putFlag" => \/ Pool(f)!Used(queueAt[u])' # 0
                                          \/ \E v \in Process : Pool(f)!Takes(v, queueAt[u])'
        <3>1. CASE u = t
            BY <3>1 DEF Lagging, Pool!Taking
        <3>2. CASE u # t
            <4>1. at'[u] = at[u] /\ queueAt'[u] = queueAt[u]
                BY <3>2 DEF OthersStay
            <4>2. /\ at[u] = "putFlag" => \/ Pool(f)!Used(queueAt[u])' # 0
                                          \/ \E v \in Process : Pool(f)!Takes(v, queueAt[u])'
                <5>1. ASSUME at[u] = "putFlag"
                      PROVE  Pool(f)!Used(queueAt[u]) # 0
                                 \/ \E v \in Process : Pool(f)!Takes(v, queueAt[u])
                    BY <5>1 DEF Pool!EmptyInv
                <5>2. Pool(f)!Used(queueAt[u])' = Pool(f)!Used(queueAt[u])
                    BY <4>1 DEF Pool!Used
                <5>3. (\E v \in Process : Pool(f)!Takes(v, queueAt[u]))
                          => \E v \in Process : Pool(f)!Takes(v, queueAt[u])'
                    BY <1>2, <4>1
                <5> QED
                    BY <5>1, <5>2, <5>3
            <4> QED
                BY <4>1, <4>2 DEF Pool!EmptyInv
        <3> QED
            BY <3>1, <3>2
    <2> QED
        BY <2>1, <2>2 DEF Pool!EmptyInv, Pool!Queue
<1> QED
    BY <1>3, <1>4

\* The steps that only look, and those that create a task or find no room for it.
LEMMA PoolQuietSteps ==
    ASSUME NEW f \in BOOLEAN, Pool(f)!PoolInv, NEW t \in Process,
           \/ Pool(f)!Add(t) \/ Pool(f)!PutRefused(t) \/ Pool(f)!Remove(t)
                  \/ (Pool(f)!Get(t) /\ empty[t])
           \/ Pool(f)!ChunkPeek(t) \/ Pool(f)!CopyMiss(t) \/ Pool(f)!Scan(t)
                  \/ Pool(f)!ScanMiss(t) \/ Pool(f)!StealMiss(t)
    PROVE  Pool(f)!PoolInv'
<1> USE PoolFacts DEF Pool!PoolInv
<1>1. /\ mem' = mem /\ first' = first /\ last' = last
      /\ empty' = empty /\ l1' = l1 /\ l2' = l2
    BY DEF Pool!Add, Pool!PutRefused, Pool!Remove, Pool!Get, Pool!ChunkPeek, Pool!CopyMiss,
        Pool!Scan, Pool!ScanMiss, Pool!StealMiss,
        Pool!ringVars, Pool!lockVars
<1>2. /\ at \in [Process -> Pool(f)!Labels] /\ queueAt \in [Process -> Pool(f)!Queue]
             /\ task \in [Process -> 0..created]
      /\ todo \in [Process -> SUBSET Process] /\ created \in 0..MaxTasks
    BY DEF Pool!TypeInv
<1>3. t \in Pool(f)!Queue /\ Pool(f)!Community \in Pool(f)!Queue /\ t # Pool(f)!Community
          /\ Process \subseteq Pool(f)!Queue
    BY DEF Pool!Queue
<1>4. /\ OthersStay(t)
      /\ at' \in [Process -> Pool(f)!Labels] /\ queueAt' \in [Process -> Pool(f)!Queue]
             /\ todo' \in [Process -> SUBSET Process]
      /\ at[t] \notin Lagging(f) /\ at'[t] \notin Lagging(f)
    <2> USE <1>2, <1>3 DEF Pool!GoAt, Pool!Goto, Pool!Leave, OthersStay,
    Pool!Labels, Lagging, Pool!Taking
    <2>1. CASE Pool(f)!Add(t)
        BY <2>1 DEF Pool!Add
    <2>2. CASE Pool(f)!PutRefused(t)
        BY <2>2 DEF Pool!PutRefused
    <2>3. CASE Pool(f)!Remove(t)
        BY <2>3 DEF Pool!Remove
    <2>4. CASE Pool(f)!Get(t) /\ empty[t]
        BY <2>4 DEF Pool!Get
    <2>5. CASE Pool(f)!ChunkPeek(t)
        BY <2>5 DEF Pool!ChunkPeek
    <2>6. CASE Pool(f)!CopyMiss(t)
        BY <2>6 DEF Pool!CopyMiss
    <2>7. CASE Pool(f)!Scan(t)
        BY <2>7 DEF Pool!Scan
    <2>8. CASE Pool(f)!ScanMiss(t)
        BY <2>8 DEF Pool!ScanMiss
    <2>9. CASE Pool(f)!StealMiss(t)
        BY <2>9 DEF Pool!StealMiss
    <2> QED
        BY <2>1, <2>2, <2>3, <2>4, <2>5, <2>6, <2>7, <2>8, <2>9
<1>5. /\ created' \in 0..MaxTasks /\ task' \in [Process -> 0..created']
      /\ created' = created \/ Pool(f)!Add(t)
    <2>1. CASE Pool(f)!Add(t)
        BY <1>2, <2>1 DEF Pool!Add
    <2>2. CASE ~Pool(f)!Add(t)
        <3>1. created' = created
            BY <2>2 DEF Pool!PutRefused, Pool!Remove, Pool!Get, Pool!ChunkPeek, Pool!CopyMiss,
                Pool!Scan, Pool!ScanMiss, Pool!StealMiss
        <3>2. task' = task \/ task' = [task EXCEPT ![t] = Pool(f)!NoTask]
            BY <2>2 DEF Pool!PutRefused, Pool!Remove, Pool!Get, Pool!ChunkPeek, Pool!CopyMiss,
                Pool!Scan, Pool!ScanMiss, Pool!StealMiss, Pool!Leave
        <3> QED
            BY <1>2, <3>1, <3>2 DEF Pool!NoTask
    <2> QED
        BY <2>1, <2>2
<1>6. Pool(f)!TypeInv'
    BY <1>1, <1>4, <1>5 DEF Pool!TypeInv
<1>7. Pool(f)!PlaceInv'
    <2>1. /\ at'[t] \in {"idle", "get", "chunk", "scan"} => queueAt'[t] = t
          /\ at'[t] \in {"put", "putFlag"} => queueAt'[t] \in {t, Pool(f)!Community}
          /\ at'[t] \in {"copy", "ownFlag"} => queueAt'[t] = Pool(f)!Community
          /\ task'[t] = Pool(f)!NoTask <=> at'[t] \notin {"put", "putFlag"} \cup Pool(f)!Taking
        <3> USE <1>2, <1>3 DEF Pool!GoAt, Pool!Goto, Pool!Leave, Pool!Taking, Pool!PlaceInv
        <3>1. CASE Pool(f)!Add(t)
            BY <3>1 DEF Pool!Add, Pool!NoTask
        <3>2. CASE Pool(f)!PutRefused(t)
            BY <3>2 DEF Pool!PutRefused
        <3>3. CASE Pool(f)!Remove(t)
            BY <3>3 DEF Pool!Remove
        <3>4. CASE Pool(f)!Get(t) /\ empty[t]
            BY <3>4 DEF Pool!Get
        <3>5. CASE Pool(f)!ChunkPeek(t)
            BY <3>5 DEF Pool!ChunkPeek
        <3>6. CASE Pool(f)!CopyMiss(t)
            BY <3>6 DEF Pool!CopyMiss
        <3>7. CASE Pool(f)!Scan(t)
            BY <3>7 DEF Pool!Scan
        <3>8. CASE Pool(f)!ScanMiss(t)
            BY <3>8 DEF Pool!ScanMiss
        <3>9. CASE Pool(f)!StealMiss(t)
            BY <3>9 DEF Pool!StealMiss
        <3> QED
            BY <3>1, <3>2, <3>3, <3>4, <3>5, <3>6, <3>7, <3>8, <3>9
    <2> QED
        BY <1>4, <2>1 DEF Pool!PlaceInv, OthersStay
<1>8. Pool(f)!LockInv' /\ Pool(f)!EmptyInv'
    <2>1. at'[t] \in {"chunk", "copy", "scan", "steal"} => empty[t]
        <3>1. at[t] \in {"chunk", "copy", "scan", "steal"} => empty[t]
            BY DEF Pool!EmptyInv
        <3> QED
            BY <1>2, <3>1 DEF Pool!Add, Pool!PutRefused, Pool!Remove, Pool!Get, Pool!ChunkPeek,
                Pool!CopyMiss, Pool!Scan, Pool!ScanMiss,
                Pool!StealMiss, Pool!GoAt, Pool!Goto, Pool!Leave
    <2> QED
        BY <1>1, <1>4, <2>1, PoolQuietKept DEF Pool!lockVars
<1>9. Pool(f)!ShareInv'
    <2>1. \A q \in Pool(f)!Queue : Pool(f)!Live(q)' = Pool(f)!Live(q)
        BY <1>1, PoolQueueSame
    <2>2. \A u \in Process : u # t => (u \in Pool(f)!Holder' <=> u \in Pool(f)!Holder)
              /\ task'[u] = task[u]
        BY <1>4 DEF Pool!Holder, OthersStay
    <2>3. (t \in Pool(f)!Holder <=> at[t] = "put") /\ (t \in Pool(f)!Holder' <=> at'[t] = "put")
        BY <1>4 DEF Pool!Holder, Lagging
    <2>4. Pool(f)!Holder \subseteq Process /\ Pool(f)!Holder' \subseteq Process
        BY DEF Pool!Holder
    <2>5. CASE Pool(f)!Add(t)
        <3>1. /\ at[t] = "idle" /\ at'[t] = "put" /\ created' = created + 1 /\ done' = done
              /\ task' = [task EXCEPT ![t] = created + 1]
            BY <1>2, <2>5 DEF Pool!Add, Pool!GoAt, Pool!Goto
        <3>2. t \notin Pool(f)!Holder /\ Pool(f)!Holder' = Pool(f)!Holder \cup {t}
            BY <2>2, <2>3, <2>4, <3>1
        <3> QED
            BY <1>1, <2>1, <3>1, <3>2, PoolShareCreated
    <2>6. CASE Pool(f)!PutRefused(t) /\ queueAt[t] # t
        <3>1. /\ at[t] = "put" /\ at'[t] = "idle" /\ created' = created
              /\ done' = done \cup {task[t]}
            BY <1>2, <2>6 DEF Pool!PutRefused, Pool!Leave, Pool!GoAt, Pool!Goto
        <3>2. t \in Pool(f)!Holder /\ Pool(f)!Holder' = Pool(f)!Holder \ {t}
                  /\ \A u \in Pool(f)!Holder' : task'[u] = task[u]
            BY <2>2, <2>3, <2>4, <3>1
        <3> QED
            BY <1>1, <2>1, <3>1, <3>2, PoolShareDone
    <2>7. CASE Pool(f)!PutRefused(t) /\ queueAt[t] = t
        <3>1. /\ at[t] = "put" /\ at'[t] = "put" /\ created' = created /\ done' = done
              /\ task' = task
            BY <1>2, <2>7 DEF Pool!PutRefused, Pool!GoAt, Pool!Goto
        <3>2. Pool(f)!Holder' = Pool(f)!Holder /\ \A u \in Pool(f)!Holder : task'[u] = task[u]
            BY <2>2, <2>3, <2>4, <3>1
        <3> QED
            BY <1>1, <2>1, <3>1, <3>2, PoolShareKept
    <2>8. CASE ~Pool(f)!Add(t) /\ ~Pool(f)!PutRefused(t)
        <3>1. at[t] # "put" /\ at'[t] # "put" /\ created' = created /\ done' = done
            BY <1>2, <2>8 DEF Pool!Remove, Pool!Get, Pool!ChunkPeek, Pool!CopyMiss, Pool!Scan,
                Pool!ScanMiss, Pool!StealMiss, Pool!GoAt, Pool!Goto, Pool!Leave
        <3>2. Pool(f)!Holder' = Pool(f)!Holder /\ \A u \in Pool(f)!Holder : task'[u] = task[u]
            BY <2>2, <2>3, <2>4, <3>1
        <3> QED
            BY <1>1, <2>1, <3>1, <3>2, PoolShareKept
    <2> QED
        BY <2>5, <2>6, <2>7, <2>8
<1> QED
    BY <1>6, <1>7, <1>8, <1>9

\* The other threads put and take as before.
LEMMA PoolOthersSame ==
    ASSUME NEW f \in BOOLEAN, NEW t \in Process, OthersStay(t), NEW u \in Process, u # t, NEW q
    PROVE  (Pool(f)!Puts(u, q)' <=> Pool(f)!Puts(u, q))
               /\ (Pool(f)!Takes(u, q)' <=> Pool(f)!Takes(u, q))
BY DEF Pool!Puts, Pool!Takes, OthersStay

\* __ompc_queue_put: the flag, and the lock.
LEMMA PoolPutFlagStep ==
    ASSUME NEW f \in BOOLEAN, Pool(f)!PoolInv, NEW t \in Process, Pool(f)!PutFlag(t)
    PROVE  Pool(f)!PoolInv'
<1> USE PoolFacts DEF Pool!PoolInv
<1>1. /\ mem' = mem /\ first' = first /\ last' = last
      /\ created' = created /\ done' = done /\ todo' = todo
    BY DEF Pool!PutFlag, Pool!ringVars
<1>2. /\ at \in [Process -> Pool(f)!Labels] /\ queueAt \in [Process -> Pool(f)!Queue]
             /\ task \in [Process -> 0..created]
      /\ empty \in [Pool(f)!Queue -> BOOLEAN] /\ created \in 0..MaxTasks
      /\ l1 \in [Pool(f)!Queue -> Process \cup {Pool(f)!Free}]
             /\ l2 \in [Pool(f)!Queue -> Process \cup {Pool(f)!Free}]
    BY DEF Pool!TypeInv
<1>3. t \in Pool(f)!Queue
    BY DEF Pool!Queue
<1>q. PICK q \in Pool(f)!Queue : q = queueAt[t]
    BY <1>2
<1>4. /\ at[t] = "putFlag" /\ q \in {t, Pool(f)!Community}
      /\ at' = [at EXCEPT ![t] = "idle"] /\ queueAt' = [queueAt EXCEPT ![t] = t]
      /\ task' = [task EXCEPT ![t] = Pool(f)!NoTask] /\ empty' = [empty EXCEPT ![q] = FALSE]
      /\ IF f THEN l2' = [l2 EXCEPT ![q] = Pool(f)!Free] /\ l1' = l1
                  ELSE l1' = [l1 EXCEPT ![q] = Pool(f)!Free] /\ l2' = l2
    BY <1>q DEF Pool!PutFlag, Pool!Leave, Pool!GoAt, Pool!Goto, Pool!PutLock, Pool!PlaceInv
<1>5. OthersStay(t) /\ at'[t] = "idle" /\ queueAt'[t] = t /\ task'[t] = Pool(f)!NoTask
      /\ empty'[q] = FALSE /\ \A r \in Pool(f)!Queue : r # q => empty'[r] = empty[r]
    BY <1>2, <1>4 DEF OthersStay
<1>6. Pool(f)!TypeInv'
    <2>1. /\ at' \in [Process -> Pool(f)!Labels] /\ queueAt' \in [Process -> Pool(f)!Queue]
                 /\ task' \in [Process -> 0..created']
          /\ empty' \in [Pool(f)!Queue -> BOOLEAN]
        BY <1>1, <1>2, <1>3, <1>4 DEF Pool!Labels, Pool!NoTask
    <2>2. l1' \in [Pool(f)!Queue -> Process \cup {Pool(f)!Free}]
              /\ l2' \in [Pool(f)!Queue -> Process \cup {Pool(f)!Free}]
        BY <1>2, <1>4
    <2> QED
        BY <1>1, <2>1, <2>2 DEF Pool!TypeInv
<1>7. Pool(f)!PlaceInv'
    BY <1>5 DEF Pool!PlaceInv, OthersStay, Pool!Taking
<1>8. Pool(f)!LockInv'
    <2>1. ASSUME NEW u \in Process
          PROVE  /\ at'[u] \in Pool(f)!Taking => l1'[queueAt'[u]] = u
                 /\ at'[u] = "putFlag" => (IF f THEN l2' ELSE l1')[queueAt'[u]] = u
        <3>1. CASE u = t
            BY <1>5, <3>1 DEF Pool!Taking
        <3>2. CASE u # t
            <4>1. at'[u] = at[u] /\ queueAt'[u] = queueAt[u] /\ queueAt[u] \in Pool(f)!Queue
                BY <1>2, <1>5, <3>2 DEF OthersStay
            <4>2. (IF f THEN l2 ELSE l1)[q] = t
                BY <1>4, <1>q DEF Pool!LockInv
            <4>3. queueAt[u] # q \/ at[u] \notin {"putFlag"} \cup (IF f THEN {} ELSE Pool(f)!Taking)
                BY <3>2, <4>2 DEF Pool!LockInv
            <4> QED
                BY <1>2, <1>4, <4>1, <4>3 DEF Pool!LockInv, Pool!Taking
        <3> QED
            BY <3>1, <3>2
    <2> QED
        BY <2>1 DEF Pool!LockInv
<1>9. Pool(f)!EmptyInv'
    <2>1. \A r \in Pool(f)!Queue : Pool(f)!Used(r)' = Pool(f)!Used(r)
        BY <1>1, PoolQueueSame
    <2>2. /\ \A r : Pool(f)!Takes(t, r) = FALSE /\ Pool(f)!Takes(t, r)' = FALSE
          /\ \A r : r # q => Pool(f)!Puts(t, r) = FALSE
        BY <1>4, <1>5, <1>q DEF Pool!Puts, Pool!Takes, Pool!Taking
    <2>3. \A r : (\E u \in Process : Pool(f)!Takes(u, r))
              => \E u \in Process : Pool(f)!Takes(u, r)'
        BY <1>5, <2>2, PoolOthersSame
    <2>4. ASSUME NEW r \in Pool(f)!Queue
          PROVE  /\ empty'[r] => \/ Pool(f)!Used(r)' = 0
                                 \/ \E u \in Process : Pool(f)!Puts(u, r)'
                                        \/ (r = u /\ at'[u] = "ownFlag")
                 /\ ~empty'[r] => Pool(f)!Used(r)' # 0 \/ \E u \in Process : Pool(f)!Takes(u, r)'
        <3>1. CASE r = q
            <4>1. Pool(f)!Used(q) # 0 \/ \E u \in Process : Pool(f)!Takes(u, q)
                BY <1>4, <1>q DEF Pool!EmptyInv
            <4> QED
                BY <1>5, <2>1, <2>3, <3>1, <4>1
        <3>2. CASE r # q
            <4>1. (\E u \in Process : Pool(f)!Puts(u, r) \/ (r = u /\ at[u] = "ownFlag"))
                    => \E u \in Process : Pool(f)!Puts(u, r)' \/ (r = u /\ at'[u] = "ownFlag")
                <5>1. ASSUME NEW u \in Process, Pool(f)!Puts(u, r) \/ (r = u /\ at[u] = "ownFlag")
                      PROVE  Pool(f)!Puts(u, r)' \/ (r = u /\ at'[u] = "ownFlag")
                    <6>1. u # t
                        BY <1>4, <2>2, <3>2, <5>1
                    <6> QED
                        BY <1>5, <5>1, <6>1, PoolOthersSame DEF OthersStay
                <5> QED
                    BY <5>1
            <4> QED
                BY <1>5, <2>1, <2>3, <3>2, <4>1 DEF Pool!EmptyInv
        <3> QED
            BY <3>1, <3>2
    <2>5. ASSUME NEW u \in Process
          PROVE  /\ at'[u] \in Pool(f)!Taking => ~empty'[queueAt'[u]]
                 /\ at'[u] \in {"chunk", "copy", "ownFlag", "scan", "steal"} => empty'[u]
                 /\ at'[u] = "ownFlag" => first'[u] = 0
                 /\ at'[u] = "putFlag" => \/ Pool(f)!Used(queueAt[u])' # 0
                                          \/ \E v \in Process : Pool(f)!Takes(v, queueAt[u])'
        <3>1. CASE u = t
            BY <1>5, <3>1 DEF Pool!Taking
        <3>2. CASE u # t
            <4>1. at'[u] = at[u] /\ queueAt'[u] = queueAt[u] /\ queueAt[u] \in Pool(f)!Queue
                      /\ u \in Pool(f)!Queue /\ u # q
                BY <1>2, <1>4, <1>5, <3>2 DEF OthersStay, Pool!Queue
            <4>2. PICK r \in Pool(f)!Queue : r = queueAt[u]
                BY <4>1
            <4>3. at[u] = "putFlag" => Pool(f)!Used(r) # 0
                      \/ \E v \in Process : Pool(f)!Takes(v, r)
                BY <4>2 DEF Pool!EmptyInv
            <4>4. at[u] = "putFlag" => Pool(f)!Used(r)' # 0
                      \/ \E v \in Process : Pool(f)!Takes(v, r)'
                BY <2>1, <2>3, <4>3
            <4>5. (Pool(f)!Used(queueAt[u])' = Pool(f)!Used(r)')
                      /\ \A v \in Process : Pool(f)!Takes(v, queueAt[u])' <=> Pool(f)!Takes(v, r)'
                BY <4>1, <4>2 DEF Pool!Used, Pool!Takes
            <4> QED
                BY <1>1, <1>5, <4>1, <4>4, <4>5 DEF Pool!EmptyInv
        <3> QED
            BY <3>1, <3>2
    <2> QED
        BY <2>4, <2>5 DEF Pool!EmptyInv, Pool!Queue
<1>10. Pool(f)!ShareInv'
    <2>1. \A r \in Pool(f)!Queue : Pool(f)!Live(r)' = Pool(f)!Live(r)
        BY <1>1, PoolQueueSame
    <2>2. Pool(f)!Holder' = Pool(f)!Holder /\ \A u \in Pool(f)!Holder : task'[u] = task[u]
        BY <1>4, <1>5 DEF Pool!Holder, OthersStay, Pool!Taking
    <2> QED
        BY <1>1, <2>1, <2>2, PoolShareKept
<1> QED
    BY <1>6, <1>7, <1>8, <1>9, <1>10

\* __ompc_queue_get, steal, transfer: the flag, and the lock.
LEMMA PoolTakeFlagStep ==
    ASSUME NEW f \in BOOLEAN, Pool(f)!PoolInv, NEW t \in Process, Pool(f)!TakeFlag(t)
    PROVE  Pool(f)!PoolInv'
<1> USE PoolFacts DEF Pool!PoolInv
<1>1. /\ mem' = mem /\ first' = first /\ last' = last
      /\ created' = created /\ l2' = l2 /\ todo' = todo
    BY DEF Pool!TakeFlag, Pool!ringVars
<1>2. /\ at \in [Process -> Pool(f)!Labels] /\ queueAt \in [Process -> Pool(f)!Queue]
             /\ task \in [Process -> 0..created]
      /\ empty \in [Pool(f)!Queue -> BOOLEAN] /\ created \in 0..MaxTasks
      /\ l1 \in [Pool(f)!Queue -> Process \cup {Pool(f)!Free}]
    BY DEF Pool!TypeInv
<1>3. t \in Pool(f)!Queue
    BY DEF Pool!Queue
<1>q. PICK q \in Pool(f)!Queue : q = queueAt[t]
    BY <1>2
<1>4. /\ at[t] = "takeFlag" /\ (f /\ Pool(f)!Used(q) = 0 => l2[q] = Pool(f)!Free)
      /\ at' = [at EXCEPT ![t] = "idle"] /\ queueAt' = [queueAt EXCEPT ![t] = t]
      /\ task' = [task EXCEPT ![t] = Pool(f)!NoTask] /\ done' = done \cup {task[t]}
      /\ empty' = [empty EXCEPT ![q] = empty[q] \/ Pool(f)!Used(q) = 0]
      /\ l1' = [l1 EXCEPT ![q] = Pool(f)!Free]
    BY <1>q DEF Pool!TakeFlag, Pool!Leave, Pool!GoAt, Pool!Goto
<1>5. /\ OthersStay(t) /\ at'[t] = "idle" /\ queueAt'[t] = t /\ task'[t] = Pool(f)!NoTask
      /\ \A r \in Pool(f)!Queue : r # q => empty'[r] = empty[r] /\ l1'[r] = l1[r]
    BY <1>2, <1>4 DEF OthersStay
<1>e. empty'[q] <=> Pool(f)!Used(q) = 0
    <2>1. ~empty[q]
        BY <1>4, <1>q DEF Pool!EmptyInv, Pool!Taking
    <2>2. empty'[q] = (empty[q] \/ Pool(f)!Used(q) = 0)
        BY <1>2, <1>4
    <2> QED
        BY <2>1, <2>2
<1>l. l1[q] = t /\ \A u \in Process : at[u] \in Pool(f)!Taking /\ queueAt[u] = q => u = t
    BY <1>4, <1>q DEF Pool!LockInv, Pool!Taking
<1>6. Pool(f)!TypeInv'
    <2>1. /\ at' \in [Process -> Pool(f)!Labels] /\ queueAt' \in [Process -> Pool(f)!Queue]
                 /\ task' \in [Process -> 0..created']
          /\ empty' \in [Pool(f)!Queue -> BOOLEAN]
        <3>1. (empty[q] \/ Pool(f)!Used(q) = 0) \in BOOLEAN
            OBVIOUS
        <3> QED
            BY <1>1, <1>2, <1>3, <1>4, <3>1 DEF Pool!Labels, Pool!NoTask
    <2>2. l1' \in [Pool(f)!Queue -> Process \cup {Pool(f)!Free}]
        BY <1>2, <1>4
    <2> QED
        BY <1>1, <2>1, <2>2 DEF Pool!TypeInv
<1>7. Pool(f)!PlaceInv'
    BY <1>5 DEF Pool!PlaceInv, OthersStay, Pool!Taking
<1>8. Pool(f)!LockInv'
    <2>1. ASSUME NEW u \in Process
          PROVE  /\ at'[u] \in Pool(f)!Taking => l1'[queueAt'[u]] = u
                 /\ at'[u] = "putFlag" => (IF f THEN l2' ELSE l1')[queueAt'[u]] = u
        <3>1. CASE u = t
            BY <1>5, <3>1 DEF Pool!Taking
        <3>2. CASE u # t
            <4>1. at'[u] = at[u] /\ queueAt'[u] = queueAt[u] /\ queueAt[u] \in Pool(f)!Queue
                BY <1>2, <1>5, <3>2 DEF OthersStay
            <4>2. queueAt[u] # q \/ at[u] \notin Pool(f)!Taking \cup (IF f THEN {} ELSE {"putFlag"})
                BY <3>2, <1>l DEF Pool!LockInv
            <4> QED
                BY <1>1, <1>5, <4>1, <4>2 DEF Pool!LockInv, Pool!Taking
        <3> QED
            BY <3>1, <3>2
    <2> QED
        BY <2>1 DEF Pool!LockInv
<1>9. Pool(f)!EmptyInv'
    <2>1. \A r \in Pool(f)!Queue : Pool(f)!Used(r)' = Pool(f)!Used(r)
        BY <1>1, PoolQueueSame
    <2>2. /\ \A r : r # q => Pool(f)!Takes(t, r) = FALSE
          /\ \A r : Pool(f)!Puts(t, r) = FALSE
        BY <1>4, <1>q DEF Pool!Puts, Pool!Takes
    <2>3. \A r : r # q => ((\E u \in Process : Pool(f)!Takes(u, r)) => \E u \in Process : Pool(f)!Takes(u, r)')
        BY <1>5, <2>2, PoolOthersSame
    <2>4. ASSUME NEW r \in Pool(f)!Queue
          PROVE  /\ empty'[r] => \/ Pool(f)!Used(r)' = 0
                                 \/ \E u \in Process : Pool(f)!Puts(u, r)'
                                        \/ (r = u /\ at'[u] = "ownFlag")
                 /\ ~empty'[r] => Pool(f)!Used(r)' # 0 \/ \E u \in Process : Pool(f)!Takes(u, r)'
        <3>1. CASE r = q
            BY <1>e, <2>1, <3>1
        <3>2. CASE r # q
            <4>1. (\E u \in Process : Pool(f)!Puts(u, r) \/ (r = u /\ at[u] = "ownFlag"))
                    => \E u \in Process : Pool(f)!Puts(u, r)' \/ (r = u /\ at'[u] = "ownFlag")
                <5>1. ASSUME NEW u \in Process, Pool(f)!Puts(u, r) \/ (r = u /\ at[u] = "ownFlag")
                      PROVE  Pool(f)!Puts(u, r)' \/ (r = u /\ at'[u] = "ownFlag")
                    <6>1. u # t
                        BY <1>4, <2>2, <5>1
                    <6> QED
                        BY <1>5, <5>1, <6>1, PoolOthersSame DEF OthersStay
                <5> QED
                    BY <5>1
            <4> QED
                BY <1>5, <2>1, <2>3, <3>2, <4>1 DEF Pool!EmptyInv
        <3> QED
            BY <3>1, <3>2
    <2>5. ASSUME NEW u \in Process
          PROVE  /\ at'[u] \in Pool(f)!Taking => ~empty'[queueAt'[u]]
                 /\ at'[u] \in {"chunk", "copy", "ownFlag", "scan", "steal"} => empty'[u]
                 /\ at'[u] = "ownFlag" => first'[u] = 0
                 /\ at'[u] = "putFlag" => \/ Pool(f)!Used(queueAt[u])' # 0
                                          \/ \E v \in Process : Pool(f)!Takes(v, queueAt[u])'
        <3>1. CASE u = t
            BY <1>5, <3>1 DEF Pool!Taking
        <3>2. CASE u # t
            <4>1. at'[u] = at[u] /\ queueAt'[u] = queueAt[u] /\ queueAt[u] \in Pool(f)!Queue
                      /\ u \in Pool(f)!Queue
                BY <1>2, <1>5, <3>2 DEF OthersStay, Pool!Queue
            <4>2. PICK r \in Pool(f)!Queue : r = queueAt[u]
                BY <4>1
            <4>3. at[u] = "putFlag" => Pool(f)!Used(r) # 0
                      \/ \E v \in Process : Pool(f)!Takes(v, r)
                BY <4>2 DEF Pool!EmptyInv
            <4>4. at[u] = "putFlag" => Pool(f)!Used(r)' # 0
                      \/ \E v \in Process : Pool(f)!Takes(v, r)'
                <5>1. CASE r # q
                    BY <2>1, <2>3, <4>3, <5>1
                <5>2. CASE r = q /\ Pool(f)!Used(q) # 0
                    BY <2>1, <5>2
                <5>3. CASE r = q /\ Pool(f)!Used(q) = 0
                    <6>1. at[u] = "putFlag" => (IF f THEN l2 ELSE l1)[q] = u
                        BY <4>2, <5>3 DEF Pool!LockInv
                    <6> QED
                        BY <1>4, <1>l, <3>2, <5>3, <6>1
                <5> QED
                    BY <5>1, <5>2, <5>3
            <4>5. (Pool(f)!Used(queueAt[u])' = Pool(f)!Used(r)')
                      /\ \A v \in Process : Pool(f)!Takes(v, queueAt[u])' <=> Pool(f)!Takes(v, r)'
                BY <4>1, <4>2 DEF Pool!Used, Pool!Takes
            <4>6. at[u] \in Pool(f)!Taking => r # q
                BY <1>l, <3>2, <4>2
            <4>7. empty[u] => empty'[u]
                BY <1>2, <1>4, <4>1
            <4> QED
                BY <1>1, <1>5, <4>1, <4>2, <4>4, <4>5, <4>6, <4>7 DEF Pool!EmptyInv
        <3> QED
            BY <3>1, <3>2
    <2> QED
        BY <2>4, <2>5 DEF Pool!EmptyInv, Pool!Queue
<1>10. Pool(f)!ShareInv'
    <2>1. \A r \in Pool(f)!Queue : Pool(f)!Live(r)' = Pool(f)!Live(r)
        BY <1>1, PoolQueueSame
    <2>2. t \in Pool(f)!Holder /\ Pool(f)!Holder' = Pool(f)!Holder \ {t}
              /\ \A u \in Pool(f)!Holder' : task'[u] = task[u]
        BY <1>4, <1>5 DEF Pool!Holder, OthersStay, Pool!Taking
    <2> QED
        BY <1>1, <1>4, <2>1, <2>2, PoolShareDone
<1> QED
    BY <1>6, <1>7, <1>8, <1>9, <1>10

\* __ompc_queue_transfer_chunk: the flag of the thread's own queue.
LEMMA PoolOwnFlagStep ==
    ASSUME NEW f \in BOOLEAN, Pool(f)!PoolInv, NEW t \in Process, Pool(f)!OwnFlag(t)
    PROVE  Pool(f)!PoolInv'
<1> USE PoolFacts DEF Pool!PoolInv
<1>1. /\ mem' = mem /\ first' = first /\ last' = last /\ queueAt' = queueAt
      /\ created' = created /\ l1' = l1 /\ l2' = l2 /\ todo' = todo
      /\ done' = done /\ task' = task
    BY DEF Pool!OwnFlag, Pool!ringVars, Pool!lockVars
<1>2. /\ at \in [Process -> Pool(f)!Labels] /\ queueAt \in [Process -> Pool(f)!Queue]
      /\ empty \in [Pool(f)!Queue -> BOOLEAN]
    BY DEF Pool!TypeInv
<1>3. t \in Pool(f)!Queue /\ t # Pool(f)!Community
    BY DEF Pool!Queue
<1>4. /\ at[t] = "ownFlag" /\ at' = [at EXCEPT ![t] = "takeFlag"]
      /\ empty' = [empty EXCEPT ![t] = last[t] = 0] /\ queueAt[t] = Pool(f)!Community
    BY DEF Pool!OwnFlag, Pool!Goto, Pool!PlaceInv
<1>5. /\ OthersStay(t) /\ at'[t] = "takeFlag"
      /\ \A r \in Pool(f)!Queue : r # t => empty'[r] = empty[r]
    BY <1>1, <1>2, <1>4 DEF OthersStay
<1>e. (empty'[t] <=> Pool(f)!Used(t) = 0) /\ first[t] = 0
    <2>1. first[t] = 0
        BY <1>4 DEF Pool!EmptyInv
    <2>2. Pool(f)!Used(t) = last[t]
        BY <1>3, <2>1, PoolQueueIs DEF Distance
    <2>3. empty'[t] = (last[t] = 0)
        BY <1>2, <1>3, <1>4
    <2> QED
        BY <2>1, <2>2, <2>3
<1>6. Pool(f)!TypeInv'
    <2>1. at' \in [Process -> Pool(f)!Labels] /\ empty' \in [Pool(f)!Queue -> BOOLEAN]
        <3>1. (last[t] = 0) \in BOOLEAN
            OBVIOUS
        <3> QED
            BY <1>2, <1>4, <3>1 DEF Pool!Labels
    <2> QED
        BY <1>1, <2>1 DEF Pool!TypeInv
<1>7. Pool(f)!PlaceInv'
    <2>1. task[t] # Pool(f)!NoTask
        BY <1>4 DEF Pool!PlaceInv, Pool!Taking
    <2> QED
        BY <1>1, <1>5, <2>1 DEF Pool!PlaceInv, OthersStay, Pool!Taking
<1>8. Pool(f)!LockInv'
    BY <1>1, <1>4, <1>5 DEF Pool!LockInv, OthersStay, Pool!Taking
<1>9. Pool(f)!EmptyInv'
    <2>1. \A r \in Pool(f)!Queue : Pool(f)!Used(r)' = Pool(f)!Used(r)
        BY <1>1, PoolQueueSame
    <2>2. \A r : (\E u \in Process : Pool(f)!Takes(u, r))
              => \E u \in Process : Pool(f)!Takes(u, r)'
        <3>1. ASSUME NEW r, NEW u \in Process, Pool(f)!Takes(u, r) PROVE Pool(f)!Takes(u, r)'
            <4>1. CASE u = t
                BY <1>1, <1>5, <3>1, <4>1 DEF Pool!Takes, Pool!Taking
            <4>2. CASE u # t
                BY <1>5, <3>1, <4>2, PoolOthersSame
            <4> QED
                BY <4>1, <4>2
        <3> QED
            BY <3>1
    <2>3. ASSUME NEW r \in Pool(f)!Queue
          PROVE  /\ empty'[r] => \/ Pool(f)!Used(r)' = 0
                                 \/ \E u \in Process : Pool(f)!Puts(u, r)'
                                        \/ (r = u /\ at'[u] = "ownFlag")
                 /\ ~empty'[r] => Pool(f)!Used(r)' # 0 \/ \E u \in Process : Pool(f)!Takes(u, r)'
        <3>1. CASE r = t
            BY <1>e, <2>1, <3>1
        <3>2. CASE r # t
            <4>1. (\E u \in Process : Pool(f)!Puts(u, r) \/ (r = u /\ at[u] = "ownFlag"))
                    => \E u \in Process : Pool(f)!Puts(u, r)' \/ (r = u /\ at'[u] = "ownFlag")
                <5>1. ASSUME NEW u \in Process, Pool(f)!Puts(u, r) \/ (r = u /\ at[u] = "ownFlag")
                      PROVE  Pool(f)!Puts(u, r)' \/ (r = u /\ at'[u] = "ownFlag")
                    <6>1. u # t
                        BY <1>4, <3>2, <5>1 DEF Pool!Puts
                    <6> QED
                        BY <1>5, <5>1, <6>1, PoolOthersSame DEF OthersStay
                <5> QED
                    BY <5>1
            <4> QED
                BY <1>5, <2>1, <2>2, <3>2, <4>1 DEF Pool!EmptyInv
        <3> QED
            BY <3>1, <3>2
    <2>4. ASSUME NEW u \in Process
          PROVE  /\ at'[u] \in Pool(f)!Taking => ~empty'[queueAt'[u]]
                 /\ at'[u] \in {"chunk", "copy", "ownFlag", "scan", "steal"} => empty'[u]
                 /\ at'[u] = "ownFlag" => first'[u] = 0
                 /\ at'[u] = "putFlag" => \/ Pool(f)!Used(queueAt[u])' # 0
                                          \/ \E v \in Process : Pool(f)!Takes(v, queueAt[u])'
        <3>0. empty[t] /\ queueAt[u] \in Pool(f)!Queue /\ u \in Pool(f)!Queue
            BY <1>2, <1>4 DEF Pool!EmptyInv, Pool!Queue
        <3>1. CASE u = t
            <4>1. ~empty[Pool(f)!Community] /\ Pool(f)!Community \in Pool(f)!Queue
                BY <1>4 DEF Pool!EmptyInv, Pool!Taking, Pool!Queue
            <4> QED
                BY <1>1, <1>3, <1>4, <1>5, <3>1, <4>1
        <3>2. CASE u # t
            <4>1. at'[u] = at[u]
                BY <1>5, <3>2 DEF OthersStay
            <4>2. at[u] \in Pool(f)!Taking => queueAt[u] # t
                BY <3>0 DEF Pool!EmptyInv
            <4>3. PICK r \in Pool(f)!Queue : r = queueAt[u]
                BY <3>0
            <4>4. at[u] = "putFlag" => Pool(f)!Used(r) # 0
                      \/ \E v \in Process : Pool(f)!Takes(v, r)
                BY <4>3 DEF Pool!EmptyInv
            <4>5. at[u] = "putFlag" => Pool(f)!Used(r)' # 0
                      \/ \E v \in Process : Pool(f)!Takes(v, r)'
                BY <2>1, <2>2, <4>4
            <4>6. (Pool(f)!Used(queueAt[u])' = Pool(f)!Used(r)')
                      /\ \A v \in Process : Pool(f)!Takes(v, queueAt[u])' <=> Pool(f)!Takes(v, r)'
                BY <1>1, <4>3 DEF Pool!Used, Pool!Takes
            <4> QED
                BY <1>1, <1>5, <3>0, <3>2, <4>1, <4>2, <4>5, <4>6 DEF Pool!EmptyInv
        <3> QED
            BY <3>1, <3>2
    <2> QED
        BY <2>3, <2>4 DEF Pool!EmptyInv, Pool!Queue
<1>10. Pool(f)!ShareInv'
    <2>1. \A r \in Pool(f)!Queue : Pool(f)!Live(r)' = Pool(f)!Live(r)
        BY <1>1, PoolQueueSame
    <2>2. Pool(f)!Holder' = Pool(f)!Holder
        BY <1>4, <1>5 DEF Pool!Holder, OthersStay, Pool!Taking
    <2> QED
        BY <1>1, <2>1, <2>2, PoolShareKept
<1> QED
    BY <1>6, <1>7, <1>8, <1>9, <1>10

\* __ompc_queue_put: the task.
LEMMA PoolPutStep ==
    ASSUME NEW f \in BOOLEAN, Pool(f)!PoolInv, NEW t \in Process, Pool(f)!Put(t)
    PROVE  Pool(f)!PoolInv'
<1> USE PoolFacts DEF Pool!PoolInv
<1>1. /\ empty' = empty /\ created' = created /\ done' = done /\ queueAt' = queueAt
             /\ task' = task
      /\ todo' = todo
    BY DEF Pool!Put
<1>2. /\ at \in [Process -> Pool(f)!Labels] /\ queueAt \in [Process -> Pool(f)!Queue]
             /\ task \in [Process -> 0..created]
      /\ empty \in [Pool(f)!Queue -> BOOLEAN] /\ created \in 0..MaxTasks
      /\ l1 \in [Pool(f)!Queue -> Process \cup {Pool(f)!Free}]
             /\ l2 \in [Pool(f)!Queue -> Process \cup {Pool(f)!Free}]
    BY DEF Pool!TypeInv
<1>q. PICK q \in Pool(f)!Queue : q = queueAt[t] /\ PutAt(f, q, PutPlace(f, q), task[t])
    BY <1>2, PoolTaskPut
<1>i. PICK i : i = PutPlace(f, q) /\ PutAt(f, q, i, task[t])
    BY <1>q
<1>4. /\ at[t] = "put" /\ at' = [at EXCEPT ![t] = "putFlag"]
      /\ IF f THEN l2[q] = Pool(f)!Free /\ l2' = [l2 EXCEPT ![q] = t] /\ l1' = l1
                  ELSE l1[q] = Pool(f)!Free /\ l1' = [l1 EXCEPT ![q] = t] /\ l2' = l2
    BY <1>q DEF Pool!Put, Pool!Goto, Pool!PutLock, Pool!PutLockFree
<1>5. OthersStay(t) /\ at'[t] = "putFlag" /\ q \in {t,
      Pool(f)!Community} /\ task[t] # Pool(f)!NoTask
    BY <1>1, <1>2, <1>4, <1>q DEF OthersStay, Pool!PlaceInv
<1>6. Pool(f)!TypeInv'
    <2>1. at' \in [Process -> Pool(f)!Labels]
        BY <1>2, <1>4 DEF Pool!Labels
    <2>2. l1' \in [Pool(f)!Queue -> Process \cup {Pool(f)!Free}]
              /\ l2' \in [Pool(f)!Queue -> Process \cup {Pool(f)!Free}]
        BY <1>2, <1>4
    <2>3. /\ mem' = [r \in Pool(f)!Queue |-> mem'[r]]
          /\ \A r \in Pool(f)!Queue : mem'[r] \in [0..(Pool(f)!Size(r) - 1) -> Pool(f)!Task \cup {Pool(f)!NoTask}]
        <3>1. /\ mem = [r \in Pool(f)!Queue |-> mem[r]]
              /\ mem[q] \in [0..(Pool(f)!Size(q) - 1) -> Pool(f)!Task \cup {Pool(f)!NoTask}]
              /\ mem' = [mem EXCEPT ![q][i] = task[t]] /\ i \in 0..(Pool(f)!Size(q) - 1)
            BY <1>i DEF Pool!TypeInv, PutAt
        <3>2. task[t] \in Pool(f)!Task \cup {Pool(f)!NoTask}
            BY <1>2 DEF Pool!Task, Pool!NoTask
        <3>3. mem'[q] = [mem[q] EXCEPT ![i] = task[t]]
            BY <3>1
        <3>4. mem'[q] \in [0..(Pool(f)!Size(q) - 1) -> Pool(f)!Task \cup {Pool(f)!NoTask}]
            BY <3>1, <3>2, <3>3
        <3>5. \A r \in Pool(f)!Queue : r # q => mem'[r] = mem[r]
            BY <3>1
        <3> QED
            BY <3>1, <3>4, <3>5 DEF Pool!TypeInv
    <2>4. RingOK(f)'
        BY <1>i DEF PutAt
    <2> QED
        BY <1>1, <1>2, <2>1, <2>2, <2>3, <2>4 DEF Pool!TypeInv, RingOK
<1>7. Pool(f)!PlaceInv'
    BY <1>1, <1>5, <1>q DEF Pool!PlaceInv, OthersStay, Pool!Taking
<1>8. Pool(f)!LockInv'
    <2>1. ASSUME NEW u \in Process
          PROVE  /\ at'[u] \in Pool(f)!Taking => l1'[queueAt'[u]] = u
                 /\ at'[u] = "putFlag" => (IF f THEN l2' ELSE l1')[queueAt'[u]] = u
        <3>1. CASE u = t
            BY <1>1, <1>2, <1>4, <1>5, <1>q, <3>1 DEF Pool!Taking
        <3>2. CASE u # t
            <4>1. at'[u] = at[u] /\ queueAt'[u] = queueAt[u] /\ queueAt[u] \in Pool(f)!Queue
                BY <1>2, <1>5, <3>2 DEF OthersStay
            <4>2. queueAt[u] # q \/ at[u] \notin {"putFlag"} \cup (IF f THEN {} ELSE Pool(f)!Taking)
                BY <1>4, <3>2 DEF Pool!LockInv
            <4> QED
                BY <1>2, <1>4, <4>1, <4>2 DEF Pool!LockInv, Pool!Taking
        <3> QED
            BY <3>1, <3>2
    <2> QED
        BY <2>1 DEF Pool!LockInv
<1>9. Pool(f)!EmptyInv'
    <2>1. /\ \A r \in Pool(f)!Queue : r # q => Pool(f)!Used(r)' = Pool(f)!Used(r)
          /\ Pool(f)!Used(q)' # 0
        <3>1. Pool(f)!Used(q)' = Pool(f)!Used(q) + 1 /\ Pool(f)!Used(q) \in Nat
            BY <1>i, PoolQueueIs DEF PutAt
        <3> QED
            BY <1>i, <3>1 DEF PutAt
    <2>2. \A r : (\E u \in Process : Pool(f)!Takes(u, r))
              => \E u \in Process : Pool(f)!Takes(u, r)'
        BY <1>4, <1>5, PoolOthersSame DEF Pool!Takes, Pool!Taking
    <2>h. \A u \in Process : first'[u] = first[u]
        BY <1>q DEF Pool!Put
    <2>3. ASSUME NEW r \in Pool(f)!Queue
          PROVE  /\ empty'[r] => \/ Pool(f)!Used(r)' = 0
                                 \/ \E u \in Process : Pool(f)!Puts(u, r)'
                                        \/ (r = u /\ at'[u] = "ownFlag")
                 /\ ~empty'[r] => Pool(f)!Used(r)' # 0 \/ \E u \in Process : Pool(f)!Takes(u, r)'
        <3>1. CASE r = q
            <4>1. Pool(f)!Puts(t, r)'
                BY <1>1, <1>5, <1>q, <3>1 DEF Pool!Puts
            <4> QED
                BY <2>1, <3>1, <4>1
        <3>2. CASE r # q
            <4>1. (\E u \in Process : Pool(f)!Puts(u, r) \/ (r = u /\ at[u] = "ownFlag"))
                    => \E u \in Process : Pool(f)!Puts(u, r)' \/ (r = u /\ at'[u] = "ownFlag")
                <5>1. ASSUME NEW u \in Process, Pool(f)!Puts(u, r) \/ (r = u /\ at[u] = "ownFlag")
                      PROVE  Pool(f)!Puts(u, r)' \/ (r = u /\ at'[u] = "ownFlag")
                    <6>1. u # t
                        BY <1>4, <5>1 DEF Pool!Puts
                    <6> QED
                        BY <1>5, <5>1, <6>1, PoolOthersSame DEF OthersStay
                <5> QED
                    BY <5>1
            <4> QED
                BY <1>1, <2>1, <2>2, <3>2, <4>1 DEF Pool!EmptyInv
        <3> QED
            BY <3>1, <3>2
    <2>4. ASSUME NEW u \in Process
          PROVE  /\ at'[u] \in Pool(f)!Taking => ~empty'[queueAt'[u]]
                 /\ at'[u] \in {"chunk", "copy", "ownFlag", "scan", "steal"} => empty'[u]
                 /\ at'[u] = "ownFlag" => first'[u] = 0
                 /\ at'[u] = "putFlag" => \/ Pool(f)!Used(queueAt[u])' # 0
                                          \/ \E v \in Process : Pool(f)!Takes(v, queueAt[u])'
        <3>0. PICK r \in Pool(f)!Queue : r = queueAt[u]
            BY <1>2
        <3>1. (Pool(f)!Used(queueAt[u])' = Pool(f)!Used(r)')
                  /\ \A v \in Process : Pool(f)!Takes(v, queueAt[u])' <=> Pool(f)!Takes(v, r)'
            BY <1>1, <3>0 DEF Pool!Used, Pool!Takes
        <3>2. CASE u = t
            BY <1>5, <1>q, <2>1, <3>0, <3>1, <3>2 DEF Pool!Taking
        <3>3. CASE u # t
            <4>1. at'[u] = at[u]
                BY <1>5, <3>3 DEF OthersStay
            <4>2. at[u] = "putFlag" => Pool(f)!Used(r) # 0
                      \/ \E v \in Process : Pool(f)!Takes(v, r)
                BY <3>0 DEF Pool!EmptyInv
            <4>3. at[u] = "putFlag" => Pool(f)!Used(r)' # 0
                      \/ \E v \in Process : Pool(f)!Takes(v, r)'
                BY <2>1, <2>2, <4>2
            <4> QED
                BY <1>1, <2>h, <3>1, <4>1, <4>3 DEF Pool!EmptyInv
        <3> QED
            BY <3>2, <3>3
    <2> QED
        BY <2>3, <2>4 DEF Pool!EmptyInv, Pool!Queue
<1>10. Pool(f)!ShareInv'
    <2>1. t \in Pool(f)!Holder /\ Pool(f)!Holder' = Pool(f)!Holder \ {t}
        BY <1>4, <1>5 DEF Pool!Holder, OthersStay, Pool!Taking
    <2> QED
        BY <1>1, <1>i, <2>1, PoolSharePut
<1> QED
    BY <1>6, <1>7, <1>8, <1>9, <1>10

\* __ompc_queue_get and steal: the task.
LEMMA PoolTakeStep ==
    ASSUME NEW f \in BOOLEAN, Pool(f)!PoolInv,
           NEW t \in Process, (Pool(f)!Get(t) /\ ~empty[t]) \/ Pool(f)!Steal(t)
    PROVE  Pool(f)!PoolInv'
<1> USE PoolFacts DEF Pool!PoolInv
<1>1. /\ empty' = empty /\ created' = created /\ done' = done /\ queueAt' = queueAt /\ l2' = l2
    BY DEF Pool!Get, Pool!Steal
<1>2. /\ at \in [Process -> Pool(f)!Labels] /\ queueAt \in [Process -> Pool(f)!Queue]
             /\ task \in [Process -> 0..created]
      /\ empty \in [Pool(f)!Queue -> BOOLEAN] /\ created \in 0..MaxTasks
      /\ l1 \in [Pool(f)!Queue -> Process \cup {Pool(f)!Free}]
             /\ todo \in [Process -> SUBSET Process]
    BY DEF Pool!TypeInv
<1>q. PICK q \in Pool(f)!Queue : q = queueAt[t]
    BY <1>2
<1>4. /\ at[t] \in {"get", "steal"} /\ at' = [at EXCEPT ![t] = "takeFlag"]
      /\ l1[q] = Pool(f)!Free /\ l1' = [l1 EXCEPT ![q] = t] /\ ~empty[q]
    <2>1. CASE Pool(f)!Get(t) /\ ~empty[t]
        <3>1. q = t
            BY <1>q, <2>1 DEF Pool!Get, Pool!PlaceInv
        <3> QED
            BY <2>1, <3>1 DEF Pool!Get, Pool!Goto
    <2>2. CASE Pool(f)!Steal(t)
        BY <1>q, <2>2 DEF Pool!Steal, Pool!Goto
    <2> QED
        BY <2>1, <2>2
<1>5. OthersStay(t) /\ at'[t] = "takeFlag"
    <2>1. \A u \in Process : u # t => task'[u] = task[u]
        BY <1>2 DEF Pool!Get, Pool!Steal
    <2> QED
        BY <1>1, <1>2, <1>4, <2>1 DEF OthersStay
<1>t. \A u \in Process : at[u] \in Pool(f)!Taking => queueAt[u] # q
    BY <1>4 DEF Pool!LockInv
<1>u. Pool(f)!Used(q) # 0
    BY <1>4, <1>t DEF Pool!EmptyInv, Pool!Takes
<1>i. PICK i : /\ TakenAt(f, q, i) /\ task' = [task EXCEPT ![t] = mem[q][i]]
               /\ (first' = first \/ first' = [first EXCEPT ![q] = i])
    <2>1. CASE Pool(f)!Get(t) /\ ~empty[t]
        <3>0. q = t
            BY <1>q, <2>1 DEF Pool!Get, Pool!PlaceInv
        <3>1. CASE f
            <4>1. Pool(f)!TakeHead(q) /\ task' = [task EXCEPT ![t] = Pool(f)!First(q)]
                BY <2>1, <3>0, <3>1 DEF Pool!Get
            <4>2. TakenAt(f, q, Pool(f)!Succ(q, first[q]))
                BY <1>u, <4>1, PoolHeadTaken
            <4> QED
                BY <4>1, <4>2 DEF Pool!First, Pool!TakeHead
        <3>2. CASE ~f
            <4>1. Pool(f)!TakeTail(q) /\ task' = [task EXCEPT ![t] = Pool(f)!Last(q)]
                BY <2>1, <3>0, <3>2 DEF Pool!Get
            <4>2. TakenAt(f, q, last[q])
                BY <1>u, <4>1, PoolTailTaken
            <4> QED
                BY <4>1, <4>2 DEF Pool!Last, Pool!TakeTail
        <3> QED
            BY <3>1, <3>2
    <2>2. CASE Pool(f)!Steal(t)
        <3>1. Pool(f)!TakeHead(q) /\ task' = [task EXCEPT ![t] = Pool(f)!First(q)]
            BY <1>q, <2>2 DEF Pool!Steal
        <3>2. TakenAt(f, q, Pool(f)!Succ(q, first[q]))
            BY <1>u, <3>1, PoolHeadTaken
        <3> QED
            BY <3>1, <3>2 DEF Pool!First, Pool!TakeHead
    <2> QED
        BY <2>1, <2>2
<1>h. t \notin Pool(f)!Holder /\ Pool(f)!Holder' = Pool(f)!Holder \cup {t}
    BY <1>4, <1>5 DEF Pool!Holder, OthersStay, Pool!Taking
<1>s. Pool(f)!ShareInv' /\ mem[q][i] \in 1..created
    BY <1>1, <1>i, <1>h, PoolShareTaken
<1>6. Pool(f)!TypeInv'
    <2>1. at' \in [Process -> Pool(f)!Labels]
              /\ l1' \in [Pool(f)!Queue -> Process \cup {Pool(f)!Free}]
        BY <1>2, <1>4 DEF Pool!Labels
    <2>2. task' \in [Process -> 0..created']
        BY <1>1, <1>2, <1>i, <1>s
    <2>3. mem' = mem /\ RingOK(f)'
        BY <1>i DEF TakenAt
    <2>4. todo' \in [Process -> SUBSET Process]
        BY <1>2 DEF Pool!Get, Pool!Steal
    <2> QED
        BY <1>1, <2>1, <2>2, <2>3, <2>4 DEF Pool!TypeInv, RingOK
<1>7. Pool(f)!PlaceInv'
    <2>1. task'[t] # Pool(f)!NoTask
        BY <1>2, <1>i, <1>s DEF Pool!NoTask
    <2> QED
        BY <1>1, <1>5, <2>1 DEF Pool!PlaceInv, OthersStay, Pool!Taking
<1>8. Pool(f)!LockInv'
    <2>1. ASSUME NEW u \in Process
          PROVE  /\ at'[u] \in Pool(f)!Taking => l1'[queueAt'[u]] = u
                 /\ at'[u] = "putFlag" => (IF f THEN l2' ELSE l1')[queueAt'[u]] = u
        <3>1. CASE u = t
            BY <1>1, <1>2, <1>4, <1>5, <1>q, <3>1
        <3>2. CASE u # t
            <4>1. at'[u] = at[u] /\ queueAt'[u] = queueAt[u] /\ queueAt[u] \in Pool(f)!Queue
                BY <1>2, <1>5, <3>2 DEF OthersStay
            <4>2. queueAt[u] # q \/ at[u] \notin Pool(f)!Taking \cup (IF f THEN {} ELSE {"putFlag"})
                BY <1>4, <3>2 DEF Pool!LockInv
            <4>3. queueAt[u] # q => l1'[queueAt[u]] = l1[queueAt[u]]
                BY <1>2, <1>4, <4>1
            <4> QED
                BY <1>1, <4>1, <4>2, <4>3 DEF Pool!LockInv
        <3> QED
            BY <3>1, <3>2
    <2> QED
        BY <2>1 DEF Pool!LockInv
<1>9. Pool(f)!EmptyInv'
    <2>1. /\ \A r \in Pool(f)!Queue : r # q => Pool(f)!Used(r)' = Pool(f)!Used(r)
          /\ Pool(f)!Takes(t, q)'
        BY <1>1, <1>5, <1>i, <1>q DEF TakenAt, Pool!Takes, Pool!Taking
    <2>2. \A r : (\E u \in Process : Pool(f)!Takes(u, r))
              => \E u \in Process : Pool(f)!Takes(u, r)'
        BY <1>4, PoolOthersSame, <1>5 DEF Pool!Takes, Pool!Taking
    <2>3. ASSUME NEW r \in Pool(f)!Queue
          PROVE  /\ empty'[r] => \/ Pool(f)!Used(r)' = 0
                                 \/ \E u \in Process : Pool(f)!Puts(u, r)'
                                        \/ (r = u /\ at'[u] = "ownFlag")
                 /\ ~empty'[r] => Pool(f)!Used(r)' # 0 \/ \E u \in Process : Pool(f)!Takes(u, r)'
        <3>1. CASE r = q
            BY <1>1, <1>4, <2>1, <3>1
        <3>2. CASE r # q
            <4>1. (\E u \in Process : Pool(f)!Puts(u, r) \/ (r = u /\ at[u] = "ownFlag"))
                    => \E u \in Process : Pool(f)!Puts(u, r)' \/ (r = u /\ at'[u] = "ownFlag")
                <5>1. ASSUME NEW u \in Process, Pool(f)!Puts(u, r) \/ (r = u /\ at[u] = "ownFlag")
                      PROVE  Pool(f)!Puts(u, r)' \/ (r = u /\ at'[u] = "ownFlag")
                    <6>1. u # t
                        BY <1>4, <5>1 DEF Pool!Puts
                    <6> QED
                        BY <1>5, <5>1, <6>1, PoolOthersSame DEF OthersStay
                <5> QED
                    BY <5>1
            <4> QED
                BY <1>1, <2>1, <2>2, <3>2, <4>1 DEF Pool!EmptyInv
        <3> QED
            BY <3>1, <3>2
    <2>4. ASSUME NEW u \in Process
          PROVE  /\ at'[u] \in Pool(f)!Taking => ~empty'[queueAt'[u]]
                 /\ at'[u] \in {"chunk", "copy", "ownFlag", "scan", "steal"} => empty'[u]
                 /\ at'[u] = "ownFlag" => first'[u] = 0
                 /\ at'[u] = "putFlag" => \/ Pool(f)!Used(queueAt[u])' # 0
                                          \/ \E v \in Process : Pool(f)!Takes(v, queueAt[u])'
        <3>0. PICK r \in Pool(f)!Queue : r = queueAt[u]
            BY <1>2
        <3>1. (Pool(f)!Used(queueAt[u])' = Pool(f)!Used(r)')
                  /\ \A v \in Process : Pool(f)!Takes(v, queueAt[u])' <=> Pool(f)!Takes(v, r)'
            BY <1>1, <3>0 DEF Pool!Used, Pool!Takes
        <3>2. CASE u = t
            BY <1>1, <1>4, <1>5, <1>q, <3>2
        <3>3. CASE u # t
            <4>1. at'[u] = at[u] /\ u \in Pool(f)!Queue
                BY <1>5, <3>3 DEF OthersStay, Pool!Queue
            <4>2. at[u] = "putFlag" => Pool(f)!Used(r) # 0
                      \/ \E v \in Process : Pool(f)!Takes(v, r)
                BY <3>0 DEF Pool!EmptyInv
            <4>3. at[u] = "putFlag" => Pool(f)!Used(r)' # 0
                      \/ \E v \in Process : Pool(f)!Takes(v, r)'
                BY <2>1, <2>2, <4>2
            <4>4. at[u] = "ownFlag" => first'[u] = first[u]
                <5>1. at[u] = "ownFlag" => u # q
                    BY <1>4 DEF Pool!EmptyInv
                <5> QED
                    BY <1>i, <4>1, <5>1 DEF Pool!TypeInv
            <4> QED
                BY <1>1, <3>1, <4>1, <4>3, <4>4 DEF Pool!EmptyInv
        <3> QED
            BY <3>2, <3>3
    <2> QED
        BY <2>3, <2>4 DEF Pool!EmptyInv, Pool!Queue
<1> QED
    BY <1>s, <1>6, <1>7, <1>8, <1>9

\* __ompc_queue_transfer_chunk: the tasks.
LEMMA PoolCopyStep ==
    ASSUME NEW f \in BOOLEAN, Pool(f)!PoolInv, NEW t \in Process, Pool(f)!Copy(t)
    PROVE  Pool(f)!PoolInv'
<1> USE PoolFacts DEF Pool!PoolInv
<1> DEFINE C == Pool(f)!Community
<1>1. /\ empty' = empty /\ created' = created /\ done' = done /\ queueAt' = queueAt /\ l2' = l2
      /\ todo' = todo
    BY DEF Pool!Copy
<1>2. /\ at \in [Process -> Pool(f)!Labels] /\ queueAt \in [Process -> Pool(f)!Queue]
             /\ task \in [Process -> 0..created]
      /\ empty \in [Pool(f)!Queue -> BOOLEAN] /\ created \in 0..MaxTasks
      /\ l1 \in [Pool(f)!Queue -> Process \cup {Pool(f)!Free}]
    BY DEF Pool!TypeInv
<1>3. C \in Pool(f)!Queue /\ t \in Pool(f)!Queue /\ t # C
    BY DEF Pool!Queue
<1>4. /\ at[t] = "copy" /\ at' = [at EXCEPT ![t] = "ownFlag"] /\ queueAt[t] = C
      /\ l1[C] = Pool(f)!Free /\ l1' = [l1 EXCEPT ![C] = t] /\ ~empty[C]
    BY DEF Pool!Copy, Pool!Goto, Pool!PlaceInv
<1>t. \A u \in Process : at[u] \in Pool(f)!Taking => queueAt[u] # C
    BY <1>4 DEF Pool!LockInv
<1>u. Pool(f)!Used(C) # 0
    BY <1>3, <1>4, <1>t DEF Pool!EmptyInv, Pool!Takes
<1>e. Pool(f)!Used(t) = 0 /\ Pool(f)!Live(t) = {} /\ empty[t]
    <2>1. empty[t]
        BY <1>4 DEF Pool!EmptyInv
    <2>2. ASSUME NEW u \in Process PROVE ~(Pool(f)!Puts(u, t) \/ (t = u /\ at[u] = "ownFlag"))
        BY <1>3, <1>4 DEF Pool!Puts, Pool!PlaceInv
    <2>3. Pool(f)!Used(t) = 0
        BY <1>3, <2>1, <2>2 DEF Pool!EmptyInv
    <2>4. Pool(f)!Live(t) = {}
        BY <2>3 DEF Pool!Live
    <2> QED
        BY <2>1, <2>3, <2>4
<1>i. PICK n \in Nat \ {0} : \E p : CopiedTo(f, t, n, p)
    BY <1>u, PoolChunkCopied
<1>p. PICK p : CopiedTo(f, t, n, p)
    BY <1>i
<1>5. OthersStay(t) /\ at'[t] = "ownFlag"
    BY <1>1, <1>2, <1>4, <1>p DEF OthersStay, CopiedTo
<1>h. t \notin Pool(f)!Holder /\ Pool(f)!Holder' = Pool(f)!Holder \cup {t}
    BY <1>4, <1>5 DEF Pool!Holder, OthersStay, Pool!Taking
<1>s. Pool(f)!ShareInv' /\ mem[C][p[1]] \in 1..created
    BY <1>1, <1>e, <1>h, <1>p, PoolShareCopied
<1>6. Pool(f)!TypeInv'
    <2>1. at' \in [Process -> Pool(f)!Labels]
              /\ l1' \in [Pool(f)!Queue -> Process \cup {Pool(f)!Free}]
        BY <1>2, <1>3, <1>4 DEF Pool!Labels
    <2>2. task' \in [Process -> 0..created']
        BY <1>1, <1>2, <1>p, <1>s DEF CopiedTo
    <2>3. RingOK(f)'
        BY <1>p DEF CopiedTo
    <2>4. /\ mem' = [r \in Pool(f)!Queue |-> mem'[r]]
          /\ \A r \in Pool(f)!Queue : mem'[r] \in [0..(Pool(f)!Size(r) - 1) -> Pool(f)!Task \cup {Pool(f)!NoTask}]
        <3>1. /\ mem = [r \in Pool(f)!Queue |-> mem[r]]
              /\ \A r \in Pool(f)!Queue : mem[r] \in [0..(Pool(f)!Size(r) - 1) -> Pool(f)!Task \cup {Pool(f)!NoTask}]
              /\ mem' = [mem EXCEPT ![t] = [i \in DOMAIN mem[t] |->
                   IF i \in 1..(n - 1) THEN mem[C][p[i + 1]] ELSE mem[t][i]]]
            BY <1>p DEF Pool!TypeInv, CopiedTo
        <3>2. mem'[t] = [i \in 0..(Pool(f)!Size(t) - 1) |->
                   IF i \in 1..(n - 1) THEN mem[C][p[i + 1]] ELSE mem[t][i]]
            BY <1>3, <3>1
        <3>3. \A i \in 1..(n - 1) : mem[C][p[i + 1]] \in Pool(f)!Task \cup {Pool(f)!NoTask}
            <4> TAKE i \in 1..(n - 1)
            <4>1. i + 1 \in 1..n /\ p \in [1..n -> Pool(f)!Live(C)]
                BY <1>p DEF CopiedTo
            <4>2. Pool(f)!Live(C) \subseteq 0..(Pool(f)!Size(C) - 1)
                BY <1>3, PoolQueueIs DEF After
            <4> QED
                BY <1>3, <3>1, <4>1, <4>2
        <3>4. mem'[t] \in [0..(Pool(f)!Size(t) - 1) -> Pool(f)!Task \cup {Pool(f)!NoTask}]
            BY <1>3, <3>1, <3>2, <3>3
        <3>5. \A r \in Pool(f)!Queue : r # t => mem'[r] = mem[r]
            BY <3>1
        <3> QED
            BY <3>1, <3>4, <3>5
    <2> QED
        BY <1>1, <2>1, <2>2, <2>3, <2>4 DEF Pool!TypeInv, RingOK
<1>7. Pool(f)!PlaceInv'
    <2>1. task'[t] # Pool(f)!NoTask
        BY <1>2, <1>p, <1>s DEF Pool!NoTask, CopiedTo
    <2> QED
        BY <1>1, <1>4, <1>5, <2>1 DEF Pool!PlaceInv, OthersStay, Pool!Taking
<1>8. Pool(f)!LockInv'
    <2>1. ASSUME NEW u \in Process
          PROVE  /\ at'[u] \in Pool(f)!Taking => l1'[queueAt'[u]] = u
                 /\ at'[u] = "putFlag" => (IF f THEN l2' ELSE l1')[queueAt'[u]] = u
        <3>1. CASE u = t
            BY <1>1, <1>2, <1>3, <1>4, <1>5, <3>1
        <3>2. CASE u # t
            <4>1. at'[u] = at[u] /\ queueAt'[u] = queueAt[u] /\ queueAt[u] \in Pool(f)!Queue
                BY <1>2, <1>5, <3>2 DEF OthersStay
            <4>2. queueAt[u] # C \/ at[u] \notin Pool(f)!Taking \cup (IF f THEN {} ELSE {"putFlag"})
                BY <1>4, <3>2 DEF Pool!LockInv
            <4>3. queueAt[u] # C => l1'[queueAt[u]] = l1[queueAt[u]]
                BY <1>2, <1>4, <4>1
            <4> QED
                BY <1>1, <4>1, <4>2, <4>3 DEF Pool!LockInv
        <3> QED
            BY <3>1, <3>2
    <2> QED
        BY <2>1 DEF Pool!LockInv
<1>9. Pool(f)!EmptyInv'
    <2>1. /\ \A r \in Pool(f)!Queue : r \notin {t, C} => Pool(f)!Used(r)' = Pool(f)!Used(r)
                 /\ first'[r] = first[r]
          /\ Pool(f)!Takes(t, C)' /\ first'[t] = 0
        BY <1>1, <1>4, <1>5, <1>p DEF CopiedTo, Pool!Takes, Pool!Taking
    <2>2. \A r : (\E u \in Process : Pool(f)!Takes(u, r))
              => \E u \in Process : Pool(f)!Takes(u, r)'
        BY <1>4, PoolOthersSame, <1>5 DEF Pool!Takes, Pool!Taking
    <2>3. ASSUME NEW r \in Pool(f)!Queue
          PROVE  /\ empty'[r] => \/ Pool(f)!Used(r)' = 0
                                 \/ \E u \in Process : Pool(f)!Puts(u, r)'
                                        \/ (r = u /\ at'[u] = "ownFlag")
                 /\ ~empty'[r] => Pool(f)!Used(r)' # 0 \/ \E u \in Process : Pool(f)!Takes(u, r)'
        <3>1. CASE r = C
            BY <1>1, <1>4, <2>1, <3>1
        <3>2. CASE r = t
            BY <1>1, <1>5, <1>e, <3>2
        <3>3. CASE r \notin {t, C}
            <4>1. (\E u \in Process : Pool(f)!Puts(u, r) \/ (r = u /\ at[u] = "ownFlag"))
                    => \E u \in Process : Pool(f)!Puts(u, r)' \/ (r = u /\ at'[u] = "ownFlag")
                <5>1. ASSUME NEW u \in Process, Pool(f)!Puts(u, r) \/ (r = u /\ at[u] = "ownFlag")
                      PROVE  Pool(f)!Puts(u, r)' \/ (r = u /\ at'[u] = "ownFlag")
                    <6>1. u # t
                        BY <1>4, <5>1 DEF Pool!Puts
                    <6> QED
                        BY <1>5, <5>1, <6>1, PoolOthersSame DEF OthersStay
                <5> QED
                    BY <5>1
            <4> QED
                BY <1>1, <2>1, <2>2, <3>3, <4>1 DEF Pool!EmptyInv
        <3> QED
            BY <3>1, <3>2, <3>3
    <2>4. ASSUME NEW u \in Process
          PROVE  /\ at'[u] \in Pool(f)!Taking => ~empty'[queueAt'[u]]
                 /\ at'[u] \in {"chunk", "copy", "ownFlag", "scan", "steal"} => empty'[u]
                 /\ at'[u] = "ownFlag" => first'[u] = 0
                 /\ at'[u] = "putFlag" => \/ Pool(f)!Used(queueAt[u])' # 0
                                          \/ \E v \in Process : Pool(f)!Takes(v, queueAt[u])'
        <3>0. PICK r \in Pool(f)!Queue : r = queueAt[u]
            BY <1>2
        <3>1. (Pool(f)!Used(queueAt[u])' = Pool(f)!Used(r)')
                  /\ \A v \in Process : Pool(f)!Takes(v, queueAt[u])' <=> Pool(f)!Takes(v, r)'
            BY <1>1, <3>0 DEF Pool!Used, Pool!Takes
        <3>2. CASE u = t
            BY <1>1, <1>4, <1>5, <1>e, <2>1, <3>2
        <3>3. CASE u # t
            <4>1. at'[u] = at[u] /\ u \in Pool(f)!Queue /\ u \notin {t, C}
                BY <1>5, <3>3 DEF OthersStay, Pool!Queue
            <4>2. at[u] = "putFlag" => Pool(f)!Used(r) # 0
                      \/ \E v \in Process : Pool(f)!Takes(v, r)
                BY <3>0 DEF Pool!EmptyInv
            <4>3. at[u] = "putFlag" => Pool(f)!Used(r)' # 0
                      \/ \E v \in Process : Pool(f)!Takes(v, r)'
                <5>1. at[u] = "putFlag" => r # t
                    BY <1>3, <3>0, <3>3 DEF Pool!PlaceInv
                <5> QED
                    BY <2>1, <2>2, <4>2, <5>1
            <4> QED
                BY <1>1, <2>1, <3>1, <4>1, <4>3 DEF Pool!EmptyInv
        <3> QED
            BY <3>2, <3>3
    <2> QED
        BY <2>3, <2>4 DEF Pool!EmptyInv, Pool!Queue
<1> QED
    BY <1>s, <1>6, <1>7, <1>8, <1>9

\* Every step of the pool keeps its invariant.
LEMMA PoolStep ==
    ASSUME NEW f \in BOOLEAN
    PROVE  Pool(f)!PoolInv /\ [Pool(f)!Next]_(Pool(f)!vars) => Pool(f)!PoolInv'
<1> SUFFICES ASSUME Pool(f)!PoolInv, [Pool(f)!Next]_(Pool(f)!vars) PROVE Pool(f)!PoolInv'
    OBVIOUS
<1>1. CASE Pool(f)!Next
    <2>1. PICK t \in Process : Pool(f)!Add(t) \/ Pool(f)!Progress(t)
        BY <1>1 DEF Pool!Next
    <2>2. CASE Pool(f)!PutFlag(t) \/ Pool(f)!TakeFlag(t) \/ Pool(f)!OwnFlag(t)
        BY <2>2, PoolPutFlagStep, PoolTakeFlagStep, PoolOwnFlagStep
    <2>3. CASE Pool(f)!Put(t) \/ Pool(f)!Copy(t) \/ Pool(f)!Steal(t)
                   \/ (Pool(f)!Get(t) /\ ~empty[t])
        BY <2>3, PoolPutStep, PoolCopyStep, PoolTakeStep
    <2>4. CASE \/ Pool(f)!Add(t) \/ Pool(f)!PutRefused(t) \/ Pool(f)!Remove(t)
                      \/ (Pool(f)!Get(t) /\ empty[t])
               \/ Pool(f)!ChunkPeek(t) \/ Pool(f)!CopyMiss(t) \/ Pool(f)!Scan(t)
                      \/ Pool(f)!ScanMiss(t) \/ Pool(f)!StealMiss(t)
        BY <2>4, PoolQuietSteps
    <2> QED
        BY <2>1, <2>2, <2>3, <2>4 DEF Pool!Progress
<1>2. CASE UNCHANGED Pool(f)!vars
    <2>1. /\ mem' = mem /\ first' = first /\ last' = last
          /\ empty' = empty /\ l1' = l1 /\ l2' = l2
          /\ created' = created /\ done' = done /\ at' = at /\ queueAt' = queueAt
                 /\ task' = task /\ todo' = todo
        BY <1>2 DEF Pool!vars, Pool!ringVars, Pool!lockVars
    <2>2. Pool(f)!TypeInv' /\ Pool(f)!PlaceInv' /\ Pool(f)!LockInv'
        BY <2>1 DEF Pool!PoolInv, Pool!TypeInv, Pool!PlaceInv, Pool!LockInv
    <2>3. \A q \in Pool(f)!Queue : Pool(f)!Used(q)' = Pool(f)!Used(q)
              /\ Pool(f)!Live(q)' = Pool(f)!Live(q)
        BY <2>1, PoolQueueSame
    <2>4. Pool(f)!EmptyInv'
        BY <2>1 DEF Pool!PoolInv, Pool!EmptyInv, Pool!Used, Pool!Puts, Pool!Takes
    <2>5. Pool(f)!Holder' = Pool(f)!Holder
        BY <2>1 DEF Pool!Holder
    <2>6. Pool(f)!ShareInv'
        BY <2>1, <2>3, <2>5, PoolShareKept DEF Pool!PoolInv
    <2> QED
        BY <2>2, <2>4, <2>6 DEF Pool!PoolInv
<1> QED
    BY <1>1, <1>2

\* The pool counts with the same function as the rest.
LEMMA PoolCardinality ==
    ASSUME NEW f \in BOOLEAN, NEW S
    PROVE  Pool(f)!Cardinality(S) = Cardinality(S)
BY DEF Pool!Cardinality, Cardinality

\* A task is in one place.
LEMMA PoolPlaces ==
    ASSUME NEW f \in BOOLEAN
    PROVE  Pool(f)!PoolInv => Pool(f)!OnePlace
<1> SUFFICES ASSUME Pool(f)!PoolInv, NEW k \in 1..created
             PROVE  Cardinality({s \in Pool(f)!Queue \X (0..(2 * PoolSlots - 1)) :
                                   s[2] \in Pool(f)!Live(s[1]) /\ mem[s[1]][s[2]] = k})
                    + Cardinality({t \in Process : task[t] = k /\ at[t] # "putFlag"})
                    + (IF k \in done THEN 1 ELSE 0) = 1
    BY PoolCardinality DEF Pool!OnePlace
<1> DEFINE P == {s \in Pool(f)!Queue \X (0..(2 * PoolSlots - 1)) :
                   s[2] \in Pool(f)!Live(s[1]) /\ mem[s[1]][s[2]] = k}
           H == {t \in Process : task[t] = k /\ at[t] # "putFlag"}
<1>1. Shared(f) /\ Pool(f)!TypeInv
    BY PoolSharedIs DEF Pool!PoolInv
<1>2. H = {t \in Pool(f)!Holder : task[t] = k}
    <2>1. k # Pool(f)!NoTask /\ created \in Nat
        BY <1>1 DEF Pool!TypeInv, Pool!NoTask
    <2>2. ASSUME NEW t \in Process, task[t] = k
          PROVE  at[t] # "putFlag" <=> at[t] \in {"put"} \cup Pool(f)!Taking
        <3>1. at[t] \in {"put", "putFlag"} \cup Pool(f)!Taking
            BY <2>1, <2>2 DEF Pool!PoolInv, Pool!PlaceInv
        <3> QED
            BY <3>1 DEF Pool!Taking
    <2> QED
        BY <2>2 DEF Pool!Holder
<1>3. IF InHand(f, k) THEN \E t : H = {t} ELSE H = {}
    <2>1. \A t, u \in Pool(f)!Holder : task[t] = task[u] => t = u
        BY <1>1 DEF Shared
    <2>2. CASE InHand(f, k)
        <3>1. PICK t \in Pool(f)!Holder : task[t] = k
            BY <2>2 DEF InHand
        <3>2. H = {t}
            BY <1>2, <2>1, <3>1
        <3> QED
            BY <2>2, <3>2
    <2>3. CASE ~InHand(f, k)
        BY <1>2, <2>3 DEF InHand
    <2> QED
        BY <2>2, <2>3
<1>4. \A q \in Pool(f)!Queue : Pool(f)!Live(q) \subseteq 0..(2 * PoolSlots - 1)
    <2> TAKE q \in Pool(f)!Queue
    <2>1. Pool(f)!Live(q) \subseteq 0..(Pool(f)!Size(q) - 1)
        BY <1>1, PoolQueueIs DEF After
    <2>2. Pool(f)!Size(q) <= 2 * PoolSlots /\ Pool(f)!Size(q) \in Nat
        BY PoolFacts DEF Pool!Size
    <2> QED
        BY <2>1, <2>2, PoolFacts
<1>5. IF InQueue(f, k) THEN \E s : P = {s} ELSE P = {}
    <2>1. CASE InQueue(f, k)
        <3>1. PICK q \in Pool(f)!Queue : k \in Pool(f)!Tasks(q)
            BY <2>1 DEF InQueue
        <3>2. PICK i \in Pool(f)!Live(q) : mem[q][i] = k
            BY <3>1 DEF Pool!Tasks
        <3>3. ASSUME NEW s \in P PROVE s = <<q, i>>
            <4>1. s[1] \in Pool(f)!Queue /\ k \in Pool(f)!Tasks(s[1]) /\ s = <<s[1], s[2]>>
                      /\ s[2] \in Pool(f)!Live(s[1])
                  /\ mem[s[1]][s[2]] = k
                BY DEF Pool!Tasks
            <4>2. s[1] = q
                BY <1>1, <3>1, <4>1 DEF Shared
            <4>3. s[2] = i
                BY <1>1, <3>2, <4>1, <4>2 DEF Shared
            <4> QED
                BY <4>1, <4>2, <4>3
        <3>4. <<q, i>> \in P
            BY <1>4, <3>2
        <3> QED
            BY <2>1, <3>3, <3>4
    <2>2. CASE ~InQueue(f, k)
        <3>1. \A q \in Pool(f)!Queue : \A i \in Pool(f)!Live(q) : mem[q][i] # k
            BY <2>2 DEF InQueue, Pool!Tasks
        <3>2. \A s \in P : FALSE
            BY <3>1
        <3> QED
            BY <2>2, <3>2
    <2> QED
        BY <2>1, <2>2
<1>6. /\ k \in done \/ InHand(f, k) \/ InQueue(f, k)
      /\ ~(k \in done /\ InHand(f, k)) /\ ~(k \in done /\ InQueue(f, k))
             /\ ~(InHand(f, k) /\ InQueue(f, k))
    BY <1>1 DEF Shared, InHand, InQueue
<1> HIDE DEF P, H
<1>7. /\ Cardinality(H) = IF InHand(f, k) THEN 1 ELSE 0
      /\ Cardinality(P) = IF InQueue(f, k) THEN 1 ELSE 0
    BY <1>3, <1>5, FS_Singleton, FS_EmptySet
<1>8. Cardinality(P) + Cardinality(H) + (IF k \in done THEN 1 ELSE 0) = 1
    BY <1>6, <1>7
<1> QED
    BY <1>8 DEF P, H

\* A step of another queue, or of none, leaves the pool alone.
LEMMA PoolOfQueues ==
    ASSUME NEW f \in BOOLEAN, kind = (IF f THEN "poolCfifo" ELSE "pool"),
           [QueuesNext]_queuesVars
    PROVE  kind' = kind /\ [Pool(f)!Next]_(Pool(f)!vars)
<1>1. CASE QueuesNext
    <2>1. CASE f
        <3>1. RunPool("poolCfifo", TRUE)
            BY <1>1, <2>1 DEF QueuesNext, Chosen, RunGrowing, RunTwoLocks, RunLockless, RunPool
        <3> QED
            BY <2>1, <3>1 DEF RunPool, PoolKeeps
    <2>2. CASE ~f
        <3>1. RunPool("pool", FALSE)
            BY <1>1, <2>2 DEF QueuesNext, Chosen, RunGrowing, RunTwoLocks, RunLockless, RunPool
        <3> QED
            BY <2>2, <3>1 DEF RunPool, PoolKeeps
    <2> QED
        BY <2>1, <2>2
<1>2. CASE UNCHANGED queuesVars
    BY <1>2 DEF queuesVars, otherVars, memVars, poolVars, Pool!vars, Pool!ringVars, Pool!lockVars
<1> QED
    BY <1>1, <1>2

\* omp_queue.c:332-361: while chunks of tasks move between the queues of the two
\* levels, with either queue, every task that was put is in one slot of one queue, in
\* the hands of one thread, or done, and in no second place.
THEOREM TasksInOnePlace == QueuesSpec => []OnePlace
<1> DEFINE I == /\ kind = "pool" => Pool(FALSE)!PoolInv
                /\ kind = "poolCfifo" => Pool(TRUE)!PoolInv
<1>1. QueuesInit => I
    <2>1. QueuesInit /\ kind = "pool" => Pool(FALSE)!Init
        BY DEF QueuesInit
    <2>2. QueuesInit /\ kind = "poolCfifo" => Pool(TRUE)!Init
        BY DEF QueuesInit
    <2> QED
        BY <2>1, <2>2, PoolStart
<1>2. I /\ [QueuesNext]_queuesVars => I'
    <2> SUFFICES ASSUME I, [QueuesNext]_queuesVars PROVE I'
        OBVIOUS
    <2>1. kind' = kind
        <3>1. CASE QueuesNext
            BY <3>1 DEF QueuesNext, Chosen, RunGrowing, RunTwoLocks, RunLockless, RunPool,
                PoolKeeps
        <3>2. CASE UNCHANGED queuesVars
            BY <3>2 DEF queuesVars
        <3> QED
            BY <3>1, <3>2
    <2>2. ASSUME kind = "pool" PROVE Pool(FALSE)!PoolInv'
        <3>1. [Pool(FALSE)!Next]_(Pool(FALSE)!vars)
            BY <2>2, PoolOfQueues
        <3> QED
            BY <2>2, <3>1, PoolStep
    <2>3. ASSUME kind = "poolCfifo" PROVE Pool(TRUE)!PoolInv'
        <3>1. [Pool(TRUE)!Next]_(Pool(TRUE)!vars)
            BY <2>3, PoolOfQueues
        <3> QED
            BY <2>3, <3>1, PoolStep
    <2> QED
        BY <2>1, <2>2, <2>3
<1>3. I => OnePlace
    BY PoolPlaces DEF OnePlace
<1> QED
    BY <1>1, <1>2, <1>3, PTL DEF QueuesSpec

-----------------------------------------------------------------------------
(* The FIFO with two locks *)

\* What the queue needs to know of the constants.
LEMMA FifoFacts ==
    ASSUME NEW f \in BOOLEAN
    PROVE  /\ FirstSlots(f) \in Nat \ {0} /\ MaxFifoSlots \in Nat
           /\ f => FirstSlots(f) <= MaxFifoSlots
           /\ Fifo(f)!Free \notin Users(f) /\ NoItem \notin Item /\ Item # {}
           /\ Putters(f) \subseteq Users(f) /\ (f => \A p, q \in Putters(f) : p = q)
BY SizesAssumption, ThreadsAssumption, SomeItemAssumption, ItemAssumption
   DEF FirstSlots, Users, Putters, Fifo!Free, Free

\* What "%" computes on the indices.
LEMMA FifoRing ==
    ASSUME NEW f \in BOOLEAN, Fifo(f)!TypeInv
    PROVE  /\ size \in Nat \ {0}
           /\ first \in 0..(size - 1) /\ last \in 0..(size - 1)
           /\ Fifo(f)!Used = Distance(first, last, size) /\ Fifo(f)!Used \in 0..(size - 1)
           /\ \A i \in 0..(size - 1) :
                 /\ Fifo(f)!Succ(i) = IF i = size - 1 THEN 0 ELSE i + 1
                 /\ Fifo(f)!Succ(i) \in 0..(size - 1)
           /\ \A i, j \in 0..(size - 1) :
                 Fifo(f)!Apart(i, j) = Distance(i, j, size) /\ Fifo(f)!Apart(i, j) \in 0..(size - 1)
<1>1. /\ size \in Nat \ {0}
      /\ first \in 0..(size - 1) /\ last \in 0..(size - 1)
    BY DEF Fifo!TypeInv
<1>2. Fifo(f)!Used = Distance(first, last, size) /\ Fifo(f)!Used \in 0..(size - 1)
    BY <1>1, PoolRingDist DEF Fifo!Used
<1>3. \A i \in 0..(size - 1) :
          /\ Fifo(f)!Succ(i) = IF i = size - 1 THEN 0 ELSE i + 1
          /\ Fifo(f)!Succ(i) \in 0..(size - 1)
    BY <1>1, PoolRingNext DEF Fifo!Succ
<1>4. \A i, j \in 0..(size - 1) :
          Fifo(f)!Apart(i, j) = Distance(i, j, size) /\ Fifo(f)!Apart(i, j) \in 0..(size - 1)
    BY <1>1, PoolRingDist DEF Fifo!Apart
<1> QED
    BY <1>1, <1>2, <1>3, <1>4

\* The ring is empty when the indices meet; it looks full when the tail is before the head.
LEMMA FifoEnds ==
    ASSUME NEW f \in BOOLEAN, Fifo(f)!TypeInv
    PROVE  /\ Fifo(f)!Used = 0 <=> first = last
           /\ Fifo(f)!Used = Fifo(f)!Apart(first, last)
           /\ \A i \in 0..(size - 1) : Fifo(f)!Succ(last) = i <=> Fifo(f)!Apart(i, last) = size - 1
<1>0. /\ size \in Nat \ {0}
      /\ first \in 0..(size - 1) /\ last \in 0..(size - 1)
      /\ Fifo(f)!Used = Distance(first, last, size)
      /\ Fifo(f)!Succ(last) = IF last = size - 1 THEN 0 ELSE last + 1
    BY FifoRing
<1>1. Fifo(f)!Used = 0 <=> first = last
    BY <1>0 DEF Distance
<1>2. Fifo(f)!Used = Fifo(f)!Apart(first, last)
    BY FifoRing
<1>3. ASSUME NEW i \in 0..(size - 1)
      PROVE  Fifo(f)!Succ(last) = i <=> Fifo(f)!Apart(i, last) = size - 1
    <2>1. Fifo(f)!Apart(i, last) = Distance(i, last, size)
        BY <1>0, FifoRing
    <2> QED
        BY <1>0, <2>1 DEF Distance
<1> QED
    BY <1>1, <1>2, <1>3

\* The steps that leave the ring and the flag alone.
QuietCall(f, p) ==
    \/ Fifo(f)!Put(p) \/ Fifo(f)!Get(p) \/ Fifo(f)!ReadHead(p) \/ Fifo(f)!LockTail(p) \/ Fifo(f)!TestFull(p) \/ Fifo(f)!LockBoth(p)
    \/ Fifo(f)!LockBoth2(p) \/ Fifo(f)!UnlockTail(p) \/ Fifo(f)!LockHead(p) \/ Fifo(f)!TestEmpty(p) \/ Fifo(f)!ReadItem(p)
    \/ Fifo(f)!LockEmpty(p) \/ Fifo(f)!UnlockHead(p) \/ Fifo(f)!Return(p)

\* What they do to the call of the process that takes them, and to the locks.
SameCall(f, p) == call'[p] = call[p] /\ given'[p] = given[p]
QuietEffect(f, p) ==
    \/ /\ Fifo(f)!Put(p) /\ at[p] = "idle" /\ p \in Putters(f) /\ call'[p] = "putTail"
       /\ given'[p] \in Item /\ at'[p] = (IF f THEN "readHead" ELSE "lockTail") /\ result'[p] = result[p]
       /\ stale'[p] = stale[p] /\ l1' = l1 /\ l2' = l2
       /\ f => size < MaxFifoSlots \/ Fifo(f)!Used < size - 1
    \/ /\ Fifo(f)!Get(p) /\ at[p] = "idle" /\ at'[p] = "lockHead" /\ call'[p] = "getHead"
       /\ given'[p] = NoItem /\ result'[p] = result[p] /\ stale'[p] = stale[p] /\ l1' = l1 /\ l2' = l2
    \/ /\ Fifo(f)!ReadHead(p) /\ at[p] = "readHead" /\ at'[p] = "lockTail" /\ stale'[p] = first
       /\ SameCall(f, p) /\ result'[p] = result[p] /\ l1' = l1 /\ l2' = l2
    \/ /\ Fifo(f)!LockTail(p) /\ at[p] = "lockTail" /\ at'[p] = "testFull"
       /\ l1' = l1 /\ l2 = Fifo(f)!Free
       /\ l2' = p
       /\ SameCall(f, p) /\ result'[p] = result[p] /\ stale'[p] = stale[p]
    \/ /\ Fifo(f)!TestFull(p) /\ at[p] = "testFull" /\ l1' = l1
       /\ \/ ~Fifo(f)!Full(p) /\ at'[p] = "store" /\ l2' = l2
          \/ Fifo(f)!Full(p) /\ ~f /\ at'[p] = "unlockTail" /\ l2' = l2
          \/ Fifo(f)!Full(p) /\ f /\ at'[p] = "lockBoth" /\ l2' = Fifo(f)!Free
       /\ SameCall(f, p) /\ result'[p] = result[p] /\ stale'[p] = stale[p]
    \/ /\ Fifo(f)!LockBoth(p) /\ at[p] = "lockBoth" /\ at'[p] = "lockBoth2"
       /\ l1 = Fifo(f)!Free /\ l1' = p
       /\ l2' = l2
       /\ SameCall(f, p) /\ result'[p] = result[p] /\ stale'[p] = stale[p]
    \/ /\ Fifo(f)!LockBoth2(p) /\ at[p] = "lockBoth2" /\ at'[p] = "grow"
       /\ l1' = l1 /\ l2 = Fifo(f)!Free
       /\ l2' = p
       /\ SameCall(f, p) /\ result'[p] = result[p] /\ stale'[p] = stale[p]
    \/ /\ Fifo(f)!UnlockTail(p) /\ at[p] = "unlockTail" /\ at'[p] = "return"
       /\ l1' = l1 /\ l2' = Fifo(f)!Free
       /\ SameCall(f, p) /\ result'[p] = result[p] /\ stale'[p] = stale[p]
    \/ /\ Fifo(f)!LockHead(p) /\ at[p] = "lockHead" /\ at'[p] = "testEmpty"
       /\ l1 = Fifo(f)!Free /\ l1' = p
       /\ l2' = l2
       /\ SameCall(f, p) /\ result'[p] = result[p] /\ stale'[p] = stale[p]
    \/ /\ Fifo(f)!TestEmpty(p) /\ at[p] = "testEmpty" /\ l1' = l1 /\ l2' = l2
       /\ at'[p] = (IF empty THEN "unlockHead" ELSE "moveHead")
       /\ SameCall(f, p) /\ result'[p] = result[p] /\ stale'[p] = stale[p]
    \/ /\ Fifo(f)!ReadItem(p) /\ at[p] = "readItem" /\ l1' = l1 /\ l2' = l2
       /\ at'[p] = (IF first = last THEN "lockEmpty" ELSE "unlockHead")
       /\ result'[p] = mem[first]
       /\ SameCall(f, p) /\ stale'[p] = stale[p]
    \/ /\ Fifo(f)!LockEmpty(p) /\ at[p] = "lockEmpty" /\ at'[p] = "setEmpty" /\ l1' = l1
       /\ l2 = Fifo(f)!Free /\ l2' = p
       /\ SameCall(f, p) /\ result'[p] = result[p] /\ stale'[p] = stale[p]
    \/ /\ Fifo(f)!UnlockHead(p) /\ at[p] = "unlockHead" /\ at'[p] = "return"
       /\ l1' = Fifo(f)!Free /\ l2' = l2
       /\ SameCall(f, p) /\ result'[p] = result[p] /\ stale'[p] = stale[p]
    \/ /\ Fifo(f)!Return(p) /\ at[p] = "return" /\ at'[p] = "idle" /\ l1' = l1 /\ l2' = l2
       /\ call'[p] = "getHead" /\ given'[p] = NoItem /\ result'[p] = NoItem /\ stale'[p] = 0
OtherCallsStay(f, p) == \A q \in Users(f) : q # p =>
    at'[q] = at[q] /\ call'[q] = call[q] /\ given'[q] = given[q] /\ result'[q] = result[q] /\ stale'[q] = stale[q]
FifoCallTypes(f) ==
    /\ at \in [Users(f) -> Fifo(f)!PutLabels \cup {"clearEmpty", "unlockTail", "lockHead"}
                          \cup Fifo(f)!HeadLabels \cup {"idle", "return"}]
    /\ call \in [Users(f) -> Fifo(f)!Ops] /\ given \in [Users(f) -> Item \cup {NoItem}]
    /\ result \in [Users(f) -> Item \cup {NoItem}] /\ stale \in [Users(f) -> Nat]

LEMMA FifoQuietStep ==
    ASSUME NEW f \in BOOLEAN, Fifo(f)!TypeInv, NEW p \in Users(f), QuietCall(f, p)
    PROVE  /\ mem' = mem /\ size' = size /\ first' = first
           /\ last' = last /\ empty' = empty
           /\ FifoCallTypes(f)' /\ OtherCallsStay(f, p) /\ QuietEffect(f, p)
<1> USE FifoFacts DEF Fifo!Goto, Fifo!Yield, Fifo!ringVars, Fifo!lockVars, Fifo!callVars
<1>0. FifoCallTypes(f)
    BY DEF Fifo!TypeInv, FifoCallTypes
<1>1. /\ mem' = mem /\ size' = size /\ first' = first
      /\ last' = last /\ empty' = empty
    BY DEF QuietCall, Fifo!Put, Fifo!Get, Fifo!ReadHead, Fifo!LockTail, Fifo!TestFull,
       Fifo!LockBoth, Fifo!LockBoth2, Fifo!UnlockTail, Fifo!LockHead,
        Fifo!TestEmpty, Fifo!ReadItem, Fifo!LockEmpty, Fifo!UnlockHead, Fifo!Return
<1>2. CASE Fifo(f)!Put(p)
    BY <1>0, <1>2 DEF Fifo!Put, QuietEffect, SameCall, OtherCallsStay, FifoCallTypes,
       Fifo!PutLabels, Fifo!HeadLabels, Fifo!Ops, Fifo!TypeInv
<1>3. CASE Fifo(f)!Get(p)
    BY <1>0, <1>3 DEF Fifo!Get, QuietEffect, SameCall, OtherCallsStay, FifoCallTypes,
       Fifo!PutLabels, Fifo!HeadLabels, Fifo!Ops, Fifo!TypeInv
<1>4. CASE Fifo(f)!ReadHead(p)
    BY <1>0, <1>4 DEF Fifo!ReadHead, QuietEffect, SameCall, OtherCallsStay, FifoCallTypes,
       Fifo!PutLabels, Fifo!HeadLabels, Fifo!Ops, Fifo!TypeInv
<1>5. CASE Fifo(f)!LockTail(p)
    BY <1>0, <1>5 DEF Fifo!LockTail, QuietEffect, SameCall, OtherCallsStay, FifoCallTypes,
       Fifo!PutLabels, Fifo!HeadLabels, Fifo!Ops, Fifo!TypeInv
<1>6. CASE Fifo(f)!TestFull(p)
    BY <1>0, <1>6 DEF Fifo!TestFull, QuietEffect, SameCall, OtherCallsStay, FifoCallTypes,
       Fifo!PutLabels, Fifo!HeadLabels, Fifo!Ops, Fifo!TypeInv
<1>7. CASE Fifo(f)!LockBoth(p)
    BY <1>0, <1>7 DEF Fifo!LockBoth, QuietEffect, SameCall, OtherCallsStay, FifoCallTypes,
       Fifo!PutLabels, Fifo!HeadLabels, Fifo!Ops, Fifo!TypeInv
<1>8. CASE Fifo(f)!LockBoth2(p)
    BY <1>0, <1>8 DEF Fifo!LockBoth2, QuietEffect, SameCall, OtherCallsStay, FifoCallTypes,
       Fifo!PutLabels, Fifo!HeadLabels, Fifo!Ops, Fifo!TypeInv
<1>9. CASE Fifo(f)!UnlockTail(p)
    BY <1>0, <1>9 DEF Fifo!UnlockTail, QuietEffect, SameCall, OtherCallsStay, FifoCallTypes,
       Fifo!PutLabels, Fifo!HeadLabels, Fifo!Ops, Fifo!TypeInv
<1>10. CASE Fifo(f)!LockHead(p)
    BY <1>0, <1>10 DEF Fifo!LockHead, QuietEffect, SameCall, OtherCallsStay, FifoCallTypes,
       Fifo!PutLabels, Fifo!HeadLabels, Fifo!Ops, Fifo!TypeInv
<1>11. CASE Fifo(f)!TestEmpty(p)
    BY <1>0, <1>11 DEF Fifo!TestEmpty, QuietEffect, SameCall, OtherCallsStay, FifoCallTypes,
       Fifo!PutLabels, Fifo!HeadLabels, Fifo!Ops, Fifo!TypeInv
<1>12. CASE Fifo(f)!ReadItem(p)
    BY <1>0, <1>12 DEF Fifo!ReadItem, QuietEffect, SameCall, OtherCallsStay, FifoCallTypes,
       Fifo!PutLabels, Fifo!HeadLabels, Fifo!Ops, Fifo!TypeInv
<1>13. CASE Fifo(f)!LockEmpty(p)
    BY <1>0, <1>13 DEF Fifo!LockEmpty, QuietEffect, SameCall, OtherCallsStay, FifoCallTypes,
       Fifo!PutLabels, Fifo!HeadLabels, Fifo!Ops, Fifo!TypeInv
<1>14. CASE Fifo(f)!UnlockHead(p)
    BY <1>0, <1>14 DEF Fifo!UnlockHead, QuietEffect, SameCall, OtherCallsStay, FifoCallTypes,
       Fifo!PutLabels, Fifo!HeadLabels, Fifo!Ops, Fifo!TypeInv
<1>15. CASE Fifo(f)!Return(p)
    BY <1>0, <1>15 DEF Fifo!Return, QuietEffect, SameCall, OtherCallsStay, FifoCallTypes,
       Fifo!PutLabels, Fifo!HeadLabels, Fifo!Ops, Fifo!TypeInv
<1> QED
    BY <1>1, <1>2, <1>3, <1>4, <1>5, <1>6, <1>7, <1>8, <1>9, <1>10, <1>11, <1>12, <1>13,
       <1>14, <1>15 DEF QuietCall

\* So they keep the invariant.
LEMMA FifoQuiet ==
    ASSUME NEW f \in BOOLEAN, Fifo(f)!FifoInv, NEW p \in Users(f), QuietCall(f, p)
    PROVE  Fifo(f)!FifoInv'
<1>1. /\ mem' = mem /\ size' = size /\ first' = first
      /\ last' = last /\ empty' = empty
      /\ FifoCallTypes(f)' /\ OtherCallsStay(f, p) /\ QuietEffect(f, p)
    BY FifoQuietStep DEF Fifo!FifoInv
<1>2. Fifo(f)!Used' = Fifo(f)!Used /\ \A i, j : Fifo(f)!Apart(i, j)' = Fifo(f)!Apart(i, j)
    BY <1>1 DEF Fifo!Used, Fifo!Apart
<1>3. Fifo(f)!TypeInv'
    BY <1>1 DEF Fifo!FifoInv, Fifo!TypeInv, FifoCallTypes
<1>4. Fifo(f)!LockInv'
    <2> SUFFICES ASSUME NEW q \in Users(f)
                 PROVE  /\ at'[q] \in Fifo(f)!HeadLabels \cup {"lockBoth2", "grow"} => l1' = q
                        /\ at'[q] \in {"testFull", "grow", "store", "clearEmpty", "unlockTail", "setEmpty"}
                             => l2' = q
        BY DEF Fifo!LockInv
    <2> QED
        BY <1>1, FifoFacts DEF Fifo!FifoInv, Fifo!LockInv, OtherCallsStay, QuietEffect,
           SameCall, Fifo!HeadLabels
<1>5. Fifo(f)!CallInv'
    <2> SUFFICES ASSUME NEW q \in Users(f)
                 PROVE  /\ at'[q] \in Fifo(f)!PutLabels \cup {"clearEmpty", "unlockTail"} => call'[q] = "putTail"
                        /\ at'[q] \in Fifo(f)!PutLabels \cup {"clearEmpty"} => q \in Putters(f) /\ given'[q] \in Item
                        /\ at'[q] \in Fifo(f)!HeadLabels \cup {"lockHead"} => call'[q] = "getHead"
                        /\ at'[q] \in {"readHead", "lockBoth", "lockBoth2", "grow"} => f
                        /\ at'[q] \in Fifo(f)!PutLabels \cup {"idle", "lockHead", "testEmpty", "moveHead", "readItem"}
                             => result'[q] = NoItem
                        /\ at'[q] = "clearEmpty" => result'[q] = given'[q] /\ mem'[last'] = given'[q]
        BY DEF Fifo!CallInv
    <2> QED
        BY <1>1, FifoFacts DEF Fifo!FifoInv, Fifo!CallInv, OtherCallsStay, QuietEffect,
           SameCall, Fifo!HeadLabels, Fifo!PutLabels
<1>6. Fifo(f)!EmptyInv'
    <2>1. ASSUME NEW q \in Users(f), at[q] = "clearEmpty" PROVE at'[q] = "clearEmpty"
        BY <1>1, <2>1 DEF OtherCallsStay, QuietEffect, SameCall
    <2>2. ASSUME NEW q \in Users(f), at[q] \in {"readItem", "lockEmpty", "setEmpty"}, Fifo(f)!Used = 0
          PROVE  at'[q] \in {"readItem", "lockEmpty", "setEmpty"}
        BY <1>1, <2>2, FifoEnds DEF OtherCallsStay, QuietEffect, SameCall, Fifo!FifoInv
    <2>3. ASSUME NEW q \in Users(f), at'[q] \in {"moveHead", "readItem", "lockEmpty", "setEmpty"}
          PROVE  ~empty
        BY <1>1, <2>3 DEF OtherCallsStay, QuietEffect, SameCall, Fifo!FifoInv, Fifo!EmptyInv
    <2>4. ASSUME NEW q \in Users(f), at'[q] = "clearEmpty" PROVE at[q] = "clearEmpty"
        BY <1>1, <2>4 DEF OtherCallsStay, QuietEffect, SameCall
    <2>5. (\E q \in Users(f) : at'[q] = "clearEmpty") <=> \E q \in Users(f) : at[q] = "clearEmpty"
        BY <2>1, <2>4
    <2>6. empty => Fifo(f)!Used = IF \E q \in Users(f) : at'[q] = "clearEmpty" THEN 1 ELSE 0
        BY <2>5 DEF Fifo!FifoInv, Fifo!EmptyInv
    <2>7. ~empty => Fifo(f)!Used # 0 \/ \E q \in Users(f) : at'[q] \in {"readItem", "lockEmpty", "setEmpty"}
        BY <2>2 DEF Fifo!FifoInv, Fifo!EmptyInv
    <2> QED
        BY <1>1, <1>2, <2>3, <2>6, <2>7 DEF Fifo!EmptyInv
<1>7. Fifo(f)!FullInv'
    <2> SUFFICES ASSUME NEW q \in Users(f)
                 PROVE  /\ at'[q] = "store" => Fifo(f)!Used < size - 1
                        /\ f /\ at'[q] = "readHead" => size < MaxFifoSlots \/ Fifo(f)!Used < size - 1
                        /\ f /\ at'[q] \in Fifo(f)!PutLabels \ {"readHead", "store"}
                             => /\ stale'[q] \in 0..(size - 1) /\ Fifo(f)!Used <= Fifo(f)!Apart(stale'[q], last)
                                /\ size < MaxFifoSlots \/ Fifo(f)!Apart(stale'[q], last) < size - 1
        BY <1>1, <1>2 DEF Fifo!FifoInv, Fifo!FullInv, Fifo!Apart
    <2>1. CASE q # p
        BY <1>1, <2>1 DEF Fifo!FifoInv, Fifo!FullInv, OtherCallsStay
    <2>2. ASSUME q = p, Fifo(f)!TestFull(p), ~Fifo(f)!Full(p)
          PROVE  Fifo(f)!Used < size - 1
        <3>0. Fifo(f)!TypeInv /\ at[p] = "testFull" /\ Fifo(f)!Used \in 0..(size - 1) /\ size \in Nat
            BY <2>2, FifoRing DEF Fifo!TestFull, Fifo!FifoInv
        <3>1. CASE f
            <4>1. stale[p] \in 0..(size - 1) /\ Fifo(f)!Used <= Fifo(f)!Apart(stale[p], last)
                BY <3>0, <3>1 DEF Fifo!FifoInv, Fifo!FullInv, Fifo!PutLabels
            <4>2. Fifo(f)!Apart(stale[p], last) # size - 1 /\ Fifo(f)!Apart(stale[p], last) \in 0..(size - 1)
                BY <2>2, <3>0, <3>1, <4>1, FifoEnds, FifoRing DEF Fifo!Full
            <4> QED
                BY <3>0, <4>1, <4>2
        <3>2. CASE ~f
            <4>1. Fifo(f)!Apart(first, last) # size - 1
                BY <2>2, <3>0, <3>2, FifoEnds, FifoRing DEF Fifo!Full
            <4> QED
                BY <3>0, <4>1, FifoEnds
        <3> QED
            BY <3>1, <3>2
    <2>3. CASE q = p /\ Fifo(f)!ReadHead(p)
        <3>1. at[p] = "readHead" /\ at'[p] = "lockTail" /\ stale'[p] = first
            BY <1>1, <2>3 DEF QuietEffect, SameCall, Fifo!ReadHead
        <3>2. first \in 0..(size - 1) /\ Fifo(f)!Used = Fifo(f)!Apart(first, last) /\ Fifo(f)!Used \in Nat
            BY FifoEnds, FifoRing DEF Fifo!FifoInv
        <3>3. f => size < MaxFifoSlots \/ Fifo(f)!Used < size - 1
            BY <3>1 DEF Fifo!FifoInv, Fifo!FullInv
        <3> QED
            BY <2>3, <3>1, <3>2, <3>3 DEF Fifo!PutLabels
    <2> QED
        BY <1>1, <2>1, <2>2, <2>3, FifoFacts DEF Fifo!FifoInv, Fifo!FullInv, QuietEffect,
           SameCall, Fifo!PutLabels, Fifo!CallInv
<1> QED
    BY <1>3, <1>4, <1>5, <1>6, <1>7 DEF Fifo!FifoInv

\* put: the slot after the tail gets the item.
LEMMA FifoStore ==
    ASSUME NEW f \in BOOLEAN, Fifo(f)!FifoInv, NEW p \in Users(f), Fifo(f)!Store(p)
    PROVE  Fifo(f)!FifoInv' /\ Fifo(f)!Used' = Fifo(f)!Used + 1 /\ Fifo(f)!Used < size - 1
<1>1. /\ at[p] = "store" /\ at'[p] = "clearEmpty" /\ size' = size /\ first' = first
      /\ empty' = empty /\ l1' = l1 /\ l2' = l2 /\ stale' = stale
      /\ call' = call /\ given' = given /\ last' = Fifo(f)!Succ(last) /\ result'[p] = given[p]
      /\ mem' = [mem EXCEPT ![Fifo(f)!Succ(last)] = given[p]] /\ l2 = p
    BY DEF Fifo!Store, Fifo!FifoInv, Fifo!TypeInv, Fifo!Goto, Fifo!Yield, Fifo!lockVars,
       Fifo!callVars, Fifo!LockInv
<1>2. FifoCallTypes(f)' /\ OtherCallsStay(f, p)
    BY DEF Fifo!Store, Fifo!FifoInv, Fifo!TypeInv, Fifo!Goto, Fifo!Yield, Fifo!lockVars,
       Fifo!callVars, FifoCallTypes, OtherCallsStay
<1>3. /\ size \in Nat \ {0} /\ last \in 0..(size - 1) /\ first \in 0..(size - 1)
      /\ Fifo(f)!Used = Distance(first, last, size)
      /\ Fifo(f)!Succ(last) = IF last = size - 1 THEN 0 ELSE last + 1
    BY FifoRing DEF Fifo!FifoInv
<1>4. Fifo(f)!TypeInv'
    BY <1>1, <1>2, <1>3 DEF Fifo!FifoInv, Fifo!TypeInv, FifoCallTypes
<1>5. Fifo(f)!Used < size - 1
    BY <1>1 DEF Fifo!FifoInv, Fifo!FullInv
<1>6. Fifo(f)!Used' = Fifo(f)!Used + 1
    <2>0. Fifo(f)!Used' = (Fifo(f)!Succ(last) + size - first) % size /\ Fifo(f)!Succ(last) \in 0..(size - 1)
        BY <1>1, <1>3 DEF Fifo!Used
    <2>1. Fifo(f)!Used' = Distance(first, Fifo(f)!Succ(last), size)
        BY <1>3, <2>0, PoolRingDist
    <2> QED
        BY <1>3, <1>5, <2>1 DEF Distance
<1>7. Fifo(f)!LockInv'
    BY <1>1, <1>2, FifoFacts DEF Fifo!FifoInv, Fifo!LockInv, OtherCallsStay, Fifo!HeadLabels
<1>8. Fifo(f)!CallInv'
    <2>1. mem'[last'] = given[p]
        BY <1>1, <1>3, FifoRing DEF Fifo!FifoInv, Fifo!TypeInv
    <2>2. \A q \in Users(f) \ {p} : at[q] # "clearEmpty"
        BY <1>1 DEF Fifo!FifoInv, Fifo!LockInv
    <2> QED
        BY <1>1, <1>2, <2>1, <2>2 DEF Fifo!FifoInv, Fifo!CallInv, OtherCallsStay,
           Fifo!HeadLabels, Fifo!PutLabels
<1>9. Fifo(f)!EmptyInv'
    <2>1. empty => Fifo(f)!Used = 0
        BY <1>1 DEF Fifo!FifoInv, Fifo!EmptyInv, Fifo!LockInv
    <2>2. \A q \in Users(f) : at'[q] \in {"moveHead", "readItem", "lockEmpty", "setEmpty"}
             => at[q] \in {"moveHead", "readItem", "lockEmpty", "setEmpty"}
        BY <1>1, <1>2 DEF OtherCallsStay
    <2>3. Fifo(f)!Used \in Nat
        BY FifoRing DEF Fifo!FifoInv
    <2> QED
        BY <1>1, <1>6, <2>1, <2>2, <2>3 DEF Fifo!FifoInv, Fifo!EmptyInv
<1>10. Fifo(f)!FullInv'
    <2>1. \A q \in Users(f) : at'[q] # "store"
        BY <1>1, <1>2 DEF Fifo!FifoInv, Fifo!LockInv, OtherCallsStay
    <2>2. \A q \in Users(f) : ~(f /\ at'[q] \in Fifo(f)!PutLabels)
        BY <1>1, <1>2, FifoFacts DEF Fifo!FifoInv, Fifo!CallInv, OtherCallsStay, Fifo!PutLabels
    <2> QED
        BY <1>1, <2>1, <2>2 DEF Fifo!FifoInv, Fifo!FullInv, Fifo!PutLabels
<1> QED
    BY <1>4, <1>5, <1>6, <1>7, <1>8, <1>9, <1>10 DEF Fifo!FifoInv

\* get: the slot after the head is the free one from now on.
LEMMA FifoMoveHead ==
    ASSUME NEW f \in BOOLEAN, Fifo(f)!FifoInv, NEW p \in Users(f), Fifo(f)!MoveHead(p)
    PROVE  Fifo(f)!FifoInv' /\ Fifo(f)!Used' = Fifo(f)!Used - 1 /\ Fifo(f)!Used # 0 /\ ~empty
<1>1. /\ at[p] = "moveHead" /\ at'[p] = "readItem" /\ size' = size /\ last' = last
      /\ empty' = empty /\ l1' = l1 /\ l2' = l2 /\ stale' = stale
      /\ call' = call /\ given' = given /\ result' = result /\ first' = Fifo(f)!Succ(first)
      /\ mem' = mem /\ l1 = p
    BY DEF Fifo!MoveHead, Fifo!FifoInv, Fifo!TypeInv, Fifo!Goto, Fifo!lockVars, Fifo!callVars,
       Fifo!LockInv, Fifo!HeadLabels
<1>2. FifoCallTypes(f)' /\ OtherCallsStay(f, p)
    BY DEF Fifo!MoveHead, Fifo!FifoInv, Fifo!TypeInv, Fifo!Goto, Fifo!lockVars, Fifo!callVars,
       FifoCallTypes, OtherCallsStay, Fifo!HeadLabels
<1>3. /\ size \in Nat \ {0} /\ last \in 0..(size - 1) /\ first \in 0..(size - 1)
      /\ Fifo(f)!Used = Distance(first, last, size) /\ Fifo(f)!Used \in Nat
    BY FifoRing DEF Fifo!FifoInv
<1>a. Fifo(f)!Succ(first) = IF first = size - 1 THEN 0 ELSE first + 1
    BY <1>3, FifoRing DEF Fifo!FifoInv
<1>4. Fifo(f)!TypeInv'
    BY <1>1, <1>2, <1>3, <1>a DEF Fifo!FifoInv, Fifo!TypeInv, FifoCallTypes
<1>5. Fifo(f)!Used # 0 /\ ~empty
    BY <1>1, FifoFacts DEF Fifo!FifoInv, Fifo!EmptyInv, Fifo!LockInv, Fifo!HeadLabels
<1>6. Fifo(f)!Used' = Fifo(f)!Used - 1
    <2>0. Fifo(f)!Used' = (last + size - Fifo(f)!Succ(first)) % size /\ Fifo(f)!Succ(first) \in 0..(size - 1)
        BY <1>1, <1>3, <1>a DEF Fifo!Used
    <2>1. Fifo(f)!Used' = Distance(Fifo(f)!Succ(first), last, size)
        BY <1>3, <1>a, <2>0, PoolRingDist
    <2> QED
        BY <1>3, <1>a, <1>5, <2>1 DEF Distance
<1>7. Fifo(f)!LockInv'
    BY <1>1, <1>2, FifoFacts DEF Fifo!FifoInv, Fifo!LockInv, OtherCallsStay, Fifo!HeadLabels
<1>8. Fifo(f)!CallInv'
    BY <1>1, <1>2 DEF Fifo!FifoInv, Fifo!CallInv, OtherCallsStay, Fifo!HeadLabels,
       Fifo!PutLabels
<1>9. Fifo(f)!EmptyInv'
    BY <1>1, <1>2, <1>5 DEF Fifo!FifoInv, Fifo!EmptyInv, OtherCallsStay
<1>10. Fifo(f)!FullInv'
    <2>1. \A i, j : Fifo(f)!Apart(i, j)' = Fifo(f)!Apart(i, j)
        BY <1>1 DEF Fifo!Apart
    <2>2. ASSUME NEW q \in Users(f), at'[q] \in Fifo(f)!PutLabels PROVE at[q] = at'[q]
        BY <1>1, <1>2, <2>2 DEF OtherCallsStay, Fifo!PutLabels
    <2>3. ASSUME NEW q \in Users(f), f, at[q] \in Fifo(f)!PutLabels \ {"readHead", "store"}
          PROVE  Fifo(f)!Used' <= Fifo(f)!Apart(stale[q], last)
        <3>1. stale[q] \in 0..(size - 1) /\ Fifo(f)!Used <= Fifo(f)!Apart(stale[q], last)
            BY <2>3 DEF Fifo!FifoInv, Fifo!FullInv
        <3>2. Fifo(f)!Apart(stale[q], last) \in 0..(size - 1)
            BY <1>3, <3>1, FifoRing DEF Fifo!FifoInv
        <3> QED
            BY <1>3, <1>a, <1>6, <3>1, <3>2
    <2> QED
        BY <1>1, <1>3, <1>a, <1>6, <2>1, <2>2, <2>3 DEF Fifo!FifoInv, Fifo!FullInv,
           Fifo!PutLabels
<1> QED
    BY <1>4, <1>5, <1>6, <1>7, <1>8, <1>9, <1>10 DEF Fifo!FifoInv
\* The ring that still looks full is doubled, and what has gone round to its start is
\* copied behind what has not.
LEMMA FifoGrow ==
    ASSUME NEW f \in BOOLEAN, Fifo(f)!FifoInv, NEW p \in Users(f), Fifo(f)!Grow(p)
    PROVE  /\ Fifo(f)!FifoInv' /\ Fifo(f)!Used' = Fifo(f)!Used
           /\ \A i \in 1..Fifo(f)!Used : mem'[((first + i) % size)'] = mem[(first + i) % size]
<1>0. /\ at[p] = "grow" /\ l1' = Fifo(f)!Free /\ Fifo(f)!Goto(p, "store") /\ first' = first
      /\ UNCHANGED <<empty, l2, Fifo(f)!callVars, result, stale>>
    BY DEF Fifo!Grow, Fifo!ringVars
<1>1. /\ at[p] = "grow" /\ at'[p] = "store" /\ first' = first
      /\ empty' = empty /\ l1' = Fifo(f)!Free /\ l2' = l2 /\ stale' = stale
      /\ call' = call /\ given' = given /\ result' = result /\ l1 = p /\ l2 = p
      /\ f /\ p \in Putters(f)
    BY <1>0 DEF Fifo!FifoInv, Fifo!TypeInv, Fifo!Goto, Fifo!callVars, Fifo!LockInv,
       Fifo!CallInv, Fifo!PutLabels
<1>2. FifoCallTypes(f)' /\ OtherCallsStay(f, p)
    BY <1>0 DEF Fifo!FifoInv, Fifo!TypeInv, Fifo!Goto, Fifo!callVars, FifoCallTypes,
       OtherCallsStay, Fifo!PutLabels
<1>3. /\ size \in Nat \ {0} /\ last \in 0..(size - 1) /\ first \in 0..(size - 1)
      /\ Fifo(f)!Used = Distance(first, last, size) /\ Fifo(f)!Used \in 0..(size - 1)
    BY FifoRing DEF Fifo!FifoInv
<1>4. /\ stale[p] \in 0..(size - 1) /\ Fifo(f)!Used <= Fifo(f)!Apart(stale[p], last)
      /\ Fifo(f)!Apart(stale[p], last) \in 0..(size - 1)
      /\ size < MaxFifoSlots \/ Fifo(f)!Apart(stale[p], last) < size - 1
      /\ Fifo(f)!Succ(last) = stale[p] <=> Fifo(f)!Apart(stale[p], last) = size - 1
    <2>1. at[p] \in Fifo(f)!PutLabels \ {"readHead", "store"}
        BY <1>1 DEF Fifo!PutLabels
    <2>2. stale[p] \in 0..(size - 1) /\ Fifo(f)!Used <= Fifo(f)!Apart(stale[p], last)
          /\ (size < MaxFifoSlots \/ Fifo(f)!Apart(stale[p], last) < size - 1)
        BY <1>1, <2>1 DEF Fifo!FifoInv, Fifo!FullInv
    <2> QED
        BY <2>2, FifoRing, FifoEnds DEF Fifo!FifoInv
<1>5. ASSUME ~Fifo(f)!Full(p)
      PROVE  /\ Fifo(f)!TypeInv' /\ Fifo(f)!Used' = Fifo(f)!Used /\ size' \in Nat /\ Fifo(f)!Used < size' - 1
             /\ size' <= 2 * MaxFifoSlots
             /\ \A i \in 1..Fifo(f)!Used : mem'[((first + i) % size)'] = mem[(first + i) % size]
    <2>1. UNCHANGED Fifo(f)!ringVars
        BY <1>5 DEF Fifo!Grow
    <2>2. mem' = mem /\ size' = size /\ last' = last /\ first' = first
        BY <2>1 DEF Fifo!ringVars
    <2>3. Fifo(f)!Used' = Fifo(f)!Used /\ Fifo(f)!Used < size - 1
        <3>1. Fifo(f)!Succ(last) # stale[p]
            BY <1>1, <1>5 DEF Fifo!Full
        <3>2. Fifo(f)!Used < size - 1
            BY <1>3, <1>4, <3>1
        <3> QED
            BY <2>2, <3>2 DEF Fifo!Used
    <2>4. Fifo(f)!TypeInv'
        BY <1>1, <1>2, <2>2 DEF Fifo!FifoInv, Fifo!TypeInv, FifoCallTypes
    <2>5. size <= 2 * MaxFifoSlots
        BY <1>1 DEF Fifo!FifoInv, Fifo!FullInv
    <2>6. \A i : ((first + i) % size)' = (first + i) % size
        BY <1>1, <2>2
    <2> QED
        BY <1>3, <2>2, <2>3, <2>4, <2>5, <2>6
<1>6. ASSUME Fifo(f)!Full(p)
      PROVE  /\ Fifo(f)!TypeInv' /\ Fifo(f)!Used' = Fifo(f)!Used /\ size' \in Nat /\ Fifo(f)!Used < size' - 1
             /\ size' <= 2 * MaxFifoSlots
             /\ \A i \in 1..Fifo(f)!Used : mem'[((first + i) % size)'] = mem[(first + i) % size]
    <2> DEFINE wrapped == last < first
    <2>1. /\ mem' = [i \in 0..(2 * size - 1) |->
                         IF i < size THEN mem[i]
                         ELSE IF wrapped /\ i - size <= last
                              THEN mem[i - size] ELSE NoItem]
          /\ last' = IF wrapped THEN last + size ELSE last
          /\ size' = 2 * size
        BY <1>6 DEF Fifo!Grow
    <2>2. Fifo(f)!Used <= size - 1 /\ size < MaxFifoSlots
        <3>1. Fifo(f)!Succ(last) = stale[p]
            BY <1>1, <1>6 DEF Fifo!Full
        <3> QED
            BY <1>3, <1>4, <3>1
    <2>3. 2 * size \in Nat \ {0} /\ last' \in 0..(2 * size - 1)
          /\ first \in 0..(2 * size - 1) /\ 2 * size <= 2 * MaxFifoSlots
        BY <1>3, <2>1, <2>2, FifoFacts
    <2>4. Fifo(f)!Used' = Fifo(f)!Used
        <3>1. Fifo(f)!Used' = (last' + 2 * size - first) % (2 * size)
            BY <1>1, <2>1 DEF Fifo!Used
        <3>2. Fifo(f)!Used' = Distance(first, last', 2 * size)
            BY <2>3, <3>1, PoolRingDist
        <3> QED
            BY <1>3, <2>1, <3>2 DEF Distance
    <2>5. mem' \in [0..(2 * size - 1) -> Item \cup {NoItem}]
        <3>1. mem \in [0..(size - 1) -> Item \cup {NoItem}]
            BY DEF Fifo!FifoInv, Fifo!TypeInv
        <3>2. ASSUME NEW i \in 0..(2 * size - 1)
              PROVE  (IF i < size THEN mem[i]
                      ELSE IF wrapped /\ i - size <= last
                           THEN mem[i - size] ELSE NoItem) \in Item \cup {NoItem}
            BY <1>3, <3>1
        <3> QED
            BY <2>1, <3>2
    <2>6. Fifo(f)!TypeInv'
        BY <1>1, <1>2, <2>1, <2>3, <2>5 DEF Fifo!FifoInv, Fifo!TypeInv, FifoCallTypes
    <2>7. ASSUME NEW i \in 1..Fifo(f)!Used
          PROVE  mem'[((first + i) % size)'] = mem[(first + i) % size]
        <3>1. (first + i) % size = IF first + i < size THEN first + i
                                           ELSE first + i - size
            BY <1>3, PoolRingPlace
        <3>2. ((first + i) % size)' = first + i /\ first + i \in 0..(2 * size - 1)
            <4>1. i \in 0..(2 * size) /\ first + i < 2 * size
                BY <1>3
            <4>2. (first + i) % (2 * size) = first + i
                BY <2>3, <4>1, PoolRingPlace
            <4>3. ((first + i) % size)' = (first + i) % (2 * size)
                BY <1>1, <2>1
            <4> QED
                BY <1>3, <4>1, <4>2, <4>3
        <3>3. first + i < size \/ (wrapped /\ first + i - size <= last)
            BY <1>3 DEF Distance
        <3> QED
            BY <1>3, <2>1, <3>1, <3>2, <3>3
    <2>8. size' \in Nat /\ Fifo(f)!Used < size' - 1 /\ size' <= 2 * MaxFifoSlots
        BY <1>3, <2>1, <2>2, <2>3
    <2> QED
        BY <2>4, <2>6, <2>7, <2>8
<1>7. /\ Fifo(f)!TypeInv' /\ Fifo(f)!Used' = Fifo(f)!Used /\ size' \in Nat /\ Fifo(f)!Used < size' - 1
      /\ size' <= 2 * MaxFifoSlots
      /\ \A i \in 1..Fifo(f)!Used : mem'[((first + i) % size)'] = mem[(first + i) % size]
    BY <1>5, <1>6
<1>8. Fifo(f)!LockInv'
    BY <1>1, <1>2, FifoFacts DEF Fifo!FifoInv, Fifo!LockInv, OtherCallsStay, Fifo!HeadLabels
<1>9. Fifo(f)!CallInv'
    <2>1. \A q \in Users(f) \ {p} : at[q] # "clearEmpty"
        BY <1>1 DEF Fifo!FifoInv, Fifo!LockInv
    <2>2. result[p] = NoItem /\ call[p] = "putTail" /\ given[p] \in Item
        BY <1>1 DEF Fifo!FifoInv, Fifo!CallInv, Fifo!PutLabels
    <2>3. ASSUME NEW q \in Users(f) \ {p}
          PROVE  at'[q] = at[q] /\ call'[q] = call[q] /\ given'[q] = given[q] /\ result'[q] = result[q]
        BY <1>2 DEF OtherCallsStay
    <2>4. ASSUME NEW q \in Users(f)
          PROVE  /\ at'[q] \in Fifo(f)!PutLabels \cup {"clearEmpty", "unlockTail"} => call'[q] = "putTail"
                 /\ at'[q] \in Fifo(f)!PutLabels \cup {"clearEmpty"} => q \in Putters(f) /\ given'[q] \in Item
                 /\ at'[q] \in Fifo(f)!HeadLabels \cup {"lockHead"} => call'[q] = "getHead"
        BY <1>1, <2>2, <2>3 DEF Fifo!FifoInv, Fifo!CallInv, Fifo!HeadLabels, Fifo!PutLabels
    <2>5. ASSUME NEW q \in Users(f)
          PROVE  /\ at'[q] \in Fifo(f)!PutLabels \cup {"idle", "lockHead", "testEmpty", "moveHead", "readItem"}
                      => result'[q] = NoItem
        BY <1>1, <2>2, <2>3 DEF Fifo!FifoInv, Fifo!CallInv, Fifo!HeadLabels, Fifo!PutLabels
    <2>6. ASSUME NEW q \in Users(f) PROVE at'[q] # "clearEmpty"
        BY <1>1, <2>1, <2>3
    <2> QED
        BY <1>1, <2>4, <2>5, <2>6 DEF Fifo!CallInv
<1>10. Fifo(f)!EmptyInv'
    <2>1. ASSUME NEW q \in Users(f)
          PROVE  \A at0 \in {"clearEmpty", "moveHead", "readItem", "lockEmpty", "setEmpty"} :
                     at'[q] = at0 <=> at[q] = at0
        BY <1>1, <1>2 DEF OtherCallsStay
    <2>2. empty' = empty /\ Fifo(f)!EmptyInv /\ Fifo(f)!Used' = Fifo(f)!Used
        BY <1>1, <1>7 DEF Fifo!FifoInv
    <2> QED
        BY <2>1, <2>2 DEF Fifo!EmptyInv
<1>11. Fifo(f)!FullInv'
    <2>1. ASSUME NEW q \in Users(f), at'[q] \in Fifo(f)!PutLabels PROVE q = p
        BY <1>1, <1>2, <2>1, FifoFacts DEF Fifo!FifoInv, Fifo!CallInv, OtherCallsStay
    <2> QED
        BY <1>1, <1>7, <2>1 DEF Fifo!FullInv, Fifo!PutLabels
<1> QED
    BY <1>7, <1>8, <1>9, <1>10, <1>11 DEF Fifo!FifoInv
\* A put that found the queue empty clears is_empty: its item is the only one.
LEMMA FifoClearEmpty ==
    ASSUME NEW f \in BOOLEAN, Fifo(f)!FifoInv, NEW p \in Users(f), Fifo(f)!ClearEmpty(p)
    PROVE  Fifo(f)!FifoInv' /\ (empty => Fifo(f)!Used = 1)
<1>1. /\ at[p] = "clearEmpty" /\ at'[p] = "unlockTail" /\ size' = size /\ first' = first
      /\ last' = last /\ mem' = mem /\ ~empty'
      /\ l1' = l1 /\ l2' = l2 /\ stale' = stale /\ call' = call /\ given' = given /\ result' = result
    BY DEF Fifo!ClearEmpty, Fifo!FifoInv, Fifo!TypeInv, Fifo!Goto, Fifo!ringVars,
       Fifo!lockVars, Fifo!callVars
<1>2. FifoCallTypes(f)' /\ OtherCallsStay(f, p)
    BY DEF Fifo!ClearEmpty, Fifo!FifoInv, Fifo!TypeInv, Fifo!Goto, Fifo!lockVars,
       Fifo!callVars, FifoCallTypes, OtherCallsStay
<1>3. Fifo(f)!Used' = Fifo(f)!Used /\ \A i, j : Fifo(f)!Apart(i, j)' = Fifo(f)!Apart(i, j)
    BY <1>1 DEF Fifo!Used, Fifo!Apart
<1>4. empty => Fifo(f)!Used = 1
    BY <1>1 DEF Fifo!FifoInv, Fifo!EmptyInv
<1>5. Fifo(f)!TypeInv'
    BY <1>1, <1>2 DEF Fifo!FifoInv, Fifo!TypeInv, FifoCallTypes, Fifo!ClearEmpty
<1>6. Fifo(f)!LockInv'
    BY <1>1, <1>2 DEF Fifo!FifoInv, Fifo!LockInv, OtherCallsStay, Fifo!HeadLabels
<1>7. Fifo(f)!CallInv'
    BY <1>1, <1>2 DEF Fifo!FifoInv, Fifo!CallInv, OtherCallsStay, Fifo!HeadLabels,
       Fifo!PutLabels
<1>8. Fifo(f)!EmptyInv'
    BY <1>1, <1>2, <1>3, <1>4 DEF Fifo!FifoInv, Fifo!EmptyInv, OtherCallsStay
<1>9. Fifo(f)!FullInv'
    BY <1>1, <1>2, <1>3 DEF Fifo!FifoInv, Fifo!FullInv, OtherCallsStay, Fifo!PutLabels
<1> QED
    BY <1>4, <1>5, <1>6, <1>7, <1>8, <1>9 DEF Fifo!FifoInv

\* A get sets it, with both locks, if the ring is still empty.
LEMMA FifoSetEmpty ==
    ASSUME NEW f \in BOOLEAN, Fifo(f)!FifoInv, NEW p \in Users(f), Fifo(f)!SetEmpty(p)
    PROVE  Fifo(f)!FifoInv' /\ (empty' => Fifo(f)!Used = 0)
<1>1. /\ at[p] = "setEmpty" /\ at'[p] = "unlockHead" /\ size' = size /\ first' = first
      /\ last' = last /\ mem' = mem /\ l1' = l1 /\ l2' = Fifo(f)!Free /\ l2 = p
      /\ l1 = p /\ stale' = stale /\ call' = call /\ given' = given /\ result' = result
      /\ empty' = (first = last \/ empty)
    BY DEF Fifo!SetEmpty, Fifo!FifoInv, Fifo!TypeInv, Fifo!Goto, Fifo!ringVars, Fifo!callVars,
       Fifo!LockInv, Fifo!HeadLabels
<1>2. FifoCallTypes(f)' /\ OtherCallsStay(f, p)
    BY DEF Fifo!SetEmpty, Fifo!FifoInv, Fifo!TypeInv, Fifo!Goto, Fifo!callVars, FifoCallTypes,
       OtherCallsStay, Fifo!HeadLabels
<1>3. Fifo(f)!Used' = Fifo(f)!Used /\ \A i, j : Fifo(f)!Apart(i, j)' = Fifo(f)!Apart(i, j)
    BY <1>1 DEF Fifo!Used, Fifo!Apart
<1>4. ~empty /\ (empty' <=> Fifo(f)!Used = 0)
    BY <1>1, FifoEnds DEF Fifo!FifoInv, Fifo!EmptyInv
<1>5. Fifo(f)!TypeInv'
    BY <1>1, <1>2 DEF Fifo!FifoInv, Fifo!TypeInv, FifoCallTypes
<1>6. Fifo(f)!LockInv'
    BY <1>1, <1>2, FifoFacts DEF Fifo!FifoInv, Fifo!LockInv, OtherCallsStay, Fifo!HeadLabels
<1>7. Fifo(f)!CallInv'
    BY <1>1, <1>2 DEF Fifo!FifoInv, Fifo!CallInv, OtherCallsStay, Fifo!HeadLabels,
       Fifo!PutLabels
<1>8. Fifo(f)!EmptyInv'
    <2>1. ASSUME NEW q \in Users(f) PROVE at'[q] # "clearEmpty"
        BY <1>1, <1>2 DEF Fifo!FifoInv, Fifo!LockInv, OtherCallsStay
    <2>2. ASSUME NEW q \in Users(f)
          PROVE  at'[q] \notin {"moveHead", "readItem", "lockEmpty", "setEmpty"}
        BY <1>1, <1>2 DEF Fifo!FifoInv, Fifo!LockInv, OtherCallsStay, Fifo!HeadLabels
    <2> QED
        BY <1>3, <1>4, <2>1, <2>2 DEF Fifo!EmptyInv
<1>9. Fifo(f)!FullInv'
    BY <1>1, <1>2, <1>3 DEF Fifo!FifoInv, Fifo!FullInv, OtherCallsStay, Fifo!PutLabels
<1> QED
    BY <1>4, <1>5, <1>6, <1>7, <1>8, <1>9 DEF Fifo!FifoInv

LEMMA FifoStart ==
    ASSUME NEW f \in BOOLEAN
    PROVE  Fifo(f)!Init => Fifo(f)!FifoInv
<1> SUFFICES ASSUME Fifo(f)!Init PROVE Fifo(f)!FifoInv
    OBVIOUS
<1>1. /\ mem = [i \in 0..(FirstSlots(f) - 1) |-> NoItem] /\ size = FirstSlots(f)
      /\ first = 0 /\ last = 0 /\ empty = TRUE
      /\ at = [p \in Users(f) |-> "idle"] /\ call = [p \in Users(f) |-> "getHead"]
      /\ given = [p \in Users(f) |-> NoItem] /\ result = [p \in Users(f) |-> NoItem]
      /\ stale = [p \in Users(f) |-> 0]
    BY DEF Fifo!Init
<1>2. Fifo(f)!TypeInv
    BY <1>1, FifoFacts DEF Fifo!TypeInv, Fifo!Ops, Fifo!PutLabels, Fifo!HeadLabels
<1>3. Fifo(f)!Used = 0
    BY <1>1, <1>2, FifoEnds
<1>4. Fifo(f)!LockInv /\ Fifo(f)!CallInv
    BY <1>1 DEF Fifo!LockInv, Fifo!CallInv, Fifo!PutLabels, Fifo!HeadLabels
<1>5. Fifo(f)!EmptyInv
    BY <1>1, <1>3 DEF Fifo!EmptyInv
<1>6. Fifo(f)!FullInv
    BY <1>1, FifoFacts DEF Fifo!FullInv, Fifo!PutLabels
<1> QED
    BY <1>2, <1>4, <1>5, <1>6 DEF Fifo!FifoInv

LEMMA FifoStep ==
    ASSUME NEW f \in BOOLEAN
    PROVE  Fifo(f)!FifoInv /\ [Fifo(f)!Next]_(Fifo(f)!vars) => Fifo(f)!FifoInv'
<1> SUFFICES ASSUME Fifo(f)!FifoInv, [Fifo(f)!Next]_(Fifo(f)!vars) PROVE Fifo(f)!FifoInv'
    OBVIOUS
<1>1. CASE UNCHANGED Fifo(f)!vars
    <2>1. /\ mem' = mem /\ size' = size /\ first' = first /\ last' = last
          /\ empty' = empty /\ l1' = l1 /\ l2' = l2 /\ at' = at /\ call' = call
          /\ given' = given /\ result' = result /\ stale' = stale
        BY <1>1 DEF Fifo!vars, Fifo!ringVars, Fifo!lockVars, Fifo!callVars
    <2> QED
        BY <2>1 DEF Fifo!FifoInv, Fifo!TypeInv, Fifo!LockInv, Fifo!CallInv, Fifo!EmptyInv,
           Fifo!FullInv, Fifo!Used, Fifo!Apart
<1>2. CASE Fifo(f)!Next
    <2>1. PICK p \in Users(f) : Fifo(f)!Step(p)
        BY <1>2 DEF Fifo!Next
    <2>2. \/ QuietCall(f, p) \/ Fifo(f)!Store(p) \/ Fifo(f)!ClearEmpty(p)
          \/ Fifo(f)!Grow(p) \/ Fifo(f)!MoveHead(p) \/ Fifo(f)!SetEmpty(p)
        BY <2>1 DEF Fifo!Step, QuietCall
    <2> QED
        BY <2>2, FifoQuiet, FifoStore, FifoClearEmpty, FifoGrow, FifoMoveHead, FifoSetEmpty
<1> QED
    BY <1>1, <1>2

-----------------------------------------------------------------------------
(* The ring with two locks implements WorkDeque. *)

fifoAbsVars(f) == <<Fifo(f)!Content, call, given, Fifo(f)!AbsPhase, Fifo(f)!AbsRes>>

LEMMA FifoContent ==
    ASSUME NEW f \in BOOLEAN, Fifo(f)!FifoInv
    PROVE  /\ empty => Fifo(f)!Content = <<>>
           /\ ~empty => /\ Fifo(f)!Content = [i \in 1..Fifo(f)!Used |-> mem[(first + i) % size]]
                          /\ Len(Fifo(f)!Content) = Fifo(f)!Used
           /\ Fifo(f)!Used \in 0..(size - 1) /\ size \in Nat \ {0}
<1>1. Fifo(f)!Used \in 0..(size - 1) /\ size \in Nat \ {0}
    BY FifoRing DEF Fifo!FifoInv
<1> QED
    BY <1>1 DEF Fifo!Content

\* A step of p shows in the call of p alone.
FifoShowsCall(f, p) == /\ Fifo(f)!AbsPhase' = [Fifo(f)!AbsPhase EXCEPT ![p] = Fifo(f)!Phase(p)']
            /\ Fifo(f)!AbsRes' = [Fifo(f)!AbsRes EXCEPT ![p] = Fifo(f)!Result(p)']
LEMMA FifoShows ==
    ASSUME NEW f \in BOOLEAN, Fifo(f)!FifoInv, NEW p \in Users(f), OtherCallsStay(f, p),
           \A q \in Users(f) \ {p} : at[q] = "clearEmpty" => empty' = empty,
           \A q \in Users(f) \ {p} : at[q] = "readItem" => mem'[first'] = mem[first]
    PROVE  FifoShowsCall(f, p)
<1>1. ASSUME NEW q \in Users(f), q # p
      PROVE  Fifo(f)!Phase(q)' = Fifo(f)!Phase(q) /\ Fifo(f)!Result(q)' = Fifo(f)!Result(q)
    <2>1. at'[q] = at[q] /\ result'[q] = result[q]
        BY <1>1 DEF OtherCallsStay
    <2>2. Fifo(f)!Phase(q)' = Fifo(f)!Phase(q)
        BY <1>1, <2>1 DEF Fifo!Phase
    <2> QED
        BY <1>1, <2>1, <2>2 DEF Fifo!Result
<1> QED
    BY <1>1 DEF FifoShowsCall, Fifo!AbsPhase, Fifo!AbsRes

LEMMA FifoDone ==
    ASSUME NEW f \in BOOLEAN, Fifo(f)!FifoInv, NEW p \in Users(f), NEW x, NEW s,
           Fifo(f)!Phase(p) = "called", Fifo(f)!Phase(p)' = "done",
           Fifo(f)!Result(p)' = x, Fifo(f)!Content' = s,
           FifoShowsCall(f, p),
           call' = call, given' = given
    PROVE  Fifo(f)!Deque!Done(p, s, x)
BY DEF FifoShowsCall, Fifo!Deque!Done, Fifo!AbsPhase

LEMMA FifoSilent ==
    ASSUME NEW f \in BOOLEAN, NEW p \in Users(f), Fifo(f)!Phase(p)' = Fifo(f)!Phase(p),
           Fifo(f)!Result(p)' = Fifo(f)!Result(p), Fifo(f)!Content' = Fifo(f)!Content,
           FifoShowsCall(f, p),
           call' = call, given' = given
    PROVE  UNCHANGED fifoAbsVars(f)
BY DEF FifoShowsCall, fifoAbsVars, Fifo!AbsPhase, Fifo!AbsRes

\* A call starts, fails, gives back what it holds, or returns.
LEMMA FifoQuietMaps ==
    ASSUME NEW f \in BOOLEAN, Fifo(f)!FifoInv, NEW p \in Users(f), QuietCall(f, p)
    PROVE  \/ Fifo(f)!Deque!Call(p) \/ Fifo(f)!Deque!Return(p) \/ Fifo(f)!Deque!Fail(p)
           \/ UNCHANGED fifoAbsVars(f)
<1>1. /\ mem' = mem /\ size' = size /\ first' = first
      /\ last' = last /\ empty' = empty
      /\ FifoCallTypes(f)' /\ OtherCallsStay(f, p) /\ QuietEffect(f, p)
    BY FifoQuietStep DEF Fifo!FifoInv
<1>2. Fifo(f)!Content' = Fifo(f)!Content
    BY <1>1 DEF Fifo!Content, Fifo!Used
<1>3. FifoShowsCall(f, p)
    BY <1>1, FifoShows
<1>4. CASE Fifo(f)!Put(p)
    <2>1. at[p] = "idle" /\ at'[p] \in {"readHead", "lockTail"} /\ result'[p] = NoItem /\ result[p] = NoItem
        BY <1>1, <1>4 DEF Fifo!Put, Fifo!Goto, Fifo!FifoInv, Fifo!TypeInv, Fifo!CallInv
    <2>2. /\ Fifo(f)!Phase(p) = "idle" /\ Fifo(f)!Phase(p)' = "called"
          /\ Fifo(f)!Result(p) = NoItem /\ Fifo(f)!Result(p)' = NoItem
        BY <2>1 DEF Fifo!Phase, Fifo!Result
    <2>3. /\ Fifo(f)!AbsPhase[p] = "idle" /\ Fifo(f)!AbsPhase' = [Fifo(f)!AbsPhase EXCEPT ![p] = "called"]
          /\ Fifo(f)!AbsRes' = Fifo(f)!AbsRes
        BY <1>3, <2>2 DEF FifoShowsCall, Fifo!AbsPhase, Fifo!AbsRes
    <2> QED
        BY <1>2, <1>4, <2>3 DEF Fifo!Put, Fifo!Deque!Call, Fifo!Deque!Ops, Fifo!Deque!Puts
<1>5. CASE Fifo(f)!Get(p)
    <2>1. at[p] = "idle" /\ at'[p] = "lockHead"
        BY <1>1, <1>5 DEF Fifo!Get, Fifo!Goto, Fifo!FifoInv, Fifo!TypeInv
    <2>2. /\ Fifo(f)!Phase(p) = "idle" /\ Fifo(f)!Phase(p)' = "called"
          /\ Fifo(f)!Result(p) = NoItem /\ Fifo(f)!Result(p)' = NoItem
        BY <2>1 DEF Fifo!Phase, Fifo!Result
    <2>3. /\ Fifo(f)!AbsPhase[p] = "idle" /\ Fifo(f)!AbsPhase' = [Fifo(f)!AbsPhase EXCEPT ![p] = "called"]
          /\ Fifo(f)!AbsRes' = Fifo(f)!AbsRes
        BY <1>3, <2>2 DEF FifoShowsCall, Fifo!AbsPhase, Fifo!AbsRes
    <2>4. PICK x : x \in Item
        BY FifoFacts
    <2>5. "getHead" \in Fifo(f)!Deque!Ops /\ "getHead" \notin Fifo(f)!Deque!Puts
        BY DEF Fifo!Deque!Ops, Fifo!Deque!Puts, Fifo!Deque!Gets
    <2>6. call' = [call EXCEPT ![p] = "getHead"] /\ given' = [given EXCEPT ![p] = NoItem]
        BY <1>5 DEF Fifo!Get
    <2>7. \E o \in Fifo(f)!Deque!Ops, y \in Item :
              /\ call' = [call EXCEPT ![p] = o]
              /\ given' = [given EXCEPT ![p] = IF o \in Fifo(f)!Deque!Puts THEN y ELSE NoItem]
        BY <2>4, <2>5, <2>6
    <2> QED
        BY <1>2, <2>3, <2>7 DEF Fifo!Deque!Call
<1>6. CASE Fifo(f)!Return(p)
    <2>1. at[p] = "return" /\ at'[p] = "idle"
        BY <1>1, <1>6 DEF Fifo!Return, Fifo!Goto, Fifo!FifoInv, Fifo!TypeInv
    <2>2. Fifo(f)!Phase(p) = "done" /\ Fifo(f)!Phase(p)' = "idle" /\ Fifo(f)!Result(p)' = NoItem
        BY <2>1 DEF Fifo!Phase, Fifo!Result
    <2>3. /\ Fifo(f)!AbsPhase[p] = "done" /\ Fifo(f)!AbsPhase' = [Fifo(f)!AbsPhase EXCEPT ![p] = "idle"]
          /\ Fifo(f)!AbsRes' = [Fifo(f)!AbsRes EXCEPT ![p] = NoItem]
        BY <1>3, <2>2 DEF FifoShowsCall, Fifo!AbsPhase
    <2> QED
        BY <1>2, <1>6, <2>3 DEF Fifo!Return, Fifo!Deque!Return
<1>7. CASE Fifo(f)!TestFull(p) /\ Fifo(f)!Full(p) /\ ~f
    <2>1. at[p] = "testFull" /\ at'[p] = "unlockTail" /\ result'[p] = NoItem /\ call[p] = "putTail"
        BY <1>1, <1>7 DEF Fifo!TestFull, QuietEffect, SameCall, Fifo!FifoInv, Fifo!CallInv,
           Fifo!PutLabels
    <2>2. Fifo(f)!Phase(p) = "called" /\ Fifo(f)!Phase(p)' = "done" /\ Fifo(f)!Result(p)' = NoItem
        BY <2>1 DEF Fifo!Phase, Fifo!Result
    <2>3. Fifo(f)!Used = FirstSlots(f) - 1 /\ size = FirstSlots(f)
        <3>1. first \in 0..(size - 1) /\ Fifo(f)!Succ(last) = first
            BY <1>7, FifoRing DEF Fifo!Full, Fifo!FifoInv
        <3> QED
            BY <1>7, <3>1, FifoEnds DEF Fifo!FifoInv, Fifo!FullInv
    <2>4. Len(Fifo(f)!Content) = FirstSlots(f) - 1
        <3>1. empty => Fifo(f)!Used = 0
            BY <2>1 DEF Fifo!FifoInv, Fifo!EmptyInv, Fifo!LockInv
        <3> QED
            BY <2>3, <3>1, FifoContent
    <2>5. Fifo(f)!Deque!Done(p, Fifo(f)!Content, NoItem)
        BY <1>2, <1>3, <1>7, <2>2, FifoDone DEF Fifo!TestFull, Fifo!callVars
    <2> QED
        BY <1>7, <2>1, <2>4, <2>5 DEF Fifo!Deque!Fail, Fifo!Deque!Puts
<1>8. CASE Fifo(f)!TestEmpty(p) /\ empty
    <2>1. at[p] = "testEmpty" /\ at'[p] = "unlockHead" /\ result'[p] = NoItem /\ call[p] = "getHead"
        BY <1>1, <1>8 DEF Fifo!TestEmpty, QuietEffect, SameCall, Fifo!FifoInv, Fifo!CallInv,
           Fifo!PutLabels, Fifo!HeadLabels
    <2>2. Fifo(f)!Phase(p) = "called" /\ Fifo(f)!Phase(p)' = "done" /\ Fifo(f)!Result(p)' = NoItem
        BY <2>1 DEF Fifo!Phase, Fifo!Result
    <2>3. Fifo(f)!Content = <<>>
        BY <1>8, FifoContent
    <2>4. Fifo(f)!Deque!Done(p, Fifo(f)!Content, NoItem)
        BY <1>2, <1>3, <1>8, <2>2, FifoDone DEF Fifo!TestEmpty, Fifo!callVars
    <2> QED
        BY <2>1, <2>3, <2>4 DEF Fifo!Deque!Fail, Fifo!Deque!Puts
<1>9. CASE ~ \/ Fifo(f)!Put(p) \/ Fifo(f)!Get(p) \/ Fifo(f)!Return(p)
             \/ Fifo(f)!TestFull(p) /\ Fifo(f)!Full(p) /\ ~f
             \/ Fifo(f)!TestEmpty(p) /\ empty
    <2>1. call' = call /\ given' = given
        BY <1>9 DEF QuietCall, Fifo!ReadHead, Fifo!LockTail, Fifo!TestFull, Fifo!LockBoth,
           Fifo!LockBoth2, Fifo!UnlockTail, Fifo!LockHead,
           Fifo!TestEmpty, Fifo!ReadItem, Fifo!LockEmpty, Fifo!UnlockHead, Fifo!callVars
    <2>2. Fifo(f)!Phase(p)' = Fifo(f)!Phase(p)
        BY <1>1, <1>9 DEF QuietEffect, SameCall, Fifo!Phase
    <2>3. Fifo(f)!Result(p)' = Fifo(f)!Result(p)
        BY <1>1, <1>9, <2>2 DEF QuietEffect, SameCall, Fifo!Result, Fifo!Phase
    <2> QED
        BY <1>2, <1>3, <2>1, <2>2, <2>3, FifoSilent
<1> QED
    BY <1>4, <1>5, <1>6, <1>7, <1>8, <1>9

\* The item goes in: at once, or when is_empty no longer hides it.
LEMMA FifoStoreMaps ==
    ASSUME NEW f \in BOOLEAN, Fifo(f)!FifoInv, NEW p \in Users(f), Fifo(f)!Store(p)
    PROVE  Fifo(f)!Deque!PutTail(p) \/ UNCHANGED fifoAbsVars(f)
<1>1. /\ at[p] = "store" /\ at'[p] = "clearEmpty" /\ size' = size /\ first' = first
      /\ empty' = empty /\ call' = call /\ given' = given /\ result'[p] = given[p] /\ result[p] = NoItem
      /\ mem' = [mem EXCEPT ![Fifo(f)!Succ(last)] = given[p]] /\ call[p] = "putTail"
    BY DEF Fifo!Store, Fifo!FifoInv, Fifo!TypeInv, Fifo!CallInv, Fifo!PutLabels, Fifo!Goto,
       Fifo!Yield, Fifo!callVars
<1>2. OtherCallsStay(f, p)
    BY DEF Fifo!Store, Fifo!FifoInv, Fifo!TypeInv, Fifo!Goto, Fifo!Yield, Fifo!callVars,
       OtherCallsStay
<1>3. /\ size \in Nat \ {0} /\ last \in 0..(size - 1) /\ first \in 0..(size - 1)
      /\ Fifo(f)!Used = Distance(first, last, size) /\ Fifo(f)!Used \in 0..(size - 1)
      /\ Fifo(f)!Succ(last) = IF last = size - 1 THEN 0 ELSE last + 1
    BY FifoRing DEF Fifo!FifoInv
<1>4. Fifo(f)!Used' = Fifo(f)!Used + 1 /\ Fifo(f)!Used < size - 1 /\ Fifo(f)!FifoInv'
    BY FifoStore
<1>5. ASSUME NEW i \in 1..(Fifo(f)!Used + 1)
      PROVE  /\ (first + i) % size \in 0..(size - 1)
             /\ (first + i) % size = Fifo(f)!Succ(last) <=> i = Fifo(f)!Used + 1
    <2>1. i \in 0..size
        BY <1>3, <1>4
    <2>2. (first + i) % size = IF first + i < size THEN first + i
                                       ELSE first + i - size
        BY <1>3, <2>1, PoolRingPlace
    <2> QED
        BY <1>3, <1>4, <2>2 DEF Distance
<1>6. first # Fifo(f)!Succ(last)
    BY <1>3, <1>4 DEF Distance
<1>7. mem \in [0..(size - 1) -> Item \cup {NoItem}]
    BY DEF Fifo!FifoInv, Fifo!TypeInv
<1>8. FifoShowsCall(f, p)
    <2>1. mem'[first'] = mem[first]
        BY <1>1, <1>3, <1>6, <1>7
    <2> QED
        BY <1>1, <1>2, <2>1, FifoShows
<1>9. CASE empty
    <2>1. Fifo(f)!Content' = <<>> /\ Fifo(f)!Content = <<>>
        BY <1>1, <1>4, <1>9, FifoContent DEF Fifo!Content
    <2>2. Fifo(f)!Phase(p)' = Fifo(f)!Phase(p) /\ Fifo(f)!Result(p)' = Fifo(f)!Result(p)
        BY <1>1, <1>9 DEF Fifo!Phase, Fifo!Result
    <2> QED
        BY <1>1, <1>8, <2>1, <2>2, FifoSilent
<1>10. CASE ~empty
    <2>1. Fifo(f)!Content = [i \in 1..Fifo(f)!Used |-> mem[(first + i) % size]] /\ Len(Fifo(f)!Content) = Fifo(f)!Used
        BY <1>10, FifoContent
    <2>2. Fifo(f)!Content' = [i \in 1..(Fifo(f)!Used + 1) |-> mem'[(first + i) % size]]
        BY <1>1, <1>4, <1>10 DEF Fifo!Content
    <2>3. Fifo(f)!Content' = Append(Fifo(f)!Content, given[p])
        <3>1. ASSUME NEW i \in 1..(Fifo(f)!Used + 1)
              PROVE  mem'[(first + i) % size] =
                        IF i = Fifo(f)!Used + 1 THEN given[p] ELSE mem[(first + i) % size]
            BY <1>1, <1>3, <1>5, <1>7
        <3>2. Fifo(f)!Content' = [i \in 1..(Fifo(f)!Used + 1) |-> IF i = Fifo(f)!Used + 1 THEN given[p]
                                                 ELSE mem[(first + i) % size]]
            BY <1>1, <2>2, <3>1
        <3> QED
            BY <1>3, <2>1, <3>2
    <2>4. Len(Fifo(f)!Content) < IF f THEN 2 * MaxFifoSlots ELSE FirstSlots(f) - 1
        BY <1>3, <1>4, <2>1, FifoFacts DEF Fifo!FifoInv, Fifo!FullInv
    <2>5. Fifo(f)!Phase(p) = "called" /\ Fifo(f)!Phase(p)' = "done" /\ Fifo(f)!Result(p)' = given[p]
        BY <1>1, <1>10 DEF Fifo!Phase, Fifo!Result
    <2>6. Fifo(f)!Deque!Done(p, Append(Fifo(f)!Content, given[p]), given[p])
        BY <1>1, <1>8, <2>3, <2>5, FifoDone
    <2> QED
        BY <1>1, <2>4, <2>6 DEF Fifo!Deque!PutTail
<1> QED
    BY <1>9, <1>10

LEMMA FifoClearMaps ==
    ASSUME NEW f \in BOOLEAN, Fifo(f)!FifoInv, NEW p \in Users(f), Fifo(f)!ClearEmpty(p)
    PROVE  Fifo(f)!Deque!PutTail(p) \/ UNCHANGED fifoAbsVars(f)
<1>1. /\ at[p] = "clearEmpty" /\ at'[p] = "unlockTail" /\ size' = size /\ first' = first
      /\ mem' = mem /\ last' = last /\ l2 = p
      /\ empty' = FALSE /\ call' = call /\ given' = given /\ result'[p] = given[p] /\ result[p] = given[p] /\ call[p] = "putTail"
    BY DEF Fifo!ClearEmpty, Fifo!FifoInv, Fifo!TypeInv, Fifo!CallInv, Fifo!LockInv,
       Fifo!PutLabels, Fifo!Goto, Fifo!callVars, Fifo!ringVars
<1>2. OtherCallsStay(f, p)
    BY DEF Fifo!ClearEmpty, Fifo!FifoInv, Fifo!TypeInv, Fifo!Goto, Fifo!callVars, OtherCallsStay
<1>3. /\ size \in Nat \ {0} /\ last \in 0..(size - 1) /\ first \in 0..(size - 1)
      /\ Fifo(f)!Used = Distance(first, last, size) /\ Fifo(f)!Used \in 0..(size - 1)
    BY FifoRing DEF Fifo!FifoInv
<1>4. FifoShowsCall(f, p)
    <2>1. \A q \in Users(f) \ {p} : at[q] # "clearEmpty"
        BY <1>1 DEF Fifo!FifoInv, Fifo!LockInv
    <2> QED
        BY <1>1, <1>2, <2>1, FifoShows
<1>5. Fifo(f)!Used' = Fifo(f)!Used
    BY <1>1 DEF Fifo!Used
<1>6. CASE ~empty
    <2>1. Fifo(f)!Content' = Fifo(f)!Content
        BY <1>1, <1>5, <1>6 DEF Fifo!Content
    <2>2. Fifo(f)!Phase(p)' = Fifo(f)!Phase(p) /\ Fifo(f)!Result(p)' = Fifo(f)!Result(p)
        BY <1>1, <1>6 DEF Fifo!Phase, Fifo!Result
    <2> QED
        BY <1>1, <1>4, <2>1, <2>2, FifoSilent
<1>7. CASE empty
    <2>1. Fifo(f)!Used = 1 /\ Fifo(f)!Content = <<>>
        BY <1>7, FifoClearEmpty, FifoContent
    <2>2. mem[(first + 1) % size] = given[p]
        <3>1. mem[last] = given[p]
            BY <1>1 DEF Fifo!FifoInv, Fifo!CallInv
        <3>2. (first + 1) % size = IF first = size - 1 THEN 0 ELSE first + 1
            BY <1>3, PoolRingNext
        <3>3. last = IF first = size - 1 THEN 0 ELSE first + 1
            BY <1>3, <2>1 DEF Distance
        <3> QED
            BY <3>1, <3>2, <3>3
    <2>3. Fifo(f)!Content' = [i \in 1..1 |-> mem[(first + i) % size]]
        BY <1>1, <1>5, <2>1 DEF Fifo!Content
    <2>4. Fifo(f)!Content' = Append(Fifo(f)!Content, given[p])
        BY <2>1, <2>2, <2>3
    <2>5. 0 < IF f THEN 2 * MaxFifoSlots ELSE FirstSlots(f) - 1
        BY <1>3, <2>1, FifoFacts DEF Fifo!FifoInv, Fifo!FullInv
    <2>6. Fifo(f)!Phase(p) = "called" /\ Fifo(f)!Phase(p)' = "done" /\ Fifo(f)!Result(p)' = given[p]
        BY <1>1, <1>7 DEF Fifo!Phase, Fifo!Result
    <2>7. Fifo(f)!Deque!Done(p, Append(Fifo(f)!Content, given[p]), given[p])
        BY <1>1, <1>4, <2>4, <2>6, FifoDone
    <2> QED
        BY <1>1, <2>1, <2>5, <2>7 DEF Fifo!Deque!PutTail
<1> QED
    BY <1>6, <1>7

\* The item comes out.
LEMMA FifoMoveMaps ==
    ASSUME NEW f \in BOOLEAN, Fifo(f)!FifoInv, NEW p \in Users(f), Fifo(f)!MoveHead(p)
    PROVE  Fifo(f)!Deque!TakeHead(p)
<1>1. /\ at[p] = "moveHead" /\ at'[p] = "readItem" /\ size' = size /\ last' = last
      /\ empty' = empty /\ call' = call /\ given' = given /\ first' = Fifo(f)!Succ(first)
      /\ mem' = mem /\ l1 = p /\ call[p] = "getHead"
    BY DEF Fifo!MoveHead, Fifo!FifoInv, Fifo!TypeInv, Fifo!CallInv, Fifo!LockInv,
       Fifo!HeadLabels, Fifo!Goto, Fifo!callVars
<1>2. OtherCallsStay(f, p)
    BY DEF Fifo!MoveHead, Fifo!FifoInv, Fifo!TypeInv, Fifo!HeadLabels, Fifo!Goto,
       Fifo!callVars, OtherCallsStay
<1>3. /\ size \in Nat \ {0} /\ last \in 0..(size - 1) /\ first \in 0..(size - 1)
      /\ Fifo(f)!Used = Distance(first, last, size) /\ Fifo(f)!Used \in 0..(size - 1)
    BY FifoRing DEF Fifo!FifoInv
<1>4. Fifo(f)!Used' = Fifo(f)!Used - 1 /\ Fifo(f)!Used # 0 /\ ~empty
    BY FifoMoveHead
<1>5. Fifo(f)!Succ(first) = (IF first = size - 1 THEN 0 ELSE first + 1) /\ Fifo(f)!Succ(first) \in 0..(size - 1)
    BY <1>3, FifoRing DEF Fifo!FifoInv
<1>6. ASSUME NEW i \in 1..(Fifo(f)!Used - 1)
      PROVE  (Fifo(f)!Succ(first) + i) % size = (first + (i + 1)) % size
    <2>1. i \in 0..size /\ i + 1 \in 0..size
        BY <1>3
    <2>2. (Fifo(f)!Succ(first) + i) % size = IF Fifo(f)!Succ(first) + i < size THEN Fifo(f)!Succ(first) + i
                                             ELSE Fifo(f)!Succ(first) + i - size
        BY <1>3, <1>5, <2>1, PoolRingPlace
    <2>3. (first + (i + 1)) % size = IF first + (i + 1) < size THEN first + (i + 1)
                                             ELSE first + (i + 1) - size
        BY <1>3, <2>1, PoolRingPlace
    <2> QED
        BY <1>3, <1>5, <2>1, <2>2, <2>3
<1>7. Fifo(f)!Content = [i \in 1..Fifo(f)!Used |-> mem[(first + i) % size]] /\ Len(Fifo(f)!Content) = Fifo(f)!Used
    BY <1>4, FifoContent
<1>8. Fifo(f)!Content' = [i \in 1..(Fifo(f)!Used - 1) |-> mem[(Fifo(f)!Succ(first) + i) % size]]
    BY <1>1, <1>4 DEF Fifo!Content
<1>9. Fifo(f)!Content # <<>> /\ Head(Fifo(f)!Content) = mem[Fifo(f)!Succ(first)]
    BY <1>3, <1>4, <1>7 DEF Fifo!Succ
<1>10. Fifo(f)!Content' = Tail(Fifo(f)!Content)
    BY <1>3, <1>4, <1>6, <1>7, <1>8
<1>11. FifoShowsCall(f, p)
    <2>1. \A q \in Users(f) \ {p} : at[q] # "readItem"
        BY <1>1 DEF Fifo!FifoInv, Fifo!LockInv, Fifo!HeadLabels
    <2> QED
        BY <1>1, <1>2, <2>1, FifoShows
<1>12. Fifo(f)!Phase(p) = "called" /\ Fifo(f)!Phase(p)' = "done" /\ Fifo(f)!Result(p)' = mem[Fifo(f)!Succ(first)]
    BY <1>1 DEF Fifo!Phase, Fifo!Result
<1>13. Fifo(f)!Deque!Done(p, Tail(Fifo(f)!Content), Head(Fifo(f)!Content))
    BY <1>1, <1>9, <1>10, <1>11, <1>12, FifoDone
<1> QED
    BY <1>1, <1>9, <1>13 DEF Fifo!Deque!TakeHead, Fifo!Deque!FromHead

\* Growing moves no item, and an empty queue that is marked so stays empty.
LEMMA FifoGrowMaps ==
    ASSUME NEW f \in BOOLEAN, Fifo(f)!FifoInv, NEW p \in Users(f), Fifo(f)!Grow(p)
    PROVE  UNCHANGED fifoAbsVars(f)
<1>0. /\ at[p] = "grow" /\ l1' = Fifo(f)!Free /\ Fifo(f)!Goto(p, "store") /\ first' = first
      /\ UNCHANGED <<empty, l2, Fifo(f)!callVars, result, stale>>
    BY DEF Fifo!Grow, Fifo!ringVars
<1>1. /\ at[p] = "grow" /\ at'[p] = "store" /\ empty' = empty /\ call' = call /\ given' = given /\ result' = result
      /\ l1 = p /\ OtherCallsStay(f, p)
    BY <1>0 DEF Fifo!FifoInv, Fifo!TypeInv, Fifo!Goto, Fifo!callVars, Fifo!LockInv,
       OtherCallsStay
<1>2. /\ Fifo(f)!Used' = Fifo(f)!Used
      /\ \A i \in 1..Fifo(f)!Used : mem'[((first + i) % size)'] = mem[(first + i) % size]
    BY FifoGrow
<1>3. Fifo(f)!Content' = Fifo(f)!Content
    BY <1>1, <1>2, FifoContent DEF Fifo!Content
<1>4. \A q \in Users(f) \ {p} : at[q] # "readItem"
    BY <1>1 DEF Fifo!FifoInv, Fifo!LockInv, Fifo!HeadLabels
<1>5. FifoShowsCall(f, p)
    BY <1>1, <1>4, FifoShows
<1>6. Fifo(f)!Phase(p)' = Fifo(f)!Phase(p) /\ Fifo(f)!Result(p)' = Fifo(f)!Result(p)
    BY <1>1 DEF Fifo!Phase, Fifo!Result
<1> QED
    BY <1>1, <1>3, <1>5, <1>6, FifoSilent

LEMMA FifoSetMaps ==
    ASSUME NEW f \in BOOLEAN, Fifo(f)!FifoInv, NEW p \in Users(f), Fifo(f)!SetEmpty(p)
    PROVE  UNCHANGED fifoAbsVars(f)
<1>1. /\ at[p] = "setEmpty" /\ at'[p] = "unlockHead" /\ size' = size /\ first' = first
      /\ last' = last /\ mem' = mem /\ l2 = p /\ l1 = p /\ call' = call /\ given' = given /\ result' = result
      /\ OtherCallsStay(f, p) /\ ~empty
    BY DEF Fifo!SetEmpty, Fifo!FifoInv, Fifo!TypeInv, Fifo!EmptyInv, Fifo!Goto, Fifo!ringVars,
       Fifo!callVars, Fifo!LockInv, Fifo!HeadLabels, OtherCallsStay
<1>2. Fifo(f)!Used' = Fifo(f)!Used /\ (empty' => Fifo(f)!Used = 0)
    BY <1>1, FifoSetEmpty DEF Fifo!Used
<1>3. Fifo(f)!Content' = Fifo(f)!Content
    BY <1>1, <1>2 DEF Fifo!Content
<1>4. \A q \in Users(f) \ {p} : at[q] # "clearEmpty"
    BY <1>1 DEF Fifo!FifoInv, Fifo!LockInv
<1>5. FifoShowsCall(f, p)
    BY <1>1, <1>4, FifoShows
<1>6. Fifo(f)!Phase(p)' = Fifo(f)!Phase(p) /\ Fifo(f)!Result(p)' = Fifo(f)!Result(p)
    BY <1>1 DEF Fifo!Phase, Fifo!Result
<1> QED
    BY <1>1, <1>3, <1>5, <1>6, FifoSilent

LEMMA FifoMaps ==
    ASSUME NEW f \in BOOLEAN
    PROVE  Fifo(f)!FifoInv /\ [Fifo(f)!Next]_(Fifo(f)!vars) => Fifo(f)!DequeStep
<1> SUFFICES ASSUME Fifo(f)!FifoInv, [Fifo(f)!Next]_(Fifo(f)!vars) PROVE Fifo(f)!DequeStep
    OBVIOUS
<1>1. UNCHANGED fifoAbsVars(f) => Fifo(f)!DequeStep
    BY DEF fifoAbsVars, Fifo!DequeStep, Fifo!Deque!vars
<1>2. CASE UNCHANGED Fifo(f)!vars
    <2>1. /\ mem' = mem /\ size' = size /\ first' = first /\ last' = last
          /\ empty' = empty /\ at' = at /\ call' = call /\ given' = given /\ result' = result
        BY <1>2 DEF Fifo!vars, Fifo!ringVars, Fifo!callVars
    <2>2. UNCHANGED fifoAbsVars(f)
        BY <2>1 DEF fifoAbsVars, Fifo!Content, Fifo!Used, Fifo!AbsPhase, Fifo!Phase,
           Fifo!AbsRes, Fifo!Result
    <2> QED
        BY <1>1, <2>2
<1>3. CASE Fifo(f)!Next
    <2>1. PICK p \in Users(f) : Fifo(f)!Step(p)
        BY <1>3 DEF Fifo!Next
    <2>2. \/ QuietCall(f, p) \/ Fifo(f)!Store(p) \/ Fifo(f)!ClearEmpty(p)
          \/ Fifo(f)!Grow(p) \/ Fifo(f)!MoveHead(p) \/ Fifo(f)!SetEmpty(p)
        BY <2>1 DEF Fifo!Step, QuietCall
    <2>3. \/ Fifo(f)!Deque!Call(p) \/ Fifo(f)!Deque!Return(p) \/ Fifo(f)!Deque!Fail(p)
          \/ Fifo(f)!Deque!PutTail(p) \/ Fifo(f)!Deque!TakeHead(p)
          \/ UNCHANGED fifoAbsVars(f)
        BY <2>2, FifoQuietMaps, FifoStoreMaps, FifoClearMaps, FifoGrowMaps, FifoMoveMaps,
           FifoSetMaps
    <2>4. Fifo(f)!Deque!Next => Fifo(f)!DequeStep
        BY DEF Fifo!DequeStep
    <2> QED
        BY <1>1, <2>3, <2>4 DEF Fifo!Deque!Next
<1> QED
    BY <1>2, <1>3

LEMMA FifoInitMaps ==
    ASSUME NEW f \in BOOLEAN
    PROVE  Fifo(f)!Init => Fifo(f)!Deque!Init
<1> SUFFICES ASSUME Fifo(f)!Init PROVE Fifo(f)!Deque!Init
    OBVIOUS
<1>1. Fifo(f)!Content = <<>>
    BY DEF Fifo!Init, Fifo!Content
<1>2. Fifo(f)!AbsPhase = [p \in Users(f) |-> "idle"] /\ Fifo(f)!AbsRes = [p \in Users(f) |-> NoItem]
    BY DEF Fifo!Init, Fifo!AbsPhase, Fifo!AbsRes, Fifo!Phase, Fifo!Result
<1> QED
    BY <1>1, <1>2 DEF Fifo!Init, Fifo!Deque!Init

\* A step of another queue, or of none, leaves the FIFO alone.
LEMMA FifoOfQueues ==
    ASSUME NEW f \in BOOLEAN, kind = (IF f THEN "cfifoDyn" ELSE "cfifo"),
           [QueuesNext]_queuesVars
    PROVE  kind' = kind /\ [Fifo(f)!Next]_(Fifo(f)!vars)
<1>1. CASE QueuesNext
    <2>1. CASE f
        <3>1. RunTwoLocks("cfifoDyn", TRUE)
            BY <1>1, <2>1 DEF QueuesNext, Chosen, RunGrowing, RunTwoLocks, RunLockless, RunPool
        <3> QED
            BY <2>1, <3>1 DEF RunTwoLocks, Chosen
    <2>2. CASE ~f
        <3>1. RunTwoLocks("cfifo", FALSE)
            BY <1>1, <2>2 DEF QueuesNext, Chosen, RunGrowing, RunTwoLocks, RunLockless, RunPool
        <3> QED
            BY <2>2, <3>1 DEF RunTwoLocks, Chosen
    <2> QED
        BY <2>1, <2>2
<1>2. CASE UNCHANGED queuesVars
    BY <1>2 DEF queuesVars, otherVars, memVars, callVars2, Fifo!vars, Fifo!ringVars,
        Fifo!lockVars, Fifo!callVars
<1> QED
    BY <1>1, <1>2

\* omp_queue.c:403-459 and 628-659: for any number of threads and slots, and while a
\* put and a get run at once under a lock each, the FIFO of fixed size and the one that
\* grows are queues: each item comes out once and in order, and a call fails only on a
\* queue that is empty, or full, at one moment of it.
THEOREM FifoRefinement == QueuesSpec => FifosImplementDeque
<1> DEFINE I == /\ kind = "cfifo" => Fifo(FALSE)!FifoInv
                /\ kind = "cfifoDyn" => Fifo(TRUE)!FifoInv
           S == /\ kind = "cfifo" => Fifo(FALSE)!DequeStep
                /\ kind = "cfifoDyn" => Fifo(TRUE)!DequeStep
<1>1. QueuesInit => /\ kind = "cfifo" => Fifo(FALSE)!Init
                    /\ kind = "cfifoDyn" => Fifo(TRUE)!Init
    BY DEF QueuesInit
<1>2. QueuesInit => /\ I
                    /\ kind = "cfifo" => Fifo(FALSE)!Deque!Init
                    /\ kind = "cfifoDyn" => Fifo(TRUE)!Deque!Init
    BY <1>1, FifoStart, FifoInitMaps
<1>3. I /\ [QueuesNext]_queuesVars => I' /\ S
    <2> SUFFICES ASSUME I, [QueuesNext]_queuesVars PROVE I' /\ S
        OBVIOUS
    <2>1. kind' = kind
        <3>1. CASE QueuesNext
            BY <3>1 DEF QueuesNext, Chosen, RunGrowing, RunTwoLocks, RunLockless, RunPool,
                PoolKeeps
        <3>2. CASE UNCHANGED queuesVars
            BY <3>2 DEF queuesVars
        <3> QED
            BY <3>1, <3>2
    <2>2. ASSUME kind = "cfifo" PROVE Fifo(FALSE)!FifoInv' /\ Fifo(FALSE)!DequeStep
        <3>1. [Fifo(FALSE)!Next]_(Fifo(FALSE)!vars)
            BY <2>2, FifoOfQueues
        <3> QED
            BY <2>2, <3>1, FifoStep, FifoMaps
    <2>3. ASSUME kind = "cfifoDyn" PROVE Fifo(TRUE)!FifoInv' /\ Fifo(TRUE)!DequeStep
        <3>1. [Fifo(TRUE)!Next]_(Fifo(TRUE)!vars)
            BY <2>3, FifoOfQueues
        <3> QED
            BY <2>3, <3>1, FifoStep, FifoMaps
    <2> QED
        BY <2>1, <2>2, <2>3
<1>4. S => [S]_queuesVars
    OBVIOUS
<1> QED
    BY <1>2, <1>3, PTL DEF QueuesSpec, FifosImplementDeque

-----------------------------------------------------------------------------
(* The queue without locks *)

\* Among indices up to n there is a greatest.
LEMMA GreatestIndex ==
    ASSUME NEW n \in Nat, NEW S \in SUBSET (1..n), S # {}
    PROVE  \E m \in S : \A j \in S : j <= m
<1> DEFINE T == {n - k : k \in S}
<1>1. T \in SUBSET (0..n) /\ T # {}
    <2>1. \A k \in S : n - k \in 0..n
        OBVIOUS
    <2> QED
        BY <2>1
<1>2. PICK t \in T : \A u \in T : t <= u
    BY <1>1, LeastIndex
<1>3. PICK m \in S : t = n - m
    OBVIOUS
<1>4. ASSUME NEW j \in S PROVE j <= m
    <2>1. n - m <= n - j
        BY <1>2, <1>3
    <2> QED
        BY <2>1
<1> QED
    BY <1>4

\* Two numbers less than n apart differ modulo n.
LEMMA RemaindersDiffer ==
    ASSUME NEW n \in Nat \ {0}, NEW i \in Int, NEW j \in Int, i < j, j < i + n
    PROVE  i % n # j % n
<1>1. /\ i = n * (i \div n) + (i % n)
      /\ j = n * (j \div n) + (j % n)
    OBVIOUS
<1> DEFINE d == (j \div n) - (i \div n)
<1>2. i \div n \in Int /\ j \div n \in Int /\ d \in Int
    OBVIOUS
<1>3. SUFFICES ASSUME i % n = j % n PROVE FALSE
    OBVIOUS
<1>4. j - i = n * d
    BY <1>1, <1>2, <1>3
<1>5. CASE d <= 0
    BY <1>2, <1>4, <1>5
<1>6. CASE d >= 1
    BY <1>2, <1>4, <1>6
<1> QED
    BY <1>2, <1>5, <1>6


\* What the queue needs to know of the constants.
LEMMA LocklessFacts ==
    ASSUME NEW w \in BOOLEAN
    PROVE  LocklessSlots(w) \in Nat \ {0} /\ p1 \in LocklessUsers(w) /\ Item # {}
BY SizesAssumption, ThreadsAssumption, SomeItemAssumption DEF LocklessSlots, LocklessUsers

\* Two indices less than num_slots apart have different slots.
LEMMA LocklessSlotsDiffer ==
    ASSUME NEW w \in BOOLEAN, NEW i \in Int, NEW j \in Int, i < j, j < i + LocklessSlots(w)
    PROVE  Lockless(w)!Slot(i) # Lockless(w)!Slot(j)
BY LocklessFacts, RemaindersDiffer DEF Lockless!Slot

LEMMA LocklessSlotType ==
    ASSUME NEW w \in BOOLEAN,
           NEW i \in Int PROVE Lockless(w)!Slot(i) \in 0..(LocklessSlots(w) - 1)
BY LocklessFacts DEF Lockless!Slot

\* What the owner reads through its buffer is the last store to the place.
LEMMA LocklessLatest ==
    ASSUME NEW w \in BOOLEAN, NEW b \in Seq(Lockless(w)!Stores), NEW K \in SUBSET (DOMAIN b),
           NEW m \in K, \A j \in K : j <= m
    PROVE  Lockless(w)!Latest(b, K) = b[m]
<1>1. \A k \in K : (\A j \in K : j <= k) => k = m
    OBVIOUS
<1> QED
    BY <1>1 DEF Lockless!Latest

LEMMA LocklessTailRead ==
    ASSUME NEW w \in BOOLEAN, NEW b \in Seq(Lockless(w)!Stores), NEW t,
           b # <<>> => b[Len(b)].to = "tail"
    PROVE  Lockless(w)!TailThrough(b, t) = IF b = <<>> THEN t ELSE b[Len(b)].index
<1>1. CASE b = <<>>
    BY <1>1 DEF Lockless!TailThrough, Lockless!TailStores
<1>2. CASE b # <<>>
    <2>1. Len(b) \in Lockless(w)!TailStores(b) /\ Lockless(w)!TailStores(b) \in SUBSET (DOMAIN b)
          /\ \A j \in Lockless(w)!TailStores(b) : j <= Len(b)
        BY <1>2 DEF Lockless!TailStores
    <2>2. Lockless(w)!Latest(b, Lockless(w)!TailStores(b)) = b[Len(b)]
        BY <2>1, LocklessLatest
    <2> QED
        BY <1>2, <2>1, <2>2 DEF Lockless!TailThrough
<1> QED
    BY <1>1, <1>2

LEMMA LocklessSlotRead ==
    ASSUME NEW w \in BOOLEAN, NEW b \in Seq(Lockless(w)!Stores), NEW x, NEW i
    PROVE  \/ Lockless(w)!SlotStores(b, i) = {} /\ Lockless(w)!SlotThrough(b, x, i) = x
           \/ \E m \in Lockless(w)!SlotStores(b, i) : /\ \A j \in Lockless(w)!SlotStores(b, i) : j <= m
                                                      /\ Lockless(w)!SlotThrough(b, x, i)
                                                             = b[m].item
<1>1. CASE Lockless(w)!SlotStores(b, i) = {}
    BY <1>1 DEF Lockless!SlotThrough
<1>2. CASE Lockless(w)!SlotStores(b, i) # {}
    <2>1. Lockless(w)!SlotStores(b, i) \in SUBSET (1..Len(b)) /\ Len(b) \in Nat /\ DOMAIN b
              = 1..Len(b)
        BY DEF Lockless!SlotStores
    <2>2. PICK m \in Lockless(w)!SlotStores(b, i) : \A j \in Lockless(w)!SlotStores(b, i) : j <= m
        BY <1>2, <2>1, GreatestIndex
    <2>3. Lockless(w)!Latest(b, Lockless(w)!SlotStores(b, i)) = b[m]
        BY <2>1, <2>2, LocklessLatest
    <2> QED
        BY <1>2, <2>2, <2>3 DEF Lockless!SlotThrough
<1> QED
    BY <1>1, <1>2

\* The slot is read as the last of its stores says.
LEMMA LocklessSlotReadIs ==
    ASSUME NEW w \in BOOLEAN, NEW b \in Seq(Lockless(w)!Stores), NEW x, NEW i,
           NEW m \in Lockless(w)!SlotStores(b, i),
           \A j \in Lockless(w)!SlotStores(b, i) : j <= m
    PROVE  Lockless(w)!SlotThrough(b, x, i) = b[m].item
<1>1. Lockless(w)!SlotStores(b, i) \in SUBSET (DOMAIN b)
    BY DEF Lockless!SlotStores
<1>2. Lockless(w)!Latest(b, Lockless(w)!SlotStores(b, i)) = b[m]
    BY <1>1, LocklessLatest
<1> QED
    BY <1>2 DEF Lockless!SlotThrough

\* A store of the tail does not change what is read of a slot.
LEMMA LocklessSlotTail ==
    ASSUME NEW w \in BOOLEAN, NEW b \in Seq(Lockless(w)!Stores), NEW x, NEW i,
           NEW s \in Lockless(w)!Stores, s.to = "tail"
    PROVE  Lockless(w)!SlotThrough(Append(b, s), x, i) = Lockless(w)!SlotThrough(b, x, i)
<1>1. PICK c : c = Append(b, s)
    OBVIOUS
<1>0. c \in Seq(Lockless(w)!Stores) /\ Len(c) = Len(b) + 1 /\ c[Len(b) + 1] = s
      /\ \A k \in 1..Len(b) : c[k] = b[k]
    BY <1>1
<1> SUFFICES Lockless(w)!SlotThrough(c, x, i) = Lockless(w)!SlotThrough(b, x, i)
    BY <1>1
<1>2. DOMAIN b = 1..Len(b) /\ DOMAIN c = 1..(Len(b) + 1)
    BY <1>0
<1>3. Lockless(w)!SlotStores(c, i) = Lockless(w)!SlotStores(b, i)
    BY <1>0, <1>2 DEF Lockless!SlotStores
<1>4. CASE Lockless(w)!SlotStores(b, i) = {}
    BY <1>3, <1>4 DEF Lockless!SlotThrough
<1>5. CASE Lockless(w)!SlotStores(b, i) # {}
    <2>1. PICK m \in Lockless(w)!SlotStores(b, i) : /\ \A j \in Lockless(w)!SlotStores(b, i) : j <= m
                                                    /\ Lockless(w)!SlotThrough(b, x, i)
                                                           = b[m].item
        BY <1>5, LocklessSlotRead
    <2>2. Lockless(w)!SlotThrough(c, x, i) = c[m].item
        BY <1>0, <1>3, <2>1, LocklessSlotReadIs
    <2>3. m \in 1..Len(b)
        BY <1>2 DEF Lockless!SlotStores
    <2> QED
        BY <1>0, <2>1, <2>2, <2>3
<1> QED
    BY <1>4, <1>5

\* A store of an item changes what is read of its slot only.
LEMMA LocklessSlotItem ==
    ASSUME NEW w \in BOOLEAN, NEW b \in Seq(Lockless(w)!Stores), NEW x, NEW i,
           NEW s \in Lockless(w)!Stores, s.to = "slot"
    PROVE  Lockless(w)!SlotThrough(Append(b, s), x, i) =
              IF Lockless(w)!Slot(s.index) = i THEN s.item ELSE Lockless(w)!SlotThrough(b, x, i)
<1>1. PICK c : c = Append(b, s)
    OBVIOUS
<1>0. c \in Seq(Lockless(w)!Stores) /\ Len(c) = Len(b) + 1 /\ c[Len(b) + 1] = s
      /\ \A k \in 1..Len(b) : c[k] = b[k]
    BY <1>1
<1> SUFFICES Lockless(w)!SlotThrough(c, x, i) = IF Lockless(w)!Slot(s.index) = i
                 THEN s.item ELSE Lockless(w)!SlotThrough(b, x, i)
    BY <1>1
<1>2. DOMAIN b = 1..Len(b) /\ DOMAIN c = 1..(Len(b) + 1)
    BY <1>0
<1>3. CASE Lockless(w)!Slot(s.index) = i
    <2>1. Len(b) + 1 \in Lockless(w)!SlotStores(c, i)
          /\ \A j \in Lockless(w)!SlotStores(c, i) : j <= Len(b) + 1
        BY <1>0, <1>2, <1>3 DEF Lockless!SlotStores
    <2> QED
        BY <1>0, <1>3, <2>1, LocklessSlotReadIs
<1>4. CASE Lockless(w)!Slot(s.index) # i
    <2>0. Lockless(w)!SlotStores(c, i) = Lockless(w)!SlotStores(b, i)
        BY <1>0, <1>2, <1>4 DEF Lockless!SlotStores
    <2>1. CASE Lockless(w)!SlotStores(b, i) = {}
        BY <1>4, <2>0, <2>1 DEF Lockless!SlotThrough
    <2>2. CASE Lockless(w)!SlotStores(b, i) # {}
        <3>1. PICK m \in Lockless(w)!SlotStores(b, i) : /\ \A j \in Lockless(w)!SlotStores(b, i) : j <= m
                                                        /\ Lockless(w)!SlotThrough(b, x, i)
                                                               = b[m].item
            BY <2>2, LocklessSlotRead
        <3>2. Lockless(w)!SlotThrough(c, x, i) = c[m].item
            BY <1>0, <2>0, <3>1, LocklessSlotReadIs
        <3>3. m \in 1..Len(b)
            BY <1>2 DEF Lockless!SlotStores
        <3> QED
            BY <1>0, <1>4, <3>1, <3>2, <3>3
    <2> QED
        BY <2>1, <2>2
<1> QED
    BY <1>3, <1>4

\* Nor does it change when the first store reaches memory.
LEMMA LocklessSlotDrain ==
    ASSUME NEW w \in BOOLEAN, NEW b \in Seq(Lockless(w)!Stores), b # <<>>, NEW x, NEW i, NEW y,
           y = IF Head(b).to = "slot" /\ Lockless(w)!Slot(Head(b).index) = i
               THEN Head(b).item ELSE x
    PROVE  Lockless(w)!SlotThrough(Tail(b), y, i) = Lockless(w)!SlotThrough(b, x, i)
<1>1. PICK c : c = Tail(b)
    OBVIOUS
<1>0. c \in Seq(Lockless(w)!Stores) /\ Len(c) = Len(b) - 1 /\ Head(b) = b[1]
      /\ \A k \in 1..(Len(b) - 1) : c[k] = b[k + 1]
    BY <1>1
<1> SUFFICES Lockless(w)!SlotThrough(c, y, i) = Lockless(w)!SlotThrough(b, x, i)
    BY <1>1
<1>2. DOMAIN b = 1..Len(b) /\ DOMAIN c = 1..(Len(b) - 1) /\ Len(b) \in Nat /\ Len(b) > 0
    BY <1>0
<1>3. \A k \in 1..(Len(b) - 1) : k \in Lockless(w)!SlotStores(c, i)
          <=> k + 1 \in Lockless(w)!SlotStores(b, i)
    BY <1>0, <1>2 DEF Lockless!SlotStores
<1>4. 1 \in Lockless(w)!SlotStores(b, i) <=> Head(b).to = "slot"
      /\ Lockless(w)!Slot(Head(b).index) = i
    BY <1>0, <1>2 DEF Lockless!SlotStores
<1>5. Lockless(w)!SlotStores(c, i) \in SUBSET (1..(Len(b) - 1))
      /\ Lockless(w)!SlotStores(b, i) \in SUBSET (1..Len(b))
    BY <1>2 DEF Lockless!SlotStores
<1>6. CASE Lockless(w)!SlotStores(c, i) # {}
    <2>1. PICK m \in Lockless(w)!SlotStores(c, i) : /\ \A j \in Lockless(w)!SlotStores(c, i) : j <= m
                                                    /\ Lockless(w)!SlotThrough(c, y, i)
                                                           = c[m].item
        BY <1>0, <1>6, LocklessSlotRead
    <2>2. m \in 1..(Len(b) - 1) /\ m + 1 \in Lockless(w)!SlotStores(b, i) /\ c[m] = b[m + 1]
        BY <1>0, <1>3, <1>5
    <2>3. ASSUME NEW j \in Lockless(w)!SlotStores(b, i) PROVE j <= m + 1
        <3>1. CASE j = 1
            BY <2>2, <3>1
        <3>2. CASE j # 1
            <4>1. j - 1 \in 1..(Len(b) - 1) /\ (j - 1) + 1 = j
                BY <1>2, <1>5, <3>2
            <4>2. j - 1 \in Lockless(w)!SlotStores(c, i)
                BY <1>3, <4>1
            <4> QED
                BY <2>1, <2>2, <4>1, <4>2
        <3> QED
            BY <3>1, <3>2
    <2>4. Lockless(w)!SlotThrough(b, x, i) = b[m + 1].item
        BY <2>2, <2>3, LocklessSlotReadIs
    <2> QED
        BY <2>1, <2>2, <2>4
<1>7. CASE Lockless(w)!SlotStores(c, i) = {}
    <2>1. Lockless(w)!SlotThrough(c, y, i) = y
        BY <1>7 DEF Lockless!SlotThrough
    <2>2. ASSUME NEW j \in Lockless(w)!SlotStores(b, i) PROVE j = 1
        <3>1. SUFFICES ASSUME j # 1 PROVE FALSE
            OBVIOUS
        <3>2. j - 1 \in 1..(Len(b) - 1) /\ (j - 1) + 1 = j
            BY <1>2, <1>5, <3>1
        <3> QED
            BY <1>3, <1>7, <3>2
    <2>3. CASE 1 \in Lockless(w)!SlotStores(b, i)
        <3>1. Lockless(w)!SlotThrough(b, x, i) = b[1].item
            BY <2>2, <2>3, LocklessSlotReadIs
        <3> QED
            BY <1>0, <1>4, <2>1, <2>3, <3>1
    <2>4. CASE 1 \notin Lockless(w)!SlotStores(b, i)
        <3>1. Lockless(w)!SlotStores(b, i) = {}
            BY <2>2, <2>4
        <3> QED
            BY <1>4, <2>1, <2>4, <3>1 DEF Lockless!SlotThrough
    <2> QED
        BY <2>3, <2>4
<1> QED
    BY <1>6, <1>7

LEMMA LocklessReadType ==
    ASSUME NEW w \in BOOLEAN, NEW b \in Seq(Lockless(w)!Stores), NEW x \in Item \cup {NoItem},
           NEW i
    PROVE  Lockless(w)!SlotThrough(b, x, i) \in Item \cup {NoItem}
<1>1. CASE Lockless(w)!SlotStores(b, i) = {}
    BY <1>1 DEF Lockless!SlotThrough
<1>2. CASE Lockless(w)!SlotStores(b, i) # {}
    <2>1. PICK m \in Lockless(w)!SlotStores(b, i) : Lockless(w)!SlotThrough(b, x, i) = b[m].item
        BY <1>2, LocklessSlotRead
    <2>2. m \in DOMAIN b
        BY DEF Lockless!SlotStores
    <2>3. b[m] \in Lockless(w)!Stores
        BY <2>2
    <2> QED
        BY <2>1, <2>3 DEF Lockless!Stores
<1> QED
    BY <1>1, <1>2

\* What the owner reads, and the bound on the tail.
LEMMA LocklessOwn ==
    ASSUME NEW w \in BOOLEAN, Lockless(w)!TypeInv, Lockless(w)!BufferInv
    PROVE  /\ Lockless(w)!OwnTail \in Int /\ Lockless(w)!AbsTail \in Int /\ first \in Int
              /\ last \in Int
           /\ Lockless(w)!OwnTail = IF buffer = <<>> THEN last ELSE buffer[Len(buffer)].index
           /\ \A i \in 0..(LocklessSlots(w) - 1) : Lockless(w)!OwnSlot(i) \in Item \cup {NoItem}
<1>1. buffer \in Seq(Lockless(w)!Stores) /\ (buffer # <<>> => buffer[Len(buffer)].to = "tail")
    BY DEF Lockless!TypeInv, Lockless!BufferInv, Lockless!TailStore
<1>2. Lockless(w)!OwnTail = IF buffer = <<>> THEN last ELSE buffer[Len(buffer)].index
    BY <1>1, LocklessTailRead DEF Lockless!OwnTail
<1>3. buffer # <<>> => buffer[Len(buffer)] \in Lockless(w)!Stores
    BY <1>1
<1>4. Lockless(w)!OwnTail \in Int
    BY <1>2, <1>3 DEF Lockless!TypeInv, Lockless!Stores
<1>5. \A i \in 0..(LocklessSlots(w) - 1) : Lockless(w)!OwnSlot(i) \in Item \cup {NoItem}
    BY <1>1, LocklessReadType DEF Lockless!TypeInv, Lockless!OwnSlot
<1>6. first \in Int /\ last \in Int
    BY DEF Lockless!TypeInv
<1> QED
    BY <1>2, <1>4, <1>5, <1>6 DEF Lockless!AbsTail

\* What a thief finds in memory at the head is what the owner reads there.
LEMMA LocklessSettled ==
    ASSUME NEW w \in BOOLEAN, Lockless(w)!TypeInv, Lockless(w)!BufferInv,
           Lockless(w)!SizeInv, first < Lockless(w)!AbsTail,
           \A k \in DOMAIN buffer : buffer[k].to = "slot" => first < buffer[k].index
    PROVE  mem[Lockless(w)!Slot(first)] = Lockless(w)!OwnSlot(Lockless(w)!Slot(first))
<1>1. ASSUME NEW k \in DOMAIN buffer, buffer[k].to = "slot"
      PROVE  Lockless(w)!Slot(buffer[k].index) # Lockless(w)!Slot(first)
    <2>1. buffer[k].index \in first..(Lockless(w)!AbsTail - 1) /\ first \in Int
          /\ first < buffer[k].index /\ Lockless(w)!AbsTail \in Int
        BY <1>1, LocklessOwn DEF Lockless!BufferInv
    <2>2. buffer[k].index \in Int /\ buffer[k].index < first + LocklessSlots(w)
        BY <2>1, LocklessFacts DEF Lockless!SizeInv
    <2> QED
        BY <2>1, <2>2, LocklessSlotsDiffer
<1>2. Lockless(w)!SlotStores(buffer, Lockless(w)!Slot(first)) = {}
    BY <1>1 DEF Lockless!SlotStores
<1> QED
    BY <1>2 DEF Lockless!OwnSlot, Lockless!SlotThrough

\* How what the owner reads changes: not at all unless it stores,
LEMMA LocklessSameView ==
    ASSUME NEW w \in BOOLEAN, mem' = mem, last' = last, buffer' = buffer
    PROVE  Lockless(w)!OwnTail' = Lockless(w)!OwnTail /\ \A i : Lockless(w)!OwnSlot(i)'
               = Lockless(w)!OwnSlot(i)
BY DEF Lockless!OwnTail, Lockless!OwnSlot

\* and not when a store reaches memory.
LEMMA LocklessDrainView ==
    ASSUME NEW w \in BOOLEAN, Lockless(w)!TypeInv, Lockless(w)!BufferInv, Lockless(w)!Drain
    PROVE  /\ Lockless(w)!OwnTail' = Lockless(w)!OwnTail
              /\ \A i \in 0..(LocklessSlots(w) - 1) : Lockless(w)!OwnSlot(i)'
                     = Lockless(w)!OwnSlot(i)
           /\ Lockless(w)!TypeInv'
<1>1. /\ buffer \in Seq(Lockless(w)!Stores) /\ buffer # <<>> /\ buffer' = Tail(buffer)
      /\ buffer[Len(buffer)].to = "tail" /\ Head(buffer) \in Lockless(w)!Stores
    BY DEF Lockless!TypeInv, Lockless!BufferInv, Lockless!TailStore, Lockless!Drain
<1>2. /\ buffer' \in Seq(Lockless(w)!Stores) /\ Len(buffer') = Len(buffer) - 1
      /\ buffer' # <<>> => buffer'[Len(buffer')] = buffer[Len(buffer)]
      /\ buffer' = <<>> => Head(buffer) = buffer[Len(buffer)]
    <2>1. /\ buffer' \in Seq(Lockless(w)!Stores) /\ Len(buffer') = Len(buffer) - 1
          /\ \A k \in 1..(Len(buffer) - 1) : buffer'[k] = buffer[k + 1]
          /\ Head(buffer) = buffer[1] /\ Len(buffer) \in Nat \ {0}
        BY <1>1
    <2>2. CASE Len(buffer) = 1
        BY <2>1, <2>2
    <2>3. CASE Len(buffer) # 1
        <3>1. Len(buffer) - 1 \in 1..(Len(buffer) - 1) /\ (Len(buffer) - 1) + 1 = Len(buffer)
            BY <2>1, <2>3
        <3> QED
            BY <2>1, <2>3, <3>1
    <2> QED
        BY <2>2, <2>3
<1>3. Lockless(w)!OwnTail = buffer[Len(buffer)].index
    BY <1>1, LocklessOwn
<1>4. Lockless(w)!OwnTail' = IF buffer' = <<>> THEN last' ELSE buffer'[Len(buffer')].index
    BY <1>1, <1>2, LocklessTailRead DEF Lockless!OwnTail
<1>5. buffer' = <<>> => last' = buffer[Len(buffer)].index
    BY <1>1, <1>2 DEF Lockless!Drain
<1>6. Lockless(w)!OwnTail' = Lockless(w)!OwnTail
    BY <1>2, <1>3, <1>4, <1>5
<1>7. Lockless(w)!Slot(Head(buffer).index) \in 0..(LocklessSlots(w) - 1)
    BY <1>1, LocklessSlotType DEF Lockless!Stores
<1>8. ASSUME NEW i \in 0..(LocklessSlots(w) - 1)
      PROVE  Lockless(w)!OwnSlot(i)' = Lockless(w)!OwnSlot(i)
    <2>1. mem'[i] = IF Head(buffer).to = "slot" /\ Lockless(w)!Slot(Head(buffer).index) = i
                      THEN Head(buffer).item ELSE mem[i]
        BY <1>7 DEF Lockless!Drain, Lockless!TypeInv
    <2> QED
        BY <1>1, <2>1, LocklessSlotDrain DEF Lockless!OwnSlot
<1>9. Lockless(w)!TypeInv'
    BY <1>1, <1>2, <1>7 DEF Lockless!Drain, Lockless!TypeInv, Lockless!Stores,
       Lockless!callVars, Lockless!localVars
<1> QED
    BY <1>6, <1>8, <1>9

\* A store of the tail changes the tail,
LEMMA LocklessTailView ==
    ASSUME NEW w \in BOOLEAN, Lockless(w)!TypeInv, NEW t \in Int,
           buffer' = Append(buffer, Lockless(w)!TailStore(t)), mem' = mem
    PROVE  /\ Lockless(w)!OwnTail' = t /\ \A i : Lockless(w)!OwnSlot(i)' = Lockless(w)!OwnSlot(i)
           /\ buffer' \in Seq(Lockless(w)!Stores) /\ buffer' # <<>>
              /\ buffer'[Len(buffer')] = Lockless(w)!TailStore(t)
           /\ DOMAIN buffer' = 1..(Len(buffer) + 1) /\ DOMAIN buffer = 1..Len(buffer)
           /\ Len(buffer) \in Nat
           /\ \A k \in DOMAIN buffer : buffer'[k] = buffer[k]
           /\ buffer'[Len(buffer) + 1] = Lockless(w)!TailStore(t)
<1>1. buffer \in Seq(Lockless(w)!Stores) /\ Lockless(w)!TailStore(t) \in Lockless(w)!Stores
      /\ Lockless(w)!TailStore(t).to = "tail"
      /\ Lockless(w)!TailStore(t).index = t
    BY DEF Lockless!TypeInv, Lockless!TailStore, Lockless!Stores
<1>2. /\ buffer' \in Seq(Lockless(w)!Stores) /\ buffer' # <<>> /\ buffer'[Len(buffer')]
             = Lockless(w)!TailStore(t)
      /\ DOMAIN buffer' = 1..(Len(buffer) + 1) /\ DOMAIN buffer = 1..Len(buffer)
      /\ Len(buffer) \in Nat
      /\ \A k \in DOMAIN buffer : buffer'[k] = buffer[k]
      /\ buffer'[Len(buffer) + 1] = Lockless(w)!TailStore(t)
    BY <1>1
<1>3. Lockless(w)!OwnTail' = t
    <2>1. Lockless(w)!OwnTail' = Lockless(w)!TailThrough(buffer', last')
        BY DEF Lockless!OwnTail
    <2>2. buffer'[Len(buffer')].to = "tail" /\ buffer'[Len(buffer')].index = t
        BY <1>1, <1>2
    <2>3. Lockless(w)!TailThrough(buffer', last') = buffer'[Len(buffer')].index
        BY <1>2, <2>2, LocklessTailRead
    <2> QED
        BY <2>1, <2>2, <2>3
<1>4. \A i : Lockless(w)!OwnSlot(i)' = Lockless(w)!OwnSlot(i)
    BY <1>1, LocklessSlotTail DEF Lockless!OwnSlot
<1> QED
    BY <1>2, <1>3, <1>4

\* and a put changes the slot there too.
LEMMA LocklessStoreView ==
    ASSUME NEW w \in BOOLEAN, Lockless(w)!TypeInv, Lockless(w)!BufferInv,
           Lockless(w)!Store, given[p1] \in Item
    PROVE  /\ Lockless(w)!OwnTail' = Lockless(w)!OwnTail + 1
           /\ \A i : Lockless(w)!OwnSlot(i)' = IF Lockless(w)!Slot(Lockless(w)!OwnTail) = i
                  THEN given[p1] ELSE Lockless(w)!OwnSlot(i)
           /\ buffer' \in Seq(Lockless(w)!Stores) /\ buffer' # <<>>
           /\ buffer'[Len(buffer')] = Lockless(w)!TailStore(Lockless(w)!OwnTail + 1)
           /\ DOMAIN buffer' = 1..(Len(buffer) + 2) /\ DOMAIN buffer = 1..Len(buffer)
           /\ Len(buffer) \in Nat
           /\ \A k \in DOMAIN buffer : buffer'[k] = buffer[k]
           /\ buffer'[Len(buffer) + 1] = Lockless(w)!ItemStore(Lockless(w)!OwnTail, given[p1])
           /\ buffer'[Len(buffer) + 2] = Lockless(w)!TailStore(Lockless(w)!OwnTail + 1)
<1> DEFINE x == Lockless(w)!ItemStore(Lockless(w)!OwnTail, given[p1])
           y == Lockless(w)!TailStore(Lockless(w)!OwnTail + 1)
<1>0. Lockless(w)!OwnTail \in Int
    BY LocklessOwn
<1>1. /\ buffer \in Seq(Lockless(w)!Stores) /\ x \in Lockless(w)!Stores /\ x.to = "slot"
         /\ y \in Lockless(w)!Stores /\ y.to = "tail"
      /\ y.index = Lockless(w)!OwnTail + 1 /\ x.index = Lockless(w)!OwnTail /\ x.item = given[p1]
    BY <1>0 DEF Lockless!TypeInv, Lockless!TailStore, Lockless!ItemStore, Lockless!Stores
<1>2. buffer' = buffer \o <<x, y>>
    BY DEF Lockless!Store
<1> HIDE DEF x, y
<1>3. /\ buffer' \in Seq(Lockless(w)!Stores) /\ buffer' # <<>> /\ buffer'[Len(buffer')] = y
      /\ DOMAIN buffer' = 1..(Len(buffer) + 2) /\ DOMAIN buffer = 1..Len(buffer)
      /\ Len(buffer) \in Nat
      /\ \A k \in DOMAIN buffer : buffer'[k] = buffer[k]
      /\ buffer'[Len(buffer) + 1] = x /\ buffer'[Len(buffer) + 2] = y
    BY <1>1, <1>2
<1>4. Lockless(w)!OwnTail' = Lockless(w)!OwnTail + 1
    BY <1>1, <1>3, LocklessTailRead DEF Lockless!OwnTail
<1>5. Append(buffer, x) \in Seq(Lockless(w)!Stores) /\ buffer' = Append(Append(buffer, x), y)
    BY <1>1, <1>2
<1>6. ASSUME NEW i
      PROVE  Lockless(w)!OwnSlot(i)' = IF Lockless(w)!Slot(Lockless(w)!OwnTail) = i
                 THEN given[p1] ELSE Lockless(w)!OwnSlot(i)
    <2>1. Lockless(w)!SlotThrough(buffer', mem[i], i)
              = Lockless(w)!SlotThrough(Append(buffer, x), mem[i], i)
        <3>1. PICK b : b = Append(buffer, x)
            OBVIOUS
        <3>2. buffer' = Append(b, y)
            BY <1>5, <3>1
        <3>3. b \in Seq(Lockless(w)!Stores)
            BY <1>5, <3>1
        <3>4. y \in Lockless(w)!Stores /\ y.to = "tail"
            BY <1>1
        <3>5. PICK old : old = mem[i]
            OBVIOUS
        <3>6. Lockless(w)!SlotThrough(Append(b, y), old, i) = Lockless(w)!SlotThrough(b, old, i)
            BY <3>3, <3>4, LocklessSlotTail, SMT
        <3> QED
            BY <3>1, <3>2, <3>5, <3>6, Zenon
    <2>2. Lockless(w)!SlotThrough(Append(buffer, x), mem[i], i) =
             IF Lockless(w)!Slot(Lockless(w)!OwnTail) = i THEN given[p1]
                 ELSE Lockless(w)!SlotThrough(buffer, mem[i], i)
        BY <1>1, LocklessSlotItem
    <2>3. mem' = mem
        BY DEF Lockless!Store
    <2> QED
        BY <2>1, <2>2, <2>3 DEF Lockless!OwnSlot
<1> QED
    BY <1>3, <1>4, <1>6 DEF x, y

\* The steps that leave the shared variables and the tail alone.
LocklessRead(w, p) ==
    \/ Lockless(w)!CallSteal(p) \/ Lockless(w)!ReadHead(p) \/ Lockless(w)!ReadTail(p)
       \/ Lockless(w)!ReadItem(p) \/ Lockless(w)!Return(p)
    \/ p = p1 /\ (Lockless(w)!CallPut \/ Lockless(w)!CallGet \/ Lockless(w)!TestFull
       \/ Lockless(w)!Fence)
OthersWait(w, p) == \A q \in LocklessUsers(w) : q # p =>
    /\ at'[q] = at[q] /\ call'[q] = call[q] /\ given'[q] = given[q] /\ result'[q] = result[q]
    /\ myHead'[q] = myHead[q] /\ myTail'[q] = myTail[q]

LEMMA LocklessReadTypes ==
    ASSUME NEW w \in BOOLEAN, Lockless(w)!TypeInv, Lockless(w)!BufferInv,
           NEW p \in LocklessUsers(w), LocklessRead(w, p)
    PROVE  UNCHANGED Lockless(w)!sharedVars /\ Lockless(w)!TypeInv' /\ OthersWait(w, p)
<1>1. \A i \in 0..(LocklessSlots(w) - 1) : Lockless(w)!OwnSlot(i) \in Item \cup {NoItem}
    BY LocklessOwn
<1>2. Lockless(w)!OwnTail \in Int
    BY LocklessOwn
<1>3. Lockless(w)!Slot(myHead[p]) \in 0..(LocklessSlots(w) - 1)
    BY LocklessSlotType DEF Lockless!TypeInv
<1> USE LocklessFacts DEF Lockless!sharedVars, Lockless!callVars, Lockless!localVars,
    Lockless!Goto, Lockless!TypeInv, OthersWait, Lockless!OwnerLabels, Lockless!StealLabels
<1>4. CASE Lockless(w)!CallSteal(p)
    BY <1>4 DEF Lockless!CallSteal, Lockless!Call
<1>5. CASE Lockless(w)!ReadHead(p)
    BY <1>5 DEF Lockless!ReadHead
<1>6. CASE Lockless(w)!ReadTail(p)
    BY <1>6, <1>2 DEF Lockless!ReadTail
<1>7. CASE Lockless(w)!ReadItem(p)
    BY <1>7, <1>1, <1>3 DEF Lockless!ReadItem
<1>8. CASE Lockless(w)!Return(p)
    BY <1>8 DEF Lockless!Return
<1>9. CASE p = p1 /\ Lockless(w)!CallPut
    BY <1>9 DEF Lockless!CallPut, Lockless!Call
<1>10. CASE p = p1 /\ Lockless(w)!CallGet
    BY <1>10 DEF Lockless!CallGet, Lockless!Call
<1>11. CASE p = p1 /\ Lockless(w)!TestFull
    BY <1>11 DEF Lockless!TestFull
<1>12. CASE p = p1 /\ Lockless(w)!Fence
    BY <1>12 DEF Lockless!Fence
<1> QED
    BY <1>4, <1>5, <1>6, <1>7, <1>8, <1>9, <1>10, <1>11, <1>12 DEF LocklessRead

LEMMA LocklessReads ==
    ASSUME NEW w \in BOOLEAN, Lockless(w)!LocklessInv, NEW p \in LocklessUsers(w),
           LocklessRead(w, p)
    PROVE  Lockless(w)!LocklessInv'
<1> USE LocklessFacts DEF Lockless!LocklessInv
<1>1. UNCHANGED Lockless(w)!sharedVars /\ Lockless(w)!TypeInv' /\ OthersWait(w, p)
    BY LocklessReadTypes
<1>2. /\ mem' = mem /\ first' = first /\ last' = last /\ buffer' = buffer
    BY <1>1 DEF Lockless!sharedVars
<1>3. Lockless(w)!OwnTail' = Lockless(w)!OwnTail /\ \A i : Lockless(w)!OwnSlot(i)'
          = Lockless(w)!OwnSlot(i)
    BY <1>2, LocklessSameView
<1>4. Lockless(w)!AbsTail' = Lockless(w)!AbsTail
    BY <1>3 DEF Lockless!AbsTail, LocklessRead, Lockless!CallSteal, Lockless!CallPut,
       Lockless!CallGet, Lockless!Call, Lockless!ReadHead, Lockless!ReadTail, Lockless!ReadItem,
        Lockless!Return, Lockless!TestFull, Lockless!Fence, Lockless!Goto, Lockless!TypeInv
<1>5. Lockless(w)!BufferInv'
    <2>1. at'[p1] \in {"compare", "claim", "restore"} => buffer = <<>>
        BY DEF LocklessRead, Lockless!CallSteal, Lockless!CallPut, Lockless!CallGet,
           Lockless!Call, Lockless!ReadHead, Lockless!ReadTail, Lockless!ReadItem,
            Lockless!Return, Lockless!TestFull, Lockless!Fence, Lockless!Goto, Lockless!TypeInv,
            Lockless!BufferInv
    <2> QED
        BY <1>2, <1>3, <1>4, <2>1 DEF Lockless!BufferInv, Lockless!TailStore
<1>6. Lockless(w)!SizeInv'
    <2>0. Lockless(w)!OwnTail \in Int /\ first \in Int
        BY LocklessOwn
    <2>1. at'[p1] = "store" => Lockless(w)!OwnTail < first + LocklessSlots(w) - 1
        BY <2>0 DEF LocklessRead, Lockless!CallSteal, Lockless!CallPut, Lockless!CallGet,
           Lockless!Call, Lockless!ReadHead, Lockless!ReadTail, Lockless!ReadItem,
            Lockless!Return, Lockless!TestFull, Lockless!Fence, Lockless!Goto, Lockless!TypeInv,
            Lockless!SizeInv, Lockless!AbsTail
    <2>2. /\ at'[p1] \in {"fence", "compare", "claim"} => myTail'[p1] = Lockless(w)!OwnTail
          /\ at'[p1] = "claim" => at[p1] = "claim" /\ result'[p1] = result[p1]
                                     /\ myHead'[p1] = myHead[p1]
          /\ at'[p1] = "restore" => at[p1] = "restore"
        BY DEF LocklessRead, Lockless!CallSteal, Lockless!CallPut, Lockless!CallGet,
           Lockless!Call, Lockless!ReadHead, Lockless!ReadTail, Lockless!ReadItem,
            Lockless!Return, Lockless!TestFull, Lockless!Fence, Lockless!Goto, Lockless!TypeInv,
            Lockless!SizeInv, Lockless!localVars
    <2> QED
        BY <1>2, <1>3, <1>4, <2>1, <2>2 DEF Lockless!SizeInv
<1>7. Lockless(w)!ThiefInv'
    <2> SUFFICES ASSUME NEW q \in LocklessUsers(w)
                 PROVE  /\ at'[q] \in {"readTail", "readItem", "swap"} => myHead'[q] <= first
                        /\ Lockless(w)!HasHead(q)' => first < Lockless(w)!AbsTail
                        /\ Lockless(w)!HasHead(q)' /\ q # p1 =>
                              \A k \in DOMAIN buffer : buffer[k].to = "slot"
                                  => first < buffer[k].index
                        /\ Lockless(w)!HasHead(q)' /\ at'[q] = "swap" => result'[q]
                               = Lockless(w)!OwnSlot(Lockless(w)!Slot(first))
        BY <1>2, <1>3, <1>4 DEF Lockless!ThiefInv
    <2>1. CASE q # p
        BY <1>1, <1>2, <2>1 DEF OthersWait, Lockless!HasHead, Lockless!ThiefInv
    <2>2. CASE q = p /\ Lockless(w)!ReadHead(p)
        BY <1>2, <2>2 DEF Lockless!ReadHead, Lockless!HasHead, Lockless!Goto, Lockless!TypeInv
    <2>3. CASE q = p /\ Lockless(w)!ReadTail(p)
        <3>1. /\ at[p] = "readTail" /\ at'[p] = "readItem" /\ myHead'[p] = myHead[p]
              /\ myTail'[p] = IF p = p1 THEN Lockless(w)!OwnTail ELSE last
            BY <2>3 DEF Lockless!ReadTail, Lockless!Goto, Lockless!TypeInv
        <3>2. myHead'[p] <= first
            BY <3>1 DEF Lockless!ThiefInv
        <3>3. ASSUME Lockless(w)!HasHead(p)' PROVE first < Lockless(w)!AbsTail
            BY <1>2, <3>1, <3>3, LocklessOwn DEF Lockless!HasHead, Lockless!AbsTail,
               Lockless!BufferInv
        <3>4. ASSUME Lockless(w)!HasHead(p)', p # p1, NEW k \in DOMAIN buffer, buffer[k].to
                         = "slot"
              PROVE  first < buffer[k].index
            <4>1. first < last /\ last <= buffer[k].index
                BY <1>2, <3>1, <3>4 DEF Lockless!HasHead, Lockless!BufferInv, Lockless!TypeInv
            <4>2. first \in Int /\ last \in Int /\ buffer[k].index \in Int
                BY <3>4, LocklessOwn DEF Lockless!TypeInv, Lockless!BufferInv
            <4> QED
                BY <4>1, <4>2
        <3> QED
            BY <2>3, <3>1, <3>2, <3>3, <3>4
    <2>4. CASE q = p /\ Lockless(w)!ReadItem(p)
        <3>1. /\ at[p] = "readItem" /\ myHead'[p] = myHead[p] /\ myTail'[p] = myTail[p]
              /\ at'[p] = IF myTail[p] <= myHead[p] THEN "return" ELSE "swap"
              /\ result'[p] = IF myTail[p] <= myHead[p] THEN NoItem
                           ELSE IF p = p1 THEN Lockless(w)!OwnSlot(Lockless(w)!Slot(myHead[p]))
                           ELSE mem[Lockless(w)!Slot(myHead[p])]
            BY <2>4 DEF Lockless!ReadItem, Lockless!Goto, Lockless!TypeInv, Lockless!localVars
        <3>2. ASSUME Lockless(w)!HasHead(p)' PROVE at'[p] = "swap" /\ Lockless(w)!HasHead(p)
                     /\ myHead[p] = first
            BY <1>2, <3>1, <3>2 DEF Lockless!HasHead, Lockless!TypeInv
        <3>3. ASSUME Lockless(w)!HasHead(p)' PROVE result'[p]
                         = Lockless(w)!OwnSlot(Lockless(w)!Slot(first))
            <4>1. CASE p = p1
                BY <3>1, <3>2, <3>3, <4>1
            <4>2. CASE p # p1
                <5>1. mem[Lockless(w)!Slot(first)] = Lockless(w)!OwnSlot(Lockless(w)!Slot(first))
                    BY <3>2, <3>3, <4>2, LocklessSettled DEF Lockless!ThiefInv
                <5> QED
                    BY <3>1, <3>2, <3>3, <4>2, <5>1
            <4> QED
                BY <4>1, <4>2
        <3>4. Lockless(w)!HasHead(p)' => /\ first < Lockless(w)!AbsTail
                                         /\ p # p1 => \A k \in DOMAIN buffer :
                                               buffer[k].to = "slot" => first < buffer[k].index
            BY <3>2 DEF Lockless!ThiefInv
        <3>5. myHead'[p] <= first
            BY <3>1 DEF Lockless!ThiefInv
        <3> QED
            BY <2>4, <3>3, <3>4, <3>5
    <2>5. CASE q = p /\ ~Lockless(w)!ReadHead(p) /\ ~Lockless(w)!ReadTail(p)
          /\ ~Lockless(w)!ReadItem(p)
        <3>1. at'[p] \notin {"readTail", "readItem", "swap"}
            BY <2>5 DEF LocklessRead, Lockless!CallSteal, Lockless!CallPut, Lockless!CallGet,
               Lockless!Call, Lockless!Return, Lockless!TestFull, Lockless!Fence, Lockless!Goto,
               Lockless!TypeInv
        <3> QED
            BY <2>5, <3>1 DEF Lockless!HasHead
    <2> QED
        BY <2>1, <2>2, <2>3, <2>4, <2>5
<1>8. Lockless(w)!CallInv'
    <2> SUFFICES ASSUME NEW q \in LocklessUsers(w)
                 PROVE  /\ at'[q] \in Lockless(w)!OwnerLabels => q = p1
                        /\ at'[q] \in {"testFull", "store"} => call'[q] = "putTail"
                           /\ given'[q] \in Item
                        /\ at'[q] \in Lockless(w)!OwnerLabels \ {"testFull", "store"}
                               => call'[q] = "getTail"
                        /\ at'[q] \in Lockless(w)!StealLabels => call'[q] = "stealHead"
                        /\ at'[q] \in {"idle", "testFull"} => result'[q] = NoItem
        BY DEF Lockless!CallInv
    <2>1. CASE q # p
        BY <1>1, <2>1 DEF OthersWait, Lockless!CallInv
    <2>2. CASE q = p
        BY <2>2 DEF LocklessRead, Lockless!CallSteal, Lockless!CallPut, Lockless!CallGet,
           Lockless!Call, Lockless!ReadHead, Lockless!ReadTail, Lockless!ReadItem,
            Lockless!Return, Lockless!TestFull, Lockless!Fence, Lockless!Goto, Lockless!TypeInv,
            Lockless!CallInv, Lockless!OwnerLabels, Lockless!StealLabels, Lockless!callVars
    <2> QED
        BY <2>1, <2>2
<1> QED
    BY <1>1, <1>5, <1>6, <1>7, <1>8

\* A store reaches memory.
LEMMA LocklessDrain ==
    ASSUME NEW w \in BOOLEAN, Lockless(w)!LocklessInv, Lockless(w)!Drain
    PROVE  Lockless(w)!LocklessInv'
<1> USE LocklessFacts DEF Lockless!LocklessInv
<1>1. /\ Lockless(w)!OwnTail' = Lockless(w)!OwnTail
         /\ \A i \in 0..(LocklessSlots(w) - 1) : Lockless(w)!OwnSlot(i)' = Lockless(w)!OwnSlot(i)
      /\ Lockless(w)!TypeInv'
    BY LocklessDrainView
<1>2. /\ first' = first /\ at' = at /\ call' = call /\ given' = given /\ result' = result
      /\ myHead' = myHead /\ myTail' = myTail /\ buffer # <<>> /\ buffer' = Tail(buffer)
    BY DEF Lockless!Drain, Lockless!callVars, Lockless!localVars
<1>3. Lockless(w)!AbsTail' = Lockless(w)!AbsTail
    BY <1>1, <1>2 DEF Lockless!AbsTail
<1>4. /\ buffer \in Seq(Lockless(w)!Stores) /\ Len(buffer') = Len(buffer) - 1
         /\ Len(buffer) \in Nat \ {0}
      /\ DOMAIN buffer = 1..Len(buffer) /\ DOMAIN buffer' = 1..(Len(buffer) - 1)
      /\ \A k \in 1..(Len(buffer) - 1) : buffer'[k] = buffer[k + 1]
      /\ Head(buffer) = buffer[1]
    BY <1>2 DEF Lockless!TypeInv
<1>5. Lockless(w)!BufferInv'
    <2>1. at'[p1] \in {"compare", "claim", "restore"} => buffer' = <<>>
        BY <1>2 DEF Lockless!BufferInv
    <2>2. buffer' # <<>> => buffer'[Len(buffer')] = Lockless(w)!TailStore(Lockless(w)!OwnTail)
        <3>1. CASE Len(buffer) = 1
            <4>1. buffer' = <<>>
                BY <1>2, <1>4, <3>1
            <4> QED
                BY <4>1
        <3>2. CASE Len(buffer) # 1
            <4>1. Len(buffer) - 1 \in 1..(Len(buffer) - 1) /\ (Len(buffer) - 1) + 1 = Len(buffer)
                BY <1>4, <3>2
            <4> QED
                BY <1>2, <1>4, <4>1 DEF Lockless!BufferInv
        <3> QED
            BY <3>1, <3>2
    <2>3. last' <= Lockless(w)!AbsTail
        BY <1>4 DEF Lockless!Drain, Lockless!BufferInv
    <2>4. ASSUME NEW k \in DOMAIN buffer'
          PROVE  /\ buffer'[k].index <= Lockless(w)!AbsTail
                 /\ buffer'[k].to = "slot" =>
                      /\ buffer'[k].index \in first..(Lockless(w)!AbsTail - 1)
                      /\ last' <= buffer'[k].index
                      /\ \A j \in 1..k : buffer'[j].index <= buffer'[k].index
        <3>1. k + 1 \in DOMAIN buffer /\ buffer'[k] = buffer[k + 1]
              /\ \A j \in 1..k : j + 1 \in 1..(k + 1) /\ buffer'[j] = buffer[j + 1]
            BY <1>4
        <3>2. buffer'[k].to = "slot" => last' <= buffer'[k].index
            <4>1. 1 \in 1..(k + 1)
                BY <1>4
            <4> QED
                BY <1>4, <3>1, <4>1 DEF Lockless!BufferInv, Lockless!Drain
        <3> QED
            BY <3>1, <3>2 DEF Lockless!BufferInv
    <2> QED
        BY <1>1, <1>2, <1>3, <2>1, <2>2, <2>3, <2>4 DEF Lockless!BufferInv, Lockless!TailStore
<1>6. Lockless(w)!SizeInv'
    <2>1. at[p1] = "claim" => Lockless(w)!OwnSlot(Lockless(w)!Slot(Lockless(w)!OwnTail))'
              = Lockless(w)!OwnSlot(Lockless(w)!Slot(Lockless(w)!OwnTail))
        BY <1>2 DEF Lockless!BufferInv
    <2> QED
        BY <1>1, <1>2, <1>3, <2>1 DEF Lockless!SizeInv
<1>7. Lockless(w)!ThiefInv'
    <2>1. \A p : Lockless(w)!HasHead(p)' <=> Lockless(w)!HasHead(p)
        BY <1>2 DEF Lockless!HasHead
    <2>2. Lockless(w)!OwnSlot(Lockless(w)!Slot(first))'
              = Lockless(w)!OwnSlot(Lockless(w)!Slot(first))
        <3>0. first \in Int
            BY DEF Lockless!TypeInv
        <3>1. Lockless(w)!Slot(first) \in 0..(LocklessSlots(w) - 1)
            BY <3>0, LocklessSlotType
        <3>2. Lockless(w)!OwnSlot(Lockless(w)!Slot(first))'
                  = Lockless(w)!SlotThrough(buffer', mem'[Lockless(w)!Slot(first)], Lockless(w)!Slot(first))
            BY <1>2 DEF Lockless!OwnSlot, Lockless!Slot
        <3> QED
            BY <1>1, <3>1, <3>2 DEF Lockless!OwnSlot
    <2>3. \A k \in DOMAIN buffer' : k + 1 \in DOMAIN buffer /\ buffer'[k] = buffer[k + 1]
        BY <1>4
    <2>4. \A p \in LocklessUsers(w) : Lockless(w)!HasHead(p) /\ p # p1 =>
              \A k \in DOMAIN buffer' : buffer'[k].to = "slot" => first < buffer'[k].index
        BY <2>3 DEF Lockless!ThiefInv
    <2> QED
        BY <1>2, <1>3, <2>1, <2>2, <2>4 DEF Lockless!ThiefInv
<1>8. Lockless(w)!CallInv'
    BY <1>2 DEF Lockless!CallInv
<1> QED
    BY <1>1, <1>5, <1>6, <1>7, <1>8

\* What a step of the owner leaves to the others.
LEMMA LocklessOwnerTypes ==
    ASSUME NEW w \in BOOLEAN, Lockless(w)!TypeInv, Lockless(w)!BufferInv, Lockless(w)!CallInv,
           Lockless(w)!Store \/ Lockless(w)!Down \/ Lockless(w)!Compare \/ Lockless(w)!Claim
           \/ Lockless(w)!Restore
    PROVE  Lockless(w)!TypeInv' /\ OthersWait(w, p1) /\ call' = call /\ given' = given
           /\ mem' = mem
           /\ last' = last
<1>1. Lockless(w)!OwnTail \in Int
      /\ \A i \in 0..(LocklessSlots(w) - 1) : Lockless(w)!OwnSlot(i) \in Item \cup {NoItem}
    BY LocklessOwn
<1>2. Lockless(w)!Slot(myTail[p1]) \in 0..(LocklessSlots(w) - 1)
    BY LocklessSlotType, LocklessFacts DEF Lockless!TypeInv
<1>3. \A i \in Int : Lockless(w)!TailStore(i) \in Lockless(w)!Stores
    BY DEF Lockless!TailStore, Lockless!Stores
<1> USE LocklessFacts DEF Lockless!sharedVars, Lockless!callVars, Lockless!localVars,
    Lockless!Goto, OthersWait, Lockless!OwnerLabels, Lockless!StealLabels
<1>4. CASE Lockless(w)!Store
    <2>1. given[p1] \in Item
        BY <1>4 DEF Lockless!Store, Lockless!CallInv
    <2>2. buffer' \in Seq(Lockless(w)!Stores)
        BY <1>4, <2>1, LocklessStoreView
    <2> QED
        BY <1>4, <2>2 DEF Lockless!Store, Lockless!TypeInv
<1>5. CASE Lockless(w)!Down
    <2>1. buffer' \in Seq(Lockless(w)!Stores)
        BY <1>1, <1>3, <1>5 DEF Lockless!Down, Lockless!TypeInv
    <2>2. /\ mem' = mem /\ first' = first /\ last' = last /\ result' = result
          /\ call' = call /\ given' = given /\ myHead' = myHead /\ at' = [at EXCEPT ![p1]
                 = "fence"]
          /\ myTail' = [myTail EXCEPT ![p1] = Lockless(w)!OwnTail - 1]
        BY <1>5 DEF Lockless!Down
    <2>3. Lockless(w)!OwnTail - 1 \in Int
        BY <1>1
    <2> HIDE DEF Lockless!sharedVars, Lockless!callVars, Lockless!localVars, Lockless!Goto
    <2> QED
        BY <2>1, <2>2, <2>3 DEF Lockless!TypeInv
<1>6. CASE Lockless(w)!Compare
    <2>1. \E label \in {"restore", "return", "claim"}, x \in Item \cup {NoItem} :
              at' = [at EXCEPT ![p1] = label] /\ result' = [result EXCEPT ![p1] = x]
        <3>1. Lockless(w)!OwnSlot(Lockless(w)!Slot(myTail[p1])) \in Item \cup {NoItem}
            BY <1>1, <1>2
        <3> QED
            BY <1>6, <3>1 DEF Lockless!Compare
    <2>2. /\ mem' = mem /\ first' = first /\ last' = last /\ buffer' = buffer
          /\ call' = call /\ given' = given /\ myTail' = myTail
          /\ myHead' = [myHead EXCEPT ![p1] = first]
        BY <1>6 DEF Lockless!Compare
    <2> HIDE DEF Lockless!sharedVars, Lockless!callVars, Lockless!localVars, Lockless!Goto
    <2>3. PICK label \in {"restore", "return", "claim"}, x \in Item \cup {NoItem} :
              at' = [at EXCEPT ![p1] = label] /\ result' = [result EXCEPT ![p1] = x]
        BY <2>1
    <2>4. at' \in [LocklessUsers(w) -> Lockless(w)!OwnerLabels \cup Lockless(w)!StealLabels \cup {"idle", "return"}]
        BY <2>3 DEF Lockless!TypeInv
    <2>5. result' \in [LocklessUsers(w) -> Item \cup {NoItem}]
        BY <2>3 DEF Lockless!TypeInv
    <2>6. myHead' \in [LocklessUsers(w) -> Int]
        <3>1. first \in Int
            BY LocklessOwn
        <3> QED
            BY <2>2, <3>1 DEF Lockless!TypeInv
    <2> QED
        BY <2>2, <2>3, <2>4, <2>5, <2>6 DEF Lockless!TypeInv
<1>7. CASE Lockless(w)!Claim
    <2>1. \E x \in Item \cup {NoItem} :
              /\ at' = [at EXCEPT ![p1] = "restore"] /\ first' \in Nat
              /\ result' = [result EXCEPT ![p1] = x]
        <3>1. CASE first = myHead[p1]
            <4>1. first' \in Nat
                BY <1>7, <3>1 DEF Lockless!Claim, Lockless!TypeInv
            <4>2. result[p1] \in Item \cup {NoItem} /\ result = [result EXCEPT ![p1] = result[p1]]
                BY DEF Lockless!TypeInv
            <4> QED
                BY <1>7, <3>1, <4>1, <4>2 DEF Lockless!Claim
        <3>2. CASE first # myHead[p1]
            <4>1. first' \in Nat
                BY <1>7, <3>2 DEF Lockless!Claim, Lockless!TypeInv
            <4> QED
                BY <1>7, <3>2, <4>1 DEF Lockless!Claim
        <3> QED
            BY <3>1, <3>2
    <2>2. /\ mem' = mem /\ last' = last /\ buffer' = buffer
          /\ call' = call /\ given' = given /\ myTail' = myTail /\ myHead' = myHead
        BY <1>7 DEF Lockless!Claim
    <2> HIDE DEF Lockless!sharedVars, Lockless!callVars, Lockless!localVars, Lockless!Goto
    <2> QED
        BY <2>1, <2>2 DEF Lockless!TypeInv
<1>8. CASE Lockless(w)!Restore
    <2>1. buffer' \in Seq(Lockless(w)!Stores)
        BY <1>3, <1>8 DEF Lockless!Restore, Lockless!TypeInv
    <2> QED
        BY <1>8, <2>1 DEF Lockless!Restore, Lockless!TypeInv
<1> QED
    BY <1>4, <1>5, <1>6, <1>7, <1>8

\* The owner puts an item.
LEMMA LocklessStore ==
    ASSUME NEW w \in BOOLEAN, Lockless(w)!LocklessInv, Lockless(w)!Store
    PROVE  Lockless(w)!LocklessInv'
<1> USE LocklessFacts DEF Lockless!LocklessInv
<1>1. Lockless(w)!TypeInv' /\ OthersWait(w, p1) /\ call' = call /\ given' = given /\ mem' = mem
      /\ last' = last
    BY LocklessOwnerTypes
<1>2. /\ at[p1] = "store" /\ at'[p1] = "return" /\ first' = first
      /\ myHead' = myHead /\ myTail' = myTail /\ given[p1] \in Item
    BY DEF Lockless!Store, Lockless!Goto, Lockless!TypeInv, Lockless!localVars, Lockless!CallInv
<1>3. /\ Lockless(w)!OwnTail' = Lockless(w)!OwnTail + 1
      /\ \A i : Lockless(w)!OwnSlot(i)' = IF Lockless(w)!Slot(Lockless(w)!OwnTail) = i
             THEN given[p1] ELSE Lockless(w)!OwnSlot(i)
      /\ buffer' \in Seq(Lockless(w)!Stores) /\ buffer' # <<>>
      /\ buffer'[Len(buffer')] = Lockless(w)!TailStore(Lockless(w)!OwnTail + 1)
      /\ DOMAIN buffer' = 1..(Len(buffer) + 2) /\ DOMAIN buffer = 1..Len(buffer)
      /\ Len(buffer) \in Nat
      /\ \A k \in DOMAIN buffer : buffer'[k] = buffer[k]
      /\ buffer'[Len(buffer) + 1] = Lockless(w)!ItemStore(Lockless(w)!OwnTail, given[p1])
      /\ buffer'[Len(buffer) + 2] = Lockless(w)!TailStore(Lockless(w)!OwnTail + 1)
    BY <1>2, LocklessStoreView
<1>4. Lockless(w)!AbsTail = Lockless(w)!OwnTail /\ Lockless(w)!AbsTail'
          = Lockless(w)!OwnTail + 1 /\ Lockless(w)!OwnTail \in Int /\ first \in Int
      /\ last \in Int
    BY <1>2, <1>3, LocklessOwn DEF Lockless!AbsTail
<1>5. Lockless(w)!BufferInv'
    <2>1. ASSUME NEW k \in DOMAIN buffer'
          PROVE  /\ buffer'[k].index <= Lockless(w)!OwnTail + 1
                 /\ buffer'[k].to = "slot" =>
                      /\ buffer'[k].index \in first..Lockless(w)!OwnTail
                      /\ last <= buffer'[k].index
                      /\ \A j \in 1..k : buffer'[j].index <= buffer'[k].index
        <3>0. \A j \in DOMAIN buffer : buffer[j].index \in Int
              /\ buffer[j].index <= Lockless(w)!OwnTail
            <4>1. \A j \in DOMAIN buffer : buffer[j] \in Lockless(w)!Stores
                BY DEF Lockless!TypeInv
            <4> QED
                BY <1>4, <4>1 DEF Lockless!BufferInv, Lockless!Stores
        <3>1. CASE k \in DOMAIN buffer
            <4>1. \A j \in 1..k : j \in DOMAIN buffer
                BY <1>3, <3>1
            <4>2. buffer'[k] = buffer[k] /\ \A j \in 1..k : buffer'[j] = buffer[j]
                BY <1>3, <3>1, <4>1
            <4>3. /\ buffer[k].to = "slot" =>
                       /\ buffer[k].index \in first..(Lockless(w)!OwnTail - 1)
                       /\ last <= buffer[k].index
                       /\ \A j \in 1..k : buffer[j].index <= buffer[k].index
                  /\ buffer[k].index \in Int /\ buffer[k].index <= Lockless(w)!OwnTail
                BY <1>4, <3>0, <3>1 DEF Lockless!BufferInv
            <4>4. buffer[k].index <= Lockless(w)!OwnTail + 1
                BY <1>4, <4>3
            <4>5. buffer[k].to = "slot" => buffer[k].index \in first..Lockless(w)!OwnTail
                BY <1>4, <4>3
            <4> QED
                BY <4>2, <4>3, <4>4, <4>5
        <3>2. CASE k = Len(buffer) + 1
            <4>1. buffer'[k].index = Lockless(w)!OwnTail /\ buffer'[k].to = "slot"
                BY <1>3, <3>2 DEF Lockless!ItemStore
            <4>2. first <= Lockless(w)!OwnTail /\ last <= Lockless(w)!OwnTail
                BY <1>4 DEF Lockless!SizeInv, Lockless!BufferInv
            <4>3. \A j \in 1..k : buffer'[j].index <= Lockless(w)!OwnTail
                <5>1. ASSUME NEW j \in 1..k PROVE buffer'[j].index <= Lockless(w)!OwnTail
                    <6>1. CASE j = k
                        BY <1>4, <4>1, <6>1
                    <6>2. CASE j # k
                        <7>1. j \in DOMAIN buffer
                            BY <1>3, <3>2, <6>2
                        <7> QED
                            BY <1>3, <3>0, <7>1
                    <6> QED
                        BY <6>1, <6>2
                <5> QED
                    BY <5>1
            <4> QED
                BY <1>4, <4>1, <4>2, <4>3
        <3>3. CASE k = Len(buffer) + 2
            BY <1>3, <1>4, <3>3 DEF Lockless!TailStore
        <3> QED
            BY <1>3, <3>1, <3>2, <3>3
    <2>2. last <= Lockless(w)!OwnTail + 1
        BY <1>4 DEF Lockless!BufferInv
    <2>3. (Lockless(w)!AbsTail - 1)' = Lockless(w)!OwnTail
        BY <1>4
    <2> QED
        BY <1>1, <1>2, <1>3, <1>4, <2>1, <2>2, <2>3 DEF Lockless!BufferInv, Lockless!TailStore
<1>6. Lockless(w)!SizeInv'
    BY <1>2, <1>4 DEF Lockless!SizeInv
<1>7. Lockless(w)!ThiefInv'
    <2> SUFFICES ASSUME NEW q \in LocklessUsers(w)
                 PROVE  /\ at'[q] \in {"readTail", "readItem", "swap"} => myHead'[q] <= first
                        /\ Lockless(w)!HasHead(q)' => first < Lockless(w)!AbsTail'
                        /\ Lockless(w)!HasHead(q)' /\ q # p1 =>
                              \A k \in DOMAIN buffer' :
                                 buffer'[k].to = "slot" => first < buffer'[k].index
                        /\ Lockless(w)!HasHead(q)' /\ at'[q] = "swap" => result'[q]
                               = Lockless(w)!OwnSlot(Lockless(w)!Slot(first))'
        BY <1>2 DEF Lockless!ThiefInv
    <2>1. CASE q = p1
        BY <1>2, <2>1 DEF Lockless!HasHead
    <2>2. CASE q # p1
        <3>1. /\ at'[q] = at[q] /\ myHead'[q] = myHead[q] /\ result'[q] = result[q]
              /\ Lockless(w)!HasHead(q)' <=> Lockless(w)!HasHead(q)
            BY <1>1, <1>2, <2>2 DEF OthersWait, Lockless!HasHead
        <3>2. ASSUME Lockless(w)!HasHead(q) PROVE first < Lockless(w)!AbsTail
            BY <3>2 DEF Lockless!ThiefInv
        <3>3. ASSUME Lockless(w)!HasHead(q), NEW k \in DOMAIN buffer', buffer'[k].to = "slot"
              PROVE  first < buffer'[k].index
            <4>1. CASE k \in DOMAIN buffer
                BY <1>3, <2>2, <3>3, <4>1 DEF Lockless!ThiefInv
            <4>2. CASE k = Len(buffer) + 1
                BY <1>3, <1>4, <3>2, <3>3, <4>2 DEF Lockless!ItemStore
            <4>3. CASE k = Len(buffer) + 2
                BY <1>3, <3>3, <4>3 DEF Lockless!TailStore
            <4> QED
                BY <1>3, <4>1, <4>2, <4>3
        <3>4. ASSUME Lockless(w)!HasHead(q) PROVE Lockless(w)!OwnSlot(Lockless(w)!Slot(first))' = Lockless(w)!OwnSlot(Lockless(w)!Slot(first))
            <4>1. first < Lockless(w)!OwnTail /\ Lockless(w)!OwnTail < first + LocklessSlots(w)
                BY <1>2, <1>4, <3>2, <3>4 DEF Lockless!SizeInv
            <4>2. Lockless(w)!Slot(first) # Lockless(w)!Slot(Lockless(w)!OwnTail)
                BY <1>4, <4>1, LocklessSlotsDiffer
            <4>3. Lockless(w)!Slot(first)' = Lockless(w)!Slot(first)
                BY <1>2 DEF Lockless!Slot
            <4>4. Lockless(w)!OwnSlot(Lockless(w)!Slot(first))'
                      = Lockless(w)!SlotThrough(buffer', mem'[Lockless(w)!Slot(first)], Lockless(w)!Slot(first))
                BY <4>3 DEF Lockless!OwnSlot
            <4>5. Lockless(w)!SlotThrough(buffer', mem'[Lockless(w)!Slot(first)], Lockless(w)!Slot(first)) = Lockless(w)!OwnSlot(Lockless(w)!Slot(first))
                BY <1>3, <4>2 DEF Lockless!OwnSlot
            <4> QED
                BY <4>4, <4>5
        <3> QED
            BY <1>4, <3>1, <3>2, <3>3, <3>4 DEF Lockless!ThiefInv
    <2> QED
        BY <2>1, <2>2
<1>8. Lockless(w)!CallInv'
    BY <1>1, <1>2 DEF Lockless!CallInv, OthersWait, Lockless!OwnerLabels, Lockless!StealLabels
<1> QED
    BY <1>1, <1>5, <1>6, <1>7, <1>8

\* A get of the owner stores the smaller tail, and sets it right again in the end.
LEMMA LocklessTail ==
    ASSUME NEW w \in BOOLEAN, Lockless(w)!LocklessInv, Lockless(w)!Down \/ Lockless(w)!Restore
    PROVE  Lockless(w)!LocklessInv' /\ Lockless(w)!AbsTail' = Lockless(w)!AbsTail
           /\ \A i : Lockless(w)!OwnSlot(i)' = Lockless(w)!OwnSlot(i)
<1> USE LocklessFacts DEF Lockless!LocklessInv
<1>1. Lockless(w)!TypeInv' /\ OthersWait(w, p1) /\ call' = call /\ given' = given /\ mem' = mem
      /\ last' = last
    BY LocklessOwnerTypes
<1>2. Lockless(w)!OwnTail \in Int /\ Lockless(w)!AbsTail \in Int /\ first \in Int
    BY LocklessOwn
<1>3. first' = first /\ result' = result
    BY DEF Lockless!Down, Lockless!Restore
<1>4. \E t \in Int : /\ buffer' = Append(buffer, Lockless(w)!TailStore(t))
                        /\ t <= Lockless(w)!AbsTail
                     /\ at[p1] = "down" => /\ t = Lockless(w)!OwnTail - 1 /\ at'[p1] = "fence"
                                           /\ myTail'[p1] = t
                     /\ at[p1] = "restore" => t = first /\ at'[p1] = "return"
                     /\ at[p1] \in {"down", "restore"}
    <2>1. CASE Lockless(w)!Down
        <3>1. Lockless(w)!AbsTail = Lockless(w)!OwnTail
            BY <2>1 DEF Lockless!Down, Lockless!AbsTail
        <3>2. Lockless(w)!OwnTail - 1 \in Int /\ Lockless(w)!OwnTail - 1 <= Lockless(w)!AbsTail
            BY <1>2, <3>1
        <3>3. at[p1] = "down" /\ at'[p1] = "fence" /\ myTail'[p1] = Lockless(w)!OwnTail - 1
              /\ buffer' = Append(buffer, Lockless(w)!TailStore(Lockless(w)!OwnTail - 1))
            BY <2>1 DEF Lockless!Down, Lockless!Goto, Lockless!TypeInv
        <3> QED
            BY <3>2, <3>3
    <2>2. CASE Lockless(w)!Restore
        BY <1>2, <2>2 DEF Lockless!Restore, Lockless!Goto, Lockless!TypeInv, Lockless!SizeInv
    <2> QED
        BY <2>1, <2>2
<1>5. PICK t \in Int : /\ buffer' = Append(buffer, Lockless(w)!TailStore(t))
                          /\ t <= Lockless(w)!AbsTail
                       /\ at[p1] = "down" => /\ t = Lockless(w)!OwnTail - 1 /\ at'[p1] = "fence"
                                             /\ myTail'[p1] = t
                       /\ at[p1] = "restore" => t = first /\ at'[p1] = "return"
                       /\ at[p1] \in {"down", "restore"}
    BY <1>4
<1>6. /\ Lockless(w)!OwnTail' = t /\ \A i : Lockless(w)!OwnSlot(i)' = Lockless(w)!OwnSlot(i)
      /\ buffer' \in Seq(Lockless(w)!Stores) /\ buffer' # <<>> /\ buffer'[Len(buffer')]
             = Lockless(w)!TailStore(t)
      /\ DOMAIN buffer' = 1..(Len(buffer) + 1) /\ DOMAIN buffer = 1..Len(buffer)
      /\ Len(buffer) \in Nat
      /\ \A k \in DOMAIN buffer : buffer'[k] = buffer[k]
      /\ buffer'[Len(buffer) + 1] = Lockless(w)!TailStore(t)
    BY <1>1, <1>5, LocklessTailView
<1>7. Lockless(w)!AbsTail' = Lockless(w)!AbsTail
    <2>1. CASE at[p1] = "down"
        BY <1>2, <1>5, <1>6, <2>1 DEF Lockless!AbsTail
    <2>2. CASE at[p1] = "restore"
        BY <1>2, <1>5, <1>6, <2>2 DEF Lockless!AbsTail, Lockless!SizeInv
    <2> QED
        BY <1>5, <2>1, <2>2
<1>8. ASSUME NEW k \in DOMAIN buffer', buffer'[k].to = "slot"
      PROVE  k \in DOMAIN buffer /\ buffer'[k] = buffer[k]
             /\ \A j \in 1..k : j \in DOMAIN buffer /\ buffer'[j] = buffer[j]
    <2>1. k # Len(buffer) + 1
        BY <1>6, <1>8 DEF Lockless!TailStore
    <2>2. k \in DOMAIN buffer
        BY <1>6, <2>1
    <2>3. \A j \in 1..k : j \in DOMAIN buffer
        BY <1>6, <2>2
    <2> QED
        BY <1>6, <2>2, <2>3
<1>9. Lockless(w)!BufferInv'
    <2>1. ASSUME NEW k \in DOMAIN buffer' PROVE buffer'[k].index <= Lockless(w)!AbsTail
        <3>1. CASE k \in DOMAIN buffer
            BY <1>6, <3>1 DEF Lockless!BufferInv
        <3>2. CASE k = Len(buffer) + 1
            BY <1>5, <1>6, <3>2 DEF Lockless!TailStore
        <3> QED
            BY <1>6, <3>1, <3>2
    <2>2. ASSUME NEW k \in DOMAIN buffer', buffer'[k].to = "slot"
          PROVE  /\ buffer'[k].index \in first..(Lockless(w)!AbsTail - 1)
                 /\ last <= buffer'[k].index
                 /\ \A j \in 1..k : buffer'[j].index <= buffer'[k].index
        BY <1>8, <2>2 DEF Lockless!BufferInv
    <2>3. at'[p1] \notin {"compare", "claim", "restore"}
        BY <1>5
    <2>4. last <= Lockless(w)!AbsTail
        BY DEF Lockless!BufferInv
    <2>5. (Lockless(w)!AbsTail - 1)' = Lockless(w)!AbsTail - 1
        BY <1>7
    <2> QED
        BY <1>1, <1>3, <1>6, <1>7, <2>1, <2>2, <2>3, <2>4, <2>5 DEF Lockless!BufferInv,
           Lockless!TailStore
<1>10. Lockless(w)!SizeInv'
    BY <1>3, <1>5, <1>6, <1>7 DEF Lockless!SizeInv
<1>11. Lockless(w)!ThiefInv'
    <2> SUFFICES ASSUME NEW q \in LocklessUsers(w)
                 PROVE  /\ at'[q] \in {"readTail", "readItem", "swap"} => myHead'[q] <= first
                        /\ Lockless(w)!HasHead(q)' => first < Lockless(w)!AbsTail'
                        /\ Lockless(w)!HasHead(q)' /\ q # p1 =>
                              \A k \in DOMAIN buffer' :
                                 buffer'[k].to = "slot" => first < buffer'[k].index
                        /\ Lockless(w)!HasHead(q)' /\ at'[q] = "swap" => result'[q]
                               = Lockless(w)!OwnSlot(Lockless(w)!Slot(first))'
        BY <1>3 DEF Lockless!ThiefInv
    <2>1. CASE q = p1
        BY <1>5, <2>1 DEF Lockless!HasHead
    <2>2. CASE q # p1
        <3>1. /\ at'[q] = at[q] /\ myHead'[q] = myHead[q]
              /\ Lockless(w)!HasHead(q)' <=> Lockless(w)!HasHead(q)
            BY <1>1, <1>3, <2>2 DEF OthersWait, Lockless!HasHead
        <3>2. Lockless(w)!OwnSlot(Lockless(w)!Slot(first))'
                  = Lockless(w)!OwnSlot(Lockless(w)!Slot(first))
            <4>1. Lockless(w)!Slot(first)' = Lockless(w)!Slot(first)
                BY <1>3 DEF Lockless!Slot
            <4>2. Lockless(w)!OwnSlot(Lockless(w)!Slot(first))'
                      = Lockless(w)!SlotThrough(buffer', mem'[Lockless(w)!Slot(first)], Lockless(w)!Slot(first))
                BY <4>1 DEF Lockless!OwnSlot
            <4>3. Lockless(w)!SlotThrough(buffer', mem'[Lockless(w)!Slot(first)], Lockless(w)!Slot(first)) = Lockless(w)!OwnSlot(Lockless(w)!Slot(first))
                BY <1>6 DEF Lockless!OwnSlot
            <4> QED
                BY <4>2, <4>3
        <3>3. Lockless(w)!HasHead(q) => \A k \in DOMAIN buffer' :
                                 buffer'[k].to = "slot" => first < buffer'[k].index
            BY <1>8, <2>2 DEF Lockless!ThiefInv
        <3> QED
            BY <1>3, <1>7, <3>1, <3>2, <3>3 DEF Lockless!ThiefInv
    <2> QED
        BY <2>1, <2>2
<1>12. Lockless(w)!CallInv'
    BY <1>1, <1>5 DEF Lockless!CallInv, OthersWait, Lockless!OwnerLabels, Lockless!StealLabels
<1> QED
    BY <1>1, <1>6, <1>7, <1>9, <1>10, <1>11, <1>12

\* The get of the owner reads head_index.
LEMMA LocklessCompare ==
    ASSUME NEW w \in BOOLEAN, Lockless(w)!LocklessInv, Lockless(w)!Compare
    PROVE  Lockless(w)!LocklessInv'
<1> USE LocklessFacts DEF Lockless!LocklessInv
<1>1. Lockless(w)!TypeInv' /\ OthersWait(w, p1) /\ call' = call /\ given' = given /\ mem' = mem
      /\ last' = last
    BY LocklessOwnerTypes
<1>2. /\ buffer' = buffer /\ buffer = <<>> /\ first' = first /\ myTail' = myTail
      /\ at[p1] = "compare" /\ myTail[p1] = Lockless(w)!OwnTail
    BY DEF Lockless!Compare, Lockless!sharedVars, Lockless!BufferInv, Lockless!SizeInv
<1>3. Lockless(w)!OwnTail' = Lockless(w)!OwnTail /\ \A i : Lockless(w)!OwnSlot(i)'
          = Lockless(w)!OwnSlot(i)
    BY <1>1, <1>2, LocklessSameView
<1>4. Lockless(w)!OwnTail \in Int /\ first \in Int /\ Lockless(w)!AbsTail
          = Lockless(w)!OwnTail + 1 /\ last = Lockless(w)!OwnTail
    BY <1>2, LocklessOwn DEF Lockless!AbsTail
<1>5. /\ myHead'[p1] = first
      /\ result'[p1] = IF Lockless(w)!OwnTail < first THEN NoItem
             ELSE Lockless(w)!OwnSlot(Lockless(w)!Slot(Lockless(w)!OwnTail))
      /\ at'[p1] = IF Lockless(w)!OwnTail < first THEN "restore"
                      ELSE IF Lockless(w)!OwnTail > first THEN "return" ELSE "claim"
    <2>1. (Lockless(w)!OwnTail - first < 0 <=> Lockless(w)!OwnTail < first)
          /\ (Lockless(w)!OwnTail - first > 0 <=> Lockless(w)!OwnTail > first)
        BY <1>4
    <2>2. /\ myHead' = [myHead EXCEPT ![p1] = first]
          /\ result' = [result EXCEPT ![p1] = IF Lockless(w)!OwnTail - first < 0 THEN NoItem
                                          ELSE Lockless(w)!OwnSlot(Lockless(w)!Slot(Lockless(w)!OwnTail))]
          /\ at' = [at EXCEPT ![p1] = IF Lockless(w)!OwnTail - first < 0 THEN "restore"
                                         ELSE IF Lockless(w)!OwnTail - first > 0
                                             THEN "return" ELSE "claim"]
        BY <1>2 DEF Lockless!Compare, Lockless!Goto
    <2>3. DOMAIN myHead = LocklessUsers(w) /\ DOMAIN result = LocklessUsers(w) /\ DOMAIN at
              = LocklessUsers(w) /\ p1 \in LocklessUsers(w)
        BY LocklessFacts DEF Lockless!TypeInv
    <2> QED
        BY <2>1, <2>2, <2>3
<1>6. Lockless(w)!AbsTail' = IF Lockless(w)!OwnTail > first THEN Lockless(w)!OwnTail
          ELSE Lockless(w)!OwnTail + 1
    BY <1>3, <1>4, <1>5 DEF Lockless!AbsTail
<1>7. Lockless(w)!BufferInv'
    BY <1>1, <1>2, <1>4, <1>6 DEF Lockless!BufferInv
<1>8. Lockless(w)!SizeInv'
    <2>1. at'[p1] = "claim" => result'[p1]
              = Lockless(w)!OwnSlot(Lockless(w)!Slot(Lockless(w)!OwnTail))'
        <3>1. Lockless(w)!OwnSlot(Lockless(w)!Slot(Lockless(w)!OwnTail))'
                  = Lockless(w)!OwnSlot(Lockless(w)!Slot(Lockless(w)!OwnTail))
            BY <1>1, <1>2, <1>3 DEF Lockless!OwnSlot, Lockless!Slot
        <3> QED
            BY <1>4, <1>5, <3>1
    <2> QED
        BY <1>2, <1>3, <1>4, <1>5, <1>6, <2>1 DEF Lockless!SizeInv
<1>9. Lockless(w)!ThiefInv'
    <2> SUFFICES ASSUME NEW q \in LocklessUsers(w)
                 PROVE  /\ at'[q] \in {"readTail", "readItem", "swap"} => myHead'[q] <= first
                        /\ Lockless(w)!HasHead(q)' => first < Lockless(w)!AbsTail'
                        /\ Lockless(w)!HasHead(q)' /\ at'[q] = "swap" => result'[q]
                               = Lockless(w)!OwnSlot(Lockless(w)!Slot(first))'
        BY <1>2 DEF Lockless!ThiefInv
    <2>1. CASE q = p1
        BY <1>5, <2>1 DEF Lockless!HasHead
    <2>2. CASE q # p1
        <3>1. /\ at'[q] = at[q] /\ myHead'[q] = myHead[q] /\ result'[q] = result[q]
              /\ Lockless(w)!HasHead(q)' <=> Lockless(w)!HasHead(q)
            BY <1>1, <1>2, <2>2 DEF OthersWait, Lockless!HasHead
        <3>2. Lockless(w)!OwnSlot(Lockless(w)!Slot(first))'
                  = Lockless(w)!OwnSlot(Lockless(w)!Slot(first))
            BY <1>1, <1>2 DEF Lockless!OwnSlot, Lockless!Slot
        <3>3. Lockless(w)!HasHead(q) => first < Lockless(w)!AbsTail
            BY DEF Lockless!ThiefInv
        <3>4. Lockless(w)!HasHead(q) => first < Lockless(w)!AbsTail'
            BY <1>4, <1>6, <3>3
        <3> QED
            BY <3>1, <3>2, <3>4 DEF Lockless!ThiefInv
    <2> QED
        BY <2>1, <2>2
<1>10. Lockless(w)!CallInv'
    BY <1>1, <1>2, <1>5 DEF Lockless!CallInv, OthersWait, Lockless!OwnerLabels,
       Lockless!StealLabels
<1> QED
    BY <1>1, <1>7, <1>8, <1>9, <1>10

\* The owner takes the last item, unless a thief has.
LEMMA LocklessClaim ==
    ASSUME NEW w \in BOOLEAN, Lockless(w)!LocklessInv, Lockless(w)!Claim
    PROVE  Lockless(w)!LocklessInv' /\ Lockless(w)!AbsTail' = Lockless(w)!AbsTail /\ first'
               = Lockless(w)!AbsTail
           /\ (first' = first \/ first = Lockless(w)!OwnTail)
<1> USE LocklessFacts DEF Lockless!LocklessInv
<1>1. Lockless(w)!TypeInv' /\ OthersWait(w, p1) /\ call' = call /\ given' = given /\ mem' = mem
      /\ last' = last
    BY LocklessOwnerTypes
<1>2. /\ buffer' = buffer /\ buffer = <<>> /\ myTail' = myTail /\ myHead' = myHead
      /\ at[p1] = "claim" /\ at'[p1] = "restore"
      /\ myHead[p1] = Lockless(w)!OwnTail /\ Lockless(w)!OwnTail <= first
    BY DEF Lockless!Claim, Lockless!localVars, Lockless!Goto, Lockless!TypeInv, Lockless!SizeInv
<1>3. Lockless(w)!OwnTail' = Lockless(w)!OwnTail /\ \A i : Lockless(w)!OwnSlot(i)'
          = Lockless(w)!OwnSlot(i)
    BY <1>1, <1>2, LocklessSameView
<1>4. Lockless(w)!OwnTail \in Int /\ first \in Int /\ Lockless(w)!AbsTail
          = Lockless(w)!OwnTail + 1 /\ Lockless(w)!AbsTail' = Lockless(w)!AbsTail
      /\ first <= Lockless(w)!AbsTail
    BY <1>2, <1>3, LocklessOwn DEF Lockless!AbsTail, Lockless!SizeInv
<1>5. /\ first' = IF first = Lockless(w)!OwnTail THEN first + 1 ELSE first
      /\ first' = Lockless(w)!AbsTail
    BY <1>2, <1>4 DEF Lockless!Claim
<1>6. Lockless(w)!BufferInv'
    BY <1>1, <1>2, <1>4 DEF Lockless!BufferInv
<1>7. Lockless(w)!SizeInv'
    BY <1>2, <1>4, <1>5 DEF Lockless!SizeInv
<1>8. Lockless(w)!ThiefInv'
    <2> SUFFICES ASSUME NEW q \in LocklessUsers(w)
                 PROVE  /\ at'[q] \in {"readTail", "readItem", "swap"} => myHead'[q] <= first'
                        /\ ~Lockless(w)!HasHead(q)'
        BY DEF Lockless!ThiefInv
    <2>1. CASE q = p1
        BY <1>2, <2>1 DEF Lockless!HasHead
    <2>2. CASE q # p1
        <3>1. at'[q] = at[q] /\ myHead'[q] = myHead[q] /\ myHead[q] \in Int /\ myTail'[q]
                  = myTail[q]
            BY <1>1, <2>2 DEF OthersWait, Lockless!TypeInv
        <3>2. at'[q] \in {"readTail", "readItem", "swap"} => myHead'[q] <= first
            BY <3>1 DEF Lockless!ThiefInv
        <3>3. ASSUME Lockless(w)!HasHead(q)' PROVE FALSE
            <4>1. myHead[q] = first' /\ myHead[q] <= first
                BY <3>1, <3>2, <3>3 DEF Lockless!HasHead
            <4>2. first' = first
                BY <1>4, <1>5, <4>1
            <4>3. Lockless(w)!HasHead(q)
                BY <3>1, <3>3, <4>2 DEF Lockless!HasHead
            <4>4. first < Lockless(w)!AbsTail
                BY <4>3 DEF Lockless!ThiefInv
            <4> QED
                BY <1>4, <1>5, <4>2, <4>4
        <3> QED
            BY <1>4, <1>5, <3>1, <3>2, <3>3
    <2> QED
        BY <2>1, <2>2
<1>9. Lockless(w)!CallInv'
    BY <1>1, <1>2 DEF Lockless!CallInv, OthersWait, Lockless!OwnerLabels, Lockless!StealLabels
<1> QED
    BY <1>1, <1>4, <1>5, <1>6, <1>7, <1>8, <1>9

\* A thief takes the head, unless somebody has.
LEMMA LocklessSwap ==
    ASSUME NEW w \in BOOLEAN, Lockless(w)!LocklessInv, NEW p \in LocklessUsers(w),
           Lockless(w)!Swap(p)
    PROVE  Lockless(w)!LocklessInv' /\ Lockless(w)!AbsTail' = Lockless(w)!AbsTail
           /\ \A i : Lockless(w)!OwnSlot(i)' = Lockless(w)!OwnSlot(i)
<1> USE LocklessFacts DEF Lockless!LocklessInv
<1>1. /\ mem' = mem /\ last' = last /\ buffer' = buffer /\ call' = call /\ given' = given
      /\ myTail' = myTail /\ myHead' = myHead /\ at[p] = "swap" /\ at'[p] = "return"
      /\ first' = (IF first = myHead[p] THEN first + 1 ELSE first)
      /\ p = p1 => buffer = <<>>
    BY DEF Lockless!Swap, Lockless!Goto, Lockless!TypeInv, Lockless!callVars, Lockless!localVars
<1>2. \A q \in LocklessUsers(w) : q # p => at'[q] = at[q] /\ result'[q] = result[q]
    BY DEF Lockless!Swap, Lockless!Goto, Lockless!TypeInv
<1>3. Lockless(w)!TypeInv'
    <2>1. CASE first = myHead[p]
        BY <2>1 DEF Lockless!Swap, Lockless!Goto, Lockless!TypeInv, Lockless!callVars,
           Lockless!localVars
    <2>2. CASE first # myHead[p]
        BY <2>2 DEF Lockless!Swap, Lockless!Goto, Lockless!TypeInv, Lockless!callVars,
           Lockless!localVars
    <2> QED
        BY <2>1, <2>2
<1>4. Lockless(w)!OwnTail' = Lockless(w)!OwnTail /\ \A i : Lockless(w)!OwnSlot(i)'
          = Lockless(w)!OwnSlot(i)
    BY <1>1, LocklessSameView
<1>5. Lockless(w)!AbsTail' = Lockless(w)!AbsTail /\ Lockless(w)!AbsTail \in Int
      /\ Lockless(w)!OwnTail \in Int /\ first \in Int
    BY <1>1, <1>2, <1>4, LocklessOwn DEF Lockless!AbsTail
<1>6. first = myHead[p] =>
          /\ first < Lockless(w)!AbsTail
          /\ \A k \in DOMAIN buffer : buffer[k].to = "slot" => first < buffer[k].index
    BY <1>1 DEF Lockless!ThiefInv, Lockless!HasHead
<1>7. Lockless(w)!BufferInv'
    <2>1. ASSUME NEW k \in DOMAIN buffer, buffer[k].to = "slot"
          PROVE  buffer[k].index \in first'..(Lockless(w)!AbsTail - 1)
        <3>1. buffer[k].index \in first..(Lockless(w)!AbsTail - 1)
            BY <2>1 DEF Lockless!BufferInv
        <3> QED
            BY <1>1, <1>5, <1>6, <2>1, <3>1
    <2>2. at'[p1] \in {"compare", "claim", "restore"} => buffer = <<>>
        BY <1>1, <1>2 DEF Lockless!BufferInv
    <2>3. (Lockless(w)!AbsTail - 1)' = Lockless(w)!AbsTail - 1
        BY <1>5
    <2> QED
        BY <1>1, <1>4, <1>5, <2>1, <2>2, <2>3 DEF Lockless!BufferInv, Lockless!TailStore
<1>8. Lockless(w)!SizeInv'
    <2>1. /\ at'[p1] \in {"store", "fence", "compare", "claim", "restore"} =>
                 p1 # p /\ at'[p1] = at[p1] /\ result'[p1] = result[p1]
        BY <1>1, <1>2
    <2>2. first' <= Lockless(w)!AbsTail /\ Lockless(w)!AbsTail <= first' + LocklessSlots(w) - 1
        BY <1>1, <1>5, <1>6 DEF Lockless!SizeInv
    <2>3. at'[p1] = "store" => Lockless(w)!OwnTail < first' + LocklessSlots(w) - 1
        BY <1>1, <1>5, <2>1 DEF Lockless!SizeInv
    <2>4. at'[p1] = "claim" => /\ myHead'[p1] = Lockless(w)!OwnTail
          /\ Lockless(w)!OwnTail <= first'
                               /\ result'[p1] = Lockless(w)!OwnSlot(Lockless(w)!Slot(Lockless(w)!OwnTail))
        BY <1>1, <1>5, <2>1 DEF Lockless!SizeInv
    <2>5. at'[p1] = "restore" => first' = Lockless(w)!AbsTail
        BY <1>1, <1>5, <1>6, <2>1 DEF Lockless!SizeInv
    <2>6. Lockless(w)!OwnSlot(Lockless(w)!Slot(Lockless(w)!OwnTail))'
              = Lockless(w)!OwnSlot(Lockless(w)!Slot(Lockless(w)!OwnTail))
        BY <1>1, <1>4 DEF Lockless!OwnSlot, Lockless!Slot
    <2> QED
        BY <1>1, <1>4, <1>5, <2>1, <2>2, <2>3, <2>4, <2>5, <2>6 DEF Lockless!SizeInv
<1>9. Lockless(w)!ThiefInv'
    <2> SUFFICES ASSUME NEW q \in LocklessUsers(w)
                 PROVE  /\ at'[q] \in {"readTail", "readItem", "swap"} => myHead'[q] <= first'
                        /\ Lockless(w)!HasHead(q)' => first' < Lockless(w)!AbsTail'
                        /\ Lockless(w)!HasHead(q)' /\ q # p1 =>
                              \A k \in DOMAIN buffer' :
                                 buffer'[k].to = "slot" => first' < buffer'[k].index
                        /\ Lockless(w)!HasHead(q)' /\ at'[q] = "swap" => result'[q]
                               = Lockless(w)!OwnSlot(Lockless(w)!Slot(first))'
        BY DEF Lockless!ThiefInv
    <2>1. CASE q = p
        BY <1>1, <2>1 DEF Lockless!HasHead
    <2>2. CASE q # p
        <3>1. /\ at'[q] = at[q] /\ myHead'[q] = myHead[q] /\ result'[q] = result[q]
                 /\ myHead[q] \in Int
              /\ myTail'[q] = myTail[q]
            BY <1>1, <1>2, <2>2 DEF Lockless!TypeInv
        <3>2. at'[q] \in {"readTail", "readItem", "swap"} => myHead'[q] <= first
            BY <3>1 DEF Lockless!ThiefInv
        <3>3. Lockless(w)!HasHead(q)' => first' = first /\ Lockless(w)!HasHead(q)
            BY <1>1, <1>5, <3>1, <3>2 DEF Lockless!HasHead
        <3>4. first' = first => Lockless(w)!OwnSlot(Lockless(w)!Slot(first))'
                  = Lockless(w)!OwnSlot(Lockless(w)!Slot(first))
            BY <1>1, <1>4 DEF Lockless!OwnSlot, Lockless!Slot
        <3>5. at'[q] \in {"readTail", "readItem", "swap"} => myHead'[q] <= first'
            BY <1>1, <1>5, <3>1, <3>2
        <3> QED
            BY <1>1, <1>5, <3>1, <3>3, <3>4, <3>5 DEF Lockless!ThiefInv
    <2> QED
        BY <2>1, <2>2
<1>10. Lockless(w)!CallInv'
    BY <1>1, <1>2 DEF Lockless!CallInv, Lockless!OwnerLabels, Lockless!StealLabels
<1> QED
    BY <1>3, <1>4, <1>5, <1>7, <1>8, <1>9, <1>10

LEMMA LocklessStart ==
    ASSUME NEW w \in BOOLEAN
    PROVE  Lockless(w)!Init => Lockless(w)!LocklessInv
<1> SUFFICES ASSUME Lockless(w)!Init PROVE Lockless(w)!LocklessInv
    OBVIOUS
<1> USE LocklessFacts
<1>1. Lockless(w)!TypeInv
    <2>1. buffer \in Seq(Lockless(w)!Stores)
        BY DEF Lockless!Init
    <2> QED
        BY <2>1 DEF Lockless!Init, Lockless!TypeInv
<1>2. Lockless(w)!OwnTail = 0 /\ Lockless(w)!AbsTail = 0
    <2>1. buffer = <<>> /\ at[p1] = "idle" /\ last = 0
        BY DEF Lockless!Init
    <2>2. Lockless(w)!OwnTail = 0
        BY <1>1, <2>1, LocklessTailRead DEF Lockless!OwnTail, Lockless!TypeInv
    <2> QED
        BY <2>1, <2>2 DEF Lockless!AbsTail
<1>3. Lockless(w)!BufferInv /\ Lockless(w)!SizeInv /\ Lockless(w)!ThiefInv /\ Lockless(w)!CallInv
    BY <1>2 DEF Lockless!Init, Lockless!BufferInv, Lockless!SizeInv, Lockless!ThiefInv,
       Lockless!HasHead, Lockless!CallInv, Lockless!OwnerLabels, Lockless!StealLabels
<1> QED
    BY <1>1, <1>3 DEF Lockless!LocklessInv

LEMMA LocklessStep ==
    ASSUME NEW w \in BOOLEAN
    PROVE  Lockless(w)!LocklessInv /\ [Lockless(w)!Next]_(Lockless(w)!vars)
               => Lockless(w)!LocklessInv'
<1> SUFFICES ASSUME Lockless(w)!LocklessInv, [Lockless(w)!Next]_(Lockless(w)!vars) PROVE Lockless(w)!LocklessInv'
    OBVIOUS
<1>1. CASE UNCHANGED Lockless(w)!vars
    <2>1. /\ mem' = mem /\ first' = first /\ last' = last /\ buffer' = buffer
          /\ at' = at /\ call' = call /\ given' = given /\ result' = result /\ myHead'
                 = myHead /\ myTail' = myTail
        BY <1>1 DEF Lockless!vars, Lockless!sharedVars, Lockless!callVars, Lockless!localVars
    <2>2. Lockless(w)!OwnTail' = Lockless(w)!OwnTail /\ \A i : Lockless(w)!OwnSlot(i)'
              = Lockless(w)!OwnSlot(i)
        BY <2>1, LocklessSameView
    <2>3. Lockless(w)!AbsTail' = Lockless(w)!AbsTail /\ \A p : Lockless(w)!HasHead(p)'
              <=> Lockless(w)!HasHead(p)
        BY <2>1, <2>2 DEF Lockless!AbsTail, Lockless!HasHead
    <2>4. /\ Lockless(w)!OwnSlot(Lockless(w)!Slot(first))'
                 = Lockless(w)!OwnSlot(Lockless(w)!Slot(first))
          /\ Lockless(w)!OwnSlot(Lockless(w)!Slot(Lockless(w)!OwnTail))'
                 = Lockless(w)!OwnSlot(Lockless(w)!Slot(Lockless(w)!OwnTail))
        BY <2>1, <2>2 DEF Lockless!OwnSlot, Lockless!Slot
    <2>5. Lockless(w)!TypeInv' /\ Lockless(w)!BufferInv' /\ Lockless(w)!CallInv'
        BY <2>1, <2>2, <2>3 DEF Lockless!LocklessInv, Lockless!TypeInv, Lockless!BufferInv,
           Lockless!CallInv, Lockless!TailStore
    <2>6. Lockless(w)!SizeInv' /\ Lockless(w)!ThiefInv'
        BY <2>1, <2>2, <2>3, <2>4 DEF Lockless!LocklessInv, Lockless!SizeInv, Lockless!ThiefInv
    <2> QED
        BY <2>5, <2>6 DEF Lockless!LocklessInv
<1>2. CASE Lockless(w)!Drain
    BY <1>2, LocklessDrain
<1>3. CASE Lockless(w)!OwnerStep
    <2>1. CASE Lockless(w)!CallPut \/ Lockless(w)!CallGet \/ Lockless(w)!TestFull
          \/ Lockless(w)!Fence
        BY <2>1, LocklessReads, LocklessFacts DEF LocklessRead
    <2>2. CASE Lockless(w)!Store
        BY <2>2, LocklessStore
    <2>3. CASE Lockless(w)!Down \/ Lockless(w)!Restore
        BY <2>3, LocklessTail
    <2>4. CASE Lockless(w)!Compare
        BY <2>4, LocklessCompare
    <2>5. CASE Lockless(w)!Claim
        BY <2>5, LocklessClaim
    <2> QED
        BY <1>3, <2>1, <2>2, <2>3, <2>4, <2>5 DEF Lockless!OwnerStep
<1>4. ASSUME NEW p \in LocklessUsers(w), Lockless(w)!Step(p) PROVE Lockless(w)!LocklessInv'
    <2>1. CASE Lockless(w)!Swap(p)
        BY <2>1, LocklessSwap
    <2>2. CASE ~Lockless(w)!Swap(p)
        BY <1>4, <2>2, LocklessReads DEF Lockless!Step, LocklessRead
    <2> QED
        BY <2>1, <2>2
<1> QED
    BY <1>1, <1>2, <1>3, <1>4 DEF Lockless!Next

-----------------------------------------------------------------------------
(* The queue without locks implements WorkDeque. *)

locklessAbsVars(w) == <<Lockless(w)!Content, call, given, Lockless(w)!AbsPhase, Lockless(w)!AbsRes>>

LEMMA LocklessContent ==
    ASSUME NEW w \in BOOLEAN, Lockless(w)!LocklessInv
    PROVE  /\ Lockless(w)!AbsTail - first \in 0..(LocklessSlots(w) - 1)
              /\ Len(Lockless(w)!Content) = Lockless(w)!AbsTail - first
           /\ Lockless(w)!OwnTail \in Int /\ Lockless(w)!AbsTail \in Int /\ first \in Int
<1>1. Lockless(w)!OwnTail \in Int /\ Lockless(w)!AbsTail \in Int /\ first \in Int
    BY LocklessOwn DEF Lockless!LocklessInv
<1>2. Lockless(w)!AbsTail - first \in 0..(LocklessSlots(w) - 1)
    BY <1>1, LocklessFacts DEF Lockless!LocklessInv, Lockless!SizeInv
<1> QED
    BY <1>1, <1>2 DEF Lockless!Content

\* The content is what the owner reads from the head to the tail.
LEMMA LocklessContentNext ==
    ASSUME NEW w \in BOOLEAN, first' \in Int, NEW n, Lockless(w)!AbsTail' - first' = n,
           NEW f, \A i \in 0..(LocklessSlots(w) - 1) : Lockless(w)!OwnSlot(i)' = f[i]
    PROVE  Lockless(w)!Content' = [i \in 1..n |-> f[Lockless(w)!Slot(first' + i - 1)]]
<1>1. Lockless(w)!Content' = [i \in 1..n |->
                     Lockless(w)!SlotThrough(buffer', mem'[Lockless(w)!Slot(first' + i - 1)], Lockless(w)!Slot(first' + i - 1))]
    BY DEF Lockless!Content, Lockless!OwnSlot, Lockless!Slot
<1>2. ASSUME NEW i \in 1..n
      PROVE  Lockless(w)!SlotThrough(buffer', mem'[Lockless(w)!Slot(first' + i - 1)], Lockless(w)!Slot(first' + i - 1))
                = f[Lockless(w)!Slot(first' + i - 1)]
    <2>1. first' + i - 1 \in Int
        OBVIOUS
    <2>2. Lockless(w)!Slot(first' + i - 1) \in 0..(LocklessSlots(w) - 1)
        BY <2>1, LocklessSlotType
    <2>3. \A j \in 0..(LocklessSlots(w) - 1) : Lockless(w)!SlotThrough(buffer', mem'[j], j) = f[j]
        BY DEF Lockless!OwnSlot
    <2> QED
        BY <2>2, <2>3
<1> QED
    BY <1>1, <1>2

LEMMA LocklessSameContent ==
    ASSUME NEW w \in BOOLEAN, Lockless(w)!LocklessInv,
           Lockless(w)!AbsTail' = Lockless(w)!AbsTail, first' = first,
           \A i \in 0..(LocklessSlots(w) - 1) : Lockless(w)!OwnSlot(i)' = Lockless(w)!OwnSlot(i)
    PROVE  Lockless(w)!Content' = Lockless(w)!Content
<1> DEFINE f == [i \in 0..(LocklessSlots(w) - 1) |-> Lockless(w)!OwnSlot(i)]
<1>1. first \in Int /\ Lockless(w)!AbsTail - first \in 0..(LocklessSlots(w) - 1)
    BY LocklessContent
<1>2. \A i \in 0..(LocklessSlots(w) - 1) : Lockless(w)!OwnSlot(i)' = f[i]
    OBVIOUS
<1>3. ASSUME NEW i \in 1..(Lockless(w)!AbsTail - first)
      PROVE  f[Lockless(w)!Slot(first + i - 1)]
                 = Lockless(w)!OwnSlot(Lockless(w)!Slot(first + i - 1))
    <2>1. first + i - 1 \in Int
        BY <1>1
    <2>2. Lockless(w)!Slot(first + i - 1) \in 0..(LocklessSlots(w) - 1)
        BY <2>1, LocklessSlotType
    <2> QED
        BY <2>2
<1> HIDE DEF f
<1>4. Lockless(w)!Content'
          = [i \in 1..(Lockless(w)!AbsTail - first) |-> f[Lockless(w)!Slot(first' + i - 1)]]
    BY <1>1, <1>2, LocklessContentNext
<1> QED
    BY <1>3, <1>4 DEF Lockless!Content

\* A step of p shows in the call of p alone.
LocklessShowsCall(w, p) == /\ Lockless(w)!AbsPhase' = [Lockless(w)!AbsPhase EXCEPT ![p]
                                  = Lockless(w)!Phase(p)']
                           /\ Lockless(w)!AbsRes' = [Lockless(w)!AbsRes EXCEPT ![p]
                                  = Lockless(w)!Result(p)']
LEMMA LocklessShows ==
    ASSUME NEW w \in BOOLEAN, NEW p \in LocklessUsers(w),
           \A q \in LocklessUsers(w) : q # p => at'[q] = at[q] /\ result'[q] = result[q]
    PROVE  LocklessShowsCall(w, p)
<1>1. ASSUME NEW q \in LocklessUsers(w), q # p
      PROVE  Lockless(w)!Phase(q)' = Lockless(w)!Phase(q) /\ Lockless(w)!Result(q)'
                 = Lockless(w)!Result(q)
    BY <1>1 DEF Lockless!Phase, Lockless!Result
<1> QED
    BY <1>1 DEF LocklessShowsCall, Lockless!AbsPhase, Lockless!AbsRes

LEMMA LocklessDone ==
    ASSUME NEW w \in BOOLEAN, NEW p \in LocklessUsers(w), NEW x, NEW s,
           Lockless(w)!Phase(p) = "called", Lockless(w)!Phase(p)' = "done",
           Lockless(w)!Result(p)' = x, Lockless(w)!Content'
               = s, LocklessShowsCall(w, p), call' = call, given' = given
    PROVE  Lockless(w)!Deque!Done(p, s, x)
BY DEF LocklessShowsCall, Lockless!Deque!Done, Lockless!AbsPhase

LEMMA LocklessSilent ==
    ASSUME NEW w \in BOOLEAN, NEW p \in LocklessUsers(w),
           Lockless(w)!Phase(p)' = Lockless(w)!Phase(p), Lockless(w)!Result(p)'
               = Lockless(w)!Result(p), Lockless(w)!Content' = Lockless(w)!Content,
           LocklessShowsCall(w, p), call' = call, given' = given
    PROVE  UNCHANGED locklessAbsVars(w)
BY DEF LocklessShowsCall, locklessAbsVars, Lockless!AbsPhase, Lockless!AbsRes

\* A call starts, fails, gives up or returns.
LEMMA LocklessReadMaps ==
    ASSUME NEW w \in BOOLEAN, Lockless(w)!LocklessInv, NEW p \in LocklessUsers(w),
           LocklessRead(w, p)
    PROVE  \/ Lockless(w)!Deque!Call(p) \/ Lockless(w)!Deque!Return(p)
              \/ Lockless(w)!Deque!Fail(p) \/ Lockless(w)!Deque!GiveUp(p)
           \/ UNCHANGED locklessAbsVars(w)
<1>1. UNCHANGED Lockless(w)!sharedVars /\ Lockless(w)!TypeInv' /\ OthersWait(w, p)
    BY LocklessReadTypes DEF Lockless!LocklessInv
<1>2. /\ mem' = mem /\ first' = first /\ last' = last /\ buffer' = buffer
    BY <1>1 DEF Lockless!sharedVars
<1>3. Lockless(w)!OwnTail' = Lockless(w)!OwnTail /\ \A i : Lockless(w)!OwnSlot(i)'
          = Lockless(w)!OwnSlot(i)
    BY <1>2, LocklessSameView
<1>4. Lockless(w)!AbsTail' = Lockless(w)!AbsTail
    BY <1>3, LocklessFacts DEF Lockless!AbsTail, LocklessRead, Lockless!CallSteal,
       Lockless!CallPut, Lockless!CallGet, Lockless!Call, Lockless!ReadHead, Lockless!ReadTail,
       Lockless!ReadItem,
        Lockless!Return, Lockless!TestFull, Lockless!Fence, Lockless!Goto, Lockless!LocklessInv,
        Lockless!TypeInv
<1>5. Lockless(w)!Content' = Lockless(w)!Content
    BY <1>2, <1>3, <1>4, LocklessSameContent
<1>6. LocklessShowsCall(w, p)
    BY <1>1, LocklessShows DEF OthersWait
<1>7. ASSUME NEW o \in {"putTail", "getTail", "stealHead"}, NEW x, NEW label,
             Lockless(w)!Call(p, o, x, label), label \in {"testFull", "down", "readHead"},
             IF o = "putTail" THEN x \in Item ELSE x = NoItem
      PROVE  Lockless(w)!Deque!Call(p)
    <2>1. at[p] = "idle" /\ at'[p] = label
        BY <1>7 DEF Lockless!Call, Lockless!Goto, Lockless!LocklessInv, Lockless!TypeInv
    <2>2. /\ Lockless(w)!Phase(p) = "idle" /\ Lockless(w)!Phase(p)' = "called"
          /\ Lockless(w)!Result(p) = NoItem /\ Lockless(w)!Result(p)' = NoItem
        BY <1>7, <2>1 DEF Lockless!Phase, Lockless!Result
    <2>3. /\ Lockless(w)!AbsPhase[p] = "idle" /\ Lockless(w)!AbsPhase'
                 = [Lockless(w)!AbsPhase EXCEPT ![p] = "called"]
          /\ Lockless(w)!AbsRes' = Lockless(w)!AbsRes
        BY <1>6, <2>2 DEF LocklessShowsCall, Lockless!AbsPhase, Lockless!AbsRes
    <2>4. o \in Lockless(w)!Deque!Ops /\ (o \in Lockless(w)!Deque!Puts <=> o = "putTail")
        BY DEF Lockless!Deque!Ops, Lockless!Deque!Puts, Lockless!Deque!Gets, Lockless!Deque!Steals
    <2>5. PICK y \in Item : x = IF o \in Lockless(w)!Deque!Puts THEN y ELSE NoItem
        BY <1>7, <2>4, LocklessFacts
    <2>6. call' = [call EXCEPT ![p] = o] /\ given' = [given EXCEPT ![p] = x]
        BY <1>7 DEF Lockless!Call
    <2> QED
        BY <1>5, <2>3, <2>4, <2>5, <2>6 DEF Lockless!Deque!Call
<1>8. CASE Lockless(w)!CallSteal(p)
    BY <1>7, <1>8 DEF Lockless!CallSteal
<1>9. CASE p = p1 /\ Lockless(w)!CallPut
    BY <1>7, <1>9 DEF Lockless!CallPut
<1>10. CASE p = p1 /\ Lockless(w)!CallGet
    BY <1>7, <1>10 DEF Lockless!CallGet
<1>11. CASE Lockless(w)!Return(p)
    <2>1. at[p] = "return" /\ at'[p] = "idle"
        BY <1>11 DEF Lockless!Return, Lockless!Goto, Lockless!LocklessInv, Lockless!TypeInv
    <2>2. Lockless(w)!Phase(p) = "done" /\ Lockless(w)!Phase(p)' = "idle"
          /\ Lockless(w)!Result(p)' = NoItem
        BY <2>1 DEF Lockless!Phase, Lockless!Result
    <2>3. /\ Lockless(w)!AbsPhase[p] = "done" /\ Lockless(w)!AbsPhase'
                 = [Lockless(w)!AbsPhase EXCEPT ![p] = "idle"]
          /\ Lockless(w)!AbsRes' = [Lockless(w)!AbsRes EXCEPT ![p] = NoItem]
        BY <1>6, <2>2 DEF LocklessShowsCall, Lockless!AbsPhase
    <2> QED
        BY <1>5, <1>11, <2>3 DEF Lockless!Return, Lockless!Deque!Return
<1>12. CASE p = p1 /\ Lockless(w)!TestFull /\ Lockless(w)!OwnTail - first = LocklessSlots(w) - 1
    <2>1. at[p] = "testFull" /\ at'[p] = "return" /\ result'[p] = NoItem /\ call[p] = "putTail"
        BY <1>12 DEF Lockless!TestFull, Lockless!Goto, Lockless!LocklessInv, Lockless!TypeInv,
           Lockless!CallInv
    <2>2. Lockless(w)!Phase(p) = "called" /\ Lockless(w)!Phase(p)' = "done"
          /\ Lockless(w)!Result(p)' = NoItem
        BY <2>1 DEF Lockless!Phase, Lockless!Result
    <2>3. Lockless(w)!AbsTail = Lockless(w)!OwnTail
        BY <1>12, <2>1 DEF Lockless!AbsTail
    <2>4. Len(Lockless(w)!Content) = LocklessSlots(w) - 1
        BY <1>12, <2>3, LocklessContent
    <2>5. call' = call /\ given' = given
        BY <1>12 DEF Lockless!TestFull, Lockless!callVars
    <2>6. Lockless(w)!Deque!Done(p, Lockless(w)!Content, NoItem)
        BY <1>5, <1>6, <2>2, <2>5, LocklessDone
    <2> QED
        BY <2>1, <2>4, <2>6 DEF Lockless!Deque!Fail, Lockless!Deque!Puts
<1>13. CASE Lockless(w)!ReadItem(p) /\ myTail[p] <= myHead[p]
    <2>1. at[p] = "readItem" /\ at'[p] = "return" /\ result'[p] = NoItem /\ call[p] = "stealHead"
        BY <1>13 DEF Lockless!ReadItem, Lockless!Goto, Lockless!LocklessInv, Lockless!TypeInv,
           Lockless!CallInv, Lockless!StealLabels
    <2>2. Lockless(w)!Phase(p) = "called" /\ Lockless(w)!Phase(p)' = "done"
          /\ Lockless(w)!Result(p)' = NoItem
        BY <2>1 DEF Lockless!Phase, Lockless!Result
    <2>3. call' = call /\ given' = given
        BY <1>13 DEF Lockless!ReadItem, Lockless!callVars
    <2>4. Lockless(w)!Deque!Done(p, Lockless(w)!Content, NoItem)
        BY <1>5, <1>6, <2>2, <2>3, LocklessDone
    <2> QED
        BY <2>1, <2>4 DEF Lockless!Deque!GiveUp, Lockless!Deque!Steals
<1>14. CASE ~ \/ Lockless(w)!CallSteal(p) \/ Lockless(w)!Return(p)
              \/ p = p1 /\ (Lockless(w)!CallPut \/ Lockless(w)!CallGet)
              \/ p = p1 /\ Lockless(w)!TestFull /\ Lockless(w)!OwnTail - first
                     = LocklessSlots(w) - 1
              \/ Lockless(w)!ReadItem(p) /\ myTail[p] <= myHead[p]
    <2>1. call' = call /\ given' = given
        BY <1>14 DEF LocklessRead, Lockless!ReadHead, Lockless!ReadTail, Lockless!ReadItem,
           Lockless!TestFull, Lockless!Fence, Lockless!callVars
    <2>2. Lockless(w)!Phase(p) = "called" /\ Lockless(w)!Phase(p)' = "called"
        BY <1>14 DEF LocklessRead, Lockless!ReadHead, Lockless!ReadTail, Lockless!ReadItem,
           Lockless!TestFull, Lockless!Fence, Lockless!Goto, Lockless!LocklessInv,
           Lockless!TypeInv,
            Lockless!Phase
    <2>3. Lockless(w)!Result(p)' = Lockless(w)!Result(p) /\ Lockless(w)!Phase(p)'
              = Lockless(w)!Phase(p)
        BY <2>2 DEF Lockless!Result
    <2> QED
        BY <1>5, <1>6, <2>1, <2>3, LocklessSilent
<1> QED
    BY <1>8, <1>9, <1>10, <1>11, <1>12, <1>13, <1>14

\* A store that reaches memory does not show, nor does what a get stores in the tail.
LEMMA LocklessQuietMaps ==
    ASSUME NEW w \in BOOLEAN, Lockless(w)!LocklessInv,
           Lockless(w)!Drain \/ Lockless(w)!Down \/ Lockless(w)!Restore
    PROVE  UNCHANGED locklessAbsVars(w)
<1>1. CASE Lockless(w)!Drain
    <2>1. /\ first' = first /\ at' = at /\ call' = call /\ given' = given /\ result' = result
        BY <1>1 DEF Lockless!Drain, Lockless!callVars
    <2>2. /\ Lockless(w)!OwnTail' = Lockless(w)!OwnTail
             /\ \A i \in 0..(LocklessSlots(w) - 1) : Lockless(w)!OwnSlot(i)'
                    = Lockless(w)!OwnSlot(i)
        BY <1>1, LocklessDrainView DEF Lockless!LocklessInv
    <2>3. Lockless(w)!AbsTail' = Lockless(w)!AbsTail
        BY <2>1, <2>2 DEF Lockless!AbsTail
    <2>4. Lockless(w)!Content' = Lockless(w)!Content
        BY <2>1, <2>2, <2>3, LocklessSameContent
    <2> QED
        BY <2>1, <2>4 DEF locklessAbsVars, Lockless!AbsPhase, Lockless!Phase, Lockless!AbsRes,
           Lockless!Result
<1>2. CASE Lockless(w)!Down \/ Lockless(w)!Restore
    <2>1. /\ first' = first /\ call' = call /\ given' = given /\ result' = result
          /\ \A q \in LocklessUsers(w) : q # p1 => at'[q] = at[q] /\ result'[q] = result[q]
        BY <1>2 DEF Lockless!Down, Lockless!Restore, Lockless!callVars, Lockless!Goto,
           Lockless!LocklessInv, Lockless!TypeInv
    <2>2. Lockless(w)!AbsTail' = Lockless(w)!AbsTail /\ \A i : Lockless(w)!OwnSlot(i)'
              = Lockless(w)!OwnSlot(i)
        BY <1>2, LocklessTail
    <2>3. Lockless(w)!Content' = Lockless(w)!Content
        BY <2>1, <2>2, LocklessSameContent
    <2>4. LocklessShowsCall(w, p1)
        BY <2>1, LocklessShows, LocklessFacts
    <2>5. Lockless(w)!Phase(p1)' = Lockless(w)!Phase(p1)
        BY <1>2, LocklessFacts DEF Lockless!Down, Lockless!Restore, Lockless!Goto,
           Lockless!LocklessInv, Lockless!TypeInv, Lockless!Phase
    <2>6. Lockless(w)!Result(p1)' = Lockless(w)!Result(p1)
        BY <2>1, <2>5 DEF Lockless!Result
    <2> QED
        BY <2>1, <2>3, <2>4, <2>5, <2>6, LocklessSilent, LocklessFacts
<1> QED
    BY <1>1, <1>2

\* The put takes effect when the owner stores.
LEMMA LocklessStoreMaps ==
    ASSUME NEW w \in BOOLEAN, Lockless(w)!LocklessInv, Lockless(w)!Store
    PROVE  Lockless(w)!Deque!PutTail(p1)
<1> DEFINE t == Lockless(w)!OwnTail
           f == [i \in 0..(LocklessSlots(w) - 1) |-> IF Lockless(w)!Slot(t) = i
               THEN given[p1] ELSE Lockless(w)!OwnSlot(i)]
<1>1. /\ at[p1] = "store" /\ at'[p1] = "return" /\ given[p1] \in Item
      /\ call[p1] = "putTail" /\ call' = call /\ given' = given /\ first' = first
      /\ result'[p1] = given[p1]
      /\ \A q \in LocklessUsers(w) : q # p1 => at'[q] = at[q] /\ result'[q] = result[q]
    BY LocklessFacts DEF Lockless!Store, Lockless!callVars, Lockless!Goto, Lockless!LocklessInv,
       Lockless!TypeInv, Lockless!CallInv
<1>2. /\ Lockless(w)!OwnTail' = t + 1
      /\ \A i : Lockless(w)!OwnSlot(i)' = IF Lockless(w)!Slot(t) = i THEN given[p1]
             ELSE Lockless(w)!OwnSlot(i)
    BY <1>1, LocklessStoreView DEF Lockless!LocklessInv
<1>3. Lockless(w)!AbsTail = t /\ Lockless(w)!AbsTail' = t + 1
    BY <1>1, <1>2 DEF Lockless!AbsTail
<1>4. /\ t \in Int /\ first \in Int /\ t - first \in 0..(LocklessSlots(w) - 1)
      /\ Len(Lockless(w)!Content) = t - first
    BY <1>3, LocklessContent
<1>5. Len(Lockless(w)!Content) < LocklessSlots(w) - 1
    BY <1>1, <1>4, LocklessFacts DEF Lockless!LocklessInv, Lockless!SizeInv
<1>6. Lockless(w)!Content
          = [i \in 1..(t - first) |-> Lockless(w)!OwnSlot(Lockless(w)!Slot(first + i - 1))]
    BY <1>3 DEF Lockless!Content
<1>7. \A i \in 0..(LocklessSlots(w) - 1) : Lockless(w)!OwnSlot(i)' = f[i]
    BY <1>2
<1>8. ASSUME NEW i \in 1..(t - first)
      PROVE  f[Lockless(w)!Slot(first + i - 1)]
                 = Lockless(w)!OwnSlot(Lockless(w)!Slot(first + i - 1))
    <2>1. first + i - 1 \in Int /\ first + i - 1 < t /\ t < first + i - 1 + LocklessSlots(w)
        BY <1>4, <1>5, LocklessFacts
    <2>2. Lockless(w)!Slot(first + i - 1) \in 0..(LocklessSlots(w) - 1)
        BY <2>1, LocklessSlotType
    <2>3. Lockless(w)!Slot(first + i - 1) # Lockless(w)!Slot(t)
        BY <1>4, <2>1, LocklessSlotsDiffer
    <2> QED
        BY <2>2, <2>3
<1>9. f[Lockless(w)!Slot(t)] = given[p1]
    BY <1>4, LocklessSlotType
<1> HIDE DEF t, f
<1>10. Lockless(w)!Content' = [i \in 1..(t + 1 - first) |-> f[Lockless(w)!Slot(first + i - 1)]]
    BY <1>1, <1>3, <1>4, <1>7, LocklessContentNext
<1>11. Lockless(w)!Content' = Append(Lockless(w)!Content, given[p1])
    <2>1. ASSUME NEW i \in 1..(t + 1 - first)
          PROVE  f[Lockless(w)!Slot(first + i - 1)] =
                    IF i = t + 1 - first THEN given[p1] ELSE Lockless(w)!Content[i]
        <3>1. CASE i = t + 1 - first
            <4>1. first + i - 1 = t
                BY <1>4, <3>1
            <4> QED
                BY <1>9, <3>1, <4>1
        <3>2. CASE i # t + 1 - first
            <4>1. i \in 1..(t - first)
                BY <1>4, <3>2
            <4> QED
                BY <1>6, <1>8, <3>2, <4>1
        <3> QED
            BY <3>1, <3>2
    <2>2. Lockless(w)!Content' = [i \in 1..(t + 1 - first) |->
                         IF i = t + 1 - first THEN given[p1] ELSE Lockless(w)!Content[i]]
        BY <1>10, <2>1
    <2>3. (t - first) + 1 = t + 1 - first
        BY <1>4
    <2> QED
        BY <1>4, <1>6, <2>2, <2>3
<1>12. Lockless(w)!Phase(p1) = "called" /\ Lockless(w)!Phase(p1)' = "done"
       /\ Lockless(w)!Result(p1)' = given[p1]
    BY <1>1 DEF Lockless!Phase, Lockless!Result
<1>13. LocklessShowsCall(w, p1)
    BY <1>1, LocklessShows, LocklessFacts
<1>14. Lockless(w)!Deque!Done(p1, Append(Lockless(w)!Content, given[p1]), given[p1])
    BY <1>1, <1>11, <1>12, <1>13, LocklessDone, LocklessFacts
<1> QED
    BY <1>1, <1>5, <1>14 DEF Lockless!Deque!PutTail

\* The get of the owner takes effect when it reads head_index: it has the last item
\* or there is none, unless just one is left.
LEMMA LocklessCompareMaps ==
    ASSUME NEW w \in BOOLEAN, Lockless(w)!LocklessInv, Lockless(w)!Compare
    PROVE  \/ Lockless(w)!Deque!TakeTail(p1) \/ Lockless(w)!Deque!Fail(p1)
              \/ UNCHANGED locklessAbsVars(w)
<1>1. /\ at[p1] = "compare" /\ myTail[p1] = Lockless(w)!OwnTail /\ call[p1] = "getTail"
      /\ call' = call /\ given' = given /\ mem' = mem /\ last' = last /\ buffer' = buffer
      /\ first' = first
      /\ \A q \in LocklessUsers(w) : q # p1 => at'[q] = at[q] /\ result'[q] = result[q]
    BY LocklessFacts DEF Lockless!Compare, Lockless!sharedVars, Lockless!callVars,
       Lockless!Goto, Lockless!LocklessInv, Lockless!TypeInv, Lockless!SizeInv,
       Lockless!CallInv, Lockless!OwnerLabels
<1>2. Lockless(w)!OwnTail' = Lockless(w)!OwnTail /\ \A i : Lockless(w)!OwnSlot(i)'
          = Lockless(w)!OwnSlot(i)
    BY <1>1, LocklessSameView
<1>3. /\ Lockless(w)!OwnTail \in Int /\ first \in Int /\ Lockless(w)!AbsTail
             = Lockless(w)!OwnTail + 1
      /\ Lockless(w)!AbsTail - first \in 0..(LocklessSlots(w) - 1)
         /\ Len(Lockless(w)!Content) = Lockless(w)!AbsTail - first
    BY <1>1, LocklessContent DEF Lockless!AbsTail
<1>4. /\ result'[p1] = IF Lockless(w)!OwnTail < first THEN NoItem
             ELSE Lockless(w)!OwnSlot(Lockless(w)!Slot(Lockless(w)!OwnTail))
      /\ at'[p1] = IF Lockless(w)!OwnTail < first THEN "restore"
                      ELSE IF Lockless(w)!OwnTail > first THEN "return" ELSE "claim"
    <2>1. (Lockless(w)!OwnTail - first < 0 <=> Lockless(w)!OwnTail < first)
          /\ (Lockless(w)!OwnTail - first > 0 <=> Lockless(w)!OwnTail > first)
        BY <1>3
    <2>2. /\ myHead' = [myHead EXCEPT ![p1] = first]
          /\ result' = [result EXCEPT ![p1] = IF Lockless(w)!OwnTail - first < 0 THEN NoItem
                                          ELSE Lockless(w)!OwnSlot(Lockless(w)!Slot(Lockless(w)!OwnTail))]
          /\ at' = [at EXCEPT ![p1] = IF Lockless(w)!OwnTail - first < 0 THEN "restore"
                                         ELSE IF Lockless(w)!OwnTail - first > 0
                                             THEN "return" ELSE "claim"]
        BY <1>1 DEF Lockless!Compare, Lockless!Goto
    <2>3. DOMAIN myHead = LocklessUsers(w) /\ DOMAIN result = LocklessUsers(w) /\ DOMAIN at
              = LocklessUsers(w) /\ p1 \in LocklessUsers(w)
        BY LocklessFacts DEF Lockless!LocklessInv, Lockless!TypeInv
    <2> QED
        BY <2>1, <2>2, <2>3
<1>5. Lockless(w)!AbsTail' = IF Lockless(w)!OwnTail > first THEN Lockless(w)!OwnTail
          ELSE Lockless(w)!OwnTail + 1
    BY <1>2, <1>3, <1>4 DEF Lockless!AbsTail
<1>6. LocklessShowsCall(w, p1)
    BY <1>1, LocklessShows, LocklessFacts
<1>7. Lockless(w)!Phase(p1) = "called"
    BY <1>1 DEF Lockless!Phase
<1>8. CASE Lockless(w)!OwnTail > first
    <2> DEFINE f == [i \in 0..(LocklessSlots(w) - 1) |-> Lockless(w)!OwnSlot(i)]
    <2>1. Lockless(w)!Phase(p1)' = "done" /\ Lockless(w)!Result(p1)'
              = Lockless(w)!OwnSlot(Lockless(w)!Slot(Lockless(w)!OwnTail))
        BY <1>3, <1>4, <1>8 DEF Lockless!Phase, Lockless!Result
    <2>2. Lockless(w)!Content
              = [i \in 1..(Lockless(w)!OwnTail + 1 - first) |-> Lockless(w)!OwnSlot(Lockless(w)!Slot(first + i - 1))]
        BY <1>3 DEF Lockless!Content
    <2>3. ASSUME NEW i \in 1..(Lockless(w)!OwnTail - first)
          PROVE  f[Lockless(w)!Slot(first + i - 1)]
                     = Lockless(w)!OwnSlot(Lockless(w)!Slot(first + i - 1))
        <3>1. first + i - 1 \in Int
            BY <1>3
        <3>2. Lockless(w)!Slot(first + i - 1) \in 0..(LocklessSlots(w) - 1)
            BY <3>1, LocklessSlotType
        <3> QED
            BY <3>2
    <2>4. \A i \in 0..(LocklessSlots(w) - 1) : Lockless(w)!OwnSlot(i)' = f[i]
        BY <1>2
    <2> HIDE DEF f
    <2>5. Lockless(w)!Content'
              = [i \in 1..(Lockless(w)!OwnTail - first) |-> f[Lockless(w)!Slot(first + i - 1)]]
        BY <1>1, <1>3, <1>5, <1>8, <2>4, LocklessContentNext
    <2>6. Lockless(w)!Content'
              = [i \in 1..(Lockless(w)!OwnTail - first) |-> Lockless(w)!OwnSlot(Lockless(w)!Slot(first + i - 1))]
        BY <2>3, <2>5
    <2>7. Lockless(w)!Content' = SubSeq(Lockless(w)!Content, 1, Len(Lockless(w)!Content) - 1)
        <3>1. Len(Lockless(w)!Content) - 1 = Lockless(w)!OwnTail - first
            BY <1>3
        <3>2. \A i \in 1..(Lockless(w)!OwnTail - first) : i \in 1..(Lockless(w)!OwnTail + 1 - first)
            BY <1>3
        <3>3. SubSeq(Lockless(w)!Content, 1, Lockless(w)!OwnTail - first) =
                 [i \in 1..(Lockless(w)!OwnTail - first) |-> Lockless(w)!Content[i]]
            BY <1>3 DEF SubSeq
        <3> QED
            BY <2>2, <2>6, <3>1, <3>2, <3>3
    <2>8. Lockless(w)!Content # <<>> /\ Lockless(w)!Content[Len(Lockless(w)!Content)]
              = Lockless(w)!OwnSlot(Lockless(w)!Slot(Lockless(w)!OwnTail))
        <3>1. Len(Lockless(w)!Content) \in 1..(Lockless(w)!OwnTail + 1 - first)
              /\ first + Len(Lockless(w)!Content) - 1 = Lockless(w)!OwnTail
            BY <1>3, <1>8
        <3>2. Lockless(w)!Content[Len(Lockless(w)!Content)]
                  = Lockless(w)!OwnSlot(Lockless(w)!Slot(first + Len(Lockless(w)!Content) - 1))
            BY <2>2, <3>1
        <3>3. Lockless(w)!Content # <<>>
            BY <1>3, <1>8
        <3> QED
            BY <3>1, <3>2, <3>3
    <2>9. Lockless(w)!Deque!Done(p1, SubSeq(Lockless(w)!Content, 1, Len(Lockless(w)!Content) - 1), Lockless(w)!Content[Len(Lockless(w)!Content)])
        BY <1>1, <1>6, <1>7, <2>1, <2>7, <2>8, LocklessDone, LocklessFacts
    <2> QED
        BY <1>1, <2>8, <2>9 DEF Lockless!Deque!TakeTail, Lockless!Deque!FromTail
<1>9. CASE Lockless(w)!OwnTail <= first
    <2>1. Lockless(w)!AbsTail' = Lockless(w)!AbsTail
        BY <1>3, <1>5, <1>9
    <2>2. Lockless(w)!Content' = Lockless(w)!Content
        BY <1>1, <1>2, <2>1, LocklessSameContent
    <2>3. CASE Lockless(w)!OwnTail < first
        <3>1. Lockless(w)!AbsTail - first = 0
            BY <1>3, <2>3
        <3>2. Lockless(w)!Content = <<>>
            BY <3>1 DEF Lockless!Content
        <3>3. Lockless(w)!Phase(p1)' = "done" /\ Lockless(w)!Result(p1)' = NoItem
            BY <1>4, <2>3 DEF Lockless!Phase, Lockless!Result
        <3>4. Lockless(w)!Deque!Done(p1, Lockless(w)!Content, NoItem)
            BY <1>1, <1>6, <1>7, <2>2, <3>3, LocklessDone, LocklessFacts
        <3> QED
            BY <1>1, <3>2, <3>4 DEF Lockless!Deque!Fail, Lockless!Deque!Puts
    <2>4. CASE Lockless(w)!OwnTail = first
        <3>1. Lockless(w)!Phase(p1)' = Lockless(w)!Phase(p1) /\ Lockless(w)!Result(p1)'
                  = Lockless(w)!Result(p1)
            BY <1>3, <1>4, <1>7, <2>4 DEF Lockless!Phase, Lockless!Result
        <3> QED
            BY <1>1, <1>6, <2>2, <3>1, LocklessSilent, LocklessFacts
    <2> QED
        BY <1>3, <1>9, <2>3, <2>4
<1> QED
    BY <1>3, <1>8, <1>9

\* The last item is the owner's, or a thief's.
LEMMA LocklessClaimMaps ==
    ASSUME NEW w \in BOOLEAN, Lockless(w)!LocklessInv, Lockless(w)!Claim
    PROVE  Lockless(w)!Deque!TakeTail(p1) \/ Lockless(w)!Deque!Fail(p1)
<1>1. /\ at[p1] = "claim" /\ at'[p1] = "restore" /\ myHead[p1] = Lockless(w)!OwnTail
      /\ call[p1] = "getTail" /\ call' = call /\ given' = given
      /\ result[p1] = Lockless(w)!OwnSlot(Lockless(w)!Slot(Lockless(w)!OwnTail))
         /\ Lockless(w)!OwnTail <= first
      /\ \A q \in LocklessUsers(w) : q # p1 => at'[q] = at[q] /\ result'[q] = result[q]
    BY LocklessFacts DEF Lockless!Claim, Lockless!callVars, Lockless!Goto, Lockless!LocklessInv,
       Lockless!TypeInv, Lockless!SizeInv, Lockless!CallInv, Lockless!OwnerLabels
<1>2. Lockless(w)!AbsTail' = Lockless(w)!AbsTail /\ first' = Lockless(w)!AbsTail
    BY LocklessClaim
<1>3. /\ Lockless(w)!OwnTail \in Int /\ first \in Int /\ Lockless(w)!AbsTail
             = Lockless(w)!OwnTail + 1
      /\ Lockless(w)!AbsTail - first \in 0..(LocklessSlots(w) - 1)
         /\ Len(Lockless(w)!Content) = Lockless(w)!AbsTail - first
    BY <1>1, LocklessContent DEF Lockless!AbsTail
<1>4. LocklessShowsCall(w, p1)
    BY <1>1, LocklessShows, LocklessFacts
<1>5. Lockless(w)!Phase(p1) = "called" /\ Lockless(w)!Phase(p1)' = "done"
      /\ Lockless(w)!Result(p1)' = result'[p1]
    BY <1>1 DEF Lockless!Phase, Lockless!Result
<1>6. Lockless(w)!Content' = <<>>
    <2>1. (Lockless(w)!AbsTail - first)' = 0
        BY <1>2, <1>3
    <2> QED
        BY <2>1 DEF Lockless!Content
<1>7. CASE first = Lockless(w)!OwnTail
    <2>1. result' = result
        BY <1>1, <1>7 DEF Lockless!Claim
    <2>2. Len(Lockless(w)!Content) = 1 /\ Lockless(w)!Content
              = [i \in 1..1 |-> Lockless(w)!OwnSlot(Lockless(w)!Slot(first + i - 1))]
        BY <1>3, <1>7 DEF Lockless!Content
    <2>3. first + 1 - 1 = Lockless(w)!OwnTail
        BY <1>3, <1>7
    <2>4. Lockless(w)!Content # <<>> /\ Lockless(w)!Content[Len(Lockless(w)!Content)]
              = Lockless(w)!OwnSlot(Lockless(w)!Slot(Lockless(w)!OwnTail))
        BY <2>2, <2>3
    <2>5. SubSeq(Lockless(w)!Content, 1, Len(Lockless(w)!Content) - 1) = <<>>
        BY <2>2
    <2>6. Lockless(w)!Deque!Done(p1, SubSeq(Lockless(w)!Content, 1, Len(Lockless(w)!Content) - 1), Lockless(w)!Content[Len(Lockless(w)!Content)])
        BY <1>1, <1>4, <1>5, <1>6, <2>1, <2>4, <2>5, LocklessDone, LocklessFacts
    <2> QED
        BY <1>1, <2>4, <2>6 DEF Lockless!Deque!TakeTail, Lockless!Deque!FromTail
<1>8. CASE first # Lockless(w)!OwnTail
    <2>1. result'[p1] = NoItem
        BY <1>1, <1>8, LocklessFacts DEF Lockless!Claim, Lockless!LocklessInv, Lockless!TypeInv
    <2>2. Lockless(w)!AbsTail - first = 0
        BY <1>1, <1>3, <1>8
    <2>3. Lockless(w)!Content = <<>>
        BY <2>2 DEF Lockless!Content
    <2>4. Lockless(w)!Deque!Done(p1, Lockless(w)!Content, NoItem)
        BY <1>1, <1>4, <1>5, <1>6, <2>1, <2>3, LocklessDone, LocklessFacts
    <2> QED
        BY <1>1, <2>3, <2>4 DEF Lockless!Deque!Fail, Lockless!Deque!Puts
<1> QED
    BY <1>7, <1>8

\* A thief has the first item, or gives up.
LEMMA LocklessSwapMaps ==
    ASSUME NEW w \in BOOLEAN, Lockless(w)!LocklessInv, NEW p \in LocklessUsers(w),
           Lockless(w)!Swap(p)
    PROVE  Lockless(w)!Deque!TakeHead(p) \/ Lockless(w)!Deque!GiveUp(p)
<1>1. /\ at[p] = "swap" /\ at'[p] = "return" /\ call[p] = "stealHead" /\ call' = call
         /\ given' = given
      /\ \A q \in LocklessUsers(w) : q # p => at'[q] = at[q] /\ result'[q] = result[q]
    BY DEF Lockless!Swap, Lockless!callVars, Lockless!Goto, Lockless!LocklessInv,
       Lockless!TypeInv, Lockless!CallInv, Lockless!StealLabels
<1>2. Lockless(w)!AbsTail' = Lockless(w)!AbsTail /\ \A i : Lockless(w)!OwnSlot(i)'
          = Lockless(w)!OwnSlot(i)
    BY LocklessSwap
<1>3. /\ first \in Int /\ Lockless(w)!AbsTail \in Int
      /\ Lockless(w)!AbsTail - first \in 0..(LocklessSlots(w) - 1)
         /\ Len(Lockless(w)!Content) = Lockless(w)!AbsTail - first
    BY LocklessContent
<1>4. LocklessShowsCall(w, p)
    BY <1>1, LocklessShows
<1>5. Lockless(w)!Phase(p) = "called" /\ Lockless(w)!Phase(p)' = "done"
      /\ Lockless(w)!Result(p)' = result'[p]
    BY <1>1 DEF Lockless!Phase, Lockless!Result
<1>6. CASE first = myHead[p]
    <2> DEFINE f == [i \in 0..(LocklessSlots(w) - 1) |-> Lockless(w)!OwnSlot(i)]
               n == Lockless(w)!AbsTail - first
    <2>1. first' = first + 1 /\ result' = result
        BY <1>6 DEF Lockless!Swap
    <2>2. first < Lockless(w)!AbsTail /\ result[p] = Lockless(w)!OwnSlot(Lockless(w)!Slot(first))
        BY <1>1, <1>6 DEF Lockless!LocklessInv, Lockless!ThiefInv, Lockless!HasHead
    <2>3. n \in Nat \ {0} /\ Len(Lockless(w)!Content) = n /\ Lockless(w)!AbsTail' - first' = n - 1
        BY <1>2, <1>3, <2>1, <2>2
    <2>4. Lockless(w)!Content
              = [i \in 1..n |-> Lockless(w)!OwnSlot(Lockless(w)!Slot(first + i - 1))]
        BY DEF Lockless!Content
    <2>5. ASSUME NEW i \in 1..(n - 1)
          PROVE  f[Lockless(w)!Slot(first + 1 + i - 1)] = Lockless(w)!Content[i + 1]
        <3>1. first + 1 + i - 1 \in Int /\ first + 1 + i - 1 = first + (i + 1) - 1
              /\ i + 1 \in 1..n
            BY <1>3, <2>3
        <3>2. Lockless(w)!Slot(first + 1 + i - 1) \in 0..(LocklessSlots(w) - 1)
            BY <3>1, LocklessSlotType
        <3> QED
            BY <2>4, <3>1, <3>2
    <2>6. \A i \in 0..(LocklessSlots(w) - 1) : Lockless(w)!OwnSlot(i)' = f[i]
        BY <1>2
    <2> HIDE DEF f, n
    <2>7. Lockless(w)!Content' = [i \in 1..(n - 1) |-> f[Lockless(w)!Slot(first + 1 + i - 1)]]
        BY <1>3, <2>1, <2>3, <2>6, LocklessContentNext
    <2>8. Lockless(w)!Content' = [i \in 1..(n - 1) |-> Lockless(w)!Content[i + 1]]
        BY <2>5, <2>7
    <2>9. Lockless(w)!Content # <<>> /\ Tail(Lockless(w)!Content)
              = [i \in 1..(n - 1) |-> Lockless(w)!Content[i + 1]]
        BY <2>3, <2>4
    <2>10. Head(Lockless(w)!Content) = Lockless(w)!OwnSlot(Lockless(w)!Slot(first))
        <3>1. 1 \in 1..n /\ first + 1 - 1 = first
            BY <1>3, <2>3
        <3>2. Lockless(w)!Content[1] = Lockless(w)!OwnSlot(Lockless(w)!Slot(first))
            BY <2>4, <3>1
        <3> QED
            BY <2>9, <3>2
    <2>11. Lockless(w)!Deque!Done(p, Tail(Lockless(w)!Content), Head(Lockless(w)!Content))
        BY <1>1, <1>4, <1>5, <2>1, <2>2, <2>8, <2>9, <2>10, LocklessDone
    <2> QED
        BY <1>1, <2>9, <2>11 DEF Lockless!Deque!TakeHead, Lockless!Deque!FromHead
<1>7. CASE first # myHead[p]
    <2>1. first' = first /\ result'[p] = NoItem
        BY <1>7 DEF Lockless!Swap, Lockless!LocklessInv, Lockless!TypeInv
    <2>2. Lockless(w)!Content' = Lockless(w)!Content
        BY <1>2, <2>1, LocklessSameContent
    <2>3. Lockless(w)!Deque!Done(p, Lockless(w)!Content, NoItem)
        BY <1>1, <1>4, <1>5, <2>1, <2>2, LocklessDone
    <2> QED
        BY <1>1, <2>3 DEF Lockless!Deque!GiveUp, Lockless!Deque!Steals
<1> QED
    BY <1>6, <1>7

LEMMA LocklessMaps ==
    ASSUME NEW w \in BOOLEAN
    PROVE  Lockless(w)!LocklessInv /\ [Lockless(w)!Next]_(Lockless(w)!vars)
               => Lockless(w)!DequeStep
<1> SUFFICES ASSUME Lockless(w)!LocklessInv, [Lockless(w)!Next]_(Lockless(w)!vars) PROVE Lockless(w)!DequeStep
    OBVIOUS
<1>1. UNCHANGED locklessAbsVars(w) => Lockless(w)!DequeStep
    BY DEF locklessAbsVars, Lockless!DequeStep, Lockless!Deque!vars
<1>2. CASE UNCHANGED Lockless(w)!vars
    <2>1. /\ mem' = mem /\ first' = first /\ last' = last /\ buffer' = buffer
          /\ at' = at /\ call' = call /\ given' = given /\ result' = result
        BY <1>2 DEF Lockless!vars, Lockless!sharedVars, Lockless!callVars
    <2>2. Lockless(w)!OwnTail' = Lockless(w)!OwnTail /\ \A i : Lockless(w)!OwnSlot(i)'
              = Lockless(w)!OwnSlot(i)
        BY <2>1, LocklessSameView
    <2>3. Lockless(w)!AbsTail' = Lockless(w)!AbsTail
        BY <2>1, <2>2 DEF Lockless!AbsTail
    <2>4. Lockless(w)!Content' = Lockless(w)!Content
        BY <2>1, <2>2, <2>3, LocklessSameContent
    <2>5. UNCHANGED locklessAbsVars(w)
        BY <2>1, <2>4 DEF locklessAbsVars, Lockless!AbsPhase, Lockless!Phase, Lockless!AbsRes,
           Lockless!Result
    <2> QED
        BY <1>1, <2>5
<1>3. \A p \in LocklessUsers(w) : (\/ Lockless(w)!Deque!Call(p) \/ Lockless(w)!Deque!Return(p)
                                      \/ Lockless(w)!Deque!Fail(p) \/ Lockless(w)!Deque!PutTail(p)
                                   \/ Lockless(w)!Deque!TakeHead(p)
                                      \/ Lockless(w)!Deque!TakeTail(p)
                                         \/ Lockless(w)!Deque!GiveUp(p)) => Lockless(w)!DequeStep
    BY DEF Lockless!DequeStep, Lockless!Deque!StealNext, Lockless!Deque!Next
<1>4. CASE Lockless(w)!Drain
    BY <1>1, <1>4, LocklessQuietMaps
<1>5. CASE Lockless(w)!OwnerStep
    <2>1. CASE Lockless(w)!CallPut \/ Lockless(w)!CallGet \/ Lockless(w)!TestFull
          \/ Lockless(w)!Fence
        <3>1. LocklessRead(w, p1)
            BY <2>1 DEF LocklessRead
        <3> QED
            BY <1>1, <1>3, <3>1, LocklessReadMaps, LocklessFacts
    <2>2. CASE Lockless(w)!Store
        BY <1>3, <2>2, LocklessStoreMaps, LocklessFacts
    <2>3. CASE Lockless(w)!Down \/ Lockless(w)!Restore
        BY <1>1, <2>3, LocklessQuietMaps
    <2>4. CASE Lockless(w)!Compare
        BY <1>1, <1>3, <2>4, LocklessCompareMaps, LocklessFacts
    <2>5. CASE Lockless(w)!Claim
        BY <1>3, <2>5, LocklessClaimMaps, LocklessFacts
    <2> QED
        BY <1>5, <2>1, <2>2, <2>3, <2>4, <2>5 DEF Lockless!OwnerStep
<1>6. ASSUME NEW p \in LocklessUsers(w), Lockless(w)!Step(p) PROVE Lockless(w)!DequeStep
    <2>1. CASE Lockless(w)!Swap(p)
        BY <1>3, <2>1, LocklessSwapMaps
    <2>2. CASE ~Lockless(w)!Swap(p)
        <3>1. LocklessRead(w, p)
            BY <1>6, <2>2 DEF Lockless!Step, LocklessRead
        <3> QED
            BY <1>1, <1>3, <3>1, LocklessReadMaps
    <2> QED
        BY <2>1, <2>2
<1> QED
    BY <1>2, <1>4, <1>5, <1>6 DEF Lockless!Next

LEMMA LocklessInitMaps ==
    ASSUME NEW w \in BOOLEAN
    PROVE  Lockless(w)!Init => Lockless(w)!Deque!Init
<1> SUFFICES ASSUME Lockless(w)!Init PROVE Lockless(w)!Deque!Init
    OBVIOUS
<1>1. Lockless(w)!Content = <<>>
    <2>1. Lockless(w)!LocklessInv /\ buffer = <<>> /\ at[p1] = "idle" /\ last = 0 /\ first = 0
        BY LocklessStart, LocklessFacts DEF Lockless!Init
    <2>2. Lockless(w)!OwnTail = 0
        BY <2>1, LocklessOwn DEF Lockless!LocklessInv
    <2>3. Lockless(w)!AbsTail - first = 0
        BY <2>1, <2>2 DEF Lockless!AbsTail
    <2> QED
        BY <2>3 DEF Lockless!Content
<1>2. Lockless(w)!AbsPhase = [p \in LocklessUsers(w) |-> "idle"] /\ Lockless(w)!AbsRes
          = [p \in LocklessUsers(w) |-> NoItem]
    BY DEF Lockless!Init, Lockless!AbsPhase, Lockless!AbsRes, Lockless!Phase, Lockless!Result
<1> QED
    BY <1>1, <1>2 DEF Lockless!Init, Lockless!Deque!Init

\* A step of another queue, or of none, leaves the queue without locks alone.
LEMMA LocklessOfQueues ==
    ASSUME NEW w \in BOOLEAN, kind = (IF w THEN "locklessMany" ELSE "lockless"),
           [QueuesNext]_queuesVars
    PROVE  kind' = kind /\ [Lockless(w)!Next]_(Lockless(w)!vars)
<1>1. CASE QueuesNext
    <2>1. CASE w
        <3>1. RunLockless("locklessMany", TRUE)
            BY <1>1, <2>1 DEF QueuesNext, Chosen, RunGrowing, RunTwoLocks, RunLockless, RunPool
        <3> QED
            BY <2>1, <3>1 DEF RunLockless, Chosen
    <2>2. CASE ~w
        <3>1. RunLockless("lockless", FALSE)
            BY <1>1, <2>2 DEF QueuesNext, Chosen, RunGrowing, RunTwoLocks, RunLockless, RunPool
        <3> QED
            BY <2>2, <3>1 DEF RunLockless, Chosen
    <2> QED
        BY <2>1, <2>2
<1>2. CASE UNCHANGED queuesVars
    BY <1>2 DEF queuesVars, otherVars, memVars, callVars2, localVars, Lockless!vars,
        Lockless!sharedVars, Lockless!callVars, Lockless!localVars
<1> QED
    BY <1>1, <1>2

\* omp_queue.c:970-1091: for any number of thieves and slots, without a lock, and while
\* the owner's stores are on their way, the queue hands every item out once: to its
\* owner from the tail, to thieves from the head in order.  A get of the owner fails
\* only on an empty queue, a put only on a full one.
THEOREM LocklessRefinement == QueuesSpec => LocklessImplementDeque
<1> DEFINE I == /\ kind = "lockless" => Lockless(FALSE)!LocklessInv
                /\ kind = "locklessMany" => Lockless(TRUE)!LocklessInv
           S == /\ kind = "lockless" => Lockless(FALSE)!DequeStep
                /\ kind = "locklessMany" => Lockless(TRUE)!DequeStep
<1>1. QueuesInit => /\ kind = "lockless" => Lockless(FALSE)!Init
                    /\ kind = "locklessMany" => Lockless(TRUE)!Init
    BY DEF QueuesInit
<1>2. QueuesInit => /\ I
                    /\ kind = "lockless" => Lockless(FALSE)!Deque!Init
                    /\ kind = "locklessMany" => Lockless(TRUE)!Deque!Init
    BY <1>1, LocklessStart, LocklessInitMaps
<1>3. I /\ [QueuesNext]_queuesVars => I' /\ S
    <2> SUFFICES ASSUME I, [QueuesNext]_queuesVars PROVE I' /\ S
        OBVIOUS
    <2>1. kind' = kind
        <3>1. CASE QueuesNext
            BY <3>1 DEF QueuesNext, Chosen, RunGrowing, RunTwoLocks, RunLockless, RunPool,
                PoolKeeps
        <3>2. CASE UNCHANGED queuesVars
            BY <3>2 DEF queuesVars
        <3> QED
            BY <3>1, <3>2
    <2>2. ASSUME kind = "lockless" PROVE Lockless(FALSE)!LocklessInv' /\ Lockless(FALSE)!DequeStep
        <3>1. [Lockless(FALSE)!Next]_(Lockless(FALSE)!vars)
            BY <2>2, LocklessOfQueues
        <3> QED
            BY <2>2, <3>1, LocklessStep, LocklessMaps
    <2>3. ASSUME kind = "locklessMany" PROVE Lockless(TRUE)!LocklessInv' /\ Lockless(TRUE)!DequeStep
        <3>1. [Lockless(TRUE)!Next]_(Lockless(TRUE)!vars)
            BY <2>3, LocklessOfQueues
        <3> QED
            BY <2>3, <3>1, LocklessStep, LocklessMaps
    <2> QED
        BY <2>1, <2>2, <2>3
<1>4. S => [S]_queuesVars
    OBVIOUS
<1> QED
    BY <1>2, <1>3, PTL DEF QueuesSpec, LocklessImplementDeque

\* omp_queue.c:559-1091: every queue of the library is the queue of WorkDeque to the
\* threads that call it, whether its items are in an array that grows, in a list of
\* blocks, in a FIFO with a lock at each end or in a ring without locks.
THEOREM OthersRefinement == QueuesSpec => OthersImplementDeque
BY GrowingRefinement, FifoRefinement, LocklessRefinement DEF OthersImplementDeque
===============================================================================
