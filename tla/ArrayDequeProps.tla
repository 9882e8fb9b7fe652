--------------------------- MODULE ArrayDequeProps ---------------------------
(***************************************************************************)
(* Properties of ArrayDeque: its typing, the consistency of the ring, and  *)
(* that it implements WorkDeque.                                           *)
(***************************************************************************)
EXTENDS ArrayDeque

Labels == {"idle", "peek", "lock", "check", "move", "flag", "unlock", "return"}
Holding == {"check", "move", "flag", "unlock"}

TypeOK ==
    /\ slots \in [Index -> Item \cup {NoItem}]
    /\ headIndex \in Index /\ tailIndex \in Index
    /\ usedSlots \in 0..(NumSlots - 1)
    /\ isEmpty \in BOOLEAN
    /\ lock1 \in Process \cup {Free}
    /\ pc \in [Process -> Labels]
    /\ op \in [Process -> Ops]
    /\ arg \in [Process -> Item \cup {NoItem}]
    /\ res \in [Process -> Item \cup {NoItem}]

(* The assertions "queue overflow" of omp_queue.c:126-128 and its three    *)
(* copies: after a get or a steal the two indices meet only when no slot   *)
(* is in use.                                                              *)
NoOverflow ==
    \A p \in Process : pc[p] \in {"flag", "unlock"} /\ op[p] \notin Puts
        => (usedSlots # 0 => headIndex # tailIndex)

-----------------------------------------------------------------------------
(* The strengthening: lock1 is held exactly by the process in the critical *)
(* section, the indices are used_slots apart, and is_empty is exact        *)
(* whenever no process is between its update of used_slots and of is_empty;*)
(* a process there has in hand what the slot it moved over holds.          *)
LockInv == \A p \in Process : pc[p] \in Holding <=> lock1 = p
RingInv == tailIndex = (headIndex + usedSlots) % NumSlots
EmptyInv ==
    /\ (\A p \in Process : pc[p] # "flag") => (isEmpty <=> usedSlots = 0)
    /\ \A p \in Process : pc[p] = "flag" =>
         IF op[p] \in Puts THEN usedSlots > 0 /\ (isEmpty <=> usedSlots = 1)
                           ELSE ~isEmpty
ChecksInv ==
    \A p \in Process : pc[p] = "move" =>
        IF op[p] \in Puts THEN usedSlots < NumSlots - 1 ELSE usedSlots > 0
MovedInv ==
    \A p \in Process : pc[p] = "flag" =>
        /\ op[p] = "putTail" => res[p] = slots[tailIndex]
        /\ op[p] = "putHead" => res[p] = slots[Succ(headIndex)]
        /\ op[p] \in FromHead => res[p] = slots[headIndex]
        /\ op[p] \in FromTail => res[p] = slots[Succ(tailIndex)]
CallInv ==
    \A p \in Process :
        /\ pc[p] = "peek" => op[p] \notin Puts
        /\ pc[p] = "flag" /\ op[p] \in Puts => res[p] = arg[p]
        /\ pc[p] \notin {"flag", "unlock", "return"} => res[p] = NoItem
IInv == /\ TypeOK /\ LockInv /\ RingInv /\ EmptyInv /\ ChecksInv
        /\ MovedInv /\ CallInv

-----------------------------------------------------------------------------
(* A call takes effect when it writes is_empty: until then the abstract    *)
(* content is the one before the move.                                     *)
Ring(h, n) == [i \in 1..n |-> slots[(h + i) % NumSlots]]
Before(o) ==
    IF o = "putTail" THEN Ring(headIndex, usedSlots - 1)
    ELSE IF o = "putHead" THEN Ring(Succ(headIndex), usedSlots - 1)
    ELSE IF o \in FromHead THEN Ring(Pred(headIndex), usedSlots + 1)
    ELSE Ring(headIndex, usedSlots + 1)
Content == IF lock1 = Free \/ pc[lock1] # "flag"
           THEN Ring(headIndex, usedSlots) ELSE Before(op[lock1])

Phase(p) == IF pc[p] = "idle" THEN "idle"
            ELSE IF pc[p] \in {"unlock", "return"} THEN "done" ELSE "called"

AbsPhase == [p \in Process |-> Phase(p)]
AbsRes == [p \in Process |-> IF Phase(p) = "done" THEN res[p] ELSE NoItem]

Deque == INSTANCE WorkDeque WITH
    Capacity <- NumSlots - 1, items <- Content, phase <- AbsPhase, res <- AbsRes

(* omp_queue.c:101-288 implements the queue of WorkDeque: no item is lost, *)
(* duplicated or handed out twice, whatever the unlocked test of is_empty  *)
(* and the failed trylocks do.                                             *)
ImplementsDeque == Deque!Spec
=============================================================================
