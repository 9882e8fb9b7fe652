-------------------------------- MODULE CFifo --------------------------------
(***************************************************************************)
(* The queue of O64_OMP_TASK_QUEUE=CFIFO (omp_queue.c:381-459): a ring     *)
(* whose tail is guarded by lock2 and whose head by lock1, so that a put   *)
(* and a get can be under way at once.  With O64_OMP_QUEUE_STORAGE set to  *)
(* DYN_ARRAY the put grows the ring (628-659): it takes both locks then,   *)
(* and compares the tail with a head_index it read before it had any.      *)
(***************************************************************************)
EXTENDS Naturals, Sequences

CONSTANTS
    Process, Item, NoItem,
    Producer,     \* the processes that put: the owner alone in the default pool
    Grows,        \* storage DYN_ARRAY
    NumSlots,
    MaxSlots      \* bound: num_slots up to which the ring may grow

Free == "free"
Ops == {"putTail", "getHead"}

VARIABLES
    slots, numSlots, headIndex, tailIndex, isEmpty, lock1, lock2,
    pc, op, arg, res,
    seen          \* head_index as __ompc_queue_cfifo_dyn_array_put has read it

ringVars == <<slots, numSlots, headIndex, tailIndex>>
lockVars == <<lock1, lock2>>
callVars == <<op, arg>>
vars == <<ringVars, isEmpty, lockVars, pc, callVars, res, seen>>

Init ==
    /\ slots = [i \in 0..(NumSlots - 1) |-> NoItem]
    /\ numSlots = NumSlots
    /\ headIndex = 0 /\ tailIndex = 0 /\ isEmpty = TRUE
    /\ lock1 = Free /\ lock2 = Free
    /\ pc = [p \in Process |-> "idle"]
    /\ op = [p \in Process |-> "getHead"]
    /\ arg = [p \in Process |-> NoItem]
    /\ res = [p \in Process |-> NoItem]
    /\ seen = [p \in Process |-> 0]

Succ(i) == (i + 1) % numSlots
Used == (tailIndex + numSlots - headIndex) % numSlots
Goto(p, label) == pc' = [pc EXCEPT ![p] = label]
Yield(p, x) == res' = [res EXCEPT ![p] = x]

Put(p) ==
    /\ pc[p] = "idle" /\ p \in Producer
    /\ Grows => numSlots < MaxSlots \/ Used < numSlots - 1
    /\ \E x \in Item : arg' = [arg EXCEPT ![p] = x]
    /\ op' = [op EXCEPT ![p] = "putTail"]
    /\ Goto(p, IF Grows THEN "readHead" ELSE "lockTail")
    /\ UNCHANGED <<ringVars, isEmpty, lockVars, res, seen>>

Get(p) ==
    /\ pc[p] = "idle"
    /\ op' = [op EXCEPT ![p] = "getHead"]
    /\ arg' = [arg EXCEPT ![p] = NoItem]
    /\ Goto(p, "lockHead")
    /\ UNCHANGED <<ringVars, isEmpty, lockVars, res, seen>>

-----------------------------------------------------------------------------
(* __ompc_queue_cfifo_array_put, __ompc_queue_cfifo_dyn_array_put *)

ReadHead(p) ==
    /\ pc[p] = "readHead"
    /\ seen' = [seen EXCEPT ![p] = headIndex]
    /\ Goto(p, "lockTail")
    /\ UNCHANGED <<ringVars, isEmpty, lockVars, callVars, res>>

LockTail(p) ==
    /\ pc[p] = "lockTail" /\ lock2 = Free
    /\ lock2' = p
    /\ Goto(p, "testFull")
    /\ UNCHANGED <<ringVars, isEmpty, lock1, callVars, res, seen>>

Full(p) == Succ(tailIndex) = IF Grows THEN seen[p] ELSE headIndex

\* a full ring refuses the item, or is grown with both locks, lock1 first
TestFull(p) ==
    /\ pc[p] = "testFull"
    /\ \/ /\ ~Full(p)
          /\ Goto(p, "store") /\ UNCHANGED lock2
       \/ /\ Full(p) /\ ~Grows
          /\ Goto(p, "unlockTail") /\ UNCHANGED lock2
       \/ /\ Full(p) /\ Grows
          /\ lock2' = Free
          /\ Goto(p, "lockBoth")
    /\ UNCHANGED <<ringVars, isEmpty, lock1, callVars, res, seen>>

LockBoth(p) ==
    /\ pc[p] = "lockBoth" /\ lock1 = Free
    /\ lock1' = p
    /\ Goto(p, "lockBoth2")
    /\ UNCHANGED <<ringVars, isEmpty, lock2, callVars, res, seen>>

LockBoth2(p) ==
    /\ pc[p] = "lockBoth2" /\ lock2 = Free
    /\ lock2' = p
    /\ Goto(p, "grow")
    /\ UNCHANGED <<ringVars, isEmpty, lock1, callVars, res, seen>>

\* __ompc_dyn_array_resize, if the ring still looks full
Grow(p) ==
    /\ pc[p] = "grow"
    /\ IF ~Full(p) THEN UNCHANGED ringVars
       ELSE LET wrapped == tailIndex < headIndex
            IN /\ slots' = [i \in 0..(2 * numSlots - 1) |->
                              IF i < numSlots THEN slots[i]
                              ELSE IF wrapped /\ i - numSlots <= tailIndex
                                   THEN slots[i - numSlots] ELSE NoItem]
               /\ tailIndex' = IF wrapped THEN tailIndex + numSlots ELSE tailIndex
               /\ numSlots' = 2 * numSlots
               /\ UNCHANGED headIndex
    /\ lock1' = Free
    /\ Goto(p, "store")
    /\ UNCHANGED <<isEmpty, lock2, callVars, res, seen>>

Store(p) ==
    /\ pc[p] = "store"
    /\ slots' = [slots EXCEPT ![Succ(tailIndex)] = arg[p]]
    /\ tailIndex' = Succ(tailIndex)
    /\ Yield(p, arg[p])
    /\ Goto(p, "clearEmpty")
    /\ UNCHANGED <<numSlots, headIndex, isEmpty, lockVars, callVars, seen>>

ClearEmpty(p) ==
    /\ pc[p] = "clearEmpty"
    /\ isEmpty' = FALSE
    /\ Goto(p, "unlockTail")
    /\ UNCHANGED <<ringVars, lockVars, callVars, res, seen>>

UnlockTail(p) ==
    /\ pc[p] = "unlockTail"
    /\ lock2' = Free
    /\ Goto(p, "return")
    /\ UNCHANGED <<ringVars, isEmpty, lock1, callVars, res, seen>>

-----------------------------------------------------------------------------
(* __ompc_queue_cfifo_array_get *)

LockHead(p) ==
    /\ pc[p] = "lockHead" /\ lock1 = Free
    /\ lock1' = p
    /\ Goto(p, "testEmpty")
    /\ UNCHANGED <<ringVars, isEmpty, lock2, callVars, res, seen>>

TestEmpty(p) ==
    /\ pc[p] = "testEmpty"
    /\ Goto(p, IF isEmpty THEN "unlockHead" ELSE "moveHead")
    /\ UNCHANGED <<ringVars, isEmpty, lockVars, callVars, res, seen>>

MoveHead(p) ==
    /\ pc[p] = "moveHead"
    /\ headIndex' = Succ(headIndex)
    /\ Goto(p, "readItem")
    /\ UNCHANGED <<slots, numSlots, tailIndex, isEmpty, lockVars, callVars, res, seen>>

\* the slot at head_index is the free one: no put writes it while lock1 is held
ReadItem(p) ==
    /\ pc[p] = "readItem"
    /\ Yield(p, slots[headIndex])
    /\ Goto(p, IF headIndex = tailIndex THEN "lockEmpty" ELSE "unlockHead")
    /\ UNCHANGED <<ringVars, isEmpty, lockVars, callVars, seen>>

LockEmpty(p) ==
    /\ pc[p] = "lockEmpty" /\ lock2 = Free
    /\ lock2' = p
    /\ Goto(p, "setEmpty")
    /\ UNCHANGED <<ringVars, isEmpty, lock1, callVars, res, seen>>

\* mutant: what was read before lock2 is not read again
SetEmptyBlind(p) ==
    /\ pc[p] = "setEmpty"
    /\ isEmpty' = TRUE
    /\ lock2' = Free
    /\ Goto(p, "unlockHead")
    /\ UNCHANGED <<ringVars, lock1, callVars, res, seen>>

SetEmpty(p) ==
    /\ pc[p] = "setEmpty"
    /\ isEmpty' = (headIndex = tailIndex \/ isEmpty)
    /\ lock2' = Free
    /\ Goto(p, "unlockHead")
    /\ UNCHANGED <<ringVars, lock1, callVars, res, seen>>

UnlockHead(p) ==
    /\ pc[p] = "unlockHead"
    /\ lock1' = Free
    /\ Goto(p, "return")
    /\ UNCHANGED <<ringVars, isEmpty, lock2, callVars, res, seen>>

Return(p) ==
    /\ pc[p] = "return"
    /\ Yield(p, NoItem)
    /\ Goto(p, "idle")
    /\ op' = [op EXCEPT ![p] = "getHead"]
    /\ arg' = [arg EXCEPT ![p] = NoItem]
    /\ seen' = [seen EXCEPT ![p] = 0]
    /\ UNCHANGED <<ringVars, isEmpty, lockVars>>

Step(p) == \/ Put(p) \/ Get(p) \/ ReadHead(p) \/ LockTail(p) \/ TestFull(p)
           \/ LockBoth(p) \/ LockBoth2(p) \/ Grow(p)
           \/ Store(p) \/ ClearEmpty(p) \/ UnlockTail(p)
           \/ LockHead(p) \/ TestEmpty(p) \/ MoveHead(p) \/ ReadItem(p)
           \/ LockEmpty(p) \/ SetEmpty(p) \/ UnlockHead(p) \/ Return(p)

Next == \E p \in Process : Step(p)

Spec == Init /\ [][Next]_vars

-----------------------------------------------------------------------------
(* Properties *)

(* A put takes effect when it moves the tail, or, if is_empty still keeps  *)
(* everyone away from the item, when it clears is_empty; a get when it     *)
(* moves the head.                                                         *)
Content == [i \in 1..(IF isEmpty THEN 0 ELSE Used) |-> slots[(headIndex + i) % numSlots]]

Phase(p) ==
    IF pc[p] = "idle" THEN "idle"
    ELSE IF \/ pc[p] \in {"unlockTail", "readItem", "lockEmpty", "setEmpty",
                          "unlockHead", "return"}
            \/ pc[p] = "clearEmpty" /\ ~isEmpty
         THEN "done" ELSE "called"
Result(p) == IF Phase(p) # "done" THEN NoItem
             ELSE IF pc[p] = "readItem" THEN slots[headIndex] ELSE res[p]
AbsPhase == [p \in Process |-> Phase(p)]
AbsRes == [p \in Process |-> Result(p)]

Deque == INSTANCE WorkDeque WITH
    Capacity <- IF Grows THEN 2 * MaxSlots ELSE NumSlots - 1,
    items <- Content, phase <- AbsPhase, res <- AbsRes

\* omp_queue.c:403-459, 628-659: with two locks the queue is still the one of
\* WorkDeque: an item that is in is got once and in order, NULL is the
\* answer of an empty queue only, and 0 that of a full one.
DequeStep == [Deque!Next]_(Deque!vars)

-----------------------------------------------------------------------------
(* Why: the inductive invariant *)

PutLabels == {"readHead", "lockTail", "testFull", "lockBoth", "lockBoth2", "grow", "store"}
HeadLabels == {"testEmpty", "moveHead", "readItem", "lockEmpty", "setEmpty", "unlockHead"}
TypeInv ==
    /\ numSlots \in Nat \ {0}
    /\ slots \in [0..(numSlots - 1) -> Item \cup {NoItem}]
    /\ headIndex \in 0..(numSlots - 1) /\ tailIndex \in 0..(numSlots - 1)
    /\ isEmpty \in BOOLEAN
    /\ pc \in [Process -> PutLabels \cup {"clearEmpty", "unlockTail", "lockHead"}
                          \cup HeadLabels \cup {"idle", "return"}]
    /\ op \in [Process -> Ops] /\ arg \in [Process -> Item \cup {NoItem}]
    /\ res \in [Process -> Item \cup {NoItem}] /\ seen \in [Process -> Nat]

\* each end has one holder
LockInv ==
    \A p \in Process :
        /\ pc[p] \in HeadLabels \cup {"lockBoth2", "grow"} => lock1 = p
        /\ pc[p] \in {"testFull", "grow", "store", "clearEmpty", "unlockTail", "setEmpty"}
             => lock2 = p

CallInv ==
    \A p \in Process :
        /\ pc[p] \in PutLabels \cup {"clearEmpty", "unlockTail"} => op[p] = "putTail"
        /\ pc[p] \in PutLabels \cup {"clearEmpty"} => p \in Producer /\ arg[p] \in Item
        /\ pc[p] \in HeadLabels \cup {"lockHead"} => op[p] = "getHead"
        /\ pc[p] \in {"readHead", "lockBoth", "lockBoth2", "grow"} => Grows
        /\ pc[p] \in PutLabels \cup {"idle", "lockHead", "testEmpty", "moveHead", "readItem"}
             => res[p] = NoItem
        /\ pc[p] = "clearEmpty" => res[p] = arg[p] /\ slots[tailIndex] = arg[p]

\* is_empty is set while the ring is empty, or has the one item of a put that is
\* to clear it; it is cleared while the ring is empty only when a get is to set it.
EmptyInv ==
    /\ isEmpty => Used = IF \E p \in Process : pc[p] = "clearEmpty" THEN 1 ELSE 0
    /\ ~isEmpty => Used # 0 \/ \E p \in Process : pc[p] \in {"readItem", "lockEmpty", "setEmpty"}
    /\ \A p \in Process : pc[p] \in {"moveHead", "readItem", "lockEmpty", "setEmpty"} => ~isEmpty

\* What a put has seen of the head lies between there and the tail, so a ring
\* that does not look full to it is not.
Apart(i, j) == (j + numSlots - i) % numSlots
FullInv ==
    /\ ~Grows => numSlots = NumSlots
    /\ Grows => numSlots <= 2 * MaxSlots
    /\ \A p \in Process :
          /\ pc[p] = "store" => Used < numSlots - 1
          /\ Grows /\ pc[p] = "readHead" => numSlots < MaxSlots \/ Used < numSlots - 1
          /\ Grows /\ pc[p] \in PutLabels \ {"readHead", "store"}
               => /\ seen[p] \in 0..(numSlots - 1) /\ Used <= Apart(seen[p], tailIndex)
                  /\ numSlots < MaxSlots \/ Apart(seen[p], tailIndex) < numSlots - 1

FifoInv == TypeInv /\ LockInv /\ CallInv /\ EmptyInv /\ FullInv
=============================================================================
