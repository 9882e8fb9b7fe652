----------------------------- MODULE GrowingDeque -----------------------------
(***************************************************************************)
(* The two task queues that grow when they are full: the array that is     *)
(* reallocated with twice the slots (omp_queue.c:559-626, with the gets    *)
(* and steals of the fixed array), and the list (665-964), slots in blocks *)
(* of memory of which each knows the next and the previous one, NULL       *)
(* standing for the neighbour in memory.                                   *)
(*                                                                         *)
(* A slot is named by its position in memory, with a gap after each block  *)
(* of the list.  A call takes the steps of ArrayDeque.                     *)
(***************************************************************************)
EXTENDS Integers, Sequences, FiniteSetsExt, FiniteSets

CONSTANTS
    Process, Item, NoItem,
    Owner,          \* puts and gets; the others steal (omp_task_pool.c)
    Storage,        \* "dyn" or "list", __omp_queue_storage
    NumSlots,       \* num_slots when the queue is made
    MaxItems        \* bound: items in the queue and on their way into it

Free == "free"
NoSlot == -1        \* NULL
Puts == {"putHead", "putTail"}
Gets == {"getHead", "getTail"}
Steals == {"stealHead", "stealTail"}
FromHead == {"getHead", "stealHead"}

VARIABLES
    slots, next, prev,                            \* omp_queue_slot_t
    numSlots, headIndex, tailIndex, usedSlots, isEmpty, lock1,
    pc, op, arg, res                              \* each process's call

listVars == <<next, prev, numSlots>>
queueVars == <<slots, headIndex, tailIndex, usedSlots>>
callVars == <<op, arg>>
vars == <<queueVars, listVars, isEmpty, lock1, pc, callVars, res>>

\* __ompc_queue_array_init, __ompc_queue_list_init
Init ==
    /\ slots = [s \in 0..(NumSlots - 1) |-> NoItem]
    /\ prev = [s \in 0..(NumSlots - 1) |-> IF s = 0 THEN NumSlots - 1 ELSE NoSlot]
    /\ next = [s \in 0..(NumSlots - 1) |-> IF s = NumSlots - 1 THEN 0 ELSE NoSlot]
    /\ numSlots = NumSlots
    /\ headIndex = 0 /\ tailIndex = 0 /\ usedSlots = 0 /\ isEmpty = TRUE
    /\ lock1 = Free
    /\ pc = [p \in Process |-> "idle"]
    /\ op = [p \in Process |-> "getHead"]
    /\ arg = [p \in Process |-> NoItem]
    /\ res = [p \in Process |-> NoItem]

-----------------------------------------------------------------------------
(* Neighbours *)

Succ(s) == IF Storage = "dyn" THEN (s + 1) % numSlots
           ELSE IF next[s] # NoSlot THEN next[s] ELSE s + 1
Pred(s) == IF Storage = "dyn" THEN IF s # 0 THEN s - 1 ELSE numSlots - 1
           ELSE IF prev[s] # NoSlot THEN prev[s] ELSE s - 1

Full == usedSlots = numSlots - 1

-----------------------------------------------------------------------------
(* The steps of a call *)

Goto(p, label) == pc' = [pc EXCEPT ![p] = label]

Incoming == {p \in Process : pc[p] \in {"lock", "check", "grow", "move"} /\ op[p] \in Puts}

Invoke(p) ==
    /\ pc[p] = "idle"
    /\ \E o \in (IF p = Owner THEN Puts \cup Gets ELSE Steals), x \in Item :
         /\ o \in Puts => usedSlots + Cardinality(Incoming) < MaxItems
         /\ op' = [op EXCEPT ![p] = o]
         /\ arg' = [arg EXCEPT ![p] = IF o \in Puts THEN x ELSE NoItem]
         /\ Goto(p, IF o \in Puts THEN "lock" ELSE "peek")
    /\ UNCHANGED <<queueVars, listVars, isEmpty, lock1, res>>

Peek(p) ==
    /\ pc[p] = "peek"
    /\ Goto(p, IF isEmpty THEN "return" ELSE "lock")
    /\ UNCHANGED <<queueVars, listVars, isEmpty, lock1, callVars, res>>

Lock(p) ==
    /\ pc[p] = "lock" /\ lock1 = Free
    /\ lock1' = p
    /\ Goto(p, "check")
    /\ UNCHANGED <<queueVars, listVars, isEmpty, callVars, res>>

GiveUp(p) ==
    /\ pc[p] = "lock" /\ op[p] \in Steals /\ lock1 # Free
    /\ Goto(p, "return")
    /\ UNCHANGED <<queueVars, listVars, isEmpty, lock1, callVars, res>>

Check(p) ==
    /\ pc[p] = "check"
    /\ Goto(p, IF op[p] \in Puts THEN IF Full THEN "grow" ELSE "move"
               ELSE IF isEmpty THEN "unlock" ELSE "move")
    /\ UNCHANGED <<queueVars, listVars, isEmpty, lock1, callVars, res>>

\* mutant: what has wrapped around stays at the bottom of the larger array
GrowArrayInPlace(p) ==
    /\ pc[p] = "grow" /\ Storage = "dyn"
    /\ slots' = [s \in 0..(2 * numSlots - 1) |-> IF s < numSlots THEN slots[s] ELSE NoItem]
    /\ numSlots' = 2 * numSlots
    /\ Goto(p, "move")
    /\ UNCHANGED <<headIndex, tailIndex, usedSlots, next, prev, isEmpty, lock1, callVars, res>>

\* __ompc_dyn_array_resize: what has wrapped around moves behind the old end
GrowArray(p) ==
    /\ pc[p] = "grow" /\ Storage = "dyn"
    /\ LET wrapped == tailIndex < headIndex
       IN /\ slots' = [s \in 0..(2 * numSlots - 1) |->
                         IF s < numSlots THEN slots[s]
                         ELSE IF wrapped /\ s - numSlots <= tailIndex
                              THEN slots[s - numSlots] ELSE NoItem]
          /\ tailIndex' = IF wrapped THEN tailIndex + numSlots ELSE tailIndex
    /\ numSlots' = 2 * numSlots
    /\ Goto(p, "move")
    /\ UNCHANGED <<headIndex, usedSlots, next, prev, isEmpty, lock1, callVars, res>>

\* the slots of f and, where those end, of a new block
Extended(f, block) == [s \in DOMAIN f \cup DOMAIN block |->
                         IF s \in DOMAIN f THEN f[s] ELSE block[s]]

\* mutant: the new block is linked in forwards only
GrowListForward(p) ==
    /\ pc[p] = "grow" /\ Storage = "list"
    /\ LET base == Max(DOMAIN slots) + 2
           last == base + numSlots - 1
           none == [s \in base..last |-> NoSlot]
       IN /\ slots' = Extended(slots, [s \in base..last |-> NoItem])
          /\ prev' = Extended(prev, [none EXCEPT ![base] = tailIndex])
          /\ next' = Extended([next EXCEPT ![tailIndex] = base], [none EXCEPT ![last] = headIndex])
    /\ numSlots' = 2 * numSlots
    /\ Goto(p, "move")
    /\ UNCHANGED <<headIndex, tailIndex, usedSlots, isEmpty, lock1, callVars, res>>

\* __ompc_list_add_slots: a new block between the tail and the head
GrowList(p) ==
    /\ pc[p] = "grow" /\ Storage = "list"
    /\ LET base == Max(DOMAIN slots) + 2
           last == base + numSlots - 1
           none == [s \in base..last |-> NoSlot]
           cut == IF next[tailIndex] = NoSlot THEN prev
                  ELSE [prev EXCEPT ![next[tailIndex]] = NoSlot]
           cutNext == IF cut[headIndex] = NoSlot THEN next
                      ELSE [next EXCEPT ![cut[headIndex]] = NoSlot]
       IN /\ slots' = Extended(slots, [s \in base..last |-> NoItem])
          /\ next' = Extended([cutNext EXCEPT ![tailIndex] = base], [none EXCEPT ![last] = headIndex])
          /\ prev' = Extended([cut EXCEPT ![headIndex] = last], [none EXCEPT ![base] = tailIndex])
    /\ numSlots' = 2 * numSlots
    /\ Goto(p, "move")
    /\ UNCHANGED <<headIndex, tailIndex, usedSlots, isEmpty, lock1, callVars, res>>

MovePutTail(p) ==
    /\ pc[p] = "move" /\ op[p] = "putTail"
    /\ tailIndex' = Succ(tailIndex)
    /\ slots' = [slots EXCEPT ![Succ(tailIndex)] = arg[p]]
    /\ usedSlots' = usedSlots + 1
    /\ res' = [res EXCEPT ![p] = arg[p]]
    /\ Goto(p, "flag")
    /\ UNCHANGED <<headIndex, listVars, isEmpty, lock1, callVars>>

MovePutHead(p) ==
    /\ pc[p] = "move" /\ op[p] = "putHead"
    /\ slots' = [slots EXCEPT ![headIndex] = arg[p]]
    /\ headIndex' = Pred(headIndex)
    /\ usedSlots' = usedSlots + 1
    /\ res' = [res EXCEPT ![p] = arg[p]]
    /\ Goto(p, "flag")
    /\ UNCHANGED <<tailIndex, listVars, isEmpty, lock1, callVars>>

MoveTake(p) ==
    /\ pc[p] = "move" /\ op[p] \notin Puts
    /\ IF op[p] \in FromHead
       THEN /\ res' = [res EXCEPT ![p] = slots[Succ(headIndex)]]
            /\ headIndex' = Succ(headIndex) /\ UNCHANGED tailIndex
       ELSE /\ res' = [res EXCEPT ![p] = slots[tailIndex]]
            /\ tailIndex' = Pred(tailIndex) /\ UNCHANGED headIndex
    /\ usedSlots' = usedSlots - 1
    /\ Goto(p, "flag")
    /\ UNCHANGED <<slots, listVars, isEmpty, lock1, callVars>>

Flag(p) ==
    /\ pc[p] = "flag"
    /\ isEmpty' = (op[p] \notin Puts /\ usedSlots = 0)
    /\ Goto(p, "unlock")
    /\ UNCHANGED <<queueVars, listVars, lock1, callVars, res>>

Unlock(p) ==
    /\ pc[p] = "unlock"
    /\ lock1' = Free
    /\ Goto(p, "return")
    /\ UNCHANGED <<queueVars, listVars, isEmpty, callVars, res>>

Return(p) ==
    /\ pc[p] = "return"
    /\ op' = [op EXCEPT ![p] = "getHead"]
    /\ arg' = [arg EXCEPT ![p] = NoItem]
    /\ res' = [res EXCEPT ![p] = NoItem]
    /\ Goto(p, "idle")
    /\ UNCHANGED <<queueVars, listVars, isEmpty, lock1>>

Step(p) == \/ Invoke(p) \/ Peek(p) \/ Lock(p) \/ GiveUp(p) \/ Check(p)
           \/ GrowArray(p) \/ GrowList(p)
           \/ MovePutTail(p) \/ MovePutHead(p) \/ MoveTake(p)
           \/ Flag(p) \/ Unlock(p) \/ Return(p)

Next == \E p \in Process : Step(p)

Spec == Init /\ [][Next]_vars

-----------------------------------------------------------------------------
(* Properties *)

\* omp_queue.c:918 and 953: a slot that is entered through a link is linked
\* back.
LinkedBothWays ==
    Storage = "list" => \A p \in Process : pc[p] = "move" =>
        /\ op[p] = "putTail" /\ next[tailIndex] # NoSlot
             => prev[next[tailIndex]] = tailIndex
        /\ op[p] = "putHead" /\ prev[headIndex] # NoSlot
             => next[prev[headIndex]] = headIndex

\* the n items after the slot h; a call takes effect when it writes is_empty
Ring(h, n) == LET at[i \in 0..n] == IF i = 0 THEN h ELSE Succ(at[i - 1])
              IN [i \in 1..n |-> slots[at[i]]]
Before(o) ==
    IF o = "putTail" THEN Ring(headIndex, usedSlots - 1)
    ELSE IF o = "putHead" THEN Ring(Succ(headIndex), usedSlots - 1)
    ELSE IF o \in FromHead THEN Ring(Pred(headIndex), usedSlots + 1)
    ELSE Ring(headIndex, usedSlots + 1)
Content == IF lock1 = Free \/ pc[lock1] # "flag"
           THEN Ring(headIndex, usedSlots) ELSE Before(op[lock1])

Phase(p) == IF pc[p] = "idle" THEN "idle"
            ELSE IF pc[p] \in {"unlock", "return"} THEN "done" ELSE "called"

Result(p) == IF Phase(p) = "done" THEN res[p] ELSE NoItem
AbsPhase == [p \in Process |-> Phase(p)]
AbsRes == [p \in Process |-> Result(p)]

Deque == INSTANCE WorkDeque WITH
    Capacity <- MaxItems, items <- Content, phase <- AbsPhase, res <- AbsRes

\* omp_queue.c:559-964: a queue that grows is the queue of WorkDeque without
\* its bound: no call loses, duplicates or reorders an item, none is refused.
DequeStep == [Deque!Next]_(Deque!vars)

-----------------------------------------------------------------------------
(* Why: the inductive invariant *)

\* The next of a slot is linked back to it, or neither is linked.
Slot == DOMAIN slots
LinkInv ==
    /\ next \in [Slot -> Slot \cup {NoSlot}] /\ prev \in [Slot -> Slot \cup {NoSlot}]
    /\ \A s \in Slot : /\ Succ(s) \in Slot /\ Pred(s) \in Slot
                       /\ prev[Succ(s)] = IF next[s] = NoSlot THEN NoSlot ELSE s
                       /\ next[Pred(s)] = IF prev[s] = NoSlot THEN NoSlot ELSE s

\* The slots are one ring, of which used_slots follow the head; so a full one has
\* its head next to its tail, where the list gets its new block.
IsRing(r) ==
    /\ r[0] = headIndex /\ r[usedSlots] = tailIndex
    /\ \A i \in 0..(numSlots - 1) :
          Succ(r[i]) = IF i = numSlots - 1 THEN r[0] ELSE r[i + 1]
    /\ \A i, j \in 0..(numSlots - 1) : r[i] = r[j] => i = j
RingInv ==
    /\ numSlots \in Nat \ {0} /\ usedSlots \in 0..(numSlots - 1)
    /\ \E r \in [0..(numSlots - 1) -> Slot] : IsRing(r)
    /\ IF Storage = "list" THEN LinkInv ELSE Slot = 0..(numSlots - 1)

\* what the holder of lock1 has tested stays true, and is_empty is exact but
\* between the move of an index and the update of the flag
Holding == {"check", "grow", "move", "flag", "unlock"}
HolderInv ==
    /\ lock1 # Free => lock1 \in Process /\ pc[lock1] \in Holding
    /\ \A p \in Process :
          /\ pc[p] \in Holding => lock1 = p
          /\ pc[p] = "grow" => op[p] \in Puts /\ Full
          /\ pc[p] = "move" => IF op[p] \in Puts THEN ~Full ELSE usedSlots > 0
    /\ (\A p \in Process : pc[p] # "flag") => (isEmpty <=> usedSlots = 0)

\* what it has moved is what it will return, and is_empty is of before the move
MovedInv ==
    \A p \in Process : pc[p] = "flag" =>
        IF op[p] \in Puts
        THEN /\ res[p] = arg[p] /\ usedSlots > 0 /\ usedSlots <= MaxItems
             /\ isEmpty <=> usedSlots = 1
             /\ arg[p] = slots[IF op[p] = "putTail" THEN tailIndex ELSE Succ(headIndex)]
        ELSE /\ ~isEmpty /\ usedSlots < numSlots - 1
             /\ res[p] = slots[IF op[p] \in FromHead THEN headIndex ELSE Succ(tailIndex)]

\* one process puts, and has room
Pending == {"lock", "check", "grow", "move"}
CallInv ==
    \A p \in Process :
        /\ op[p] \in Puts \cup Gets \cup Steals
        /\ op[p] \in Puts => p = Owner /\ (pc[p] \in Pending => usedSlots < MaxItems)
        /\ pc[p] = "peek" => op[p] \notin Puts
        /\ pc[p] \in {"idle", "peek"} \cup Pending => res[p] = NoItem

TypeInv == /\ Slot \subseteq Nat /\ \E m \in Slot : \A s \in Slot : s <= m
           /\ pc \in [Process -> {"idle", "peek", "lock", "return"} \cup Holding]
           /\ DOMAIN op = Process /\ DOMAIN arg = Process /\ DOMAIN res = Process

GrowInv == TypeInv /\ RingInv /\ HolderInv /\ MovedInv /\ CallInv
=============================================================================
