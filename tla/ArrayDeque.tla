------------------------------ MODULE ArrayDeque ------------------------------
(***************************************************************************)
(* The array implementation of the task queues (omp_queue.c:62-288), the   *)
(* default one: a ring of num_slots slots of which one stays free, guarded *)
(* by lock1, with is_empty as a flag that is also read without the lock.   *)
(*                                                                         *)
(* head_index is the free slot before the first item, tail_index the slot  *)
(* of the last item.  Any process may make any of the six calls.  Between  *)
(* the lock and the unlock only is_empty can be seen by other processes,   *)
(* so the writes to the other fields are one step and is_empty another.    *)
(***************************************************************************)
EXTENDS Naturals, Sequences

CONSTANTS
    Process,       \* the threads that share the queue
    Item, NoItem,  \* what the queue holds; NULL
    NumSlots       \* num_slots (O64_OMP_TASK_QUEUE_NUM_SLOTS, at least 1)

ASSUME SlotsAssumption == NumSlots \in Nat \ {0}
ASSUME ItemAssumption == NoItem \notin Item
Free == "free"
ASSUME ProcessAssumption == Free \notin Process

Puts == {"putHead", "putTail"}
Gets == {"getHead", "getTail"}
Steals == {"stealHead", "stealTail"}
Ops == Puts \cup Gets \cup Steals
FromHead == {"getHead", "stealHead"}
FromTail == {"getTail", "stealTail"}

VARIABLES
    slots, headIndex, tailIndex, usedSlots, isEmpty,  \* fields of omp_queue_t
    lock1,                                            \* its holder, or Free
    pc, op, arg, res                                  \* each process's call

queueVars == <<slots, headIndex, tailIndex, usedSlots>>
callVars == <<op, arg>>
vars == <<queueVars, isEmpty, lock1, pc, callVars, res>>

Index == 0..(NumSlots - 1)

\* __ompc_queue_array_init
Init ==
    /\ slots = [i \in Index |-> NoItem]
    /\ headIndex = 0 /\ tailIndex = 0 /\ usedSlots = 0 /\ isEmpty = TRUE
    /\ lock1 = Free
    /\ pc = [p \in Process |-> "idle"]
    /\ op = [p \in Process |-> "getHead"]
    /\ arg = [p \in Process |-> NoItem]
    /\ res = [p \in Process |-> NoItem]

-----------------------------------------------------------------------------
(* Ring arithmetic *)

Succ(i) == (i + 1) % NumSlots
\* mutant: the wrap of a tail or head that moves down is lost
PredNoWrap(i) == IF i # 0 THEN i - 1 ELSE 0
Pred(i) == IF i # 0 THEN (i - 1) % NumSlots ELSE NumSlots - 1

Full == usedSlots = NumSlots - 1

-----------------------------------------------------------------------------
(* The steps of a call *)

Goto(p, label) == pc' = [pc EXCEPT ![p] = label]

Invoke(p) ==
    /\ pc[p] = "idle"
    /\ \E o \in Ops, x \in Item :
         /\ op' = [op EXCEPT ![p] = o]
         /\ arg' = [arg EXCEPT ![p] = IF o \in Puts THEN x ELSE NoItem]
         /\ Goto(p, IF o \in Puts THEN "lock" ELSE "peek")
    /\ UNCHANGED <<queueVars, isEmpty, lock1, res>>

\* __ompc_queue_check_is_empty before the lock: gets and steals only
Peek(p) ==
    /\ pc[p] = "peek"
    /\ Goto(p, IF isEmpty THEN "return" ELSE "lock")
    /\ UNCHANGED <<queueVars, isEmpty, lock1, callVars, res>>

Lock(p) ==
    /\ pc[p] = "lock" /\ lock1 = Free
    /\ lock1' = p
    /\ Goto(p, "check")
    /\ UNCHANGED <<queueVars, isEmpty, callVars, res>>

\* __ompc_test_lock: a steal does not wait for the lock
GiveUp(p) ==
    /\ pc[p] = "lock" /\ op[p] \in Steals /\ lock1 # Free
    /\ Goto(p, "return")
    /\ UNCHANGED <<queueVars, isEmpty, lock1, callVars, res>>

\* mutant: a get or steal trusts what it read before it had the lock
CheckFullOnly(p) ==
    /\ pc[p] = "check"
    /\ Goto(p, IF op[p] \in Puts /\ Full THEN "unlock" ELSE "move")
    /\ UNCHANGED <<queueVars, isEmpty, lock1, callVars, res>>

\* with the lock held: a full queue refuses a put, an empty one a get
Check(p) ==
    /\ pc[p] = "check"
    /\ Goto(p, IF (op[p] \in Puts /\ Full) \/ (op[p] \notin Puts /\ isEmpty)
               THEN "unlock" ELSE "move")
    /\ UNCHANGED <<queueVars, isEmpty, lock1, callVars, res>>

MovePutTail(p) ==
    /\ pc[p] = "move" /\ op[p] = "putTail"
    /\ tailIndex' = Succ(tailIndex)
    /\ slots' = [slots EXCEPT ![Succ(tailIndex)] = arg[p]]
    /\ usedSlots' = usedSlots + 1
    /\ res' = [res EXCEPT ![p] = arg[p]]
    /\ Goto(p, "flag")
    /\ UNCHANGED <<headIndex, isEmpty, lock1, callVars>>

MovePutHead(p) ==
    /\ pc[p] = "move" /\ op[p] = "putHead"
    /\ slots' = [slots EXCEPT ![headIndex] = arg[p]]
    /\ headIndex' = Pred(headIndex)
    /\ usedSlots' = usedSlots + 1
    /\ res' = [res EXCEPT ![p] = arg[p]]
    /\ Goto(p, "flag")
    /\ UNCHANGED <<tailIndex, isEmpty, lock1, callVars>>

MoveTakeHead(p) ==
    /\ pc[p] = "move" /\ op[p] \in FromHead
    /\ res' = [res EXCEPT ![p] = slots[Succ(headIndex)]]
    /\ headIndex' = Succ(headIndex)
    /\ usedSlots' = usedSlots - 1
    /\ Goto(p, "flag")
    /\ UNCHANGED <<slots, tailIndex, isEmpty, lock1, callVars>>

MoveTakeTail(p) ==
    /\ pc[p] = "move" /\ op[p] \in FromTail
    /\ res' = [res EXCEPT ![p] = slots[tailIndex]]
    /\ tailIndex' = Pred(tailIndex)
    /\ usedSlots' = usedSlots - 1
    /\ Goto(p, "flag")
    /\ UNCHANGED <<slots, headIndex, isEmpty, lock1, callVars>>

\* mutant: is_empty is set by the get that leaves one item behind
FlagEarly(p) ==
    /\ pc[p] = "flag"
    /\ isEmpty' = (op[p] \notin Puts /\ (usedSlots <= 1 \/ isEmpty))
    /\ Goto(p, "unlock")
    /\ UNCHANGED <<queueVars, lock1, callVars, res>>

Flag(p) ==
    /\ pc[p] = "flag"
    /\ isEmpty' = (op[p] \notin Puts /\ (usedSlots = 0 \/ isEmpty))
    /\ Goto(p, "unlock")
    /\ UNCHANGED <<queueVars, lock1, callVars, res>>

Unlock(p) ==
    /\ pc[p] = "unlock"
    /\ lock1' = Free
    /\ Goto(p, "return")
    /\ UNCHANGED <<queueVars, isEmpty, callVars, res>>

Return(p) ==
    /\ pc[p] = "return"
    /\ op' = [op EXCEPT ![p] = "getHead"]
    /\ arg' = [arg EXCEPT ![p] = NoItem]
    /\ res' = [res EXCEPT ![p] = NoItem]
    /\ Goto(p, "idle")
    /\ UNCHANGED <<queueVars, isEmpty, lock1>>

Step(p) == \/ Invoke(p) \/ Peek(p) \/ Lock(p) \/ GiveUp(p) \/ Check(p)
           \/ MovePutTail(p) \/ MovePutHead(p)
           \/ MoveTakeHead(p) \/ MoveTakeTail(p)
           \/ Flag(p) \/ Unlock(p) \/ Return(p)

Next == \E p \in Process : Step(p)

Spec == Init /\ [][Next]_vars
=============================================================================
