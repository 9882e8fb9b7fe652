---------------------------- MODULE LocklessDeque ----------------------------
(***************************************************************************)
(* The task queue without locks (omp_queue.c:970-1091): its owner puts and *)
(* gets at the tail, everybody takes from the head with a compare-and-     *)
(* swap.  num_slots - 1 slots can be in use.                               *)
(*                                                                         *)
(* The stores of the owner go through a store buffer, as those of an x86   *)
(* processor do: others see them later, in order.  __ompc_mfence waits for *)
(* it to drain.  Loads are not reordered; each is a step.                  *)
(*                                                                         *)
(* head_index and tail_index only grow here; in the code they are unsigned *)
(* 32-bit numbers, of which num_slots has to be a divisor.                 *)
(***************************************************************************)
EXTENDS Integers, Sequences

CONSTANTS
    Process, Owner,
    Item, NoItem,
    NumSlots,
    MaxTail        \* bound: tail_index

VARIABLES
    slots, headIndex, tailIndex,     \* shared memory
    buffer,                          \* the owner's stores on their way to it
    pc, op, arg, res,
    myHead, myTail                   \* locals of a call: head_index, tail_index

sharedVars == <<slots, headIndex, tailIndex, buffer>>
callVars == <<op, arg>>
localVars == <<myHead, myTail>>
vars == <<sharedVars, pc, callVars, res, localVars>>

Init ==
    /\ slots = [i \in 0..(NumSlots - 1) |-> NoItem]
    /\ headIndex = 0 /\ tailIndex = 0
    /\ buffer = <<>>
    /\ pc = [p \in Process |-> "idle"]
    /\ op = [p \in Process |-> "getHead"]
    /\ arg = [p \in Process |-> NoItem]
    /\ res = [p \in Process |-> NoItem]
    /\ myHead = [p \in Process |-> 0]
    /\ myTail = [p \in Process |-> 0]

Goto(p, label) == pc' = [pc EXCEPT ![p] = label]
Slot(i) == i % NumSlots

\* the owner's stores; what it reads back through its buffer b: its last store to
\* the place if that is still there, or else what memory holds
TailStore(t) == [to |-> "tail", index |-> t, item |-> NoItem]
ItemStore(t, x) == [to |-> "slot", index |-> t, item |-> x]
Latest(b, stores) == b[CHOOSE k \in stores : \A j \in stores : j <= k]
TailStores(b) == {k \in DOMAIN b : b[k].to = "tail"}
SlotStores(b, i) == {k \in DOMAIN b : b[k].to = "slot" /\ Slot(b[k].index) = i}
TailThrough(b, t) == IF TailStores(b) = {} THEN t ELSE Latest(b, TailStores(b)).index
SlotThrough(b, x, i) == IF SlotStores(b, i) = {} THEN x ELSE Latest(b, SlotStores(b, i)).item
OwnTail == TailThrough(buffer, tailIndex)
OwnSlot(i) == SlotThrough(buffer, slots[i], i)

\* a store reaches memory
Drain ==
    /\ buffer # <<>>
    /\ LET s == Head(buffer)
       IN \/ /\ s.to = "tail"
             /\ tailIndex' = s.index /\ UNCHANGED slots
          \/ /\ s.to = "slot"
             /\ slots' = [slots EXCEPT ![Slot(s.index)] = s.item] /\ UNCHANGED tailIndex
    /\ buffer' = Tail(buffer)
    /\ UNCHANGED <<headIndex, pc, callVars, res, localVars>>

\* the calls: put_tail and get_tail are the owner's
Call(p, o, x, label) ==
    /\ pc[p] = "idle"
    /\ op' = [op EXCEPT ![p] = o]
    /\ arg' = [arg EXCEPT ![p] = x]
    /\ Goto(p, label)
    /\ UNCHANGED <<sharedVars, res, localVars>>

CallPut == /\ OwnTail < MaxTail
           /\ \E x \in Item : Call(Owner, "putTail", x, "testFull")
CallGet == Call(Owner, "getTail", NoItem, "down")
CallSteal(p) == Call(p, "stealHead", NoItem, "readHead")

-----------------------------------------------------------------------------
(* __ompc_queue_lockless_put_tail *)

TestFull ==
    /\ pc[Owner] = "testFull"
    /\ Goto(Owner, IF OwnTail - headIndex = NumSlots - 1 THEN "return" ELSE "store")
    /\ UNCHANGED <<sharedVars, callVars, res, localVars>>

Store ==
    /\ pc[Owner] = "store"
    /\ buffer' = buffer \o <<ItemStore(OwnTail, arg[Owner]), TailStore(OwnTail + 1)>>
    /\ res' = [res EXCEPT ![Owner] = arg[Owner]]
    /\ Goto(Owner, "return")
    /\ UNCHANGED <<slots, headIndex, tailIndex, callVars, localVars>>

-----------------------------------------------------------------------------
(* __ompc_queue_lockless_get_tail *)

Down ==
    /\ pc[Owner] = "down"
    /\ buffer' = Append(buffer, TailStore(OwnTail - 1))
    /\ myTail' = [myTail EXCEPT ![Owner] = OwnTail - 1]
    /\ Goto(Owner, "fence")
    /\ UNCHANGED <<slots, headIndex, tailIndex, callVars, res, myHead>>

\* mutant: no fence between the store of the tail and the load of the head
FenceLeftOut ==
    /\ pc[Owner] = "fence"
    /\ Goto(Owner, "compare")
    /\ UNCHANGED <<sharedVars, callVars, res, localVars>>

Fence ==
    /\ pc[Owner] = "fence" /\ buffer = <<>>
    /\ Goto(Owner, "compare")
    /\ UNCHANGED <<sharedVars, callVars, res, localVars>>

\* with more than one item left the last is the owner's without further ado
Compare ==
    /\ pc[Owner] = "compare"
    /\ myHead' = [myHead EXCEPT ![Owner] = headIndex]
    /\ LET left == myTail[Owner] - headIndex
       IN /\ res' = [res EXCEPT ![Owner] = IF left < 0 THEN NoItem
                                           ELSE OwnSlot(Slot(myTail[Owner]))]
          /\ Goto(Owner, IF left < 0 THEN "restore"
                         ELSE IF left > 0 THEN "return" ELSE "claim")
    /\ UNCHANGED <<sharedVars, callVars, myTail>>

\* the last item: compare-and-swap against the thieves; it drains the buffer
Claim ==
    /\ pc[Owner] = "claim" /\ buffer = <<>>
    /\ IF headIndex = myHead[Owner]
       THEN headIndex' = headIndex + 1 /\ UNCHANGED res
       ELSE res' = [res EXCEPT ![Owner] = NoItem] /\ UNCHANGED headIndex
    /\ Goto(Owner, "restore")
    /\ UNCHANGED <<slots, tailIndex, buffer, callVars, localVars>>

Restore ==
    /\ pc[Owner] = "restore"
    /\ buffer' = Append(buffer, TailStore(headIndex))
    /\ Goto(Owner, "return")
    /\ UNCHANGED <<slots, headIndex, tailIndex, callVars, res, localVars>>

-----------------------------------------------------------------------------
(* __ompc_queue_lockless_get_head *)

ReadHead(p) ==
    /\ pc[p] = "readHead"
    /\ myHead' = [myHead EXCEPT ![p] = headIndex]
    /\ Goto(p, "readTail")
    /\ UNCHANGED <<sharedVars, callVars, res, myTail>>

ReadTail(p) ==
    /\ pc[p] = "readTail"
    /\ myTail' = [myTail EXCEPT ![p] = IF p = Owner THEN OwnTail ELSE tailIndex]
    /\ Goto(p, "readItem")
    /\ UNCHANGED <<sharedVars, callVars, res, myHead>>

ReadItem(p) ==
    /\ pc[p] = "readItem"
    /\ res' = [res EXCEPT ![p] = IF myTail[p] <= myHead[p] THEN NoItem
                                 ELSE IF p = Owner THEN OwnSlot(Slot(myHead[p]))
                                 ELSE slots[Slot(myHead[p])]]
    /\ Goto(p, IF myTail[p] <= myHead[p] THEN "return" ELSE "swap")
    /\ UNCHANGED <<sharedVars, callVars, localVars>>

Swap(p) ==
    /\ pc[p] = "swap" /\ (p = Owner => buffer = <<>>)
    /\ IF headIndex = myHead[p]
       THEN headIndex' = headIndex + 1 /\ UNCHANGED res
       ELSE res' = [res EXCEPT ![p] = NoItem] /\ UNCHANGED headIndex
    /\ Goto(p, "return")
    /\ UNCHANGED <<slots, tailIndex, buffer, callVars, localVars>>

Return(p) ==
    /\ pc[p] = "return"
    /\ res' = [res EXCEPT ![p] = NoItem]
    /\ myHead' = [myHead EXCEPT ![p] = 0]
    /\ myTail' = [myTail EXCEPT ![p] = 0]
    /\ op' = [op EXCEPT ![p] = "getHead"]
    /\ arg' = [arg EXCEPT ![p] = NoItem]
    /\ Goto(p, "idle")
    /\ UNCHANGED sharedVars

OwnerStep == \/ CallPut \/ CallGet \/ TestFull \/ Store
             \/ Down \/ Fence \/ Compare \/ Claim \/ Restore
Step(p) == \/ CallSteal(p) \/ ReadHead(p) \/ ReadTail(p) \/ ReadItem(p)
           \/ Swap(p) \/ Return(p)

Next == Drain \/ OwnerStep \/ \E p \in Process : Step(p)

Spec == Init /\ [][Next]_vars

-----------------------------------------------------------------------------
(* Properties *)

(* A put takes effect when the owner stores the tail, a steal when it      *)
(* swaps the head, a get from the tail when it reads head_index, unless    *)
(* one item is left: then when it swaps.  Until a get has set tail_index   *)
(* right again the tail is one further than the owner reads it.            *)
AbsTail == IF pc[Owner] \in {"fence", "compare", "claim", "restore"}
           THEN OwnTail + 1 ELSE OwnTail
Content == [i \in 1..(AbsTail - headIndex) |-> OwnSlot(Slot(headIndex + i - 1))]

Phase(p) ==
    IF pc[p] = "idle" THEN "idle"
    ELSE IF pc[p] \in {"return", "restore"} THEN "done" ELSE "called"
AbsPhase == [p \in Process |-> Phase(p)]
Result(p) == IF Phase(p) = "done" THEN res[p] ELSE NoItem
AbsRes == [p \in Process |-> Result(p)]

\* what the refused put and a get that will find nothing answer is known from
\* the step that decides it
Deque == INSTANCE WorkDeque WITH
    Capacity <- NumSlots - 1, items <- Content, phase <- AbsPhase, res <- AbsRes

\* omp_queue.c:970-1091: without a lock, and with the owner's stores delayed,
\* every item is handed out once, to the owner from the tail and to thieves
\* from the head in order; a get of the owner fails only when the queue is
\* empty, a put only when it is full.
DequeStep == [Deque!StealNext]_(Deque!vars)

-----------------------------------------------------------------------------
(* Why: the inductive invariant *)

OwnerLabels == {"testFull", "store", "down", "fence", "compare", "claim", "restore"}
StealLabels == {"readHead", "readTail", "readItem", "swap"}
Stores == [to : {"tail", "slot"}, index : Int, item : Item \cup {NoItem}]
TypeInv ==
    /\ slots \in [0..(NumSlots - 1) -> Item \cup {NoItem}]
    /\ headIndex \in Nat /\ tailIndex \in Int /\ buffer \in Seq(Stores)
    /\ pc \in [Process -> OwnerLabels \cup StealLabels \cup {"idle", "return"}]
    /\ op \in [Process -> {"putTail", "getTail", "getHead", "stealHead"}]
    /\ arg \in [Process -> Item \cup {NoItem}] /\ res \in [Process -> Item \cup {NoItem}]
    /\ myHead \in [Process -> Int] /\ myTail \in [Process -> Int]

\* No item waits in the buffer for a slot below tail_index, so what a thief may take
\* it can read; a smaller tail_index is the last of the stores.
BufferInv ==
    /\ buffer # <<>> => buffer[Len(buffer)] = TailStore(OwnTail)
    /\ pc[Owner] \in {"compare", "claim", "restore"} => buffer = <<>>
    /\ tailIndex <= AbsTail
    /\ \A k \in DOMAIN buffer :
          /\ buffer[k].index <= AbsTail
          /\ buffer[k].to = "slot" =>
                /\ buffer[k].index \in headIndex..(AbsTail - 1)
                /\ tailIndex <= buffer[k].index
                /\ \A j \in 1..k : buffer[j].index <= buffer[k].index

\* At most num_slots - 1 slots are in use, and the get of the owner knows the index
\* of its item.
SizeInv ==
    /\ headIndex <= AbsTail /\ AbsTail <= headIndex + NumSlots - 1
    /\ pc[Owner] = "store" => OwnTail < headIndex + NumSlots - 1
    /\ pc[Owner] \in {"fence", "compare", "claim"} => myTail[Owner] = OwnTail
    /\ pc[Owner] = "claim" => /\ myHead[Owner] = OwnTail /\ OwnTail <= headIndex
                              /\ res[Owner] = OwnSlot(Slot(OwnTail))
    /\ pc[Owner] = "restore" => headIndex = AbsTail

\* As long as head_index has not moved, a thief has in hand what is at the head: the
\* item has left the buffer.
HasHead(p) == /\ myHead[p] = headIndex
              /\ pc[p] \in {"readItem", "swap"}
              /\ pc[p] = "readItem" => myHead[p] < myTail[p]
ThiefInv ==
    \A p \in Process :
        /\ pc[p] \in {"readTail", "readItem", "swap"} => myHead[p] <= headIndex
        /\ HasHead(p) => headIndex < AbsTail
        /\ HasHead(p) /\ p # Owner =>
              \A k \in DOMAIN buffer : buffer[k].to = "slot" => headIndex < buffer[k].index
        /\ HasHead(p) /\ pc[p] = "swap" => res[p] = OwnSlot(Slot(headIndex))

CallInv ==
    \A p \in Process :
        /\ pc[p] \in OwnerLabels => p = Owner
        /\ pc[p] \in {"testFull", "store"} => op[p] = "putTail" /\ arg[p] \in Item
        /\ pc[p] \in OwnerLabels \ {"testFull", "store"} => op[p] = "getTail"
        /\ pc[p] \in StealLabels => op[p] = "stealHead"
        /\ pc[p] \in {"idle", "testFull"} => res[p] = NoItem

LocklessInv == TypeInv /\ BufferInv /\ SizeInv /\ ThiefInv /\ CallInv
=============================================================================
