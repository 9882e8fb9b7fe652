------------------------------ MODULE WorkDeque ------------------------------
(***************************************************************************)
(* What a task queue promises its callers (omp_queue.h): each call takes   *)
(* effect in one step between its invocation and its return, on a bounded  *)
(* sequence of items.  A get returns NULL only when the queue is empty at  *)
(* that step; a steal may also give up when another call is in progress.   *)
(* A put that succeeds returns its item here (1 in the code), NoItem       *)
(* stands for NULL and for the 0 of a put that finds the queue full.       *)
(***************************************************************************)
EXTENDS Naturals, Sequences

CONSTANTS Process, Item, NoItem, Capacity

Puts == {"putHead", "putTail"}
Gets == {"getHead", "getTail"}
Steals == {"stealHead", "stealTail"}
Ops == Puts \cup Gets \cup Steals
FromHead == {"getHead", "stealHead"}
FromTail == {"getTail", "stealTail"}

VARIABLES
    items,       \* the content, head first
    op, arg,     \* the call each process has made, and its argument
    phase,       \* idle, called or done
    res          \* the result of a call that is done

vars == <<items, op, arg, phase, res>>

Init ==
    /\ items = <<>>
    /\ op = [p \in Process |-> "getHead"]
    /\ arg = [p \in Process |-> NoItem]
    /\ phase = [p \in Process |-> "idle"]
    /\ res = [p \in Process |-> NoItem]

Call(p) ==
    /\ phase[p] = "idle"
    /\ phase' = [phase EXCEPT ![p] = "called"]
    /\ \E o \in Ops, x \in Item :
         /\ op' = [op EXCEPT ![p] = o]
         /\ arg' = [arg EXCEPT ![p] = IF o \in Puts THEN x ELSE NoItem]
    /\ UNCHANGED <<items, res>>

\* the call of p takes effect, leaving the content s and the result x
Done(p, s, x) ==
    /\ phase[p] = "called"
    /\ phase' = [phase EXCEPT ![p] = "done"]
    /\ items' = s
    /\ res' = [res EXCEPT ![p] = x]
    /\ UNCHANGED <<op, arg>>

PutHead(p) == /\ op[p] = "putHead" /\ Len(items) < Capacity
              /\ Done(p, <<arg[p]>> \o items, arg[p])
PutTail(p) == /\ op[p] = "putTail" /\ Len(items) < Capacity
              /\ Done(p, Append(items, arg[p]), arg[p])
TakeHead(p) == /\ op[p] \in FromHead /\ items # <<>>
               /\ Done(p, Tail(items), Head(items))
TakeTail(p) == /\ op[p] \in FromTail /\ items # <<>>
               /\ Done(p, SubSeq(items, 1, Len(items) - 1), items[Len(items)])
Fail(p) == /\ \/ op[p] \in Puts /\ Len(items) = Capacity
              \/ op[p] \notin Puts /\ items = <<>>
              \/ op[p] \in Steals /\ \E o \in Process \ {p} : phase[o] # "idle"
           /\ Done(p, items, NoItem)

Return(p) ==
    /\ phase[p] = "done"
    /\ phase' = [phase EXCEPT ![p] = "idle"]
    /\ op' = [op EXCEPT ![p] = "getHead"]
    /\ arg' = [arg EXCEPT ![p] = NoItem]
    /\ res' = [res EXCEPT ![p] = NoItem]
    /\ UNCHANGED items

Next == \E p \in Process : \/ Call(p) \/ Return(p) \/ Fail(p)
                           \/ PutHead(p) \/ PutTail(p)
                           \/ TakeHead(p) \/ TakeTail(p)

Spec == Init /\ [][Next]_vars

-----------------------------------------------------------------------------
(* The promise of a queue without locks: a steal may give up at any time,  *)
(* because the store of a put may be on its way when the put has returned. *)

GiveUp(p) == op[p] \in Steals /\ Done(p, items, NoItem)

StealNext == Next \/ \E p \in Process : GiveUp(p)

StealSpec == Init /\ [][StealNext]_vars
=============================================================================
