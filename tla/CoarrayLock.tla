------------------------------ MODULE CoarrayLock ------------------------------
(***************************************************************************)
(* A coarray lock variable (libcaf/lock.c): the images that want it form a *)
(* queue whose tail is the lock variable.  An image that finds a           *)
(* predecessor writes its own name into the predecessor's request and      *)
(* spins on its own; whoever unlocks passes the lock on by a remote write  *)
(* to the successor's request.  GASNET unlocks with a compare-and-swap     *)
(* (comm_unlock), SHMEM and ARMCI with two fetch-and-stores                *)
(* (comm_unlock2), between which other images may usurp the lock.  The     *)
(* _stat routines repeat these with a status.                              *)
(*                                                                         *)
(* Remote writes are messages that land word by word.  A request is named  *)
(* by the image that allocated it: an image has at most one per lock.      *)
(***************************************************************************)
EXTENDS Naturals, Sequences, Images

VARIABLES
    layer,     \* the communication layer of the whole program
    tail,      \* the lock variable: the last image of the queue
    req,       \* req[i]: the request of image i
    pc,        \* where image i is in its lock or unlock statement
    found,     \* what image i last took out of the lock variable: p of
               \* comm_lock (its predecessor), then v (the tail of its
               \* victims) and u (the usurper) of comm_unlock2
    net        \* remote writes under way: [to, words]

vars == <<layer, tail, req, pc, found, net>>

TryByCswap == layer # "armci"        \* lock.c:441-475
UnlockByCswap == layer = "gasnet"    \* caf_rtl.c:723-741

NewRequest == [locked |-> 0, image |-> NoImage, ofst |-> NoImage, done |-> 0]

Init == /\ layer \in {"gasnet", "shmem", "armci"}
        /\ tail = NoImage
        /\ req = [i \in Image |-> NewRequest]
        /\ pc = [i \in Image |-> "out"]
        /\ found = [i \in Image |-> NoImage]
        /\ net = {}

At(i, from, to) == pc[i] = from /\ pc' = [pc EXCEPT ![i] = to]

-----------------------------------------------------------------------------
(* Remote writes *)

Word(f, v) == [field |-> f, value |-> v]

\* mutant: ofst behind the fields that announce it
LinkWritesLate(to, image, ofst, done) ==
    {[to |-> to, words |-> <<Word("image", image), Word("done", done),
                             Word("ofst", ofst)>>]}

\* image, ofst and done go out in one write, which the network lays down from
\* either end
LinkWrites(to, image, ofst, done) ==
    LET up == <<Word("image", image), Word("ofst", ofst), Word("done", done)>>
    IN {[to |-> to, words |-> up],
        [to |-> to, words |-> <<up[3], up[2], up[1]>>]}

Grant(to) == [to |-> to, words |-> <<Word("locked", 0)>>]

Land(m) ==
    LET w == Head(m.words)
        rest == Tail(m.words)
    IN /\ req' = [req EXCEPT ![m.to][w.field] = w.value]
       /\ net' = (net \ {m}) \cup
                   (IF rest = <<>> THEN {} ELSE {[to |-> m.to, words |-> rest]})
       /\ UNCHANGED <<tail, pc, found>>

-----------------------------------------------------------------------------
(* comm_lock, comm_lock_stat *)

\* LOCK and CRITICAL, with or without stat=
Lock(i) ==
    /\ At(i, "out", "enqueue")
    /\ req' = [req EXCEPT ![i] = NewRequest]
    /\ UNCHANGED <<tail, found, net>>

\* mutant: acquired_lock= reads the lock variable and does not store
TryRead(i) ==
    /\ TryByCswap
    /\ At(i, "out", IF tail = NoImage THEN "held" ELSE "out")
    /\ req' = [req EXCEPT ![i] = NewRequest]
    /\ UNCHANGED <<tail, found, net>>

\* LOCK with acquired_lock=: one compare-and-swap, or without it a read that
\* may then find itself in the queue all the same
TryLock(i) ==
    /\ req' = [req EXCEPT ![i] = NewRequest]
    /\ IF TryByCswap
         THEN /\ At(i, "out", IF tail = NoImage THEN "held" ELSE "out")
              /\ tail' = IF tail = NoImage THEN i ELSE tail
         ELSE /\ At(i, "out", IF tail = NoImage THEN "enqueue" ELSE "out")
              /\ UNCHANGED tail
    /\ UNCHANGED <<found, net>>

\* mutant: p.locked is not looked at
EnqueueAlone(i) ==
    /\ At(i, "enqueue", "held")
    /\ tail' = i
    /\ found' = [found EXCEPT ![i] = tail]
    /\ UNCHANGED <<req, net>>

\* p = FETCH-and-STORE(lock, q)
Enqueue(i) ==
    /\ At(i, "enqueue", IF tail = NoImage THEN "held" ELSE "link")
    /\ tail' = i
    /\ found' = [found EXCEPT ![i] = tail]
    /\ UNCHANGED <<req, net>>

\* mutant: the link is sent with locked still unset
LinkUnset(i) ==
    /\ At(i, "link", "waiting")
    /\ \E m \in LinkWrites(found[i], i, i, 1) : net' = net \cup {m}
    /\ UNCHANGED <<tail, req, found>>

\* locked is set before the predecessor can know of this request
Link(i) ==
    /\ At(i, "link", "waiting")
    /\ req' = [req EXCEPT ![i].locked = 1]
    /\ \E m \in LinkWrites(found[i], i, i, 1) : net' = net \cup {m}
    /\ UNCHANGED <<tail, found>>

Granted(i) ==
    /\ At(i, "waiting", "held")
    /\ req[i].locked = 0
    /\ UNCHANGED <<tail, req, found, net>>

-----------------------------------------------------------------------------
(* comm_unlock, comm_unlock2 and their _stat forms *)

\* the test of done
Unlock(i) ==
    /\ At(i, "held", IF req[i].done = 0 THEN "dequeue" ELSE "await")
    /\ found' = [found EXCEPT ![i] = NoImage]
    /\ UNCHANGED <<tail, req, net>>

\* the request item is deleted and its request freed; what a freed request
\* holds is left out
FreeRequest(i) == /\ req' = [req EXCEPT ![i] = NewRequest]
                  /\ found' = [found EXCEPT ![i] = NoImage]

\* COMPARE-and-SWAP or FETCH-and-STORE finds no other image in the queue
Release(i) ==
    /\ At(i, "dequeue", "out")
    /\ tail = i
    /\ tail' = NoImage
    /\ FreeRequest(i)
    /\ UNCHANGED net

\* mutant: a successor whose link has not come yet is not waited for
DropSuccessor(i) ==
    /\ UnlockByCswap /\ tail # i
    /\ At(i, "dequeue", "out")
    /\ FreeRequest(i)
    /\ UNCHANGED <<tail, net>>

\* COMPARE-and-SWAP finds a successor, whose link is waited for
KeepTail(i) ==
    /\ UnlockByCswap /\ tail # i
    /\ At(i, "dequeue", "await")
    /\ UNCHANGED <<tail, req, found, net>>

\* v = FETCH-and-STORE(lock, u) takes the successors out of the queue
TakeOut(i) ==
    /\ ~UnlockByCswap /\ tail # i
    /\ At(i, "dequeue", "putBack")
    /\ tail' = NoImage
    /\ found' = [found EXCEPT ![i] = tail]
    /\ UNCHANGED <<req, net>>

\* mutant: u is not read, the victims are linked behind v
PutBackBlind(i) ==
    /\ At(i, "putBack", "await")
    /\ tail' = found[i]
    /\ UNCHANGED <<req, found, net>>

\* u = FETCH-and-STORE(lock, v)
PutBack(i) ==
    /\ At(i, "putBack", "await")
    /\ tail' = found[i]
    /\ found' = [found EXCEPT ![i] = tail]
    /\ UNCHANGED <<req, net>>

\* mutant: with compare-and-swap, the tail it has found is taken for the successor
PassOnToTail(i) ==
    /\ At(i, "await", "out")
    /\ req[i].done # 0 /\ req[i].image # NoImage
    /\ IF found[i] = NoImage
         THEN net' = net \cup {Grant(IF UnlockByCswap THEN tail ELSE req[i].ofst)}
         ELSE \E m \in LinkWrites(found[i], req[i].image, req[i].ofst,
                                  req[i].done) :
                net' = net \cup {m}
    /\ FreeRequest(i)
    /\ UNCHANGED tail

\* the lock goes to the successor, or the victims are linked to the usurper
PassOn(i) ==
    /\ At(i, "await", "out")
    /\ req[i].done # 0 /\ req[i].image # NoImage
    /\ IF found[i] = NoImage
         THEN net' = net \cup {Grant(req[i].ofst)}
         ELSE \E m \in LinkWrites(found[i], req[i].image, req[i].ofst,
                                  req[i].done) :
                net' = net \cup {m}
    /\ FreeRequest(i)
    /\ UNCHANGED tail

-----------------------------------------------------------------------------
LockSteps(i) == Lock(i) \/ TryLock(i)
Progress(i) == \/ Enqueue(i) \/ Link(i) \/ Granted(i) \/ Release(i)
               \/ KeepTail(i) \/ TakeOut(i) \/ PutBack(i) \/ PassOn(i)
Landing == \E m \in net : Land(m)

Next == /\ \/ \E i \in Image : LockSteps(i) \/ Unlock(i) \/ Progress(i)
           \/ Landing
        /\ UNCHANGED layer

\* an image in a lock or unlock statement keeps running, remote writes land, and
\* the program unlocks what it locked
Fairness == /\ \A i \in Image : WF_vars(Progress(i)) /\ WF_vars(Unlock(i))
            /\ WF_vars(Landing)

Spec == Init /\ [][Next]_vars /\ Fairness
=============================================================================
