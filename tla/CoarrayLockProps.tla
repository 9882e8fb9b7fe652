---------------------------- MODULE CoarrayLockProps ----------------------------
(***************************************************************************)
(* The properties of CoarrayLock and the invariants that carry their       *)
(* proofs: IInv, where the lock is, QueueInv, what links announce, and     *)
(* OrderInv, who came before whom.                                         *)
(***************************************************************************)
EXTENDS CoarrayLock

\* History, which the code does not have: ahead[i], the images that have put
\* themselves into the lock variable before i and have not unlocked since.
VARIABLE ahead

Pc == {"out", "enqueue", "link", "waiting", "held", "dequeue", "putBack", "await"}

\* The image whose lock it is: it is in the segment or unlocks, and has not
\* given the lock away; or it has been granted the lock and not noticed yet.
Owns(i) == \/ pc[i] \in {"held", "dequeue"}
           \/ pc[i] = "await" /\ found[i] = NoImage
           \/ pc[i] = "waiting" /\ req[i].locked = 0

Grants == {m \in net : m = Grant(m.to)}

LinkWord == [field : {"image", "ofst"}, value : Image \cup {NoImage}]
            \cup [field : {"done"}, value : {0, 1}]

TypeOK ==
    /\ tail \in Image \cup {NoImage}
    /\ req \in [Image -> [locked : {0, 1}, image : Image \cup {NoImage},
                          ofst : Image \cup {NoImage}, done : {0, 1}]]
    /\ pc \in [Image -> Pc]
    /\ found \in [Image -> Image \cup {NoImage}]
    /\ \A m \in net :
         \/ m = Grant(m.to)
         \/ /\ m = [to |-> m.to, words |-> m.words]
            /\ m.words \in Seq(LinkWord) /\ m.words # <<>>

\* The lock is in one place: with an image, in a grant under way, or free.
OneOwner == /\ \A i, j \in Image : Owns(i) /\ Owns(j) => i = j
            /\ \A m \in Grants, i \in Image : ~Owns(i)
            /\ \A m, n \in Grants : m = n

-----------------------------------------------------------------------------
\* lock.c:98-375: between LOCK and UNLOCK an image is alone, whichever
\* way the lock is passed on.
MutualExclusion ==
    \A i, j \in Image : pc[i] = "held" /\ pc[j] = "held" => i = j

\* lock.c:463-475, 546-551: a lock variable that reads as unlocked (STAT_UNLOCKED,
\* and the test of acquired_lock=) belongs to no image.
EmptyMeansFree ==
    tail = NoImage => Grants = {} /\ \A i \in Image : ~Owns(i)

\* An image that puts its victims back has some.
HasVictims == \A i \in Image : pc[i] = "putBack" => found[i] # NoImage

IInv == TypeOK /\ OneOwner /\ EmptyMeansFree /\ HasVictims

\* lock.c:158-163, 247-249, 333-347: a remote write lands in a request that is
\* still allocated and waits for it: a link at an image that has not passed the
\* lock on, a grant at an image that spins.
NoStrayWrite == \A m \in net :
    IF m \in Grants
      THEN pc[m.to] = "waiting" /\ req[m.to].locked = 1
      ELSE pc[m.to] # "out" /\ ~(req[m.to].done = 1 /\ req[m.to].image # NoImage)

\* lock.c:240-249: when the successor's image is seen to be set, so is the offset
\* of its request, whichever end of the link was laid down first.
WholeLink == \A i \in Image :
    pc[i] = "await" /\ req[i].done # 0 /\ req[i].image # NoImage =>
        req[i].ofst = req[i].image

-----------------------------------------------------------------------------
(* The order of the queue                                                  *)

Queued(i) == pc[i] \notin {"out", "enqueue"}
InQueue == {i \in Image : Queued(i)}

NobodyAhead == ahead = [i \in Image |-> {}]

\* conjoined with each step; usurpers, without compare-and-swap, have no order
KeepOrder == ahead' =
    IF UnlockByCswap
      THEN [i \in Image |-> IF ~Queued(i) /\ Queued(i)' THEN InQueue
                                                       ELSE ahead[i] \cap InQueue']
      ELSE ahead

\* the lock is its own, or on its way to it
Served(i) == Owns(i) \/ Grant(i) \in net

\* lock.c:145-148, 220-249: with compare-and-swap the lock is handed on in the
\* order in which the images have swapped themselves into the lock variable:
\* whoever owns it, or is being granted it, has nobody ahead of it.
InOrder == UnlockByCswap => \A i \in Image : Served(i) => ahead[i] = {}

-----------------------------------------------------------------------------
(* Who is announced to whom: the invariant that carries NoStrayWrite and   *)
(* WholeLink, and on which InOrder rests                                   *)

Links == net \ Grants

\* a is about to write a link at i, or to put i back as the tail
Points(a, i) == found[a] = i /\ pc[a] \in {"link", "putBack", "await"}

Landed(i, image, ofst, done) ==
    req[i].image = image /\ req[i].ofst = ofst /\ req[i].done = done
Blank(i) == Landed(i, NoImage, NoImage, 0)
Whole(i) == req[i].image # NoImage /\ Landed(i, req[i].image, req[i].image, 1)

\* what has landed of a link that announces j, and what is left, make up the link
LinkOf(m, j) ==
    LET image == Word("image", j)
        ofst == Word("ofst", j)
        done == Word("done", 1)
    IN \/ m.words = <<image, ofst, done>> /\ Blank(m.to)
       \/ m.words = <<ofst, done>> /\ Landed(m.to, j, NoImage, 0)
       \/ m.words = <<done>> /\ Landed(m.to, j, j, 0)
       \/ m.words = <<done, ofst, image>> /\ Blank(m.to)
       \/ m.words = <<ofst, image>> /\ Landed(m.to, NoImage, NoImage, 1)
       \/ m.words = <<image>> /\ Landed(m.to, NoImage, j, 1)

\* i is told, or has been, that j comes next
Told(i, j) == \/ \E m \in Links : m.to = i /\ LinkOf(m, j)
              \/ Whole(i) /\ req[i].image = j

\* a request has room for one successor, from the tail or from who points at it
PointInv == \A i \in Image :
    /\ pc[i] = "link" => found[i] # NoImage
    /\ pc[i] = "dequeue" => found[i] = NoImage
    /\ \A a, b \in Image : Points(a, i) /\ Points(b, i) => a = b
    /\ \A a \in Image : Points(a, i) => tail # i /\ Blank(i) /\ Queued(i)
    /\ tail = i => Blank(i) /\ Queued(i)
    /\ ~Queued(i) => Blank(i)
    /\ Blank(i) \/ Whole(i) \/ \E m \in Links : m.to = i

LinkInv ==
    /\ \A m, n \in Links : m.to = n.to => m = n
    /\ \A m \in Links : /\ m.to \in Image /\ Queued(m.to) /\ m.to # tail
                        /\ \A a \in Image : ~Points(a, m.to)
                        /\ \E j \in Image : LinkOf(m, j)

\* who is announced is announced once, spins, and has not been granted the lock
ToldInv == \A j \in Image :
    /\ \A i, k \in Image : Told(i, j) /\ Told(k, j) => i = k
    /\ \A i \in Image : Told(i, j) =>
         pc[j] = "waiting" /\ req[j].locked = 1 /\ Grant(j) \notin net
    /\ Grant(j) \in net => pc[j] = "waiting" /\ req[j].locked = 1

GrantInv == \A m \in Grants : m.to \in Image

\* with compare-and-swap everyone but the tail has a successor
NextInv == UnlockByCswap => \A i \in Image :
    /\ pc[i] # "putBack" /\ (pc[i] = "await" => found[i] = NoImage)
    /\ Queued(i) /\ tail # i =>
         \E j \in Image : found[j] = i /\ (pc[j] = "link" \/ Told(i, j))

QueueInv == PointInv /\ LinkInv /\ ToldInv /\ GrantInv /\ NextInv

\* with compare-and-swap everyone who waits is right behind the image it found,
\* the tail is behind all the others, and of any two one is behind the other
OrderInv == UnlockByCswap =>
    /\ InQueue = IF tail = NoImage THEN {} ELSE ahead[tail] \cup {tail}
    /\ \A i \in InQueue :
         /\ i \notin ahead[i]
         /\ IF Served(i) THEN ahead[i] = {}
                        ELSE found[i] \in InQueue /\ ahead[i] = ahead[found[i]] \cup {found[i]}
    /\ \A i, j \in InQueue : i = j \/ i \in ahead[j] \/ j \in ahead[i]
    /\ \A i \in Image : ahead[i] \subseteq InQueue
    /\ \A i, j \in Image : Told(i, j) => found[j] = i

-----------------------------------------------------------------------------
\* lock.c:165-168, 232-249: with compare-and-swap every image that asks for the
\* lock gets it, if those that hold it unlock.
Granting == UnlockByCswap => \A i \in Image :
    pc[i] \in {"enqueue", "link", "waiting"} ~> pc[i] = "held"

\* lock.c:301-347: with fetch-and-store usurpers may overtake a victim again and
\* again, but as long as an image asks for the lock some image gets it.
NoneStuck ==
    (\E i \in Image : pc[i] \in {"enqueue", "link", "waiting"})
        ~> (\E i \in Image : pc[i] = "held")
=============================================================================
