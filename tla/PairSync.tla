-------------------------------- MODULE PairSync --------------------------------
(***************************************************************************)
(* What SYNC IMAGES promises: the k-th time an image names another one, it *)
(* goes on only when the other has named it for the k-th time, and it does *)
(* go on once all it has named have.                                       *)
(***************************************************************************)
EXTENDS Naturals

CONSTANT Image

VARIABLES
    named,    \* named[p][q]: SYNC IMAGES statements of p that name q
    partners  \* the images in the statement p is executing, {} if in none

vars == <<named, partners>>

Init == /\ named = [p \in Image |-> [q \in Image |-> 0]]
        /\ partners = [p \in Image |-> {}]

Begin(p, S) ==
    /\ partners[p] = {}
    /\ partners' = [partners EXCEPT ![p] = S]
    /\ named' = [named EXCEPT ![p] = [q \in Image |-> IF q \in S THEN @[q] + 1 ELSE @[q]]]

Matched(p) == \A q \in partners[p] : named[q][p] >= named[p][q]

End(p) ==
    /\ partners[p] # {} /\ Matched(p)
    /\ partners' = [partners EXCEPT ![p] = {}]
    /\ UNCHANGED named

Next == \E p \in Image : End(p) \/ \E S \in SUBSET (Image \ {p}) : S # {} /\ Begin(p, S)

Spec == Init /\ [][Next]_vars /\ \A p \in Image : WF_vars(End(p))
=============================================================================
