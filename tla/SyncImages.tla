-------------------------------- MODULE SyncImages --------------------------------
(***************************************************************************)
(* SYNC IMAGES (gasnet_comm_layer.c:4643-5165): an image signals every     *)
(* image of its list and then takes one signal from each.  The four        *)
(* algorithms differ in what a signal is.  A remote write or an active     *)
(* message is under way until it lands; the next statement waits for the   *)
(* image's own writes, not for its messages.  Lists hold no image twice    *)
(* (Fortran forbids it) and leave out the image itself.  No image stops    *)
(* (README, section 8).                                                    *)
(***************************************************************************)
EXTENDS Naturals, Sequences, FiniteSets, Functions

CONSTANTS
    Image,       \* 0..n
    Callers,     \* those that execute such statements (a bound)
    Algorithm,   \* counter, ping_pong, sense_rev or csr
    Near(_, _),  \* two images are on one node and share memory
    Statements,  \* SYNC IMAGES statements of an image (a bound)
    Chars        \* values of a char; the code's 256 (a bound)

VARIABLES
    named,       \* named[p][q]: statements of p that name q
    list, at,    \* image_list; how many of it have been signalled
    todo,        \* images whose signal p has yet to take
    pc,
    flag,        \* flag[p][q]: sync_flags[q] of image p, its val in csr
    check,       \* check[p][q]: sync_flags[q].s.check of image p
    sense,       \* sense[p][q]: sync_senses[q] of image p
    got,         \* x: the image whose signal p took, and the signal
    net          \* net[p][q]: what p has under way to q: a number of
                 \* messages, or a value to be written, 0 being none

flagVars == <<flag, check, net>>
callVars == <<named, list, at>>
vars == <<callVars, todo, pc, flagVars, sense, got>>

Pairs == [p \in Image |-> [q \in Image |-> 0]]
NoSignal == <<>>

Init == /\ named = Pairs
        /\ list = [p \in Image |-> <<>>] /\ at = [p \in Image |-> 0]
        /\ todo = [p \in Image |-> {}]
        /\ pc = [p \in Image |-> "out"]
        /\ flag = Pairs /\ check = Pairs /\ sense = Pairs /\ net = Pairs
        /\ got = [p \in Image |-> NoSignal]

Goto(p, label) == pc' = [pc EXCEPT ![p] = label]

-----------------------------------------------------------------------------
(* Signalling *)

\* the images of a statement, in any order
Lists == [p \in Callers |->
            {l \in UNION {[1..n -> Callers \ {p}] : n \in 1..(Cardinality(Callers) - 1)} :
               IsInjective(l)}]

\* wait_on_all_pending_accesses
WritesLanded(p) == Algorithm = "counter" \/ \A q \in Image : net[p][q] = 0

Call(p, l) ==
    /\ pc[p] = "out" /\ WritesLanded(p)
    /\ \A q \in Image : named[p][q] < Statements
    /\ list' = [list EXCEPT ![p] = l]
    /\ named' = [named EXCEPT ![p] = [q \in Image |-> IF q \in Range(l) THEN @[q] + 1 ELSE @[q]]]
    /\ at' = [at EXCEPT ![p] = 0]
    /\ todo' = [todo EXCEPT ![p] = Range(l)]
    /\ Goto(p, "signal")
    /\ UNCHANGED <<flagVars, sense, got>>

NextSense(s) == (s % 2) + 1
ByChars(p, q) == Algorithm = "csr" /\ Near(p, q)
BySense(p, q) == Algorithm = "sense_rev" \/ (Algorithm = "csr" /\ ~Near(p, q))

\* val += 1 in shared memory: no other image writes this val
BumpVal(p, q) ==
    /\ flag' = [flag EXCEPT ![q][p] = (@ + 1) % Chars]
    /\ UNCHANGED <<check, net, sense>>

WriteSense(p, q) ==
    /\ sense' = [sense EXCEPT ![p][q] = NextSense(@)]
    /\ net' = [net EXCEPT ![p][q] = NextSense(sense[p][q])]
    /\ UNCHANGED <<flag, check>>

\* fetch-and-add in shared memory, or an active message that does it
Count(p, q) ==
    /\ IF Near(p, q) THEN flag' = [flag EXCEPT ![q][p] = @ + 1] /\ UNCHANGED net
                     ELSE net' = [net EXCEPT ![p][q] = @ + 1] /\ UNCHANGED flag
    /\ UNCHANGED <<check, sense>>

\* of two images the lower one speaks first
Ping(p, q) ==
    /\ net' = IF p < q THEN [net EXCEPT ![p][q] = 1] ELSE net
    /\ UNCHANGED <<flag, check, sense>>

Signal(p) ==
    LET q == list[p][at[p] + 1] IN
    /\ pc[p] = "signal"
    /\ \/ Algorithm = "counter" /\ Count(p, q)
       \/ Algorithm = "ping_pong" /\ Ping(p, q)
       \/ BySense(p, q) /\ WriteSense(p, q)
       \/ ByChars(p, q) /\ BumpVal(p, q)
    /\ at' = [at EXCEPT ![p] = @ + 1]
    /\ Goto(p, IF at[p] + 1 = Len(list[p]) THEN "take" ELSE "signal")
    /\ UNCHANGED <<named, list, todo, got>>

\* a write or a message lands
Land(p, q) ==
    /\ net[p][q] # 0
    /\ IF Algorithm = "counter"
         THEN /\ flag' = [flag EXCEPT ![q][p] = @ + 1]
              /\ net' = [net EXCEPT ![p][q] = @ - 1]
         ELSE /\ flag' = [flag EXCEPT ![q][p] = net[p][q]]
              /\ net' = [net EXCEPT ![p][q] = 0]
    /\ UNCHANGED <<callVars, todo, pc, check, sense, got>>

-----------------------------------------------------------------------------
(* Taking the signals, in the order of the list; ping_pong polls them all *)

Turn(p, q) == /\ pc[p] = "take" /\ q \in todo[p]
              /\ \/ Algorithm = "ping_pong"
                 \/ \E k \in DOMAIN list[p] : list[p][k] = q /\ \A j \in 1..(k - 1) : list[p][j] \notin todo[p]

Taken(p, q) == /\ todo' = [todo EXCEPT ![p] = @ \ {q}]
               /\ Goto(p, IF todo[p] = {q} THEN "out" ELSE "take")

TakeCount(p, q) ==
    /\ Turn(p, q) /\ Algorithm = "counter"
    /\ flag[p][q] # 0
    /\ flag' = [flag EXCEPT ![p][q] = @ - 1]
    /\ Taken(p, q)
    /\ UNCHANGED <<callVars, check, net, sense, got>>

TakePing(p, q) ==
    /\ Turn(p, q) /\ Algorithm = "ping_pong"
    /\ flag[p][q] = 1
    /\ flag' = [flag EXCEPT ![p][q] = 0]
    /\ IF q < p THEN got' = [got EXCEPT ![p] = <<q, 1>>] /\ Goto(p, "pong") /\ UNCHANGED todo
                ELSE Taken(p, q) /\ UNCHANGED got
    /\ UNCHANGED <<callVars, check, net, sense>>

Pong(p) ==
    LET q == got[p][1] IN
    /\ pc[p] = "pong"
    /\ net' = [net EXCEPT ![p][q] = 1]
    /\ Taken(p, q)
    /\ got' = [got EXCEPT ![p] = NoSignal]
    /\ UNCHANGED <<callVars, flag, check, sense>>

\* mutant: the check stays where it is
TakeCharAgain(p, q) ==
    /\ Turn(p, q) /\ ByChars(p, q)
    /\ flag[p][q] # check[p][q]
    /\ Taken(p, q)
    /\ UNCHANGED <<callVars, flagVars, sense, got>>

\* the check of csr; val may be two ahead of it
TakeChar(p, q) ==
    /\ Turn(p, q) /\ ByChars(p, q)
    /\ flag[p][q] # check[p][q]
    /\ check' = [check EXCEPT ![p][q] = (@ + 1) % Chars]
    /\ Taken(p, q)
    /\ UNCHANGED <<callVars, flag, net, sense, got>>

\* x = SYNC_SWAP(&sync_flags[q].value, 0)
Swap(p, q) ==
    /\ Turn(p, q) /\ BySense(p, q)
    /\ flag[p][q] # 0
    /\ flag' = [flag EXCEPT ![p][q] = 0]
    /\ IF flag[p][q] = sense[p][q]
         THEN Taken(p, q) /\ UNCHANGED got
         ELSE got' = [got EXCEPT ![p] = <<q, flag[p][q]>>] /\ Goto(p, "putBack") /\ UNCHANGED todo
    /\ UNCHANGED <<callVars, check, net, sense>>

\* it was the signal for the next statement, which had overwritten this one's
PutBack(p) ==
    /\ pc[p] = "putBack"
    /\ flag' = [flag EXCEPT ![p][got[p][1]] = got[p][2]]
    /\ Taken(p, got[p][1])
    /\ got' = [got EXCEPT ![p] = NoSignal]
    /\ UNCHANGED <<callVars, check, net, sense>>

-----------------------------------------------------------------------------
Take(p, q) == TakeCount(p, q) \/ TakePing(p, q) \/ TakeChar(p, q) \/ Swap(p, q)
Progress(p) == \/ Signal(p) \/ Pong(p) \/ PutBack(p)
               \/ \E q \in Image : Take(p, q)
Landing(p) == \E q \in Image : Land(p, q)

(* Images may be given statements that do not match, and wait for ever.    *)
Unmatched ==
    /\ \A p \in Image : pc[p] # "out" => \E q \in todo[p] : named[q][p] < named[p][q]
    /\ UNCHANGED vars

Next == \/ \E p \in Callers : \/ \E l \in Lists[p] : Call(p, l)
                              \/ Progress(p) \/ Landing(p)
        \/ Unmatched

\* an image in a statement keeps running, and what it sends lands
Spec == /\ Init /\ [][Next]_vars
        /\ \A p \in Callers : WF_vars(Progress(p)) /\ WF_vars(Landing(p))

Partners == [p \in Image |-> IF pc[p] = "out" THEN {} ELSE Range(list[p])]
=============================================================================
