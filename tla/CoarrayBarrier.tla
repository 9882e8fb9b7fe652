----------------------------- MODULE CoarrayBarrier -----------------------------
(***************************************************************************)
(* SYNC TEAM and SYNC ALL in a coarray team                                *)
(* (gasnet_comm_layer.c:4217-4613, team.c:186-340): the dissemination      *)
(* barrier of all images, and the two barriers of two levels, in which     *)
(* every node's leader waits for the other images of the node, takes part  *)
(* in the dissemination of the leaders and then releases its node.  An     *)
(* image that waits for one that has stopped gives up with                 *)
(* STAT_STOPPED_IMAGE and may execute the statement again.                 *)
(***************************************************************************)
EXTENDS Integers, FiniteSets, SequencesExt

CONSTANTS
    Image,       \* 0..n: the images there can be
    Sizes,       \* images of the team
    Node(_),     \* the node of an image; its own for the flat barrier
    Counting,    \* a node's arrivals are counted (sharedcounter), not flagged
    Chars,       \* values of a barrier_flags_t (a bound)
    Episodes,    \* barriers an image completes (a bound)
    MaxStopped   \* images that stop (a bound)

VARIABLES
    teamSize,
    entered, left,   \* barriers an image has reached, passed
    pc,              \* where an image is in the barrier
    parity, sense,   \* team->barrier of each image
    flag,            \* bstep[r].local[p] of each image
    round,           \* of the dissemination, then of the releasing loop
    nodeFlag,        \* intranode_barflags[0] of each image
    stopped          \* stopped_image_exists

countVars == <<entered, left>>
senseVars == <<parity, sense>>
flagVars == <<flag, nodeFlag>>
vars == <<teamSize, countVars, pc, senseVars, flagVars, round, stopped>>

Member == {i \in Image : i < teamSize}
Zero == [i \in Image |-> 0]

\* the first image of a node leads it
Leader(i) == CHOOSE l \in Member : /\ Node(l) = Node(i)
                                   /\ \A j \in Member : Node(j) = Node(i) => l <= j
Leads(i) == Leader(i) = i
Nonleaders(i) == SetToSortSeq({j \in Member : Leader(j) = i /\ j # i}, <)
LeaderSet == SetToSortSeq({i \in Member : Leads(i)}, <)

Rounds == LET n == Len(LeaderSet) IN CHOOSE k \in 0..n : 2^k >= n /\ \A j \in 0..(k - 1) : 2^j < n
Peer(i, d) ==
    LET rank == CHOOSE k \in DOMAIN LeaderSet : LeaderSet[k] = i
    IN LeaderSet[((rank - 1 + d) % Len(LeaderSet)) + 1]
Target(i) == Peer(i, 2^round[i])
Source(i) == Peer(i, -(2^round[i]))

Init ==
    /\ teamSize \in Sizes
    /\ entered = Zero /\ left = Zero
    /\ pc = [i \in Image |-> "out"]
    /\ parity = Zero /\ sense = Zero
    /\ flag = [i \in Image |-> [r \in 0..(Cardinality(Image) - 1) |-> [p \in {0, 1} |-> 0]]]
    /\ round = Zero /\ nodeFlag = Zero
    /\ stopped = {}

Goto(i, label) == pc' = [pc EXCEPT ![i] = label]
Pass(i) == left' = [left EXCEPT ![i] = @ + 1] /\ Goto(i, "out")

-----------------------------------------------------------------------------
(* Calling it, and stopping *)

\* a statement that ended with STAT_STOPPED_IMAGE is not completed: left lags
Call(i) ==
    /\ i \in Member \ stopped /\ pc[i] = "out"
    /\ IF entered[i] = left[i]
         THEN entered[i] < Episodes /\ entered' = [entered EXCEPT ![i] = @ + 1]
         ELSE UNCHANGED entered
    /\ round' = [round EXCEPT ![i] = 0]
    /\ Goto(i, IF ~Leads(i) THEN "notify"
               ELSE IF Nonleaders(i) = <<>> THEN "test" ELSE "gather")
    /\ UNCHANGED <<teamSize, left, senseVars, flagVars, stopped>>

\* normal termination; what an image has written before has landed
Stop(i) ==
    /\ i \in Member \ stopped /\ pc[i] = "out"
    /\ Cardinality(stopped) < MaxStopped
    /\ stopped' = stopped \cup {i}
    /\ UNCHANGED <<teamSize, countVars, pc, senseVars, flagVars, round>>

\* the flag is looked at once more after the peer is seen to have stopped
GiveUp(i) ==
    /\ \/ pc[i] = "wait" /\ Leader(i) \in stopped
          /\ nodeFlag[i] = IF Counting THEN 0 ELSE 1
       \/ pc[i] = "spin" /\ Source(i) \in stopped
          /\ flag[i][round[i]][parity[i]] = sense[i]
    /\ Goto(i, "out")
    /\ UNCHANGED <<teamSize, countVars, senseVars, flagVars, round, stopped>>

-----------------------------------------------------------------------------
(* Inside a node *)

\* the leader's counter is incremented atomically, an own flag just set
Notify(i) ==
    /\ pc[i] = "notify"
    /\ nodeFlag' = IF Counting THEN [nodeFlag EXCEPT ![Leader(i)] = (@ + 1) % Chars]
                               ELSE [nodeFlag EXCEPT ![i] = 1]
    /\ Goto(i, "wait")
    /\ UNCHANGED <<teamSize, countVars, senseVars, flag, round, stopped>>

\* mutant: the count of arrivals stays as it is for the next barrier
GatherNoReset(i) ==
    /\ pc[i] = "gather"
    /\ \/ Counting /\ nodeFlag[i] >= Len(Nonleaders(i))
       \/ ~Counting /\ \A j \in Range(Nonleaders(i)) : nodeFlag[j] = 1
    /\ Goto(i, "test")
    /\ UNCHANGED <<teamSize, countVars, senseVars, flagVars, round, stopped>>

\* flags are awaited one after the other, and stay set once they are
Gather(i) ==
    /\ pc[i] = "gather"
    /\ \/ Counting /\ nodeFlag[i] = Len(Nonleaders(i)) /\ Goto(i, "reset")
       \/ ~Counting /\ (\A j \in Range(Nonleaders(i)) : nodeFlag[j] = 1) /\ Goto(i, "test")
    /\ UNCHANGED <<teamSize, countVars, senseVars, flagVars, round, stopped>>

Released(i) ==
    /\ pc[i] = "wait"
    /\ \/ Counting /\ nodeFlag[i] = 1 /\ Goto(i, "reset") /\ UNCHANGED left
       \/ ~Counting /\ nodeFlag[i] = 0 /\ Pass(i)
    /\ UNCHANGED <<teamSize, entered, senseVars, flagVars, round, stopped>>

\* *my_sync = 0
Reset(i) ==
    /\ pc[i] = "reset"
    /\ nodeFlag' = [nodeFlag EXCEPT ![i] = 0]
    /\ IF Leads(i) THEN Goto(i, "test") /\ UNCHANGED left ELSE Pass(i)
    /\ UNCHANGED <<teamSize, entered, senseVars, flag, round, stopped>>

Release(i) ==
    LET todo == Nonleaders(i) IN
    /\ pc[i] = "release"
    /\ nodeFlag' = [nodeFlag EXCEPT ![todo[round[i] + 1]] = IF Counting THEN 1 ELSE 0]
    /\ round' = [round EXCEPT ![i] = @ + 1]
    /\ IF round[i] + 1 = Len(todo) THEN Pass(i) ELSE UNCHANGED <<pc, left>>
    /\ UNCHANGED <<teamSize, entered, senseVars, flag, stopped>>

-----------------------------------------------------------------------------
(* Dissemination *)

Signal(i) ==
    /\ pc[i] = "test" /\ round[i] < Rounds
    /\ flag' = [flag EXCEPT ![Target(i)][round[i]][parity[i]] = 1 - sense[i]]
    /\ Goto(i, "spin")
    /\ UNCHANGED <<teamSize, countVars, senseVars, nodeFlag, round, stopped>>

Spin(i) ==
    /\ pc[i] = "spin" /\ flag[i][round[i]][parity[i]] = 1 - sense[i]
    /\ round' = [round EXCEPT ![i] = @ + 1]
    /\ Goto(i, "test")
    /\ UNCHANGED <<teamSize, countVars, senseVars, flagVars, stopped>>

Finish(i) ==
    /\ pc[i] = "test" /\ round[i] = Rounds
    /\ parity' = [parity EXCEPT ![i] = 1 - @]
    /\ sense' = [sense EXCEPT ![i] = IF parity[i] = 1 THEN 1 - @ ELSE @]
    /\ round' = [round EXCEPT ![i] = 0]
    /\ IF Nonleaders(i) = <<>> THEN Pass(i) ELSE Goto(i, "release") /\ UNCHANGED left
    /\ UNCHANGED <<teamSize, entered, flagVars, stopped>>

-----------------------------------------------------------------------------
Wait(i) == \/ Notify(i) \/ Gather(i) \/ Released(i) \/ Reset(i) \/ Release(i)
           \/ Signal(i) \/ Spin(i) \/ Finish(i) \/ GiveUp(i)

\* once an image has stopped, others may wait for one that has given up
Stranded == stopped # {} /\ UNCHANGED vars

Next == (\E i \in Image : Call(i) \/ Stop(i) \/ Wait(i)) \/ Stranded

\* an image inside a barrier keeps running; it may stay outside for ever
Spec == Init /\ [][Next]_vars /\ \A i \in Image : WF_vars(Wait(i))
=============================================================================
