------------------------------ MODULE Pipeline ------------------------------
(***************************************************************************)
(* The circuit pipeline.c generates for a pipeline: one register and valid *)
(* bit per stage, a combinational ready chain from the output buffer back  *)
(* to stage 0, and one ingress endpoint for every stage that reads         *)
(* consuming signals.  A step is a clock edge.                             *)
(*                                                                         *)
(* A packet carries, for every source already read, the token it took:     *)
(* the fields a stage computes are functions of those.                     *)
(***************************************************************************)
EXTENDS Integers, Sequences

CONSTANT LastStage               \* the stages are 0 .. LastStage

Stages == 0 .. LastStage
Tokens == 0 .. LastStage + 1     \* one more than fit, so that all in flight differ

VARIABLES
    ingress,                \* the stages that read consuming signals
    valid, packet,          \* the registers of every stage
    offer,                  \* environment: the next token of every source
    delivered               \* environment: the packet the output buffer took last

vars == <<ingress, valid, packet, offer, delivered>>

Cleared == << >>            \* a packet of zeros

TypeOK ==
    /\ ingress \subseteq Stages
    /\ valid \in [Stages -> BOOLEAN]
    /\ \A i \in Stages : valid[i] => packet[i] \in [ingress \intersect (0 .. i) -> Tokens]
    /\ offer \in [ingress -> Tokens]

Init == /\ ingress \in SUBSET Stages
        /\ valid = [i \in Stages |-> FALSE]
        /\ packet = [i \in Stages |-> Cleared]
        /\ offer = [k \in ingress |-> 0]
        /\ delivered = Cleared

-----------------------------------------------------------------------------
\* Does every consuming signal the stage reads, if any, show a packet?
Supplied(i, offered) == i \in ingress => i \in offered

\* Mutant: a stage is ready as soon as its slot is.
SlotReadyUnjoined(guard, offered, out_ready) ==
    LET slot[i \in Stages] ==
            guard /\ (~valid[i] \/ (IF i = LastStage THEN out_ready ELSE slot[i + 1]))
    IN slot

\* Mutant: a stage waits until it is empty.
SlotReadyEmpty(guard, offered, out_ready) == [i \in Stages |-> guard /\ ~valid[i]]

\* The slot of a stage is free, or is freed in this cycle: s<i>_slot_ready, with
\* s<i+1>_ready in place.
SlotReady(guard, offered, out_ready) ==
    LET slot[i \in Stages] ==
            guard /\ (~valid[i] \/ (IF i = LastStage THEN out_ready
                                    ELSE slot[i + 1] /\ Supplied(i + 1, offered)))
    IN slot

\* The ingress of a stage accepts a packet.
in_ready(k, slot) == slot[k] /\ (k > 0 => valid[k - 1])

\* The previous stage and the signals read both have something to load.
Loads(i, offered) == (i > 0 => valid[i - 1]) /\ Supplied(i, offered)

\* The packet of the previous stage with what this stage reads.
Comb(i) == [k \in ingress \intersect (0 .. i) |-> IF k = i THEN offer[i] ELSE packet[i - 1][k]]

\* One clock edge: reset clears every stage whatever the guard says, and a false
\* guard holds every stage.
Cycle(reset, guard, offered, out_ready) ==
    LET slot == SlotReady(guard, offered, out_ready)
        out_valid == guard /\ valid[LastStage]
    IN /\ valid' = [i \in Stages |-> IF reset THEN FALSE
                                     ELSE IF slot[i] THEN Loads(i, offered) ELSE valid[i]]
       /\ packet' = [i \in Stages |-> IF reset THEN Cleared
                                      ELSE IF slot[i] /\ Loads(i, offered) THEN Comb(i)
                                      ELSE packet[i]]
       /\ offer' = [k \in ingress |-> IF k \in offered /\ in_ready(k, slot)
                                      THEN (offer[k] + 1) % (LastStage + 2) ELSE offer[k]]
       /\ delivered' = IF out_valid /\ out_ready THEN packet[LastStage] ELSE delivered
       /\ UNCHANGED ingress

\* Every driver of the enclosing block, its sources and its consumer.
Next == \E reset, guard, out_ready \in BOOLEAN, offered \in SUBSET ingress :
            Cycle(reset, guard, offered, out_ready)

Spec == Init /\ [][Next]_vars

\* The enclosing guard holds, every source has a packet and the consumer takes
\* one: a cycle in which nothing outside the pipeline is waited for.
Flow == Cycle(FALSE, TRUE, ingress, TRUE)

\* The environment never withholds such a cycle for good.
FairSpec == Spec /\ SF_vars(Flow)

-----------------------------------------------------------------------------
\* The tokens of source k between its ingress and the output, oldest first.
Lane(k) ==
    LET from[i \in k - 1 .. LastStage] ==
            IF i = k - 1 THEN << >>
            ELSE (IF valid[i] THEN <<packet[i][k]>> ELSE << >>) \o from[i - 1]
    IN from[LastStage]

Join == INSTANCE JoinQueue WITH Sources <- Stages, lanes <- [k \in ingress |-> Lane(k)]

\* Whatever stages read consuming signals, and whatever stalls, bubbles and
\* resets occur, the pipeline is a join: the n-th token of one source since the
\* reset leaves with the n-th token of every other, none lost, repeated or mixed.
ImplementsJoin == Join!Spec

\* A token that was accepted leaves the pipeline, also if it has to wait for the
\* partner a later stage joins it with.  Nothing depends on the numbers of the tokens
\* and every number comes again, so token 0 stands for all.
EveryTokenLeaves ==
    \A k \in Stages :
        LET waiting == k \in ingress /\ \E i \in DOMAIN Lane(k) : Lane(k)[i] = 0
        IN waiting ~> (k \in ingress /\ ~waiting)
=============================================================================
