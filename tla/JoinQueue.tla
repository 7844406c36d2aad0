------------------------------ MODULE JoinQueue ------------------------------
(***************************************************************************)
(* What a pipeline promises its neighbours: the packets taken from every   *)
(* consuming source wait in a lane of their own, and every packet yielded  *)
(* joins the oldest one of all lanes.  Stages, bubbles and stalls are      *)
(* invisible.                                                              *)
(***************************************************************************)
EXTENDS Integers, Sequences

CONSTANTS Sources, Tokens

VARIABLES
    ingress,    \* the sources the program reads
    lanes,      \* source -> packets taken and not yet yielded
    delivered   \* the packet yielded last

vars == <<ingress, lanes, delivered>>

TypeOK == /\ ingress \subseteq Sources
          /\ lanes \in [ingress -> Seq(Tokens)]

Heads == [k \in ingress |-> Head(lanes[k])]
CanDeliver == \A k \in ingress : lanes[k] # << >>

\* The lanes after a delivery, or without one.
Popped(deliver) == IF deliver THEN [k \in ingress |-> Tail(lanes[k])] ELSE lanes

Init == /\ ingress \subseteq Sources
        /\ lanes = [k \in ingress |-> << >>]
        /\ delivered = << >>

Yield(deliver) == /\ deliver => CanDeliver
                  /\ delivered' = IF deliver THEN Heads ELSE delivered
                  /\ UNCHANGED ingress

\* Any set of sources gives a packet in the cycle of the delivery.
Take(taken, deliver) ==
    /\ Yield(deliver)
    /\ \E token \in [taken -> Tokens] :
          lanes' = [k \in ingress |-> Popped(deliver)[k] \o
                                      (IF k \in taken THEN <<token[k]>> ELSE << >>)]

\* A reset empties every lane.
Flush(deliver) == Yield(deliver) /\ lanes' = [k \in ingress |-> << >>]

Next == \E deliver \in BOOLEAN :
            Flush(deliver) \/ \E taken \in SUBSET ingress : Take(taken, deliver)

Spec == Init /\ [][Next]_vars
=============================================================================
