---------------------------- MODULE ElasticQueue ----------------------------
(***************************************************************************)
(* What a stored Pigen signal promises its producer and its consumer: a    *)
(* bounded first-in first-out queue of packets.  A packet is accepted when *)
(* in_valid meets in_ready and is delivered when out_valid meets           *)
(* out_ready, once, in order; reset, clear and discard are the only other  *)
(* ways a packet leaves, and the validity actions compose with the         *)
(* transfer of the same cycle in source order.                             *)
(***************************************************************************)
EXTENDS Integers, Sequences, SignalWires

CONSTANTS
    Capacity,       \* packets the storage holds, at least one
    FlowThrough,    \* TRUE: in_ready also while a full storage delivers its head
    DiscardsAll     \* TRUE: discard empties the storage instead of dropping its head

VARIABLES queue, wires

vars == <<queue, wires>>

in_ready == Len(queue) < Capacity \/ (FlowThrough /\ wires.out_ready)
out_valid == queue # << >>
packet_out == Head(queue)

push == wires.in_valid /\ in_ready
pop == out_valid /\ wires.out_ready

Delivered == IF pop THEN Tail(queue) ELSE queue
Exchanged == IF push THEN Append(Delivered, wires.packet_in) ELSE Delivered

Init == queue = << >> /\ wires \in Drive

\* Reset empties the storage, or leaves the one packet a validate seeds.
Reset == /\ wires.reset
         /\ IF Seeded(wires)
            THEN \E p \in Packet : /\ wires.in_valid => p = wires.packet_in
                                   /\ queue' = <<p>>
            ELSE queue' = << >>

Clear == ~wires.reset /\ wires.clear /\ queue' = << >>

Discarding == wires.discard /\ (DiscardsAll \/ out_valid)

Discard == /\ ~wires.reset /\ ~wires.clear /\ Discarding
           /\ queue' = IF DiscardsAll THEN << >> ELSE Tail(queue)

Busy == ~wires.reset /\ ~wires.clear /\ ~Discarding

Exchange == Busy /\ ~Forced(wires) /\ queue' = Exchanged

\* "Adding one head item when previously empty": the packet is whatever the
\* storage last held, and it comes before everything accepted later.  Only a
\* delivery that source order puts after the validate may still empty it.
Validate == /\ Busy /\ wires.force_valid
            /\ \/ /\ Exchanged # << >> \/ (pop /\ ~wires.force_after_transfer)
                  /\ queue' = Exchanged
               \/ /\ Exchanged = << >>
                  /\ \E p \in Packet : queue' = <<p>>

\* Ordered after the transfer it empties the storage; ordered before, the
\* packet accepted in the same cycle survives.
Invalidate == /\ Busy /\ wires.force_invalid
              /\ IF push /\ ~wires.force_after_transfer
                 THEN queue' \in {Exchanged, <<wires.packet_in>>}
                 ELSE queue' = << >>

Next == /\ Reset \/ Clear \/ Discard \/ Exchange \/ Validate \/ Invalidate
        /\ wires' \in Drive

Spec == Init /\ [][Next]_vars
=============================================================================
