------------------------------ MODULE PigenBuf ------------------------------
(***************************************************************************)
(* pigen_buf: one packet.  in_ready follows the consumer's out_ready, so a *)
(* full buf takes a replacement in the cycle its packet is delivered.      *)
(***************************************************************************)
EXTENDS Integers, Sequences, SignalWires

CONSTANT Zero               \* the payload '0 an unseeded reset loads

VARIABLES packet_valid, packet, wires

vars == <<packet_valid, packet, wires>>

\* Mutant: readiness ignores the consumer.
ReadyRegistered == ~packet_valid

in_ready == ~packet_valid \/ wires.out_ready
out_valid == packet_valid
packet_out == packet

TypeOK == packet_valid \in BOOLEAN /\ packet \in Packet /\ wires \in Drive

Init == packet_valid = FALSE /\ packet = Zero /\ wires \in Drive

\* The surrounding module drives the next cycle's wires as it likes.
NextWires == wires' \in Drive

Reset == /\ wires.reset
         /\ packet_valid' = Seeded(wires)
         /\ packet' = IF wires.force_valid /\ wires.in_valid
                      THEN wires.packet_in ELSE Zero
         /\ NextWires

Clearing == wires.clear \/ wires.discard

Clear == /\ ~wires.reset /\ Clearing
         /\ packet_valid' = FALSE
         /\ UNCHANGED packet
         /\ NextWires

\* Mutant: a validity action wins whatever its source order.
LastWordAlways == Forced(wires)

LastWord == wires.force_after_transfer /\ Forced(wires)

push == wires.in_valid /\ in_ready
pop == out_valid /\ wires.out_ready

Override == /\ ~wires.reset /\ ~Clearing /\ LastWord
            /\ packet_valid' = wires.force_valid
            /\ packet' = IF wires.force_valid /\ push THEN wires.packet_in ELSE packet
            /\ NextWires

Accept == /\ ~wires.reset /\ ~Clearing /\ ~LastWord /\ push
          /\ packet_valid' = TRUE
          /\ packet' = wires.packet_in
          /\ NextWires

Deliver == /\ ~wires.reset /\ ~Clearing /\ ~LastWord /\ ~push /\ pop
           /\ packet_valid' = FALSE
           /\ UNCHANGED packet
           /\ NextWires

Hold == /\ ~wires.reset /\ ~Clearing /\ ~LastWord /\ ~push /\ ~pop
        /\ packet_valid' = IF Forced(wires) THEN wires.force_valid ELSE packet_valid
        /\ UNCHANGED packet
        /\ NextWires

Next == Reset \/ Clear \/ Override \/ Accept \/ Deliver \/ Hold

Spec == Init /\ [][Next]_vars

-----------------------------------------------------------------------------
Contents == IF packet_valid THEN <<packet>> ELSE << >>

Queue == INSTANCE ElasticQueue
         WITH queue <- Contents, Capacity <- 1,
              FlowThrough <- TRUE, DiscardsAll <- TRUE

\* Under every combination of transfers, flushes and validity actions the buf
\* is a queue of one packet that replaces its packet while it delivers it.
ImplementsQueue == Queue!Spec

Law == INSTANCE ValidityLaws

\* A packet accepted in the cycle of an earlier invalidate is kept.
LaterTransferWins == Law!LaterTransferWins

\* A validate or invalidate written after the transfers decides.
LaterActionWins == Law!LaterActionWins

\* A validate written after a transfer shows the packet just accepted.
AcceptedIsShown == Law!AcceptedIsShown
=============================================================================
