----------------------------- MODULE PigenPort -----------------------------
(***************************************************************************)
(* pigen_port, the primitive of a port module output: an always-ready      *)
(* payload register whose validity is a one-cycle pulse.                   *)
(***************************************************************************)
EXTENDS Integers, Sequences, SignalWires

CONSTANT Zero               \* the payload '0 an unseeded reset loads

VARIABLES out_valid, packet_out, wires

vars == <<out_valid, packet_out, wires>>

in_ready == TRUE

TypeOK == out_valid \in BOOLEAN /\ packet_out \in Packet /\ wires \in Drive

Init == out_valid = FALSE /\ packet_out = Zero /\ wires \in Drive

\* The surrounding module drives the next cycle's wires as it likes.
NextWires == wires' \in Drive

Reset == /\ wires.reset
         /\ out_valid' = Seeded(wires)
         /\ packet_out' = IF wires.force_valid /\ wires.in_valid
                          THEN wires.packet_in ELSE Zero
         /\ NextWires

Clearing == wires.clear \/ wires.discard

Clear == /\ ~wires.reset /\ Clearing
         /\ out_valid' = FALSE
         /\ UNCHANGED packet_out
         /\ NextWires

LastWord == wires.force_after_transfer /\ Forced(wires)

Override == /\ ~wires.reset /\ ~Clearing /\ LastWord
            /\ out_valid' = wires.force_valid
            /\ UNCHANGED packet_out
            /\ NextWires

\* Mutant: the pulse is retained like a buf's validity.
PulseRetained == /\ ~wires.reset /\ ~Clearing /\ ~LastWord
                 /\ out_valid' = (wires.in_valid \/ wires.force_valid \/ out_valid)
                 /\ packet_out' = IF wires.in_valid THEN wires.packet_in ELSE packet_out
                 /\ NextWires

Pulse == /\ ~wires.reset /\ ~Clearing /\ ~LastWord
         /\ out_valid' = (wires.in_valid \/ wires.force_valid)
         /\ packet_out' = IF wires.in_valid THEN wires.packet_in ELSE packet_out
         /\ NextWires

Next == Reset \/ Clear \/ Override \/ Pulse

Spec == Init /\ [][Next]_vars

-----------------------------------------------------------------------------
Law == INSTANCE ValidityLaws

\* An accepted write pulses in spite of an earlier invalidate.
LaterTransferWins == Law!LaterTransferWins

\* The pulse a write is accepted for shows that write, not an older payload.
AcceptedIsShown == Law!AcceptedIsShown

\* A pulse lasts one cycle: validity after a cycle with neither a write nor a
\* validate means the storage retained what no consumer took.
PulseIsOneCycle ==
    [][~wires.in_valid /\ ~wires.force_valid => ~out_valid']_vars
=============================================================================
