----------------------------- MODULE FabricSkid -----------------------------
(***************************************************************************)
(* The endpoint queue render_fabric_skid generates, which is also the      *)
(* ingress storage of every generated router: packet0 is the head,         *)
(* packet1 the second entry, and enable gates both handshakes.             *)
(***************************************************************************)
EXTENDS Integers, Sequences, SignalWires

CONSTANT Zero               \* the packet '0 a reset loads

VARIABLES count, packet0, packet1, enable, wires

vars == <<count, packet0, packet1, enable, wires>>

in_ready == enable /\ count # 2
out_valid == enable /\ count # 0

push == wires.in_valid /\ in_ready
pop == out_valid /\ wires.out_ready

TypeOK == /\ count \in 0 .. 2
          /\ packet0 \in Packet /\ packet1 \in Packet
          /\ enable \in BOOLEAN /\ wires \in Drive

Init == /\ count = 0 /\ packet0 = Zero /\ packet1 = Zero
        /\ enable \in BOOLEAN /\ wires \in Drive

NextWires == enable' \in BOOLEAN /\ wires' \in Drive

Reset == /\ wires.reset
         /\ count' = 0 /\ packet0' = Zero /\ packet1' = Zero
         /\ NextWires

Push == /\ ~wires.reset /\ push /\ ~pop
        /\ IF count = 0
           THEN packet0' = wires.packet_in /\ UNCHANGED packet1
           ELSE packet1' = wires.packet_in /\ UNCHANGED packet0
        /\ count' = count + 1
        /\ NextWires

\* Mutant: the second entry does not move up.
PopKeepsHead == /\ ~wires.reset /\ pop /\ ~push
                /\ UNCHANGED <<packet0, packet1>>
                /\ count' = count - 1
                /\ NextWires

Pop == /\ ~wires.reset /\ pop /\ ~push
       /\ packet0' = IF count = 2 THEN packet1 ELSE packet0
       /\ count' = count - 1
       /\ UNCHANGED packet1
       /\ NextWires

\* The code also has the case count = 2, which in_ready excludes.
Replace == /\ ~wires.reset /\ push /\ pop
           /\ IF count = 2
              THEN packet0' = packet1 /\ packet1' = wires.packet_in
              ELSE packet0' = wires.packet_in /\ UNCHANGED packet1
           /\ UNCHANGED count
           /\ NextWires

Hold == /\ ~wires.reset /\ ~push /\ ~pop
        /\ UNCHANGED <<count, packet0, packet1>>
        /\ NextWires

Next == Reset \/ Push \/ Pop \/ Replace \/ Hold

Spec == Init /\ [][Next]_vars

-----------------------------------------------------------------------------
Contents == IF count = 0 THEN << >>
            ELSE IF count = 1 THEN <<packet0>> ELSE <<packet0, packet1>>

\* While enable is low neither neighbour's handshake counts.
GatedInput == [wires EXCEPT !.in_valid = @ /\ enable]
GatedWires == [GatedInput EXCEPT !.out_ready = @ /\ enable]

Queue == INSTANCE ElasticQueue
         WITH queue <- Contents, wires <- GatedWires, Drive <- Wires,
              Capacity <- 2, FlowThrough <- FALSE, DiscardsAll <- TRUE

\* The shift register is a two-packet queue whose handshakes happen only in
\* enabled cycles.
ImplementsQueue == Queue!Spec
=============================================================================
