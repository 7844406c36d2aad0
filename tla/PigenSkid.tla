----------------------------- MODULE PigenSkid -----------------------------
(***************************************************************************)
(* pigen_skid: two slots under one-bit pointers and a registered count.    *)
(* The second slot takes the packet already in flight when the registered  *)
(* occupancy withdraws in_ready.                                           *)
(***************************************************************************)
EXTENDS Integers, Sequences, SignalWires

VARIABLES read_pointer, write_pointer, count, packets, wires

registers == <<read_pointer, write_pointer, count, packets>>
vars == <<read_pointer, write_pointer, count, packets, wires>>

Slot == {0, 1}

in_ready == count # 2
out_valid == count # 0
packet_out == packets[read_pointer]

push == wires.in_valid /\ in_ready
pop == out_valid /\ wires.out_ready

Flip(pointer) == 1 - pointer

TypeOK == /\ read_pointer \in Slot
          /\ write_pointer \in Slot
          /\ count \in 0 .. 2
          /\ packets \in [Slot -> Packet]
          /\ wires \in Drive

Init == /\ read_pointer = 0
        /\ write_pointer = 0
        /\ count = 0
        /\ packets \in [Slot -> Packet]
        /\ wires \in Drive

\* The surrounding module drives the next cycle's wires as it likes.
NextWires == wires' \in Drive

Reset == /\ wires.reset
         /\ read_pointer' = 0
         /\ write_pointer' = IF Seeded(wires) THEN 1 ELSE 0
         /\ count' = IF Seeded(wires) THEN 1 ELSE 0
         /\ packets' = IF wires.force_valid /\ wires.in_valid
                       THEN [packets EXCEPT ![0] = wires.packet_in]
                       ELSE packets
         /\ NextWires

\* Mutant: discard is not connected.
ClearingNoDiscard == wires.clear \/ (wires.force_after_transfer /\ wires.force_invalid)

Clearing == \/ wires.clear
            \/ wires.discard
            \/ wires.force_after_transfer /\ wires.force_invalid

Clear == /\ ~wires.reset /\ Clearing
         /\ read_pointer' = 0
         /\ write_pointer' = 0
         /\ count' = 0
         /\ UNCHANGED packets
         /\ NextWires

Occupancy == count + (IF push THEN 1 ELSE 0) - (IF pop THEN 1 ELSE 0)

\* The count a validity action imposes on the transfer's occupancy n.
ForcedCount(n) == IF wires.force_valid /\ count = 0 THEN 1
                  ELSE IF wires.force_invalid THEN 0 ELSE n

Transfer == /\ ~wires.reset /\ ~Clearing
            /\ packets' = IF push
                          THEN [packets EXCEPT ![write_pointer] = wires.packet_in]
                          ELSE packets
            /\ write_pointer' = IF push THEN Flip(write_pointer) ELSE write_pointer
            /\ read_pointer' = IF pop THEN Flip(read_pointer) ELSE read_pointer
            /\ count' = ForcedCount(Occupancy)
            /\ NextWires

Next == Reset \/ Clear \/ Transfer

Spec == Init /\ [][Next]_vars

-----------------------------------------------------------------------------
\* The slot of the i-th oldest packet.
Place(i) == IF i % 2 = 1 THEN read_pointer ELSE Flip(read_pointer)

Contents == [i \in 1 .. count |-> packets[Place(i)]]

\* The pointers coincide exactly when the skid is empty or full.
PointersAgree == write_pointer = Place(count + 1)

Queue == INSTANCE ElasticQueue
         WITH queue <- Contents, Capacity <- 2,
              FlowThrough <- FALSE, DiscardsAll <- TRUE

\* The two slots are a first-in first-out queue, also when they are pushed
\* and popped in one cycle.
ImplementsQueue == Queue!Spec
=============================================================================
