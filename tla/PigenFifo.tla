----------------------------- MODULE PigenFifo -----------------------------
(***************************************************************************)
(* pigen_fifo: Depth slots, a read and a write pointer that wrap at        *)
(* Depth - 1, and a registered occupancy count from which in_ready is      *)
(* derived.  One step is one rising edge of clk: the branch of the         *)
(* always_ff block the sampled wires select, and the wires of the next     *)
(* cycle.                                                                  *)
(***************************************************************************)
EXTENDS Integers, Sequences, SignalWires

CONSTANT Depth

ASSUME DepthAssumption == Depth \in Nat \ {0}

VARIABLES read_pointer, write_pointer, count, packets, wires

registers == <<read_pointer, write_pointer, count, packets>>
vars == <<read_pointer, write_pointer, count, packets, wires>>

Slot == 0 .. Depth - 1

\* Mutant: a full fifo is ready while its consumer is, as a buf is.
ReadyThrough == count # Depth \/ wires.out_ready

in_ready == count # Depth
out_valid == count # 0
packet_out == packets[read_pointer]

push == wires.in_valid /\ in_ready
pop == out_valid /\ wires.out_ready

\* Mutant: the wrap compares with Depth.
AdvanceLate(pointer) == IF pointer = Depth THEN 0 ELSE pointer + 1

Advance(pointer) == IF pointer = Depth - 1 THEN 0 ELSE pointer + 1

TypeOK == /\ read_pointer \in Slot
          /\ write_pointer \in Slot
          /\ count \in 0 .. Depth
          /\ packets \in [Slot -> Packet]
          /\ wires \in Drive

\* The state an unseeded reset leaves; the slots keep their power-up values.
Init == /\ read_pointer = 0
        /\ write_pointer = 0
        /\ count = 0
        /\ packets \in [Slot -> Packet]
        /\ wires \in Drive

\* The surrounding module drives the next cycle's wires as it likes.
NextWires == wires' \in Drive

Reset == /\ wires.reset
         /\ read_pointer' = 0
         /\ write_pointer' = IF Seeded(wires) /\ Depth > 1 THEN 1 ELSE 0
         /\ count' = IF Seeded(wires) THEN 1 ELSE 0
         /\ packets' = IF wires.force_valid /\ wires.in_valid
                       THEN [packets EXCEPT ![0] = wires.packet_in]
                       ELSE packets
         /\ NextWires

Clearing == wires.clear \/ (wires.force_after_transfer /\ wires.force_invalid)

\* Mutant: the write pointer survives the flush.
ClearKeepsWrite == /\ ~wires.reset /\ Clearing
                   /\ read_pointer' = 0
                   /\ count' = 0
                   /\ UNCHANGED <<write_pointer, packets>>
                   /\ NextWires

Clear == /\ ~wires.reset /\ Clearing
         /\ read_pointer' = 0
         /\ write_pointer' = 0
         /\ count' = 0
         /\ UNCHANGED packets
         /\ NextWires

Discard == /\ ~wires.reset /\ ~Clearing
           /\ wires.discard /\ out_valid
           /\ read_pointer' = Advance(read_pointer)
           /\ count' = count - 1
           /\ UNCHANGED <<write_pointer, packets>>
           /\ NextWires

Occupancy == count + (IF push THEN 1 ELSE 0) - (IF pop THEN 1 ELSE 0)

\* Mutant: the tail of the block is missing.
Unforced(n) == n

\* The count a validity action imposes on the transfer's occupancy n.
ForcedCount(n) == IF wires.force_valid /\ count = 0 THEN 1
                  ELSE IF wires.force_invalid THEN 0 ELSE n

Transfer == /\ ~wires.reset /\ ~Clearing /\ ~(wires.discard /\ out_valid)
            /\ packets' = IF push
                          THEN [packets EXCEPT ![write_pointer] = wires.packet_in]
                          ELSE packets
            /\ write_pointer' = IF push THEN Advance(write_pointer) ELSE write_pointer
            /\ read_pointer' = IF pop THEN Advance(read_pointer) ELSE read_pointer
            /\ count' = ForcedCount(Occupancy)
            /\ NextWires

Next == Reset \/ Clear \/ Discard \/ Transfer

Spec == Init /\ [][Next]_vars

-----------------------------------------------------------------------------
\* The slot of the i-th oldest packet, counted from read pointer r.
Place(r, i) == IF r + i - 1 < Depth THEN r + i - 1 ELSE r + i - 1 - Depth

Ring(r, n, slots) == [i \in 1 .. n |-> slots[Place(r, i)]]

Contents == Ring(read_pointer, count, packets)

\* The write pointer is count slots past the read pointer.  Neither pointer is
\* ever compared with the other in the code, so a drift shows only when a stale
\* slot reaches packet_out.
PointersAgree == write_pointer = Place(read_pointer, count + 1)

Queue == INSTANCE ElasticQueue
         WITH queue <- Contents, Capacity <- Depth,
              FlowThrough <- FALSE, DiscardsAll <- FALSE

\* The ring of slots is a first-in first-out queue: nothing accepted is lost,
\* duplicated, reordered or replaced by a stale slot.
ImplementsQueue == Queue!Spec

Law == INSTANCE ValidityLaws

\* A packet accepted in the cycle of an earlier invalidate stays in the fifo.
LaterTransferWins == Law!LaterTransferWins

\* A validity action in a cycle without a handshake takes effect.
LoneActionActs == Law!LoneActionActs
=============================================================================
