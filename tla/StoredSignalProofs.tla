------------------------- MODULE StoredSignalProofs -------------------------
(***************************************************************************)
(* Theorems about pigen_fifo for every depth, payload type and set of      *)
(* driven wires, then about the stored signals side by side, for every     *)
(* payload and everything the surrounding module may drive.                *)
(***************************************************************************)
EXTENDS MCStoredSignals, SequenceTheorems, TLAPS

\* Advancing a pointer keeps it among the slots.
LEMMA AdvanceInSlot ==
    ASSUME NEW p \in Slot PROVE Advance(p) \in Slot
BY DepthAssumption DEF Slot, Advance

\* The wires a step samples are Boolean and carry a packet.
LEMMA WireTypes ==
    ASSUME NEW w \in Drive
    PROVE /\ w.reset \in BOOLEAN /\ w.clear \in BOOLEAN /\ w.discard \in BOOLEAN
          /\ w.force_valid \in BOOLEAN /\ w.force_invalid \in BOOLEAN
          /\ w.force_after_transfer \in BOOLEAN
          /\ w.in_valid \in BOOLEAN /\ w.out_ready \in BOOLEAN
          /\ w.packet_in \in Packet
BY DriveAssumption DEF Wires

\* A fifo starts well typed,
LEMMA TypeInit == Init => TypeOK
BY DepthAssumption DEF Init, TypeOK, Slot

\* and stays so.
LEMMA TypeStep == TypeOK /\ [Next]_vars => TypeOK'
<1> SUFFICES ASSUME TypeOK, [Next]_vars PROVE TypeOK'
  OBVIOUS
<1> USE DepthAssumption DEF TypeOK, NextWires
<1>w. wires.packet_in \in Packet
  BY WireTypes
<1>1. CASE Reset
  BY <1>1, <1>w DEF Reset, Slot
<1>2. CASE Clear
  BY <1>2 DEF Clear, Slot
<1>3. CASE Discard
  <2>1. read_pointer' \in Slot
    BY <1>3, AdvanceInSlot DEF Discard
  <2>2. count' \in 0 .. Depth
    BY <1>3 DEF Discard, out_valid
  <2> QED
    BY <1>3, <2>1, <2>2 DEF Discard
<1>4. CASE Transfer
  <2>1. packets' \in [Slot -> Packet]
    BY <1>4, <1>w DEF Transfer
  <2>2. read_pointer' \in Slot /\ write_pointer' \in Slot
    BY <1>4, AdvanceInSlot DEF Transfer
  <2>3. count' \in 0 .. Depth
    BY <1>4 DEF Transfer, ForcedCount, Occupancy, push, pop, in_ready, out_valid
  <2> QED
    BY <1>4, <2>1, <2>2, <2>3 DEF Transfer
<1>5. CASE UNCHANGED vars
  BY <1>5 DEF vars
<1> QED
  BY <1>1, <1>2, <1>3, <1>4, <1>5 DEF Next

\* Whatever wires the surrounding module drives, the pointers stay among the
\* slots and the occupancy count between empty and Depth.
THEOREM TypeCorrect == Spec => []TypeOK
BY TypeInit, TypeStep, PTL DEF Spec

-----------------------------------------------------------------------------
(***************************************************************************)
(* The queue.  PointersAgree is inductive relative to TypeOK as long as no *)
(* validity action writes count behind the pointers' back.                 *)
(***************************************************************************)
Ordered == \A w \in Drive : Generated(w) /\ OrderedOnly(w)

QueueInv == TypeOK /\ PointersAgree

\* Its pointers start in agreement with its count.
LEMMA AgreeInit == Init => PointersAgree
BY DepthAssumption DEF Init, PointersAgree, Place

\* A cycle that only clears, seeds, drops or transfers keeps the write pointer
\* count slots past the read pointer.
LEMMA AgreeStep ==
    ASSUME Ordered PROVE QueueInv /\ [Next]_vars => PointersAgree'
<1> SUFFICES ASSUME TypeOK, PointersAgree, [Next]_vars PROVE PointersAgree'
  BY DEF QueueInv
<1> USE DepthAssumption DEF TypeOK, PointersAgree, Place
<1>w. /\ wires \in Drive /\ wires.force_valid \in BOOLEAN
      /\ wires.force_invalid \in BOOLEAN /\ OrderedOnly(wires)
  BY WireTypes DEF Ordered
<1>1. CASE Reset
  BY <1>1 DEF Reset
<1>2. CASE Clear
  BY <1>2 DEF Clear
<1>3. CASE Discard
  BY <1>3 DEF Discard, Slot, Advance, out_valid
<1>4. CASE Transfer
  <2>1. ~wires.force_valid /\ ~wires.force_invalid
    BY <1>4, <1>w DEF Transfer, OrderedOnly, Clearing
  <2>2. count' = Occupancy
    BY <1>4, <2>1 DEF Transfer, ForcedCount
  <2>3. CASE push /\ pop
    BY <1>4, <2>2, <2>3 DEF Transfer, Occupancy, Advance, Slot, in_ready, out_valid, push, pop
  <2>4. CASE push /\ ~pop
    BY <1>4, <2>2, <2>4 DEF Transfer, Occupancy, Advance, Slot, in_ready, push
  <2>5. CASE ~push /\ pop
    BY <1>4, <2>2, <2>5 DEF Transfer, Occupancy, Advance, Slot, out_valid, pop
  <2>6. CASE ~push /\ ~pop
    BY <1>4, <2>2, <2>6 DEF Transfer, Occupancy
  <2> QED
    BY <2>3, <2>4, <2>5, <2>6
<1>5. CASE UNCHANGED vars
  BY <1>5 DEF vars
<1> QED
  BY <1>1, <1>2, <1>3, <1>4, <1>5 DEF Next

\* Without a validity action ahead of a transfer the two pointers of a fifo of
\* any depth never drift apart.
THEOREM PointersNeverDrift ==
    ASSUME Ordered PROVE Spec => []PointersAgree
<1>1. Init => QueueInv
  BY TypeInit, AgreeInit DEF QueueInv
<1>2. QueueInv /\ [Next]_vars => QueueInv'
  BY TypeStep, AgreeStep DEF QueueInv
<1>3. QueueInv => PointersAgree
  BY DEF QueueInv
<1> QED
  BY <1>1, <1>2, <1>3, PTL DEF Spec

-----------------------------------------------------------------------------
(***************************************************************************)
(* The refinement: Contents, read off the slots, moves like the queue.     *)
(***************************************************************************)
LEMMA PlaceInSlot ==
    ASSUME NEW r \in Slot, NEW i \in 1 .. Depth PROVE Place(r, i) \in Slot
BY DepthAssumption DEF Place, Slot

\* Places of a ring that are less than its depth apart are different.
LEMMA PlaceInjective ==
    ASSUME NEW r \in Slot, NEW i \in 1 .. Depth, NEW j \in 1 .. Depth,
           Place(r, i) = Place(r, j)
    PROVE  i = j
BY DepthAssumption DEF Place, Slot

\* A ring read from its read pointer is a list.
LEMMA RingIsSeq ==
    ASSUME NEW r \in Slot, NEW n \in 0 .. Depth, NEW slots \in [Slot -> Packet]
    PROVE  /\ Ring(r, n, slots) \in Seq(Packet)
           /\ Len(Ring(r, n, slots)) = n
           /\ \A i \in 1 .. n : Ring(r, n, slots)[i] = slots[Place(r, i)]
           /\ Ring(r, n, slots) = << >> <=> n = 0
<1>1. n \in Nat /\ n <= Depth
  BY DepthAssumption
<1>2. \A i \in 1 .. n : slots[Place(r, i)] \in Packet
  BY <1>1, PlaceInSlot, DepthAssumption
<1>3. Ring(r, n, slots) \in [1 .. n -> Packet]
  BY <1>2 DEF Ring
<1>4. Ring(r, n, slots) \in Seq(Packet)
  BY <1>1, <1>3, SeqDef
<1>5. Len(Ring(r, n, slots)) = n
  BY <1>1, <1>3, <1>4, LenProperties
<1>6. Ring(r, n, slots) = << >> <=> n = 0
  BY <1>4, <1>5, EmptySeq
<1> QED
  BY <1>4, <1>5, <1>6 DEF Ring

\* Advancing the read pointer drops the head.
LEMMA DropHead ==
    ASSUME NEW r \in Slot, NEW n \in 1 .. Depth, NEW slots \in [Slot -> Packet]
    PROVE  Ring(Advance(r), n - 1, slots) = Tail(Ring(r, n, slots))
<1> DEFINE old == Ring(r, n, slots)
           new == Ring(Advance(r), n - 1, slots)
<1>1. /\ old \in Seq(Packet) /\ Len(old) = n /\ old # << >>
      /\ \A i \in 1 .. n : old[i] = slots[Place(r, i)]
  BY RingIsSeq, DepthAssumption
<1>2. /\ new \in Seq(Packet) /\ Len(new) = n - 1
      /\ \A i \in 1 .. n - 1 : new[i] = slots[Place(Advance(r), i)]
  BY RingIsSeq, AdvanceInSlot, DepthAssumption
<1>3. /\ Tail(old) \in Seq(Packet) /\ Len(Tail(old)) = n - 1
      /\ \A i \in 1 .. n - 1 : Tail(old)[i] = old[i + 1]
  BY <1>1, HeadTailProperties
<1>4. \A i \in 1 .. n - 1 : Place(Advance(r), i) = Place(r, i + 1)
  BY DepthAssumption DEF Place, Advance, Slot
<1>5. \A i \in 1 .. n - 1 : new[i] = Tail(old)[i]
  BY <1>1, <1>2, <1>3, <1>4
<1> HIDE DEF old, new
<1> QED
  BY <1>2, <1>3, <1>5, SeqEqual DEF old, new

\* Writing the slot after the last packet appends to the queue.
LEMMA WriteTail ==
    ASSUME NEW r \in Slot, NEW n \in 0 .. Depth - 1,
           NEW slots \in [Slot -> Packet], NEW p \in Packet
    PROVE  Ring(r, n + 1, [slots EXCEPT ![Place(r, n + 1)] = p])
             = Append(Ring(r, n, slots), p)
<1> DEFINE w == Place(r, n + 1)
           written == [slots EXCEPT ![w] = p]
           old == Ring(r, n, slots)
           new == Ring(r, n + 1, written)
<1>1. w \in Slot /\ written \in [Slot -> Packet]
  BY PlaceInSlot, DepthAssumption
<1>2. /\ old \in Seq(Packet) /\ Len(old) = n
      /\ \A i \in 1 .. n : old[i] = slots[Place(r, i)]
  BY RingIsSeq, DepthAssumption
<1> HIDE DEF written
<1>3. /\ new \in Seq(Packet) /\ Len(new) = n + 1
      /\ \A i \in 1 .. n + 1 : new[i] = written[Place(r, i)]
  BY <1>1, RingIsSeq, DepthAssumption
<1>4. /\ Append(old, p) \in Seq(Packet) /\ Len(Append(old, p)) = n + 1
      /\ \A i \in 1 .. n : Append(old, p)[i] = old[i]
      /\ Append(old, p)[n + 1] = p
  BY <1>2, AppendProperties
<1>5. \A i \in 1 .. n : Place(r, i) \in Slot /\ Place(r, i) # w
  BY PlaceInSlot, PlaceInjective, DepthAssumption
<1>6. \A i \in 1 .. n : written[Place(r, i)] = slots[Place(r, i)]
  BY <1>5 DEF written
<1>7. written[w] = p
  BY <1>1 DEF written
<1>8. \A i \in 1 .. n + 1 : new[i] = Append(old, p)[i]
  <2> TAKE i \in 1 .. n + 1
  <2>0. i = n + 1 \/ i \in 1 .. n
    BY DepthAssumption
  <2>1. CASE i = n + 1
    BY <2>1, <1>3, <1>4, <1>7
  <2>2. CASE i \in 1 .. n
    BY <2>2, <1>2, <1>3, <1>4, <1>6
  <2> QED
    BY <2>0, <2>1, <2>2
<1> HIDE DEF old, new
<1>9. new = Append(old, p)
  BY <1>3, <1>4, <1>8, SeqEqual
<1> QED
  BY <1>9 DEF old, new, written

\* The fifo and the queue see the same handshakes.
LEMMA SameHandshake ==
    ASSUME TypeOK
    PROVE  /\ Queue!in_ready <=> in_ready
           /\ Queue!out_valid <=> out_valid
           /\ Queue!push <=> push
           /\ Queue!pop <=> pop
<1>1. Len(Contents) = count /\ (Contents = << >> <=> count = 0)
  BY RingIsSeq DEF TypeOK, Contents
<1>2. Queue!in_ready <=> in_ready
  BY <1>1, DepthAssumption DEF TypeOK, Queue!in_ready, in_ready
<1>3. Queue!out_valid <=> out_valid
  BY <1>1 DEF Queue!out_valid, out_valid
<1> QED
  BY <1>2, <1>3 DEF Queue!push, Queue!pop, push, pop

\* What a transfer does to the slots is what it does to the queue.
LEMMA TransferExchanges ==
    ASSUME TypeOK, PointersAgree, Transfer, count' = Occupancy
    PROVE  Contents' = Queue!Exchanged
<1> USE DepthAssumption DEF TypeOK
<1>w. wires.packet_in \in Packet
  BY WireTypes
<1>1. CASE push /\ ~pop
  <2>1. count \in 0 .. Depth - 1
    BY <1>1 DEF push, in_ready
  <2>2. /\ read_pointer' = read_pointer /\ count' = count + 1
        /\ packets' = [packets EXCEPT ![Place(read_pointer, count + 1)] = wires.packet_in]
    BY <1>1 DEF Transfer, Occupancy, PointersAgree
  <2>3. Contents' = Ring(read_pointer, count + 1,
            [packets EXCEPT ![Place(read_pointer, count + 1)] = wires.packet_in])
    BY <2>2 DEF Contents
  <2>4. Contents' = Append(Contents, wires.packet_in)
    BY <2>1, <2>3, <1>w, WriteTail DEF Contents
  <2> QED
    BY <1>1, <2>4, SameHandshake DEF Queue!Exchanged, Queue!Delivered
<1>2. CASE push /\ pop
  <2>1. count \in 1 .. Depth - 1
    BY <1>2 DEF push, pop, in_ready, out_valid
  <2>2. /\ read_pointer' = Advance(read_pointer) /\ count' = (count - 1) + 1
        /\ packets' = [packets EXCEPT ![Place(read_pointer, count + 1)] = wires.packet_in]
    BY <1>2 DEF Transfer, Occupancy, PointersAgree
  <2>3. Place(read_pointer, count + 1) = Place(Advance(read_pointer), (count - 1) + 1)
    BY <2>1 DEF Place, Advance, Slot
  <2>4. Advance(read_pointer) \in Slot /\ count - 1 \in 0 .. Depth - 1
    BY <2>1, AdvanceInSlot
  <2> DEFINE r == Advance(read_pointer)
             n == count - 1
  <2>5. Contents' = Ring(r, n + 1, [packets EXCEPT ![Place(r, n + 1)] = wires.packet_in])
    BY <2>2, <2>3 DEF Contents
  <2>7. Contents' = Append(Ring(r, n, packets), wires.packet_in)
    <3> HIDE DEF r, n
    <3> QED
      BY <2>4, <2>5, <1>w, WriteTail DEF r, n
  <2>6. Ring(Advance(read_pointer), count - 1, packets) = Tail(Contents)
    BY <2>1, DropHead DEF Contents
  <2> QED
    BY <1>2, <2>7, <2>6, SameHandshake DEF Queue!Exchanged, Queue!Delivered
<1>3. CASE ~push /\ pop
  <2>1. count \in 1 .. Depth
    BY <1>3 DEF pop, out_valid
  <2>2. /\ read_pointer' = Advance(read_pointer) /\ count' = count - 1
        /\ packets' = packets
    BY <1>3 DEF Transfer, Occupancy
  <2>3. Contents' = Tail(Contents)
    BY <2>1, <2>2, DropHead DEF Contents
  <2> QED
    BY <1>3, <2>3, SameHandshake DEF Queue!Exchanged, Queue!Delivered
<1>4. CASE ~push /\ ~pop
  <2>1. read_pointer' = read_pointer /\ count' = count /\ packets' = packets
    BY <1>4 DEF Transfer, Occupancy
  <2> QED
    BY <1>4, <2>1, SameHandshake DEF Contents, Queue!Exchanged, Queue!Delivered
<1> QED
  BY <1>1, <1>2, <1>3, <1>4

\* An empty ring is the empty queue,
LEMMA InitIsQueueInit == Init => Queue!Init
<1> SUFFICES ASSUME Init PROVE Contents = << >> /\ wires \in Drive
  BY DEF Queue!Init
<1>1. TypeOK /\ count = 0
  BY TypeInit DEF Init
<1> QED
  BY <1>1, RingIsSeq DEF TypeOK, Contents

\* and an edge of the fifo is a step of the queue.
LEMMA StepIsQueueStep ==
    ASSUME Ordered, TypeOK, TypeOK', PointersAgree, [Next]_vars
    PROVE  [Queue!Next]_(Queue!vars)
<1>w. /\ wires \in Drive /\ Generated(wires) /\ OrderedOnly(wires)
      /\ wires.force_valid \in BOOLEAN /\ wires.force_invalid \in BOOLEAN
      /\ wires.packet_in \in Packet
  BY WireTypes DEF Ordered, TypeOK
<1>n. (Reset \/ Clear \/ Discard \/ Transfer) => wires' \in Drive
  BY DEF Reset, Clear, Discard, Transfer, NextWires
<1>e. (Contents' = << >>) <=> count' = 0
  BY RingIsSeq DEF TypeOK, Contents
<1>1. CASE Reset
  <2>1. CASE Seeded(wires)
    <3>1. count' = 1 /\ read_pointer' = 0
      BY <1>1, <2>1 DEF Reset
    <3>2. Contents' = <<packets'[0]>>
      BY <3>1, DepthAssumption DEF Contents, Ring, Place
    <3>3. packets'[0] \in Packet /\ (wires.in_valid => packets'[0] = wires.packet_in)
      BY <1>1, <2>1, DepthAssumption DEF Reset, Seeded, TypeOK, Slot
    <3> QED
      BY <1>1, <1>n, <2>1, <3>2, <3>3 DEF Reset, Queue!Reset, Queue!Next, Seeded, Queue!Seeded
  <2>2. CASE ~Seeded(wires)
    BY <1>1, <1>n, <2>2, <1>e DEF Reset, Queue!Reset, Queue!Next, Seeded, Queue!Seeded
  <2> QED
    BY <2>1, <2>2
<1>2. CASE Clear
  <2>1. ~wires.reset /\ Contents' = << >>
    BY <1>2, <1>e DEF Clear
  <2>2. CASE wires.clear
    BY <1>2, <1>n, <2>1, <2>2 DEF Queue!Clear, Queue!Next
  <2>3. CASE ~wires.clear
    <3>1. wires.force_invalid /\ wires.force_after_transfer /\ ~wires.discard
      BY <1>2, <1>w, <2>3 DEF Clear, Clearing, Generated, Forced
    <3> QED
      BY <1>2, <1>n, <2>1, <2>3, <3>1
         DEF Queue!Invalidate, Queue!Busy, Queue!Discarding, Queue!Next
  <2> QED
    BY <2>2, <2>3
<1>3. CASE Discard
  <2>1. count \in 1 .. Depth
    BY <1>3, DepthAssumption DEF TypeOK, Discard, out_valid
  <2>2. Contents' = Tail(Contents)
    BY <1>3, <2>1, DropHead DEF Discard, Contents, TypeOK
  <2>3. ~wires.reset /\ ~wires.clear /\ wires.discard /\ Queue!out_valid
    BY <1>3, SameHandshake DEF Discard, Clearing
  <2> QED
    BY <1>3, <1>n, <2>2, <2>3 DEF Queue!Discard, Queue!Discarding, Queue!Next
<1>4. CASE Transfer
  <2>1. ~wires.force_valid /\ ~wires.force_invalid
    BY <1>4, <1>w DEF Transfer, OrderedOnly, Clearing
  <2>2. count' = Occupancy
    BY <1>4, <2>1 DEF Transfer, ForcedCount
  <2>3. Contents' = Queue!Exchanged
    BY <1>4, <2>2, TransferExchanges
  <2>4. Queue!Busy /\ ~Forced(wires)
    BY <1>4, <2>1, SameHandshake
       DEF Transfer, Clearing, Queue!Busy, Queue!Discarding, Forced, Queue!Forced
  <2> QED
    BY <1>4, <1>n, <2>3, <2>4 DEF Queue!Exchange, Queue!Next, Forced, Queue!Forced
<1>5. CASE UNCHANGED vars
  BY <1>5 DEF vars, Contents, Queue!vars
<1> QED
  BY <1>1, <1>2, <1>3, <1>4, <1>5 DEF Next

\* A fifo of any depth implements the elastic queue: nothing it accepts is
\* lost, duplicated or reordered.
THEOREM FifoImplementsQueue ==
    ASSUME Ordered PROVE Spec => ImplementsQueue
<1>1. Init => QueueInv
  BY TypeInit, AgreeInit DEF QueueInv
<1>2. QueueInv /\ [Next]_vars => QueueInv'
  BY TypeStep, AgreeStep DEF QueueInv
<1>3. Init => Queue!Init
  BY InitIsQueueInit
<1>4. QueueInv /\ QueueInv' /\ [Next]_vars => [Queue!Next]_(Queue!vars)
  BY StepIsQueueStep DEF QueueInv
<1> QED
  BY <1>1, <1>2, <1>3, <1>4, PTL DEF Spec, ImplementsQueue, Queue!Spec

-----------------------------------------------------------------------------
\* The sampled wires are Boolean and carry a packet.
LEMMA WireFields ==
    ASSUME NEW w \in Wires
    PROVE /\ w.reset \in BOOLEAN /\ w.clear \in BOOLEAN /\ w.discard \in BOOLEAN
          /\ w.force_valid \in BOOLEAN /\ w.force_invalid \in BOOLEAN
          /\ w.force_after_transfer \in BOOLEAN
          /\ w.in_valid \in BOOLEAN /\ w.out_ready \in BOOLEAN
          /\ w.packet_in \in Packet
BY DEF Wires

\* A step clocks one signal and leaves the others alone.
LEMMA StepOfOne ==
    ASSUME [SignalsNext]_signals
    PROVE  /\ Fifo!Next \/ UNCHANGED fifo
           /\ Skid!Next \/ UNCHANGED skid
           /\ Buf!Next \/ UNCHANGED buf
           /\ PortOutput!Next \/ UNCHANGED port
           /\ Endpoint!Next \/ UNCHANGED endpoint
<1>1. CASE ClockOrdered
  BY <1>1 DEF ClockOrdered
<1>2. CASE ClockFifo
  BY <1>2 DEF ClockFifo
<1>3. CASE ClockSkid
  BY <1>3 DEF ClockSkid
<1>4. CASE ClockBuf
  BY <1>4 DEF ClockBuf
<1>5. CASE ClockPort
  BY <1>5 DEF ClockPort
<1>6. CASE ClockEndpoint
  BY <1>6 DEF ClockEndpoint
<1>7. CASE UNCHANGED signals
  BY <1>7 DEF signals
<1> QED
  BY <1>1, <1>2, <1>3, <1>4, <1>5, <1>6, <1>7 DEF SignalsNext

\* Appending to and dropping from the short sequences these storages hold.
LEMMA ShortSequences == 
    ASSUME NEW x, NEW z
    PROVE  /\ Append(<< >>, z) = <<z>>
          /\ Append(<<x>>, z) = <<x, z>>
          /\ Tail(<<x>>) = << >>
          /\ Tail(<<x, z>>) = <<z>>
          /\ Len(<<x>>) = 1 /\ Len(<<x, z>>) = 2 /\ <<x>> # << >> /\ <<x, z>> # << >>
<1>1. Append(<<x>>, z) = <<x, z>>
  <2>1. <<x>> \in Seq({x, z}) /\ z \in {x, z} /\ <<x, z>> \in Seq({x, z})
    OBVIOUS
  <2>2. Append(<<x>>, z) \in Seq({x, z}) /\ Len(Append(<<x>>, z)) = 2
        /\ Append(<<x>>, z)[1] = x /\ Append(<<x>>, z)[2] = z
    BY <2>1, AppendProperties
  <2>3. \A i \in 1 .. Len(Append(<<x>>, z)) : Append(<<x>>, z)[i] = <<x, z>>[i]
    BY <2>2
  <2>4. Len(<<x, z>>) = 2
    OBVIOUS
  <2> QED
    BY <2>1, <2>2, <2>3, <2>4, SeqEqual
<1>2. Append(<< >>, z) = <<z>>
  OBVIOUS
<1>3. Tail(<<x>>) = << >>
  OBVIOUS
<1>4. Tail(<<x, z>>) = <<z>>
  OBVIOUS
<1> QED
  BY <1>1, <1>2, <1>3, <1>4

-----------------------------------------------------------------------------
(* The port. *)

\* An output port starts well typed,
LEMMA PortTypeInit == SignalsInit => PortOutput!TypeOK
BY SignalsAssumption DEF SignalsInit, PortOutput!Init, PortOutput!TypeOK

\* and stays so.
LEMMA PortTypeStep ==
    ASSUME PortOutput!TypeOK, [SignalsNext]_signals PROVE PortOutput!TypeOK'
<1>w. port_wires \in Wires
  BY SignalsAssumption DEF PortOutput!TypeOK
<1>1. CASE PortOutput!Next
  BY <1>w, <1>1, WireFields, SignalsAssumption
     DEF PortOutput!Next, PortOutput!Reset, PortOutput!Clear, PortOutput!Override,
         PortOutput!Pulse, PortOutput!NextWires, PortOutput!TypeOK, PortOutput!Seeded
<1>2. CASE UNCHANGED port
  BY <1>2 DEF port, PortOutput!TypeOK
<1> QED
  BY <1>1, <1>2, StepOfOne

\* A write pulses in spite of an invalidate that source order puts before it, and no
\* cycle without a write or a validate leaves a pulse, for every payload.
THEOREM PortAlwaysComposes == SignalsSpec => PortComposes
<1> DEFINE Wins == PortOutput!Law!Running(port_wires) /\ ~port_wires.force_after_transfer
                   /\ PortOutput!Law!Accepting => port_valid'
           OneCycle == ~port_wires.in_valid /\ ~port_wires.force_valid => ~port_valid'
<1>1. ASSUME PortOutput!TypeOK, [SignalsNext]_signals
      PROVE  /\ [Wins]_(PortOutput!Law!handshake)
             /\ [OneCycle]_(PortOutput!vars)
  <2>w. port_wires \in Wires
    BY <1>1, SignalsAssumption DEF PortOutput!TypeOK
  <2>1. CASE PortOutput!Next
    BY <2>w, <2>1, WireFields
       DEF PortOutput!Next, PortOutput!Reset, PortOutput!Clear, PortOutput!Override,
           PortOutput!Pulse, PortOutput!Clearing, PortOutput!LastWord, PortOutput!Seeded,
           PortOutput!Forced, PortOutput!Law!Running, PortOutput!Law!Accepting
  <2>2. CASE UNCHANGED port
    BY <2>2 DEF port, PortOutput!Law!handshake, PortOutput!vars, PortOutput!in_ready
  <2> QED
    BY <1>1, <2>1, <2>2, StepOfOne
<1> QED
  BY <1>1, PortTypeInit, PortTypeStep, PTL
     DEF SignalsSpec, PortComposes, PortOutput!LaterTransferWins, PortOutput!PulseIsOneCycle,
         PortOutput!Law!LaterTransferWins

-----------------------------------------------------------------------------
(* The buf. *)

\* A buf starts well typed,
LEMMA BufTypeInit == SignalsInit => Buf!TypeOK
BY SignalsAssumption DEF SignalsInit, Buf!Init, Buf!TypeOK

\* and stays so.
LEMMA BufTypeStep ==
    ASSUME Buf!TypeOK, [SignalsNext]_signals PROVE Buf!TypeOK'
<1>w. buf_wires \in Wires
  BY SignalsAssumption DEF Buf!TypeOK
<1>1. CASE Buf!Next
  BY <1>w, <1>1, WireFields, SignalsAssumption
     DEF Buf!Next, Buf!Reset, Buf!Clear, Buf!Override, Buf!Accept, Buf!Deliver, Buf!Hold,
         Buf!NextWires, Buf!TypeOK, Buf!Seeded
<1>2. CASE UNCHANGED buf
  BY <1>2 DEF buf, Buf!TypeOK
<1> QED
  BY <1>1, <1>2, StepOfOne

\* What pigen_emit_clear_routes drives a buf with.
BufGenerated == \A w \in BufDrive : Generated(w)

\* Whatever the program validates, invalidates and transfers in a cycle, source order
\* decides what a buf holds after it, and an accepted packet is the one it shows.
THEOREM BufAlwaysComposes ==
    ASSUME BufGenerated PROVE SignalsSpec => BufComposes
<1> DEFINE Wins == /\ Buf!Law!Running(buf_wires) /\ ~buf_wires.force_after_transfer
                   /\ Buf!Law!Accepting
                   => buf_valid'
           ActsLast == Buf!Law!Running(buf_wires) /\ buf_wires.force_after_transfer
                       => buf_valid' = buf_wires.force_valid
           Shows == Buf!Law!Running(buf_wires) /\ Buf!Law!Accepting /\ buf_valid'
                    => buf_packet' = buf_wires.packet_in
<1>1. ASSUME Buf!TypeOK, [SignalsNext]_signals
      PROVE  /\ [Wins]_(Buf!Law!handshake)
             /\ [ActsLast]_(Buf!Law!handshake)
             /\ [Shows]_(Buf!Law!handshake)
  <2>w. buf_wires \in Wires /\ Generated(buf_wires) /\ buf_valid \in BOOLEAN
    BY <1>1, SignalsAssumption DEF Buf!TypeOK, BufGenerated
  <2>1. CASE Buf!Next
    BY <2>w, <2>1, WireFields
       DEF Buf!Next, Buf!Reset, Buf!Clear, Buf!Override, Buf!Accept, Buf!Deliver, Buf!Hold,
           Buf!Clearing, Buf!LastWord, Buf!Seeded, Buf!Forced, Buf!push, Buf!pop,
           Buf!in_ready, Buf!Law!Running, Buf!Law!Accepting, Generated, Forced
  <2>2. CASE UNCHANGED buf
    <3>1. UNCHANGED Buf!Law!handshake
      BY <2>2 DEF buf, Buf!Law!handshake, Buf!in_ready, Buf!out_valid, Buf!packet_out
    <3> QED
      BY <3>1
  <2> QED
    BY <1>1, <2>1, <2>2, StepOfOne
<1> QED
  BY <1>1, BufTypeInit, BufTypeStep, PTL
     DEF SignalsSpec, BufComposes, Buf!LaterTransferWins, Buf!LaterActionWins,
         Buf!AcceptedIsShown, Buf!Law!LaterTransferWins, Buf!Law!LaterActionWins,
         Buf!Law!AcceptedIsShown, Buf!out_valid, Buf!packet_out

\* An edge of a buf is a step of a one-packet queue.
LEMMA BufStepIsQueueStep ==
    ASSUME BufGenerated, Buf!TypeOK, Buf!TypeOK', Buf!Next
    PROVE  Buf!Queue!Next
<1>w. /\ buf_wires \in Wires /\ Generated(buf_wires) /\ buf_valid \in BOOLEAN
      /\ buf_packet' \in Packet /\ buf_valid' \in BOOLEAN /\ buf_wires' \in BufDrive
  BY SignalsAssumption DEF Buf!TypeOK, BufGenerated
<1>q. /\ Buf!Contents = IF buf_valid THEN <<buf_packet>> ELSE << >>
      /\ Buf!Contents' = IF buf_valid' THEN <<buf_packet'>> ELSE << >>
  BY DEF Buf!Contents
<1>h. /\ Buf!Queue!out_valid <=> buf_valid
      /\ Buf!Queue!push <=> Buf!push
      /\ Buf!Queue!pop <=> Buf!pop
  BY <1>q, <1>w DEF Buf!Queue!out_valid, Buf!Queue!in_ready, Buf!Queue!push, Buf!Queue!pop,
                    Buf!push, Buf!pop, Buf!in_ready, Buf!out_valid
<1>e. Buf!Queue!Exchanged = IF Buf!push THEN <<buf_wires.packet_in>>
                            ELSE IF Buf!pop THEN << >> ELSE Buf!Contents
  <2>1. CASE Buf!pop
    <3>1. Buf!Contents = <<buf_packet>> /\ Tail(Buf!Contents) = << >>
      BY <2>1, <1>q DEF Buf!pop, Buf!out_valid
    <3> QED
      BY <1>h, <2>1, <3>1 DEF Buf!Queue!Exchanged, Buf!Queue!Delivered
  <2>2. CASE ~Buf!pop
    <3>1. Buf!push => Buf!Contents = << >>
      BY <2>2, <1>q, <1>w DEF Buf!push, Buf!pop, Buf!in_ready, Buf!out_valid
    <3>2. Buf!Queue!Exchanged = IF Buf!push THEN Append(Buf!Contents, buf_wires.packet_in)
                                ELSE Buf!Contents
      BY <1>h, <2>2 DEF Buf!Queue!Exchanged, Buf!Queue!Delivered
    <3>3. Append(<< >>, buf_wires.packet_in) = <<buf_wires.packet_in>>
      OBVIOUS
    <3> QED
      BY <2>2, <3>1, <3>2, <3>3
  <2> QED
    BY <2>1, <2>2
<1> USE DEF Generated, Forced, Seeded, Buf!Queue!Forced, Buf!Queue!Seeded, Buf!Forced, Buf!Seeded
<1>1. CASE Buf!Reset
  BY <1>1, <1>w, <1>q, WireFields DEF Buf!Reset, Buf!Queue!Next, Buf!Queue!Reset
<1>2. CASE Buf!Clear
  BY <1>2, <1>w, <1>q, WireFields
     DEF Buf!Clear, Buf!Clearing, Buf!Queue!Next, Buf!Queue!Clear, Buf!Queue!Discard,
         Buf!Queue!Discarding
<1>3. CASE Buf!Override
  BY <1>3, <1>w, <1>q, <1>h, <1>e, WireFields
     DEF Buf!Override, Buf!Clearing, Buf!LastWord, Buf!Queue!Next, Buf!Queue!Validate,
         Buf!Queue!Invalidate, Buf!Queue!Busy, Buf!Queue!Discarding
<1>b. ASSUME ~buf_wires.reset, ~Buf!Clearing PROVE Buf!Queue!Busy
  BY <1>b DEF Buf!Clearing, Buf!Queue!Busy, Buf!Queue!Discarding
<1>4. CASE Buf!Accept
  BY <1>4, <1>w, <1>q, <1>h, <1>e, <1>b, WireFields
     DEF Buf!Accept, Buf!LastWord, Buf!Queue!Next, Buf!Queue!Exchange, Buf!Queue!Validate,
         Buf!Queue!Invalidate
<1>5. CASE Buf!Deliver
  BY <1>5, <1>w, <1>q, <1>h, <1>e, <1>b, WireFields
     DEF Buf!Deliver, Buf!LastWord, Buf!Queue!Next, Buf!Queue!Exchange, Buf!Queue!Validate,
         Buf!Queue!Invalidate
<1>6. CASE Buf!Hold
  BY <1>6, <1>w, <1>q, <1>h, <1>e, <1>b, WireFields
     DEF Buf!Hold, Buf!LastWord, Buf!Queue!Next, Buf!Queue!Exchange, Buf!Queue!Validate,
         Buf!Queue!Invalidate
<1> QED
  BY <1>1, <1>2, <1>3, <1>4, <1>5, <1>6 DEF Buf!Next

\* A buf is a one-packet queue under every combination of transfers, flushes and
\* validity actions a program generates.
THEOREM BufAlwaysImplementsQueue ==
    ASSUME BufGenerated PROVE SignalsSpec => BufImplementsQueue
<1>1. SignalsInit => Buf!Queue!Init
  BY DEF SignalsInit, Buf!Init, Buf!Queue!Init, Buf!Contents
<1>2. ASSUME Buf!TypeOK, Buf!TypeOK', [SignalsNext]_signals
      PROVE  [Buf!Queue!Next]_(Buf!Queue!vars)
  <2>1. CASE UNCHANGED buf
    BY <2>1 DEF buf, Buf!Queue!vars, Buf!Contents
  <2> QED
    BY <1>2, <2>1, BufStepIsQueueStep, StepOfOne
<1> QED
  BY <1>1, <1>2, BufTypeInit, BufTypeStep, PTL
     DEF SignalsSpec, BufImplementsQueue, Buf!ImplementsQueue, Buf!Queue!Spec

-----------------------------------------------------------------------------
(* The skid. *)

\* What drives a skid that no validity action reaches ahead of a transfer.
SkidOrdered == \A w \in SkidDrive : Generated(w) /\ OrderedOnly(w)

SkidInv == Skid!TypeOK /\ Skid!PointersAgree

\* The pointers agree when they coincide, or when they differ around one packet.
LEMMA SkidAgrees ==
    ASSUME NEW r \in {0, 1}, NEW n \in {0, 1, 2}
    PROVE  (IF (n + 1) % 2 = 1 THEN r ELSE 1 - r) = (IF n = 1 THEN 1 - r ELSE r)
<1>1. (0 + 1) % 2 = 1 /\ (1 + 1) % 2 = 0 /\ (2 + 1) % 2 = 1
  OBVIOUS
<1> QED
  BY <1>1

\* The type invariant of a skid buffer, on its variables.
LEMMA SkidTypes ==
    Skid!TypeOK <=> /\ skid_read \in {0, 1} /\ skid_write \in {0, 1} /\ skid_count \in {0, 1, 2}
                    /\ skid_packets \in [{0, 1} -> Packet] /\ skid_wires \in SkidDrive
BY DEF Skid!TypeOK, Skid!Slot

\* The invariant of a skid buffer: its pointers agree with its count,
LEMMA SkidInvMeans ==
    SkidInv <=> /\ skid_read \in {0, 1} /\ skid_count \in {0, 1, 2}
                /\ skid_write = IF skid_count = 1 THEN 1 - skid_read ELSE skid_read
                /\ skid_packets \in [{0, 1} -> Packet] /\ skid_wires \in SkidDrive
<1>1. ASSUME skid_read \in {0, 1}, skid_count \in {0, 1, 2}
      PROVE  Skid!PointersAgree
                <=> skid_write = IF skid_count = 1 THEN 1 - skid_read ELSE skid_read
  BY <1>1, SkidAgrees DEF Skid!PointersAgree, Skid!Place, Skid!Flip
<1> QED
  BY <1>1, SkidTypes DEF SkidInv

\* and the same of the next state.
LEMMA SkidInvMeansNext ==
    SkidInv' <=> /\ skid_read' \in {0, 1} /\ skid_count' \in {0, 1, 2}
                 /\ skid_write' = IF skid_count' = 1 THEN 1 - skid_read' ELSE skid_read'
                 /\ skid_packets' \in [{0, 1} -> Packet] /\ skid_wires' \in SkidDrive
<1>1. ASSUME skid_read' \in {0, 1}, skid_count' \in {0, 1, 2}
      PROVE  Skid!PointersAgree'
                <=> skid_write' = IF skid_count' = 1 THEN 1 - skid_read' ELSE skid_read'
  BY <1>1, SkidAgrees DEF Skid!PointersAgree, Skid!Place, Skid!Flip
<1>2. Skid!TypeOK' <=>
         /\ skid_read' \in {0, 1} /\ skid_write' \in {0, 1} /\ skid_count' \in {0, 1, 2}
         /\ skid_packets' \in [{0, 1} -> Packet] /\ skid_wires' \in SkidDrive
  BY DEF Skid!TypeOK, Skid!Slot
<1> QED
  BY <1>1, <1>2 DEF SkidInv

\* A skid buffer starts with pointers that agree,
LEMMA SkidInvInit == SignalsInit => SkidInv
<1> SUFFICES ASSUME SignalsInit PROVE SkidInv
  OBVIOUS
<1>1. Skid!Init
  BY DEF SignalsInit
<1> QED
  BY <1>1 DEF Skid!Init, SkidInv, Skid!TypeOK, Skid!PointersAgree, Skid!Place, Skid!Slot

\* What a transfer does to the registers, under wires that force nothing.
LEMMA SkidTransfers ==
    ASSUME SkidOrdered, Skid!TypeOK, Skid!Transfer
    PROVE  /\ ~skid_wires.force_valid /\ ~skid_wires.force_invalid
           /\ skid_count' = Skid!Occupancy
<1>1. skid_wires \in Wires /\ OrderedOnly(skid_wires)
  BY SignalsAssumption DEF Skid!TypeOK, SkidOrdered
<1>2. ~skid_wires.force_valid /\ ~skid_wires.force_invalid
  BY <1>1, WireFields DEF Skid!Transfer, Skid!Clearing, OrderedOnly
<1> QED
  BY <1>2 DEF Skid!Transfer, Skid!ForcedCount

\* and every edge moves them together.
LEMMA SkidInvStep ==
    ASSUME SkidOrdered, SkidInv, [SignalsNext]_signals PROVE SkidInv'
<1>w. skid_wires \in Wires
  BY SignalsAssumption DEF SkidInv, Skid!TypeOK
<1>1. CASE Skid!Reset
  BY <1>1, <1>w, WireFields, SkidInvMeans, SkidInvMeansNext
     DEF Skid!Reset, Skid!NextWires, Skid!Seeded
<1>2. CASE Skid!Clear
  BY <1>2, SkidInvMeans, SkidInvMeansNext DEF Skid!Clear, Skid!NextWires
<1>3. CASE Skid!Transfer
  <2>1. skid_count' = Skid!Occupancy
    BY <1>3, SkidTransfers DEF SkidInv
  <2>2. /\ skid_read' = IF Skid!pop THEN 1 - skid_read ELSE skid_read
        /\ skid_write' = IF Skid!push THEN 1 - skid_write ELSE skid_write
        /\ Skid!push => skid_count # 2
        /\ Skid!pop => skid_count # 0
    BY <1>3 DEF Skid!Transfer, Skid!Flip, Skid!push, Skid!pop, Skid!in_ready, Skid!out_valid
  <2>3. /\ skid_count' \in {0, 1, 2} /\ skid_read' \in {0, 1}
        /\ skid_write' = IF skid_count' = 1 THEN 1 - skid_read' ELSE skid_read'
    BY <2>1, <2>2, SkidInvMeans DEF Skid!Occupancy
  <2>4. skid_packets' \in [{0, 1} -> Packet] /\ skid_wires' \in SkidDrive
    BY <1>3, <1>w, WireFields, SkidInvMeans DEF Skid!Transfer, Skid!NextWires
  <2> QED
    BY <2>3, <2>4, SkidInvMeansNext
<1>4. CASE UNCHANGED skid
  BY <1>4, SkidInvMeans, SkidInvMeansNext DEF skid
<1> QED
  BY <1>1, <1>2, <1>3, <1>4, StepOfOne DEF Skid!Next

\* The packets a skid of any count holds, oldest first.
SkidPackets == IF skid_count = 0 THEN << >>
               ELSE IF skid_count = 1 THEN <<skid_packets[skid_read]>>
               ELSE <<skid_packets[skid_read], skid_packets[1 - skid_read]>>

\* The packets a skid buffer holds, read off its pointers.
LEMMA SkidHolds ==
    /\ Skid!TypeOK => Skid!Contents = SkidPackets
    /\ Skid!TypeOK' => Skid!Contents' = SkidPackets'
<1>1. ASSUME Skid!TypeOK PROVE Skid!Contents = SkidPackets
  <2>1. skid_count \in {0, 1, 2} /\ skid_read \in {0, 1}
    BY <1>1, SkidTypes
  <2> QED
    BY <2>1 DEF Skid!Contents, Skid!Place, Skid!Flip, SkidPackets
<1>2. ASSUME Skid!TypeOK' PROVE Skid!Contents' = SkidPackets'
  <2>1. skid_count' \in {0, 1, 2} /\ skid_read' \in {0, 1}
    BY <1>2 DEF Skid!TypeOK, Skid!Slot
  <2> QED
    BY <2>1 DEF Skid!Contents, Skid!Place, Skid!Flip, SkidPackets
<1> QED
  BY <1>1, <1>2

\* A push writes behind the last packet and a pop moves to the next one.
LEMMA SkidExchanges ==
    ASSUME SkidOrdered, SkidInv, SkidInv', Skid!Transfer
    PROVE  Skid!Contents' = Skid!Queue!Exchanged
<1>1. /\ skid_count \in {0, 1, 2} /\ skid_read \in {0, 1}
      /\ skid_write = IF skid_count = 1 THEN 1 - skid_read ELSE skid_read
      /\ skid_packets \in [{0, 1} -> Packet]
  BY DEF SkidInv, Skid!TypeOK, Skid!PointersAgree, Skid!Place, Skid!Flip, Skid!Slot
<1>2. /\ skid_count' = skid_count + (IF Skid!push THEN 1 ELSE 0) - (IF Skid!pop THEN 1 ELSE 0)
      /\ skid_read' = IF Skid!pop THEN 1 - skid_read ELSE skid_read
      /\ skid_packets' = IF Skid!push
                         THEN [skid_packets EXCEPT ![skid_write] = skid_wires.packet_in]
                         ELSE skid_packets
      /\ Skid!push => skid_count # 2
      /\ Skid!pop => skid_count # 0
  BY SkidTransfers DEF SkidInv, Skid!Transfer, Skid!Occupancy, Skid!Flip, Skid!push, Skid!pop,
                       Skid!in_ready, Skid!out_valid
<1>3. Skid!Contents = SkidPackets
  BY SkidHolds DEF SkidInv
<1>4. Skid!Contents' = SkidPackets'
  BY SkidHolds DEF SkidInv
<1>5. Skid!Queue!push <=> Skid!push
  BY <1>1, <1>3 DEF Skid!Queue!push, Skid!Queue!in_ready, Skid!push, Skid!in_ready, SkidPackets
<1>6. Skid!Queue!pop <=> Skid!pop
  BY <1>1, <1>3 DEF Skid!Queue!pop, Skid!Queue!out_valid, Skid!pop, Skid!out_valid, SkidPackets
<1>7. Skid!Queue!Exchanged =
        IF Skid!push /\ Skid!pop THEN Append(Tail(Skid!Contents), skid_wires.packet_in)
        ELSE IF Skid!push THEN Append(Skid!Contents, skid_wires.packet_in)
        ELSE IF Skid!pop THEN Tail(Skid!Contents)
        ELSE Skid!Contents
  BY <1>5, <1>6 DEF Skid!Queue!Exchanged, Skid!Queue!Delivered
<1>8. CASE skid_count = 0
  BY <1>1, <1>2, <1>3, <1>4, <1>7, <1>8 DEF SkidPackets
<1>9. CASE skid_count = 1
  <2> DEFINE p == skid_wires.packet_in
             q == skid_packets[skid_read]
  <2>a. Skid!Contents = <<q>>
    BY <1>3, <1>9 DEF SkidPackets
  <2>b. /\ Tail(<<q>>) = << >>
        /\ Append(<<q>>, p) = <<q, p>>
        /\ Append(<< >>, p) = <<p>>
    BY ShortSequences
  <2>1. /\ Skid!Contents = <<q>>
        /\ Tail(<<q>>) = << >>
        /\ Append(<<q>>, p) = <<q, p>>
        /\ Append(<< >>, p) = <<p>>
    BY <2>a, <2>b
  <2>2. CASE Skid!push /\ Skid!pop
    <3>1. skid_count' = 1 /\ skid_packets'[skid_read'] = p
      BY <1>1, <1>2, <1>9, <2>2
    <3> QED
      BY <1>4, <1>7, <2>1, <2>2, <3>1 DEF SkidPackets
  <2>3. CASE Skid!push /\ ~Skid!pop
    <3>1. skid_count' = 2 /\ skid_packets'[skid_read'] = q /\ skid_packets'[1 - skid_read'] = p
      BY <1>1, <1>2, <1>9, <2>3
    <3> QED
      BY <1>4, <1>7, <2>1, <2>3, <3>1 DEF SkidPackets
  <2>4. CASE ~Skid!push /\ Skid!pop
    <3>1. skid_count' = 0
      BY <1>1, <1>2, <1>9, <2>4
    <3> QED
      BY <1>4, <1>7, <2>1, <2>4, <3>1 DEF SkidPackets
  <2>5. CASE ~Skid!push /\ ~Skid!pop
    <3>1. skid_count' = 1 /\ skid_packets'[skid_read'] = q
      BY <1>1, <1>2, <1>9, <2>5
    <3> QED
      BY <1>4, <1>7, <2>1, <2>5, <3>1 DEF SkidPackets
  <2> QED
    BY <2>2, <2>3, <2>4, <2>5
<1>10. CASE skid_count = 2
  BY <1>1, <1>2, <1>3, <1>4, <1>7, <1>10 DEF SkidPackets
<1> QED
  BY <1>1, <1>8, <1>9, <1>10

\* An edge of a skid buffer is a step of a two-packet queue.
LEMMA SkidStepIsQueueStep ==
    ASSUME SkidOrdered, SkidInv, SkidInv', Skid!Next
    PROVE  Skid!Queue!Next
<1>w. skid_wires \in Wires /\ Generated(skid_wires) /\ skid_wires' \in SkidDrive
  BY SignalsAssumption DEF SkidInv, Skid!TypeOK, SkidOrdered
<1>q. Skid!Contents' = IF skid_count' = 0 THEN << >>
                       ELSE IF skid_count' = 1 THEN <<skid_packets'[skid_read']>>
                       ELSE <<skid_packets'[skid_read'], skid_packets'[1 - skid_read']>>
  <2>1. Skid!Contents' = SkidPackets'
    BY SkidHolds DEF SkidInv
  <2> QED
    BY <2>1 DEF SkidPackets
<1>p. skid_packets' \in [{0, 1} -> Packet] /\ skid_packets \in [{0, 1} -> Packet]
  BY DEF SkidInv, Skid!TypeOK, Skid!Slot
<1> USE DEF Generated, Forced, Seeded, Skid!Queue!Forced, Skid!Queue!Seeded, Skid!Seeded
<1>1. CASE Skid!Reset
  <2>1. skid_wires.reset /\ skid_read' = 0
    BY <1>1 DEF Skid!Reset
  <2>2. CASE Seeded(skid_wires)
    <3>1. Skid!Contents' = <<skid_packets'[0]>>
      BY <1>1, <1>q, <2>2 DEF Skid!Reset
    <3>2. skid_packets'[0] \in Packet
          /\ (skid_wires.in_valid => skid_packets'[0] = skid_wires.packet_in)
      BY <1>1, <1>p, <2>2 DEF Skid!Reset
    <3> QED
      BY <1>w, <2>1, <2>2, <3>1, <3>2 DEF Skid!Queue!Next, Skid!Queue!Reset
  <2>3. CASE ~Seeded(skid_wires)
    BY <1>1, <1>w, <1>q, <2>1, <2>3 DEF Skid!Reset, Skid!Queue!Next, Skid!Queue!Reset
  <2> QED
    BY <2>2, <2>3
<1>2. CASE Skid!Clear
  BY <1>2, <1>w, <1>q, WireFields
     DEF Skid!Clear, Skid!Clearing, Skid!Queue!Next, Skid!Queue!Clear, Skid!Queue!Discard,
         Skid!Queue!Discarding, Skid!Queue!Invalidate, Skid!Queue!Busy
<1>3. CASE Skid!Transfer
  <2>1. ~skid_wires.force_valid /\ ~skid_wires.force_invalid
    BY <1>3, SkidTransfers DEF SkidInv
  <2>2. Skid!Contents' = Skid!Queue!Exchanged
    BY <1>3, SkidExchanges
  <2>3. Skid!Queue!Busy
    BY <1>3 DEF Skid!Transfer, Skid!Clearing, Skid!Queue!Busy, Skid!Queue!Discarding
  <2> QED
    BY <1>w, <2>1, <2>2, <2>3 DEF Skid!Queue!Next, Skid!Queue!Exchange
<1> QED
  BY <1>1, <1>2, <1>3 DEF Skid!Next

\* The two slots of a skid are a first-in first-out queue, also when they are pushed and
\* popped in one cycle, as long as no validity action comes before a transfer.
THEOREM SkidAlwaysImplementsQueue ==
    ASSUME SkidOrdered PROVE SignalsSpec => SkidImplementsQueue
<1>1. SignalsInit => Skid!Queue!Init
  <2> SUFFICES ASSUME SignalsInit PROVE Skid!Contents = << >> /\ skid_wires \in SkidDrive
    BY DEF Skid!Queue!Init
  <2>1. Skid!TypeOK /\ skid_count = 0 /\ skid_wires \in SkidDrive
    BY SkidInvInit DEF SkidInv, SignalsInit, Skid!Init
  <2> QED
    BY <2>1, SkidHolds DEF SkidPackets
<1>2. ASSUME SkidInv, SkidInv', [SignalsNext]_signals
      PROVE  [Skid!Queue!Next]_(Skid!Queue!vars)
  <2>1. CASE UNCHANGED skid
    BY <2>1 DEF skid, Skid!Queue!vars, Skid!Contents, Skid!Place, Skid!Flip
  <2> QED
    BY <1>2, <2>1, SkidStepIsQueueStep, StepOfOne
<1> QED
  BY <1>1, <1>2, SkidInvInit, SkidInvStep, PTL
     DEF SignalsSpec, SkidImplementsQueue, Skid!ImplementsQueue, Skid!Queue!Spec

-----------------------------------------------------------------------------
(* The endpoint queue of a fabric. *)

\* A fabric endpoint has no clear, discard or force controls.
EndpointHandshakes == \A w \in EndpointDrive : ~w.clear /\ ~w.discard /\ ~Forced(w)

\* The queue of an endpoint starts well typed,
LEMMA EndpointTypeInit == SignalsInit => Endpoint!TypeOK
BY SignalsAssumption DEF SignalsInit, Endpoint!Init, Endpoint!TypeOK

\* and stays so.
LEMMA EndpointTypeStep ==
    ASSUME Endpoint!TypeOK, [SignalsNext]_signals PROVE Endpoint!TypeOK'
<1>w. endpoint_wires \in Wires
  BY SignalsAssumption DEF Endpoint!TypeOK
<1>1. CASE Endpoint!Next
  BY <1>w, <1>1, WireFields, SignalsAssumption
     DEF Endpoint!Next, Endpoint!Reset, Endpoint!Push, Endpoint!Pop, Endpoint!Replace,
         Endpoint!Hold, Endpoint!NextWires, Endpoint!TypeOK, Endpoint!push, Endpoint!pop,
         Endpoint!in_ready, Endpoint!out_valid
<1>2. CASE UNCHANGED endpoint
  BY <1>2 DEF endpoint, Endpoint!TypeOK
<1> QED
  BY <1>1, <1>2, StepOfOne

\* The handshakes an endpoint queue sees are those of its enabled cycles.
LEMMA EndpointGates ==
    ASSUME endpoint_wires \in Wires
    PROVE  /\ Endpoint!GatedWires \in Endpoint!Wires
           /\ Endpoint!GatedWires.reset = endpoint_wires.reset
           /\ Endpoint!GatedWires.clear = endpoint_wires.clear
           /\ Endpoint!GatedWires.discard = endpoint_wires.discard
           /\ Endpoint!GatedWires.force_valid = endpoint_wires.force_valid
           /\ Endpoint!GatedWires.force_invalid = endpoint_wires.force_invalid
           /\ Endpoint!GatedWires.packet_in = endpoint_wires.packet_in
           /\ Endpoint!GatedWires.in_valid = (endpoint_wires.in_valid /\ endpoint_enable)
           /\ Endpoint!GatedWires.out_ready = (endpoint_wires.out_ready /\ endpoint_enable)
<1>1. /\ Endpoint!GatedInput \in Endpoint!Wires
      /\ Endpoint!GatedInput.reset = endpoint_wires.reset
      /\ Endpoint!GatedInput.clear = endpoint_wires.clear
      /\ Endpoint!GatedInput.discard = endpoint_wires.discard
      /\ Endpoint!GatedInput.force_valid = endpoint_wires.force_valid
      /\ Endpoint!GatedInput.force_invalid = endpoint_wires.force_invalid
      /\ Endpoint!GatedInput.packet_in = endpoint_wires.packet_in
      /\ Endpoint!GatedInput.in_valid = (endpoint_wires.in_valid /\ endpoint_enable)
      /\ Endpoint!GatedInput.out_ready = endpoint_wires.out_ready
  BY DEF Wires, Endpoint!Wires, Endpoint!GatedInput
<1> QED
  BY <1>1 DEF Endpoint!Wires, Endpoint!GatedWires

\* A fabric endpoint is a two-packet queue whose handshakes happen only in enabled
\* cycles: whatever is accepted is delivered once and in order.
THEOREM EndpointAlwaysImplementsQueue ==
    ASSUME EndpointHandshakes PROVE SignalsSpec => EndpointImplementsQueue
<1>1. SignalsInit => Endpoint!Queue!Init
  BY EndpointTypeInit, EndpointGates, SignalsAssumption
     DEF SignalsInit, Endpoint!Init, Endpoint!TypeOK, Endpoint!Queue!Init, Endpoint!Contents
<1>2. ASSUME Endpoint!TypeOK, Endpoint!TypeOK', [SignalsNext]_signals
      PROVE  [Endpoint!Queue!Next]_(Endpoint!Queue!vars)
  <2>1. CASE UNCHANGED endpoint
    BY <2>1 DEF endpoint, Endpoint!Queue!vars, Endpoint!Contents, Endpoint!GatedInput,
                Endpoint!GatedWires
  <2>2. ASSUME Endpoint!Next PROVE Endpoint!Queue!Next
    <3> DEFINE gated == Endpoint!GatedWires
               p == endpoint_wires.packet_in
               a == endpoint_head
               b == endpoint_second
    <3>w. endpoint_wires \in Wires /\ endpoint_enable \in BOOLEAN
          /\ endpoint_count \in {0, 1, 2}
          /\ ~endpoint_wires.clear /\ ~endpoint_wires.discard
          /\ ~endpoint_wires.force_valid /\ ~endpoint_wires.force_invalid
      BY <1>2, SignalsAssumption DEF Endpoint!TypeOK, EndpointHandshakes, Forced
    <3>d. Endpoint!GatedWires' \in Endpoint!Wires
      <4>1. endpoint_wires' \in Wires /\ endpoint_enable' \in BOOLEAN
        BY <1>2, SignalsAssumption DEF Endpoint!TypeOK
      <4>2. Endpoint!GatedInput' \in Endpoint!Wires
        BY <4>1 DEF Wires, Endpoint!Wires, Endpoint!GatedInput
      <4> QED
        BY <4>2 DEF Endpoint!Wires, Endpoint!GatedWires
    <3>c. /\ endpoint_count = 0 => Endpoint!Contents = << >>
          /\ endpoint_count = 1 => Endpoint!Contents = <<a>>
          /\ endpoint_count = 2 => Endpoint!Contents = <<a, b>>
      BY DEF Endpoint!Contents
    <3>n. /\ endpoint_count' = 0 => Endpoint!Contents' = << >>
          /\ endpoint_count' = 1 => Endpoint!Contents' = <<endpoint_head'>>
          /\ endpoint_count' = 2 => Endpoint!Contents' = <<endpoint_head', endpoint_second'>>
      BY DEF Endpoint!Contents
    <3>g. /\ ~gated.clear /\ ~gated.discard /\ ~gated.force_valid /\ ~gated.force_invalid
          /\ gated.reset = endpoint_wires.reset /\ gated.packet_in = p
          /\ gated.in_valid = (endpoint_wires.in_valid /\ endpoint_enable)
          /\ gated.out_ready = (endpoint_wires.out_ready /\ endpoint_enable)
      BY <3>w, EndpointGates
    <3>b. Endpoint!Queue!Busy <=> ~endpoint_wires.reset
      BY <3>g DEF Endpoint!Queue!Busy, Endpoint!Queue!Discarding
    <3>l. /\ Len(Endpoint!Contents) = endpoint_count
          /\ Endpoint!Contents # << >> <=> endpoint_count # 0
      <4>1. CASE endpoint_count = 0
        BY <3>c, <4>1
      <4>2. CASE endpoint_count = 1
        BY <3>c, <4>2, ShortSequences
      <4>3. CASE endpoint_count = 2
        BY <3>c, <4>3, ShortSequences
      <4> QED
        BY <3>w, <4>1, <4>2, <4>3
    <3>p. Endpoint!Queue!push <=> Endpoint!push
      <4>1. Len(Endpoint!Contents) < 2 <=> endpoint_count # 2
        BY <3>w, <3>l
      <4>2. gated.in_valid <=> endpoint_wires.in_valid /\ endpoint_enable
        BY <3>g
      <4> QED
        BY <4>1, <4>2
           DEF Endpoint!Queue!push, Endpoint!Queue!in_ready, Endpoint!push, Endpoint!in_ready
    <3>o. Endpoint!Queue!pop <=> Endpoint!pop
      <4>1. gated.out_ready <=> endpoint_wires.out_ready /\ endpoint_enable
        BY <3>g
      <4> QED
        BY <3>l, <4>1
           DEF Endpoint!Queue!pop, Endpoint!Queue!out_valid, Endpoint!pop, Endpoint!out_valid
    <3>e. Endpoint!Queue!Exchanged =
            IF Endpoint!push /\ Endpoint!pop THEN Append(Tail(Endpoint!Contents), p)
            ELSE IF Endpoint!push THEN Append(Endpoint!Contents, p)
            ELSE IF Endpoint!pop THEN Tail(Endpoint!Contents)
            ELSE Endpoint!Contents
      BY <3>g, <3>p, <3>o DEF Endpoint!Queue!Exchanged, Endpoint!Queue!Delivered
    <3>s. /\ Append(<< >>, p) = <<p>> /\ Append(<<a>>, p) = <<a, p>>
          /\ Tail(<<a>>) = << >> /\ Tail(<<a, b>>) = <<b>>
      BY ShortSequences
    <3>1. CASE Endpoint!Reset
      BY <3>1, <3>n, <3>d, <3>g
         DEF Endpoint!Reset, Endpoint!Queue!Next, Endpoint!Queue!Reset, Seeded,
             Endpoint!Queue!Seeded
    <3>x. ASSUME ~endpoint_wires.reset, Endpoint!Contents' = Endpoint!Queue!Exchanged
          PROVE  Endpoint!Queue!Next
      BY <3>x, <3>b, <3>d, <3>g
         DEF Endpoint!Queue!Next, Endpoint!Queue!Exchange, Endpoint!Queue!Forced
    <3>2. CASE Endpoint!Push
      <4>1. /\ Endpoint!push /\ ~Endpoint!pop /\ ~endpoint_wires.reset
            /\ endpoint_count \in {0, 1}
        BY <3>2, <3>w DEF Endpoint!Push, Endpoint!push, Endpoint!in_ready
      <4>2. Endpoint!Queue!Exchanged = Append(Endpoint!Contents, p)
        BY <3>e, <4>1
      <4>3. CASE endpoint_count = 0
        <5>1. endpoint_count' = 1 /\ endpoint_head' = p
          BY <3>2, <4>3 DEF Endpoint!Push
        <5>2. Endpoint!Contents' = <<p>>
          BY <3>n, <5>1
        <5>3. Endpoint!Queue!Exchanged = <<p>>
          BY <3>c, <3>s, <4>2, <4>3
        <5> QED
          BY <3>x, <4>1, <5>2, <5>3
      <4>4. CASE endpoint_count = 1
        <5>1. endpoint_count' = 2 /\ endpoint_head' = a /\ endpoint_second' = p
          BY <3>2, <4>4 DEF Endpoint!Push
        <5>2. Endpoint!Contents' = <<a, p>>
          BY <3>n, <5>1
        <5>3. Endpoint!Queue!Exchanged = <<a, p>>
          BY <3>c, <3>s, <4>2, <4>4
        <5> QED
          BY <3>x, <4>1, <5>2, <5>3
      <4> QED
        BY <4>1, <4>3, <4>4
    <3>3. CASE Endpoint!Pop
      <4>1. /\ Endpoint!pop /\ ~Endpoint!push /\ ~endpoint_wires.reset
            /\ endpoint_count \in {1, 2}
        BY <3>3, <3>w DEF Endpoint!Pop, Endpoint!pop, Endpoint!out_valid
      <4>2. Endpoint!Queue!Exchanged = Tail(Endpoint!Contents)
        BY <3>e, <4>1
      <4>3. CASE endpoint_count = 1
        <5>1. endpoint_count' = 0
          BY <3>3, <4>3 DEF Endpoint!Pop
        <5>2. Endpoint!Contents' = << >>
          BY <3>n, <5>1
        <5>3. Endpoint!Queue!Exchanged = << >>
          BY <3>c, <3>s, <4>2, <4>3
        <5> QED
          BY <3>x, <4>1, <5>2, <5>3
      <4>4. CASE endpoint_count = 2
        <5>1. endpoint_count' = 1 /\ endpoint_head' = b
          BY <3>3, <4>4 DEF Endpoint!Pop
        <5>2. Endpoint!Contents' = <<b>>
          BY <3>n, <5>1
        <5>3. Endpoint!Queue!Exchanged = <<b>>
          BY <3>c, <3>s, <4>2, <4>4
        <5> QED
          BY <3>x, <4>1, <5>2, <5>3
      <4> QED
        BY <4>1, <4>3, <4>4
    <3>4. CASE Endpoint!Replace
      <4>1. /\ Endpoint!pop /\ Endpoint!push /\ ~endpoint_wires.reset
            /\ endpoint_count = 1
        BY <3>4, <3>w DEF Endpoint!Replace, Endpoint!push, Endpoint!pop, Endpoint!in_ready,
                          Endpoint!out_valid
      <4>2. Endpoint!Queue!Exchanged = Append(Tail(Endpoint!Contents), p)
        BY <3>e, <4>1
      <4>3. endpoint_count' = 1 /\ endpoint_head' = p
        BY <3>4, <4>1 DEF Endpoint!Replace
      <4>4. Endpoint!Contents' = <<p>>
        BY <3>n, <4>3
      <4>5. Endpoint!Queue!Exchanged = <<p>>
        BY <3>c, <3>s, <4>1, <4>2
      <4> QED
        BY <3>x, <4>1, <4>4, <4>5
    <3>5. CASE Endpoint!Hold
      <4>1. Endpoint!Contents' = Endpoint!Contents
        BY <3>5 DEF Endpoint!Hold, Endpoint!Contents
      <4> QED
        BY <3>5, <3>e, <3>x, <4>1 DEF Endpoint!Hold
    <3> QED
      BY <2>2, <3>1, <3>2, <3>3, <3>4, <3>5 DEF Endpoint!Next
  <2> QED
    BY <1>2, <2>1, <2>2, StepOfOne
<1> QED
  BY <1>1, <1>2, EndpointTypeInit, EndpointTypeStep, PTL
     DEF SignalsSpec, EndpointImplementsQueue, Endpoint!ImplementsQueue, Endpoint!Queue!Spec

-----------------------------------------------------------------------------
(* The fifo that any validity action reaches. *)

\* What pigen_emit_clear_routes drives a fifo with.
FifoGenerated == \A w \in FifoDrive : Generated(w)

\* The part of the type invariant the validity actions rest on.
FifoCounts == fifo_count \in Int /\ fifo_wires \in FifoDrive

\* The count of a fifo starts as a number,
LEMMA FifoCountsInit == SignalsInit => FifoCounts
BY DEF SignalsInit, Fifo!Init, FifoCounts

\* and stays one.
LEMMA FifoCountsStep ==
    ASSUME FifoCounts, [SignalsNext]_signals PROVE FifoCounts'
<1>1. CASE Fifo!Next
  BY <1>1 DEF Fifo!Next, Fifo!Reset, Fifo!Clear, Fifo!Discard, Fifo!Transfer, Fifo!NextWires,
              Fifo!ForcedCount, Fifo!Occupancy, FifoCounts
<1>2. CASE UNCHANGED fifo
  BY <1>2 DEF fifo, FifoCounts
<1> QED
  BY <1>1, <1>2, StepOfOne

\* A validate or an invalidate in a cycle without a handshake takes effect in a fifo of
\* any depth and any count, although the count arithmetic of the block runs first.
THEOREM FifoLoneActionAlwaysActs ==
    ASSUME FifoGenerated PROVE SignalsSpec => FifoLoneActionActs
<1> DEFINE Acts == /\ Fifo!Law!Running(fifo_wires) /\ Fifo!Law!Forced(fifo_wires)
                   /\ ~Fifo!Law!Accepting /\ ~Fifo!Law!Delivering
                   => Fifo!out_valid' = fifo_wires.force_valid
<1>1. ASSUME FifoCounts, [SignalsNext]_signals
      PROVE  [Acts]_(Fifo!Law!handshake)
  <2>w. /\ fifo_count \in Int /\ fifo_wires \in Wires
        /\ ~(fifo_wires.force_valid /\ fifo_wires.force_invalid)
    BY <1>1, SignalsAssumption DEF FifoCounts, FifoGenerated, Generated
  <2>1. CASE UNCHANGED fifo
    BY <2>1 DEF fifo, Fifo!Law!handshake, Fifo!in_ready, Fifo!out_valid, Fifo!packet_out
  <2>2. ASSUME Fifo!Next, Fifo!Law!Running(fifo_wires), Fifo!Law!Forced(fifo_wires),
               ~Fifo!Law!Accepting, ~Fifo!Law!Delivering
        PROVE  Fifo!out_valid' = fifo_wires.force_valid
    <3>1. /\ ~fifo_wires.reset /\ ~fifo_wires.clear /\ ~fifo_wires.discard
          /\ fifo_wires.force_valid \/ fifo_wires.force_invalid
          /\ ~Fifo!push /\ ~Fifo!pop
      BY <2>2 DEF Fifo!Law!Running, Fifo!Law!Forced, Fifo!Law!Accepting, Fifo!Law!Delivering,
                  Fifo!push, Fifo!pop
    <3>2. CASE Fifo!Clear
      BY <2>w, <3>1, <3>2, WireFields DEF Fifo!Clear, Fifo!Clearing, Fifo!out_valid
    <3>3. CASE Fifo!Transfer
      <4>1. Fifo!Occupancy = fifo_count
        BY <2>w, <3>1 DEF Fifo!Occupancy
      <4> QED
        BY <2>w, <3>1, <3>3, <4>1, WireFields DEF Fifo!Transfer, Fifo!ForcedCount, Fifo!out_valid
    <3> QED
      BY <2>2, <3>1, <3>2, <3>3 DEF Fifo!Next, Fifo!Reset, Fifo!Discard
  <2> QED
    BY <1>1, <2>1, <2>2, StepOfOne
<1> QED
  BY <1>1, FifoCountsInit, FifoCountsStep, PTL
     DEF SignalsSpec, FifoLoneActionActs, Fifo!LoneActionActs, Fifo!Law!LoneActionActs
=============================================================================
