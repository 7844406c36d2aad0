--------------------------- MODULE MCStoredSignals ---------------------------
(***************************************************************************)
(* The stored signals side by side: a fifo whose validity actions are      *)
(* ordered last (the one the proofs are about), a fifo they reach in any   *)
(* order, a skid, a buf, a port and a fabric endpoint queue.  They share   *)
(* no wire, so it is enough to clock one of them.                          *)
(***************************************************************************)
EXTENDS PigenFifo

CONSTANTS
    Clocked,            \* the signals that may be under the clock
    FifoDepth,          \* slots of the fifo under any action
    Zero,               \* the payload '0
    FifoDrive, SkidDrive, BufDrive, PortDrive, EndpointDrive    \* what drives each

ASSUME SignalsAssumption ==
    /\ Zero \in Packet
    /\ FifoDrive \cup SkidDrive \cup BufDrive \cup PortDrive \cup EndpointDrive \subseteq Wires

VARIABLES
    clocked,            \* the signal under the clock
    fifo_read, fifo_write, fifo_count, fifo_packets, fifo_wires,
    skid_read, skid_write, skid_count, skid_packets, skid_wires,
    buf_valid, buf_packet, buf_wires,
    port_valid, port_packet, port_wires,
    endpoint_count, endpoint_head, endpoint_second, endpoint_enable, endpoint_wires

ordered == <<read_pointer, write_pointer, count, packets, wires>>
fifo == <<fifo_read, fifo_write, fifo_count, fifo_packets, fifo_wires>>
skid == <<skid_read, skid_write, skid_count, skid_packets, skid_wires>>
buf == <<buf_valid, buf_packet, buf_wires>>
port == <<port_valid, port_packet, port_wires>>
endpoint == <<endpoint_count, endpoint_head, endpoint_second, endpoint_enable, endpoint_wires>>
signals == <<clocked, ordered, fifo, skid, buf, port, endpoint>>

Fifo == INSTANCE PigenFifo
        WITH read_pointer <- fifo_read, write_pointer <- fifo_write,
             count <- fifo_count, packets <- fifo_packets, wires <- fifo_wires,
             Drive <- FifoDrive, Depth <- FifoDepth
Skid == INSTANCE PigenSkid
        WITH read_pointer <- skid_read, write_pointer <- skid_write,
             count <- skid_count, packets <- skid_packets, wires <- skid_wires,
             Drive <- SkidDrive
Buf == INSTANCE PigenBuf
       WITH packet_valid <- buf_valid, packet <- buf_packet, wires <- buf_wires,
            Drive <- BufDrive
PortOutput == INSTANCE PigenPort
              WITH out_valid <- port_valid, packet_out <- port_packet,
                   wires <- port_wires, Drive <- PortDrive
Endpoint == INSTANCE FabricSkid
            WITH count <- endpoint_count, packet0 <- endpoint_head,
                 packet1 <- endpoint_second, enable <- endpoint_enable,
                 wires <- endpoint_wires, Drive <- EndpointDrive

-----------------------------------------------------------------------------
(* The wires the runs drive. *)

\* packet_in is irrelevant while in_valid is low: one value stands for all.
Distinct(w) == w.in_valid \/ w.packet_in = CHOOSE p \in Packet : TRUE

\* Everything generated code and the primitive test benches drive.
GenerableDrive == {w \in Wires : Generated(w) /\ Distinct(w)}

\* Wires of a program without a validity action ahead of a transfer.
OrderedDrive == {w \in GenerableDrive : OrderedOnly(w)}

\* Wires of a fabric endpoint, which has no clear, discard or force controls.
HandshakeDrive == {w \in GenerableDrive : ~w.clear /\ ~w.discard /\ ~Forced(w)}

\* Wires of a program that validates and never invalidates.
ValidatingDrive == {w \in GenerableDrive : Running(w) /\ ~w.force_invalid}

\* Wires of a program whose invalidates precede its transfers.
InvalidatingDrive == {w \in GenerableDrive : /\ Running(w) /\ ~w.force_valid
                                             /\ ~w.force_after_transfer}

-----------------------------------------------------------------------------
\* The signals not under the clock rest in one initial state.
Resting(w) == w = CHOOSE idle \in OrderedDrive : idle.reset
RestingSlots(slots) == slots = [i \in DOMAIN slots |-> Zero]

SignalsInit ==
    /\ clocked \in Clocked
    /\ Init
    /\ clocked # "ordered" => RestingSlots(packets) /\ Resting(wires)
    /\ Fifo!Init
    /\ clocked # "fifo" => RestingSlots(fifo_packets) /\ Resting(fifo_wires)
    /\ Skid!Init
    /\ clocked # "skid" => RestingSlots(skid_packets) /\ Resting(skid_wires)
    /\ Buf!Init
    /\ clocked # "buf" => Resting(buf_wires)
    /\ PortOutput!Init
    /\ clocked # "port" => Resting(port_wires)
    /\ Endpoint!Init
    /\ clocked # "endpoint" => endpoint_enable /\ Resting(endpoint_wires)

ClockOrdered ==
    /\ clocked = "ordered" /\ Next
    /\ UNCHANGED <<clocked, fifo, skid, buf, port, endpoint>>
ClockFifo ==
    /\ clocked = "fifo" /\ Fifo!Next
    /\ UNCHANGED <<clocked, ordered, skid, buf, port, endpoint>>
ClockSkid ==
    /\ clocked = "skid" /\ Skid!Next
    /\ UNCHANGED <<clocked, ordered, fifo, buf, port, endpoint>>
ClockBuf ==
    /\ clocked = "buf" /\ Buf!Next
    /\ UNCHANGED <<clocked, ordered, fifo, skid, port, endpoint>>
ClockPort ==
    /\ clocked = "port" /\ PortOutput!Next
    /\ UNCHANGED <<clocked, ordered, fifo, skid, buf, endpoint>>
ClockEndpoint ==
    /\ clocked = "endpoint" /\ Endpoint!Next
    /\ UNCHANGED <<clocked, ordered, fifo, skid, buf, port>>

SignalsNext ==
    ClockOrdered \/ ClockFifo \/ ClockSkid \/ ClockBuf \/ ClockPort \/ ClockEndpoint

SignalsSpec == SignalsInit /\ [][SignalsNext]_signals

-----------------------------------------------------------------------------
\* A validate or invalidate of a fifo in a cycle without a handshake takes
\* effect, although the block's count arithmetic runs first.
FifoLoneActionActs == Fifo!LoneActionActs

\* A skid is a two-packet queue with registered readiness, and discarding
\* empties it.
SkidImplementsQueue == Skid!ImplementsQueue

\* A buf is a one-packet queue that is refilled in the cycle it is drained,
\* under every combination of transfers, flushes and validity actions.
BufImplementsQueue == Buf!ImplementsQueue

\* The validity actions of a buf compose with its transfers in source order: a packet
\* accepted after an action survives it, an action after the transfers decides, and
\* whatever decides, the accepted packet is the one shown.
BufComposes == Buf!LaterTransferWins /\ Buf!LaterActionWins /\ Buf!AcceptedIsShown

\* A write to a port pulses in spite of an earlier invalidate, and no pulse outlives its
\* cycle.
PortComposes == PortOutput!LaterTransferWins /\ PortOutput!PulseIsOneCycle

\* The pulse a validated write to a port is accepted for shows that write.
PortShowsAccepted == PortOutput!AcceptedIsShown

\* A fabric endpoint is a two-packet queue that enable gates on both sides.
EndpointImplementsQueue == Endpoint!ImplementsQueue
=============================================================================
