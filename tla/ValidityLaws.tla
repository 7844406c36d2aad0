---------------------------- MODULE ValidityLaws ----------------------------
(***************************************************************************)
(* The cycle laws of a storage primitive as a producer and a consumer see  *)
(* them, over its handshake outputs only: what backpressure preserves, and *)
(* how validate and invalidate compose with the transfer of their cycle.   *)
(***************************************************************************)
EXTENDS SignalWires

VARIABLES in_ready, out_valid, packet_out, wires

handshake == <<in_ready, out_valid, packet_out, wires>>

Accepting == wires.in_valid /\ in_ready
Delivering == out_valid /\ wires.out_ready

\* A packet accepted after an earlier validate or invalidate in source order
\* leaves the storage valid.
LaterTransferWins ==
    [][Running(wires) /\ ~wires.force_after_transfer /\ Accepting
        => out_valid']_handshake

\* A validate or invalidate after the transfers in source order decides
\* the next validity, whatever was accepted or delivered.
LaterActionWins ==
    [][Running(wires) /\ wires.force_after_transfer
        => out_valid' = wires.force_valid]_handshake

\* With no transfer in its cycle a validity action simply takes effect.
LoneActionActs ==
    [][Running(wires) /\ Forced(wires) /\ ~Accepting /\ ~Delivering
        => out_valid' = wires.force_valid]_handshake

\* In a one-packet storage the accepted packet is the one shown next: no
\* accepted packet is dropped in favour of the one already there.
AcceptedIsShown ==
    [][Running(wires) /\ Accepting /\ out_valid'
        => packet_out' = wires.packet_in]_handshake
=============================================================================
