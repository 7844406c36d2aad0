---------------------------- MODULE SignalWires ----------------------------
(***************************************************************************)
(* The wires every Pigen storage primitive is instantiated with: the       *)
(* controls reset, clear, discard, force_valid, force_invalid and          *)
(* force_after_transfer, the inbound in_valid/packet_in and the outbound   *)
(* out_ready.  A primitive samples them at each rising edge of the clock.  *)
(***************************************************************************)
CONSTANTS
    Packet,     \* the values of the payload type
    Drive       \* the wire records the surrounding module may drive

\* Every combination the port list admits.
Wires == [reset : BOOLEAN, clear : BOOLEAN, discard : BOOLEAN,
          force_valid : BOOLEAN, force_invalid : BOOLEAN,
          force_after_transfer : BOOLEAN,
          in_valid : BOOLEAN, packet_in : Packet, out_ready : BOOLEAN]

ASSUME DriveAssumption == Drive \subseteq Wires

Forced(w) == w.force_valid \/ w.force_invalid
Seeded(w) == w.force_valid /\ ~w.force_invalid

\* What pigen_emit_clear_routes generates: force_valid and force_invalid are
\* selected by the same priority chain, so they exclude each other, and
\* pigen_validate_clears rejects a flush that may overlap a transfer.  No
\* generated route drives discard; a hand-written instance drives it alone.
Generated(w) == /\ ~(w.force_valid /\ w.force_invalid)
                /\ w.force_after_transfer => Forced(w)
                /\ w.clear => ~w.in_valid
                /\ w.discard => ~w.in_valid /\ ~Forced(w)

\* Transfers, flushes and seeding under reset: no validity action writes the
\* next state while the module runs, except an invalidate that source order
\* puts after every transfer.
OrderedOnly(w) == /\ w.force_valid => w.reset
                  /\ (w.force_invalid /\ ~w.reset) => w.force_after_transfer

\* The wires of a cycle in which nothing but the handshakes can act.
Running(w) == ~w.reset /\ ~w.clear /\ ~w.discard
=============================================================================
