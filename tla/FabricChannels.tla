--------------------------- MODULE FabricChannels ---------------------------
(***************************************************************************)
(* What a fabric promises its endpoints: each connection is a channel of   *)
(* its own.  At a clock edge each source may append one packet, each       *)
(* channel may deliver its oldest one, and a destination takes at most one *)
(* packet from all the channels that end at it.  Reset empties all.        *)
(***************************************************************************)
EXTENDS Integers, Sequences

CONSTANTS Sources, Destinations, DestinationOf, Number

VARIABLE channel

Init == channel = [s \in Sources |-> << >>]

Waiting(s) == channel[s] # << >>

Left(s, T) == IF s \in T THEN Tail(channel[s]) ELSE channel[s]

\* The channels of the sources in T deliver; each source may send.
Clock(T) ==
    /\ \A s, u \in T : DestinationOf[s] = DestinationOf[u] => s = u
    /\ \A s \in T : Waiting(s)
    /\ channel' \in [Sources -> Seq(0 .. Number - 1)]
    /\ \A s \in Sources : \/ channel'[s] = Left(s, T)
                          \/ \E n \in 0 .. Number - 1 :
                               channel'[s] = Append(Left(s, T), n)

Reset == channel' = [s \in Sources |-> << >>]

Next == (\E T \in SUBSET Sources : Clock(T)) \/ Reset

Spec == Init /\ [][Next]_channel
=============================================================================
