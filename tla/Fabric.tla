------------------------------- MODULE Fabric -------------------------------
(***************************************************************************)
(* The network render_fabric generates for the routed connections of a     *)
(* fabric block: a transmit queue per source, three-port routers with a    *)
(* two-packet ingress queue per port and a round-robin bit per output, and *)
(* a receive queue per destination.  One step is one clock edge with       *)
(* enable high (an edge with enable low changes nothing).  The two-packet  *)
(* queues are the ones module FabricSkid refines.                          *)
(***************************************************************************)
EXTENDS Integers, Sequences, FiniteSets, SequencesExt

CONSTANTS
    Sources, Destinations, Router,
    Attached,       \* [Router \X Port -> attachment], from build_fabric_topology
    Word,           \* [Sources -> path word], the ROUTE__ constants
    Delivered,      \* [Sources -> word as received], the SOURCE constants
    DestinationOf,  \* [Sources -> Destinations], the declared connections
    Number          \* payloads are numbered modulo this

Port == 0 .. 2
Link == Router \X Port

VARIABLES
    tx,             \* transmit queues
    ingress,        \* router ingress queues
    rx,             \* receive queues
    rr,             \* round-robin bits, one per router output
    offered         \* the number each source offers next

vars == <<tx, ingress, rx, rr, offered>>

\* A payload is opaque to the fabric: the source names itself and numbers it.
Payload == [from : Sources, number : 0 .. Number - 1]
Path == Seq({0, 1})
Packet == [path : Path, payload : Payload]

Room(queue) == Len(queue) < 2

-----------------------------------------------------------------------------
(* One router. *)

OutPort(in_port, bit) == (in_port + 1 + bit) % 3

\* forward_packet: the used bit moves to the top of the path.
\* Mutant: the path is not rotated.
ForwardUnrotated(packet) == packet

Rotated(path) == Append(Tail(path), Head(path))
ForwardPacket(packet) == [packet EXCEPT !.path = Rotated(@)]

\* The inputs whose head packet asks for output port t.
Requests(r, t) ==
    {i \in Port : /\ ingress[<<r, i>>] # << >>
                  /\ OutPort(i, Head(Head(ingress[<<r, i>>]).path)) = t}

First(t) == (t + 2) % 3
Second(t) == (t + 1) % 3

\* Mutant: the first input always wins.
GrantFirst(r, t) ==
    IF First(t) \in Requests(r, t) THEN First(t) ELSE Second(t)

Grant(r, t) ==
    IF {First(t), Second(t)} \subseteq Requests(r, t)
    THEN IF rr[<<r, t>>] THEN Second(t) ELSE First(t)
    ELSE IF First(t) \in Requests(r, t) THEN First(t) ELSE Second(t)

\* A dummy port and a source's port are wired always ready: whatever is routed
\* there is lost.
OutReady(r, t) ==
    LET a == Attached[<<r, t>>]
    IN /\ a.kind = "router" => Room(ingress[<<a.target, a.port>>])
       /\ a.kind = "destination" => Room(rx[a.target])

\* The packets that cross an output port at this edge: none or one.
Outgoing(r, t) == IF Requests(r, t) # {} /\ OutReady(r, t)
                  THEN <<ForwardPacket(Head(ingress[<<r, Grant(r, t)>>]))>>
                  ELSE << >>

Fires(r, t) == Outgoing(r, t) # << >>

-----------------------------------------------------------------------------
(* One clock edge. *)

Accepted(S) == {s \in S : Room(tx[s])}

SourceAt == [s \in Sources |->
    CHOOSE l \in Link : Attached[l] = [kind |-> "source", target |-> s]]
DestinationAt == [d \in Destinations |->
    CHOOSE l \in Link : Attached[l] = [kind |-> "destination", target |-> d]]

\* A transmit queue hands its head to its router whenever there is room.
Injected(s) == IF tx[s] # << >> /\ Room(ingress[SourceAt[s]])
               THEN <<Head(tx[s])>> ELSE << >>

Incoming(r, p) ==
    LET a == Attached[<<r, p>>]
    IN IF a.kind = "router" THEN Outgoing(a.target, a.port)
       ELSE IF a.kind = "source" THEN Injected(a.target) ELSE << >>

\* Mutant: an input whose packet lost the arbitration drops it too.
RemovedUngranted(r, p) ==
    \E t \in Port \ {p} : Fires(r, t) /\ p \in Requests(r, t)

Removed(r, p) == \E t \in Port \ {p} : Fires(r, t) /\ Grant(r, t) = p

Dropped(queue, taken) == IF taken THEN Tail(queue) ELSE queue

-----------------------------------------------------------------------------
(* The wiring and the words.  FabricTopology computes both.                *)

\* Where the packets of a source wait on their way, and the path they carry there.
Journey ==
    LET walk[l \in Link, path \in Path] ==
            LET a == Attached[<<l[1], OutPort(l[2], Head(path))>>]
            IN <<[link |-> l, path |-> path]>>
                 \o IF a.kind = "router" THEN walk[<<a.target, a.port>>, Rotated(path)]
                    ELSE << >>
    IN [s \in Sources |-> walk[SourceAt[s], Word[s]]]

Places == [s \in Sources |-> Range(Journey[s])]

\* Ports that are wired together name each other, and an endpoint has a port of its own.
ASSUME WiringAssumption ==
    /\ Number \in Nat \ {0}
    /\ DestinationOf \in [Sources -> Destinations]
    /\ \A l \in Link :
          LET a == Attached[l]
          IN /\ a.kind = "router" =>
                   /\ <<a.target, a.port>> \in Link
                   /\ Attached[<<a.target, a.port>>] =
                         [kind |-> "router", target |-> l[1], port |-> l[2]]
             /\ a.kind = "source" => a.target \in Sources /\ SourceAt[a.target] = l
             /\ a.kind = "destination" =>
                   a.target \in Destinations /\ DestinationAt[a.target] = l
    /\ \A s \in Sources :
          /\ SourceAt[s] \in Link
          /\ Attached[SourceAt[s]] = [kind |-> "source", target |-> s]
    /\ \A d \in Destinations :
          /\ DestinationAt[d] \in Link
          /\ Attached[DestinationAt[d]] = [kind |-> "destination", target |-> d]

\* The output port a packet leaves by.
ExitOf(place) == <<place.link[1], OutPort(place.link[2], Head(place.path))>>

\* From its source on, a word leads from router to router and over no link twice, to the
\* declared destination, and arrives there as the constant that names the source.
ASSUME WordsAssumption ==
    \A s \in Sources :
        LET journey == Journey[s]
        IN /\ journey \in Seq([link : Link, path : Path \ {<< >>}]) \ {<< >>}
           /\ journey[1] = [link |-> SourceAt[s], path |-> Word[s]]
           /\ \A i, j \in DOMAIN journey : journey[i].link = journey[j].link => i = j
           /\ \A i \in DOMAIN journey :
                 LET a == Attached[ExitOf(journey[i])]
                     onward == Rotated(journey[i].path)
                 IN IF i < Len(journey)
                    THEN /\ a.kind = "router"
                         /\ journey[i + 1] = [link |-> <<a.target, a.port>>, path |-> onward]
                    ELSE /\ a = [kind |-> "destination", target |-> DestinationOf[s]]
                         /\ onward = Delivered[s]

-----------------------------------------------------------------------------
(* The fabric. *)

Init == /\ tx = [s \in Sources |-> << >>]
        /\ ingress = [l \in Link |-> << >>]
        /\ rx = [d \in Destinations |-> << >>]
        /\ rr = [l \in Link |-> FALSE]
        /\ offered = [s \in Sources |-> 0]

Rotate(l) == IF Fires(l[1], l[2]) THEN Grant(l[1], l[2]) = First(l[2]) ELSE rr[l]

\* The sources in S hold valid high and the consumers in R hold ready high.
Clock(S, R) ==
    /\ tx' = [s \in Sources |->
                Dropped(tx[s], Injected(s) # << >>)
                  \o IF s \in Accepted(S)
                     THEN <<[path |-> Word[s],
                             payload |-> [from |-> s, number |-> offered[s]]]>>
                     ELSE << >>]
    /\ ingress' = [l \in Link |-> Dropped(ingress[l], Removed(l[1], l[2]))
                                    \o Incoming(l[1], l[2])]
    /\ rx' = [d \in Destinations |->
                Dropped(rx[d], d \in R /\ rx[d] # << >>)
                  \o Outgoing(DestinationAt[d][1], DestinationAt[d][2])]
    /\ rr' = [l \in Link |-> Rotate(l)]
    /\ offered' = [s \in Sources |-> IF s \in Accepted(S)
                                     THEN (offered[s] + 1) % Number ELSE offered[s]]

\* Sources and consumers are outside the reset.
Reset == /\ tx' = [s \in Sources |-> << >>]
         /\ ingress' = [l \in Link |-> << >>]
         /\ rx' = [d \in Destinations |-> << >>]
         /\ rr' = [l \in Link |-> FALSE]
         /\ UNCHANGED offered

Running == \E S \in SUBSET Sources, R \in SUBSET Destinations : Clock(S, R)

Next == Running \/ Reset

Spec == Init /\ [][Next]_vars

\* The clock keeps running and a consumer with a waiting packet is ready again
\* and again; nothing is asked of the sources.
Consume(d) == \E S \in SUBSET Sources, R \in SUBSET Destinations :
                d \in R /\ rx[d] # << >> /\ Clock(S, R)

FairSpec == /\ Spec
            /\ WF_vars(Running)
            /\ \A d \in Destinations : WF_vars(Consume(d))

-----------------------------------------------------------------------------
TypeOK ==
    LET Queue(q) == q \in Seq(Packet) /\ Len(q) <= 2
    IN /\ \A s \in Sources : Queue(tx[s])
       /\ \A l \in Link : Queue(ingress[l])
       /\ \A d \in Destinations : Queue(rx[d])
       /\ rr \in [Link -> BOOLEAN]
       /\ offered \in [Sources -> 0 .. Number - 1]

\* A packet only reaches the destination its source is connected to, and the
\* path it carries there is the constant that names its source.
DeliveredWhereDeclared ==
    \A d \in Destinations : \A i \in DOMAIN rx[d] :
        LET packet == rx[d][i]
        IN /\ DestinationOf[packet.payload.from] = d
           /\ packet.path = Delivered[packet.payload.from]

\* The numbers of the packets from s in the two places of a queue.
NumbersOf(s, queue) ==
    LET at(i) == IF i \in DOMAIN queue /\ queue[i].payload.from = s
                 THEN <<queue[i].payload.number>> ELSE << >>
    IN at(1) \o at(2)

\* The numbers of the packets in flight from s, the oldest first: those that have come
\* furthest on their journey.
InFlight(s) ==
    LET waiting[i \in 0 .. Len(Journey[s])] ==
            IF i = 0 THEN NumbersOf(s, tx[s])
            ELSE NumbersOf(s, ingress[Journey[s][i].link]) \o waiting[i - 1]
    IN NumbersOf(s, rx[DestinationOf[s]]) \o waiting[Len(Journey[s])]

Channels == INSTANCE FabricChannels WITH channel <- [s \in Sources |-> InFlight(s)]

\* Seen from its ports the fabric is one first-in first-out channel per
\* connection: arbitration never loses, duplicates or reorders a packet.
ImplementsChannels == Channels!Spec

\* Every packet in flight is delivered, whatever the other sources offer: no
\* deadlock, and round-robin starves no input.  The fabric never looks at a number and
\* every number comes again, so number 0 stands for all.
EveryPacketDelivered ==
    \A s \in Sources :
        LET waiting == InFlight(s) # << >> /\ Head(InFlight(s)) = 0
        IN waiting ~> ~waiting
=============================================================================
