---------------------------- MODULE TrafficProofs ----------------------------
(***************************************************************************)
(* Theorems about packets in generated circuits: where the packets of a    *)
(* fabric are, for every wiring and every words that lead to the declared  *)
(* destinations, and what a pipeline of any number of stages yields.       *)
(***************************************************************************)
EXTENDS MCTraffic, SequenceTheorems, NaturalsInduction, WellFoundedInduction, TLAPS

\* A set of natural numbers that is not empty has a least member.
LEMMA LeastNumber ==
    ASSUME NEW S \in SUBSET Nat, S # {}
    PROVE  \E x \in S : \A y \in S : x <= y
<1> DEFINE R == {ss \in Nat \X Nat : ss[1] < ss[2]}
<1>1. IsWellFoundedOn(R, Nat)
  BY NatLessThanWellFounded DEF OpToRel
<1> HIDE DEF R
<1>2. PICK x \in S : \A y \in S : ~(<<y, x>> \in R)
  BY <1>1, WFMin
<1>3. \A y \in S : <<y, x>> \in R <=> y < x
  BY DEF R
<1>4. \A y \in S : x <= y
  <2> TAKE y \in S
  <2>1. x \in Nat /\ y \in Nat /\ ~(y < x)
    BY <1>2, <1>3
  <2> QED
    BY <2>1
<1> QED
  BY <1>4

\* A packet in front of a list.
LEMMA InFront ==
    ASSUME NEW S, NEW x \in S, NEW s \in Seq(S)
    PROVE  <<x>> \o s # << >> /\ Head(<<x>> \o s) = x /\ Tail(<<x>> \o s) = s
OBVIOUS

-----------------------------------------------------------------------------
(* The fabric. *)

\* The packets that may wait at a link: those whose word leads through it.
At(l) == {sent \in Packet : [link |-> l, path |-> sent.path] \in Places[sent.payload.from]}

\* The packets a destination may show.
Arrived(d) == {sent \in Packet : /\ DestinationOf[sent.payload.from] = d
                                 /\ sent.path = Delivered[sent.payload.from]}

TwoOf(queue, S) == queue \in Seq(S) /\ Len(queue) <= 2

\* The inductive invariant: every packet is on the way of its word, and no queue holds
\* more than its two places.
FabricInv ==
    /\ \A s \in Sources : TwoOf(tx[s], At(SourceAt[s]))
    /\ \A l \in Link : TwoOf(ingress[l], At(l))
    /\ \A d \in Destinations : TwoOf(rx[d], Arrived(d))
    /\ rr \in [Link -> BOOLEAN]
    /\ offered \in [Sources -> 0 .. Number - 1]

\* What one edge brings a queue: nothing, or a packet of S.
AtMostOne(new, S) == new = << >> \/ \E p \in S : new = <<p>>

\* A queue that loses its head or not, and gets a packet only if there is room, keeps to
\* its two places.
LEMMA QueueStep ==
    ASSUME NEW S, NEW queue, TwoOf(queue, S), NEW taken \in BOOLEAN, taken => queue # << >>,
           NEW new, AtMostOne(new, S), new # << >> => Room(queue)
    PROVE  TwoOf(Dropped(queue, taken) \o new, S)
<1>1. queue \in Seq(S) /\ Len(queue) \in Nat /\ Len(queue) <= 2
  BY DEF TwoOf
<1> DEFINE rest == Dropped(queue, taken)
<1>2. rest \in Seq(S) /\ Len(rest) \in Nat /\ Len(rest) <= Len(queue)
  <2>1. CASE taken
    <3>1. rest = Tail(queue) /\ queue # << >>
      BY <2>1 DEF Dropped
    <3>2. Tail(queue) \in Seq(S) /\ Len(Tail(queue)) = Len(queue) - 1
      BY <1>1, <3>1, HeadTailProperties
    <3>3. Len(queue) # 0
      BY <1>1, <3>1, EmptySeq
    <3> QED
      BY <1>1, <3>1, <3>2, <3>3
  <2>2. CASE ~taken
    BY <1>1, <2>2 DEF Dropped
  <2> QED
    BY <2>1, <2>2
<1> HIDE DEF rest
<1>3. CASE new = << >>
  <2>1. rest \o << >> = rest
    BY <1>2, ConcatEmptySeq
  <2> QED
    BY <1>1, <1>2, <1>3, <2>1 DEF TwoOf, rest
<1>4. CASE \E p \in S : new = <<p>>
  <2>1. PICK p \in S : new = <<p>>
    BY <1>4
  <2>2. <<p>> \in Seq(S) /\ Len(<<p>>) = 1
    OBVIOUS
  <2>3. rest \o new \in Seq(S) /\ Len(rest \o new) = Len(rest) + 1
    BY <1>2, <2>1, <2>2, ConcatProperties
  <2>4. <<p>> # << >>
    OBVIOUS
  <2>5. Len(queue) < 2
    BY <2>1, <2>4 DEF Room
  <2> QED
    BY <1>1, <1>2, <2>3, <2>5 DEF TwoOf, rest
<1> QED
  BY <1>3, <1>4 DEF AtMostOne

\* Of the places of a journey: where they are, and where a packet goes from there.
Leads(s, place) ==
    /\ place \in [link : Link, path : Path \ {<< >>}]
    /\ LET a == Attached[ExitOf(place)]
           onward == Rotated(place.path)
       IN \/ /\ a.kind = "router"
             /\ [link |-> <<a.target, a.port>>, path |-> onward] \in Places[s]
          \/ /\ a = [kind |-> "destination", target |-> DestinationOf[s]]
             /\ onward = Delivered[s]

\* The fields of a journey.
LEMMA Journeys ==
    ASSUME NEW s \in Sources
    PROVE  /\ Len(Journey[s]) \in Nat \ {0}
           /\ DOMAIN Journey[s] = 1 .. Len(Journey[s])
           /\ Places[s] = {Journey[s][i] : i \in 1 .. Len(Journey[s])}
           /\ \A i \in 1 .. Len(Journey[s]) :
                 Journey[s][i] \in [link : Link, path : Path \ {<< >>}]
<1>1. Journey[s] \in Seq([link : Link, path : Path \ {<< >>}]) /\ Journey[s] # << >>
  BY WordsAssumption
<1>2. DOMAIN Journey[s] = 1 .. Len(Journey[s]) /\ Len(Journey[s]) \in Nat
  BY <1>1, LenProperties
<1>3. Len(Journey[s]) # 0
  BY <1>1, EmptySeq
<1>4. \A i \in 1 .. Len(Journey[s]) : Journey[s][i] \in [link : Link, path : Path \ {<< >>}]
  BY <1>1, ElementOfSeq
<1>5. Places[s] = {Journey[s][i] : i \in DOMAIN Journey[s]}
  BY DEF Places, Range
<1> QED
  BY <1>2, <1>3, <1>4, <1>5

\* Each place of a journey leads to another one, or to the destination.
LEMMA WordsLead ==
    ASSUME NEW s \in Sources
    PROVE  /\ [link |-> SourceAt[s], path |-> Word[s]] \in Places[s]
           /\ \A place \in Places[s] : Leads(s, place)
<1> DEFINE journey == Journey[s]
           n == Len(journey)
<1>1. /\ n \in Nat \ {0} /\ Places[s] = {journey[i] : i \in 1 .. n}
      /\ DOMAIN journey = 1 .. n
      /\ \A i \in 1 .. n : journey[i] \in [link : Link, path : Path \ {<< >>}]
  BY Journeys
<1>2. journey[1] = [link |-> SourceAt[s], path |-> Word[s]]
  BY WordsAssumption
<1>3. 1 \in 1 .. n
  BY <1>1
<1>4. ASSUME NEW i \in 1 .. n PROVE Leads(s, journey[i])
  <2> DEFINE a == Attached[ExitOf(journey[i])]
             onward == Rotated(journey[i].path)
  <2>1. IF i < n
        THEN /\ a.kind = "router"
             /\ journey[i + 1] = [link |-> <<a.target, a.port>>, path |-> onward]
        ELSE /\ a = [kind |-> "destination", target |-> DestinationOf[s]]
             /\ onward = Delivered[s]
    BY <1>1, WordsAssumption
  <2> HIDE DEF a, onward
  <2>2. CASE i < n
    <3>1. i + 1 \in 1 .. n
      BY <1>1, <2>2
    <3>2. journey[i + 1] \in Places[s]
      BY <1>1, <3>1
    <3> QED
      BY <1>1, <2>1, <2>2, <3>2 DEF Leads, a, onward
  <2>3. CASE ~(i < n)
    BY <1>1, <2>1, <2>3 DEF Leads, a, onward
  <2> QED
    BY <2>2, <2>3
<1> HIDE DEF n, journey
<1> QED
  BY <1>1, <1>2, <1>3, <1>4

\* What a source sends starts on the way of its word.
LEMMA SentIsOnItsWay ==
    ASSUME NEW s \in Sources, NEW n \in 0 .. Number - 1
    PROVE  [path |-> Word[s], payload |-> [from |-> s, number |-> n]] \in At(SourceAt[s])
<1>1. /\ [link |-> SourceAt[s], path |-> Word[s]] \in Places[s]
      /\ [link |-> SourceAt[s], path |-> Word[s]] \in [link : Link, path : Path \ {<< >>}]
  BY WordsLead DEF Leads
<1>2. Word[s] \in Path
  BY <1>1
<1>3. [path |-> Word[s], payload |-> [from |-> s, number |-> n]] \in Packet
  BY <1>2 DEF Packet, Payload
<1> QED
  BY <1>1, <1>3 DEF At

\* The two ports a path bit chooses between are the other two.
LEMMA OutPortIsAnother ==
    \A i \in Port, bit \in {0, 1} : OutPort(i, bit) \in Port /\ OutPort(i, bit) # i
<1>1. /\ (0 + 1 + 0) % 3 = 1 /\ (0 + 1 + 1) % 3 = 2
      /\ (1 + 1 + 0) % 3 = 2 /\ (1 + 1 + 1) % 3 = 0
      /\ (2 + 1 + 0) % 3 = 0 /\ (2 + 1 + 1) % 3 = 1
  OBVIOUS
<1>2. Port = {0, 1, 2}
  BY DEF Port
<1> QED
  BY <1>1, <1>2 DEF OutPort

\* Where forward_packet sends a packet from a link.
LEMMA ForwardedIsOnItsWay ==
    ASSUME NEW l \in Link, NEW sent \in At(l)
    PROVE  LET t == OutPort(l[2], Head(sent.path))
               a == Attached[<<l[1], t>>]
           IN  /\ t \in Port /\ t # l[2]
               /\ \/ a.kind = "router" /\ ForwardPacket(sent) \in At(<<a.target, a.port>>)
                  \/ /\ a.kind = "destination"
                     /\ a.target = DestinationOf[sent.payload.from]
                     /\ ForwardPacket(sent) \in Arrived(a.target)
<1> DEFINE s == sent.payload.from
           path == sent.path
           place == [link |-> l, path |-> path]
           t == OutPort(l[2], Head(path))
           a == Attached[<<l[1], t>>]
<1>1. sent \in Packet /\ place \in Places[s]
  BY DEF At
<1>2. s \in Sources /\ sent = [path |-> path, payload |-> sent.payload] /\ sent.payload \in Payload
  BY <1>1 DEF Packet, Payload
<1>3. /\ place \in [link : Link, path : Path \ {<< >>}]
      /\ \/ a.kind = "router" /\ [link |-> <<a.target, a.port>>, path |-> Rotated(path)] \in Places[s]
         \/ /\ a = [kind |-> "destination", target |-> DestinationOf[s]]
            /\ Rotated(path) = Delivered[s]
  <2>1. /\ place \in [link : Link, path : Path \ {<< >>}]
        /\ LET b == Attached[<<place.link[1], OutPort(place.link[2], Head(place.path))>>]
               onward == Rotated(place.path)
           IN \/ /\ b.kind = "router"
                 /\ [link |-> <<b.target, b.port>>, path |-> onward] \in Places[s]
              \/ /\ b = [kind |-> "destination", target |-> DestinationOf[s]]
                 /\ onward = Delivered[s]
    <3>1. Leads(s, place)
      BY <1>1, <1>2, WordsLead
    <3> QED
      BY <3>1 DEF Leads, ExitOf
  <2>2. place.link = l /\ place.path = path
    OBVIOUS
  <2> QED
    BY <2>1, <2>2
<1>4. path \in Seq({0, 1}) /\ path # << >>
  BY <1>3 DEF Path
<1>5. /\ Head(path) \in {0, 1} /\ Tail(path) \in Seq({0, 1})
  BY <1>4, HeadTailProperties
<1>6. Rotated(path) \in Path
  BY <1>5, AppendProperties DEF Rotated, Path
<1>7. /\ ForwardPacket(sent) = [path |-> Rotated(path), payload |-> sent.payload]
      /\ ForwardPacket(sent) \in Packet
  BY <1>1, <1>2, <1>6 DEF ForwardPacket, Packet
<1>8. l[2] \in Port
  BY DEF Link
<1>9. t \in Port /\ t # l[2]
  BY <1>5, <1>8, OutPortIsAnother
<1>10. CASE a.kind = "router" /\ [link |-> <<a.target, a.port>>, path |-> Rotated(path)] \in Places[s]
  BY <1>7, <1>9, <1>10 DEF At
<1>11. CASE /\ a = [kind |-> "destination", target |-> DestinationOf[s]]
            /\ Rotated(path) = Delivered[s]
  BY <1>7, <1>9, <1>11 DEF Arrived
<1> QED
  BY <1>3, <1>10, <1>11

\* A router grants an output to an input that asks for it, and no output asks back where
\* the packet came from.
LEMMA GrantedAsks ==
    ASSUME FabricInv, NEW r \in Router, NEW t \in Port, Requests(r, t) # {}
    PROVE  /\ Grant(r, t) \in Requests(r, t)
           /\ Requests(r, t) \subseteq Port \ {t}
<1>1. ASSUME NEW i \in Requests(r, t) PROVE i \in Port \ {t}
  <2>1. /\ i \in Port /\ ingress[<<r, i>>] # << >>
        /\ OutPort(i, Head(Head(ingress[<<r, i>>]).path)) = t
    BY <1>1 DEF Requests
  <2>2. <<r, i>> \in Link /\ <<r, i>>[2] = i
    BY <2>1 DEF Link
  <2>3. Head(ingress[<<r, i>>]) \in At(<<r, i>>)
    BY <2>1, <2>2, HeadTailProperties DEF FabricInv, TwoOf
  <2> HIDE DEF FabricInv
  <2>4. OutPort(i, Head(Head(ingress[<<r, i>>]).path)) # i
    BY <2>2, <2>3, ForwardedIsOnItsWay
  <2> QED
    BY <2>1, <2>4
<1>2. Port \ {t} = {First(t), Second(t)}
  <2>1. t \in {0, 1, 2}
    BY DEF Port
  <2>2. CASE t = 0
    BY <2>2 DEF First, Second, Port
  <2>3. CASE t = 1
    BY <2>3 DEF First, Second, Port
  <2>4. CASE t = 2
    BY <2>4 DEF First, Second, Port
  <2> QED
    BY <2>1, <2>2, <2>3, <2>4
<1>3. Requests(r, t) \subseteq {First(t), Second(t)}
  BY <1>1, <1>2
<1>4. Grant(r, t) \in Requests(r, t)
  BY <1>3 DEF Grant
<1> QED
  BY <1>1, <1>4

\* What crosses an output port at an edge: a packet that belongs where the port leads,
\* and finds room there.
LEMMA OutgoingIsOnItsWay ==
    ASSUME FabricInv, NEW r \in Router, NEW t \in Port
    PROVE  LET a == Attached[<<r, t>>]
           IN  /\ a.kind = "router" =>
                     /\ AtMostOne(Outgoing(r, t), At(<<a.target, a.port>>))
                     /\ Outgoing(r, t) # << >> => Room(ingress[<<a.target, a.port>>])
               /\ a.kind = "destination" =>
                     /\ AtMostOne(Outgoing(r, t), Arrived(a.target))
                     /\ Outgoing(r, t) # << >> => Room(rx[a.target])
<1> DEFINE a == Attached[<<r, t>>]
<1>1. CASE ~(Requests(r, t) # {} /\ OutReady(r, t))
  BY <1>1 DEF Outgoing, AtMostOne
<1>2. CASE Requests(r, t) # {} /\ OutReady(r, t)
  <2> DEFINE g == Grant(r, t)
             sent == Head(ingress[<<r, g>>])
  <2>1. g \in Port /\ ingress[<<r, g>>] # << >> /\ OutPort(g, Head(sent.path)) = t
    BY <1>2, GrantedAsks DEF Requests
  <2>2. <<r, g>> \in Link /\ <<r, g>>[2] = g /\ <<r, g>>[1] = r
    BY <2>1 DEF Link
  <2>3. sent \in At(<<r, g>>)
    BY <2>1, <2>2, HeadTailProperties DEF FabricInv, TwoOf
  <2> HIDE DEF sent, g
  <2>4. \/ a.kind = "router" /\ ForwardPacket(sent) \in At(<<a.target, a.port>>)
        \/ a.kind = "destination" /\ ForwardPacket(sent) \in Arrived(a.target)
    BY <2>1, <2>2, <2>3, ForwardedIsOnItsWay
  <2>5. Outgoing(r, t) = <<ForwardPacket(sent)>>
    BY <1>2 DEF Outgoing, sent, g
  <2>6. /\ a.kind = "router" => Room(ingress[<<a.target, a.port>>])
        /\ a.kind = "destination" => Room(rx[a.target])
    BY <1>2 DEF OutReady
  <2> QED
    BY <2>4, <2>5, <2>6 DEF AtMostOne
<1> QED
  BY <1>1, <1>2

\* An input is emptied only of a packet it has, and what it gets belongs there.
LEMMA IngressMoves ==
    ASSUME FabricInv, NEW l \in Link
    PROVE  /\ TwoOf(ingress[l], At(l))
           /\ Removed(l[1], l[2]) \in BOOLEAN /\ (Removed(l[1], l[2]) => ingress[l] # << >>)
           /\ AtMostOne(Incoming(l[1], l[2]), At(l))
           /\ Incoming(l[1], l[2]) # << >> => Room(ingress[l])
<1> DEFINE r == l[1]
           p == l[2]
           a == Attached[l]
<1>1. r \in Router /\ p \in Port /\ l = <<r, p>>
  BY DEF Link
<1>2. Removed(r, p) \in BOOLEAN /\ (Removed(r, p) => ingress[l] # << >>)
  <2>1. ASSUME NEW t \in Port, Fires(r, t), Grant(r, t) = p PROVE ingress[l] # << >>
    <3>1. Requests(r, t) # {}
      BY <2>1 DEF Fires, Outgoing
    <3>2. p \in Requests(r, t)
      BY <1>1, <2>1, <3>1, GrantedAsks
    <3> QED
      BY <1>1, <3>2 DEF Requests
  <2> QED
    BY <1>1, <2>1 DEF Removed
<1>3. AtMostOne(Incoming(r, p), At(l)) /\ (Incoming(r, p) # << >> => Room(ingress[l]))
  <2>1. CASE a.kind = "router"
    <3>1. /\ a.target \in Router /\ a.port \in Port
          /\ Attached[<<a.target, a.port>>] = [kind |-> "router", target |-> r, port |-> p]
      BY <2>1, WiringAssumption DEF Link
    <3> DEFINE b == Attached[<<a.target, a.port>>]
    <3>2. b.kind = "router" /\ b.target = r /\ b.port = p
      BY <3>1
    <3>3. /\ AtMostOne(Outgoing(a.target, a.port), At(<<b.target, b.port>>))
          /\ Outgoing(a.target, a.port) # << >> => Room(ingress[<<b.target, b.port>>])
      BY <3>1, <3>2, OutgoingIsOnItsWay
    <3>4. Incoming(r, p) = Outgoing(a.target, a.port)
      BY <1>1, <2>1 DEF Incoming
    <3> HIDE DEF a, b
    <3> QED
      BY <1>1, <3>2, <3>3, <3>4
  <2>2. CASE a.kind = "source"
    <3>1. a.target \in Sources /\ SourceAt[a.target] = l
      BY <2>2, WiringAssumption
    <3> DEFINE s == a.target
    <3>2. Incoming(r, p) = Injected(s)
      BY <1>1, <2>2 DEF Incoming
    <3>3. tx[s] \in Seq(At(l))
      BY <3>1 DEF FabricInv, TwoOf
    <3>4. tx[s] # << >> => Head(tx[s]) \in At(l)
      BY <3>3, HeadTailProperties
    <3> HIDE DEF s
    <3>5. SourceAt[s] = l
      BY <3>1 DEF s
    <3> QED
      BY <3>2, <3>4, <3>5 DEF Injected, AtMostOne
  <2>3. CASE a.kind # "router" /\ a.kind # "source"
    BY <1>1, <2>3 DEF Incoming, AtMostOne
  <2> QED
    BY <2>1, <2>2, <2>3
<1>4. TwoOf(ingress[l], At(l))
  BY DEF FabricInv
<1> QED
  BY <1>2, <1>3, <1>4

\* So does a receive queue.
LEMMA ReceiveMoves ==
    ASSUME FabricInv, NEW d \in Destinations
    PROVE  LET new == Outgoing(DestinationAt[d][1], DestinationAt[d][2])
           IN  /\ TwoOf(rx[d], Arrived(d))
               /\ AtMostOne(new, Arrived(d)) /\ (new # << >> => Room(rx[d]))
<1> DEFINE r == DestinationAt[d][1]
           t == DestinationAt[d][2]
<1>1. /\ DestinationAt[d] \in Link
      /\ Attached[DestinationAt[d]] = [kind |-> "destination", target |-> d]
  BY WiringAssumption
<1>2. r \in Router /\ t \in Port /\ DestinationAt[d] = <<r, t>>
  <2> DEFINE at == DestinationAt[d]
  <2>1. at \in Link
    BY <1>1
  <2> HIDE DEF at
  <2>2. at[1] \in Router /\ at[2] \in Port /\ at = <<at[1], at[2]>>
    BY <2>1 DEF Link
  <2> QED
    BY <2>2 DEF at
<1>3. Attached[<<r, t>>].kind = "destination" /\ Attached[<<r, t>>].target = d
  <2>1. Attached[<<r, t>>] = [kind |-> "destination", target |-> d]
    BY <1>1, <1>2
  <2> QED
    BY <2>1
<1>4. TwoOf(rx[d], Arrived(d))
  BY DEF FabricInv
<1> HIDE DEF r, t
<1>5. AtMostOne(Outgoing(r, t), Arrived(d)) /\ (Outgoing(r, t) # << >> => Room(rx[d]))
  BY <1>2, <1>3, OutgoingIsOnItsWay
<1> QED
  BY <1>4, <1>5 DEF r, t

\* What a source sends at an edge at which the sources in S show a packet.
Sent(s, S) == IF s \in Accepted(S)
              THEN <<[path |-> Word[s], payload |-> [from |-> s, number |-> offered[s]]]>>
              ELSE << >>

\* So does a transmit queue.
LEMMA TransmitMoves ==
    ASSUME FabricInv, NEW s \in Sources, NEW S
    PROVE  /\ TwoOf(tx[s], At(SourceAt[s]))
           /\ (Injected(s) # << >>) \in BOOLEAN /\ (Injected(s) # << >> => tx[s] # << >>)
           /\ AtMostOne(Sent(s, S), At(SourceAt[s])) /\ (Sent(s, S) # << >> => Room(tx[s]))
<1> DEFINE sent == [path |-> Word[s], payload |-> [from |-> s, number |-> offered[s]]]
<1>1. sent \in At(SourceAt[s])
  BY SentIsOnItsWay DEF FabricInv
<1>2. Injected(s) # << >> => tx[s] # << >>
  BY DEF Injected
<1>3. TwoOf(tx[s], At(SourceAt[s]))
  BY DEF FabricInv
<1>4. Sent(s, S) = IF s \in Accepted(S) THEN <<sent>> ELSE << >>
  BY DEF Sent
<1> HIDE DEF sent
<1>5. AtMostOne(Sent(s, S), At(SourceAt[s])) /\ (Sent(s, S) # << >> => Room(tx[s]))
  BY <1>1, <1>4 DEF AtMostOne, Accepted
<1>6. (Injected(s) # << >>) \in BOOLEAN
  OBVIOUS
<1> QED
  BY <1>2, <1>3, <1>5, <1>6

\* Nothing waits before the first edge, or after a reset.
LEMMA EmptyIsTwo == \A S : TwoOf(<< >>, S)
BY EmptySeq DEF TwoOf

\* An empty fabric has every packet on its way.
LEMMA FabricInvInit == Init => FabricInv
<1> SUFFICES ASSUME Init PROVE FabricInv
  OBVIOUS
<1>1. 0 \in 0 .. Number - 1
  BY WiringAssumption
<1> QED
  BY <1>1, EmptyIsTwo DEF Init, FabricInv

\* Every edge keeps every packet on its way.
LEMMA FabricInvStep == ASSUME FabricInv, [Next]_vars PROVE FabricInv'
<1>1. ASSUME NEW S \in SUBSET Sources, NEW R \in SUBSET Destinations, Clock(S, R)
      PROVE  FabricInv'
  <2>1. ASSUME NEW s \in Sources PROVE TwoOf(tx'[s], At(SourceAt[s]))
    <3>1. tx'[s] = Dropped(tx[s], Injected(s) # << >>) \o Sent(s, S)
      BY <1>1 DEF Clock, Sent
    <3> QED
      BY <3>1, TransmitMoves, QueueStep
  <2>2. ASSUME NEW l \in Link PROVE TwoOf(ingress'[l], At(l))
    <3>1. ingress'[l] = Dropped(ingress[l], Removed(l[1], l[2])) \o Incoming(l[1], l[2])
      BY <1>1 DEF Clock
    <3> QED
      BY <3>1, IngressMoves, QueueStep
  <2>3. ASSUME NEW d \in Destinations PROVE TwoOf(rx'[d], Arrived(d))
    <3> DEFINE taken == d \in R /\ rx[d] # << >>
               new == Outgoing(DestinationAt[d][1], DestinationAt[d][2])
    <3>1. rx'[d] = Dropped(rx[d], taken) \o new
      BY <1>1 DEF Clock
    <3>2. TwoOf(rx[d], Arrived(d)) /\ AtMostOne(new, Arrived(d)) /\ (new # << >> => Room(rx[d]))
      BY ReceiveMoves
    <3>3. taken \in BOOLEAN /\ (taken => rx[d] # << >>)
      OBVIOUS
    <3> HIDE DEF taken, new
    <3> QED
      BY <3>1, <3>2, <3>3, QueueStep
  <2>4. rr' \in [Link -> BOOLEAN]
    <3>1. ASSUME NEW l \in Link PROVE Rotate(l) \in BOOLEAN
      BY DEF Rotate, FabricInv
    <3> QED
      BY <1>1, <3>1 DEF Clock
  <2>5. offered' \in [Sources -> 0 .. Number - 1]
    <3>1. ASSUME NEW s \in Sources
          PROVE  /\ offered[s] \in 0 .. Number - 1
                 /\ (offered[s] + 1) % Number \in 0 .. Number - 1
      <4>1. offered[s] \in 0 .. Number - 1 /\ Number \in Nat \ {0}
        BY WiringAssumption DEF FabricInv
      <4> QED
        BY <4>1
    <3> QED
      BY <1>1, <3>1 DEF Clock
  <2> QED
    BY <2>1, <2>2, <2>3, <2>4, <2>5 DEF FabricInv
<1>2. CASE Reset
  BY <1>2, EmptyIsTwo DEF Reset, FabricInv
<1>3. CASE UNCHANGED vars
  BY <1>3 DEF vars, FabricInv
<1> QED
  BY <1>1, <1>2, <1>3 DEF Next, Running

\* What the invariant says to a consumer.
LEMMA FabricInvDelivers == FabricInv => DeliveredWhereDeclared
<1> SUFFICES ASSUME FabricInv, NEW d \in Destinations, NEW i \in DOMAIN rx[d]
             PROVE  /\ DestinationOf[rx[d][i].payload.from] = d
                    /\ rx[d][i].path = Delivered[rx[d][i].payload.from]
  BY DEF DeliveredWhereDeclared
<1>1. rx[d] \in Seq(Arrived(d))
  BY DEF FabricInv, TwoOf
<1>2. rx[d][i] \in Arrived(d)
  BY <1>1, ElementOfSeq
<1> QED
  BY <1>2 DEF Arrived

\* And that it bounds every queue.
LEMMA FabricInvIsTyped == FabricInv => TypeOK
<1>1. \A S, queue : S \subseteq Packet /\ TwoOf(queue, S)
                      => queue \in Seq(Packet) /\ Len(queue) <= 2
  BY DEF TwoOf
<1>2. /\ \A l : At(l) \subseteq Packet
      /\ \A d : Arrived(d) \subseteq Packet
  BY DEF At, Arrived
<1> QED
  BY <1>1, <1>2 DEF FabricInv, TypeOK

-----------------------------------------------------------------------------
\* The fabric of a run is clocked, or rests.
LEMMA FabricInvAlways == TrafficSpec => []FabricInv
<1>1. TrafficInit => FabricInv
  BY FabricInvInit DEF TrafficInit
<1>2. FabricInv /\ [TrafficNext]_<<clocked, vars, pipeline>> => FabricInv'
  BY FabricInvStep DEF TrafficNext, ClockPipeline, ClockFabric, vars
<1> QED
  BY <1>1, <1>2, PTL DEF TrafficSpec

\* Whatever the consumers do and however packets meet at the routers, a packet reaches no
\* destination but the one its source is connected to, with the constant that names its
\* source: render_fabric and the ROUTE__ constants of build_fabric_topology.
THEOREM FabricDelivers == TrafficSpec => []DeliveredWhereDeclared
BY FabricInvDelivers, FabricInvAlways, PTL

\* The ready bits of render_fabric keep every queue within its two places, and every packet
\* in one piece.
THEOREM FabricNeverOverflows == TrafficSpec => []TypeOK
BY FabricInvIsTyped, FabricInvAlways, PTL

-----------------------------------------------------------------------------
(* The channels of a fabric. *)

Numbers == 0 .. Number - 1
Mine(s, p) == IF p.payload.from = s THEN <<p.payload.number>> ELSE << >>

\* The numbers of s in a queue of at most two packets.
LEMMA NumbersOfShort ==
    ASSUME NEW s
    PROVE  /\ NumbersOf(s, << >>) = << >>
           /\ \A p \in Packet : /\ Mine(s, p) \in Seq(Numbers)
                                /\ NumbersOf(s, <<p>>) = Mine(s, p)
           /\ \A p \in Packet : \A q \in Packet : NumbersOf(s, <<p, q>>) = Mine(s, p) \o Mine(s, q)
<1>1. NumbersOf(s, << >>) = << >> \o << >>
  <2>1. 1 \notin DOMAIN << >> /\ 2 \notin DOMAIN << >>
    OBVIOUS
  <2> QED
    BY <2>1 DEF NumbersOf
<1>2. ASSUME NEW p \in Packet
      PROVE  Mine(s, p) \in Seq(Numbers) /\ NumbersOf(s, <<p>>) = Mine(s, p)
  <2>1. p.payload.number \in Numbers
    BY DEF Packet, Payload, Numbers
  <2>2. Mine(s, p) \in Seq(Numbers)
    BY <2>1, EmptySeq DEF Mine
  <2>3. 1 \in DOMAIN <<p>> /\ 2 \notin DOMAIN <<p>> /\ <<p>>[1] = p
    OBVIOUS
  <2>4. NumbersOf(s, <<p>>) = Mine(s, p) \o << >>
    BY <2>3 DEF NumbersOf, Mine
  <2> QED
    BY <2>2, <2>4, ConcatEmptySeq
<1>3. ASSUME NEW p \in Packet, NEW q \in Packet
      PROVE  NumbersOf(s, <<p, q>>) = Mine(s, p) \o Mine(s, q)
  <2>1. 1 \in DOMAIN <<p, q>> /\ 2 \in DOMAIN <<p, q>> /\ <<p, q>>[1] = p /\ <<p, q>>[2] = q
    OBVIOUS
  <2> QED
    BY <2>1 DEF NumbersOf, Mine
<1>4. << >> \o << >> = << >>
  OBVIOUS
<1> QED
  BY <1>1, <1>2, <1>3, <1>4

\* The numbers of one packet, whatever it is.
LEMMA NumbersOfAny ==
    ASSUME NEW s
    PROVE  NumbersOf(s, << >>) = << >> /\ \A x : NumbersOf(s, <<x>>) = Mine(s, x)
<1>1. \A x : 1 \in DOMAIN <<x>> /\ 2 \notin DOMAIN <<x>> /\ <<x>>[1] = x
  OBVIOUS
<1>2. \A x : NumbersOf(s, <<x>>) = Mine(s, x) \o << >>
  BY <1>1 DEF NumbersOf, Mine
<1>3. \A x : Mine(s, x) \o << >> = Mine(s, x)
  <2> TAKE x
  <2>1. Mine(s, x) \in Seq({x.payload.number})
    <3>1. <<x.payload.number>> \in Seq({x.payload.number})
      OBVIOUS
    <3> QED
      BY <3>1, EmptySeq DEF Mine
  <2> QED
    BY <2>1, ConcatEmptySeq
<1> QED
  BY <1>2, <1>3, NumbersOfShort

\* A queue of at most two packets, spelled out.
LEMMA TwoIsShort ==
    ASSUME NEW S, NEW queue, TwoOf(queue, S)
    PROVE  \/ queue = << >>
           \/ \E p \in S : queue = <<p>>
           \/ \E p \in S : \E q \in S : queue = <<p, q>>
<1>1. queue \in Seq(S) /\ (Len(queue) = 0 \/ Len(queue) = 1 \/ Len(queue) = 2)
  <2>1. queue \in Seq(S) /\ Len(queue) <= 2
    BY DEF TwoOf
  <2>2. Len(queue) \in Nat
    BY <2>1, LenProperties
  <2>3. \A n \in Nat : n <= 2 => n = 0 \/ n = 1 \/ n = 2
    OBVIOUS
  <2> QED
    BY <2>1, <2>2, <2>3
<1>2. CASE Len(queue) = 0
  BY <1>1, <1>2, EmptySeq
<1>3. CASE Len(queue) = 1
  <2>1. queue[1] \in S /\ queue = <<queue[1]>>
    BY <1>1, <1>3
  <2> QED
    BY <2>1
<1>4. CASE Len(queue) = 2
  <2>1. queue[1] \in S /\ queue[2] \in S /\ queue = <<queue[1], queue[2]>>
    BY <1>1, <1>4
  <2> QED
    BY <2>1
<1> QED
  BY <1>1, <1>2, <1>3, <1>4

\* A pair is one item after another.
LEMMA PairConcat == \A p, x : << >> \o <<x>> = <<x>> /\ <<p>> \o <<x>> = <<p, x>>
<1> TAKE p, x
<1>1. << >> \o <<x>> = <<x>>
  OBVIOUS
<1>2. <<p>> \o <<x>> = <<p, x>>
  <2>1. /\ <<p>> \in Seq({p, x}) /\ <<x>> \in Seq({p, x}) /\ <<p, x>> \in Seq({p, x})
        /\ Len(<<p>>) = 1 /\ Len(<<x>>) = 1 /\ Len(<<p, x>>) = 2
    OBVIOUS
  <2>2. /\ <<p>> \o <<x>> \in Seq({p, x}) /\ Len(<<p>> \o <<x>>) = 2
        /\ (<<p>> \o <<x>>)[1] = p /\ (<<p>> \o <<x>>)[2] = x
    BY <2>1, ConcatProperties
  <2>3. \A i \in 1 .. Len(<<p>> \o <<x>>) : (<<p>> \o <<x>>)[i] = <<p, x>>[i]
    BY <2>2
  <2> QED
    BY <2>1, <2>2, <2>3, SeqEqual
<1> QED
  BY <1>1, <1>2

\* What a queue, or a row of queues, holds and gets is what it gives away and then holds.
Passes(has, gets, gives, keeps) ==
    /\ has \o gets = gives \o keeps
    /\ {has, gets, gives, keeps} \subseteq Seq(Numbers)

\* Handing on along a row of queues: what they hold together moves on as one list.
LEMMA RowPasses ==
    ASSUME NEW p, NEW w, NEW a, NEW m, NEW v, NEW r, NEW u,
           Passes(w, a, m, v), Passes(p, m, r, u)
    PROVE  Passes(p \o w, a, r, u \o v)
<1> DEFINE X == Seq(Numbers)
<1>0. p \in X /\ w \in X /\ a \in X /\ m \in X /\ v \in X /\ r \in X /\ u \in X
  BY DEF Passes
<1>1. \A x \in X, y \in X, z \in X : (x \o y) \o z = x \o (y \o z)
  BY ConcatAssociative
<1>2. \A x \in X, y \in X : x \o y \in X
  BY ConcatProperties
<1> HIDE DEF X
<1>3. (p \o w) \o a = p \o (w \o a)
  <2>1. p \in X /\ w \in X /\ a \in X
    BY <1>0
  <2> QED
    BY <1>1, <2>1
<1>7. (p \o m) \o v = p \o (m \o v)
  <2>1. p \in X /\ m \in X /\ v \in X
    BY <1>0
  <2> QED
    BY <1>1, <2>1
<1>8. (r \o u) \o v = r \o (u \o v)
  <2>1. r \in X /\ u \in X /\ v \in X
    BY <1>0
  <2> QED
    BY <1>1, <2>1
<1>4. w \o a = m \o v /\ p \o m = r \o u
  BY DEF Passes
<1>5. (p \o w) \o a = r \o (u \o v)
  BY <1>3, <1>4, <1>7, <1>8, Zenon
<1>6. p \o w \in X /\ u \o v \in X
  BY <1>0, <1>2
<1> QED
  BY <1>0, <1>5, <1>6 DEF Passes, X

\* The numbers of the packet a queue gives away, if it gives one.
GivenAway(s, queue, taken) == IF taken THEN NumbersOf(s, <<Head(queue)>>) ELSE << >>

\* A queue of packets at an edge that may take its head and may bring a packet.
Exchanges(queue, taken, new, after) ==
    /\ TwoOf(queue, Packet) /\ taken \in BOOLEAN /\ (taken => queue # << >>)
    /\ AtMostOne(new, Packet) /\ (new # << >> => Room(queue))
    /\ after = Dropped(queue, taken) \o new

\* What a queue holds of s and what it gets is what it gives away and then holds.
LEMMA QueueExchanges ==
    ASSUME NEW s, NEW queue, NEW taken, NEW new, NEW rest, Exchanges(queue, taken, new, rest)
    PROVE  Passes(NumbersOf(s, queue), NumbersOf(s, new), GivenAway(s, queue, taken),
                  NumbersOf(s, rest))
<1> DEFINE T == Seq(Numbers)
           after == Dropped(queue, taken) \o new
           left == GivenAway(s, queue, taken)
<1>h. /\ TwoOf(queue, Packet) /\ taken \in BOOLEAN /\ (taken => queue # << >>)
      /\ AtMostOne(new, Packet) /\ (new # << >> => Room(queue))
      /\ rest = after
  BY DEF Exchanges
<1>0. /\ NumbersOf(s, << >>) = << >> /\ << >> \in T
      /\ \A p \in Packet : Mine(s, p) \in T /\ NumbersOf(s, <<p>>) = Mine(s, p)
      /\ \A p \in Packet : \A q \in Packet :
            NumbersOf(s, <<p, q>>) = Mine(s, p) \o Mine(s, q) /\ Mine(s, p) \o Mine(s, q) \in T
  <2>1. \A u \in T : \A v \in T : u \o v \in T
    BY ConcatProperties
  <2> HIDE DEF T
  <2>2. \A p \in Packet : Mine(s, p) \in T
    BY NumbersOfShort DEF T
  <2>3. << >> \in T
    BY EmptySeq DEF T
  <2> QED
    BY <2>1, <2>2, <2>3, NumbersOfShort
<1>e. \A u \in T : << >> \o u = u /\ u \o << >> = u
  BY ConcatEmptySeq
<1>1. CASE queue = << >>
  <2>1. ~taken /\ Dropped(queue, taken) = << >> /\ left = << >>
    BY <1>h, <1>1 DEF Dropped, GivenAway
  <2>2. after = new
    <3>1. new \in Seq(Packet)
      <4>1. \A x \in Packet : <<x>> \in Seq(Packet)
        OBVIOUS
      <4> QED
        BY <1>h, <4>1, EmptySeq DEF AtMostOne
    <3> QED
      BY <2>1, <3>1, ConcatEmptySeq
  <2>3. NumbersOf(s, new) \in T
    BY <1>h, <1>0 DEF AtMostOne
  <2> HIDE DEF T, after, left
  <2>4. NumbersOf(s, queue) = << >> /\ << >> \in T
    BY <1>0, <1>1
  <2> QED
    BY <1>h, <2>1, <2>2, <2>3, <2>4 DEF Passes, T, left
<1>2. CASE \E p \in Packet : queue = <<p>>
  <2>1. PICK p \in Packet : queue = <<p>>
    BY <1>2
  <2>2. /\ Head(queue) = p /\ Tail(queue) = << >>
        /\ NumbersOf(s, queue) = Mine(s, p) /\ Mine(s, p) \in T
    BY <1>0, <2>1
  <2>3. left = (IF taken THEN Mine(s, p) ELSE << >>) /\ left \in T
    BY <1>0, <2>2 DEF GivenAway
  <2>4. CASE new = << >>
    <3>1. after = IF taken THEN << >> ELSE <<p>>
      BY <2>1, <2>2, <2>4 DEF Dropped
    <3>2. NumbersOf(s, after) = IF taken THEN << >> ELSE Mine(s, p)
      BY <1>0, <3>1
    <3>3. NumbersOf(s, new) = << >>
      BY <1>0, <2>4
    <3> HIDE DEF T, after, left
    <3>4. NumbersOf(s, queue) \o NumbersOf(s, new) = left \o NumbersOf(s, after)
      BY <1>e, <1>0, <2>2, <2>3, <3>2, <3>3
    <3> QED
      BY <1>h, <1>0, <2>2, <2>3, <3>2, <3>3, <3>4 DEF Passes, T, left
  <2>5. CASE \E x \in Packet : new = <<x>>
    <3>1. PICK x \in Packet : new = <<x>>
      BY <2>5
    <3>2. after = IF taken THEN <<x>> ELSE <<p, x>>
      <4>1. << >> \o <<x>> = <<x>> /\ <<p>> \o <<x>> = <<p, x>>
        BY PairConcat
      <4>2. Dropped(queue, taken) = IF taken THEN << >> ELSE <<p>>
        BY <2>1, <2>2 DEF Dropped
      <4> QED
        BY <3>1, <4>1, <4>2
    <3>3. NumbersOf(s, after) = IF taken THEN Mine(s, x) ELSE Mine(s, p) \o Mine(s, x)
      BY <1>0, <3>2
    <3>4. NumbersOf(s, new) = Mine(s, x) /\ Mine(s, x) \in T /\ Mine(s, p) \o Mine(s, x) \in T
      BY <1>0, <3>1
    <3> HIDE DEF T, after, left
    <3>5. NumbersOf(s, queue) \o NumbersOf(s, new) = left \o NumbersOf(s, after)
      BY <1>e, <2>2, <2>3, <3>3, <3>4
    <3> QED
      BY <1>h, <2>2, <2>3, <3>3, <3>4, <3>5 DEF Passes, T, left
  <2> QED
    BY <1>h, <2>4, <2>5 DEF AtMostOne
<1>3. CASE \E p \in Packet : \E q \in Packet : queue = <<p, q>>
  <2>1. PICK p \in Packet, q \in Packet : queue = <<p, q>>
    BY <1>3
  <2>2. new = << >>
    <3>1. Len(queue) = 2
      BY <2>1
    <3> QED
      BY <1>h, <3>1 DEF Room
  <2>3. /\ Head(queue) = p /\ Tail(queue) = <<q>>
        /\ NumbersOf(s, queue) = Mine(s, p) \o Mine(s, q)
        /\ Mine(s, p) \in T /\ Mine(s, q) \in T /\ Mine(s, p) \o Mine(s, q) \in T
    <3>1. Head(<<p, q>>) = p /\ Tail(<<p, q>>) = <<q>>
      OBVIOUS
    <3> HIDE DEF T
    <3> QED
      BY <1>0, <2>1, <3>1
  <2>4. left = (IF taken THEN Mine(s, p) ELSE << >>) /\ left \in T
    BY <1>0, <2>3 DEF GivenAway
  <2>5. after = IF taken THEN <<q>> ELSE <<p, q>>
    BY <2>1, <2>2, <2>3 DEF Dropped
  <2>6. NumbersOf(s, after) = IF taken THEN Mine(s, q) ELSE Mine(s, p) \o Mine(s, q)
    BY <1>0, <2>5
  <2>7. NumbersOf(s, new) = << >>
    BY <1>0, <2>2
  <2> HIDE DEF T, after, left
  <2>8. NumbersOf(s, queue) \o NumbersOf(s, new) = left \o NumbersOf(s, after)
    BY <1>e, <2>3, <2>4, <2>6, <2>7
  <2> QED
    BY <1>h, <1>0, <2>3, <2>4, <2>6, <2>7, <2>8 DEF Passes, T, left
<1> QED
  BY <1>h, <1>1, <1>2, <1>3, TwoIsShort

-----------------------------------------------------------------------------
\* What a source has waiting up to a place of its journey, in the queues t and q.
Behind(g, i, s, t, q) ==
    IF i = 0 THEN NumbersOf(s, t[s]) ELSE NumbersOf(s, q[Journey[s][i].link]) \o g[i - 1]
Trail(s, t, q) == CHOOSE g : g = [i \in 0 .. Len(Journey[s]) |-> Behind(g, i, s, t, q)]

\* The packets in flight of the model are those of its queues.
LEMMA InFlightIsTrail ==
    ASSUME NEW CONSTANT s
    PROVE  /\ InFlight(s) = NumbersOf(s, rx[DestinationOf[s]])
                              \o Trail(s, tx, ingress)[Len(Journey[s])]
           /\ InFlight(s)' = NumbersOf(s, rx'[DestinationOf[s]])
                               \o Trail(s, tx', ingress')[Len(Journey[s])]
BY DEF InFlight, Trail, Behind, NumbersOf

\* The recursion of a trail.
Follows(trail, s, t, q) ==
    /\ trail[0] = NumbersOf(s, t[s])
    /\ \A i \in 1 .. Len(Journey[s]) :
          trail[i] = NumbersOf(s, q[Journey[s][i].link]) \o trail[i - 1]

\* There is a function that satisfies the recursion of a trail, so a trail does.
LEMMA TrailSteps == ASSUME NEW s \in Sources, NEW t, NEW q PROVE Follows(Trail(s, t, q), s, t, q)
<1> DEFINE last == Len(Journey[s])
           Is(g, n) == g = [i \in 0 .. n |-> Behind(g, i, s, t, q)]
           trail == CHOOSE g : Is(g, last)
<1>k. last \in Nat
  BY Journeys
<1> HIDE DEF last
<1>1. ASSUME NEW n \in Nat, NEW g, Is(g, n) PROVE \E h : Is(h, n + 1)
  <2> DEFINE h == [i \in 0 .. n + 1 |-> IF i <= n THEN g[i] ELSE Behind(g, n + 1, s, t, q)]
  <2>1. ASSUME NEW i \in 0 .. n + 1 PROVE h[i] = Behind(h, i, s, t, q)
    <3>1. CASE i <= n
      <4>1. i \in 0 .. n /\ h[i] = g[i]
        BY <3>1
      <4>2. g[i] = Behind(g, i, s, t, q)
        BY <1>1, <4>1
      <4>3. i # 0 => h[i - 1] = g[i - 1]
        BY <3>1
      <4> HIDE DEF h
      <4> QED
        BY <4>1, <4>2, <4>3 DEF Behind
    <3>2. CASE i = n + 1
      <4>1. h[i - 1] = g[i - 1] /\ h[i] = Behind(g, i, s, t, q)
        BY <1>1, <3>2
      <4>2. i # 0
        BY <3>2
      <4> HIDE DEF h
      <4> QED
        BY <4>1, <4>2 DEF Behind
    <3> QED
      BY <3>1, <3>2
  <2>2. h = [i \in 0 .. n + 1 |-> h[i]]
    OBVIOUS
  <2>3. Is(h, n + 1)
    <3> HIDE DEF h
    <3> QED
      BY <2>1, <2>2
  <2> HIDE DEF h, Is
  <2> QED
    BY <2>3
<1>2. \E g : Is(g, 0)
  <2> DEFINE g == [i \in 0 .. 0 |-> NumbersOf(s, t[s])]
  <2>1. ASSUME NEW i \in 0 .. 0 PROVE g[i] = Behind(g, i, s, t, q)
    BY DEF Behind
  <2>2. g = [i \in 0 .. 0 |-> g[i]]
    OBVIOUS
  <2>3. Is(g, 0)
    <3> HIDE DEF g
    <3> QED
      BY <2>1, <2>2
  <2> HIDE DEF g, Is
  <2> QED
    BY <2>3
<1>3. \A n \in Nat : \E g : Is(g, n)
  <2> DEFINE Bad == {n \in Nat : ~\E g : Is(g, n)}
  <2> HIDE DEF Is
  <2> SUFFICES ASSUME Bad # {} PROVE FALSE
    OBVIOUS
  <2>1. PICK n \in Bad : \A m \in Bad : n <= m
    <3>1. Bad \subseteq Nat
      OBVIOUS
    <3> HIDE DEF Bad
    <3> QED
      BY <3>1, LeastNumber
  <2>2. n # 0
    BY <1>2, <2>1
  <2>3. n \in Nat /\ n - 1 \in Nat /\ ~(n <= n - 1) /\ (n - 1) + 1 = n
    BY <2>1, <2>2
  <2>4. PICK g : Is(g, n - 1)
    BY <2>1, <2>3
  <2> QED
    BY <1>1, <2>1, <2>3, <2>4
<1>4. Is(trail, last)
  <2>1. \E g : Is(g, last)
    BY <1>k, <1>3
  <2> HIDE DEF Is
  <2> QED
    BY <2>1
<1>5. trail = Trail(s, t, q)
  BY DEF Trail, last
<1> HIDE DEF trail
<1>6. \A i \in 0 .. last : trail[i] = Behind(trail, i, s, t, q)
  BY <1>4
<1>7. trail[0] = NumbersOf(s, t[s])
  BY <1>k, <1>6 DEF Behind
<1>8. \A i \in 1 .. last : trail[i] = NumbersOf(s, q[Journey[s][i].link]) \o trail[i - 1]
  <2> TAKE i \in 1 .. last
  <2>1. i \in 0 .. last /\ i # 0
    BY <1>k
  <2> QED
    BY <1>6, <2>1 DEF Behind
<1> QED
  BY <1>5, <1>7, <1>8 DEF last, Follows

\* Where a place of a journey leads: no other place of it leads there.
LEMMA ExitIsOwn ==
    ASSUME NEW s \in Sources, NEW i \in 1 .. Len(Journey[s]), NEW k \in 1 .. Len(Journey[s]),
           ExitOf(Journey[s][i]) = ExitOf(Journey[s][k])
    PROVE  i = k
<1> DEFINE journey == Journey[s]
           n == Len(journey)
           a == Attached[ExitOf(journey[i])]
<1>0. n \in Nat \ {0} /\ DOMAIN journey = 1 .. n
  BY Journeys
<1>1. \A j \in 1 .. n : Attached[ExitOf(journey[j])] = a =>
         IF j < n THEN a.kind = "router" /\ journey[j + 1].link = <<a.target, a.port>>
         ELSE a.kind = "destination"
  <2> TAKE j \in 1 .. n
  <2> DEFINE b == Attached[ExitOf(journey[j])]
             onward == Rotated(journey[j].path)
  <2>1. IF j < n
        THEN /\ b.kind = "router"
             /\ journey[j + 1] = [link |-> <<b.target, b.port>>, path |-> onward]
        ELSE /\ b = [kind |-> "destination", target |-> DestinationOf[s]]
             /\ onward = Delivered[s]
    BY <1>0, WordsAssumption
  <2> HIDE DEF b, onward, journey, n, a
  <2>2. IF j < n THEN b.kind = "router" /\ journey[j + 1].link = <<b.target, b.port>>
        ELSE b.kind = "destination"
    BY <2>1
  <2> QED
    BY <2>2 DEF b
<1>2. \A x, y \in 1 .. n : journey[x].link = journey[y].link => x = y
  BY <1>0, WordsAssumption
<1>3. Attached[ExitOf(journey[k])] = a
  OBVIOUS
<1> HIDE DEF a, journey
<1>4. i \in 1 .. n /\ k \in 1 .. n
  BY DEF journey
<1> HIDE DEF n
<1>5. "router" # "destination"
  OBVIOUS
<1>6. (i < n) <=> (k < n)
  BY <1>1, <1>3, <1>4, <1>5 DEF a
<1>7. CASE i < n
  <2>1. i + 1 \in 1 .. n /\ k + 1 \in 1 .. n
    BY <1>0, <1>4, <1>6, <1>7
  <2>2. journey[i + 1].link = journey[k + 1].link
    BY <1>1, <1>3, <1>4, <1>6, <1>7 DEF a
  <2>3. i + 1 = k + 1
    BY <1>2, <2>1, <2>2
  <2> QED
    BY <1>4, <2>3
<1>8. CASE ~(i < n)
  BY <1>0, <1>4, <1>6, <1>8
<1> QED
  BY <1>7, <1>8

\* A place of a journey and the port a packet leaves it by.
LEMMA ExitIsPort ==
    ASSUME NEW s \in Sources, NEW i \in 1 .. Len(Journey[s])
    PROVE  LET l == Journey[s][i].link
               e == ExitOf(Journey[s][i])
           IN  /\ l \in Link /\ l[1] \in Router /\ l[2] \in Port /\ l = <<l[1], l[2]>>
               /\ e \in Link /\ e[1] = l[1] /\ e[2] \in Port \ {l[2]} /\ e = <<e[1], e[2]>>
<1> DEFINE place == Journey[s][i]
           l == place.link
           bit == Head(place.path)
<1>1. place \in [link : Link, path : Path \ {<< >>}]
  BY Journeys
<1>2. l \in Link /\ place.path \in Seq({0, 1}) /\ place.path # << >>
  BY <1>1 DEF Path
<1>3. bit \in {0, 1}
  BY <1>2, HeadTailProperties
<1> HIDE DEF place
<1>4. l[1] \in Router /\ l[2] \in Port /\ l = <<l[1], l[2]>>
  BY <1>2 DEF Link
<1>5. OutPort(l[2], bit) \in Port \ {l[2]}
  BY <1>3, <1>4, OutPortIsAnother
<1>6. ExitOf(place) = <<l[1], OutPort(l[2], bit)>>
  BY DEF ExitOf
<1> HIDE DEF l, bit
<1>7. ExitOf(place) \in Link
  BY <1>4, <1>5, <1>6 DEF Link
<1> QED
  BY <1>2, <1>4, <1>5, <1>6, <1>7 DEF l, place

\* The oldest packet of an input, if it is of s, is at a place of the journey of s.
LEMMA HeadTravels ==
    ASSUME FabricInv, NEW s \in Sources, NEW l \in Link, ingress[l] # << >>,
           Head(ingress[l]).payload.from = s
    PROVE  /\ Head(ingress[l]) \in Packet
           /\ \E k \in 1 .. Len(Journey[s]) :
                 Journey[s][k].link = l /\ Journey[s][k].path = Head(ingress[l]).path
<1> DEFINE h == Head(ingress[l])
<1>1. h \in At(l)
  BY HeadTailProperties DEF FabricInv, TwoOf
<1>2. h \in Packet /\ [link |-> l, path |-> h.path] \in Places[s]
  BY <1>1 DEF At
<1> HIDE DEF h
<1>3. Places[s] = {Journey[s][i] : i \in 1 .. Len(Journey[s])}
  BY Journeys
<1>4. PICK k \in 1 .. Len(Journey[s]) : Journey[s][k] = [link |-> l, path |-> h.path]
  BY <1>2, <1>3
<1>5. Journey[s][k].link = l /\ Journey[s][k].path = h.path
  BY <1>4
<1> QED
  BY <1>2, <1>5 DEF h

\* What an output of a router gives away of s, at a place of its journey, is what the queue
\* at this place gives away: no other input hands a packet of s to this output, and the
\* packet of s at this input goes to no other output.
LEMMA HandsOver ==
    ASSUME FabricInv, NEW s \in Sources, NEW i \in 1 .. Len(Journey[s])
    PROVE  LET l == Journey[s][i].link
               e == ExitOf(Journey[s][i])
           IN  NumbersOf(s, Outgoing(e[1], e[2]))
                 = GivenAway(s, ingress[l], Removed(l[1], l[2]))
<1> DEFINE l == Journey[s][i].link
           e == ExitOf(Journey[s][i])
           n == Len(Journey[s])
           r == e[1]
           t == e[2]
           p == l[2]
           h == Head(ingress[l])
           g == Grant(r, t)
           sent == Head(ingress[<<r, g>>])
<1>0. /\ l \in Link /\ l = <<r, p>> /\ r \in Router /\ p \in Port /\ l[1] = r
      /\ e \in Link /\ t \in Port /\ t # p /\ e = <<r, t>>
  BY ExitIsPort
<1>e. ASSUME NEW k \in 1 .. n
      PROVE  ExitOf(Journey[s][k])
               = <<Journey[s][k].link[1], OutPort(Journey[s][k].link[2], Head(Journey[s][k].path))>>
  BY DEF ExitOf
<1>l. \A x, y \in 1 .. n : Journey[s][x].link = Journey[s][y].link => x = y
  BY Journeys, WordsAssumption
<1>1. ASSUME ingress[l] # << >>, h.payload.from = s
      PROVE  h \in Packet /\ OutPort(p, Head(h.path)) = t
  <2>1. h \in Packet
    BY <1>0, <1>1, HeadTravels
  <2>2. PICK k \in 1 .. n : Journey[s][k].link = l /\ Journey[s][k].path = h.path
    BY <1>0, <1>1, HeadTravels
  <2>3. k = i
    BY <1>l, <2>2
  <2>4. ExitOf(Journey[s][k]) = <<l[1], OutPort(l[2], Head(h.path))>>
    BY <1>e, <2>2
  <2> HIDE DEF l, h
  <2>5. e = <<l[1], OutPort(l[2], Head(h.path))>>
    BY <2>3, <2>4
  <2>6. t = OutPort(l[2], Head(h.path))
    BY <2>5
  <2> QED
    BY <2>1, <2>6
<1>2. ASSUME NEW u \in Port, Fires(r, u)
      PROVE  /\ Requests(r, u) # {} /\ OutReady(r, u)
             /\ Grant(r, u) \in Port /\ ingress[<<r, Grant(r, u)>>] # << >>
             /\ OutPort(Grant(r, u), Head(Head(ingress[<<r, Grant(r, u)>>]).path)) = u
             /\ Outgoing(r, u) = <<ForwardPacket(Head(ingress[<<r, Grant(r, u)>>]))>>
  <2>1. Requests(r, u) # {} /\ OutReady(r, u)
    BY <1>2 DEF Fires, Outgoing
  <2>2. Grant(r, u) \in Requests(r, u)
    BY <1>0, <2>1, GrantedAsks
  <2> QED
    BY <2>1, <2>2 DEF Requests, Outgoing
\* A packet of s that leaves the queue leaves by this output.
<1>3. ASSUME Removed(r, p), h.payload.from = s
      PROVE  ingress[l] # << >> /\ Fires(r, t) /\ g = p
  <2>1. PICK u \in Port : Fires(r, u) /\ Grant(r, u) = p
    BY <1>3 DEF Removed
  <2>2. ingress[l] # << >> /\ OutPort(p, Head(h.path)) = u
    BY <1>0, <1>2, <2>1
  <2>3. u = t
    BY <1>1, <1>3, <2>2
  <2> QED
    BY <2>1, <2>2, <2>3
\* And a packet of s that leaves by this output leaves this queue.
<1>4. ASSUME Fires(r, t), sent.payload.from = s
      PROVE  ingress[l] # << >> /\ Removed(r, p) /\ sent = h /\ sent \in Packet
  <2>1. g \in Port /\ ingress[<<r, g>>] # << >> /\ OutPort(g, Head(sent.path)) = t
    BY <1>0, <1>2, <1>4
  <2>2. <<r, g>> \in Link /\ <<r, g>>[1] = r /\ <<r, g>>[2] = g
    BY <1>0, <2>1 DEF Link
  <2>3. sent \in Packet
    BY <1>4, <2>1, <2>2, HeadTravels
  <2>4. PICK k \in 1 .. n : Journey[s][k].link = <<r, g>> /\ Journey[s][k].path = sent.path
    BY <1>4, <2>1, <2>2, HeadTravels
  <2> HIDE DEF sent, g
  <2>5. ExitOf(Journey[s][k]) = <<r, OutPort(g, Head(sent.path))>>
    BY <1>e, <2>2, <2>4
  <2>6. ExitOf(Journey[s][k]) = ExitOf(Journey[s][i])
    BY <1>0, <2>1, <2>5
  <2>7. k = i
    BY <2>6, ExitIsOwn
  <2>8. <<r, g>> = l
    BY <2>4, <2>7
  <2>9. g = p
    BY <1>0, <2>2, <2>8
  <2> QED
    BY <1>0, <1>4, <2>1, <2>3, <2>8, <2>9 DEF Removed, sent, g
<1>5. \A x \in Packet : Mine(s, ForwardPacket(x)) = Mine(s, x)
  <2> TAKE x \in Packet
  <2>1. ForwardPacket(x).payload = x.payload
    BY DEF ForwardPacket, Packet
  <2> QED
    BY <2>1 DEF Mine
<1>6. /\ NumbersOf(s, << >>) = << >>
      /\ \A x : NumbersOf(s, <<x>>) = Mine(s, x)
  BY NumbersOfAny
<1> DEFINE Goal == NumbersOf(s, Outgoing(r, t)) = GivenAway(s, ingress[l], Removed(r, p))
<1>7. ASSUME Fires(r, t) /\ sent.payload.from = s PROVE Goal
  <2>1. Outgoing(r, t) = <<ForwardPacket(sent)>>
    BY <1>0, <1>2, <1>7
  <2> HIDE DEF sent, h, l, r, t, p
  <2>2. NumbersOf(s, Outgoing(r, t)) = Mine(s, sent)
    BY <1>4, <1>5, <1>6, <1>7, <2>1
  <2>3. GivenAway(s, ingress[l], Removed(r, p)) = Mine(s, sent)
    BY <1>4, <1>6, <1>7 DEF GivenAway, h
  <2> QED
    BY <2>2, <2>3
<1>8. ASSUME ~(Fires(r, t) /\ sent.payload.from = s) PROVE Goal
  <2>1. NumbersOf(s, Outgoing(r, t)) = << >>
    <3>1. CASE Fires(r, t)
      <4>1. Outgoing(r, t) = <<ForwardPacket(sent)>>
        BY <1>0, <1>2, <3>1
      <4>2. ForwardPacket(sent).payload = sent.payload
        <5>1. sent \in Packet
          <6>1. g \in Port /\ ingress[<<r, g>>] # << >>
            BY <1>0, <1>2, <3>1
          <6>2. <<r, g>> \in Link
            BY <1>0, <6>1 DEF Link
          <6>3. sent \in At(<<r, g>>)
            BY <6>1, <6>2, HeadTailProperties DEF FabricInv, TwoOf
          <6> QED
            BY <6>3 DEF At
        <5> HIDE DEF sent
        <5> QED
          BY <5>1 DEF ForwardPacket, Packet
      <4> HIDE DEF sent, r, t
      <4>3. Mine(s, ForwardPacket(sent)) = << >>
        BY <1>8, <3>1, <4>2 DEF Mine
      <4> QED
        BY <1>6, <4>1, <4>3
    <3>2. CASE ~Fires(r, t)
      BY <1>6, <3>2 DEF Fires
    <3> QED
      BY <3>1, <3>2
  <2>2. GivenAway(s, ingress[l], Removed(r, p)) = << >>
    <3>1. CASE Removed(r, p)
      <4>1. h.payload.from # s
        BY <1>0, <1>3, <1>8, <3>1
      <4> HIDE DEF h, l, r, p
      <4>2. Mine(s, h) = << >>
        BY <4>1 DEF Mine
      <4> QED
        BY <1>6, <4>2 DEF GivenAway, h
    <3>2. CASE ~Removed(r, p)
      BY <3>2 DEF GivenAway
    <3> QED
      BY <3>1, <3>2
  <2> QED
    BY <2>1, <2>2
<1>9. Goal
  BY <1>7, <1>8
<1> QED
  BY <1>0, <1>9

\* What leaves place i of the journey of s at an edge; place 0 is the transmit queue.
Moved(s, i) ==
    IF i = 0 THEN NumbersOf(s, Injected(s))
    ELSE GivenAway(s, ingress[Journey[s][i].link],
                   Removed(Journey[s][i].link[1], Journey[s][i].link[2]))

\* What leaves one place comes to the next, and what leaves the last one to the destination.
LEMMA ComesNext ==
    ASSUME FabricInv, NEW s \in Sources
    PROVE  LET n == Len(Journey[s])
               at == DestinationAt[DestinationOf[s]]
           IN  /\ \A i \in 1 .. n : NumbersOf(s, Incoming(Journey[s][i].link[1], Journey[s][i].link[2]))
                                      = Moved(s, i - 1)
               /\ NumbersOf(s, Outgoing(at[1], at[2])) = Moved(s, n)
<1> DEFINE journey == Journey[s]
           n == Len(journey)
           at == DestinationAt[DestinationOf[s]]
<1>0. n \in Nat \ {0} /\ DOMAIN journey = 1 .. n
  BY Journeys
<1>1. \A i \in 1 .. n :
         LET e == ExitOf(journey[i])
         IN NumbersOf(s, Outgoing(e[1], e[2])) = Moved(s, i)
  <2> TAKE i \in 1 .. n
  <2>1. i # 0
    BY <1>0
  <2> QED
    BY <2>1, HandsOver DEF Moved
<1>2. \A i \in 1 .. n :
         LET a == Attached[ExitOf(journey[i])]
         IN IF i < n
            THEN a.kind = "router" /\ journey[i + 1].link = <<a.target, a.port>>
            ELSE a.kind = "destination" /\ a.target = DestinationOf[s]
  <2> TAKE i \in 1 .. n
  <2> DEFINE b == Attached[ExitOf(journey[i])]
             onward == Rotated(journey[i].path)
  <2>1. IF i < n
        THEN /\ b.kind = "router"
             /\ journey[i + 1] = [link |-> <<b.target, b.port>>, path |-> onward]
        ELSE /\ b = [kind |-> "destination", target |-> DestinationOf[s]]
             /\ onward = Delivered[s]
    BY <1>0, WordsAssumption
  <2> HIDE DEF b, onward, journey, n
  <2>2. IF i < n THEN b.kind = "router" /\ journey[i + 1].link = <<b.target, b.port>>
        ELSE b.kind = "destination" /\ b.target = DestinationOf[s]
    BY <2>1
  <2> QED
    BY <2>2 DEF b
<1>3. \A i \in 1 .. n : ExitOf(journey[i]) \in Link
  BY ExitIsPort
<1>4. journey[1].link = SourceAt[s]
  <2>1. journey[1] = [link |-> SourceAt[s], path |-> Word[s]]
    BY WordsAssumption
  <2> HIDE DEF journey
  <2> QED
    BY <2>1
<1>5. \A i \in 1 .. n : journey[i].link = <<journey[i].link[1], journey[i].link[2]>>
  BY ExitIsPort
<1> HIDE DEF journey, n
<1>6. ASSUME NEW i \in 1 .. n
      PROVE  NumbersOf(s, Incoming(journey[i].link[1], journey[i].link[2])) = Moved(s, i - 1)
  <2> DEFINE l == journey[i].link
  <2>1. l = <<l[1], l[2]>>
    BY <1>5
  <2>2. CASE i = 1
    <3>1. Attached[l] = [kind |-> "source", target |-> s]
      BY <1>4, <2>2, WiringAssumption
    <3>2. Attached[l].kind = "source" /\ Attached[l].target = s
      BY <3>1
    <3> HIDE DEF l
    <3>3. Incoming(l[1], l[2]) = Injected(s)
      BY <2>1, <3>2 DEF Incoming
    <3> QED
      BY <2>2, <3>3 DEF Moved, l
  <2>3. CASE i # 1
    <3> DEFINE e == ExitOf(journey[i - 1])
               a == Attached[e]
    <3>1. i - 1 \in 1 .. n /\ i - 1 < n /\ (i - 1) + 1 = i
      BY <1>0, <2>3
    <3>2. e \in Link /\ a.kind = "router" /\ l = <<a.target, a.port>>
      <4>1. journey[(i - 1) + 1].link = <<a.target, a.port>>
        BY <1>2, <3>1
      <4> QED
        BY <1>2, <1>3, <3>1, <4>1
    <3>3. Attached[l] = [kind |-> "router", target |-> e[1], port |-> e[2]]
      BY <3>2, WiringAssumption
    <3>4. NumbersOf(s, Outgoing(e[1], e[2])) = Moved(s, i - 1)
      BY <1>1, <3>1
    <3> HIDE DEF e, l
    <3>5. Attached[l].kind = "router" /\ Attached[l].target = e[1] /\ Attached[l].port = e[2]
      BY <3>3
    <3>6. Incoming(l[1], l[2]) = Outgoing(e[1], e[2])
      BY <2>1, <3>5 DEF Incoming
    <3> QED
      BY <3>4, <3>6 DEF l
  <2> QED
    BY <2>2, <2>3
<1>7. NumbersOf(s, Outgoing(at[1], at[2])) = Moved(s, n)
  <2>1. n \in 1 .. n /\ ~(n < n)
    BY <1>0
  <2> DEFINE e == ExitOf(journey[n])
             a == Attached[e]
  <2>2. e \in Link /\ a.kind = "destination" /\ a.target = DestinationOf[s]
    BY <1>2, <1>3, <2>1
  <2>3. DestinationAt[a.target] = e
    BY <2>2, WiringAssumption
  <2>4. NumbersOf(s, Outgoing(e[1], e[2])) = Moved(s, n)
    BY <1>1, <2>1
  <2> HIDE DEF e
  <2> QED
    BY <2>2, <2>3, <2>4
<1> QED
  BY <1>6, <1>7 DEF journey, n

\* What the consumers in R take of s at an edge.
TakenOf(s, R) ==
    LET d == DestinationOf[s] IN GivenAway(s, rx[d], d \in R /\ rx[d] # << >>)

\* Every queue on the journey of s gets what the one before it gives away.
LEMMA PlacesExchange ==
    ASSUME FabricInv, NEW S \in SUBSET Sources, NEW R \in SUBSET Destinations, Clock(S, R),
           NEW s \in Sources
    PROVE  LET n == Len(Journey[s])
               d == DestinationOf[s]
               link(i) == Journey[s][i].link
           IN  /\ Passes(NumbersOf(s, tx[s]), NumbersOf(s, Sent(s, S)), Moved(s, 0),
                         NumbersOf(s, tx'[s]))
               /\ \A i \in 1 .. n :
                     Passes(NumbersOf(s, ingress[link(i)]), Moved(s, i - 1), Moved(s, i),
                            NumbersOf(s, ingress'[link(i)]))
               /\ Passes(NumbersOf(s, rx[d]), Moved(s, n), TakenOf(s, R), NumbersOf(s, rx'[d]))
<1> DEFINE n == Len(Journey[s])
           d == DestinationOf[s]
           link(i) == Journey[s][i].link
<1>w. \A X, queue : X \subseteq Packet /\ TwoOf(queue, X) => TwoOf(queue, Packet)
  BY DEF TwoOf
<1>x. \A X, new : X \subseteq Packet /\ AtMostOne(new, X) => AtMostOne(new, Packet)
  BY DEF AtMostOne
<1>y. /\ \A l : At(l) \subseteq Packet
      /\ \A e : Arrived(e) \subseteq Packet
  BY DEF At, Arrived
<1>2. Passes(NumbersOf(s, tx[s]), NumbersOf(s, Sent(s, S)), Moved(s, 0), NumbersOf(s, tx'[s]))
  <2> DEFINE taken == Injected(s) # << >>
  <2>1. tx'[s] = Dropped(tx[s], taken) \o Sent(s, S)
    BY DEF Clock, Sent
  <2>2. /\ TwoOf(tx[s], Packet) /\ taken \in BOOLEAN /\ (taken => tx[s] # << >>)
        /\ AtMostOne(Sent(s, S), Packet) /\ (Sent(s, S) # << >> => Room(tx[s]))
    BY <1>w, <1>x, <1>y, TransmitMoves
  <2>3. Moved(s, 0) = GivenAway(s, tx[s], taken)
    <3>1. NumbersOf(s, << >>) = << >>
      BY NumbersOfShort
    <3>2. <<Head(tx[s])>> # << >>
      OBVIOUS
    <3> QED
      BY <3>1, <3>2 DEF Moved, Injected, GivenAway
  <2> HIDE DEF taken
  <2>4. Exchanges(tx[s], taken, Sent(s, S), tx'[s])
    BY <2>1, <2>2 DEF Exchanges
  <2> QED
    BY <2>3, <2>4, QueueExchanges
<1>3. ASSUME NEW i \in 1 .. n
      PROVE  Passes(NumbersOf(s, ingress[link(i)]), Moved(s, i - 1), Moved(s, i),
                    NumbersOf(s, ingress'[link(i)]))
  <2> DEFINE l == link(i)
             taken == Removed(l[1], l[2])
             new == Incoming(l[1], l[2])
  <2>0. l \in Link
    BY ExitIsPort
  <2>1. ingress'[l] = Dropped(ingress[l], taken) \o new
    BY <2>0 DEF Clock
  <2>2. /\ TwoOf(ingress[l], Packet) /\ taken \in BOOLEAN /\ (taken => ingress[l] # << >>)
        /\ AtMostOne(new, Packet) /\ (new # << >> => Room(ingress[l]))
    BY <2>0, <1>w, <1>x, <1>y, IngressMoves
  <2>3. NumbersOf(s, new) = Moved(s, i - 1)
    BY ComesNext
  <2>4. Moved(s, i) = GivenAway(s, ingress[l], taken)
    <3>1. i # 0
      BY Journeys
    <3> QED
      BY <3>1 DEF Moved
  <2> HIDE DEF taken, new, l
  <2>5. Exchanges(ingress[l], taken, new, ingress'[l])
    BY <2>1, <2>2 DEF Exchanges
  <2>6. Passes(NumbersOf(s, ingress[l]), Moved(s, i - 1), Moved(s, i), NumbersOf(s, ingress'[l]))
    BY <2>3, <2>4, <2>5, QueueExchanges
  <2> QED
    BY <2>6 DEF l
<1>4. Passes(NumbersOf(s, rx[d]), Moved(s, n), TakenOf(s, R), NumbersOf(s, rx'[d]))
  <2> DEFINE taken == d \in R /\ rx[d] # << >>
             new == Outgoing(DestinationAt[d][1], DestinationAt[d][2])
  <2>0. d \in Destinations
    BY WiringAssumption
  <2>1. rx'[d] = Dropped(rx[d], taken) \o new
    BY <2>0 DEF Clock
  <2>2. /\ TwoOf(rx[d], Packet) /\ AtMostOne(new, Packet) /\ (new # << >> => Room(rx[d]))
    BY <2>0, <1>w, <1>x, <1>y, ReceiveMoves
  <2>3. NumbersOf(s, new) = Moved(s, n)
    BY ComesNext
  <2>4. TakenOf(s, R) = GivenAway(s, rx[d], taken)
    BY DEF TakenOf
  <2>5. taken \in BOOLEAN /\ (taken => rx[d] # << >>)
    OBVIOUS
  <2> HIDE DEF taken, new, d, n
  <2>6. Exchanges(rx[d], taken, new, rx'[d])
    BY <2>1, <2>2, <2>5 DEF Exchanges
  <2> QED
    BY <2>3, <2>4, <2>6, QueueExchanges
<1> QED
  BY <1>2, <1>3, <1>4

\* At an edge the packets in flight from s move on as one list: what its consumer takes
\* leaves in front, and what it sends enters behind.
LEMMA ChannelMoves ==
    ASSUME FabricInv, NEW S \in SUBSET Sources, NEW R \in SUBSET Destinations, Clock(S, R),
           NEW s \in Sources
    PROVE  LET n == Len(Journey[s])
               d == DestinationOf[s]
           IN  Passes(NumbersOf(s, rx[d]) \o Trail(s, tx, ingress)[n], NumbersOf(s, Sent(s, S)),
                      TakenOf(s, R), NumbersOf(s, rx'[d]) \o Trail(s, tx', ingress')[n])
<1> DEFINE n == Len(Journey[s])
           d == DestinationOf[s]
           a == NumbersOf(s, Sent(s, S))
           was == Trail(s, tx, ingress)
           is == Trail(s, tx', ingress')
           q(i) == NumbersOf(s, ingress[Journey[s][i].link])
           r(i) == NumbersOf(s, ingress'[Journey[s][i].link])
           Bad == {i \in 0 .. n : ~Passes(was[i], a, Moved(s, i), is[i])}
<1>0. n \in Nat \ {0}
  BY Journeys
<1>f. Follows(was, s, tx, ingress) /\ Follows(is, s, tx', ingress')
  BY TrailSteps
<1> HIDE DEF was, is
<1>1. was[0] = NumbersOf(s, tx[s]) /\ is[0] = NumbersOf(s, tx'[s])
  BY <1>f DEF Follows
<1>2. \A i \in 1 .. n : was[i] = q(i) \o was[i - 1] /\ is[i] = r(i) \o is[i - 1]
  BY <1>f DEF Follows
<1>3. Passes(NumbersOf(s, tx[s]), a, Moved(s, 0), NumbersOf(s, tx'[s]))
  BY PlacesExchange
<1>4. \A i \in 1 .. n : Passes(q(i), Moved(s, i - 1), Moved(s, i), r(i))
  BY PlacesExchange
<1>5. Passes(NumbersOf(s, rx[d]), Moved(s, n), TakenOf(s, R), NumbersOf(s, rx'[d]))
  BY PlacesExchange
<1> HIDE DEF a, q, r
<1>6. Passes(was[0], a, Moved(s, 0), is[0])
  BY <1>1, <1>3
<1>7. ASSUME NEW i \in 1 .. n, Passes(was[i - 1], a, Moved(s, i - 1), is[i - 1])
      PROVE  Passes(was[i], a, Moved(s, i), is[i])
  <2>1. Passes(q(i), Moved(s, i - 1), Moved(s, i), r(i))
    BY <1>4
  <2>2. Passes(q(i) \o was[i - 1], a, Moved(s, i), r(i) \o is[i - 1])
    BY <1>7, <2>1, RowPasses
  <2> QED
    BY <1>2, <2>2
<1>8. Bad = {}
  <2> SUFFICES ASSUME Bad # {} PROVE FALSE
    OBVIOUS
  <2>1. PICK m \in Bad : \A k \in Bad : m <= k
    <3>1. Bad \subseteq Nat
      BY <1>0
    <3> HIDE DEF Bad
    <3> QED
      BY <3>1, LeastNumber
  <2>2. m # 0
    BY <1>6, <2>1
  <2>3. m \in 1 .. n /\ m - 1 \in 0 .. n /\ ~(m <= m - 1)
    BY <1>0, <2>1, <2>2
  <2>4. Passes(was[m - 1], a, Moved(s, m - 1), is[m - 1])
    BY <2>1, <2>3
  <2> QED
    BY <1>7, <2>1, <2>3, <2>4
<1>9. Passes(was[n], a, Moved(s, n), is[n])
  <2>1. n \in 0 .. n
    BY <1>0
  <2> QED
    BY <1>8, <2>1
<1> HIDE DEF Bad, d, n
<1>10. Passes(NumbersOf(s, rx[d]) \o was[n], a, TakenOf(s, R), NumbersOf(s, rx'[d]) \o is[n])
  BY <1>5, <1>9, RowPasses
<1> QED
  BY <1>10 DEF was, is, a, d, n

\* A list that loses at most its head and gets at most one number.
LEMMA PassedOn ==
    ASSUME NEW F, NEW a, NEW g, NEW F2, Passes(F, a, g, F2),
           g = << >> \/ \E x \in Numbers : g = <<x>>,
           a = << >> \/ \E y \in Numbers : a = <<y>>
    PROVE  LET left == IF g = << >> THEN F ELSE Tail(F)
           IN  /\ F2 \in Seq(Numbers)
               /\ g # << >> /\ F # << >> => Head(g) = Head(F)
               /\ (g # << >> => F # << >>)
                    => F2 = left \/ \E y \in Numbers : F2 = Append(left, y)
<1>0. F \in Seq(Numbers) /\ F2 \in Seq(Numbers) /\ F \o a = g \o F2
  BY DEF Passes
<1>1. \A u \in Seq(Numbers) : \A y \in Numbers : u \o <<y>> = Append(u, y)
  OBVIOUS
<1>2. F \o << >> = F /\ << >> \o F2 = F2
  BY <1>0, ConcatEmptySeq
<1>3. CASE g = << >>
  <2>1. F2 = F \o a
    BY <1>0, <1>2, <1>3
  <2>2. CASE a = << >>
    BY <1>0, <1>2, <1>3, <2>1, <2>2
  <2>3. CASE \E y \in Numbers : a = <<y>>
    BY <1>0, <1>1, <1>3, <2>1, <2>3
  <2> QED
    BY <2>2, <2>3
<1>4. CASE \E x \in Numbers : g = <<x>>
  <2>1. PICK x \in Numbers : g = <<x>>
    BY <1>4
  <2>2. g # << >> /\ Head(g) = x
    BY <2>1
  <2>3. <<x>> \o F2 # << >> /\ Head(<<x>> \o F2) = x /\ Tail(<<x>> \o F2) = F2
    BY <1>0, InFront
  <2>4. CASE F = << >>
    BY <1>0, <2>2, <2>4
  <2>5. CASE F # << >>
    <3>1. /\ Head(F) \in Numbers /\ Tail(F) \in Seq(Numbers) /\ F = <<Head(F)>> \o Tail(F)
      BY <1>0, <2>5, HeadTailProperties
    <3>2. CASE a = << >>
      <4>1. F = <<x>> \o F2
        BY <1>0, <1>2, <2>1, <3>2
      <4> QED
        BY <1>0, <2>2, <2>3, <4>1
    <3>3. CASE \E y \in Numbers : a = <<y>>
      <4>1. PICK y \in Numbers : a = <<y>>
        BY <3>3
      <4>2. F \o a = <<Head(F)>> \o (Tail(F) \o <<y>>)
        <5>1. <<Head(F)>> \in Seq(Numbers) /\ <<y>> \in Seq(Numbers)
          BY <3>1
        <5>2. (<<Head(F)>> \o Tail(F)) \o <<y>> = <<Head(F)>> \o (Tail(F) \o <<y>>)
          BY <3>1, <5>1, ConcatAssociative
        <5> QED
          BY <3>1, <4>1, <5>2, Zenon
      <4>3. Tail(F) \o <<y>> = Append(Tail(F), y)
        BY <1>1, <3>1
      <4>4. Append(Tail(F), y) \in Seq(Numbers)
        BY <3>1, AppendProperties
      <4>5. <<Head(F)>> \o Append(Tail(F), y) = <<x>> \o F2
        BY <1>0, <2>1, <4>2, <4>3, Zenon
      <4>6. /\ Head(<<Head(F)>> \o Append(Tail(F), y)) = Head(F)
            /\ Tail(<<Head(F)>> \o Append(Tail(F), y)) = Append(Tail(F), y)
        BY <3>1, <4>4, InFront
      <4>7. Head(F) = x /\ F2 = Append(Tail(F), y)
        BY <2>3, <4>5, <4>6, Zenon
      <4> QED
        BY <1>0, <2>2, <4>7
    <3> QED
      BY <3>2, <3>3
  <2> QED
    BY <2>4, <2>5
<1> QED
  BY <1>3, <1>4

\* A trail is a list of numbers.
LEMMA TrailIsList ==
    ASSUME FabricInv, NEW s \in Sources
    PROVE  Trail(s, tx, ingress)[Len(Journey[s])] \in Seq(Numbers)
<1> DEFINE n == Len(Journey[s])
           trail == Trail(s, tx, ingress)
           Bad == {i \in 0 .. n : trail[i] \notin Seq(Numbers)}
<1>0. n \in Nat \ {0}
  BY Journeys
<1>1. /\ trail[0] = NumbersOf(s, tx[s])
      /\ \A i \in 1 .. n : trail[i] = NumbersOf(s, ingress[Journey[s][i].link]) \o trail[i - 1]
  <2>1. Follows(trail, s, tx, ingress)
    BY TrailSteps
  <2> HIDE DEF trail
  <2> QED
    BY <2>1 DEF Follows
<1>2. ASSUME NEW X \in SUBSET Packet, NEW queue, TwoOf(queue, X)
      PROVE  NumbersOf(s, queue) \in Seq(Numbers)
  <2>1. Exchanges(queue, FALSE, << >>, queue)
    <3>1. TwoOf(queue, Packet) /\ queue \in Seq(Packet)
      BY <1>2 DEF TwoOf
    <3>2. Dropped(queue, FALSE) \o << >> = queue
      BY <3>1, ConcatEmptySeq DEF Dropped
    <3> QED
      BY <3>1, <3>2 DEF Exchanges, AtMostOne
  <2>2. Passes(NumbersOf(s, queue), NumbersOf(s, << >>), GivenAway(s, queue, FALSE),
               NumbersOf(s, queue))
    BY <2>1, QueueExchanges
  <2> QED
    BY <2>2 DEF Passes
<1>3. trail[0] \in Seq(Numbers)
  <2>1. TwoOf(tx[s], At(SourceAt[s])) /\ At(SourceAt[s]) \in SUBSET Packet
    BY DEF FabricInv, At
  <2>2. NumbersOf(s, tx[s]) \in Seq(Numbers)
    BY <1>2, <2>1
  <2> QED
    BY <1>1, <2>2
<1>4. \A i \in 1 .. n : NumbersOf(s, ingress[Journey[s][i].link]) \in Seq(Numbers)
  <2> TAKE i \in 1 .. n
  <2> DEFINE l == Journey[s][i].link
  <2>1. l \in Link
    BY ExitIsPort
  <2> HIDE DEF l
  <2>2. TwoOf(ingress[l], At(l)) /\ At(l) \in SUBSET Packet
    BY <2>1 DEF FabricInv, At
  <2>3. NumbersOf(s, ingress[l]) \in Seq(Numbers)
    BY <1>2, <2>2
  <2> QED
    BY <2>3 DEF l
<1> HIDE DEF trail
<1>5. ASSUME NEW i \in 1 .. n, trail[i - 1] \in Seq(Numbers) PROVE trail[i] \in Seq(Numbers)
  BY <1>1, <1>4, <1>5, ConcatProperties
<1>6. Bad = {}
  <2> SUFFICES ASSUME Bad # {} PROVE FALSE
    OBVIOUS
  <2>1. PICK m \in Bad : \A k \in Bad : m <= k
    <3>1. Bad \subseteq Nat
      BY <1>0
    <3> HIDE DEF Bad
    <3> QED
      BY <3>1, LeastNumber
  <2>2. m # 0
    BY <1>3, <2>1
  <2>3. m \in 1 .. n /\ m - 1 \in 0 .. n /\ ~(m <= m - 1)
    BY <1>0, <2>1, <2>2
  <2>4. trail[m - 1] \in Seq(Numbers)
    BY <2>1, <2>3
  <2> QED
    BY <1>5, <2>1, <2>3, <2>4
<1>7. n \in 0 .. n
  BY <1>0
<1> QED
  BY <1>6, <1>7 DEF trail

\* What a consumer takes of s is the oldest packet in flight from s, or nothing.
LEMMA TakenIsOldest ==
    ASSUME FabricInv, NEW s \in Sources, NEW R
    PROVE  LET d == DestinationOf[s]
               n == Len(Journey[s])
           IN  /\ TakenOf(s, R) = << >> \/ \E x \in Numbers : TakenOf(s, R) = <<x>>
               /\ TakenOf(s, R) # << >>
                    => /\ Head(rx[d]).payload.from = s
                       /\ NumbersOf(s, rx[d]) \o Trail(s, tx, ingress)[n] # << >>
<1> DEFINE d == DestinationOf[s]
           n == Len(Journey[s])
           h == Head(rx[d])
           trail == Trail(s, tx, ingress)[n]
<1>0. d \in Destinations
  BY WiringAssumption
<1>1. TwoOf(rx[d], Packet)
  <2>1. TwoOf(rx[d], Arrived(d))
    BY <1>0 DEF FabricInv
  <2>2. Arrived(d) \subseteq Packet
    BY DEF Arrived
  <2> QED
    BY <2>1, <2>2 DEF TwoOf
<1>2. NumbersOf(s, << >>) = << >> /\ \A x : NumbersOf(s, <<x>>) = Mine(s, x)
  BY NumbersOfAny
<1> HIDE DEF d, trail
<1>3. CASE ~(d \in R /\ rx[d] # << >>)
  BY <1>3 DEF TakenOf, GivenAway, d
<1>4. CASE d \in R /\ rx[d] # << >> /\ h.payload.from # s
  <2>1. TakenOf(s, R) = Mine(s, h)
    BY <1>2, <1>4 DEF TakenOf, GivenAway, d
  <2> QED
    BY <1>4, <2>1 DEF Mine
<1>5. CASE d \in R /\ rx[d] # << >> /\ h.payload.from = s
  <2>1. h \in Packet
    BY <1>1, <1>5, HeadTailProperties DEF TwoOf
  <2> DEFINE x == h.payload.number
  <2>2. x \in Numbers
    BY <2>1 DEF Packet, Payload, Numbers
  <2>3. TakenOf(s, R) = <<x>>
    BY <1>2, <1>5 DEF TakenOf, GivenAway, Mine, d
  <2>4. \E f \in Seq(Numbers) : NumbersOf(s, rx[d]) = <<x>> \o f
    <3>1. /\ \A p \in Packet : Mine(s, p) \in Seq(Numbers)
          /\ \A p \in Packet : \A q \in Packet : NumbersOf(s, <<p, q>>) = Mine(s, p) \o Mine(s, q)
      BY NumbersOfShort
    <3>2. CASE \E p \in Packet : rx[d] = <<p>>
      <4>1. PICK p \in Packet : rx[d] = <<p>>
        BY <3>2
      <4>2. h = p
        BY <4>1
      <4>3. NumbersOf(s, rx[d]) = <<x>>
        BY <1>2, <1>5, <4>1, <4>2 DEF Mine
      <4>4. <<x>> = <<x>> \o << >> /\ << >> \in Seq(Numbers)
        BY <2>2, ConcatEmptySeq
      <4> QED
        BY <4>3, <4>4
    <3>3. CASE \E p \in Packet : \E q \in Packet : rx[d] = <<p, q>>
      <4>1. PICK p \in Packet, q \in Packet : rx[d] = <<p, q>>
        BY <3>3
      <4>2. h = p
        BY <4>1
      <4>3. Mine(s, p) = <<x>>
        BY <1>5, <4>2 DEF Mine
      <4> HIDE DEF x
      <4> QED
        BY <3>1, <4>1, <4>3
    <3>4. \/ rx[d] = << >>
          \/ \E p \in Packet : rx[d] = <<p>>
          \/ \E p \in Packet : \E q \in Packet : rx[d] = <<p, q>>
      BY <1>1, TwoIsShort
    <3> HIDE DEF h, x
    <3> QED
      BY <1>5, <3>2, <3>3, <3>4
  <2>5. PICK f \in Seq(Numbers) : NumbersOf(s, rx[d]) = <<x>> \o f
    BY <2>4
  <2>6. trail \in Seq(Numbers)
    BY TrailIsList DEF trail
  <2> HIDE DEF x
  <2>7. (<<x>> \o f) \o trail # << >>
    <3>1. <<x>> \o f \in Seq(Numbers) /\ Len(<<x>> \o f) = 1 + Len(f) /\ Len(f) \in Nat
      BY <2>2
    <3>2. Len((<<x>> \o f) \o trail) = Len(<<x>> \o f) + Len(trail) /\ Len(trail) \in Nat
      BY <2>6, <3>1, ConcatProperties, LenProperties
    <3>3. Len((<<x>> \o f) \o trail) # 0
      BY <3>1, <3>2
    <3>4. Len(<< >>) = 0
      OBVIOUS
    <3> QED
      BY <3>3, <3>4
  <2> QED
    BY <1>5, <2>2, <2>3, <2>5, <2>7 DEF d, trail
<1> QED
  BY <1>3, <1>4, <1>5

\* An edge of the fabric is a step of its channels.
LEMMA ClockIsChannels ==
    ASSUME FabricInv, NEW S \in SUBSET Sources, NEW R \in SUBSET Destinations, Clock(S, R)
    PROVE  Channels!Next
<1> DEFINE channel == [s \in Sources |-> InFlight(s)]
           T == {s \in Sources : TakenOf(s, R) # << >>}
<1>1. ASSUME NEW s \in Sources
      PROVE  /\ InFlight(s)' \in Seq(Numbers)
             /\ s \in T => Head(rx[DestinationOf[s]]).payload.from = s /\ InFlight(s) # << >>
             /\ LET left == IF s \in T THEN Tail(InFlight(s)) ELSE InFlight(s)
                IN InFlight(s)' = left \/ \E y \in Numbers : InFlight(s)' = Append(left, y)
  <2> DEFINE F == NumbersOf(s, rx[DestinationOf[s]]) \o Trail(s, tx, ingress)[Len(Journey[s])]
             F2 == NumbersOf(s, rx'[DestinationOf[s]])
                     \o Trail(s, tx', ingress')[Len(Journey[s])]
             a == NumbersOf(s, Sent(s, S))
             g == TakenOf(s, R)
  <2>1. InFlight(s) = F /\ InFlight(s)' = F2
    BY InFlightIsTrail
  <2>2. Passes(F, a, g, F2)
    BY ChannelMoves
  <2>3. /\ g = << >> \/ \E x \in Numbers : g = <<x>>
        /\ g # << >> => Head(rx[DestinationOf[s]]).payload.from = s /\ F # << >>
    BY TakenIsOldest
  <2>4. a = << >> \/ \E y \in Numbers : a = <<y>>
    <3>1. offered[s] \in Numbers
      BY DEF FabricInv, Numbers
    <3>2. NumbersOf(s, << >>) = << >> /\ \A x : NumbersOf(s, <<x>>) = Mine(s, x)
      BY NumbersOfAny
    <3>3. Mine(s, [path |-> Word[s], payload |-> [from |-> s, number |-> offered[s]]])
            = <<offered[s]>>
      BY DEF Mine
    <3> QED
      BY <3>1, <3>2, <3>3 DEF Sent
  <2>5. s \in T <=> g # << >>
    OBVIOUS
  <2> HIDE DEF F, F2, a, g, T
  <2>6. LET left == IF g = << >> THEN F ELSE Tail(F)
        IN  /\ F2 \in Seq(Numbers)
            /\ (g # << >> => F # << >>)
                 => F2 = left \/ \E y \in Numbers : F2 = Append(left, y)
    BY <2>2, <2>3, <2>4, PassedOn
  <2> QED
    BY <2>1, <2>3, <2>5, <2>6
<1>2. ASSUME NEW s \in T, NEW u \in T, DestinationOf[s] = DestinationOf[u] PROVE s = u
  BY <1>1, <1>2
<1>3. channel' = [s \in Sources |-> InFlight(s)']
  OBVIOUS
<1>4. \A s \in Sources : channel[s] = InFlight(s) /\ channel'[s] = InFlight(s)'
  BY <1>3
<1>5. channel' \in [Sources -> Seq(0 .. Number - 1)]
  BY <1>1, <1>3 DEF Numbers
<1>6. T \in SUBSET Sources
  OBVIOUS
<1> HIDE DEF T, channel
<1>7. ASSUME NEW s \in Sources
      PROVE  /\ s \in T => channel[s] # << >>
             /\ LET left == IF s \in T THEN Tail(channel[s]) ELSE channel[s]
                IN \/ channel'[s] = left
                   \/ \E n \in 0 .. Number - 1 : channel'[s] = Append(left, n)
  <2>1. channel[s] = InFlight(s) /\ channel'[s] = InFlight(s)'
    BY <1>4
  <2>2. /\ s \in T => InFlight(s) # << >>
        /\ LET left == IF s \in T THEN Tail(InFlight(s)) ELSE InFlight(s)
           IN InFlight(s)' = left \/ \E y \in 0 .. Number - 1 : InFlight(s)' = Append(left, y)
    BY <1>1 DEF Numbers
  <2> QED
    BY <2>1, <2>2, Zenon
<1>8. Channels!Clock(T)
  BY <1>2, <1>5, <1>6, <1>7 DEF Channels!Clock, Channels!Waiting, Channels!Left, channel
<1> QED
  BY <1>6, <1>8 DEF Channels!Next

\* An empty fabric has nothing in flight.
LEMMA EmptyTrail ==
    ASSUME NEW s \in Sources, NEW t, NEW q, NEW x, t[s] = << >>, x = << >>,
           \A l \in Link : q[l] = << >>
    PROVE  NumbersOf(s, x) \o Trail(s, t, q)[Len(Journey[s])] = << >>
<1> DEFINE n == Len(Journey[s])
           trail == Trail(s, t, q)
           Bad == {i \in 0 .. n : trail[i] # << >>}
<1>0. n \in Nat \ {0}
  BY Journeys
<1>1. /\ trail[0] = NumbersOf(s, t[s])
      /\ \A i \in 1 .. n : trail[i] = NumbersOf(s, q[Journey[s][i].link]) \o trail[i - 1]
  <2>1. Follows(trail, s, t, q)
    BY TrailSteps
  <2> HIDE DEF trail
  <2> QED
    BY <2>1 DEF Follows
<1>2. NumbersOf(s, << >>) = << >> /\ << >> \o << >> = << >>
  BY NumbersOfShort
<1>3. \A i \in 1 .. n : q[Journey[s][i].link] = << >>
  BY ExitIsPort
<1> HIDE DEF trail
<1>4. ASSUME NEW i \in 1 .. n, trail[i - 1] = << >> PROVE trail[i] = << >>
  <2>1. trail[i] = NumbersOf(s, << >>) \o << >>
    BY <1>1, <1>3, <1>4
  <2> QED
    BY <1>2, <2>1
<1>5. Bad = {}
  <2> SUFFICES ASSUME Bad # {} PROVE FALSE
    OBVIOUS
  <2>1. PICK m \in Bad : \A k \in Bad : m <= k
    <3>1. Bad \subseteq Nat
      BY <1>0
    <3> HIDE DEF Bad
    <3> QED
      BY <3>1, LeastNumber
  <2>2. m # 0
    BY <1>1, <1>2, <2>1
  <2>3. m \in 1 .. n /\ m - 1 \in 0 .. n /\ ~(m <= m - 1)
    BY <1>0, <2>1, <2>2
  <2>4. trail[m - 1] = << >>
    BY <2>1, <2>3
  <2> QED
    BY <1>4, <2>1, <2>3, <2>4
<1>6. trail[n] = << >>
  <2>1. n \in 0 .. n
    BY <1>0
  <2> QED
    BY <1>5, <2>1
<1> QED
  BY <1>2, <1>6 DEF trail

\* Every step of the fabric is a step of its channels, or none.
LEMMA FabricStepIsChannels ==
    ASSUME FabricInv, [Next]_vars
    PROVE  Channels!Next \/ [s \in Sources |-> InFlight(s)]' = [s \in Sources |-> InFlight(s)]
<1> DEFINE channel == [s \in Sources |-> InFlight(s)]
<1>0. channel' = [s \in Sources |-> InFlight(s)']
  OBVIOUS
<1>1. CASE Running
  <2>1. PICK S \in SUBSET Sources, R \in SUBSET Destinations : Clock(S, R)
    BY <1>1 DEF Running
  <2> QED
    BY <2>1, ClockIsChannels
<1>2. CASE Reset
  <2>1. ASSUME NEW s \in Sources PROVE InFlight(s)' = << >>
    <3>1. DestinationOf[s] \in Destinations
      BY WiringAssumption
    <3>2. /\ tx'[s] = << >> /\ rx'[DestinationOf[s]] = << >>
          /\ \A l \in Link : ingress'[l] = << >>
      BY <1>2, <3>1 DEF Reset
    <3>3. NumbersOf(s, rx'[DestinationOf[s]]) \o Trail(s, tx', ingress')[Len(Journey[s])] = << >>
      BY <3>2, EmptyTrail
    <3> QED
      BY <3>3, InFlightIsTrail
  <2>2. channel' = [s \in Sources |-> << >>]
    BY <1>0, <2>1
  <2> HIDE DEF channel
  <2>3. Channels!Reset
    BY <2>2 DEF Channels!Reset, channel
  <2> QED
    BY <2>3 DEF Channels!Next
<1>3. CASE UNCHANGED vars
  <2>1. tx' = tx /\ ingress' = ingress /\ rx' = rx
    BY <1>3 DEF vars
  <2>2. ASSUME NEW s \in Sources PROVE InFlight(s)' = InFlight(s)
    BY <2>1, InFlightIsTrail
  <2> QED
    BY <1>0, <2>2
<1> QED
  BY <1>1, <1>2, <1>3 DEF Next

\* An empty fabric is one of empty channels.
LEMMA FabricInitIsChannels == Init => Channels!Init
<1> SUFFICES ASSUME Init PROVE Channels!Init
  OBVIOUS
<1>1. ASSUME NEW s \in Sources PROVE InFlight(s) = << >>
  <2>1. DestinationOf[s] \in Destinations
    BY WiringAssumption
  <2>2. /\ tx[s] = << >> /\ rx[DestinationOf[s]] = << >>
        /\ \A l \in Link : ingress[l] = << >>
    BY <2>1 DEF Init
  <2>3. NumbersOf(s, rx[DestinationOf[s]]) \o Trail(s, tx, ingress)[Len(Journey[s])] = << >>
    BY <2>2, EmptyTrail
  <2> QED
    BY <2>3, InFlightIsTrail
<1> QED
  BY <1>1 DEF Channels!Init

\* Seen from its ports a fabric of routers is one first-in first-out channel per connection,
\* for every wiring, every number of routers on a journey and every arbitration among the
\* packets that meet: render_fabric loses, duplicates and reorders no packet.
THEOREM FabricImplementsChannels == TrafficSpec => ImplementsChannels
<1>1. TrafficInit => Channels!Init
  BY FabricInitIsChannels DEF TrafficInit
<1>2. FabricInv /\ [TrafficNext]_<<clocked, vars, pipeline>>
        => [Channels!Next]_([s \in Sources |-> InFlight(s)])
  <2> SUFFICES ASSUME FabricInv, [TrafficNext]_<<clocked, vars, pipeline>>
               PROVE  [Channels!Next]_([s \in Sources |-> InFlight(s)])
    OBVIOUS
  <2>1. [Next]_vars
    BY DEF TrafficNext, ClockPipeline, ClockFabric
  <2> QED
    BY <2>1, FabricStepIsChannels
<1> QED
  BY <1>1, <1>2, FabricInvAlways, PTL DEF TrafficSpec, ImplementsChannels, Channels!Spec

-----------------------------------------------------------------------------
(* The pipeline. *)

\* What a stage holds of the lane of k, and the lane up to a stage, in the registers v and p.
Own(i, k, v, p) == IF v[i] THEN <<p[i][k]>> ELSE << >>
UpTo(from, i, k, v, p) == IF i = k - 1 THEN << >> ELSE Own(i, k, v, p) \o from[i - 1]
LaneFrom(k, v, p) ==
    CHOOSE from : from = [i \in k - 1 .. LastStage |-> UpTo(from, i, k, v, p)]

\* The lane of the model is that of its registers.
LEMMA LaneIsLaneFrom ==
    ASSUME NEW CONSTANT k
    PROVE  /\ Chain!Lane(k) = LaneFrom(k, valid, packet)[LastStage]
           /\ Chain!Lane(k)' = LaneFrom(k, valid', packet')[LastStage]
BY DEF Chain!Lane, LaneFrom, UpTo, Own

\* There is a function that satisfies the recursion of a lane, so a lane does.
LEMMA LaneSteps ==
    ASSUME NEW k \in Chain!Stages, NEW v, NEW p
    PROVE  LET from == LaneFrom(k, v, p)
           IN  /\ from[k - 1] = << >>
               /\ \A i \in k .. LastStage : from[i] = Own(i, k, v, p) \o from[i - 1]
<1> DEFINE Is(g, n) == g = [i \in k - 1 .. n |-> UpTo(g, i, k, v, p)]
           from == CHOOSE g : Is(g, LastStage)
<1>k. k \in Nat /\ LastStage \in Nat /\ k <= LastStage
  BY LastAssumption DEF Chain!Stages
<1>1. ASSUME NEW n \in Nat, k - 1 <= n - 1, NEW g, Is(g, n - 1) PROVE \E h : Is(h, n)
  <2> DEFINE h == [i \in k - 1 .. n |-> IF i < n THEN g[i] ELSE UpTo(g, n, k, v, p)]
  <2>1. ASSUME NEW i \in k - 1 .. n PROVE h[i] = UpTo(h, i, k, v, p)
    <3>1. CASE i < n
      <4>1. i \in k - 1 .. n - 1 /\ h[i] = g[i]
        BY <1>k, <3>1
      <4>2. g[i] = UpTo(g, i, k, v, p)
        BY <1>1, <4>1
      <4>3. i # k - 1 => h[i - 1] = g[i - 1]
        BY <1>k, <3>1
      <4> HIDE DEF h
      <4> QED
        BY <4>1, <4>2, <4>3 DEF UpTo
    <3>2. CASE i = n
      <4>1. h[n - 1] = g[n - 1] /\ h[n] = UpTo(g, n, k, v, p)
        BY <1>k, <1>1
      <4> HIDE DEF h
      <4> QED
        BY <3>2, <4>1 DEF UpTo
    <3> QED
      BY <1>k, <3>1, <3>2
  <2>2. h = [i \in k - 1 .. n |-> h[i]]
    OBVIOUS
  <2>3. Is(h, n)
    <3> HIDE DEF h
    <3> QED
      BY <2>1, <2>2
  <2> HIDE DEF h, Is
  <2> QED
    BY <2>3
<1>2. \E g : Is(g, k)
  <2> DEFINE g == [i \in k - 1 .. k |-> IF i = k - 1 THEN << >> ELSE Own(k, k, v, p) \o << >>]
  <2>1. ASSUME NEW i \in k - 1 .. k PROVE g[i] = UpTo(g, i, k, v, p)
    <3>1. g[k - 1] = << >> /\ g[k] = Own(k, k, v, p) \o << >>
      BY <1>k
    <3>2. i = k - 1 \/ i = k
      BY <1>k
    <3> HIDE DEF g
    <3>3. k # k - 1
      BY <1>k
    <3> QED
      BY <3>1, <3>2, <3>3 DEF UpTo
  <2>2. g = [i \in k - 1 .. k |-> g[i]]
    OBVIOUS
  <2>3. Is(g, k)
    <3> HIDE DEF g
    <3> QED
      BY <2>1, <2>2
  <2> HIDE DEF g, Is
  <2> QED
    BY <2>3
<1>3. \A n \in k .. LastStage : \E g : Is(g, n)
  <2> DEFINE Bad == {n \in k .. LastStage : ~\E g : Is(g, n)}
  <2> HIDE DEF Is
  <2> SUFFICES ASSUME Bad # {} PROVE FALSE
    OBVIOUS
  <2>1. PICK n \in Bad : \A m \in Bad : n <= m
    <3>1. Bad \subseteq Nat
      BY <1>k
    <3> HIDE DEF Bad
    <3> QED
      BY <3>1, LeastNumber
  <2>2. n # k
    BY <1>2, <2>1
  <2>3. n \in Nat /\ n - 1 \in k .. LastStage /\ ~(n <= n - 1) /\ k - 1 <= n - 1
    BY <1>k, <2>1, <2>2
  <2>4. PICK g : Is(g, n - 1)
    BY <2>1, <2>3
  <2> QED
    BY <1>1, <2>1, <2>3, <2>4
<1>4. Is(from, LastStage)
  <2>1. \E g : Is(g, LastStage)
    BY <1>k, <1>3
  <2> HIDE DEF Is
  <2> QED
    BY <2>1
<1>5. from = LaneFrom(k, v, p)
  BY DEF LaneFrom
<1> HIDE DEF from
<1>6. \A i \in k - 1 .. LastStage : from[i] = UpTo(from, i, k, v, p)
  BY <1>4
<1>7. from[k - 1] = << >>
  <2>1. k - 1 \in k - 1 .. LastStage
    BY <1>k
  <2> QED
    BY <1>6, <2>1 DEF UpTo
<1>8. ASSUME NEW i \in k .. LastStage PROVE from[i] = Own(i, k, v, p) \o from[i - 1]
  <2>1. i \in k - 1 .. LastStage /\ i # k - 1
    BY <1>k
  <2> QED
    BY <1>6, <2>1 DEF UpTo
<1> QED
  BY <1>5, <1>7, <1>8

\* When the slot of a stage is ready, given the slots after it.
SlotOf(slot, i, guard, shown, out_ready) ==
    guard /\ (~valid[i] \/ (IF i = LastStage THEN out_ready
                            ELSE slot[i + 1] /\ Chain!Supplied(i + 1, shown)))

\* The ready chain has a solution, and the slots are one.
LEMMA SlotSteps ==
    ASSUME NEW guard, NEW shown, NEW out_ready
    PROVE  LET slot == Chain!SlotReady(guard, shown, out_ready)
           IN  \A i \in Chain!Stages : slot[i] = SlotOf(slot, i, guard, shown, out_ready)
<1> DEFINE Body(g, i) == SlotOf(g, i, guard, shown, out_ready)
           Is(g, n) == g = [i \in n .. LastStage |-> Body(g, i)]
           slot == CHOOSE g : Is(g, 0)
<1>k. LastStage \in Nat
  BY LastAssumption
<1>1. ASSUME NEW n \in 0 .. LastStage, n # LastStage, NEW g, Is(g, n + 1)
      PROVE  \E h : Is(h, n)
  <2> DEFINE h == [i \in n .. LastStage |-> IF i > n THEN g[i] ELSE Body(g, n)]
  <2>1. ASSUME NEW i \in n .. LastStage PROVE h[i] = Body(h, i)
    <3>1. CASE i > n
      <4>1. i \in n + 1 .. LastStage /\ h[i] = g[i]
        BY <1>k, <3>1
      <4>2. g[i] = Body(g, i)
        BY <1>1, <4>1
      <4>3. i # LastStage => h[i + 1] = g[i + 1]
        BY <1>k, <3>1
      <4> HIDE DEF h
      <4> QED
        BY <4>1, <4>2, <4>3 DEF SlotOf
    <3>2. CASE i = n
      <4>1. h[n + 1] = g[n + 1] /\ h[n] = Body(g, n)
        BY <1>k, <1>1
      <4> HIDE DEF h
      <4> QED
        BY <3>2, <4>1, <1>1 DEF SlotOf
    <3> QED
      BY <1>k, <3>1, <3>2
  <2>2. h = [i \in n .. LastStage |-> h[i]]
    OBVIOUS
  <2>3. Is(h, n)
    <3> HIDE DEF h, Body
    <3> QED
      BY <2>1, <2>2
  <2> HIDE DEF h, Is
  <2> QED
    BY <2>3
<1>2. \E g : Is(g, LastStage)
  <2> DEFINE g == [i \in LastStage .. LastStage |-> Body(<< >>, LastStage)]
  <2>1. ASSUME NEW i \in LastStage .. LastStage PROVE g[i] = Body(g, i)
    <3>1. i = LastStage /\ g[LastStage] = Body(<< >>, LastStage)
      BY <1>k
    <3> HIDE DEF g
    <3> QED
      BY <3>1 DEF SlotOf
  <2>2. g = [i \in LastStage .. LastStage |-> g[i]]
    OBVIOUS
  <2>3. Is(g, LastStage)
    <3> HIDE DEF g, Body
    <3> QED
      BY <2>1, <2>2
  <2> HIDE DEF g, Is
  <2> QED
    BY <2>3
<1>3. \A n \in 0 .. LastStage : \E g : Is(g, LastStage - n)
  <2> DEFINE Bad == {n \in 0 .. LastStage : ~\E g : Is(g, LastStage - n)}
  <2> HIDE DEF Is
  <2> SUFFICES ASSUME Bad # {} PROVE FALSE
    OBVIOUS
  <2>1. PICK n \in Bad : \A m \in Bad : n <= m
    <3>1. Bad \subseteq Nat
      BY <1>k
    <3> HIDE DEF Bad
    <3> QED
      BY <3>1, LeastNumber
  <2>2. n # 0
    BY <1>k, <1>2, <2>1
  <2>3. /\ n \in Nat /\ n - 1 \in 0 .. LastStage /\ ~(n <= n - 1)
        /\ LastStage - n \in 0 .. LastStage /\ LastStage - n # LastStage
        /\ LastStage - (n - 1) = (LastStage - n) + 1
    BY <1>k, <2>1, <2>2
  <2>4. PICK g : Is(g, LastStage - (n - 1))
    BY <2>1, <2>3
  <2>5. Is(g, (LastStage - n) + 1)
    BY <2>3, <2>4
  <2> QED
    BY <1>1, <2>1, <2>3, <2>5
<1>4. Is(slot, 0)
  <2>1. \E g : Is(g, LastStage - LastStage)
    BY <1>k, <1>3
  <2> HIDE DEF Is
  <2>2. LastStage - LastStage = 0
    BY <1>k
  <2> QED
    BY <2>1, <2>2
<1>5. slot = Chain!SlotReady(guard, shown, out_ready)
  BY DEF Chain!SlotReady, Chain!Stages, SlotOf
<1> HIDE DEF slot, Body
<1>6. \A i \in 0 .. LastStage : slot[i] = Body(slot, i)
  BY <1>4
<1> QED
  BY <1>5, <1>6 DEF Chain!Stages, Body

\* The types of the registers.
LEMMA PipelineTypes ==
    ASSUME Chain!TypeOK
    PROVE  /\ LastStage \in Nat /\ sources \subseteq 0 .. LastStage
           /\ Chain!Stages = 0 .. LastStage
           /\ \A i \in 0 .. LastStage : valid[i] \in BOOLEAN
           /\ \A k \in sources : offer[k] \in Chain!Tokens
           /\ \A i \in 0 .. LastStage, k \in sources :
                 valid[i] /\ k <= i => packet[i][k] \in Chain!Tokens
<1>1. LastStage \in Nat /\ Chain!Stages = 0 .. LastStage
  BY LastAssumption DEF Chain!Stages
<1>2. ASSUME NEW i \in 0 .. LastStage, NEW k \in sources, valid[i], k <= i
      PROVE  packet[i][k] \in Chain!Tokens
  <2>1. packet[i] \in [sources \intersect (0 .. i) -> Chain!Tokens]
    BY <1>1, <1>2 DEF Chain!TypeOK
  <2>2. k \in sources \intersect (0 .. i)
    BY <1>1, <1>2 DEF Chain!TypeOK
  <2> QED
    BY <2>1, <2>2
<1> QED
  BY <1>1, <1>2 DEF Chain!TypeOK

\* A packet of a lane is a token.
LEMMA LanesAreLists ==
    ASSUME Chain!TypeOK, NEW k \in sources
    PROVE  LET from == LaneFrom(k, valid, packet)
           IN  \A i \in k - 1 .. LastStage : from[i] \in Seq(Chain!Tokens)
<1> DEFINE from == LaneFrom(k, valid, packet)
           Bad == {n \in 0 .. LastStage + 1 : n >= k /\ from[n - 1] \notin Seq(Chain!Tokens)}
<1>k. k \in Nat /\ LastStage \in Nat /\ k \in 0 .. LastStage /\ k \in Chain!Stages
  BY PipelineTypes
<1>1. /\ from[k - 1] = << >>
      /\ \A i \in k .. LastStage : from[i] = Own(i, k, valid, packet) \o from[i - 1]
  BY <1>k, LaneSteps
<1> HIDE DEF from
<1>2. Bad = {}
  <2> SUFFICES ASSUME Bad # {} PROVE FALSE
    OBVIOUS
  <2>1. PICK n \in Bad : \A m \in Bad : n <= m
    <3>1. Bad \subseteq Nat
      BY <1>k
    <3> HIDE DEF Bad
    <3> QED
      BY <3>1, LeastNumber
  <2>2. n # k
    BY <1>1, <2>1, EmptySeq
  <2>3. n - 1 \in k .. LastStage /\ n - 1 \in 0 .. LastStage + 1 /\ ~(n <= n - 1)
    BY <1>k, <2>1, <2>2
  <2>4. from[n - 1 - 1] \in Seq(Chain!Tokens)
    BY <2>1, <2>3
  <2>5. Own(n - 1, k, valid, packet) \in Seq(Chain!Tokens)
    <3>1. n - 1 \in 0 .. LastStage /\ k <= n - 1
      BY <1>k, <2>3
    <3>2. valid[n - 1] => packet[n - 1][k] \in Chain!Tokens
      BY <3>1, PipelineTypes
    <3> QED
      BY <3>2, EmptySeq DEF Own
  <2>6. from[n - 1] = Own(n - 1, k, valid, packet) \o from[n - 1 - 1]
    BY <1>1, <2>3
  <2>7. from[n - 1] \in Seq(Chain!Tokens)
    <3>1. \A u \in Seq(Chain!Tokens), v \in Seq(Chain!Tokens) : u \o v \in Seq(Chain!Tokens)
      BY ConcatProperties
    <3> QED
      BY <2>4, <2>5, <2>6, <3>1, Zenon
  <2> QED
    BY <2>1, <2>7
<1>3. ASSUME NEW i \in k - 1 .. LastStage PROVE from[i] \in Seq(Chain!Tokens)
  <2>1. i + 1 \in 0 .. LastStage + 1 /\ i + 1 >= k /\ (i + 1) - 1 = i
    BY <1>k
  <2> QED
    BY <1>2, <2>1
<1> QED
  BY <1>3 DEF from

\* The token of source k that enters in a cycle, given the slots.
Entering(slot, k, shown) == IF slot[k] /\ Chain!Loads(k, shown) THEN <<offer[k]>> ELSE << >>

\* What stage i and those before it keep of the lane of k in a cycle.
Kept(slot, i, k) ==
    (IF valid[i] /\ ~slot[i] THEN <<packet[i][k]>> ELSE << >>)
        \o LaneFrom(k, valid, packet)[i - 1]

\* A lane moves on as a whole in a cycle, given the slots.
Moves(k, slot, shown) ==
    \A i \in k .. LastStage :
        LaneFrom(k, valid', packet')[i] = Kept(slot, i, k) \o Entering(slot, k, shown)

\* An edge without reset moves every lane on as a whole: whatever stage stalls, up to each
\* stage it keeps its order, loses at most the packet of that stage, and gets what enters.
LEMMA LaneMoves ==
    ASSUME Chain!TypeOK, NEW guard \in BOOLEAN, NEW out_ready \in BOOLEAN, NEW shown,
           Chain!Cycle(FALSE, guard, shown, out_ready), NEW k \in sources
    PROVE  Moves(k, Chain!SlotReady(guard, shown, out_ready), shown)
<1> DEFINE slot == Chain!SlotReady(guard, shown, out_ready)
           from == LaneFrom(k, valid, packet)
           next == LaneFrom(k, valid', packet')
           enters == Entering(slot, k, shown)
           T == Seq(Chain!Tokens)
<1>k. k \in Nat /\ LastStage \in Nat /\ k \in 0 .. LastStage /\ k \in Chain!Stages
  BY PipelineTypes
<1>1. \A i \in 0 .. LastStage : slot[i] = SlotOf(slot, i, guard, shown, out_ready)
  BY SlotSteps, PipelineTypes
<1>2. ASSUME NEW i \in 0 .. LastStage
      PROVE  /\ valid'[i] = (IF slot[i] THEN Chain!Loads(i, shown) ELSE valid[i])
             /\ slot[i] /\ Chain!Loads(i, shown) => packet'[i] = Chain!Comb(i)
             /\ ~(slot[i] /\ Chain!Loads(i, shown)) => packet'[i] = packet[i]
  BY <1>2, PipelineTypes DEF Chain!Cycle
<1>s. \A v, p : /\ LaneFrom(k, v, p)[k - 1] = << >>
                /\ \A i \in k .. LastStage :
                      LaneFrom(k, v, p)[i] = Own(i, k, v, p) \o LaneFrom(k, v, p)[i - 1]
  BY <1>k, LaneSteps
<1>3. /\ next[k - 1] = << >>
      /\ \A i \in k .. LastStage : next[i] = Own(i, k, valid', packet') \o next[i - 1]
  BY <1>s
<1>4. /\ from[k - 1] = << >>
      /\ \A i \in k .. LastStage : from[i] = Own(i, k, valid, packet) \o from[i - 1]
  BY <1>s
<1>5. \A i \in k - 1 .. LastStage : from[i] \in T
  BY LanesAreLists
<1> HIDE DEF from, next, slot
<1>6. enters \in T
  <2>1. offer[k] \in Chain!Tokens
    BY PipelineTypes
  <2> QED
    BY <2>1, EmptySeq DEF Entering
<1>7. \A i \in 0 .. LastStage : valid[i] \in BOOLEAN
  BY PipelineTypes
<1>8. ASSUME NEW i \in k .. LastStage PROVE Own(i, k, valid, packet) \in T
  <2>1. i \in 0 .. LastStage /\ k <= i
    BY <1>k
  <2>2. valid[i] => packet[i][k] \in Chain!Tokens
    BY <2>1, PipelineTypes
  <2> QED
    BY <2>2, EmptySeq DEF Own
<1>9. next[k] = Kept(slot, k, k) \o enters
  <2>0. k \in 0 .. LastStage /\ k \in k .. LastStage
    BY <1>k
  <2>1. next[k] = Own(k, k, valid', packet') \o << >>
    BY <1>3, <2>0
  <2>2. Kept(slot, k, k) = (IF valid[k] /\ ~slot[k] THEN <<packet[k][k]>> ELSE << >>) \o << >>
    BY <1>4 DEF Kept, from
  <2>3. CASE slot[k] /\ Chain!Loads(k, shown)
    <3>0. valid'[k] /\ packet'[k] = Chain!Comb(k)
      BY <1>k, <1>2, <2>3
    <3>1. packet'[k][k] = offer[k] /\ valid'[k]
      <4>1. k \in sources \intersect (0 .. k)
        BY <1>k
      <4>2. Chain!Comb(k)[k] = offer[k]
        BY <4>1 DEF Chain!Comb
      <4> QED
        BY <3>0, <4>2
    <3>2. next[k] = <<offer[k]>> \o << >> /\ enters = <<offer[k]>> /\ Kept(slot, k, k) = << >> \o << >>
      BY <2>1, <2>2, <2>3, <3>1 DEF Own, Entering
    <3>3. <<offer[k]>> \in T
      BY PipelineTypes
    <3> QED
      BY <3>2, <3>3
  <2>4. CASE slot[k] /\ ~Chain!Loads(k, shown)
    <3>1. ~valid'[k]
      BY <1>2, <2>0, <2>4
    <3> QED
      BY <2>1, <2>2, <2>4, <3>1 DEF Own, Entering
  <2>5. CASE ~slot[k]
    <3>1. valid'[k] = valid[k] /\ packet'[k] = packet[k]
      BY <1>2, <2>0, <2>5
    <3>2. Own(k, k, valid', packet') = Own(k, k, valid, packet)
      BY <3>1 DEF Own
    <3>3. Kept(slot, k, k) = Own(k, k, valid, packet) \o << >> /\ enters = << >>
      BY <2>2, <2>5 DEF Own, Entering
    <3>4. Own(k, k, valid, packet) \o << >> \in T
      BY <1>8, <2>0, EmptySeq, ConcatProperties
    <3> QED
      BY <2>1, <3>2, <3>3, <3>4
  <2> QED
    BY <2>3, <2>4, <2>5
<1>10. ASSUME NEW i \in k + 1 .. LastStage, next[i - 1] = Kept(slot, i - 1, k) \o enters
       PROVE  next[i] = Kept(slot, i, k) \o enters
  <2> DEFINE j == i - 1
             held == IF valid[j] /\ ~slot[j] THEN <<packet[j][k]>> ELSE << >>
             rest == IF valid[i] /\ ~slot[i] THEN <<packet[i][k]>> ELSE << >>
  <2>0. /\ j \in k .. LastStage /\ i \in k .. LastStage /\ i \in 0 .. LastStage /\ i > 0
        /\ j \in 0 .. LastStage /\ j # LastStage /\ j + 1 = i /\ k # i /\ j - 1 \in k - 1 .. LastStage
    BY <1>k
  <2>1. slot[j] = (guard /\ (~valid[j] \/ (slot[i] /\ Chain!Supplied(i, shown))))
    <3>1. slot[j] = SlotOf(slot, j, guard, shown, out_ready)
      BY <1>1, <2>0
    <3> HIDE DEF j
    <3> QED
      BY <2>0, <3>1 DEF SlotOf
  <2>2. slot[i] => guard
    BY <1>1, <2>0 DEF SlotOf
  <2>3. Chain!Loads(i, shown) <=> valid[j] /\ Chain!Supplied(i, shown)
    BY <2>0 DEF Chain!Loads
  <2>4. /\ next[i] = Own(i, k, valid', packet') \o ((held \o from[j - 1]) \o enters)
        /\ Kept(slot, i, k) = rest \o from[j]
        /\ from[j] = Own(j, k, valid, packet) \o from[j - 1]
    BY <1>3, <1>4, <1>10, <2>0 DEF Kept, from
  <2>5. held \in T /\ rest \in T /\ from[j - 1] \in T /\ Own(j, k, valid, packet) \in T /\ from[j] \in T
    <3>1. from[j - 1] \in T /\ Own(j, k, valid, packet) \in T /\ Own(i, k, valid, packet) \in T
      BY <1>5, <1>8, <2>0
    <3>2. from[j] \in T
      <4>1. j \in k - 1 .. LastStage
        BY <1>k
      <4> QED
        BY <1>5, <4>1
    <3>3. /\ held = << >> \/ held = Own(j, k, valid, packet)
          /\ rest = << >> \/ rest = Own(i, k, valid, packet)
      BY DEF Own
    <3> HIDE DEF held, rest, j
    <3> QED
      BY <3>1, <3>2, <3>3, EmptySeq
  <2>6. CASE slot[i]
    <3>1. rest = << >> /\ Kept(slot, i, k) = << >> \o from[j]
      BY <2>4, <2>6
    <3>2. Kept(slot, i, k) = from[j]
      BY <2>5, <3>1, ConcatEmptySeq
    <3>3. CASE valid[j] /\ Chain!Supplied(i, shown)
      <4>1. slot[j] /\ Chain!Loads(i, shown)
        BY <2>1, <2>2, <2>3, <2>6, <3>3
      <4>2. valid'[i] /\ packet'[i] = Chain!Comb(i)
        BY <1>2, <2>0, <2>6, <4>1
      <4>3. k \in sources \intersect (0 .. i)
        BY <1>k
      <4>4. Chain!Comb(i)[k] = packet[j][k]
        BY <2>0, <4>3 DEF Chain!Comb
      <4>5. Own(i, k, valid', packet') = Own(j, k, valid, packet) /\ held = << >>
        BY <3>3, <4>1, <4>2, <4>4 DEF Own
      <4> DEFINE was == Own(j, k, valid, packet)
                 f == from[j - 1]
      <4>6. was \in T /\ f \in T /\ enters \in T
        BY <1>6, <2>5
      <4>7. next[i] = was \o ((<< >> \o f) \o enters) /\ from[j] = was \o f
        BY <2>4, <4>5
      <4> HIDE DEF was, f, j
      <4>8. << >> \o f = f
        BY <4>6, ConcatEmptySeq
      <4>9. was \o (f \o enters) = (was \o f) \o enters
        BY <4>6, ConcatAssociative
      <4>10. next[i] = was \o (f \o enters)
        BY <4>7, <4>8
      <4> QED
        BY <3>2, <4>7, <4>9, <4>10
    <3>4. CASE ~(valid[j] /\ Chain!Supplied(i, shown))
      <4>1. ~valid'[i]
        BY <1>2, <2>0, <2>3, <2>6, <3>4
      <4>2. Own(i, k, valid', packet') = << >>
        BY <4>1 DEF Own
      <4>3. held = Own(j, k, valid, packet)
        BY <2>1, <3>4 DEF Own
      <4> DEFINE moved == from[j] \o enters
      <4>4. next[i] = << >> \o moved
        BY <2>4, <4>2, <4>3
      <4>5. moved \in T
        BY <1>6, <2>5, ConcatProperties
      <4> HIDE DEF j
      <4>6. << >> \o moved = moved
        BY <4>5, ConcatEmptySeq
      <4> QED
        BY <3>2, <4>4, <4>6
    <3> QED
      BY <3>3, <3>4
  <2>7. CASE ~slot[i]
    <3>1. valid'[i] = valid[i] /\ packet'[i] = packet[i]
      BY <1>2, <2>0, <2>7
    <3>2. Own(i, k, valid', packet') = rest
      BY <2>7, <3>1 DEF Own
    <3>3. held = Own(j, k, valid, packet)
      BY <2>1, <2>7 DEF Own
    <3>4. next[i] = rest \o (from[j] \o enters)
      BY <2>4, <3>2, <3>3
    <3> DEFINE f == from[j]
    <3>5. rest \in T /\ f \in T /\ enters \in T
      BY <1>6, <2>5
    <3>6. next[i] = rest \o (f \o enters) /\ Kept(slot, i, k) = rest \o f
      BY <2>4, <3>4
    <3> HIDE DEF rest, j, f
    <3>7. (rest \o f) \o enters = rest \o (f \o enters)
      <4>1. \A x \in T, y \in T, z \in T : (x \o y) \o z = x \o (y \o z)
        BY ConcatAssociative
      <4> HIDE DEF T, f, enters
      <4> QED
        BY <3>5, <4>1, Zenon
    <3> HIDE DEF f, enters, next
    <3> QED
      BY <3>6, <3>7, Zenon
  <2> QED
    BY <2>6, <2>7
<1> DEFINE Good(i) == next[i] = Kept(slot, i, k) \o enters
           Bad == {i \in k .. LastStage : ~Good(i)}
<1> HIDE DEF enters
<1>11. Bad = {}
  <2> SUFFICES ASSUME Bad # {} PROVE FALSE
    OBVIOUS
  <2>1. PICK n \in Bad : \A m \in Bad : n <= m
    <3>1. Bad \subseteq Nat
      BY <1>k
    <3> HIDE DEF Bad
    <3> QED
      BY <3>1, LeastNumber
  <2>2. n # k
    BY <1>9, <2>1
  <2>3. n \in k + 1 .. LastStage /\ n - 1 \in k .. LastStage /\ ~(n <= n - 1)
    BY <1>k, <2>1, <2>2
  <2>4. Good(n - 1)
    BY <2>1, <2>3
  <2> QED
    BY <1>10, <2>1, <2>3, <2>4
<1> QED
  BY <1>11 DEF next, enters, slot, Moves

\* Without a valid stage no lane has a packet.
LEMMA EmptyLane ==
    ASSUME NEW k \in Chain!Stages, NEW v, NEW p, \A i \in Chain!Stages : ~v[i]
    PROVE  LaneFrom(k, v, p)[LastStage] = << >>
<1> DEFINE from == LaneFrom(k, v, p)
           Bad == {i \in k .. LastStage : from[i] # << >>}
<1>k. k \in Nat /\ LastStage \in Nat /\ k <= LastStage /\ Chain!Stages = 0 .. LastStage
  BY LastAssumption DEF Chain!Stages
<1>1. /\ from[k - 1] = << >>
      /\ \A i \in k .. LastStage : from[i] = Own(i, k, v, p) \o from[i - 1]
  BY LaneSteps
<1> HIDE DEF from
<1>2. \A i \in k .. LastStage : from[i] = << >> \o from[i - 1]
  <2> TAKE i \in k .. LastStage
  <2>1. ~v[i]
    BY <1>k
  <2>2. Own(i, k, v, p) = << >>
    BY <2>1 DEF Own
  <2> QED
    BY <1>1, <2>2
<1>3. Bad = {}
  <2> SUFFICES ASSUME Bad # {} PROVE FALSE
    OBVIOUS
  <2>1. PICK n \in Bad : \A m \in Bad : n <= m
    <3>1. Bad \subseteq Nat
      BY <1>k
    <3> HIDE DEF Bad
    <3> QED
      BY <3>1, LeastNumber
  <2>2. n # k
    BY <1>1, <1>2, <2>1
  <2>3. n - 1 \in k .. LastStage /\ ~(n <= n - 1)
    BY <1>k, <2>1, <2>2
  <2>4. from[n - 1] = << >>
    BY <2>1, <2>3
  <2> QED
    BY <1>2, <2>1, <2>4
<1>4. LastStage \in k .. LastStage
  BY <1>k
<1> QED
  BY <1>3, <1>4 DEF from

\* The registers start well typed.
LEMMA PipelineTypeInit == Chain!Init => Chain!TypeOK
<1>1. LastStage \in Nat
  BY LastAssumption
<1> QED
  BY <1>1 DEF Chain!Init, Chain!TypeOK, Chain!Stages, Chain!Tokens

\* A cycle keeps them so: a stage that loads has a packet of the stage before it, with a
\* token of every source that stage had read.
LEMMA PipelineTypeStep ==
    ASSUME Chain!TypeOK, NEW reset \in BOOLEAN, NEW guard \in BOOLEAN, NEW out_ready \in BOOLEAN,
           NEW shown \in SUBSET sources, Chain!Cycle(reset, guard, shown, out_ready)
    PROVE  Chain!TypeOK'
<1> DEFINE slot == Chain!SlotReady(guard, shown, out_ready)
<1>1. LastStage \in Nat /\ Chain!Stages = 0 .. LastStage /\ Chain!Tokens = 0 .. LastStage + 1
  BY LastAssumption DEF Chain!Stages, Chain!Tokens
<1>2. /\ sources' = sources
      /\ valid' = [i \in Chain!Stages |-> IF reset THEN FALSE
                      ELSE IF slot[i] THEN Chain!Loads(i, shown) ELSE valid[i]]
      /\ packet' = [i \in Chain!Stages |-> IF reset THEN Chain!Cleared
                       ELSE IF slot[i] /\ Chain!Loads(i, shown) THEN Chain!Comb(i) ELSE packet[i]]
      /\ offer' = [k \in sources |-> IF k \in shown /\ Chain!in_ready(k, slot)
                       THEN (offer[k] + 1) % (LastStage + 2) ELSE offer[k]]
  BY DEF Chain!Cycle
<1> HIDE DEF slot
<1>3. valid' \in [Chain!Stages -> BOOLEAN]
  <2>1. ASSUME NEW i \in Chain!Stages
        PROVE  (IF reset THEN FALSE
                ELSE IF slot[i] THEN Chain!Loads(i, shown) ELSE valid[i]) \in BOOLEAN
    BY <1>1, PipelineTypes DEF Chain!Loads
  <2> QED
    BY <1>2, <2>1
<1>4. ASSUME NEW i \in Chain!Stages, valid'[i]
      PROVE  packet'[i] \in [sources' \intersect (0 .. i) -> Chain!Tokens]
  <2>0. ~reset
    BY <1>2, <1>4
  <2>1. CASE slot[i]
    <3>1. Chain!Loads(i, shown)
      BY <1>2, <1>4, <2>0, <2>1
    <3>2. packet'[i] = Chain!Comb(i)
      BY <1>2, <2>0, <2>1, <3>1
    <3>3. ASSUME NEW k \in sources \intersect (0 .. i)
          PROVE  (IF k = i THEN offer[i] ELSE packet[i - 1][k]) \in Chain!Tokens
      <4>1. CASE k = i
        BY <4>1, PipelineTypes
      <4>2. CASE k # i
        <5>1. i > 0 /\ k <= i - 1 /\ i - 1 \in 0 .. LastStage
          BY <1>1, <4>2, <3>3
        <5>2. valid[i - 1]
          BY <3>1, <5>1 DEF Chain!Loads
        <5> QED
          BY <4>2, <5>1, <5>2, PipelineTypes
      <4> QED
        BY <4>1, <4>2
    <3> QED
      BY <1>2, <3>2, <3>3 DEF Chain!Comb
  <2>2. CASE ~slot[i]
    <3>1. valid[i] /\ packet'[i] = packet[i]
      BY <1>2, <1>4, <2>0, <2>2
    <3> QED
      BY <1>2, <3>1 DEF Chain!TypeOK
  <2> QED
    BY <2>1, <2>2
<1>5. offer' \in [sources' -> Chain!Tokens]
  <2>1. ASSUME NEW k \in sources
        PROVE  offer[k] \in Chain!Tokens /\ (offer[k] + 1) % (LastStage + 2) \in Chain!Tokens
    <3>1. offer[k] \in 0 .. LastStage + 1
      BY <1>1, PipelineTypes
    <3>2. (offer[k] + 1) % (LastStage + 2) \in 0 .. LastStage + 1
      BY <1>1, <3>1
    <3> QED
      BY <1>1, <3>1, <3>2
  <2> QED
    BY <1>2, <2>1
<1>6. sources' \subseteq Chain!Stages
  BY <1>2 DEF Chain!TypeOK
<1> QED
  BY <1>3, <1>4, <1>5, <1>6 DEF Chain!TypeOK

\* The lanes after a cycle: those of the join, with the packet the output buffer takes and
\* the tokens the sources give.
LEMMA LaneStep ==
    ASSUME Chain!TypeOK, NEW guard \in BOOLEAN, NEW out_ready \in BOOLEAN,
           NEW shown \in SUBSET sources, Chain!Cycle(FALSE, guard, shown, out_ready),
           NEW k \in sources
    PROVE  LET slot == Chain!SlotReady(guard, shown, out_ready)
               lane == LaneFrom(k, valid, packet)[LastStage]
               delivers == guard /\ valid[LastStage] /\ out_ready
           IN  /\ lane \in Seq(Chain!Tokens)
               /\ LaneFrom(k, valid', packet')[LastStage]
                    = (IF delivers THEN Tail(lane) ELSE lane) \o Entering(slot, k, shown)
<1> DEFINE slot == Chain!SlotReady(guard, shown, out_ready)
           from == LaneFrom(k, valid, packet)
           lane == from[LastStage]
           delivers == guard /\ valid[LastStage] /\ out_ready
           T == Seq(Chain!Tokens)
<1>k. k \in Nat /\ LastStage \in Nat /\ k \in Chain!Stages /\ LastStage \in k .. LastStage
      /\ LastStage \in k - 1 .. LastStage /\ LastStage - 1 \in k - 1 .. LastStage
      /\ LastStage \in 0 .. LastStage /\ k <= LastStage
  BY PipelineTypes
<1>1. lane \in T /\ from[LastStage - 1] \in T
  BY <1>k, LanesAreLists
<1>2. LaneFrom(k, valid', packet')[LastStage] = Kept(slot, LastStage, k) \o Entering(slot, k, shown)
  <2>1. Moves(k, slot, shown)
    BY LaneMoves
  <2> HIDE DEF slot
  <2> QED
    BY <1>k, <2>1 DEF Moves
<1>3. lane = Own(LastStage, k, valid, packet) \o from[LastStage - 1]
  BY <1>k, LaneSteps
<1>4. slot[LastStage] = (guard /\ (~valid[LastStage] \/ out_ready))
  <2>1. slot[LastStage] = SlotOf(slot, LastStage, guard, shown, out_ready)
    BY <1>k, SlotSteps, PipelineTypes
  <2> HIDE DEF slot
  <2> QED
    BY <2>1 DEF SlotOf
<1>5. Kept(slot, LastStage, k) = (IF delivers THEN Tail(lane) ELSE lane)
  <2> HIDE DEF slot
  <2>1. CASE delivers
    <3>1. Kept(slot, LastStage, k) = << >> \o from[LastStage - 1]
      BY <1>4, <2>1 DEF Kept
    <3>2. packet[LastStage][k] \in Chain!Tokens
      BY <1>k, <2>1, PipelineTypes
    <3>3. lane = <<packet[LastStage][k]>> \o from[LastStage - 1]
      BY <1>3, <2>1 DEF Own
    <3> DEFINE f == from[LastStage - 1]
               x == packet[LastStage][k]
    <3>4. f \in T /\ x \in Chain!Tokens /\ lane = <<x>> \o f
      BY <1>1, <3>2, <3>3
    <3> HIDE DEF f, x, from
    <3>5. Tail(<<x>> \o f) = f
      BY <3>4, InFront
    <3>6. << >> \o f = f
      BY <3>4, ConcatEmptySeq
    <3> QED
      BY <2>1, <3>1, <3>4, <3>5, <3>6 DEF f
  <2>2. CASE ~delivers
    <3>1. Kept(slot, LastStage, k) = Own(LastStage, k, valid, packet) \o from[LastStage - 1]
      BY <1>4, <2>2 DEF Kept, Own
    <3> QED
      BY <1>3, <2>2, <3>1
  <2> QED
    BY <2>1, <2>2
<1> QED
  BY <1>1, <1>2, <1>5

\* What is delivered heads every lane.
LEMMA DeliveredHeadsLanes ==
    ASSUME Chain!TypeOK, valid[LastStage], NEW k \in sources
    PROVE  LET lane == LaneFrom(k, valid, packet)[LastStage]
           IN  lane # << >> /\ Head(lane) = packet[LastStage][k]
<1> DEFINE from == LaneFrom(k, valid, packet)
           x == packet[LastStage][k]
           f == from[LastStage - 1]
<1>k. k \in Nat /\ LastStage \in Nat /\ k \in Chain!Stages /\ LastStage \in k .. LastStage
      /\ LastStage - 1 \in k - 1 .. LastStage /\ LastStage \in 0 .. LastStage /\ k <= LastStage
  BY PipelineTypes
<1>1. from[LastStage] = <<x>> \o f
  <2>1. from[LastStage] = Own(LastStage, k, valid, packet) \o f
    BY <1>k, LaneSteps
  <2> QED
    BY <2>1 DEF Own
<1>2. x \in Chain!Tokens
  BY <1>k, PipelineTypes
<1>3. f \in Seq(Chain!Tokens)
  BY <1>k, LanesAreLists
<1> HIDE DEF x, f
<1>4. <<x>> \o f # << >> /\ Head(<<x>> \o f) = x
  BY <1>2, <1>3, InFront
<1> QED
  BY <1>1, <1>4 DEF x

\* A cycle of the pipeline is a step of the join.
LEMMA CycleIsJoinStep ==
    ASSUME Chain!TypeOK, NEW reset \in BOOLEAN, NEW guard \in BOOLEAN, NEW out_ready \in BOOLEAN,
           NEW shown \in SUBSET sources, Chain!Cycle(reset, guard, shown, out_ready)
    PROVE  Chain!Join!Next
<1> DEFINE slot == Chain!SlotReady(guard, shown, out_ready)
           lanes == [k \in sources |-> Chain!Lane(k)]
           delivers == guard /\ valid[LastStage] /\ out_ready
           taken == {k \in sources : Entering(slot, k, shown) # << >>}
           token == [k \in taken |-> offer[k]]
<1>0. /\ sources' = sources /\ sources \subseteq Chain!Stages
      /\ delivered' = IF delivers THEN packet[LastStage] ELSE delivered
      /\ delivers \in BOOLEAN /\ LastStage \in 0 .. LastStage
  BY PipelineTypes DEF Chain!Cycle
<1>1. \A k \in sources : lanes[k] = LaneFrom(k, valid, packet)[LastStage]
  BY LaneIsLaneFrom
<1>2. lanes' = [k \in sources |-> LaneFrom(k, valid', packet')[LastStage]]
  BY <1>0, LaneIsLaneFrom
<1>3. Chain!Join!Yield(delivers)
  <2>1. CASE delivers
    <3>1. ASSUME NEW k \in sources PROVE lanes[k] # << >> /\ Head(lanes[k]) = packet[LastStage][k]
      BY <1>1, <2>1, DeliveredHeadsLanes
    <3>2. packet[LastStage] \in [sources \intersect (0 .. LastStage) -> Chain!Tokens]
      BY <1>0, <2>1, PipelineTypes DEF Chain!TypeOK
    <3>3. packet[LastStage] = [k \in sources |-> packet[LastStage][k]]
      BY <1>0, <3>2, PipelineTypes
    <3> HIDE DEF lanes
    <3>4. [k \in sources |-> Head(lanes[k])] = [k \in sources |-> packet[LastStage][k]]
      BY <3>1
    <3> QED
      BY <1>0, <2>1, <3>1, <3>3, <3>4 DEF Chain!Join!Yield, Chain!Join!CanDeliver, Chain!Join!Heads, lanes
  <2>2. CASE ~delivers
    BY <1>0, <2>2 DEF Chain!Join!Yield
  <2> QED
    BY <2>1, <2>2
<1>4. CASE reset
  <2>1. \A i \in Chain!Stages : ~valid'[i]
    BY <1>4 DEF Chain!Cycle
  <2>2. \A k \in sources : LaneFrom(k, valid', packet')[LastStage] = << >>
    BY <1>0, <2>1, EmptyLane
  <2>3. lanes' = [k \in sources |-> << >>]
    BY <1>2, <2>2
  <2>4. Chain!Join!Flush(delivers)
    BY <1>3, <2>3 DEF Chain!Join!Flush
  <2> QED
    BY <1>0, <2>4 DEF Chain!Join!Next
<1>5. CASE ~reset
  <2>1. Chain!Cycle(FALSE, guard, shown, out_ready)
    BY <1>5
  <2>2. ASSUME NEW k \in sources
        PROVE  LaneFrom(k, valid', packet')[LastStage]
                 = (IF delivers THEN Tail(lanes[k]) ELSE lanes[k])
                     \o (IF k \in taken THEN <<token[k]>> ELSE << >>)
    <3>1. LaneFrom(k, valid', packet')[LastStage]
            = (IF delivers THEN Tail(lanes[k]) ELSE lanes[k]) \o Entering(slot, k, shown)
      <4> DEFINE lane == LaneFrom(k, valid, packet)[LastStage]
      <4>1. LaneFrom(k, valid', packet')[LastStage]
              = (IF delivers THEN Tail(lane) ELSE lane) \o Entering(slot, k, shown)
        BY <2>1, LaneStep
      <4>2. lanes[k] = lane
        BY <1>1
      <4> HIDE DEF lane, lanes, slot
      <4> QED
        BY <4>1, <4>2
    <3>2. Entering(slot, k, shown) = IF k \in taken THEN <<token[k]>> ELSE << >>
      <4> HIDE DEF slot
      <4>1. <<offer[k]>> # << >>
        OBVIOUS
      <4> QED
        BY <4>1 DEF Entering
    <3> QED
      BY <3>1, <3>2
  <2>3. token \in [taken -> Chain!Tokens] /\ taken \in SUBSET sources
    <3>1. \A k \in taken : offer[k] \in Chain!Tokens
      BY PipelineTypes
    <3> HIDE DEF slot
    <3> QED
      BY <3>1
  <2>4. Chain!Join!Popped(delivers) = [k \in sources |-> IF delivers THEN Tail(lanes[k]) ELSE lanes[k]]
    BY DEF Chain!Join!Popped
  <2> HIDE DEF lanes, taken, token, slot
  <2>5. lanes' = [k \in sources |-> (IF delivers THEN Tail(lanes[k]) ELSE lanes[k])
                                     \o (IF k \in taken THEN <<token[k]>> ELSE << >>)]
    BY <1>2, <2>2
  <2>6. lanes' = [k \in sources |-> Chain!Join!Popped(delivers)[k]
                                     \o (IF k \in taken THEN <<token[k]>> ELSE << >>)]
    BY <2>4, <2>5
  <2>7. Chain!Join!Take(taken, delivers)
    BY <1>3, <2>3, <2>6 DEF Chain!Join!Take, lanes
  <2> QED
    BY <1>0, <2>3, <2>7 DEF Chain!Join!Next
<1> QED
  BY <1>4, <1>5

\* A pipeline that rests is one that stutters.
LEMMA JoinStutters ==
    ASSUME UNCHANGED pipeline PROVE UNCHANGED Chain!Join!vars
<1>1. /\ sources' = sources /\ valid' = valid /\ packet' = packet /\ delivered' = delivered
  BY DEF pipeline
<1>2. \A k : Chain!Lane(k)' = Chain!Lane(k)
  BY <1>1 DEF Chain!Lane
<1> QED
  BY <1>1, <1>2 DEF Chain!Join!vars

\* An empty pipeline is an empty join.
LEMMA JoinInit == Chain!Init => Chain!Join!Init
<1> SUFFICES ASSUME Chain!Init PROVE Chain!Join!Init
  OBVIOUS
<1>1. \A i \in Chain!Stages : ~valid[i]
  BY DEF Chain!Init
<1>2. \A k \in sources : Chain!Lane(k) = << >>
  BY <1>1, EmptyLane, LaneIsLaneFrom DEF Chain!Init
<1> QED
  BY <1>2 DEF Chain!Init, Chain!Join!Init, Chain!Cleared

\* Whatever stages read consuming signals, and whatever stalls, bubbles and resets occur,
\* the circuit of append_pipeline_rtl is a join, however many stages it has: the n-th token
\* of one source since the reset leaves with the n-th token of every other.
THEOREM PipelineAlwaysJoins == TrafficSpec => ImplementsJoin
<1>1. TrafficInit => Chain!TypeOK /\ Chain!Join!Init
  BY PipelineTypeInit, JoinInit DEF TrafficInit
<1>2. Chain!TypeOK /\ [TrafficNext]_<<clocked, vars, pipeline>>
        => Chain!TypeOK' /\ [Chain!Join!Next]_(Chain!Join!vars)
  <2> SUFFICES ASSUME Chain!TypeOK, [TrafficNext]_<<clocked, vars, pipeline>>
               PROVE  Chain!TypeOK' /\ [Chain!Join!Next]_(Chain!Join!vars)
    OBVIOUS
  <2>1. CASE ClockPipeline
    <3>1. Chain!Next
      BY <2>1 DEF ClockPipeline
    <3>2. PICK reset \in BOOLEAN, guard \in BOOLEAN, out_ready \in BOOLEAN,
               shown \in SUBSET sources : Chain!Cycle(reset, guard, shown, out_ready)
      BY <3>1 DEF Chain!Next
    <3> QED
      BY <3>2, PipelineTypeStep, CycleIsJoinStep
  <2>2. CASE UNCHANGED pipeline
    <3>1. Chain!TypeOK'
      BY <2>2 DEF pipeline, Chain!TypeOK
    <3> QED
      BY <2>2, <3>1, JoinStutters
  <2> QED
    BY <2>1, <2>2 DEF TrafficNext, ClockFabric
<1> QED
  BY <1>1, <1>2, PTL DEF TrafficSpec, ImplementsJoin, Chain!ImplementsJoin, Chain!Join!Spec
=============================================================================
