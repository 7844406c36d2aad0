---------------------------- MODULE BackEndProofs ----------------------------
(***************************************************************************)
(* Proofs about the parts of the compiler module BackEnd composes: the     *)
(* laws of a route, the arenas of the RTL model, the settling of an fsm    *)
(* and the codes of its states, the names the model is written with and    *)
(* the lowering of a pipeline.                                             *)
(***************************************************************************)
EXTENDS BackEnd, Integers, FiniteSets, SequenceTheorems, FiniteSetTheorems,
        NaturalsInduction, WellFoundedInduction, TLAPS

-----------------------------------------------------------------------------
(* Facts about lists and numbers. *)

\* A set of natural numbers that is not empty has a least member.
LEMMA LeastNumber ==
    ASSUME NEW S \in SUBSET Nat, S # {}
    PROVE  \E x \in S : \A y \in S : x <= y
<1> DEFINE R == {ss \in Nat \X Nat : ss[1] < ss[2]}
<1>1. IsWellFoundedOn(R, Nat)
  BY NatLessThanWellFounded DEF OpToRel
<1> HIDE DEF R
<1>2. PICK x \in S : \A y \in S : ~(<<y, x>> \in R)
  BY <1>1, WFMin
<1>3. \A y \in S : <<y, x>> \in R <=> y < x
  BY DEF R
<1>4. \A y \in S : x <= y
  <2> TAKE y \in S
  <2>1. x \in Nat /\ y \in Nat /\ ~(y < x)
    BY <1>2, <1>3
  <2> QED
    BY <2>1
<1> QED
  BY <1>4

\* An arena is a list of records whatever they are.
IsList(arena) == \E R : arena \in Seq(R)

\* The constructors keep an arena a list.
LEMMA ListGrows == ASSUME NEW arena, NEW record, IsList(arena)
                   PROVE  IsList(Append(arena, record))
<1>1. PICK R : arena \in Seq(R)
  BY DEF IsList
<1>2. arena \in Seq(R \cup {record}) /\ record \in R \cup {record}
  BY <1>1
<1>3. Append(arena, record) \in Seq(R \cup {record})
  BY <1>2
<1> QED
  BY <1>3 DEF IsList

\* A record appended to an arena takes the place after its last one.
LEMMA ListAppended ==
    ASSUME NEW arena, NEW record, IsList(arena)
    PROVE  LET longer == Append(arena, record)
           IN  /\ IsList(longer)
               /\ Len(arena) \in Nat /\ Len(longer) = Len(arena) + 1
               /\ DOMAIN arena = 1 .. Len(arena) /\ DOMAIN longer = 1 .. Len(arena) + 1
               /\ longer[Len(arena) + 1] = record
               /\ \A i \in 1 .. Len(arena) : longer[i] = arena[i]
<1>1. PICK R : arena \in Seq(R)
  BY DEF IsList
<1>2. arena \in Seq(R \cup {record}) /\ record \in R \cup {record}
  BY <1>1
<1>3. IsList(Append(arena, record))
  BY ListGrows
<1>4. /\ Len(arena) \in Nat /\ DOMAIN arena = 1 .. Len(arena)
  BY <1>2
<1>5. /\ Len(Append(arena, record)) = Len(arena) + 1
      /\ \A i \in 1 .. Len(arena) : Append(arena, record)[i] = arena[i]
      /\ Append(arena, record)[Len(arena) + 1] = record
  BY <1>2, AppendProperties
<1>6. Append(arena, record) \in Seq(R \cup {record})
  BY <1>2
<1>7. DOMAIN Append(arena, record) = 1 .. Len(arena) + 1
  BY <1>5, <1>6
<1> QED
  BY <1>3, <1>4, <1>5, <1>7

-----------------------------------------------------------------------------
(* The ready graph. *)

\* Does the transfer list the stored signal?
Lists(t, s) == Route!Owned(s) /\ \E u \in Route!Uses(t, s) : u.roles # {}

\* A stored signal is bound to the edge of every one of the first n transfers that lists it.
OneEdge(n) ==
    \A i \in DOMAIN transfers, s \in RouteSignals : \A t \in {transfers[i]} :
        i <= n /\ Lists(t, s) => s \in DOMAIN bindings /\ bindings[s] = t.edge

\* The first n transfers obey the ownership laws.
Lawful(n) ==
    \A i \in DOMAIN transfers : \A t \in {transfers[i]} : i <= n => Route!Owns(t)

Readiness(t) == Route!ReadyDependency(t.destination[1])

\* The edge a node of the linked graph has, and the node of a transfer without it.
EdgeOf(t) == IF Readiness(t) = "downstream"
             THEN Route!Consumer(t.destination[1]) ELSE Route!NoTransfer
NodeOf(t) == [ready |-> Readiness(t), downstream |-> Route!NoTransfer]

\* The nodes of the first n transfers.
NodesOf(n) ==
    /\ Len(nodes) = n
    /\ nodes \in Seq({nodes[i] : i \in DOMAIN nodes})
    /\ \A i \in DOMAIN nodes : \A t \in {transfers[i]} : nodes[i] = NodeOf(t)

RouteInv ==
    /\ transfers \in RouteModules
    /\ at \in Nat
    /\ route_phase \in {"sweeping", "adding"} => at \in DOMAIN transfers
    /\ route_phase = "sweeping" => (single_edge => OneEdge(at - 1)) /\ nodes = << >>
    /\ route_phase \in {"adding", "linking", "linked", "published", "checked"} =>
           OneEdge(Len(transfers))
    /\ route_phase = "adding" => NodesOf(at - 1) /\ Lawful(at - 1)
    /\ route_phase \in {"linking", "linked", "published", "checked"} => Lawful(Len(transfers))
    /\ route_phase = "linking" => NodesOf(Len(transfers))
    /\ route_phase \in {"linked", "published", "checked"} =>
           /\ DOMAIN nodes = DOMAIN transfers
           /\ \A i \in DOMAIN transfers : \A t \in {transfers[i]} :
                 nodes[i].ready = Readiness(t) /\ nodes[i].downstream = EdgeOf(t)
    /\ route_phase \in {"published", "checked"} => ~Route!FindsLoop

\* A module to route is a list of transfers, each with destinations.
LEMMA RouteLists ==
    ASSUME transfers \in RouteModules
    PROVE  /\ Len(transfers) \in Nat \ {0} /\ DOMAIN transfers = 1 .. Len(transfers)
           /\ \A i \in DOMAIN transfers :
                 /\ transfers[i].destination[1] \in RouteSignals
                 /\ transfers[i].destination \in Seq(RouteSignals)
<1>1. transfers \in Seq({transfers[i] : i \in DOMAIN transfers}) \ {<< >>}
  BY RoutesAssumption
<1>2. \A i \in DOMAIN transfers : transfers[i].destination \in Seq(RouteSignals) \ {<< >>}
  BY RoutesAssumption
<1> QED
  BY <1>1, <1>2

\* The sweep binds what the transfer lists, or finds a second edge.
LEMMA SweepBinds ==
    ASSUME RouteInv, Route!Sweep, single_edge'
    PROVE  \A i \in DOMAIN transfers, s \in RouteSignals : \A t \in {transfers[i]} :
               i <= at /\ Lists(t, s) => s \in DOMAIN bindings' /\ bindings'[s] = t.edge
<1> DEFINE here == transfers[at]
           bound == {s \in RouteSignals :
                       \E u \in Route!Uses(here, s) : Route!Owned(s) /\ u.roles # {}}
<1>1. /\ bindings' = [s \in DOMAIN bindings \cup bound |->
                          IF s \in DOMAIN bindings THEN bindings[s] ELSE here.edge]
      /\ single_edge' = (single_edge /\ \A s \in bound \cap DOMAIN bindings :
                                              bindings[s] = here.edge)
      /\ transfers' = transfers
      /\ route_phase = "sweeping"
  BY DEF Route!Sweep
<1>2. \A s \in RouteSignals : Lists(here, s) <=> s \in bound
  BY DEF Lists
<1>3. OneEdge(at - 1) /\ at \in Nat
  BY <1>1 DEF RouteInv
<1> HIDE DEF bound
<1>4. SUFFICES ASSUME NEW i \in DOMAIN transfers, NEW s \in RouteSignals, i <= at,
                      Lists(transfers[i], s)
               PROVE  s \in DOMAIN bindings' /\ bindings'[s] = transfers[i].edge
  OBVIOUS
<1>5. CASE i = at
  BY <1>1, <1>2, <1>4, <1>5
<1>6. CASE i # at
  <2>1. i <= at - 1
    BY <1>3, <1>4, <1>6, RouteLists DEF RouteInv
  <2>2. s \in DOMAIN bindings /\ bindings[s] = transfers[i].edge
    BY <1>3, <1>4, <2>1 DEF OneEdge
  <2> QED
    BY <1>1, <2>2
<1> QED
  BY <1>5, <1>6

\* The sweep binds every stored signal to one edge, or finds two.
LEMMA RouteInvSweep == ASSUME RouteInv, Route!Sweep PROVE RouteInv'
<1>1. /\ transfers' = transfers /\ nodes' = nodes /\ nodes = << >> /\ route_phase = "sweeping"
      /\ at \in DOMAIN transfers /\ Len(transfers) \in Nat \ {0} /\ DOMAIN transfers = 1 .. Len(transfers)
  BY RouteLists DEF Route!Sweep, RouteInv
<1>2. CASE at < Len(transfers)
  <2>1. at' = at + 1 /\ route_phase' = "sweeping"
    BY <1>1, <1>2 DEF Route!Sweep
  <2>2. single_edge' => OneEdge(at - 1)'
    <3>1. at' - 1 = at
      BY <1>1, <2>1
    <3> QED
      BY <1>1, <3>1, SweepBinds DEF OneEdge
  <2>3. at' \in Nat /\ at' \in DOMAIN transfers
    BY <1>1, <1>2, <2>1
  <2> QED
    BY <1>1, <2>1, <2>2, <2>3 DEF RouteInv
<1>3. CASE ~(at < Len(transfers))
  <2>1. at' = 1 /\ route_phase' \in {"adding", "rejected"}
        /\ (route_phase' = "adding" => single_edge')
    BY <1>1, <1>3 DEF Route!Sweep
  <2>2. route_phase' = "adding" => OneEdge(Len(transfers))'
    BY <1>1, <1>3, <2>1, SweepBinds DEF OneEdge
  <2>3. NodesOf(at - 1)' /\ Lawful(at - 1)'
    BY <1>1, <2>1 DEF NodesOf, Lawful
  <2> QED
    BY <1>1, <2>1, <2>2, <2>3 DEF RouteInv
<1> QED
  BY <1>2, <1>3

\* A node is built from the transfer of its place, and names what it waits for.
LEMMA RouteInvAdd == ASSUME RouteInv, Route!AddNode PROVE RouteInv'
<1>1. /\ transfers' = transfers /\ bindings' = bindings /\ route_phase = "adding"
      /\ at \in DOMAIN transfers /\ Len(transfers) \in Nat \ {0} /\ DOMAIN transfers = 1 .. Len(transfers)
      /\ OneEdge(Len(transfers)) /\ NodesOf(at - 1) /\ Lawful(at - 1)
      /\ transfers \in RouteModules
  BY RouteLists DEF Route!AddNode, RouteInv
<1>2. CASE route_phase' = "rejected"
  BY <1>1, <1>2 DEF RouteInv, Route!AddNode
<1>3. CASE route_phase' # "rejected"
  <2> DEFINE here == transfers[at]
  <2>1. /\ Route!Owns(here)
        /\ nodes' = Append(nodes, NodeOf(here))
        /\ at' = at + 1
        /\ route_phase' = IF at = Len(transfers) THEN "linking" ELSE "adding"
    BY <1>3 DEF Route!AddNode, NodeOf, Readiness
  <2>2. ASSUME NEW i \in DOMAIN transfers, i <= at PROVE Route!Owns(transfers[i])
    <3>1. CASE i = at
      BY <2>1, <3>1
    <3>2. CASE i # at
      <4>1. i <= at - 1
        BY <1>1, <2>2, <3>2
      <4> QED
        BY <1>1, <4>1 DEF Lawful
    <3> QED
      BY <3>1, <3>2
  <2>3. Lawful(at - 1)'
    <3>1. at' - 1 = at
      BY <1>1, <2>1
    <3> QED
      BY <1>1, <2>2, <3>1 DEF Lawful
  <2>4. /\ Len(nodes') = at
        /\ nodes' \in Seq({nodes'[i] : i \in DOMAIN nodes'})
        /\ \A i \in DOMAIN nodes' : nodes'[i] = NodeOf(transfers[i])
    <3>1. /\ Len(nodes) = at - 1
          /\ nodes \in Seq({nodes[i] : i \in DOMAIN nodes} \cup {NodeOf(here)})
          /\ NodeOf(here) \in {nodes[i] : i \in DOMAIN nodes} \cup {NodeOf(here)}
          /\ \A i \in DOMAIN nodes : nodes[i] = NodeOf(transfers[i])
      BY <1>1 DEF NodesOf
    <3> HIDE DEF here
    <3>2. /\ Len(nodes') = at /\ DOMAIN nodes' = 1 .. at /\ nodes'[at] = NodeOf(here)
          /\ \A i \in 1 .. at - 1 : nodes'[i] = nodes[i]
          /\ DOMAIN nodes = 1 .. at - 1
      <4> DEFINE S == {nodes[i] : i \in DOMAIN nodes} \cup {NodeOf(here)}
      <4>1. nodes \in Seq(S) /\ NodeOf(here) \in S /\ Len(nodes) = at - 1 /\ at - 1 \in Nat
        BY <1>1, <3>1
      <4> HIDE DEF S
      <4>2. /\ Len(Append(nodes, NodeOf(here))) = Len(nodes) + 1
            /\ Append(nodes, NodeOf(here)) \in Seq(S)
            /\ \A i \in 1 .. Len(nodes) : Append(nodes, NodeOf(here))[i] = nodes[i]
            /\ Append(nodes, NodeOf(here))[Len(nodes) + 1] = NodeOf(here)
        BY <4>1, AppendProperties
      <4> QED
        BY <1>1, <2>1, <4>1, <4>2
    <3>3. nodes' \in Seq({nodes'[i] : i \in DOMAIN nodes'})
      <4>1. nodes' \in Seq({nodes[i] : i \in DOMAIN nodes} \cup {NodeOf(here)})
        BY <2>1, <3>1
      <4> QED
        BY <3>2, <4>1
    <3> USE DEF here
    <3> QED
      BY <1>1, <3>1, <3>2, <3>3
  <2>n. ASSUME NEW t PROVE NodeOf(t)' = NodeOf(t)
    BY DEF NodeOf, Readiness
  <2>5. NodesOf(at - 1)'
    <3>1. at' - 1 = at
      BY <1>1, <2>1
    <3>2. \A i \in DOMAIN nodes' : \A t \in {transfers'[i]} : nodes'[i] = NodeOf(t)'
      BY <1>1, <2>4, <2>n
    <3> QED
      BY <2>4, <3>1, <3>2 DEF NodesOf
  <2>6. OneEdge(Len(transfers))'
    BY <1>1 DEF OneEdge
  <2>7. CASE at = Len(transfers)
    <3>1. NodesOf(Len(transfers))' /\ Lawful(Len(transfers))'
      <4>1. at' - 1 = Len(transfers)'
        BY <1>1, <2>1, <2>7
      <4> QED
        BY <2>3, <2>5, <4>1 DEF NodesOf, Lawful
    <3> QED
      BY <1>1, <2>1, <2>6, <2>7, <3>1 DEF RouteInv
  <2>8. CASE at # Len(transfers)
    <3>1. at + 1 \in DOMAIN transfers /\ at + 1 \in Nat
      BY <1>1, <2>8
    <3> QED
      BY <3>1, <1>1, <2>1, <2>3, <2>5, <2>6, <2>8 DEF RouteInv
  <2> QED
    BY <2>7, <2>8
<1> QED
  BY <1>2, <1>3

\* Once the nodes are there, no later phase of the router changes what they say.
LEMMA RouteInvLater ==
    ASSUME RouteInv, Route!NameEdges \/ Route!Publish \/ Route!Check PROVE RouteInv'
<1>1. /\ transfers' = transfers /\ bindings' = bindings /\ at' = at
      /\ transfers \in RouteModules /\ at \in Nat
      /\ Len(transfers) \in Nat /\ DOMAIN transfers = 1 .. Len(transfers)
      /\ OneEdge(Len(transfers)) /\ Lawful(Len(transfers))
  BY RouteLists DEF Route!NameEdges, Route!Publish, Route!Check, RouteInv
<1>2. OneEdge(Len(transfers))' /\ Lawful(Len(transfers))'
  BY <1>1 DEF OneEdge, Lawful
<1>3. CASE Route!NameEdges
  <2>1. ASSUME NEW s PROVE Route!Consumer(s)' = Route!Consumer(s)
    BY <1>1 DEF Route!Consumer, Route!Reads
  <2>2. /\ DOMAIN nodes' = DOMAIN nodes /\ DOMAIN nodes = DOMAIN transfers
        /\ \A i \in DOMAIN nodes : nodes[i] = NodeOf(transfers[i])
    BY <1>1, <1>3 DEF Route!NameEdges, RouteInv, NodesOf
  <2>3. ASSUME NEW i \in DOMAIN transfers
        PROVE  /\ nodes'[i].ready = Readiness(transfers[i])
               /\ nodes'[i].downstream = EdgeOf(transfers[i])
    <3>1. nodes'[i] = IF nodes[i].ready = "downstream"
                      THEN [nodes[i] EXCEPT !.downstream =
                                Route!Consumer(transfers[i].destination[1])]
                      ELSE nodes[i]
      BY <1>3, <2>2 DEF Route!NameEdges
    <3>2. nodes[i] = NodeOf(transfers[i])
      BY <2>2
    <3> QED
      BY <3>1, <3>2 DEF NodeOf, EdgeOf
  <2>4. ASSUME NEW t PROVE Readiness(t)' = Readiness(t) /\ EdgeOf(t)' = EdgeOf(t)
    BY <2>1 DEF Readiness, EdgeOf
  <2>5. \A i \in DOMAIN transfers' : \A t \in {transfers'[i]} :
            nodes'[i].ready = Readiness(t)' /\ nodes'[i].downstream = EdgeOf(t)'
    BY <1>1, <2>3, <2>4
  <2> QED
    BY <1>1, <1>2, <1>3, <2>2, <2>5 DEF RouteInv, Route!NameEdges
<1>4. CASE Route!Publish \/ Route!Check
  <2>1. ASSUME NEW s PROVE Route!Consumer(s)' = Route!Consumer(s)
    BY <1>1 DEF Route!Consumer, Route!Reads
  <2>2. ASSUME NEW t PROVE Readiness(t)' = Readiness(t) /\ EdgeOf(t)' = EdgeOf(t)
    BY <2>1 DEF Readiness, EdgeOf
  <2>3. /\ nodes' = nodes /\ DOMAIN nodes = DOMAIN transfers
        /\ \A i \in DOMAIN transfers : \A t \in {transfers[i]} :
              nodes[i].ready = Readiness(t) /\ nodes[i].downstream = EdgeOf(t)
    BY <1>4 DEF Route!Publish, Route!Check, RouteInv
  <2>4. \A i \in DOMAIN transfers' : \A t \in {transfers'[i]} :
            nodes'[i].ready = Readiness(t)' /\ nodes'[i].downstream = EdgeOf(t)'
    BY <1>1, <2>2, <2>3
  <2>5. route_phase' # "rejected" => ~Route!FindsLoop
    BY <1>4 DEF Route!Publish, Route!Check
  <2>6. Route!FindsLoop' <=> Route!FindsLoop
    BY <2>3 DEF Route!FindsLoop, Route!Downstream
  <2> QED
    BY <1>1, <1>2, <1>4, <2>3, <2>4, <2>5, <2>6 DEF RouteInv, Route!Publish, Route!Check
<1> QED
  BY <1>3, <1>4

\* So the invariant of the router holds.
LEMMA RouteInvAlways == Route!Spec => []RouteInv
<1>1. Route!Init => RouteInv
  BY RouteLists DEF Route!Init, RouteInv, OneEdge
<1>2. ASSUME RouteInv, UNCHANGED Route!vars PROVE RouteInv'
  <2>0. /\ transfers' = transfers /\ bindings' = bindings /\ at' = at /\ nodes' = nodes
        /\ route_phase' = route_phase /\ single_edge' = single_edge
    BY <1>2 DEF Route!vars
  <2>1. ASSUME NEW s PROVE Route!Consumer(s)' = Route!Consumer(s)
    BY <2>0 DEF Route!Consumer, Route!Reads
  <2>2. ASSUME NEW t PROVE Readiness(t)' = Readiness(t) /\ EdgeOf(t)' = EdgeOf(t)
    BY <2>1 DEF Readiness, EdgeOf
  <2>3. ASSUME NEW t PROVE NodeOf(t)' = NodeOf(t)
    BY DEF NodeOf, Readiness
  <2>4. ASSUME NEW n PROVE /\ OneEdge(n)' = OneEdge(n) /\ Lawful(n)' = Lawful(n)
                           /\ NodesOf(n)' = NodesOf(n)
    BY <2>0, <2>3 DEF OneEdge, Lawful, NodesOf
  <2>5. Route!FindsLoop' <=> Route!FindsLoop
    BY <2>0 DEF Route!FindsLoop, Route!Downstream
  <2> QED
    BY <1>2, <2>0, <2>2, <2>4, <2>5 DEF RouteInv
<1> QED
  BY <1>1, <1>2, RouteInvSweep, RouteInvAdd, RouteInvLater, PTL DEF Route!Spec, Route!Next

\* The laws route.c asks of single transfers make the route of every accepted module
\* lawful as a whole: one clock edge per stored signal, no transfer that feeds itself,
\* and, where every stored signal has one reader, no two transfers that wait for each other.
THEOREM RouteAlwaysLawful == Route!Spec => []LawfulRoute
<1>1. ASSUME RouteInv, Route!Accepted PROVE LawfulRoute
  <2>0. /\ OneEdge(Len(transfers)) /\ Lawful(Len(transfers)) /\ ~Route!FindsLoop
        /\ DOMAIN nodes = DOMAIN transfers
        /\ \A i \in DOMAIN transfers :
              nodes[i].ready = Readiness(transfers[i]) /\ nodes[i].downstream = EdgeOf(transfers[i])
        /\ Len(transfers) \in Nat /\ DOMAIN transfers = 1 .. Len(transfers)
        /\ \A i \in DOMAIN transfers :
              /\ transfers[i].destination[1] \in RouteSignals
              /\ transfers[i].destination \in Seq(RouteSignals)
    BY <1>1, RouteLists DEF RouteInv, Route!Accepted
  <2>1. ASSUME NEW i \in DOMAIN transfers, NEW j \in DOMAIN transfers, NEW s \in RouteSignals,
               Route!Owned(s),
               \E u \in Route!Uses(transfers[i], s) : u.roles # {},
               \E u \in Route!Uses(transfers[j], s) : u.roles # {}
        PROVE  transfers[i].edge = transfers[j].edge
    <3>1. Lists(transfers[i], s) /\ Lists(transfers[j], s)
      BY <2>1 DEF Lists
    <3>2. i <= Len(transfers) /\ j <= Len(transfers)
      BY <2>0
    <3> QED
      BY <2>0, <3>1, <3>2 DEF OneEdge
  <2>2. ASSUME NEW i \in DOMAIN transfers, NEW s \in Route!Range(transfers[i].destination),
               transfers[i].uses # {}, Route!Owned(s), Route!Reads(transfers[i], s)
        PROVE  FALSE
    <3>1. Route!Owns(transfers[i])
      BY <2>0 DEF Lawful
    <3>2. s \in RouteSignals
      BY <2>0, <2>2 DEF Route!Range
    <3>3. PICK u \in Route!Uses(transfers[i], s) : "consumer" \in u.roles
      BY <2>2, <3>1, <3>2 DEF Route!Owns, Route!HasRole
    <3>4. u \in transfers[i].uses /\ u.signal = s
      BY <3>3 DEF Route!Uses
    <3>5. "producer" \in u.roles
      BY <2>2, <3>1, <3>4 DEF Route!Owns
    <3> QED
      BY <3>1, <3>3, <3>4, <3>5 DEF Route!Owns
  <2>3. ASSUME \A i, j \in DOMAIN transfers, s \in RouteSignals :
                   Route!Reads(transfers[i], s) /\ Route!Reads(transfers[j], s) => i = j,
               NEW i \in DOMAIN transfers, NEW j \in DOMAIN transfers,
               Route!Waits(i, j), Route!Waits(j, i)
        PROVE  FALSE
    <3>1. ASSUME NEW a \in DOMAIN transfers, NEW b \in DOMAIN transfers, Route!Waits(a, b)
          PROVE  Route!Downstream(a) = b
      <4> DEFINE s == transfers[a].destination[1]
                 readers == {k \in DOMAIN transfers : Route!Reads(transfers[k], s)}
      <4>1. Readiness(transfers[a]) = "downstream" /\ b \in readers
        BY <3>1 DEF Route!Waits, Readiness
      <4>2. readers = {b}
        BY <2>0, <2>3, <4>1
      <4>3. b <= b
        BY <2>0
      <4>4. Route!Consumer(s) = CHOOSE k \in readers : \A l \in readers : k <= l
        BY <4>1 DEF Route!Consumer
      <4> HIDE DEF readers
      <4>5. Route!Consumer(s) = b
        BY <4>2, <4>3, <4>4
      <4> QED
        BY <2>0, <4>1, <4>5 DEF Route!Downstream, EdgeOf
    <3>2. Route!Downstream(i) = j /\ Route!Downstream(j) = i
      BY <2>3, <3>1
    <3>3. j # Route!NoTransfer
      BY <2>0 DEF Route!NoTransfer
    <3> QED
      BY <2>0, <3>2, <3>3 DEF Route!FindsLoop
  <2> QED
    BY <2>1, <2>2, <2>3 DEF LawfulRoute, Route!LawfulRoute
<1>2. RouteInv => LawfulRoute
  BY <1>1 DEF LawfulRoute, Route!LawfulRoute
<1> QED
  BY <1>2, RouteInvAlways, PTL

-----------------------------------------------------------------------------
(* The arenas of the RTL model. *)

RangeSet == [first : Nat, count : Nat]
RangesOfModule == [Rtl!Kinds -> RangeSet]

\* The records of an arena name modules that exist, and the range a module has of it
\* holds exactly the places of the records that name the module.
Partitioned(kind, arena, given) ==
    /\ IsList(arena)
    /\ \A i \in DOMAIN arena : arena[i].module \in DOMAIN given
    /\ \A m \in DOMAIN given :
          /\ given[m][kind].first + given[m][kind].count <= Len(arena)
          /\ \A i \in DOMAIN arena :
                arena[i].module = m <=>
                    (/\ given[m][kind].first < i
                     /\ i <= given[m][kind].first + given[m][kind].count)

RangeInv ==
    /\ modules \in Seq(RangesOfModule)
    /\ Partitioned("objects", objects, modules)
    /\ Partitioned("equations", equations, modules)
    /\ Partitioned("instances", instances, modules)
    /\ Partitioned("processes", processes, modules)

\* Appending a record of the module whose range ends the arena lengthens that range by
\* the record, and leaves the ranges of the other modules exact.
LEMMA AppendedAtEnd ==
    ASSUME NEW kind \in Rtl!Kinds,
           modules \in Seq(RangesOfModule), NEW arena, Partitioned(kind, arena, modules),
           NEW m \in DOMAIN modules, NEW record, record.module = m,
           modules[m][kind].first + modules[m][kind].count = Len(arena)
    PROVE  Partitioned(kind, Append(arena, record), Rtl!Grown(m, kind))
<1> DEFINE longer == Append(arena, record)
           grown == Rtl!Grown(m, kind)
<1>1. IsList(longer)
  BY ListGrows DEF Partitioned
<1>2. /\ Len(arena) \in Nat /\ Len(longer) = Len(arena) + 1
      /\ DOMAIN arena = 1 .. Len(arena) /\ DOMAIN longer = 1 .. Len(arena) + 1
      /\ longer[Len(arena) + 1] = record
      /\ \A i \in 1 .. Len(arena) : longer[i] = arena[i]
  <2>1. PICK R : arena \in Seq(R)
    BY DEF Partitioned, IsList
  <2>2. arena \in Seq(R \cup {record}) /\ record \in R \cup {record}
    BY <2>1
  <2> QED
    BY <2>2, AppendProperties
<1>3. /\ DOMAIN grown = DOMAIN modules
      /\ \A n \in DOMAIN modules : /\ modules[n][kind] \in RangeSet
                                   /\ n # m => grown[n] = modules[n]
      /\ grown[m][kind].first = modules[m][kind].first
      /\ grown[m][kind].count = modules[m][kind].count + 1
  BY DEF Rtl!Grown, Rtl!Longer, Rtl!Range, RangesOfModule, RangeSet
<1>4. \A i \in DOMAIN longer : longer[i].module \in DOMAIN grown
  BY <1>2, <1>3 DEF Partitioned
<1>5. ASSUME NEW n \in DOMAIN modules
      PROVE  /\ grown[n][kind].first + grown[n][kind].count <= Len(longer)
             /\ \A i \in DOMAIN longer :
                   longer[i].module = n <=>
                       (/\ grown[n][kind].first < i
                        /\ i <= grown[n][kind].first + grown[n][kind].count)
  <2> DEFINE f == modules[n][kind].first
             c == modules[n][kind].count
  <2>1. /\ f \in Nat /\ c \in Nat /\ f + c <= Len(arena)
        /\ \A i \in DOMAIN arena : arena[i].module = n <=> (f < i /\ i <= f + c)
    BY <1>3 DEF Partitioned, RangeSet
  <2>2. CASE n = m
    <3>1. f + c = Len(arena) /\ grown[n][kind].first = f /\ grown[n][kind].count = c + 1
      BY <1>3, <2>2
    <3> HIDE DEF f, c, grown, longer
    <3> QED
      BY <1>2, <2>1, <2>2, <3>1
  <2>3. CASE n # m
    <3>1. grown[n][kind].first = f /\ grown[n][kind].count = c
      BY <1>3, <2>3
    <3> HIDE DEF f, c, grown, longer
    <3> QED
      BY <1>2, <2>1, <2>3, <3>1
  <2> QED
    BY <2>2, <2>3
<1> HIDE DEF longer, grown
<1>6. Partitioned(kind, longer, grown)
  BY <1>1, <1>3, <1>4, <1>5 DEF Partitioned
<1> QED
  BY <1>6 DEF longer, grown

\* Lengthening one range leaves the others as they were.
LEMMA OthersKept ==
    ASSUME NEW kind \in Rtl!Kinds,
           NEW other \in Rtl!Kinds, other # kind,
           modules \in Seq(RangesOfModule), NEW arena, Partitioned(other, arena, modules),
           NEW m \in DOMAIN modules
    PROVE  Partitioned(other, arena, Rtl!Grown(m, kind))
<1> DEFINE grown == Rtl!Grown(m, kind)
<1>1. DOMAIN grown = DOMAIN modules /\ \A n \in DOMAIN modules : grown[n][other] = modules[n][other]
  BY DEF Rtl!Grown, Rtl!Longer, Rtl!Range, RangesOfModule, RangeSet
<1> HIDE DEF grown
<1>2. Partitioned(other, arena, grown)
  BY <1>1 DEF Partitioned
<1> QED
  BY <1>2 DEF grown

\* The type of the ranges.
LEMMA RangesGrow ==
    ASSUME NEW kind \in Rtl!Kinds,
           modules \in Seq(RangesOfModule), NEW m \in DOMAIN modules
    PROVE  Rtl!Grown(m, kind) \in Seq(RangesOfModule)
<1>1. ASSUME NEW n \in DOMAIN modules PROVE Rtl!Grown(m, kind)[n] \in RangesOfModule
  BY <1>1 DEF Rtl!Grown, Rtl!Longer, Rtl!Range, RangesOfModule, RangeSet
<1>2. /\ Len(modules) \in Nat /\ DOMAIN modules = 1 .. Len(modules)
      /\ Rtl!Grown(m, kind) = [n \in DOMAIN modules |-> Rtl!Grown(m, kind)[n]]
  BY DEF Rtl!Grown
<1> HIDE DEF Rtl!Grown
<1> QED
  BY <1>1, <1>2

\* A new module starts with an empty range at the end of every arena.
LEMMA ModuleAppended ==
    ASSUME NEW kind \in Rtl!Kinds,
           modules \in Seq(RangesOfModule), NEW arena, Partitioned(kind, arena, modules),
           NEW new \in RangesOfModule, new[kind] = Rtl!Empty(arena)
    PROVE  Partitioned(kind, arena, Append(modules, new))
<1> DEFINE longer == Append(modules, new)
           last == Len(modules) + 1
<1>1. /\ Len(modules) \in Nat /\ DOMAIN modules = 1 .. Len(modules) /\ DOMAIN longer = 1 .. last
      /\ longer[last] = new /\ \A n \in DOMAIN modules : longer[n] = modules[n]
  BY AppendProperties
<1>2. Len(arena) \in Nat /\ DOMAIN arena = 1 .. Len(arena)
  BY DEF Partitioned, IsList
<1>3. new[kind].first = Len(arena) /\ new[kind].count = 0
  BY DEF Rtl!Empty, Rtl!Range
<1>4. \A i \in DOMAIN arena : arena[i].module \in DOMAIN modules
  BY DEF Partitioned
<1> HIDE DEF longer
<1>5. ASSUME NEW n \in DOMAIN longer
      PROVE  /\ longer[n][kind].first + longer[n][kind].count <= Len(arena)
             /\ \A i \in DOMAIN arena :
                   arena[i].module = n <=>
                       (/\ longer[n][kind].first < i
                        /\ i <= longer[n][kind].first + longer[n][kind].count)
  <2>1. CASE n = last
    BY <1>1, <1>2, <1>3, <1>4, <2>1
  <2>2. CASE n # last
    BY <1>1, <1>2, <2>2 DEF Partitioned
  <2> QED
    BY <2>1, <2>2
<1>6. Partitioned(kind, arena, longer)
  BY <1>1, <1>4, <1>5 DEF Partitioned
<1> QED
  BY <1>6 DEF longer

\* No module has a record before one is made.
LEMMA RangeInvInit == Rtl!Init => RangeInv
<1> SUFFICES ASSUME Rtl!Init PROVE RangeInv
  OBVIOUS
<1>1. << >> \in Seq(RangesOfModule)
  OBVIOUS
<1>2. IsList(<< >>)
  BY <1>1 DEF IsList
<1>3. \A kind \in Rtl!Kinds : Partitioned(kind, << >>, << >>)
  BY <1>2 DEF Partitioned
<1> QED
  BY <1>1, <1>3 DEF Rtl!Init, Rtl!Kinds, RangeInv

\* Every constructor leaves the ranges of all modules exact: its record goes to the end of
\* an arena only if the range of its module ends there.
LEMMA RangeInvStep == ASSUME RangeInv, [Rtl!Next]_(Rtl!vars) PROVE RangeInv'
<1>k. /\ "objects" \in Rtl!Kinds /\ "equations" \in Rtl!Kinds
      /\ "instances" \in Rtl!Kinds /\ "processes" \in Rtl!Kinds
  BY DEF Rtl!Kinds
<1>i. /\ modules \in Seq(RangesOfModule)
      /\ Partitioned("objects", objects, modules)
      /\ Partitioned("equations", equations, modules)
      /\ Partitioned("instances", instances, modules)
      /\ Partitioned("processes", processes, modules)
  BY DEF RangeInv
<1>n. ASSUME /\ modules' \in Seq(RangesOfModule)
             /\ Partitioned("objects", objects', modules')
             /\ Partitioned("equations", equations', modules')
             /\ Partitioned("instances", instances', modules')
             /\ Partitioned("processes", processes', modules')
      PROVE  RangeInv'
  BY <1>n DEF RangeInv, Partitioned, IsList
<1>u. CASE UNCHANGED <<modules, objects, equations, instances, processes>>
  BY <1>u, <1>i, <1>n
<1>1. CASE Rtl!InternType \/ Rtl!AddLiteral \/ Rtl!AddRead \/ Rtl!AddNode \/ Rtl!AddUpdate
  BY <1>1, <1>u DEF Rtl!InternType, Rtl!AddLiteral, Rtl!AddRead, Rtl!AddNode, Rtl!AddUpdate,
                    Rtl!Appended
<1>2. CASE Rtl!AddModule
  <2> DEFINE new == [objects |-> Rtl!Empty(objects), equations |-> Rtl!Empty(equations),
                     instances |-> Rtl!Empty(instances), processes |-> Rtl!Empty(processes)]
  <2>1. /\ modules' = Append(modules, new)
        /\ objects' = objects /\ equations' = equations
        /\ instances' = instances /\ processes' = processes
    BY <1>2 DEF Rtl!AddModule
  <2>2. /\ new["objects"] = Rtl!Empty(objects) /\ new["equations"] = Rtl!Empty(equations)
        /\ new["instances"] = Rtl!Empty(instances) /\ new["processes"] = Rtl!Empty(processes)
    OBVIOUS
  <2>3. /\ Rtl!Empty(objects) \in RangeSet /\ Rtl!Empty(equations) \in RangeSet
        /\ Rtl!Empty(instances) \in RangeSet /\ Rtl!Empty(processes) \in RangeSet
    <3>1. ASSUME NEW arena, IsList(arena) PROVE Rtl!Empty(arena) \in RangeSet
      BY <3>1 DEF Rtl!Empty, Rtl!Range, RangeSet, IsList
    <3> QED
      BY <1>i, <3>1 DEF Partitioned
  <2>4. new \in RangesOfModule
    BY <2>3 DEF RangesOfModule, Rtl!Kinds
  <2> HIDE DEF new
  <2>5. modules' \in Seq(RangesOfModule)
    BY <1>i, <2>1, <2>4
  <2> QED
    BY <1>k, <1>i, <1>n, <2>1, <2>2, <2>4, <2>5, ModuleAppended
<1>3. CASE Rtl!AddObject
  <2>1. PICK m \in DOMAIN modules, type \in DOMAIN types :
          /\ Rtl!OwnsEnd(m, "objects", objects)
          /\ objects' = Append(objects, [module |-> m, type |-> type])
          /\ modules' = Rtl!Grown(m, "objects")
    BY <1>3 DEF Rtl!AddObject
  <2>2. equations' = equations /\ instances' = instances /\ processes' = processes
    BY <1>3 DEF Rtl!AddObject
  <2>3. Partitioned("objects", objects', modules')
    BY <1>k, <1>i, <2>1, AppendedAtEnd DEF Rtl!OwnsEnd
  <2> QED
    BY <1>k, <1>i, <1>n, <2>1, <2>2, <2>3, RangesGrow, OthersKept
<1>4. CASE Rtl!AddEquation
  <2>1. PICK m \in DOMAIN modules, d \in DOMAIN objects, value \in DOMAIN expressions :
          /\ Rtl!OwnsEnd(m, "equations", equations)
          /\ equations' = Append(equations, [module |-> m, destination |-> d, value |-> value])
          /\ modules' = Rtl!Grown(m, "equations")
    BY <1>4 DEF Rtl!AddEquation
  <2>2. objects' = objects /\ instances' = instances /\ processes' = processes
    BY <1>4 DEF Rtl!AddEquation
  <2>3. Partitioned("equations", equations', modules')
    BY <1>k, <1>i, <2>1, AppendedAtEnd DEF Rtl!OwnsEnd
  <2> QED
    BY <1>k, <1>i, <1>n, <2>1, <2>2, <2>3, RangesGrow, OthersKept
<1>5. CASE Rtl!AddInstance
  <2>1. PICK m \in DOMAIN modules : \E given, wired :
          /\ Rtl!OwnsEnd(m, "instances", instances)
          /\ instances' = Append(instances, [module |-> m, parameters |-> given,
                                             connections |-> wired])
          /\ modules' = Rtl!Grown(m, "instances")
    BY <1>5 DEF Rtl!AddInstance
  <2>2. PICK given, wired :
          /\ Rtl!OwnsEnd(m, "instances", instances)
          /\ instances' = Append(instances, [module |-> m, parameters |-> given,
                                             connections |-> wired])
          /\ modules' = Rtl!Grown(m, "instances")
    BY <2>1
  <2>3. objects' = objects /\ equations' = equations /\ processes' = processes
    BY <1>5 DEF Rtl!AddInstance
  <2>4. Partitioned("instances", instances', modules')
    BY <1>k, <1>i, <2>2, AppendedAtEnd DEF Rtl!OwnsEnd
  <2> QED
    BY <1>k, <1>i, <1>n, <2>2, <2>3, <2>4, RangesGrow, OthersKept
<1>6. CASE Rtl!AddProcess
  <2>1. PICK m \in DOMAIN modules, clock \in DOMAIN expressions, n \in 0 .. Len(updates) :
          /\ Rtl!OwnsEnd(m, "processes", processes)
          /\ processes' = Append(processes,
                 [module |-> m, clock |-> clock, updates |-> Rtl!Range(Len(updates) - n, n)])
          /\ modules' = Rtl!Grown(m, "processes")
    BY <1>6 DEF Rtl!AddProcess
  <2>2. objects' = objects /\ equations' = equations /\ instances' = instances
    BY <1>6 DEF Rtl!AddProcess
  <2>3. Partitioned("processes", processes', modules')
    BY <1>k, <1>i, <2>1, AppendedAtEnd DEF Rtl!OwnsEnd
  <2> QED
    BY <1>k, <1>i, <1>n, <2>1, <2>2, <2>3, RangesGrow, OthersKept
<1>7. CASE UNCHANGED Rtl!vars
  BY <1>7, <1>u DEF Rtl!vars
<1> QED
  BY <1>1, <1>2, <1>3, <1>4, <1>5, <1>6, <1>7 DEF Rtl!Next

\* However the calls of any number of callers interleave, the range of a module is exactly
\* the records that name it, in every arena of the RTL model.
THEOREM RangesAlwaysOwned == Rtl!Spec => []RangesAreOwned
<1>1. RangeInv => RangesAreOwned
  <2> SUFFICES ASSUME RangeInv, NEW m \in DOMAIN modules, NEW kind \in Rtl!Kinds, NEW arena,
                      Partitioned(kind, arena, modules)
               PROVE  Rtl!Covered(modules[m][kind]) = {i \in DOMAIN arena : arena[i].module = m}
    BY DEF RangeInv, RangesAreOwned, Rtl!RangesAreOwned, Rtl!Kinds
  <2> DEFINE first == modules[m][kind].first
             last == modules[m][kind].first + modules[m][kind].count
  <2>1. first \in Nat /\ last \in Nat
    BY DEF RangeInv, RangesOfModule, RangeSet
  <2>2. Len(arena) \in Nat /\ DOMAIN arena = 1 .. Len(arena)
    BY DEF Partitioned, IsList
  <2>3. last <= Len(arena)
        /\ \A i \in DOMAIN arena : arena[i].module = m <=> (first < i /\ i <= last)
    BY DEF Partitioned
  <2> QED
    BY <2>1, <2>2, <2>3 DEF Rtl!Covered
<1> QED
  BY <1>1, RangeInvInit, RangeInvStep, PTL DEF Rtl!Spec

\* The types are a list of descriptions, no two of which are the same.
TypeInv ==
    /\ IsList(types)
    /\ \A i \in DOMAIN types : IsList(types[i].bounds)
    /\ \A i, j \in DOMAIN types : Rtl!SameType(types[i], types[j]) => i = j

\* Being the same description does not depend on the order.
LEMMA SameTypeBack ==
    ASSUME NEW a, NEW b, IsList(a.bounds), IsList(b.bounds), Rtl!SameType(a, b)
    PROVE  Rtl!SameType(b, a)
<1>1. DOMAIN a.bounds = DOMAIN b.bounds
  <2>1. DOMAIN a.bounds = 1 .. Len(a.bounds) /\ DOMAIN b.bounds = 1 .. Len(b.bounds)
    BY DEF IsList
  <2> QED
    BY <2>1 DEF Rtl!SameType
<1> QED
  BY <1>1 DEF Rtl!SameType, Rtl!SameBound

\* A type is found or made, never twice; the other constructors leave the types alone.
LEMMA TypeInvStep == ASSUME TypeInv, [Rtl!Next]_(Rtl!vars) PROVE TypeInv'
<1>u. CASE types' = types
  BY <1>u DEF TypeInv, IsList, Rtl!SameType, Rtl!SameBound
<1>1. CASE Rtl!InternType
  <2>1. PICK law \in Laws, width \in Rtl!Bound, dimensions \in {<< >>, <<Rtl!OneBit>>} :
          /\ \A i \in DOMAIN types :
                ~Rtl!SameType(types[i], [law |-> law, bounds |-> <<width>> \o dimensions])
          /\ types' = Append(types, [law |-> law, bounds |-> <<width>> \o dimensions])
    BY <1>1 DEF Rtl!InternType
  <2> DEFINE type == [law |-> law, bounds |-> <<width>> \o dimensions]
  <2>2. IsList(type.bounds)
    <3>0. \A x, y : <<x>> \in Seq({x, y}) /\ <<y>> \in Seq({x, y}) /\ << >> \in Seq({x, y})
      OBVIOUS
    <3>1. <<width>> \in Seq({width, Rtl!OneBit}) /\ dimensions \in Seq({width, Rtl!OneBit})
      BY <2>1, <3>0
    <3>2. <<width>> \o dimensions \in Seq({width, Rtl!OneBit})
      BY <3>1
    <3> QED
      BY <3>2 DEF IsList
  <2> HIDE DEF type
  <2>3. \A i \in DOMAIN types : ~Rtl!SameType(types[i], type)
    BY <2>1 DEF type
  <2>4. types' = Append(types, type)
    BY <2>1 DEF type
  <2>5. PICK R : types \in Seq(R)
    BY DEF TypeInv, IsList
  <2>6. types \in Seq(R \cup {type}) /\ type \in R \cup {type}
    BY <2>5
  <2>7. /\ types' \in Seq(R \cup {type})
        /\ Len(types) \in Nat /\ DOMAIN types = 1 .. Len(types)
        /\ DOMAIN types' = 1 .. Len(types) + 1
        /\ types'[Len(types) + 1] = type
        /\ \A i \in DOMAIN types : types'[i] = types[i]
    BY <2>4, <2>6, AppendProperties
  <2>8. IsList(types')
    BY <2>7 DEF IsList
  <2>9. \A i \in DOMAIN types' : IsList(types'[i].bounds)
    BY <2>2, <2>7 DEF TypeInv
  <2>10. ASSUME NEW i \in DOMAIN types', NEW j \in DOMAIN types',
                Rtl!SameType(types'[i], types'[j])
         PROVE  i = j
    <3>1. CASE i \in DOMAIN types /\ j \in DOMAIN types
      BY <2>7, <2>10, <3>1 DEF TypeInv
    <3>2. CASE i \in DOMAIN types /\ j = Len(types) + 1
      BY <2>3, <2>7, <2>10, <3>2
    <3>3. CASE i = Len(types) + 1 /\ j \in DOMAIN types
      BY <2>2, <2>3, <2>7, <2>10, <3>3, SameTypeBack DEF TypeInv
    <3>4. CASE i = Len(types) + 1 /\ j = Len(types) + 1
      BY <3>4
    <3> QED
      BY <2>7, <3>1, <3>2, <3>3, <3>4
  <2> QED
    BY <2>8, <2>9, <2>10 DEF TypeInv, IsList, Rtl!SameType, Rtl!SameBound
<1>2. CASE ~Rtl!InternType
  BY <1>2, <1>u DEF Rtl!Next, Rtl!vars, Rtl!AddLiteral, Rtl!AddRead, Rtl!AddNode, Rtl!AddUpdate,
       Rtl!Appended, Rtl!AddModule, Rtl!AddObject, Rtl!AddEquation, Rtl!AddInstance,
       Rtl!AddProcess
<1> QED
  BY <1>1, <1>2

\* No two records of the RTL model describe one type, whatever values stand beside their
\* width expressions.
THEOREM TypesAlwaysCanonical == Rtl!Spec => []TypesAreCanonical
<1>1. Rtl!Init => TypeInv
  <2>1. << >> \in Seq({})
    OBVIOUS
  <2> QED
    BY <2>1 DEF Rtl!Init, TypeInv, IsList
<1>2. TypeInv => TypesAreCanonical
  <2> DEFINE Said(t) == [k \in DOMAIN t.bounds |-> Rtl!Says(t.bounds[k])]
  <2> SUFFICES ASSUME TypeInv, NEW i \in DOMAIN types, NEW j \in DOMAIN types,
                      types[i].law = types[j].law, Said(types[i]) = Said(types[j])
               PROVE  Rtl!SameType(types[i], types[j])
    BY DEF TypesAreCanonical, Rtl!TypesAreCanonical, TypeInv
  <2> DEFINE a == types[i].bounds
             b == types[j].bounds
  <2>1. DOMAIN a = DOMAIN b /\ \A k \in DOMAIN a : Rtl!Says(a[k]) = Rtl!Says(b[k])
    <3>1. DOMAIN Said(types[i]) = DOMAIN a /\ DOMAIN Said(types[j]) = DOMAIN b
      OBVIOUS
    <3>2. \A k \in DOMAIN a : Said(types[i])[k] = Rtl!Says(a[k])
      OBVIOUS
    <3>3. \A k \in DOMAIN b : Said(types[j])[k] = Rtl!Says(b[k])
      OBVIOUS
    <3> HIDE DEF Said
    <3> QED
      BY <3>1, <3>2, <3>3
  <2>2. Len(a) = Len(b)
    <3>1. /\ Len(a) \in Nat /\ DOMAIN a = 1 .. Len(a)
          /\ Len(b) \in Nat /\ DOMAIN b = 1 .. Len(b)
      BY DEF TypeInv, IsList
    <3> HIDE DEF a, b
    <3>2. 1 .. Len(a) = 1 .. Len(b)
      BY <2>1, <3>1
    <3>3. \A m, n \in Nat : 1 .. m = 1 .. n => m = n
      <4> SUFFICES ASSUME NEW m \in Nat, NEW n \in Nat, m < n PROVE 1 .. m # 1 .. n
        OBVIOUS
      <4>1. n \in 1 .. n /\ n \notin 1 .. m
        OBVIOUS
      <4> QED
        BY <4>1
    <3> QED
      BY <3>1, <3>2, <3>3
  <2>3. ASSUME NEW x, NEW y, Rtl!Says(x) = Rtl!Says(y) PROVE Rtl!SameBound(x, y)
    <3>1. \A u, v, w, z : <<u, v>> = <<w, z>> => u = w /\ v = z
      OBVIOUS
    <3>2. CASE x.expression = Rtl!None /\ y.expression = Rtl!None
      BY <2>3, <3>1, <3>2 DEF Rtl!Says, Rtl!SameBound
    <3>3. CASE x.expression # Rtl!None /\ y.expression # Rtl!None
      BY <2>3, <3>1, <3>3 DEF Rtl!Says, Rtl!SameBound
    <3>4. CASE ~(x.expression = Rtl!None <=> y.expression = Rtl!None)
      <4>1. "value" = "expression"
        BY <2>3, <3>1, <3>4 DEF Rtl!Says
      <4> QED
        BY <4>1
    <3> QED
      BY <3>2, <3>3, <3>4
  <2> QED
    BY <2>1, <2>2, <2>3 DEF Rtl!SameType
<1> QED
  BY <1>1, <1>2, TypeInvStep, PTL DEF Rtl!Spec

-----------------------------------------------------------------------------
(* The fsm statement. *)

\* A set of places has a last one.
LEMMA LastPlace ==
    ASSUME NEW n \in Nat, NEW S \in SUBSET (1 .. n), S # {}
    PROVE  Machine!Max(S) \in S
<1> DEFINE D == {n - x : x \in S}
<1>0. \A x \in S : x \in Nat /\ n - x \in Nat
  OBVIOUS
<1>1. D \subseteq Nat /\ D # {}
  <2>1. PICK x : x \in S
    OBVIOUS
  <2>2. n - x \in D
    BY <2>1
  <2> QED
    BY <1>0, <2>2
<1>2. PICK d \in D : \A e \in D : d <= e
  BY <1>1, LeastNumber
<1>3. PICK x \in S : d = n - x
  BY <1>2
<1>4. \A y \in S : x >= y
  <2> TAKE y \in S
  <2>1. n - y \in D
    OBVIOUS
  <2> QED
    <3>1. n - x <= n - y
      BY <1>2, <1>3, <2>1
    <3> HIDE DEF D
    <3> QED
      BY <1>0, <3>1
<1> QED
  BY <1>3, <1>4 DEF Machine!Max

MachineInv ==
    /\ machine \in LoweredMachines
    /\ machine_phase \in {"lowering", "running", "clocked"} => Machine!Accepted
    /\ machine_phase = "clocked" => state \in Machine!Declared

\* Every name a state or a goto uses has a code, of a state that is declared.
LEMMA CodesAreDeclared ==
    ASSUME machine \in LoweredMachines, NEW name, Machine!Exists(name)
    PROVE  Machine!Code(name) \in Machine!Declared
<1>1. /\ Len(machine.states) \in Nat /\ DOMAIN machine.states = 1 .. Len(machine.states)
  BY MachinesAssumption
<1>2. DOMAIN Machine!Names = 1 .. Len(machine.states) /\ Len(Machine!Names) = Len(machine.states)
  BY <1>1 DEF Machine!Names
<1>3. \E i \in DOMAIN Machine!Names : Machine!Names[i] = name
  BY DEF Machine!Exists, Machine!Range
<1> QED
  BY <1>1, <1>2, <1>3 DEF Machine!Code, Machine!Declared

\* Every edge leaves the state register at a declared state: at the reset, at a goto, or as
\* it was.
LEMMA MachineInvStep ==
    ASSUME MachineInv, [Machine!Next]_(Machine!vars) PROVE MachineInv'
<1>1. machine' = machine
  BY DEF Machine!Next, Machine!vars, Machine!Establish, Machine!Lower, Machine!Clock
<1>2. /\ Machine!Accepted' <=> Machine!Accepted
      /\ Machine!Declared' = Machine!Declared
  BY <1>1 DEF Machine!Accepted, Machine!Declared, Machine!Names, Machine!Exists
<1>3. CASE Machine!Establish
  BY <1>1, <1>2, <1>3 DEF MachineInv, Machine!Establish
<1>4. CASE Machine!Lower
  BY <1>1, <1>2, <1>4 DEF MachineInv, Machine!Lower
<1>5. CASE Machine!Clock
  <2>1. Machine!Accepted /\ machine \in LoweredMachines
    BY <1>5 DEF MachineInv, Machine!Clock
  <2>2. Machine!Outside \in Machine!Declared
    BY <2>1, CodesAreDeclared DEF Machine!Outside, Machine!Accepted
  <2>3. ASSUME state \in Machine!Declared,
               NEW executed \in SUBSET DOMAIN machine.states[state + 1].gotos
        PROVE  Machine!Inside(executed) \in Machine!Declared
    <3>1. CASE executed = {}
      BY <2>3, <3>1 DEF Machine!Inside
    <3>2. CASE executed # {}
      <4> DEFINE gotos == machine.states[state + 1].gotos
      <4>1. state + 1 \in DOMAIN Machine!Names /\ state + 1 \in DOMAIN machine.states
        <5>1. Len(machine.states) \in Nat /\ DOMAIN machine.states = 1 .. Len(machine.states)
          BY <2>1, MachinesAssumption
        <5> QED
          BY <2>3, <5>1 DEF Machine!Declared, Machine!Names
      <4>2. Len(gotos) \in Nat /\ DOMAIN gotos = 1 .. Len(gotos)
        BY <2>1, <4>1, MachinesAssumption
      <4> HIDE DEF gotos
      <4>3. Machine!Max(executed) \in DOMAIN gotos
        BY <2>3, <3>2, <4>2, LastPlace DEF gotos
      <4>4. Machine!Exists(gotos[Machine!Max(executed)])
        BY <2>1, <4>1, <4>3 DEF Machine!Accepted, Machine!Range, gotos
      <4> QED
        BY <2>1, <3>2, <4>4, CodesAreDeclared DEF Machine!Inside, gotos
    <3> QED
      BY <3>1, <3>2
  <2>4. state' \in Machine!Declared
    BY <1>5, <2>2, <2>3 DEF Machine!Clock, Machine!Outside
  <2> QED
    BY <1>1, <1>2, <1>5, <2>1, <2>4 DEF MachineInv, Machine!Clock
<1>6. CASE UNCHANGED Machine!vars
  BY <1>1, <1>2, <1>6 DEF MachineInv, Machine!vars
<1> QED
  BY <1>3, <1>4, <1>5, <1>6 DEF Machine!Next

\* Whatever bits the register of an fsm powers up with, and whichever gotos execute, from
\* the first edge on it holds a declared state, for any number of states.
THEOREM MachineAlwaysSettles == Machine!Spec => []SettlesInDeclared
<1>1. Machine!Init => MachineInv
  BY DEF Machine!Init, MachineInv
<1>2. MachineInv => SettlesInDeclared
  BY DEF MachineInv, SettlesInDeclared, Machine!SettlesInDeclared
<1> QED
  BY <1>1, <1>2, MachineInvStep, PTL DEF Machine!Spec

-----------------------------------------------------------------------------
(* The RTL names. *)

\* The cardinality module RtlNames takes from its own instance is the library's.
LEMMA SameCardinality == \A S : RtlName!Cardinality(S) = Cardinality(S)
BY DEF RtlName!Cardinality, Cardinality

\* A stem has more numbers than finitely many texts can take, so the search for a free
\* one ends, with a text that is not taken.
LEMMA UniqueNameIsFree ==
    ASSUME NEW stem, NEW taken, IsFiniteSet(taken)
    PROVE  RtlName!UniqueName(stem, taken) \notin taken
<1> DEFINE c == Cardinality(taken)
           Free == {n \in 0 .. c : RtlName!Text(stem, n) \notin taken}
<1>1. c \in Nat
  BY FS_CardinalityType
<1>2. Free # {}
  <2> SUFFICES ASSUME \A n \in 0 .. c : RtlName!Text(stem, n) \in taken PROVE FALSE
    OBVIOUS
  <2> DEFINE f == [n \in 0 .. c |-> RtlName!Text(stem, n)]
  <2>1. f \in [0 .. c -> taken]
    OBVIOUS
  <2>2. IsFiniteSet(0 .. c) /\ Cardinality(0 .. c) = c + 1
    BY <1>1, FS_Interval
  <2>3. c < Cardinality(0 .. c)
    BY <1>1, <2>2
  <2> HIDE DEF f, c
  <2>4. \E x, y \in 0 .. c : x # y /\ f[x] = f[y]
    BY <2>1, <2>2, <2>3, FS_PigeonHole DEF c
  <2>5. \A x, y \in 0 .. c : f[x] = f[y] => x = y
    BY DEF f, RtlName!Text
  <2> QED
    BY <2>4, <2>5
<1>3. PICK n \in Free : \A m \in Free : n <= m
  <2>1. Free \subseteq Nat
    BY <1>1
  <2> QED
    BY <1>2, <2>1, LeastNumber
<1>4. /\ n \in 0 .. c /\ RtlName!Text(stem, n) \notin taken
      /\ \A m \in 0 .. n - 1 : RtlName!Text(stem, m) \in taken
  <2>1. n \in 0 .. c /\ RtlName!Text(stem, n) \notin taken
    OBVIOUS
  <2>2. ASSUME NEW m \in 0 .. n - 1 PROVE RtlName!Text(stem, m) \in taken
    <3>1. m \in 0 .. c /\ ~(n <= m)
      BY <1>1, <2>1
    <3> QED
      BY <1>3, <3>1
  <2> QED
    BY <2>1, <2>2
<1> QED
  BY <1>4, SameCardinality DEF RtlName!UniqueName

\* What a call has made of the arena of names so far: the names it found are in their
\* places, no role and span has two names, and the names it made up are new.
Grows(given, arena) ==
    /\ IsList(arena)
    /\ Len(given) <= Len(arena)
    /\ \A i \in 1 .. Len(given) : arena[i] = given[i]
    /\ \A i, j \in DOMAIN arena : RtlName!SameIdentity(arena[i], arena[j]) => i = j
    /\ \A i \in DOMAIN arena : i > Len(given) /\ arena[i].kind # "source" =>
          \A j \in 1 .. i - 1 : arena[j].text # arena[i].text

\* The texts of an arena are finitely many.
LEMMA TextsAreFinite ==
    ASSUME NEW arena, IsList(arena) PROVE IsFiniteSet(RtlName!TextsOf(arena))
<1> DEFINE f == [i \in DOMAIN arena |-> arena[i].text]
<1>1. DOMAIN arena = 1 .. Len(arena) /\ Len(arena) \in Nat
  BY DEF IsList
<1>2. IsFiniteSet(DOMAIN arena)
  BY <1>1, FS_Interval
<1>3. f \in Surjection(DOMAIN arena, RtlName!TextsOf(arena))
  BY DEF Surjection, RtlName!TextsOf
<1> QED
  BY <1>2, <1>3, FS_Surjection

\* One request keeps it so, whatever an unwritten place of the call holds.
LEMMA PublishGrows ==
    ASSUME NEW given, NEW acc, NEW r, NEW stale, IsFiniteSet(stale),
           Len(given) \in Nat, Grows(given, acc.arena),
           acc = [arena |-> acc.arena, reused |-> acc.reused]
    PROVE  LET next == RtlName!Publish(acc, r, stale)
           IN  /\ Grows(given, next.arena)
               /\ next = [arena |-> next.arena, reused |-> next.reused]
<1> DEFINE next == RtlName!Publish(acc, r, stale)
           arena == acc.arena
           none == {}
           taken == RtlName!TextsOf(arena) \cup (IF acc.reused THEN stale ELSE none)
           text == IF r.kind = "source" THEN Spellings[r.origin]
                   ELSE RtlName!UniqueName(r.kind, taken)
           new == [kind |-> r.kind, origin |-> r.origin, text |-> text]
<1>1. CASE RtlName!Known(r, arena)
  <2>1. next = [acc EXCEPT !.reused = TRUE]
    BY <1>1 DEF RtlName!Publish
  <2>2. next.arena = arena /\ next = [arena |-> next.arena, reused |-> next.reused]
    BY <2>1
  <2> QED
    BY <2>2
<1>2. CASE ~RtlName!Known(r, arena)
  <2>1. next = [acc EXCEPT !.arena = Append(arena, new)]
    BY <1>2 DEF RtlName!Publish
  <2> HIDE DEF new
  <2>2. next.arena = Append(arena, new) /\ next = [arena |-> next.arena, reused |-> next.reused]
    BY <2>1
  <2> DEFINE longer == Append(arena, new)
             last == Len(arena) + 1
  <2>3. IsList(arena)
    BY DEF Grows
  <2>4. /\ IsList(longer) /\ Len(arena) \in Nat /\ Len(longer) = last
        /\ DOMAIN arena = 1 .. Len(arena) /\ DOMAIN longer = 1 .. last
        /\ longer[last] = new /\ \A i \in 1 .. Len(arena) : longer[i] = arena[i]
    BY <2>3, ListAppended
  <2>5. new.kind = r.kind /\ new.origin = r.origin /\ new.text = text
    BY DEF new
  <2>6. ASSUME r.kind # "source", NEW j \in 1 .. Len(arena) PROVE arena[j].text # text
    <3>1. IsFiniteSet(IF acc.reused THEN stale ELSE none)
      BY FS_EmptySet
    <3>2. IsFiniteSet(taken)
      BY <2>3, <3>1, TextsAreFinite, FS_Union
    <3>3. text \notin taken
      BY <2>6, <3>2, UniqueNameIsFree
    <3>4. arena[j].text \in RtlName!TextsOf(arena)
      BY <2>4, <2>6 DEF RtlName!TextsOf
    <3> QED
      BY <3>3, <3>4
  <2> HIDE DEF longer, text
  <2>7. /\ Len(given) <= Len(arena) /\ \A i \in 1 .. Len(given) : arena[i] = given[i]
        /\ \A i, j \in DOMAIN arena : RtlName!SameIdentity(arena[i], arena[j]) => i = j
        /\ \A i \in DOMAIN arena : i > Len(given) /\ arena[i].kind # "source" =>
              \A j \in 1 .. i - 1 : arena[j].text # arena[i].text
    BY DEF Grows
  <2>8. \A i \in 1 .. Len(given) : longer[i] = given[i]
    BY <2>4, <2>7
  <2>9. ASSUME NEW i \in DOMAIN longer, NEW j \in DOMAIN longer,
               RtlName!SameIdentity(longer[i], longer[j])
        PROVE  i = j
    <3>1. \A k \in DOMAIN arena : ~RtlName!SameIdentity(arena[k], r)
      BY <1>2 DEF RtlName!Known
    <3>2. CASE i \in DOMAIN arena /\ j \in DOMAIN arena
      BY <2>4, <2>7, <2>9, <3>2
    <3>3. CASE i \in DOMAIN arena /\ j = last
      <4>1. RtlName!SameIdentity(arena[i], r)
        BY <2>4, <2>5, <2>9, <3>3 DEF RtlName!SameIdentity
      <4> QED
        BY <3>1, <3>3, <4>1
    <3>4. CASE i = last /\ j \in DOMAIN arena
      <4>1. RtlName!SameIdentity(arena[j], r)
        BY <2>4, <2>5, <2>9, <3>4 DEF RtlName!SameIdentity
      <4> QED
        BY <3>1, <3>4, <4>1
    <3> QED
      BY <2>4, <3>2, <3>3, <3>4
  <2>10. ASSUME NEW i \in DOMAIN longer, i > Len(given), longer[i].kind # "source",
                NEW j \in 1 .. i - 1
         PROVE  longer[j].text # longer[i].text
    <3>1. CASE i \in DOMAIN arena
      <4>1. j \in 1 .. Len(arena)
        BY <2>4, <3>1
      <4> QED
        BY <2>4, <2>7, <2>10, <3>1, <4>1
    <3>2. CASE i = last
      <4>1. j \in 1 .. Len(arena)
        BY <2>4, <3>2
      <4> QED
        BY <2>4, <2>5, <2>6, <2>10, <3>2, <4>1
    <3> QED
      BY <2>4, <3>1, <3>2
  <2>11. Grows(given, longer)
    BY <2>4, <2>7, <2>8, <2>9, <2>10 DEF Grows
  <2> QED
    BY <2>2, <2>11 DEF longer
<1> QED
  BY <1>1, <1>2

\* So does a whole call, request after request.
LEMMA AssignedGrows ==
    ASSUME NEW given, NEW requests, NEW stale, IsFiniteSet(stale),
           Len(requests) \in Nat, Len(given) \in Nat, Grows(given, given)
    PROVE  Grows(given, RtlName!Assigned(requests, given, stale))
<1> DEFINE N == Len(requests)
           base == [arena |-> given, reused |-> FALSE]
           body(g, k) == IF k = 0 THEN base
                         ELSE RtlName!Publish(g[k - 1], requests[k], stale)
           is(g, n) == g = [k \in 0 .. n |-> body(g, k)]
           after == CHOOSE g : is(g, N)
           Good(acc) == /\ Grows(given, acc.arena)
                        /\ acc = [arena |-> acc.arena, reused |-> acc.reused]
<1>1. RtlName!Assigned(requests, given, stale) = after[N].arena
  BY DEF RtlName!Assigned
<1>2. \A n \in 0 .. N : \E g : is(g, n)
  <2> DEFINE Bad == {n \in 0 .. N : ~\E g : is(g, n)}
  <2> SUFFICES ASSUME Bad # {} PROVE FALSE
    OBVIOUS
  <2>1. PICK n \in Bad : \A m \in Bad : n <= m
    <3>1. Bad \subseteq Nat
      OBVIOUS
    <3> HIDE DEF Bad
    <3> QED
      BY <3>1, LeastNumber
  <2>2. CASE n = 0
    <3> DEFINE g == [k \in 0 .. n |-> base]
    <3>1. \A k \in 0 .. n : body(g, k) = base
      BY <2>2
    <3>2. is(g, n)
      BY <3>1
    <3> HIDE DEF is
    <3> QED
      BY <2>1, <3>2
  <2>3. CASE n # 0
    <3>1. n \in Nat /\ n - 1 \in 0 .. N /\ n - 1 < n
      BY <2>1, <2>3
    <3>2. n - 1 \notin Bad
      <4>1. ~(n <= n - 1)
        BY <3>1
      <4> HIDE DEF Bad
      <4> QED
        BY <2>1, <4>1
    <3>3. PICK g : is(g, n - 1)
      BY <3>1, <3>2
    <3> DEFINE h == [k \in 0 .. n |-> IF k < n THEN g[k]
                                      ELSE RtlName!Publish(g[n - 1], requests[n], stale)]
    <3>4. ASSUME NEW k \in 0 .. n PROVE h[k] = body(h, k)
      <4>1. CASE k < n
        <5>1. k \in 0 .. n - 1 /\ h[k] = g[k]
          BY <3>1, <4>1
        <5>2. g[k] = body(g, k)
          BY <3>3, <5>1
        <5>3. k # 0 => h[k - 1] = g[k - 1]
          BY <3>1, <5>1
        <5> HIDE DEF h
        <5> QED
          BY <5>1, <5>2, <5>3
      <4>2. CASE k = n
        <5>1. h[n - 1] = g[n - 1]
          BY <3>1
        <5>2. h[n] = RtlName!Publish(g[n - 1], requests[n], stale)
          BY <3>1
        <5> HIDE DEF h
        <5> QED
          BY <2>3, <4>2, <5>1, <5>2
      <4> QED
        BY <3>1, <4>1, <4>2
    <3>5. DOMAIN h = 0 .. n /\ h = [k \in 0 .. n |-> h[k]]
      OBVIOUS
    <3>6. is(h, n)
      <4> HIDE DEF h, body
      <4> QED
        BY <3>4, <3>5
    <3> HIDE DEF is, h
    <3> QED
      BY <2>1, <3>6
  <2> QED
    BY <2>2, <2>3
<1>3. is(after, N)
  <2>1. \E g : is(g, N)
    BY <1>2
  <2> HIDE DEF is
  <2> QED
    BY <2>1
<1>4. \A k \in 0 .. N : after[k] = body(after, k)
  <2> HIDE DEF after, body
  <2> QED
    BY <1>3
<1> HIDE DEF after
<1>5. \A k \in 0 .. N : Good(after[k])
  <2> DEFINE Bad == {k \in 0 .. N : ~Good(after[k])}
  <2> HIDE DEF Good
  <2> SUFFICES ASSUME Bad # {} PROVE FALSE
    OBVIOUS
  <2>1. PICK k \in Bad : \A m \in Bad : k <= m
    <3>1. Bad \subseteq Nat
      OBVIOUS
    <3> HIDE DEF Bad
    <3> QED
      BY <3>1, LeastNumber
  <2>2. CASE k = 0
    <3>1. after[k] = base
      BY <1>4, <2>1, <2>2
    <3>2. Good(base)
      BY DEF Good
    <3> QED
      BY <2>1, <3>1, <3>2
  <2>3. CASE k # 0
    <3>1. k - 1 \in 0 .. N /\ ~(k <= k - 1)
      BY <2>1, <2>3
    <3>2. Good(after[k - 1])
      BY <2>1, <3>1
    <3>3. after[k] = RtlName!Publish(after[k - 1], requests[k], stale)
      BY <1>4, <2>1, <2>3
    <3>4. Good(RtlName!Publish(after[k - 1], requests[k], stale))
      BY <3>2, PublishGrows DEF Good
    <3> QED
      BY <2>1, <3>3, <3>4
  <2> QED
    BY <2>2, <2>3
<1>6. Good(after[N])
  <2>1. N \in 0 .. N
    OBVIOUS
  <2> HIDE DEF Good, N
  <2> QED
    BY <1>5, <2>1
<1> QED
  BY <1>1, <1>6

\* The arena is a list in which no role and span has two names.
NameInv ==
    /\ IsList(names)
    /\ \A i, j \in DOMAIN names : RtlName!SameIdentity(names[i], names[j]) => i = j

\* What one step does to the arena.
LEMMA NameStep ==
    ASSUME NameInv, RtlName!Next
    PROVE  Grows(names, names') /\ Len(names) \in Nat /\ DOMAIN names = 1 .. Len(names)
<1>1. Len(names) \in Nat /\ DOMAIN names = 1 .. Len(names)
  BY DEF NameInv, IsList
<1>2. Grows(names, names)
  BY <1>1 DEF NameInv, Grows
<1>3. PICK n \in 0 .. MaxRequests : \E requests \in [1 .. n -> NameRequests] :
          \/ \E stale \in {{}} \cup {{RtlName!Text(r.kind, k)} : r \in NameRequests, k \in 0 .. 1} :
               RtlName!AssignNames(requests, stale)
          \/ RtlName!Refuse(requests)
  BY DEF RtlName!Next
<1>4. PICK requests \in [1 .. n -> NameRequests] :
          \/ \E stale \in {{}} \cup {{RtlName!Text(r.kind, k)} : r \in NameRequests, k \in 0 .. 1} :
               RtlName!AssignNames(requests, stale)
          \/ RtlName!Refuse(requests)
  BY <1>3
<1>5. Len(requests) \in Nat
  <2>1. n \in Nat
    OBVIOUS
  <2>2. requests \in Seq(NameRequests)
    BY <2>1
  <2> QED
    BY <2>2
<1>6. ASSUME NEW stale \in {{}} \cup {{RtlName!Text(r.kind, k)} : r \in NameRequests, k \in 0 .. 1},
             RtlName!AssignNames(requests, stale)
      PROVE  Grows(names, names')
  <2>1. IsFiniteSet(stale)
    <3>1. CASE stale = {}
      BY <3>1, FS_EmptySet
    <3>2. CASE stale # {}
      <4>1. PICK r \in NameRequests, k \in 0 .. 1 : stale = {RtlName!Text(r.kind, k)}
        BY <3>2
      <4> QED
        BY <4>1, FS_Singleton
    <3> QED
      BY <3>1, <3>2
  <2> QED
    BY <1>1, <1>2, <1>5, <1>6, <2>1, AssignedGrows DEF RtlName!AssignNames
<1>7. CASE RtlName!Refuse(requests)
  BY <1>2, <1>7 DEF RtlName!Refuse
<1> QED
  BY <1>1, <1>4, <1>6, <1>7

\* However many calls ask for names, and whatever the unwritten places of a call hold, a
\* name stays, a role and span has one name, and a made-up name is none of those before it.
THEOREM NamesAlwaysFresh == RtlName!Spec => NamesAreFresh
<1> DEFINE Fresh == /\ RtlName!IsPrefix(names, names')
                    /\ \A i, j \in DOMAIN names' :
                          RtlName!SameIdentity(names'[i], names'[j]) => i = j
                    /\ \A i \in DOMAIN names' \ DOMAIN names : names'[i].kind # "source" =>
                          names'[i].text \notin RtlName!TextsOf(SubSeq(names', 1, i - 1))
<1>1. RtlName!Init => NameInv
  <2>1. << >> \in Seq({})
    OBVIOUS
  <2> QED
    BY <2>1 DEF RtlName!Init, NameInv, IsList
<1>2. ASSUME NameInv, [RtlName!Next]_names PROVE NameInv'
  <2>1. CASE RtlName!Next
    BY <1>2, <2>1, NameStep DEF Grows, NameInv, IsList, RtlName!SameIdentity
  <2>2. CASE UNCHANGED names
    BY <1>2, <2>2 DEF NameInv, IsList, RtlName!SameIdentity
  <2> QED
    BY <1>2, <2>1, <2>2
<1>3. ASSUME NameInv, RtlName!Next PROVE Fresh
  <2>1. /\ Grows(names, names') /\ Len(names) \in Nat /\ DOMAIN names = 1 .. Len(names)
    BY <1>3, NameStep
  <2>2. PICK R : names' \in Seq(R)
    BY <2>1 DEF Grows, IsList
  <2>3. PICK S : names \in Seq(S)
    BY <1>3 DEF NameInv, IsList
  <2>4. /\ Len(names') \in Nat /\ DOMAIN names' = 1 .. Len(names') /\ Len(names) <= Len(names')
        /\ \A i \in 1 .. Len(names) : names'[i] = names[i]
    BY <2>1, <2>2 DEF Grows
  <2>5. RtlName!IsPrefix(names, names')
    <3> DEFINE a == SubSeq(names, 1, Len(names))
               b == SubSeq(names', 1, Len(names))
    <3>1. /\ Len(a) = Len(names) /\ a \in Seq(S)
          /\ \A i \in 1 .. Len(names) : a[i] = names[i]
      BY <2>1, <2>3
    <3>2. /\ Len(b) = Len(names) /\ b \in Seq(R)
          /\ \A i \in 1 .. Len(names) : b[i] = names'[i]
      BY <2>1, <2>2, <2>4
    <3> HIDE DEF a, b
    <3>3. a \in Seq(S \cup R) /\ b \in Seq(S \cup R) /\ \A i \in 1 .. Len(a) : a[i] = b[i]
      BY <2>4, <3>1, <3>2
    <3>4. a = b
      BY <3>1, <3>2, <3>3, SeqEqual
    <3> QED
      BY <2>4, <3>4 DEF RtlName!IsPrefix, a, b
  <2>6. ASSUME NEW i \in DOMAIN names' \ DOMAIN names, names'[i].kind # "source"
        PROVE  names'[i].text \notin RtlName!TextsOf(SubSeq(names', 1, i - 1))
    <3>1. i \in 1 .. Len(names') /\ i > Len(names)
      BY <2>1, <2>4
    <3>2. /\ DOMAIN SubSeq(names', 1, i - 1) = 1 .. i - 1
          /\ \A j \in 1 .. i - 1 : SubSeq(names', 1, i - 1)[j] = names'[j]
      BY <2>2, <3>1
    <3>3. \A j \in 1 .. i - 1 : names'[j].text # names'[i].text
      BY <2>1, <2>6, <3>1 DEF Grows
    <3> QED
      BY <3>2, <3>3 DEF RtlName!TextsOf
  <2> QED
    BY <2>1, <2>5, <2>6 DEF Grows
<1> QED
  BY <1>1, <1>2, <1>3, PTL DEF RtlName!Spec, NamesAreFresh, RtlName!NamesAreFresh

-----------------------------------------------------------------------------
(* The pipeline statements: loops over lists, sums, and the invariant. *)

\* The list of one more place, as the loops over names build it.
OnlyAt(g, n, list, wanted) ==
    IF n = 0 THEN << >>
    ELSE IF list[n] \in wanted THEN Append(g[n - 1], list[n]) ELSE g[n - 1]

\* Only is computed place by place.
LEMMA OnlySteps ==
    ASSUME NEW X, NEW list \in Seq(X), NEW wanted
    PROVE  \E g : /\ Structured!Only(list, wanted) = g[Len(list)]
                  /\ \A n \in 0 .. Len(list) : g[n] = OnlyAt(g, n, list, wanted)
<1> DEFINE Is(g, m) == g = [n \in 0 .. m |-> OnlyAt(g, n, list, wanted)]
           upto == CHOOSE g : Is(g, Len(list))
<1>k. Len(list) \in Nat
  OBVIOUS
<1>1. \E g : Is(g, 0)
  <2> DEFINE g == [n \in 0 .. 0 |-> << >>]
  <2>1. ASSUME NEW n \in 0 .. 0 PROVE g[n] = OnlyAt(g, n, list, wanted)
    BY DEF OnlyAt
  <2>2. g = [n \in 0 .. 0 |-> g[n]]
    OBVIOUS
  <2>3. Is(g, 0)
    <3> HIDE DEF g
    <3> QED
      BY <2>1, <2>2
  <2> HIDE DEF g, Is
  <2> QED
    BY <2>3
<1>2. ASSUME NEW m \in Nat, NEW g, Is(g, m)
      PROVE  \E h : Is(h, m + 1)
  <2> DEFINE h == [n \in 0 .. m + 1 |-> IF n <= m THEN g[n] ELSE OnlyAt(g, m + 1, list, wanted)]
  <2>1. ASSUME NEW n \in 0 .. m + 1 PROVE h[n] = OnlyAt(h, n, list, wanted)
    <3>1. CASE n <= m
      <4>1. n \in 0 .. m /\ h[n] = g[n]
        BY <3>1
      <4>2. g[n] = OnlyAt(g, n, list, wanted)
        BY <1>2, <4>1
      <4>3. n # 0 => h[n - 1] = g[n - 1]
        BY <3>1
      <4> HIDE DEF h
      <4> QED
        BY <4>1, <4>2, <4>3 DEF OnlyAt
    <3>2. CASE n = m + 1
      <4>1. h[m + 1] = OnlyAt(g, m + 1, list, wanted) /\ h[m] = g[m] /\ (m + 1) - 1 = m
            /\ m + 1 # 0
        OBVIOUS
      <4> HIDE DEF h
      <4> QED
        BY <3>2, <4>1 DEF OnlyAt
    <3> QED
      BY <3>1, <3>2
  <2>2. h = [n \in 0 .. m + 1 |-> h[n]]
    OBVIOUS
  <2>3. Is(h, m + 1)
    <3> HIDE DEF h
    <3> QED
      BY <2>1, <2>2
  <2> HIDE DEF h, Is
  <2> QED
    BY <2>3
<1>3. \A m \in Nat : \E g : Is(g, m)
  <2> DEFINE Bad == {m \in Nat : ~\E g : Is(g, m)}
  <2> HIDE DEF Is
  <2> SUFFICES ASSUME Bad # {} PROVE FALSE
    OBVIOUS
  <2>1. PICK m \in Bad : \A n \in Bad : m <= n
    <3> HIDE DEF Bad
    <3>1. Bad \subseteq Nat
      BY DEF Bad
    <3> QED
      BY <3>1, LeastNumber
  <2>2. m # 0
    BY <1>1, <2>1
  <2>3. m - 1 \in Nat /\ ~(m <= m - 1) /\ (m - 1) + 1 = m
    BY <2>1, <2>2
  <2>4. PICK g : Is(g, m - 1)
    BY <2>1, <2>3
  <2> QED
    BY <1>2, <2>1, <2>3, <2>4
<1>4. Is(upto, Len(list))
  <2> HIDE DEF Is
  <2> QED
    BY <1>3, <1>k
<1>5. Structured!Only(list, wanted) = upto[Len(list)]
  BY DEF Structured!Only, OnlyAt
<1>6. \A n \in 0 .. Len(list) : upto[n] = OnlyAt(upto, n, list, wanted)
  <2> HIDE DEF upto
  <2> QED
    BY <1>4
<1> HIDE DEF upto
<1> QED
  BY <1>5, <1>6

\* What a walk over the first n places of a list has kept of them.
KeptOf(l, n, X, list, wanted) ==
    /\ l \in Seq(X)
    /\ \E place \in [1 .. Len(l) -> 1 .. n] :
          /\ \A i, j \in 1 .. Len(l) : place[i] = place[j] => i = j
          /\ \A i \in 1 .. Len(l) : l[i] = list[place[i]]
    /\ \A i \in 1 .. Len(l) : l[i] \in wanted
    /\ \A j \in 1 .. n : list[j] \in wanted => \E i \in 1 .. Len(l) : l[i] = list[j]

\* One more place that is wanted.
LEMMA KeepOne ==
    ASSUME NEW X, NEW list \in Seq(X), NEW wanted, NEW n \in 1 .. Len(list), NEW l,
           KeptOf(l, n - 1, X, list, wanted), list[n] \in wanted
    PROVE  KeptOf(Append(l, list[n]), n, X, list, wanted)
<1> DEFINE longer == Append(l, list[n])
<1>1. l \in Seq(X) /\ list[n] \in X /\ n \in Nat /\ Len(l) \in Nat
  BY DEF KeptOf
<1>2. /\ longer \in Seq(X) /\ Len(longer) = Len(l) + 1 /\ longer[Len(l) + 1] = list[n]
      /\ \A i \in 1 .. Len(l) : longer[i] = l[i]
  BY <1>1
<1> HIDE DEF longer
<1>3. PICK place \in [1 .. Len(l) -> 1 .. n - 1] :
          /\ \A i, j \in 1 .. Len(l) : place[i] = place[j] => i = j
          /\ \A i \in 1 .. Len(l) : l[i] = list[place[i]]
  BY DEF KeptOf
<1> DEFINE there == [i \in 1 .. Len(longer) |-> IF i <= Len(l) THEN place[i] ELSE n]
<1>4. there \in [1 .. Len(longer) -> 1 .. n]
  <2>1. ASSUME NEW i \in 1 .. Len(longer) PROVE there[i] \in 1 .. n
    <3>1. i \in 1 .. Len(l) => place[i] \in 1 .. n - 1
      BY <1>3
    <3>2. i \in Nat /\ 1 <= i /\ (i <= Len(l) => i \in 1 .. Len(l))
      BY <1>1, <1>2
    <3>3. 1 .. n - 1 \subseteq 1 .. n /\ n \in 1 .. n
      BY <1>1
    <3>4. there[i] = IF i <= Len(l) THEN place[i] ELSE n
      OBVIOUS
    <3> HIDE DEF there
    <3> QED
      BY <3>1, <3>2, <3>3, <3>4
  <2>2. there = [i \in 1 .. Len(longer) |-> there[i]]
    OBVIOUS
  <2> HIDE DEF there
  <2> QED
    BY <2>1, <2>2
<1>5. ASSUME NEW i \in 1 .. Len(longer), NEW j \in 1 .. Len(longer), there[i] = there[j]
      PROVE  i = j
  <2>1. ASSUME NEW k \in 1 .. Len(l)
        PROVE  there[k] = place[k] /\ place[k] \in 1 .. n - 1 /\ place[k] # n
    <3>1. place[k] \in 1 .. n - 1
      BY <1>3
    <3>2. place[k] # n
      BY <1>1, <3>1
    <3>3. k \in 1 .. Len(longer) /\ k <= Len(l)
      BY <1>1, <1>2
    <3>4. there[k] = place[k]
      BY <3>3
    <3> QED
      BY <3>1, <3>2, <3>4
  <2>2. there[Len(l) + 1] = n
    BY <1>1, <1>2
  <2>3. \A k \in 1 .. Len(longer) : k \in 1 .. Len(l) \/ k = Len(l) + 1
    BY <1>1, <1>2
  <2> HIDE DEF there
  <2> QED
    BY <1>3, <1>5, <2>1, <2>2, <2>3
<1>6. ASSUME NEW i \in 1 .. Len(longer) PROVE longer[i] = list[there[i]]
  BY <1>1, <1>2, <1>3
<1>7. ASSUME NEW i \in 1 .. Len(longer) PROVE longer[i] \in wanted
  <2>1. i \in 1 .. Len(l) \/ i = Len(l) + 1
    BY <1>1, <1>2
  <2> QED
    BY <2>1, <1>2 DEF KeptOf
<1>8. ASSUME NEW j \in 1 .. n, list[j] \in wanted
      PROVE  \E i \in 1 .. Len(longer) : longer[i] = list[j]
  <2>1. CASE j = n
    BY <2>1, <1>1, <1>2
  <2>2. CASE j # n
    <3>1. j \in 1 .. n - 1
      BY <1>1, <2>2
    <3>2. PICK i \in 1 .. Len(l) : l[i] = list[j]
      BY <3>1, <1>8 DEF KeptOf
    <3>3. i \in 1 .. Len(longer)
      BY <1>1, <1>2
    <3> QED
      BY <3>2, <3>3, <1>2
  <2> QED
    BY <2>1, <2>2
<1> HIDE DEF there
<1> QED
  BY <1>2, <1>4, <1>5, <1>6, <1>7, <1>8 DEF KeptOf, longer

\* One more place that is not.
LEMMA SkipOne ==
    ASSUME NEW X, NEW list \in Seq(X), NEW wanted, NEW n \in 1 .. Len(list), NEW l,
           KeptOf(l, n - 1, X, list, wanted), list[n] \notin wanted
    PROVE  KeptOf(l, n, X, list, wanted)
<1>1. l \in Seq(X) /\ n \in Nat /\ Len(l) \in Nat
  BY DEF KeptOf
<1>2. PICK place \in [1 .. Len(l) -> 1 .. n - 1] :
          /\ \A i, j \in 1 .. Len(l) : place[i] = place[j] => i = j
          /\ \A i \in 1 .. Len(l) : l[i] = list[place[i]]
  BY DEF KeptOf
<1>3. place \in [1 .. Len(l) -> 1 .. n]
  <2>1. 1 .. n - 1 \subseteq 1 .. n
    BY <1>1
  <2> QED
    BY <2>1
<1>4. ASSUME NEW j \in 1 .. n, list[j] \in wanted
      PROVE  \E i \in 1 .. Len(l) : l[i] = list[j]
  <2>1. j \in 1 .. n - 1
    BY <1>1, <1>4
  <2> QED
    BY <2>1, <1>4 DEF KeptOf
<1>5. \A i \in 1 .. Len(l) : l[i] \in wanted
  BY DEF KeptOf
<1> QED
  BY <1>1, <1>2, <1>3, <1>4, <1>5 DEF KeptOf

\* Only gives the wanted elements of a list, one for each place that has one.
LEMMA OnlyKeeps ==
    ASSUME NEW X, NEW list \in Seq(X), NEW wanted
    PROVE  KeptOf(Structured!Only(list, wanted), Len(list), X, list, wanted)
<1>1. PICK g : /\ Structured!Only(list, wanted) = g[Len(list)]
               /\ \A n \in 0 .. Len(list) : g[n] = OnlyAt(g, n, list, wanted)
  BY OnlySteps, Zenon
<1>k. Len(list) \in Nat
  OBVIOUS
<1>2. KeptOf(g[0], 0, X, list, wanted)
  <2>1. g[0] = << >>
    BY <1>1, <1>k DEF OnlyAt
  <2>2. << >> \in Seq(X) /\ Len(<< >>) = 0 /\ 1 .. 0 = {}
    OBVIOUS
  <2>3. [x \in {} |-> x] \in [{} -> {}]
    OBVIOUS
  <2> QED
    BY <2>1, <2>2, <2>3 DEF KeptOf
<1>3. ASSUME NEW n \in 1 .. Len(list), KeptOf(g[n - 1], n - 1, X, list, wanted)
      PROVE  KeptOf(g[n], n, X, list, wanted)
  <2>1. g[n] = OnlyAt(g, n, list, wanted) /\ n # 0
    BY <1>1, <1>k
  <2>2. CASE list[n] \in wanted
    <3>1. g[n] = Append(g[n - 1], list[n])
      BY <2>1, <2>2 DEF OnlyAt
    <3>2. KeptOf(Append(g[n - 1], list[n]), n, X, list, wanted)
      BY <1>3, <2>2, KeepOne, Zenon
    <3> QED
      BY <3>1, <3>2, Zenon
  <2>3. CASE list[n] \notin wanted
    <3>1. g[n] = g[n - 1]
      BY <2>1, <2>3 DEF OnlyAt
    <3>2. KeptOf(g[n - 1], n, X, list, wanted)
      BY <1>3, <2>3, SkipOne, Zenon
    <3> QED
      BY <3>1, <3>2, Zenon
  <2> QED
    BY <2>2, <2>3
<1>4. \A n \in 0 .. Len(list) : KeptOf(g[n], n, X, list, wanted)
  <2> DEFINE Bad == {n \in 0 .. Len(list) : ~KeptOf(g[n], n, X, list, wanted)}
  <2> SUFFICES ASSUME Bad # {} PROVE FALSE
    OBVIOUS
  <2>1. PICK n \in Bad : \A m \in Bad : n <= m
    <3>1. Bad \subseteq Nat
      BY <1>k
    <3> HIDE DEF Bad
    <3> QED
      BY <3>1, LeastNumber
  <2>2. n \in 0 .. Len(list) /\ n # 0
    BY <1>2, <2>1
  <2>3. n \in 1 .. Len(list) /\ n - 1 \in 0 .. Len(list) /\ ~(n <= n - 1)
    BY <2>2, <1>k
  <2>4. KeptOf(g[n - 1], n - 1, X, list, wanted)
    BY <2>1, <2>3
  <2> QED
    BY <1>3, <2>1, <2>3, <2>4
<1> QED
  BY <1>1, <1>4, <1>k

\* A list with one more list at its end.
FlattenAt(g, n, lists) == IF n = 1 THEN lists[n] ELSE g[n - 1] \o lists[n]

\* FlattenSeq is computed list by list.
LEMMA FlattenSteps ==
    ASSUME NEW X, NEW lists \in Seq(Seq(X)), Len(lists) # 0
    PROVE  \E g : /\ Structured!FlattenSeq(lists) = g[Len(lists)]
                  /\ \A n \in 1 .. Len(lists) : g[n] = FlattenAt(g, n, lists)
<1> DEFINE Is(g, m) == g = [n \in 1 .. m |-> FlattenAt(g, n, lists)]
           flat == CHOOSE g : Is(g, Len(lists))
<1>k. Len(lists) \in Nat
  OBVIOUS
<1>1. \E g : Is(g, 0)
  <2>1. 1 .. 0 = {}
    OBVIOUS
  <2>2. Is([n \in 1 .. 0 |-> 0], 0)
    BY <2>1
  <2> HIDE DEF Is
  <2> QED
    BY <2>2
<1>2. ASSUME NEW m \in Nat, NEW g, Is(g, m)
      PROVE  \E h : Is(h, m + 1)
  <2> DEFINE h == [n \in 1 .. m + 1 |-> IF n <= m THEN g[n] ELSE FlattenAt(g, m + 1, lists)]
  <2>1. ASSUME NEW n \in 1 .. m + 1 PROVE h[n] = FlattenAt(h, n, lists)
    <3>1. CASE n <= m
      <4>1. n \in 1 .. m /\ h[n] = g[n]
        BY <3>1
      <4>2. g[n] = FlattenAt(g, n, lists)
        BY <1>2, <4>1
      <4>3. n # 1 => h[n - 1] = g[n - 1]
        BY <3>1
      <4> HIDE DEF h
      <4> QED
        BY <4>1, <4>2, <4>3 DEF FlattenAt
    <3>2. CASE n = m + 1
      <4>1. /\ h[m + 1] = FlattenAt(g, m + 1, lists) /\ (m + 1) - 1 = m
            /\ m + 1 # 1 => h[m] = g[m]
        OBVIOUS
      <4> HIDE DEF h
      <4> QED
        BY <3>2, <4>1 DEF FlattenAt
    <3> QED
      BY <3>1, <3>2
  <2>2. h = [n \in 1 .. m + 1 |-> h[n]]
    OBVIOUS
  <2>3. Is(h, m + 1)
    <3> HIDE DEF h
    <3> QED
      BY <2>1, <2>2
  <2> HIDE DEF h, Is
  <2> QED
    BY <2>3
<1>3. \A m \in Nat : \E g : Is(g, m)
  <2> DEFINE Bad == {m \in Nat : ~\E g : Is(g, m)}
  <2> HIDE DEF Is
  <2> SUFFICES ASSUME Bad # {} PROVE FALSE
    OBVIOUS
  <2>1. PICK m \in Bad : \A n \in Bad : m <= n
    <3> HIDE DEF Bad
    <3>1. Bad \subseteq Nat
      BY DEF Bad
    <3> QED
      BY <3>1, LeastNumber
  <2>2. m # 0
    BY <1>1, <2>1
  <2>3. m - 1 \in Nat /\ ~(m <= m - 1) /\ (m - 1) + 1 = m
    BY <2>1, <2>2
  <2>4. PICK g : Is(g, m - 1)
    BY <2>1, <2>3
  <2> QED
    BY <1>2, <2>1, <2>3, <2>4
<1>4. Is(flat, Len(lists))
  <2> HIDE DEF Is
  <2> QED
    BY <1>3, <1>k
<1>5. Structured!FlattenSeq(lists) = flat[Len(lists)]
  BY DEF Structured!FlattenSeq, FlattenAt
<1>6. \A n \in 1 .. Len(lists) : flat[n] = FlattenAt(flat, n, lists)
  <2> HIDE DEF flat
  <2> QED
    BY <1>4
<1> HIDE DEF flat
<1> QED
  BY <1>5, <1>6

\* Whatever stands in a flattened list stands in one of its first n lists.
FlatOf(l, n, X, lists) ==
    /\ l \in Seq(X)
    /\ \A p \in 1 .. Len(l) : \E s \in 1 .. n : \E i \in 1 .. Len(lists[s]) : l[p] = lists[s][i]

\* Nothing is in a flattened list but what its lists hold.
LEMMA FlattenHolds ==
    ASSUME NEW X, NEW lists \in Seq(Seq(X))
    PROVE  FlatOf(Structured!FlattenSeq(lists), Len(lists), X, lists)
<1>k. Len(lists) \in Nat
  OBVIOUS
<1>1. CASE Len(lists) = 0
  <2>1. Structured!FlattenSeq(lists) = lists
    BY <1>1 DEF Structured!FlattenSeq
  <2>2. lists = << >>
    BY <1>1
  <2>3. << >> \in Seq(X) /\ 1 .. Len(<< >>) = {}
    OBVIOUS
  <2> QED
    BY <2>1, <2>2, <2>3 DEF FlatOf
<1>2. CASE Len(lists) # 0
  <2>1. PICK g : /\ Structured!FlattenSeq(lists) = g[Len(lists)]
                 /\ \A n \in 1 .. Len(lists) : g[n] = FlattenAt(g, n, lists)
    BY <1>2, FlattenSteps, Zenon
  <2>2. FlatOf(g[1], 1, X, lists)
    <3>1. 1 \in 1 .. Len(lists) /\ lists[1] \in Seq(X)
      BY <1>2, <1>k
    <3>2. g[1] = lists[1]
      BY <2>1, <3>1 DEF FlattenAt
    <3> QED
      BY <3>1, <3>2 DEF FlatOf
  <2>3. ASSUME NEW n \in 1 .. Len(lists), n # 1, FlatOf(g[n - 1], n - 1, X, lists)
        PROVE  FlatOf(g[n], n, X, lists)
    <3>1. n \in Nat /\ lists[n] \in Seq(X) /\ g[n - 1] \in Seq(X)
      BY <1>k, <2>3 DEF FlatOf
    <3>2. g[n] = g[n - 1] \o lists[n]
      BY <2>1, <2>3 DEF FlattenAt
    <3> DEFINE before == g[n - 1]
               last == lists[n]
               both == before \o last
    <3>3. /\ both \in Seq(X) /\ Len(both) = Len(before) + Len(last)
          /\ Len(before) \in Nat /\ Len(last) \in Nat
          /\ \A p \in 1 .. Len(both) :
               both[p] = IF p <= Len(before) THEN before[p] ELSE last[p - Len(before)]
      <4>1. before \in Seq(X) /\ last \in Seq(X)
        BY <3>1
      <4> HIDE DEF before, last
      <4> QED
        BY <4>1, ConcatProperties
    <3>4. ASSUME NEW p \in 1 .. Len(both)
          PROVE  \E s \in 1 .. n : \E i \in 1 .. Len(lists[s]) : both[p] = lists[s][i]
      <4>1. CASE p <= Len(before)
        <5>1. p \in 1 .. Len(before) /\ both[p] = before[p]
          BY <4>1, <3>3
        <5>2. PICK s \in 1 .. n - 1 : \E i \in 1 .. Len(lists[s]) : before[p] = lists[s][i]
          BY <5>1, <2>3 DEF FlatOf
        <5>3. PICK i \in 1 .. Len(lists[s]) : before[p] = lists[s][i]
          BY <5>2
        <5>4. s \in 1 .. n
          BY <3>1
        <5> HIDE DEF both, before
        <5>5. both[p] = lists[s][i]
          BY <5>1, <5>3
        <5> QED
          BY <5>3, <5>4, <5>5
      <4>2. CASE ~(p <= Len(before))
        <5>1. p - Len(before) \in 1 .. Len(last) /\ both[p] = last[p - Len(before)]
          <6> HIDE DEF both, before, last
          <6> QED
            BY <4>2, <3>3
        <5>2. n \in 1 .. n
          BY <3>1
        <5> HIDE DEF both, before
        <5> QED
          BY <5>1, <5>2
      <4> QED
        BY <4>1, <4>2
    <3> HIDE DEF both
    <3>5. g[n] = both
      BY <3>2 DEF both
    <3> QED
      BY <3>3, <3>4, <3>5 DEF FlatOf
  <2>4. \A n \in 1 .. Len(lists) : FlatOf(g[n], n, X, lists)
    <3> DEFINE Bad == {n \in 1 .. Len(lists) : ~FlatOf(g[n], n, X, lists)}
    <3> SUFFICES ASSUME Bad # {} PROVE FALSE
      OBVIOUS
    <3>1. PICK n \in Bad : \A m \in Bad : n <= m
      <4>1. Bad \subseteq Nat
        BY <1>k
      <4> HIDE DEF Bad
      <4> QED
        BY <4>1, LeastNumber
    <3>2. n \in 1 .. Len(lists) /\ n # 1
      BY <2>2, <3>1
    <3>3. n - 1 \in 1 .. Len(lists) /\ ~(n <= n - 1)
      BY <3>2, <1>k
    <3>4. FlatOf(g[n - 1], n - 1, X, lists)
      BY <3>1, <3>3
    <3> QED
      BY <2>3, <3>1, <3>2, <3>4
  <2> QED
    BY <2>1, <2>4, <1>2, <1>k
<1> QED
  BY <1>1, <1>2

\* A stage reads the fields that stages before it wrote.
ReadsWritten(k) ==
    \A name \in Structured!Range(Structured!FieldReads(k)) :
        \E s \in 1 .. k - 1 : name \in Structured!Range(Structured!Writes(s))

\* The lists of a statement.
LEMMA PipelineLists ==
    ASSUME pipeline \in LoweredPipelines
    PROVE  /\ \E F : pipeline.fields \in Seq(F)
           /\ \A i \in 1 .. Len(pipeline.fields) : pipeline.fields[i].width \in Nat
           /\ Len(pipeline.fields) \in Nat
           /\ DOMAIN pipeline.fields = 1 .. Len(pipeline.fields)
           /\ Len(pipeline.stages) \in Nat
           /\ DOMAIN pipeline.stages = 1 .. Len(pipeline.stages)
           /\ \A k \in 1 .. Len(pipeline.stages) :
                 /\ Len(pipeline.stages[k]) \in Nat
                 /\ DOMAIN pipeline.stages[k] = 1 .. Len(pipeline.stages[k])
           /\ \E N : pipeline.yield \in Seq(N)
           /\ Len(pipeline.yield) \in Nat
           /\ DOMAIN pipeline.yield = 1 .. Len(pipeline.yield)
<1>1. \E F : pipeline.fields \in Seq(F)
  BY PipelinesAssumption
<1>2. Len(pipeline.fields) \in Nat /\ DOMAIN pipeline.fields = 1 .. Len(pipeline.fields)
  BY <1>1
<1>3. \A i \in 1 .. Len(pipeline.fields) : pipeline.fields[i].width \in Nat
  BY <1>2, PipelinesAssumption
<1>4. \E S : pipeline.stages \in Seq(S)
  BY PipelinesAssumption
<1>5. Len(pipeline.stages) \in Nat /\ DOMAIN pipeline.stages = 1 .. Len(pipeline.stages)
  BY <1>4
<1>6. ASSUME NEW k \in 1 .. Len(pipeline.stages)
      PROVE  /\ Len(pipeline.stages[k]) \in Nat
             /\ DOMAIN pipeline.stages[k] = 1 .. Len(pipeline.stages[k])
  <2>1. \E I : pipeline.stages[k] \in Seq(I)
    BY <1>5, PipelinesAssumption
  <2> QED
    BY <2>1
<1>7. \E N : pipeline.yield \in Seq(N)
  BY PipelinesAssumption
<1>8. Len(pipeline.yield) \in Nat /\ DOMAIN pipeline.yield = 1 .. Len(pipeline.yield)
  BY <1>7
<1> QED
  BY <1>1, <1>2, <1>3, <1>5, <1>6, <1>7, <1>8

\* What is kept of a list stands in the list.
LEMMA KeptHolds ==
    ASSUME NEW X, NEW list \in Seq(X)
    PROVE  LET kept == Structured!Kept(list)
           IN  /\ kept \in Seq(X) /\ Len(list) \in Nat
               /\ Len(kept) = IF Len(list) < Limit THEN Len(list) ELSE Limit
               /\ \A i \in 1 .. Len(kept) : i \in 1 .. Len(list) /\ kept[i] = list[i]
<1> DEFINE n == IF Len(list) < Limit THEN Len(list) ELSE Limit
<1>1. Len(list) \in Nat /\ Limit \in Nat
  BY LimitAssumption
<1>2. n \in 0 .. Len(list)
  BY <1>1
<1> HIDE DEF n
<1>3. 1 \in 1 .. Len(list) + 1 /\ n \in (1 - 1) .. Len(list)
  BY <1>1, <1>2
<1>4. /\ SubSeq(list, 1, n) \in Seq(X)
      /\ Len(SubSeq(list, 1, n)) = n
      /\ \A i \in 1 .. n : SubSeq(list, 1, n)[i] = list[i]
  BY <1>1, <1>2
<1>5. Structured!Kept(list) = SubSeq(list, 1, n)
  BY DEF Structured!Kept, n
<1>6. \A i \in 1 .. n : i \in 1 .. Len(list)
  BY <1>1, <1>2
<1> QED
  BY <1>1, <1>4, <1>5, <1>6 DEF n

\* The laws of a stage are about what the stages before it wrote.
LEMMA ReadsWereWritten ==
    ASSUME pipeline \in LoweredPipelines, NEW k \in 1 .. Len(pipeline.stages),
           Structured!Lawful(k)
    PROVE  ReadsWritten(k)
<1>k. k \in Nat
  BY PipelineLists
<1>1. CASE k = 1
  <2>1. Structured!FieldReads(k) = << >>
    BY <1>1 DEF Structured!Lawful
  <2>2. Structured!Range(<< >>) = {}
    BY DEF Structured!Range
  <2> QED
    BY <2>1, <2>2 DEF ReadsWritten
<1>2. CASE k # 1
  <2> DEFINE writes == [s \in 1 .. k - 1 |-> Structured!Writes(s)]
             X == UNION {Structured!Range(Structured!Writes(s)) : s \in 1 .. k - 1}
             flat == Structured!FlattenSeq(writes)
  <2>1. ASSUME NEW s \in 1 .. k - 1
        PROVE  /\ Structured!Writes(s) \in Seq(X)
               /\ \A i \in 1 .. Len(Structured!Writes(s)) :
                     Structured!Writes(s)[i] \in Structured!Range(Structured!Writes(s))
    <3>1. s \in 1 .. Len(pipeline.stages)
      BY <1>k, PipelineLists
    <3>2. PICK m \in Nat : DOMAIN pipeline.stages[s] = 1 .. m
      BY <3>1, PipelineLists
    <3>3. Structured!Writes(s) = [i \in 1 .. m |-> pipeline.stages[s][i].to]
      BY <3>2 DEF Structured!Writes
    <3>4. DOMAIN Structured!Writes(s) = 1 .. m
      BY <3>3
    <3>5. \A i \in 1 .. m : Structured!Writes(s)[i] \in Structured!Range(Structured!Writes(s))
      BY <3>4 DEF Structured!Range
    <3>6. \A i \in 1 .. m : Structured!Writes(s)[i] \in X
      BY <3>5
    <3> HIDE DEF X
    <3>7. Structured!Writes(s) \in [1 .. m -> X]
      BY <3>3, <3>6
    <3>8. Structured!Writes(s) \in Seq(X) /\ Len(Structured!Writes(s)) = m
      BY <3>2, <3>7
    <3> QED
      BY <3>5, <3>8
  <2>2. writes \in Seq(Seq(X)) /\ Len(writes) = k - 1
    <3>1. writes \in [1 .. k - 1 -> Seq(X)] /\ k - 1 \in Nat
      BY <2>1, <1>k
    <3> HIDE DEF writes, X
    <3> QED
      BY <3>1
  <2>3. Structured!Produced(k) = Structured!Kept(flat)
    BY DEF Structured!Produced, Structured!Writes
  <2> HIDE DEF X
  <2>4. FlatOf(flat, k - 1, X, writes)
    <3> HIDE DEF writes
    <3> QED
      BY <2>2, FlattenHolds
  <2>5. ASSUME NEW name \in Structured!Range(Structured!Produced(k))
        PROVE  \E s \in 1 .. k - 1 : name \in Structured!Range(Structured!Writes(s))
    <3> HIDE DEF flat
    <3>1. flat \in Seq(X)
      BY <2>4 DEF FlatOf
    <3> DEFINE kept == Structured!Kept(flat)
    <3>2. /\ kept \in Seq(X)
          /\ \A i \in 1 .. Len(kept) : i \in 1 .. Len(flat) /\ kept[i] = flat[i]
      BY <3>1, KeptHolds
    <3> HIDE DEF kept
    <3>3. PICK p \in 1 .. Len(flat) : name = flat[p]
      <4>1. Structured!Produced(k) = kept
        BY <2>3 DEF kept
      <4>2. \E i \in 1 .. Len(kept) : name = kept[i]
        BY <3>2, <4>1 DEF Structured!Range
      <4> QED
        BY <3>2, <4>2
    <3>4. PICK s \in 1 .. k - 1 : \E i \in 1 .. Len(writes[s]) : flat[p] = writes[s][i]
      BY <2>4 DEF FlatOf
    <3>5. writes[s] = Structured!Writes(s)
      OBVIOUS
    <3> HIDE DEF writes
    <3> QED
      BY <2>1, <3>3, <3>4, <3>5
  <2>6. Structured!Range(Structured!FieldReads(k))
          \subseteq Structured!Range(Structured!Produced(k))
    BY <1>2 DEF Structured!Lawful
  <2> QED
    BY <2>5, <2>6 DEF ReadsWritten
<1> QED
  BY <1>1, <1>2

\* One element the fold of a sum takes out of a set.
Taken(s) == CHOOSE x \in s : TRUE

\* The sum of the widths at a set of places, as the fold computes it.
SumAt(g, s, widths) == IF s = {} THEN 0 ELSE widths[Taken(s)] + g[s \ {Taken(s)}]

\* A set with one element less is smaller.
LEMMA OneLess ==
    ASSUME NEW D, IsFiniteSet(D), NEW s \in SUBSET D, NEW x \in s
    PROVE  /\ s \ {x} \in SUBSET D
           /\ Cardinality(s) \in Nat /\ Cardinality(s \ {x}) = Cardinality(s) - 1
           /\ Cardinality(s) # 0 /\ Cardinality(s) <= Cardinality(D)
<1>1. IsFiniteSet(s) /\ Cardinality(s) <= Cardinality(D) /\ Cardinality(s) \in Nat
  BY FS_Subset, FS_CardinalityType
<1>2. Cardinality(s \ {x}) = Cardinality(s) - 1
  BY <1>1, FS_RemoveElement
<1>3. Cardinality(s) # 0
  BY <1>1, FS_EmptySet
<1> QED
  BY <1>1, <1>2, <1>3

\* What is taken out of a set is in it.
LEMMA TakenIsIn == ASSUME NEW s, s # {} PROVE Taken(s) \in s
  BY DEF Taken

\* A sum is computed place by place, in whatever order the fold takes them.
LEMMA SumSteps ==
    ASSUME NEW widths, IsFiniteSet(DOMAIN widths)
    PROVE  \E g : /\ Structured!Sum(widths) = g[DOMAIN widths]
                  /\ \A s \in SUBSET DOMAIN widths : g[s] = SumAt(g, s, widths)
<1> DEFINE D == DOMAIN widths
           Small(m) == {s \in SUBSET D : Cardinality(s) <= m}
           Is(g, m) == g = [s \in Small(m) |-> SumAt(g, s, widths)]
           sum == CHOOSE g : g = [s \in SUBSET D |-> SumAt(g, s, widths)]
<1>0. Cardinality(D) \in Nat
  BY FS_CardinalityType
<1>s. \A s \in SUBSET D : Cardinality(s) \in Nat /\ Cardinality(s) <= Cardinality(D)
                          /\ (Cardinality(s) = 0 <=> s = {})
  BY FS_Subset, FS_CardinalityType, FS_EmptySet
<1> HIDE DEF D
<1>f. IsFiniteSet(D)
  BY DEF D
<1>1. \E g : Is(g, 0)
  <2> DEFINE g == [s \in Small(0) |-> 0]
  <2>1. ASSUME NEW s \in Small(0) PROVE g[s] = SumAt(g, s, widths)
    <3>1. s = {}
      BY <1>s
    <3> QED
      BY <3>1 DEF SumAt
  <2> HIDE DEF Small
  <2>2. g = [s \in Small(0) |-> g[s]]
    OBVIOUS
  <2>3. Is(g, 0)
    <3> HIDE DEF g
    <3> QED
      BY <2>1, <2>2
  <2> HIDE DEF g, Is
  <2> QED
    BY <2>3
<1>2. ASSUME NEW m \in Nat, NEW g, Is(g, m)
      PROVE  \E h : Is(h, m + 1)
  <2> DEFINE h == [s \in Small(m + 1) |->
                      IF Cardinality(s) <= m THEN g[s] ELSE SumAt(g, s, widths)]
  <2>1. ASSUME NEW s \in Small(m + 1) PROVE h[s] = SumAt(h, s, widths)
    <3>0. s \in SUBSET D /\ Cardinality(s) \in Nat /\ Cardinality(s) <= m + 1
      BY <1>s
    <3>1. CASE s = {}
      <4>1. s \in Small(m) /\ Cardinality(s) <= m
        BY <3>0, <3>1, <1>s
      <4>2. h[s] = g[s] /\ g[s] = SumAt(g, s, widths)
        <5>1. h[s] = g[s]
          BY <4>1
        <5> HIDE DEF Small, h
        <5> QED
          BY <5>1, <4>1, <1>2
      <4> HIDE DEF h
      <4> QED
        BY <4>2, <3>1 DEF SumAt
    <3>2. CASE s # {}
      <4> DEFINE rest == s \ {Taken(s)}
      <4>1. /\ rest \in SUBSET D /\ Cardinality(rest) = Cardinality(s) - 1
        BY <3>0, <3>2, TakenIsIn, OneLess, <1>f
      <4> HIDE DEF rest
      <4>2. rest \in Small(m) /\ rest \in Small(m + 1) /\ Cardinality(rest) <= m
        BY <3>0, <4>1
      <4>3. h[rest] = g[rest]
        BY <4>2
      <4>4. SumAt(h, s, widths) = SumAt(g, s, widths)
        <5> HIDE DEF h
        <5> QED
          BY <4>3, <3>2 DEF SumAt, rest
      <4>5. CASE Cardinality(s) <= m
        <5>1. s \in Small(m) /\ h[s] = g[s]
          BY <3>0, <4>5
        <5> HIDE DEF Small, h
        <5>2. g[s] = SumAt(g, s, widths)
          BY <5>1, <1>2
        <5> QED
          BY <5>1, <5>2, <4>4
      <4>6. CASE ~(Cardinality(s) <= m)
        <5>1. h[s] = SumAt(g, s, widths)
          BY <4>6
        <5> HIDE DEF h
        <5> QED
          BY <5>1, <4>4
      <4> QED
        BY <4>5, <4>6
    <3> QED
      BY <3>1, <3>2
  <2> HIDE DEF Small
  <2>2. h = [s \in Small(m + 1) |-> h[s]]
    OBVIOUS
  <2>3. Is(h, m + 1)
    <3> HIDE DEF h
    <3> QED
      BY <2>1, <2>2
  <2> HIDE DEF h, Is
  <2> QED
    BY <2>3
<1>3. \A m \in Nat : \E g : Is(g, m)
  <2> DEFINE Bad == {m \in Nat : ~\E g : Is(g, m)}
  <2> HIDE DEF Is
  <2> SUFFICES ASSUME Bad # {} PROVE FALSE
    OBVIOUS
  <2>1. PICK m \in Bad : \A n \in Bad : m <= n
    <3> HIDE DEF Bad
    <3>1. Bad \subseteq Nat
      BY DEF Bad
    <3> QED
      BY <3>1, LeastNumber
  <2>2. m # 0
    BY <1>1, <2>1
  <2>3. m - 1 \in Nat /\ ~(m <= m - 1) /\ (m - 1) + 1 = m
    BY <2>1, <2>2
  <2>4. PICK g : Is(g, m - 1)
    BY <2>1, <2>3
  <2> QED
    BY <1>2, <2>1, <2>3, <2>4
<1>4. Small(Cardinality(D)) = SUBSET D
  BY <1>s
<1>5. sum = [s \in SUBSET D |-> SumAt(sum, s, widths)]
  <2>1. \E g : Is(g, Cardinality(D))
    <3> HIDE DEF Is
    <3> QED
      BY <1>3, <1>0
  <2> HIDE DEF Small
  <2>2. \E g : g = [s \in SUBSET D |-> SumAt(g, s, widths)]
    BY <2>1, <1>4
  <2> QED
    BY <2>2
<1>6. Structured!Sum(widths) = sum[D]
  BY DEF Structured!Sum, Structured!FoldSeq, Structured!FoldFunction,
         Structured!FoldFunctionOnSet, Structured!MapThenFoldSet, SumAt, Taken, D
<1>7. \A s \in SUBSET D : sum[s] = SumAt(sum, s, widths)
  <2> HIDE DEF sum
  <2> QED
    BY <1>5
<1> HIDE DEF sum
<1> QED
  BY <1>6, <1>7 DEF D

\* At a set of places the sum is a number, and it takes its places in any order.
AnyOrder(g, s, widths) == g[s] \in Nat /\ \A x \in s : g[s] = widths[x] + g[s \ {x}]

\* A sum does not depend on the order the fold has chosen.
LEMMA SumTakesAny ==
    ASSUME NEW D, IsFiniteSet(D), NEW widths, \A x \in D : widths[x] \in Nat, NEW g,
           \A s \in SUBSET D : g[s] = SumAt(g, s, widths)
    PROVE  \A s \in SUBSET D : AnyOrder(g, s, widths)
<1> DEFINE Bad == {m \in Nat : \E s \in SUBSET D : Cardinality(s) = m /\ ~AnyOrder(g, s, widths)}
<1>1. \A s \in SUBSET D : Cardinality(s) \in Nat
  BY FS_Subset, FS_CardinalityType
<1> SUFFICES ASSUME Bad # {} PROVE FALSE
  BY <1>1
<1>2. PICK m \in Bad : \A n \in Bad : m <= n
  <2> HIDE DEF Bad
  <2>1. Bad \subseteq Nat
    BY DEF Bad
  <2> QED
    BY <2>1, LeastNumber
<1>3. PICK s \in SUBSET D : Cardinality(s) = m /\ ~AnyOrder(g, s, widths)
  BY <1>2
<1>4. ASSUME NEW t \in SUBSET D, Cardinality(t) < Cardinality(s)
      PROVE  AnyOrder(g, t, widths)
  <2>1. Cardinality(t) \in Nat /\ Cardinality(s) \in Nat /\ ~(m <= Cardinality(t))
    BY <1>1, <1>3, <1>4
  <2> QED
    BY <1>2, <2>1
<1>5. s # {}
  <2>1. g[{}] = 0
    BY DEF SumAt
  <2>2. g[{}] \in Nat /\ \A x \in {} : g[{}] = widths[x] + g[{} \ {x}]
    BY <2>1
  <2>3. AnyOrder(g, {}, widths)
    BY <2>2, Zenon DEF AnyOrder
  <2> QED
    BY <1>3, <2>3, Zenon
<1> DEFINE c == Taken(s)
<1>6. c \in s /\ c \in D /\ widths[c] \in Nat /\ g[s] = widths[c] + g[s \ {c}]
  <2>1. c \in s
    BY <1>5, TakenIsIn
  <2> QED
    BY <2>1, <1>5 DEF SumAt
<1> HIDE DEF c
<1>7. ASSUME NEW x \in s
      PROVE  /\ s \ {x} \in SUBSET D /\ Cardinality(s \ {x}) < Cardinality(s)
             /\ AnyOrder(g, s \ {x}, widths)
  <2>1. s \ {x} \in SUBSET D /\ Cardinality(s \ {x}) = Cardinality(s) - 1
    BY OneLess
  <2>2. Cardinality(s \ {x}) < Cardinality(s)
    BY <2>1, <1>1
  <2> QED
    BY <1>4, <2>1, <2>2
<1>8. g[s] \in Nat
  <2>1. g[s \ {c}] \in Nat
    BY <1>6, <1>7 DEF AnyOrder
  <2> QED
    BY <1>6, <2>1
<1>9. ASSUME NEW x \in s PROVE g[s] = widths[x] + g[s \ {x}]
  <2>1. CASE x = c
    BY <1>6, <2>1
  <2>2. CASE x # c
    <3> DEFINE both == (s \ {c}) \ {x}
    <3>1. both = (s \ {x}) \ {c} /\ x \in s \ {c} /\ c \in s \ {x}
      BY <1>6, <2>2
    <3> HIDE DEF both
    <3>2. g[s \ {c}] = widths[x] + g[both]
      BY <1>6, <1>7, <3>1 DEF AnyOrder, both
    <3>3. g[s \ {x}] = widths[c] + g[both] /\ g[s \ {x}] \in Nat
      BY <1>7, <3>1 DEF AnyOrder
    <3>4. g[both] \in Nat
      <4>1. both \in SUBSET D /\ Cardinality(both) = Cardinality(s \ {c}) - 1
            /\ Cardinality(s \ {c}) < Cardinality(s)
        BY <1>6, <1>7, <3>1, OneLess DEF both
      <4>2. Cardinality(both) < Cardinality(s)
        BY <1>1, <1>6, <1>7, <4>1
      <4>3. AnyOrder(g, both, widths)
        BY <4>1, <4>2, <1>4
      <4> QED
        BY <4>3 DEF AnyOrder
    <3>5. widths[x] \in Nat
      OBVIOUS
    <3> QED
      BY <1>6, <3>2, <3>3, <3>4, <3>5
  <2> QED
    BY <2>1, <2>2
<1> QED
  BY <1>3, <1>8, <1>9 DEF AnyOrder

\* Two lists of widths that are the same up to the order of their places have one sum.
LEMMA SameSum ==
    ASSUME NEW left, NEW right, IsFiniteSet(DOMAIN left), IsFiniteSet(DOMAIN right),
           \A x \in DOMAIN left : left[x] \in Nat, \A y \in DOMAIN right : right[y] \in Nat,
           NEW to \in [DOMAIN left -> DOMAIN right],
           \A x, y \in DOMAIN left : to[x] = to[y] => x = y,
           \A y \in DOMAIN right : \E x \in DOMAIN left : to[x] = y,
           \A x \in DOMAIN left : left[x] = right[to[x]]
    PROVE  Structured!Sum(left) = Structured!Sum(right)
<1> DEFINE L == DOMAIN left
           R == DOMAIN right
           Image(s) == {to[x] : x \in s}
<1>1. PICK g : Structured!Sum(left) = g[L] /\ \A s \in SUBSET L : g[s] = SumAt(g, s, left)
  BY SumSteps, Zenon
<1>2. PICK h : Structured!Sum(right) = h[R] /\ \A s \in SUBSET R : h[s] = SumAt(h, s, right)
  BY SumSteps, Zenon
<1>3. \A s \in SUBSET L : AnyOrder(g, s, left)
  BY <1>1, SumTakesAny, Zenon
<1>4. \A s \in SUBSET R : AnyOrder(h, s, right)
  BY <1>2, SumTakesAny, Zenon
<1>5. Image(L) = R
  OBVIOUS
<1>i. /\ to \in [L -> R] /\ \A x, y \in L : to[x] = to[y] => x = y
      /\ \A x \in L : left[x] = right[to[x]]
      /\ IsFiniteSet(L)
  OBVIOUS
<1>e. g[{}] = 0 /\ h[{}] = 0
  BY <1>1, <1>2 DEF SumAt
<1> HIDE DEF L, R
<1> DEFINE Bad == {m \in Nat : \E s \in SUBSET L : Cardinality(s) = m /\ g[s] # h[Image(s)]}
<1>6. \A s \in SUBSET L : Cardinality(s) \in Nat
  BY <1>i, FS_Subset, FS_CardinalityType
<1>7. ASSUME Bad # {} PROVE FALSE
  <2>1. PICK m \in Bad : \A n \in Bad : m <= n
    <3> HIDE DEF Bad
    <3>1. Bad \subseteq Nat
      BY DEF Bad
    <3> QED
      BY <3>1, <1>7, LeastNumber
  <2>2. PICK s \in SUBSET L : Cardinality(s) = m /\ g[s] # h[Image(s)]
    BY <2>1
  <2>3. s # {}
    <3>1. s = {} => Image(s) = {}
      OBVIOUS
    <3> HIDE DEF Image
    <3> QED
      BY <3>1, <2>2, <1>e
  <2>4. PICK x \in s : TRUE
    BY <2>3
  <2>5. /\ s \ {x} \in SUBSET L /\ Cardinality(s \ {x}) = Cardinality(s) - 1
        /\ Cardinality(s) \in Nat
    <3>1. x \in s /\ IsFiniteSet(L)
      BY <2>4, <1>i
    <3> HIDE DEF Image, Bad
    <3> QED
      BY <3>1, OneLess, Zenon
  <2>6. g[s \ {x}] = h[Image(s \ {x})]
    <3>1. Cardinality(s \ {x}) \in Nat /\ ~(m <= Cardinality(s \ {x}))
      BY <1>6, <2>2, <2>5
    <3> HIDE DEF Image
    <3> QED
      BY <2>1, <2>5, <3>1
  <2>7. to[x] \in Image(s) /\ Image(s) \in SUBSET R /\ Image(s) \ {to[x]} = Image(s \ {x})
    <3>1. to[x] \in Image(s)
      OBVIOUS
    <3>2. Image(s) \in SUBSET R
      BY <1>i
    <3>3. \A y \in s \ {x} : to[y] # to[x]
      BY <1>i
    <3> QED
      BY <3>1, <3>2, <3>3
  <2> HIDE DEF Image
  <2>8. g[s] = left[x] + g[s \ {x}]
    BY <1>3 DEF AnyOrder
  <2>9. h[Image(s)] = right[to[x]] + h[Image(s) \ {to[x]}]
    BY <1>4, <2>7 DEF AnyOrder
  <2> QED
    BY <1>i, <2>2, <2>6, <2>7, <2>8, <2>9
<1>8. g[L] = h[Image(L)]
  BY <1>6, <1>7
<1> HIDE DEF Image
<1> QED
  BY <1>1, <1>2, <1>5, <1>8 DEF L, R

\* The instance counts as the module does.
LEMMA FieldsCounted == \A S : Structured!Cardinality(S) = Cardinality(S)
  BY DEF Structured!Cardinality, Structured!IsFiniteSet, Cardinality, IsFiniteSet

\* No field is declared twice: a name is the name of one field.
DistinctFields ==
    \A i, j \in 1 .. Len(pipeline.fields) :
        pipeline.fields[i].name = pipeline.fields[j].name => i = j

\* As many names as fields: no field is declared twice.
LEMMA FieldsAreDistinct ==
    ASSUME pipeline \in LoweredPipelines,
           Structured!Cardinality(Structured!Names) = Len(pipeline.fields)
    PROVE  DistinctFields
<1> DEFINE n == Len(pipeline.fields)
           name == [i \in 1 .. n |-> pipeline.fields[i].name]
<1>1. n \in Nat /\ DOMAIN pipeline.fields = 1 .. n
  BY PipelineLists
<1>2. Structured!Names = {pipeline.fields[i].name : i \in 1 .. n}
  BY <1>1 DEF Structured!Names, Structured!Range
<1> HIDE DEF n
<1>3. Cardinality(Structured!Names) = n
  BY FieldsCounted, Zenon DEF n
<1>4. IsFiniteSet(1 .. n) /\ Cardinality(1 .. n) = n
  <2>1. 1 \in Int /\ n \in Int /\ ~(1 > n) => n - 1 + 1 = n
    BY <1>1
  <2> QED
    BY <1>1, <2>1, FS_Interval
<1>5. name \in Surjection(1 .. n, Structured!Names)
  <2>1. name \in [1 .. n -> Structured!Names]
    BY <1>2
  <2>2. \A t \in Structured!Names : \E i \in 1 .. n : name[i] = t
    BY <1>2
  <2> HIDE DEF name
  <2> QED
    BY <2>1, <2>2 DEF Surjection
<1>6. name \in Injection(1 .. n, Structured!Names)
  <2> HIDE DEF name
  <2> QED
    BY <1>3, <1>4, <1>5, FS_SurjSameCardinalityImpliesInj
<1>7. \A i, j \in 1 .. n : name[i] = name[j] => i = j
  <2> HIDE DEF name
  <2> QED
    BY <1>6, <1>5 DEF Injection, Surjection, IsInjective
<1> QED
  BY <1>7 DEF DistinctFields, n

\* The width of a field that is declared once.
LEMMA WidthOfField ==
    ASSUME pipeline \in LoweredPipelines, DistinctFields, NEW i \in 1 .. Len(pipeline.fields)
    PROVE  Structured!WidthOf(pipeline.fields[i].name) = pipeline.fields[i].width
<1> DEFINE of == {j \in DOMAIN pipeline.fields :
                      pipeline.fields[j].name = pipeline.fields[i].name}
<1>1. of = {i}
  BY PipelineLists DEF DistinctFields
<1>2. i \in Nat
  BY PipelineLists
<1>3. Structured!Min({i}) = i
  BY <1>2 DEF Structured!Min
<1>4. Structured!FirstDeclared(pipeline.fields[i].name) = pipeline.fields[i]
  BY <1>1, <1>3 DEF Structured!FirstDeclared
<1> QED
  BY <1>4 DEF Structured!WidthOf

\* The widths of the packet's members add up to the width the packet was established with,
\* as long as no field is declared or yielded twice and none is left out.
LEMMA PacketAsDeclared ==
    ASSUME pipeline \in LoweredPipelines, Structured!WithinLimits, DistinctFields,
           Structured!IsInjective(Structured!Members)
    PROVE  Structured!PacketWidth
             = Structured!Sum([j \in DOMAIN Structured!Yielded |-> Structured!Yielded[j].width])
<1> DEFINE fields == pipeline.fields
           M == Structured!Members
           Y == Structured!Yielded
           all == Structured!Only(pipeline.yield, Structured!Names)
           W == {f \in Structured!Range(fields) : f.name \in Structured!Range(pipeline.yield)}
           left == Structured!MemberWidths(M)
           right == [j \in DOMAIN Y |-> Y[j].width]
<1>1. PICK F : fields \in Seq(F)
  BY PipelineLists
<1>2. PICK N : pipeline.yield \in Seq(N)
  BY PipelineLists
<1>3. /\ Len(fields) \in Nat /\ DOMAIN fields = 1 .. Len(fields)
      /\ Len(pipeline.yield) \in Nat /\ DOMAIN pipeline.yield = 1 .. Len(pipeline.yield)
      /\ \A i \in 1 .. Len(fields) : fields[i].width \in Nat
  BY PipelineLists
<1>4. KeptOf(all, Len(pipeline.yield), N, pipeline.yield, Structured!Names)
  BY <1>2, OnlyKeeps
<1>5. KeptOf(Y, Len(fields), F, fields, W)
  <2>1. Y = Structured!Only(fields, W)
    BY DEF Structured!Yielded
  <2>2. KeptOf(Structured!Only(fields, W), Len(fields), F, fields, W)
    <3> HIDE DEF W, fields
    <3> QED
      BY <1>1, OnlyKeeps
  <2> QED
    BY <2>1, <2>2, Zenon
<1> HIDE DEF all
<1>6. /\ DOMAIN M = 1 .. Len(M) /\ Len(M) \in Nat /\ Len(M) = Len(all)
      /\ \A i \in 1 .. Len(M) : M[i] = all[i]
  <2>1. all \in Seq(N)
    BY <1>4 DEF KeptOf
  <2>2. /\ M = Structured!Kept(all) /\ Len(all) <= Limit
    BY DEF Structured!Members, Structured!WithinLimits, all
  <2>3. /\ M \in Seq(N) /\ Len(all) \in Nat
        /\ Len(M) = IF Len(all) < Limit THEN Len(all) ELSE Limit
        /\ \A i \in 1 .. Len(M) : M[i] = all[i]
    BY <2>1, <2>2, KeptHolds
  <2> HIDE DEF M
  <2>4. Len(M) = Len(all)
    BY <2>2, <2>3, LimitAssumption
  <2> QED
    BY <2>3, <2>4
<1> HIDE DEF M, Y
<1>7. /\ DOMAIN Y = 1 .. Len(Y) /\ Len(Y) \in Nat
  <2>1. Y \in Seq(F)
    BY <1>5 DEF KeptOf
  <2> QED
    BY <2>1
<1>8. PICK place \in [1 .. Len(Y) -> 1 .. Len(fields)] :
          /\ \A i, j \in 1 .. Len(Y) : place[i] = place[j] => i = j
          /\ \A j \in 1 .. Len(Y) : Y[j] = fields[place[j]]
  <2> HIDE DEF W, fields
  <2> QED
    BY <1>5 DEF KeptOf
<1>9. ASSUME NEW i \in 1 .. Len(Y), NEW j \in 1 .. Len(Y), Y[i].name = Y[j].name
      PROVE  i = j
  <2>1. fields[place[i]].name = fields[place[j]].name
    BY <1>8, <1>9
  <2>2. place[i] \in 1 .. Len(fields) /\ place[j] \in 1 .. Len(fields)
    BY <1>8
  <2>3. place[i] = place[j]
    BY <2>1, <2>2 DEF DistinctFields
  <2> QED
    BY <2>3, <1>8
<1>10. ASSUME NEW i \in 1 .. Len(M)
       PROVE  \E j \in 1 .. Len(Y) : Y[j].name = M[i]
  <2>1. M[i] \in Structured!Names /\ M[i] \in Structured!Range(pipeline.yield)
    <3>1. all[i] \in Structured!Names
      BY <1>4, <1>6 DEF KeptOf
    <3>2. PICK there \in [1 .. Len(all) -> 1 .. Len(pipeline.yield)] :
             \A k \in 1 .. Len(all) : all[k] = pipeline.yield[there[k]]
      BY <1>4 DEF KeptOf
    <3>3. there[i] \in 1 .. Len(pipeline.yield) /\ all[i] = pipeline.yield[there[i]]
      BY <3>2, <1>6
    <3>4. all[i] \in Structured!Range(pipeline.yield)
      BY <3>3, <1>3 DEF Structured!Range
    <3> QED
      BY <3>1, <3>4, <1>6
  <2>2. PICK p \in 1 .. Len(fields) : fields[p].name = M[i]
    BY <2>1, <1>3 DEF Structured!Names, Structured!Range
  <2>3. fields[p] \in W
    BY <2>1, <2>2, <1>3 DEF Structured!Range
  <2>4. PICK j \in 1 .. Len(Y) : Y[j] = fields[p]
    BY <2>3, <1>5 DEF KeptOf
  <2> QED
    BY <2>2, <2>4
<1>11. ASSUME NEW j \in 1 .. Len(Y)
       PROVE  \E i \in 1 .. Len(M) : Y[j].name = M[i]
  <2>1. Y[j] \in W
    BY <1>5 DEF KeptOf
  <2>2. Y[j].name \in Structured!Names /\ Y[j].name \in Structured!Range(pipeline.yield)
    BY <2>1 DEF Structured!Names
  <2>3. PICK q \in 1 .. Len(pipeline.yield) : pipeline.yield[q] = Y[j].name
    BY <2>2, <1>3 DEF Structured!Range
  <2>4. PICK i \in 1 .. Len(all) : all[i] = pipeline.yield[q]
    BY <2>2, <2>3, <1>4 DEF KeptOf
  <2> QED
    BY <2>3, <2>4, <1>6
<1> DEFINE to == [i \in 1 .. Len(M) |-> CHOOSE j \in 1 .. Len(Y) : Y[j].name = M[i]]
<1>12. ASSUME NEW i \in 1 .. Len(M) PROVE to[i] \in 1 .. Len(Y) /\ Y[to[i]].name = M[i]
  BY <1>10
<1>13. to \in [1 .. Len(M) -> 1 .. Len(Y)]
  BY <1>12
<1> HIDE DEF to
<1>14. \A i, k \in 1 .. Len(M) : M[i] = M[k] => i = k
  BY <1>6 DEF Structured!IsInjective, M
<1>15. \A i, k \in 1 .. Len(M) : to[i] = to[k] => i = k
  BY <1>12, <1>14
<1>16. ASSUME NEW j \in 1 .. Len(Y) PROVE \E i \in 1 .. Len(M) : to[i] = j
  <2>1. PICK i \in 1 .. Len(M) : Y[j].name = M[i]
    BY <1>11
  <2>2. to[i] = j
    BY <2>1, <1>9, <1>12
  <2> QED
    BY <2>2
<1>17. ASSUME NEW j \in 1 .. Len(Y)
       PROVE  right[j] \in Nat /\ right[j] = Structured!WidthOf(Y[j].name)
  <2>1. place[j] \in 1 .. Len(fields) /\ Y[j] = fields[place[j]]
    BY <1>8
  <2>2. Structured!WidthOf(fields[place[j]].name) = fields[place[j]].width
    BY <2>1, WidthOfField
  <2>3. right[j] = Y[j].width
    BY <1>7
  <2> HIDE DEF right
  <2> QED
    BY <1>3, <2>1, <2>2, <2>3
<1>18. DOMAIN right = 1 .. Len(Y) /\ DOMAIN left = 1 .. Len(M)
       /\ \A i \in 1 .. Len(M) : left[i] = Structured!WidthOf(M[i])
  BY <1>6, <1>7 DEF Structured!MemberWidths
<1> HIDE DEF left, right
<1>19. ASSUME NEW i \in 1 .. Len(M) PROVE left[i] = right[to[i]] /\ left[i] \in Nat
  BY <1>12, <1>17, <1>18
<1>20. IsFiniteSet(1 .. Len(M)) /\ IsFiniteSet(1 .. Len(Y))
  <2>1. 1 \in Int /\ Len(M) \in Int /\ Len(Y) \in Int
    BY <1>6, <1>7
  <2> QED
    BY <2>1, FS_Interval
<1>21. Structured!Sum(left) = Structured!Sum(right)
  <2>1. /\ IsFiniteSet(DOMAIN left) /\ IsFiniteSet(DOMAIN right)
        /\ \A x \in DOMAIN left : left[x] \in Nat
        /\ \A y \in DOMAIN right : right[y] \in Nat
        /\ to \in [DOMAIN left -> DOMAIN right]
        /\ \A x, y \in DOMAIN left : to[x] = to[y] => x = y
        /\ \A y \in DOMAIN right : \E x \in DOMAIN left : to[x] = y
        /\ \A x \in DOMAIN left : left[x] = right[to[x]]
    <3>1. DOMAIN left = 1 .. Len(M) /\ DOMAIN right = 1 .. Len(Y)
      BY <1>18
    <3>2. to \in [DOMAIN left -> DOMAIN right]
      BY <1>13, <3>1, Zenon
    <3>3. IsFiniteSet(DOMAIN left) /\ IsFiniteSet(DOMAIN right)
      BY <1>20, <3>1, Zenon
    <3>4. \A x, y \in DOMAIN left : to[x] = to[y] => x = y
      BY <1>15, <3>1, Zenon
    <3>5. \A y \in DOMAIN right : \E x \in DOMAIN left : to[x] = y
      BY <1>16, <3>1, Zenon
    <3>6. /\ \A x \in DOMAIN left : left[x] \in Nat /\ left[x] = right[to[x]]
          /\ \A y \in DOMAIN right : right[y] \in Nat
      BY <1>17, <1>19, <3>1, Zenon
    <3> QED
      BY <3>2, <3>3, <3>4, <3>5, <3>6, Zenon
  <2> QED
    BY <2>1, SameSum, Zenon
<1> QED
  BY <1>21 DEF Structured!PacketWidth, left, right, M, Y

\* The packet of the fields the yield reads.
PacketOfYield ==
    packet = Structured!Sum([j \in DOMAIN Structured!Yielded |-> Structured!Yielded[j].width])

\* A stage is checked at a time, and the stages checked so far read what was written
\* before them; what is lowered has had every kept stage checked.
StructuredInv ==
    /\ pipeline \in LoweredPipelines
    /\ IsList(views)
    /\ pipeline_phase = "establishing" => Len(views) = 0
    /\ pipeline_phase = "checking" =>
          Len(views) = 0 \/ Len(views) < Len(Structured!Kept(pipeline.stages))
    /\ pipeline_phase \in {"lowering", "lowered"} =>
          Len(views) = Len(Structured!Kept(pipeline.stages))
    /\ \A k \in 1 .. Len(views) : ReadsWritten(k)
    /\ pipeline_phase \in {"checking", "lowering", "lowered"} => PacketOfYield
    /\ pipeline_phase = "lowered" => records.width = Structured!PacketWidth

\* A statement keeps a stage when it has one.
LEMMA StagesKept ==
    ASSUME pipeline \in LoweredPipelines
    PROVE  LET kept == Len(Structured!Kept(pipeline.stages))
           IN  /\ kept \in Nat /\ kept <= Len(pipeline.stages)
               /\ pipeline.stages # << >> => kept >= 1
               /\ Len(pipeline.stages) <= Limit => kept = Len(pipeline.stages)
<1>1. PICK S : pipeline.stages \in Seq(S)
  BY PipelinesAssumption
<1>2. /\ Len(pipeline.stages) \in Nat
      /\ Len(Structured!Kept(pipeline.stages))
           = IF Len(pipeline.stages) < Limit THEN Len(pipeline.stages) ELSE Limit
  BY <1>1, KeptHolds
<1>3. pipeline.stages # << >> => Len(pipeline.stages) # 0
  BY <1>1
<1> QED
  BY <1>2, <1>3, LimitAssumption

\* Nothing is checked at first.
LEMMA StructuredInvInit == Structured!Init => StructuredInv
<1> SUFFICES ASSUME Structured!Init PROVE StructuredInv
  OBVIOUS
<1>1. /\ pipeline_phase = "establishing" /\ pipeline \in LoweredPipelines /\ views = << >>
  BY DEF Structured!Init
<1>2. << >> \in Seq({}) /\ Len(<< >>) = 0 /\ 1 .. 0 = {}
  OBVIOUS
<1> QED
  BY <1>1, <1>2 DEF StructuredInv, IsList

\* What is said of a statement stays true of it while the statement stays.
LEMMA StatementStays ==
    ASSUME pipeline' = pipeline
    PROVE  /\ \A k : ReadsWritten(k)' <=> ReadsWritten(k)
           /\ Structured!Kept(pipeline.stages)' = Structured!Kept(pipeline.stages)
           /\ Structured!PacketWidth' = Structured!PacketWidth
           /\ packet' = packet => (PacketOfYield' <=> PacketOfYield)
<1>1. \A k : ReadsWritten(k)' <=> ReadsWritten(k)
  BY DEF ReadsWritten, Structured!FieldReads, Structured!Writes, Structured!Names
<1>2. Structured!Kept(pipeline.stages)' = Structured!Kept(pipeline.stages)
  BY DEF Structured!Kept
<1>3. Structured!PacketWidth' = Structured!PacketWidth
  BY DEF Structured!PacketWidth, Structured!MemberWidths, Structured!WidthOf,
         Structured!FirstDeclared, Structured!Members, Structured!Names, Structured!Kept
<1>4. packet' = packet => (PacketOfYield' <=> PacketOfYield)
  BY DEF PacketOfYield, Structured!Yielded
<1> QED
  BY <1>1, <1>2, <1>3, <1>4

\* Every step of the lowering keeps the invariant.
LEMMA StructuredInvStep ==
    ASSUME StructuredInv, [Structured!Next]_(Structured!vars)
    PROVE  StructuredInv'
<1>1. CASE Structured!Establish
  <2>1. /\ pipeline_phase' \in {"rejected", "checking"}
        /\ pipeline_phase = "establishing"
        /\ UNCHANGED <<pipeline, views, records>>
        /\ packet' = Structured!Sum([j \in DOMAIN Structured!Yielded |->
                                        Structured!Yielded[j].width])
    BY <1>1 DEF Structured!Establish
  <2>2. PacketOfYield'
    BY <2>1 DEF PacketOfYield, Structured!Yielded
  <2>3. \A k : ReadsWritten(k)' <=> ReadsWritten(k)
    BY <2>1, StatementStays
  <2>4. Len(views) = 0
    BY <2>1 DEF StructuredInv
  <2> QED
    BY <2>1, <2>2, <2>3, <2>4 DEF StructuredInv
<1>2. CASE Structured!CheckStage
  <2> DEFINE k == Len(views) + 1
             ok == Structured!Members # << >> /\ pipeline.stages # << >> /\ Structured!Lawful(k)
             kept == Len(Structured!Kept(pipeline.stages))
  <2>1. /\ pipeline_phase = "checking"
        /\ UNCHANGED <<pipeline, packet, records>>
        /\ ok => /\ views' = Append(views, Structured!View(k))
                 /\ pipeline_phase' = IF k = kept THEN "lowering" ELSE "checking"
        /\ ~ok => pipeline_phase' = "rejected" /\ UNCHANGED views
    BY <1>2 DEF Structured!CheckStage
  <2>2. CASE ok
    <3>1. /\ IsList(views') /\ Len(views) \in Nat /\ Len(views') = k
      <4> HIDE DEF ok
      <4>1. views' = Append(views, Structured!View(k)) /\ IsList(views)
        BY <2>1, <2>2 DEF StructuredInv
      <4> QED
        BY <4>1, ListAppended
    <3>2. k <= kept /\ kept \in Nat /\ k \in 1 .. Len(pipeline.stages)
      <4>1. /\ kept \in Nat /\ kept <= Len(pipeline.stages) /\ kept >= 1
            /\ Len(pipeline.stages) \in Nat
        BY <2>2, StagesKept, PipelineLists DEF StructuredInv
      <4>2. Len(views) = 0 \/ Len(views) < kept
        BY <2>1 DEF StructuredInv
      <4> HIDE DEF kept
      <4> QED
        BY <3>1, <4>1, <4>2
    <3>3. ReadsWritten(k)
      <4> HIDE DEF k
      <4> QED
        BY <2>2, <3>2, ReadsWereWritten DEF StructuredInv
    <3>4. \A j \in 1 .. Len(views') : ReadsWritten(j)
      <4>1. \A j \in 1 .. Len(views') : j \in 1 .. Len(views) \/ j = k
        BY <3>1
      <4> HIDE DEF k
      <4> QED
        BY <3>3, <4>1 DEF StructuredInv
    <3>5. /\ \A j \in 1 .. Len(views') : ReadsWritten(j)'
          /\ PacketOfYield' /\ pipeline \in LoweredPipelines
          /\ Len(Structured!Kept(pipeline.stages))' = kept
      BY <2>1, <3>4, StatementStays DEF StructuredInv
    <3>6. /\ pipeline_phase' = "checking" => Len(views') < kept
          /\ pipeline_phase' # "checking" => pipeline_phase' = "lowering" /\ Len(views') = kept
      <4> HIDE DEF kept, ok
      <4> QED
        BY <2>1, <2>2, <3>1, <3>2
    <3> HIDE DEF kept
    <3> QED
      BY <2>1, <3>1, <3>5, <3>6 DEF StructuredInv
  <2>3. CASE ~ok
    <3> HIDE DEF ok
    <3>1. pipeline_phase' = "rejected" /\ UNCHANGED <<pipeline, views, packet, records>>
      BY <2>1, <2>3
    <3>2. \A j : ReadsWritten(j)' <=> ReadsWritten(j)
      BY <3>1, StatementStays
    <3> QED
      BY <3>1, <3>2 DEF StructuredInv
  <2> QED
    BY <2>2, <2>3
<1>3. CASE Structured!Lower
  <2>1. /\ pipeline_phase = "lowering" /\ pipeline_phase' = "lowered"
        /\ UNCHANGED <<pipeline, packet, views>>
        /\ records'.width = Structured!PacketWidth
    BY <1>3 DEF Structured!Lower
  <2> QED
    BY <2>1, StatementStays DEF StructuredInv
<1>4. CASE UNCHANGED Structured!vars
  <2>1. UNCHANGED <<pipeline_phase, pipeline, packet, views, records>>
    BY <1>4 DEF Structured!vars
  <2> QED
    BY <2>1, StatementStays DEF StructuredInv
<1> QED
  BY <1>1, <1>2, <1>3, <1>4 DEF Structured!Next

\* Every field a stage of a lowered pipeline reads was written by a stage before it, and
\* the packet is as wide as its name was established, for every statement and every
\* capacity of the lists: the laws of a stage (pipeline_stage.c), the walk over the yield
\* (pipeline_lower.c) and the sum of the yielded fields (pipeline_identity.c) agree.
THEOREM PipelineAlwaysAsDeclared == Structured!Spec => []LoweredAsDeclared
<1>1. StructuredInv => LoweredAsDeclared
  <2> SUFFICES ASSUME StructuredInv, pipeline_phase = "lowered", Structured!WithinLimits
               PROVE  /\ \A k \in DOMAIN pipeline.stages : ReadsWritten(k)
                      /\ /\ Structured!IsInjective(Structured!Members)
                         /\ Structured!Cardinality(Structured!Names) = Len(pipeline.fields)
                         => records.width = packet
    BY DEF LoweredAsDeclared, Structured!LoweredAsDeclared, ReadsWritten
  <2>1. pipeline \in LoweredPipelines
    BY DEF StructuredInv
  <2>2. Len(views) = Len(pipeline.stages)
    BY <2>1, StagesKept DEF StructuredInv, Structured!WithinLimits
  <2>3. \A k \in DOMAIN pipeline.stages : ReadsWritten(k)
    BY <2>1, <2>2, PipelineLists DEF StructuredInv
  <2>4. ASSUME Structured!IsInjective(Structured!Members),
               Structured!Cardinality(Structured!Names) = Len(pipeline.fields)
        PROVE  records.width = packet
    <3>1. DistinctFields
      BY <2>1, <2>4, FieldsAreDistinct
    <3> QED
      BY <2>1, <2>4, <3>1, PacketAsDeclared DEF StructuredInv, PacketOfYield
  <2> QED
    BY <2>3, <2>4
<1> QED
  BY <1>1, StructuredInvInit, StructuredInvStep, PTL DEF Structured!Spec

-----------------------------------------------------------------------------
(* The codes of an fsm: recursive functions of the natural numbers, the    *)
(* widths the three paths work out, and the initial state.                 *)

\* A function of the natural numbers that is b up to a number, and above it takes a step
\* from its value at an earlier one, as far as m.
StepsFrom(g, m, lim, b, prev, step) ==
    \A n \in 0 .. m : g[n] = IF n <= lim THEN b ELSE step[g[prev[n]]]

\* Above a number, the value is that of an earlier number.
Earlier(lim, prev) == \A n \in Nat : n > lim => prev[n] \in Nat /\ prev[n] < n

\* Such functions agree as far as both go.
LEMMA StepsAgree ==
    ASSUME NEW lim \in Nat, NEW b, NEW prev, NEW step,
           Earlier(lim, prev),
           NEW m \in Nat, NEW k \in Nat, m <= k, NEW g, NEW h,
           StepsFrom(g, m, lim, b, prev, step), StepsFrom(h, k, lim, b, prev, step)
    PROVE  \A n \in 0 .. m : g[n] = h[n]
<1> DEFINE Bad == {n \in 0 .. m : g[n] # h[n]}
<1> SUFFICES ASSUME Bad # {} PROVE FALSE
  OBVIOUS
<1>1. PICK n \in Bad : \A j \in Bad : n <= j
  <2> HIDE DEF Bad
  <2>1. Bad \subseteq Nat
    BY DEF Bad
  <2> QED
    BY <2>1, LeastNumber
<1>2. n \in 0 .. m /\ n \in 0 .. k /\ n \in Nat /\ g[n] # h[n]
  BY <1>1
<1>3. CASE n <= lim
  BY <1>2, <1>3 DEF StepsFrom
<1>4. CASE ~(n <= lim)
  <2>1. prev[n] \in 0 .. m /\ prev[n] \in Nat /\ ~(n <= prev[n])
    BY <1>2, <1>4 DEF Earlier
  <2>2. g[prev[n]] = h[prev[n]]
    BY <1>1, <2>1
  <2> QED
    BY <1>2, <1>4, <2>2 DEF StepsFrom
<1> QED
  BY <1>3, <1>4

\* The function over all the natural numbers.
Follows(g, lim, b, prev, step) ==
    /\ g = [n \in Nat |-> g[n]]
    /\ \A n \in Nat : g[n] = IF n <= lim THEN b ELSE step[g[prev[n]]]

\* There is one over all the natural numbers.
LEMMA StepsExist ==
    ASSUME NEW lim \in Nat, NEW b, NEW prev, NEW step,
           Earlier(lim, prev)
    PROVE  \E g : Follows(g, lim, b, prev, step)
<1> DEFINE Is(g, m) == StepsFrom(g, m, lim, b, prev, step)
<1>0. ASSUME NEW m \in Nat, NEW k \in Nat, m <= k, NEW g, NEW h, Is(g, m), Is(h, k)
      PROVE  \A n \in 0 .. m : g[n] = h[n]
  BY <1>0, StepsAgree
<1>1. \E g : Is(g, 0)
  <2>1. Is([n \in {0} |-> b], 0)
    BY DEF StepsFrom
  <2> QED
    BY <2>1
<1>2. ASSUME NEW m \in Nat, NEW g, Is(g, m)
      PROVE  \E h : Is(h, m + 1)
  <2> DEFINE h == [n \in 0 .. m + 1 |-> IF n <= m THEN g[n]
                                        ELSE IF n <= lim THEN b ELSE step[g[prev[n]]]]
  <2>1. ASSUME NEW n \in 0 .. m + 1
        PROVE  h[n] = IF n <= lim THEN b ELSE step[h[prev[n]]]
    <3>1. n > lim => prev[n] \in 0 .. m /\ prev[n] \in 0 .. m + 1 /\ prev[n] <= m
      BY DEF Earlier
    <3>2. n > lim => h[prev[n]] = g[prev[n]]
      BY <3>1
    <3>3. h[n] = IF n <= lim THEN b ELSE step[g[prev[n]]]
      <4>1. CASE n <= m
        <5>1. n \in 0 .. m /\ h[n] = g[n]
          BY <4>1
        <5> HIDE DEF h
        <5> QED
          BY <5>1, <1>2 DEF StepsFrom
      <4>2. CASE ~(n <= m)
        BY <4>2
      <4> QED
        BY <4>1, <4>2
    <3> HIDE DEF h
    <3>4. n \in Nat
      OBVIOUS
    <3> QED
      BY <3>2, <3>3, <3>4
  <2> HIDE DEF h
  <2>2. Is(h, m + 1)
    BY <2>1 DEF StepsFrom
  <2> QED
    BY <2>2
<1>3. \A m \in Nat : \E g : Is(g, m)
  <2> DEFINE Bad == {m \in Nat : ~\E g : Is(g, m)}
  <2> HIDE DEF Is
  <2> SUFFICES ASSUME Bad # {} PROVE FALSE
    OBVIOUS
  <2>1. PICK m \in Bad : \A n \in Bad : m <= n
    <3> HIDE DEF Bad
    <3>1. Bad \subseteq Nat
      BY DEF Bad
    <3> QED
      BY <3>1, LeastNumber
  <2>2. m # 0
    BY <1>1, <2>1
  <2>3. m - 1 \in Nat /\ ~(m <= m - 1) /\ (m - 1) + 1 = m
    BY <2>1, <2>2
  <2>4. PICK g : Is(g, m - 1)
    BY <2>1, <2>3
  <2> QED
    BY <1>2, <2>1, <2>3, <2>4
<1> DEFINE upto == [m \in Nat |-> CHOOSE g : Is(g, m)]
           all == [n \in Nat |-> upto[n][n]]
<1>4. ASSUME NEW m \in Nat PROVE Is(upto[m], m)
  <2> HIDE DEF Is
  <2> QED
    BY <1>3
<1> HIDE DEF upto
<1>5. ASSUME NEW n \in Nat PROVE all[n] = IF n <= lim THEN b ELSE step[all[prev[n]]]
  <2>1. all[n] = upto[n][n]
    OBVIOUS
  <2>2. upto[n][n] = IF n <= lim THEN b ELSE step[upto[n][prev[n]]]
    BY <1>4 DEF StepsFrom
  <2>3. ASSUME n > lim PROVE upto[n][prev[n]] = all[prev[n]]
    <3>1. prev[n] \in Nat /\ prev[n] <= n /\ prev[n] \in 0 .. prev[n]
      BY <2>3 DEF Earlier
    <3>2. Is(upto[n], n) /\ Is(upto[prev[n]], prev[n])
      BY <1>4, <3>1
    <3>3. upto[prev[n]][prev[n]] = upto[n][prev[n]]
      <4>1. \A i \in 0 .. prev[n] : upto[prev[n]][i] = upto[n][i]
        <5>1. /\ prev[n] \in Nat /\ prev[n] <= n
              /\ Is(upto[prev[n]], prev[n]) /\ Is(upto[n], n)
          BY <3>1, <3>2
        <5> HIDE DEF Is
        <5> QED
          BY <5>1, <1>0
      <4> QED
        BY <3>1, <4>1
    <3>4. all[prev[n]] = upto[prev[n]][prev[n]]
      BY <3>1
    <3> QED
      BY <3>3, <3>4
  <2> HIDE DEF all
  <2> QED
    BY <2>1, <2>2, <2>3
<1>6. all = [n \in Nat |-> all[n]]
  OBVIOUS
<1> HIDE DEF all
<1>7. Follows(all, lim, b, prev, step)
  BY <1>5, <1>6 DEF Follows
<1> QED
  BY <1>7

\* When the steps stay among the natural numbers, so does the function.
LEMMA StepsAreNumbers ==
    ASSUME NEW lim \in Nat, NEW b \in Nat, NEW prev, NEW step \in [Nat -> Nat],
           Earlier(lim, prev)
    PROVE  \E g \in [Nat -> Nat] : Follows(g, lim, b, prev, step)
<1>1. PICK g : Follows(g, lim, b, prev, step)
  BY StepsExist
<1>2. \A n \in Nat : g[n] = IF n <= lim THEN b ELSE step[g[prev[n]]]
  BY <1>1 DEF Follows
<1>3. \A n \in Nat : g[n] \in Nat
  <2> DEFINE Bad == {n \in Nat : g[n] \notin Nat}
  <2> SUFFICES ASSUME Bad # {} PROVE FALSE
    OBVIOUS
  <2>1. PICK n \in Bad : \A j \in Bad : n <= j
    <3> HIDE DEF Bad
    <3>1. Bad \subseteq Nat
      BY DEF Bad
    <3> QED
      BY <3>1, LeastNumber
  <2>2. n \in Nat /\ g[n] \notin Nat
    BY <2>1
  <2>3. n > lim
    BY <1>2, <2>2
  <2>4. prev[n] \in Nat /\ ~(n <= prev[n])
    BY <2>2, <2>3 DEF Earlier
  <2>5. g[prev[n]] \in Nat
    BY <2>1, <2>4
  <2> QED
    BY <1>2, <2>2, <2>3, <2>5
<1>4. g \in [Nat -> Nat]
  <2>1. g = [n \in Nat |-> g[n]]
    BY <1>1 DEF Follows
  <2> QED
    BY <1>3, <2>1
<1> QED
  BY <1>1, <1>4

\* A bit more has twice the codes.
LEMMA CodesDouble ==
    /\ Machine!Codes[0] = 1
    /\ \A n \in Nat : Machine!Codes[n] \in Nat /\ Machine!Codes[n + 1] = 2 * Machine!Codes[n]
<1> DEFINE prev == [n \in Nat |-> n - 1]
           step == [v \in Nat |-> 2 * v]
           Codes == CHOOSE g : g = [n \in Nat |-> IF n = 0 THEN 1 ELSE 2 * g[n - 1]]
<1>1. Earlier(0, prev)
  BY DEF Earlier
<1>2. step \in [Nat -> Nat]
  OBVIOUS
<1>3. PICK g \in [Nat -> Nat] : Follows(g, 0, 1, prev, step)
  <2> HIDE DEF prev, step
  <2> QED
    BY <1>1, <1>2, StepsAreNumbers
<1>4. ASSUME NEW n \in Nat PROVE g[n] = IF n = 0 THEN 1 ELSE 2 * g[n - 1]
  <2>1. n # 0 => prev[n] = n - 1 /\ n - 1 \in Nat /\ g[n - 1] \in Nat
    OBVIOUS
  <2>2. n # 0 => step[g[n - 1]] = 2 * g[n - 1]
    BY <2>1
  <2> HIDE DEF prev, step
  <2> QED
    BY <1>3, <2>1, <2>2 DEF Follows
<1>5. g = [n \in Nat |-> IF n = 0 THEN 1 ELSE 2 * g[n - 1]]
  <2>1. g = [n \in Nat |-> g[n]]
    OBVIOUS
  <2> QED
    BY <1>4, <2>1
<1>6. Codes = [n \in Nat |-> IF n = 0 THEN 1 ELSE 2 * Codes[n - 1]]
  BY <1>5
<1>7. Machine!Codes = Codes
  BY DEF Machine!Codes
<1> HIDE DEF Codes
<1>8. \A n \in Nat : Codes[n] = IF n = 0 THEN 1 ELSE 2 * Codes[n - 1]
  BY <1>6
<1>9. \A n \in Nat : Codes[n] \in Nat
  <2> DEFINE Bad == {n \in Nat : Codes[n] \notin Nat}
  <2> SUFFICES ASSUME Bad # {} PROVE FALSE
    OBVIOUS
  <2>1. PICK n \in Bad : \A j \in Bad : n <= j
    <3> HIDE DEF Bad
    <3>1. Bad \subseteq Nat
      BY DEF Bad
    <3> QED
      BY <3>1, LeastNumber
  <2>2. n # 0
    BY <1>8, <2>1
  <2>3. n - 1 \in Nat /\ ~(n <= n - 1)
    BY <2>1, <2>2
  <2>4. Codes[n - 1] \in Nat
    BY <2>1, <2>3
  <2>5. Codes[n] = 2 * Codes[n - 1]
    BY <1>8, <2>1, <2>2
  <2> QED
    BY <2>1, <2>4, <2>5
<1>10. \A n \in Nat : Codes[n + 1] = 2 * Codes[n]
  <2> TAKE n \in Nat
  <2>1. n + 1 \in Nat /\ n + 1 # 0 /\ (n + 1) - 1 = n
    OBVIOUS
  <2> QED
    BY <1>8, <2>1
<1> QED
  BY <1>7, <1>8, <1>9, <1>10

\* The shifts of fsm.c, one for each halving.
LEMMA HalvingsStep ==
    \A n \in Nat : /\ Machine!Halvings[n] \in Nat
                   /\ Machine!Halvings[n] = IF n > 1 THEN 1 + Machine!Halvings[n \div 2] ELSE 0
<1> DEFINE prev == [n \in Nat |-> n \div 2]
           step == [v \in Nat |-> 1 + v]
           Halvings == CHOOSE g : g = [n \in Nat |-> IF n > 1 THEN 1 + g[n \div 2] ELSE 0]
<1>0. \A n \in Nat : n \div 2 \in Nat /\ (n > 1 => n \div 2 < n)
  OBVIOUS
<1>1. Earlier(1, prev)
  BY <1>0 DEF Earlier
<1>2. step \in [Nat -> Nat]
  OBVIOUS
<1>3. PICK g \in [Nat -> Nat] : Follows(g, 1, 0, prev, step)
  <2> HIDE DEF prev, step
  <2> QED
    BY <1>1, <1>2, StepsAreNumbers
<1>4. ASSUME NEW n \in Nat PROVE g[n] = IF n > 1 THEN 1 + g[n \div 2] ELSE 0
  <2>1. prev[n] = n \div 2 /\ n \div 2 \in Nat /\ g[n \div 2] \in Nat
    BY <1>0
  <2>2. step[g[n \div 2]] = 1 + g[n \div 2]
    BY <2>1
  <2> HIDE DEF prev, step
  <2> QED
    BY <1>3, <2>1, <2>2 DEF Follows
<1>5. g = [n \in Nat |-> IF n > 1 THEN 1 + g[n \div 2] ELSE 0]
  <2>1. g = [n \in Nat |-> g[n]]
    OBVIOUS
  <2> QED
    BY <1>4, <2>1
<1>6. Halvings = [n \in Nat |-> IF n > 1 THEN 1 + Halvings[n \div 2] ELSE 0]
  BY <1>5
<1>7. Machine!Halvings = Halvings
  BY DEF Machine!Halvings
<1> HIDE DEF Halvings
<1>8. \A n \in Nat : Halvings[n] = IF n > 1 THEN 1 + Halvings[n \div 2] ELSE 0
  BY <1>6
<1>9. \A n \in Nat : Halvings[n] \in Nat
  <2> DEFINE Bad == {n \in Nat : Halvings[n] \notin Nat}
  <2> SUFFICES ASSUME Bad # {} PROVE FALSE
    OBVIOUS
  <2>1. PICK n \in Bad : \A j \in Bad : n <= j
    <3> HIDE DEF Bad
    <3>1. Bad \subseteq Nat
      BY DEF Bad
    <3> QED
      BY <3>1, LeastNumber
  <2>2. n \in Nat /\ n > 1
    BY <1>8, <2>1
  <2>3. n \div 2 \in Nat /\ ~(n <= n \div 2)
    BY <1>0, <2>2
  <2>4. Halvings[n \div 2] \in Nat
    BY <2>1, <2>3
  <2>5. Halvings[n] = 1 + Halvings[n \div 2]
    BY <1>8, <2>2
  <2> QED
    BY <2>1, <2>4, <2>5
<1> QED
  BY <1>7, <1>8, <1>9

\* The doublings of the structured path, one for each halving rounded up.
LEMMA DoublingsStep ==
    \A n \in Nat : /\ Machine!Doublings[n] \in Nat
                   /\ Machine!Doublings[n] = IF n > 1 THEN 1 + Machine!Doublings[(n + 1) \div 2] ELSE 0
<1> DEFINE prev == [n \in Nat |-> (n + 1) \div 2]
           step == [v \in Nat |-> 1 + v]
           Doublings == CHOOSE g : g = [n \in Nat |-> IF n > 1 THEN 1 + g[(n + 1) \div 2] ELSE 0]
<1>0. \A n \in Nat : (n + 1) \div 2 \in Nat /\ (n > 1 => (n + 1) \div 2 < n)
  OBVIOUS
<1>1. Earlier(1, prev)
  BY <1>0 DEF Earlier
<1>2. step \in [Nat -> Nat]
  OBVIOUS
<1>3. PICK g \in [Nat -> Nat] : Follows(g, 1, 0, prev, step)
  <2> HIDE DEF prev, step
  <2> QED
    BY <1>1, <1>2, StepsAreNumbers
<1>4. ASSUME NEW n \in Nat PROVE g[n] = IF n > 1 THEN 1 + g[(n + 1) \div 2] ELSE 0
  <2>1. prev[n] = (n + 1) \div 2 /\ (n + 1) \div 2 \in Nat /\ g[(n + 1) \div 2] \in Nat
    BY <1>0
  <2>2. step[g[(n + 1) \div 2]] = 1 + g[(n + 1) \div 2]
    BY <2>1
  <2> HIDE DEF prev, step
  <2> QED
    BY <1>3, <2>1, <2>2 DEF Follows
<1>5. g = [n \in Nat |-> IF n > 1 THEN 1 + g[(n + 1) \div 2] ELSE 0]
  <2>1. g = [n \in Nat |-> g[n]]
    OBVIOUS
  <2> QED
    BY <1>4, <2>1
<1>6. Doublings = [n \in Nat |-> IF n > 1 THEN 1 + Doublings[(n + 1) \div 2] ELSE 0]
  BY <1>5
<1>7. Machine!Doublings = Doublings
  BY DEF Machine!Doublings
<1> HIDE DEF Doublings
<1>8. \A n \in Nat : Doublings[n] = IF n > 1 THEN 1 + Doublings[(n + 1) \div 2] ELSE 0
  BY <1>6
<1>9. \A n \in Nat : Doublings[n] \in Nat
  <2> DEFINE Bad == {n \in Nat : Doublings[n] \notin Nat}
  <2> SUFFICES ASSUME Bad # {} PROVE FALSE
    OBVIOUS
  <2>1. PICK n \in Bad : \A j \in Bad : n <= j
    <3> HIDE DEF Bad
    <3>1. Bad \subseteq Nat
      BY DEF Bad
    <3> QED
      BY <3>1, LeastNumber
  <2>2. n \in Nat /\ n > 1
    BY <1>8, <2>1
  <2>3. (n + 1) \div 2 \in Nat /\ ~(n <= (n + 1) \div 2)
    BY <1>0, <2>2
  <2>4. Doublings[(n + 1) \div 2] \in Nat
    BY <2>1, <2>3
  <2>5. Doublings[n] = 1 + Doublings[(n + 1) \div 2]
    BY <1>8, <2>2
  <2> QED
    BY <2>1, <2>4, <2>5
<1> QED
  BY <1>7, <1>8, <1>9

\* A width of one bit more than the halvings of a number holds a code for the number.
LEMMA HalvingsFit == \A n \in Nat : n < Machine!Codes[1 + Machine!Halvings[n]]
<1> DEFINE Bad == {n \in Nat : ~(n < Machine!Codes[1 + Machine!Halvings[n]])}
<1> SUFFICES ASSUME Bad # {} PROVE FALSE
  OBVIOUS
<1>1. PICK n \in Bad : \A j \in Bad : n <= j
  <2> HIDE DEF Bad
  <2>1. Bad \subseteq Nat
    BY DEF Bad
  <2> QED
    BY <2>1, LeastNumber
<1>2. n \in Nat /\ ~(n < Machine!Codes[1 + Machine!Halvings[n]])
  BY <1>1
<1> HIDE DEF Bad
<1>3. Machine!Codes[1] = 2 /\ Machine!Codes[0 + 1] = 2
  BY CodesDouble
<1>4. CASE n <= 1
  <2>1. Machine!Halvings[n] = 0
    BY <1>2, <1>4, HalvingsStep
  <2> QED
    BY <1>2, <1>3, <1>4, <2>1
<1>5. CASE n > 1
  <2> DEFINE half == n \div 2
  <2>1. half \in Nat /\ ~(n <= half) /\ n <= 2 * half + 1
    BY <1>2, <1>5
  <2> HIDE DEF half
  <2>2. half < Machine!Codes[1 + Machine!Halvings[half]]
    BY <1>1, <2>1 DEF Bad
  <2> DEFINE h == Machine!Halvings[half]
             c == Machine!Codes[1 + h]
  <2>3. h \in Nat /\ Machine!Halvings[n] = 1 + h
    BY <1>2, <1>5, <2>1, HalvingsStep DEF half
  <2> HIDE DEF h
  <2>4. 1 + h \in Nat /\ 1 + (1 + h) = (1 + h) + 1
    BY <2>3
  <2>5. c \in Nat /\ Machine!Codes[(1 + h) + 1] = 2 * c
    BY <2>4, CodesDouble
  <2> HIDE DEF c
  <2>6. Machine!Codes[1 + Machine!Halvings[n]] = 2 * c /\ half < c
    BY <2>2, <2>3, <2>4, <2>5 DEF h, c
  <2> QED
    BY <1>2, <2>1, <2>5, <2>6
<1> QED
  BY <1>2, <1>4, <1>5

\* As many doublings as the structured path counts give a code to each of n states.
LEMMA DoublingsFit == \A n \in Nat : n <= Machine!Codes[Machine!Doublings[n]]
<1> DEFINE Bad == {n \in Nat : ~(n <= Machine!Codes[Machine!Doublings[n]])}
<1> SUFFICES ASSUME Bad # {} PROVE FALSE
  OBVIOUS
<1>1. PICK n \in Bad : \A j \in Bad : n <= j
  <2> HIDE DEF Bad
  <2>1. Bad \subseteq Nat
    BY DEF Bad
  <2> QED
    BY <2>1, LeastNumber
<1>2. n \in Nat /\ ~(n <= Machine!Codes[Machine!Doublings[n]])
  BY <1>1
<1> HIDE DEF Bad
<1>3. CASE n <= 1
  <2>1. Machine!Doublings[n] = 0 /\ Machine!Codes[0] = 1
    BY <1>2, <1>3, DoublingsStep, CodesDouble
  <2> QED
    BY <1>2, <1>3, <2>1
<1>4. CASE n > 1
  <2> DEFINE half == (n + 1) \div 2
  <2>1. half \in Nat /\ ~(n <= half) /\ n <= 2 * half
    BY <1>2, <1>4
  <2> HIDE DEF half
  <2>2. half <= Machine!Codes[Machine!Doublings[half]]
    BY <1>1, <2>1 DEF Bad
  <2> DEFINE h == Machine!Doublings[half]
             c == Machine!Codes[h]
  <2>3. h \in Nat /\ Machine!Doublings[n] = 1 + h
    BY <1>2, <1>4, <2>1, DoublingsStep DEF half
  <2> HIDE DEF h
  <2>4. 1 + h = h + 1
    BY <2>3
  <2>5. c \in Nat /\ Machine!Codes[h + 1] = 2 * c
    BY <2>3, CodesDouble
  <2> HIDE DEF c
  <2>6. Machine!Codes[Machine!Doublings[n]] = 2 * c /\ half <= c
    BY <2>2, <2>3, <2>4, <2>5 DEF h, c
  <2> QED
    BY <1>2, <2>1, <2>5, <2>6
<1> QED
  BY <1>2, <1>3, <1>4

\* The lists of an fsm.
LEMMA MachineLists ==
    ASSUME machine \in LoweredMachines
    PROVE  /\ Len(machine.states) \in Nat
           /\ DOMAIN machine.states = 1 .. Len(machine.states)
           /\ DOMAIN Machine!Names = 1 .. Len(machine.states)
           /\ Len(Machine!Names) = Len(machine.states)
           /\ \E X : Machine!Names \in Seq(X)
           /\ \E X : Machine!Targets \in Seq(X)
<1>1. Len(machine.states) \in Nat /\ DOMAIN machine.states = 1 .. Len(machine.states)
  BY MachinesAssumption
<1>2. /\ DOMAIN Machine!Names = 1 .. Len(machine.states)
      /\ Len(Machine!Names) = Len(machine.states)
  BY <1>1 DEF Machine!Names
<1>3. \E X : Machine!Names \in Seq(X)
  <2> DEFINE X == {machine.states[i].name : i \in 1 .. Len(machine.states)}
  <2>1. Machine!Names \in [1 .. Len(machine.states) -> X]
    BY <1>1 DEF Machine!Names
  <2> HIDE DEF X
  <2>2. Machine!Names \in Seq(X)
    BY <1>1, <2>1
  <2> QED
    BY <2>2
<1>4. \E X : Machine!Targets \in Seq(X)
  <2> DEFINE n == Len(machine.states)
             lists == [i \in 1 .. n |-> machine.states[i].gotos]
             X == UNION {Structured!Range(machine.states[i].gotos) : i \in 1 .. n}
  <2>1. ASSUME NEW i \in 1 .. n PROVE machine.states[i].gotos \in Seq(X)
    <3> DEFINE gotos == machine.states[i].gotos
    <3>1. gotos \in Seq({gotos[k] : k \in DOMAIN gotos})
      BY <1>1, MachinesAssumption
    <3>2. {gotos[k] : k \in DOMAIN gotos} \subseteq X
      BY DEF Structured!Range
    <3> HIDE DEF gotos, X
    <3>3. gotos \in Seq(X)
      BY <3>1, <3>2, SeqMonotonic
    <3> QED
      BY <3>3 DEF gotos
  <2>2. lists \in Seq(Seq(X))
    <3>1. lists \in [1 .. n -> Seq(X)] /\ n \in Nat
      BY <1>1, <2>1
    <3> HIDE DEF lists, n, X
    <3> QED
      BY <3>1
  <2> HIDE DEF X
  <2>3. Machine!Targets = Machine!FlattenSeq(lists)
    BY <1>1 DEF Machine!Targets
  <2> HIDE DEF lists
  <2>4. Machine!FlattenSeq(lists) = Structured!FlattenSeq(lists)
    BY DEF Machine!FlattenSeq, Structured!FlattenSeq
  <2>5. Structured!FlattenSeq(lists) \in Seq(X)
    BY <2>2, FlattenHolds DEF FlatOf
  <2> QED
    BY <2>3, <2>4, <2>5
<1> QED
  BY <1>1, <1>2, <1>3, <1>4

\* What an fsm keeps of a list is all of a list that is short enough.
LEMMA MachineKeeps ==
    ASSUME NEW X, NEW list \in Seq(X)
    PROVE  LET kept == Machine!Kept(list)
           IN  /\ Len(list) \in Nat /\ Len(kept) \in Nat /\ DOMAIN kept = 1 .. Len(kept)
               /\ Len(list) <= MachineLimit => kept = list
<1> DEFINE n == IF Len(list) < MachineLimit THEN Len(list) ELSE MachineLimit
<1>1. Len(list) \in Nat /\ MachineLimit \in Nat
  BY LimitAssumption
<1>2. n \in 0 .. Len(list) /\ (Len(list) <= MachineLimit => n = Len(list))
  BY <1>1
<1> HIDE DEF n
<1>3. /\ SubSeq(list, 1, n) \in Seq(X)
      /\ Len(SubSeq(list, 1, n)) = n
      /\ \A i \in 1 .. n : SubSeq(list, 1, n)[i] = list[i]
  BY <1>1, <1>2
<1>4. n = Len(list) => SubSeq(list, 1, n) = list
  BY <1>3, SeqEqual
<1>5. Machine!Kept(list) = SubSeq(list, 1, n)
  BY DEF Machine!Kept, n
<1> QED
  BY <1>1, <1>2, <1>3, <1>4, <1>5

\* What is said of a machine: the widths of the three paths and the initial state of two.
CodesInv ==
    /\ machine \in LoweredMachines
    /\ machine_phase \in {"lowering", "running"} =>
          /\ Machine!Accepted
          /\ identity.bits = Machine!IdentityBits
          /\ identity.initial = Machine!Index(machine.initial)
    /\ machine_phase = "running" =>
          /\ controller.bits = Machine!LoweredBits
          /\ Machine!Last(controller.updates) = Machine!Index(machine.initial)

\* The last update of the controller is the one of the reset.
LEMMA ResetIsLast ==
    ASSUME machine \in LoweredMachines
    PROVE  Machine!Last(Machine!Updates) = Machine!Index(machine.initial)
<1> DEFINE kept == Machine!Kept(Machine!Targets)
           before == [i \in DOMAIN kept |-> Machine!Index(kept[i])]
           last == Machine!Index(machine.initial)
           X == {before[i] : i \in DOMAIN kept} \cup {last}
<1>1. Len(kept) \in Nat /\ DOMAIN kept = 1 .. Len(kept)
  BY MachineLists, MachineKeeps
<1> HIDE DEF kept
<1>2. before \in [1 .. Len(kept) -> X]
  BY <1>1
<1> HIDE DEF before, last, X
<1>3. before \in Seq(X)
  BY <1>1, <1>2
<1>4. last \in X
  BY DEF X
<1>5. Len(before) \in Nat
  BY <1>3
<1>6. /\ Len(before \o <<last>>) = Len(before) + 1
      /\ (before \o <<last>>)[Len(before) + 1] = last
  <2>1. <<last>> \in Seq(X) /\ Len(<<last>>) = 1 /\ <<last>>[1] = last
    BY <1>4
  <2>2. /\ Len(before \o <<last>>) = Len(before) + Len(<<last>>)
        /\ \A i \in 1 .. Len(before) + Len(<<last>>) :
              (before \o <<last>>)[i]
                = IF i <= Len(before) THEN before[i] ELSE <<last>>[i - Len(before)]
    BY <1>3, <2>1, ConcatProperties
  <2> QED
    BY <1>5, <2>1, <2>2
<1>7. Machine!Updates = before \o <<last>>
  BY DEF Machine!Updates, before, last, kept
<1> QED
  BY <1>6, <1>7 DEF Machine!Last, last

\* Every step keeps what is said of a machine.
LEMMA CodesInvStep == ASSUME CodesInv, [Machine!Next]_(Machine!vars) PROVE CodesInv'
<1>1. machine' = machine
  BY DEF Machine!Next, Machine!vars, Machine!Establish, Machine!Lower, Machine!Clock
<1>2. /\ Machine!Accepted' <=> Machine!Accepted
      /\ Machine!IdentityBits' = Machine!IdentityBits
      /\ Machine!LoweredBits' = Machine!LoweredBits
      /\ Machine!Index(machine.initial)' = Machine!Index(machine.initial)
  BY <1>1 DEF Machine!Accepted, Machine!Names, Machine!Exists, Machine!IdentityBits,
              Machine!LoweredBits, Machine!KeptNames, Machine!Kept, Machine!Index
<1>3. CASE Machine!Establish
  <2>1. /\ machine_phase' = "rejected" \/ /\ machine_phase' = "lowering"
                                          /\ Machine!Accepted
                                          /\ identity'.bits = Machine!IdentityBits
                                          /\ identity'.initial = Machine!Index(machine.initial)
    BY <1>3 DEF Machine!Establish
  <2> QED
    BY <1>1, <1>2, <2>1 DEF CodesInv
<1>4. CASE Machine!Lower
  <2>1. /\ machine_phase = "lowering" /\ identity' = identity
        /\ machine_phase' \in {"rejected", "undefined"} \/
              /\ machine_phase' = "running"
              /\ controller'.bits = Machine!LoweredBits
              /\ controller'.updates = Machine!Updates
    BY <1>4 DEF Machine!Lower
  <2>2. Machine!Last(Machine!Updates) = Machine!Index(machine.initial)
    BY ResetIsLast DEF CodesInv
  <2> QED
    BY <1>1, <1>2, <2>1, <2>2 DEF CodesInv
<1>5. CASE Machine!Clock
  BY <1>1, <1>5 DEF CodesInv, Machine!Clock
<1>6. CASE UNCHANGED Machine!vars
  BY <1>1, <1>2, <1>6 DEF CodesInv, Machine!vars
<1> QED
  BY <1>3, <1>4, <1>5, <1>6 DEF Machine!Next

\* The first of the kept states with a name is the only one, and has the name's code.
LEMMA IndexIsCode ==
    ASSUME machine \in LoweredMachines, Machine!Accepted,
           Len(Machine!Names) <= MachineLimit
    PROVE  /\ Machine!KeptNames = Machine!Names
           /\ Machine!Index(machine.initial) - 1 = Machine!Code(machine.initial)
<1>1. Machine!KeptNames = Machine!Names
  BY MachineLists, MachineKeeps DEF Machine!KeptNames
<1>2. /\ DOMAIN Machine!Names = 1 .. Len(machine.states) /\ Len(machine.states) \in Nat
  BY MachineLists
<1>3. PICK i \in 1 .. Len(machine.states) : Machine!Names[i] = machine.initial
  BY <1>2 DEF Machine!Accepted, Machine!Exists, Machine!Range
<1>4. \A j \in DOMAIN Machine!Names : Machine!Names[j] = machine.initial => j = i
  BY <1>2, <1>3 DEF Machine!Accepted, Machine!IsInjective
<1>5. {j \in DOMAIN Machine!Names : Machine!Names[j] = machine.initial} = {i}
  BY <1>2, <1>3, <1>4
<1>6. (CHOOSE j \in DOMAIN Machine!Names : Machine!Names[j] = machine.initial) = i
  BY <1>2, <1>3, <1>4
<1>7. i \in Nat /\ Machine!Min({i}) = i
  BY <1>2 DEF Machine!Min
<1>8. machine.initial \in Machine!Range(Machine!Names)
  BY DEF Machine!Accepted, Machine!Exists
<1>9. Machine!Index(machine.initial) = i
  BY <1>1, <1>5, <1>7, <1>8 DEF Machine!Index
<1> QED
  BY <1>1, <1>6, <1>9 DEF Machine!Code

\* Each of the three loops that size the state register (fsm.c, fsm_identity.c and
\* fsm_lower.c) leaves a code for every state of an fsm the structured path keeps whole,
\* however many states it has, and both structured walks find the one initial state.
THEOREM EveryStateAlwaysHasACode == Machine!Spec => []EveryStateHasACode
<1>1. Machine!Init => CodesInv
  BY DEF Machine!Init, CodesInv
<1>2. CodesInv => EveryStateHasACode
  <2> SUFFICES ASSUME CodesInv, machine_phase = "running",
                      Len(Machine!Names) <= MachineLimit
               PROVE  /\ \A bits \in {Machine!EnumBits, identity.bits, controller.bits} :
                            Len(Machine!Names) <= Machine!Codes[bits]
                      /\ identity.initial - 1 = Machine!Code(machine.initial)
                      /\ Machine!Last(controller.updates) = identity.initial
    BY DEF EveryStateHasACode, Machine!EveryStateHasACode
  <2> DEFINE n == Len(Machine!Names)
  <2>1. /\ machine \in LoweredMachines /\ Machine!Accepted
        /\ identity.bits = Machine!IdentityBits
        /\ identity.initial = Machine!Index(machine.initial)
        /\ controller.bits = Machine!LoweredBits
        /\ Machine!Last(controller.updates) = Machine!Index(machine.initial)
    BY DEF CodesInv
  <2>2. /\ Machine!KeptNames = Machine!Names
        /\ Machine!Index(machine.initial) - 1 = Machine!Code(machine.initial)
    BY <2>1, IndexIsCode
  <2>3. n \in Nat /\ n # 0
    <3>1. n = Len(machine.states) /\ n \in Nat /\ DOMAIN machine.states = 1 .. n
      BY <2>1, MachineLists
    <3>2. \E X : machine.states \in Seq(X)
      BY <2>1, MachinesAssumption
    <3>3. machine.states # << >>
      BY <2>1 DEF Machine!Accepted
    <3> QED
      BY <3>1, <3>2, <3>3
  <2>4. Machine!IdentityBits = 1 + Machine!Doublings[n]
    BY <2>2 DEF Machine!IdentityBits
  <2>5. Machine!LoweredBits = IF n < 2 THEN 1 ELSE Machine!Doublings[n]
    BY <2>2 DEF Machine!LoweredBits
  <2>6. Machine!EnumBits = 1 + Machine!Halvings[n - 1]
    BY DEF Machine!EnumBits
  <2> HIDE DEF n
  <2>7. n <= Machine!Codes[1 + Machine!Halvings[n - 1]]
    <3>1. n - 1 \in Nat /\ Machine!Halvings[n - 1] \in Nat
      BY <2>3, HalvingsStep
    <3>2. n - 1 < Machine!Codes[1 + Machine!Halvings[n - 1]]
      BY <3>1, HalvingsFit
    <3>3. Machine!Codes[1 + Machine!Halvings[n - 1]] \in Nat
      <4>1. 1 + Machine!Halvings[n - 1] \in Nat
        BY <3>1
      <4> QED
        BY <4>1, CodesDouble
    <3> QED
      BY <2>3, <3>2, <3>3
  <2> DEFINE d == Machine!Doublings[n]
  <2>8. d \in Nat /\ n <= Machine!Codes[d] /\ Machine!Codes[d] \in Nat
        /\ Machine!Codes[d + 1] = 2 * Machine!Codes[d] /\ 1 + d = d + 1
    <3>1. d \in Nat
      BY <2>3, DoublingsStep
    <3>2. n <= Machine!Codes[d]
      BY <2>3, DoublingsFit
    <3> HIDE DEF d
    <3>3. 1 + d = d + 1
      BY <3>1
    <3>4. Machine!Codes[d] \in Nat /\ Machine!Codes[d + 1] = 2 * Machine!Codes[d]
      BY <3>1, CodesDouble
    <3> QED
      BY <3>1, <3>2, <3>3, <3>4, Zenon
  <2>9. Machine!Codes[1] = 2
    <3>1. Machine!Codes[0 + 1] = 2 * Machine!Codes[0] /\ Machine!Codes[0] = 1
      BY CodesDouble
    <3> QED
      BY <3>1
  <2>10. n <= Machine!Codes[1 + d]
    <3> HIDE DEF d
    <3> QED
      BY <2>3, <2>8
  <2>11. n <= Machine!Codes[Machine!LoweredBits]
    BY <2>3, <2>5, <2>8, <2>9
  <2>12. ASSUME NEW bits \in {Machine!EnumBits, identity.bits, controller.bits}
         PROVE  n <= Machine!Codes[bits]
    BY <2>1, <2>4, <2>6, <2>7, <2>10, <2>11
  <2> QED
    BY <2>1, <2>2, <2>12 DEF n
<1> QED
  BY <1>1, <1>2, CodesInvStep, PTL DEF Machine!Spec

=============================================================================
