--------------------------- MODULE FabricTopology ---------------------------
(***************************************************************************)
(* How pigen_lower_blocks turns the connections of a fabric block into     *)
(* routers and route words: validation, a binary tree over the sorted      *)
(* endpoints built from three-port routers, one breadth-first route per    *)
(* connection, and the checks that trace every route in both directions.   *)
(* A path word is the sequence of its bits, the least significant first.   *)
(***************************************************************************)
EXTENDS Integers, Sequences, FiniteSets, SequencesExt, FiniteSetsExt

CONSTANT Declarations       \* the connection lists a fabric block may hold

VARIABLES phase, connections, topology, words, path_width

vars == <<phase, connections, topology, words, path_width>>

Port == 0 .. 2

\* validate_fabric: a source handle is bound once, a direct destination is
\* exclusive.
SourceBoundTwice(cs) == \E i, j \in DOMAIN cs : i # j /\ cs[i].source = cs[j].source
DirectShared(cs) == \E i, j \in DOMAIN cs :
    i # j /\ cs[i].destination = cs[j].destination /\ (cs[i].direct \/ cs[j].direct)
Legal(cs) == cs # << >> /\ ~SourceBoundTwice(cs) /\ ~DirectShared(cs)

Routed(cs) == {i \in DOMAIN cs : ~cs[i].direct}

-----------------------------------------------------------------------------
(* Endpoints and the router tree. *)

Destination(d) == [direction |-> 0, id |-> d]
Source(s) == [direction |-> 1, id |-> s]

Before(e, f) == \/ e.direction < f.direction
                \/ e.direction = f.direction /\ e.id < f.id

\* The distinct endpoints, destinations before sources.
Sorted(S) ==
    LET sort[T \in SUBSET S] ==
            IF T = {} THEN << >>
            ELSE LET e == CHOOSE e \in T : \A f \in T \ {e} : Before(e, f)
                 IN <<e>> \o sort[T \ {e}]
    IN sort[S]

Endpoints(cs) == Sorted({Destination(cs[i].destination) : i \in Routed(cs)}
                        \cup {Source(cs[i].source) : i \in Routed(cs)})

Dummy == [kind |-> "dummy"]
RouterAt(router, port) == [kind |-> "router", target |-> router, port |-> port]
EndpointAt(endpoint) == [kind |-> "endpoint", target |-> endpoint]

\* level holds the nodes of the tree not yet paired, absent children among
\* them, and above the parents made so far; home locates each endpoint's
\* router port.

Attach(t, router, port, node) ==
    IF node.kind = "router"
    THEN [t EXCEPT !.routers[router][port] = RouterAt(node.target, 0),
                   !.routers[node.target][0] = RouterAt(router, port)]
    ELSE [t EXCEPT !.routers[router][port] = EndpointAt(node.target),
                   !.home[node.target] = [router |-> router, port |-> port]]

MakeParent(t, left, right) ==
    IF left.kind = "dummy" THEN [tree |-> t, node |-> right]
    ELSE IF right.kind = "dummy" THEN [tree |-> t, node |-> left]
    ELSE LET router == Len(t.routers) + 1
             grown == [t EXCEPT !.routers = Append(@, [p \in Port |-> Dummy])]
         IN [tree |-> Attach(Attach(grown, router, 1, left), router, 2, right),
             node |-> RouterAt(router, 0)]

\* The least power of two that is at least n.
LeafCount(n) == Min({m \in {2 ^ k : k \in 0 .. n} : m >= n})

\* Before any router exists: the leaves, padded to a power of two.
Leaves(cs) ==
    LET endpoints == Endpoints(cs)
        n == Len(endpoints)
    IN [endpoints |-> endpoints, routers |-> << >>,
        home |-> [e \in 1 .. n |-> [router |-> 0, port |-> 0]],
        level |-> [i \in 1 .. LeafCount(n) |-> IF i <= n THEN EndpointAt(i) ELSE Dummy],
        above |-> << >>]

Index(t, endpoint) == CHOOSE i \in DOMAIN t.endpoints : t.endpoints[i] = endpoint

-----------------------------------------------------------------------------
(* Routing. *)

\* The nodes of the search: routers, and endpoints numbered after them.
NodeOf(t, a) == IF a.kind = "router" THEN a.target ELSE Len(t.routers) + a.target
Neighbours(t, node) ==
    IF node <= Len(t.routers)
    THEN {NodeOf(t, t.routers[node][p]) : p \in {q \in Port : t.routers[node][q] # Dummy}}
    ELSE {t.home[node - Len(t.routers)].router}

PortForNode(t, router, node) ==
    CHOOSE p \in Port : /\ t.routers[router][p] # Dummy
                        /\ NodeOf(t, t.routers[router][p]) = node

\* Breadth-first: the paths of one length that revisit no node, until one of
\* them ends at the destination.
Search(t, start, finish) ==
    LET search[paths \in SUBSET Seq(Nat)] ==
            LET hits == {p \in paths : Last(p) = finish}
            IN IF hits # {} THEN CHOOSE p \in hits : TRUE
               ELSE search[UNION {{Append(p, n) : n \in Neighbours(t, Last(p)) \ ToSet(p)}
                                  : p \in paths}]
    IN search[{<<start>>}]

Path(t, c) == Search(t, Len(t.routers) + Index(t, Source(c.source)),
                     Len(t.routers) + Index(t, Destination(c.destination)))

\* The route bit of a hop says which of the two other ports it leaves by.
OutPort(in_port, bit) == (in_port + 1 + bit) % 3

BitOf(in_port, out_port) == IF out_port = (in_port + 1) % 3 THEN 0 ELSE 1

PathWord(t, c) ==
    LET path == Path(t, c)
    IN [i \in 1 .. Len(path) - 2 |->
            BitOf(PortForNode(t, path[i + 1], path[i]),
                  PortForNode(t, path[i + 1], path[i + 2]))]

\* A word occupies path_width bits; every hop rotates it right by one.
Padded(word, width) == word \o [i \in 1 .. width - Len(word) |-> 0]

\* Mutant: a shift, which forgets the bits already used.
ShiftRight(word) == Append(Tail(word), 0)

RotateRight(word) == Append(Tail(word), Head(word))
RotateLeft(word) == <<Last(word)>> \o Front(word)

Bits == Seq({0, 1})
RotateRightBy(word, n) ==
    LET rotate[w \in Bits, k \in Nat] == IF k = 0 THEN w ELSE rotate[RotateRight(w), k - 1]
    IN rotate[word, n]

DeliveredWord(word, width) == RotateRightBy(Padded(word, width), Len(word) % width)

-----------------------------------------------------------------------------
(* The traces the generator checks its own routes with.  0 stands for the  *)
(* internal failures "reached a dummy port" and "did not terminate".       *)

TraceForward(t, home, word) ==
    LET trace[router \in Nat, in_port \in Port, w \in Bits, fuel \in Nat] ==
            LET a == t.routers[router][OutPort(in_port, Head(w))]
            IN CASE a.kind = "endpoint" -> a.target
                 [] a.kind = "dummy" \/ fuel = 0 -> 0
                 [] OTHER -> trace[a.target, a.port, RotateRight(w), fuel - 1]
    IN trace[home.router, home.port, word, Len(t.routers)]

InPort(out_port, bit) == IF bit = 1 THEN (out_port + 1) % 3 ELSE (out_port + 2) % 3

TraceReverse(t, home, word) ==
    LET trace[router \in Nat, out_port \in Port, w \in Bits, fuel \in Nat] ==
            LET a == t.routers[router][InPort(out_port, Last(w))]
            IN CASE a.kind = "endpoint" -> a.target
                 [] a.kind = "dummy" \/ fuel = 0 -> 0
                 [] OTHER -> trace[a.target, a.port, RotateLeft(w), fuel - 1]
    IN trace[home.router, home.port, word, Len(t.routers)]

ReachesDestination(t, c, word, width) ==
    TraceForward(t, t.home[Index(t, Source(c.source))], Padded(word, width))
      = Index(t, Destination(c.destination))

IsReversible(t, c, word, width) ==
    TraceReverse(t, t.home[Index(t, Destination(c.destination))], DeliveredWord(word, width))
      = Index(t, Source(c.source))

\* The word a receiver sees identifies the connection it came by.
Collide(cs, ws, width) ==
    \E i, j \in Routed(cs) : /\ i # j
                             /\ cs[i].destination = cs[j].destination
                             /\ DeliveredWord(ws[i], width) = DeliveredWord(ws[j], width)

-----------------------------------------------------------------------------
Init == /\ phase = "parsed"
        /\ connections \in Declarations
        /\ topology = [endpoints |-> << >>, routers |-> << >>, home |-> << >>,
                       level |-> << >>, above |-> << >>]
        /\ words = << >>
        /\ path_width = 0

Validate == /\ phase = "parsed"
            /\ phase' = IF Legal(connections) THEN "valid" ELSE "rejected"
            /\ UNCHANGED <<connections, topology, words, path_width>>

Enumerate == /\ phase = "valid"
             /\ IF Routed(connections) = {}
                THEN phase' = "rendered" /\ UNCHANGED topology
                ELSE phase' = "pairing" /\ topology' = Leaves(connections)
             /\ UNCHANGED <<connections, words, path_width>>

\* One call of make_topology_parent, left to right and level by level.
Pair == /\ phase = "pairing"
        /\ topology.level # << >>
        /\ LET level == topology.level
               made == MakeParent(topology, level[1], level[2])
           IN topology' = [made.tree EXCEPT !.level = SubSeq(level, 3, Len(level)),
                                            !.above = Append(@, made.node)]
        /\ UNCHANGED <<phase, connections, words, path_width>>

NextLevel == /\ phase = "pairing"
             /\ topology.level = << >>
             /\ topology' = [topology EXCEPT !.level = topology.above, !.above = << >>]
             /\ phase' = IF Len(topology.above) = 1 THEN "built" ELSE "pairing"
             /\ UNCHANGED <<connections, words, path_width>>

\* One connection of the routing loop; direct ones keep an empty word.
Route == /\ phase = "built"
         /\ LET c == connections[Len(words) + 1]
                word == IF c.direct THEN << >> ELSE PathWord(topology, c)
            IN /\ words' = Append(words, word)
               /\ path_width' = Max({path_width, Len(word)})
         /\ phase' = IF Len(words') = Len(connections) THEN "routed" ELSE "built"
         /\ UNCHANGED <<connections, topology>>

Check == /\ phase = "routed"
         /\ phase' = IF /\ \A i \in Routed(connections) :
                            /\ ReachesDestination(topology, connections[i], words[i], path_width)
                            /\ IsReversible(topology, connections[i], words[i], path_width)
                        /\ ~Collide(connections, words, path_width)
                     THEN "rendered" ELSE "failed"
         /\ UNCHANGED <<connections, topology, words, path_width>>

Next == Validate \/ Enumerate \/ Pair \/ NextLevel \/ Route \/ Check

Spec == Init /\ [][Next]_vars

-----------------------------------------------------------------------------
\* The levels of the tree over n endpoints.
Levels(n) == CHOOSE k \in 0 .. n : 2 ^ k = LeafCount(n)

\* Every fabric that passes validation is rendered: none of the generator's
\* internal checks (unreached or irreversible route, collision) can fail.  Only
\* the root's port 0 is a dummy, and links join the same two ports in both
\* directions: no route bit can leave the tree anywhere else.  A route is at most
\* up to the root and down again.
LawfulTopology ==
    /\ phase # "failed"
    /\ phase \in {"built", "routed", "rendered"} /\ topology.routers # << >> =>
        /\ Cardinality({rp \in (DOMAIN topology.routers) \X Port :
                           topology.routers[rp[1]][rp[2]] = Dummy}) = 1
        /\ \A r \in DOMAIN topology.routers : \A p \in Port :
             LET a == topology.routers[r][p]
             IN /\ a.kind = "router" => topology.routers[a.target][a.port] = RouterAt(r, p)
                /\ a.kind = "endpoint" => topology.home[a.target] = [router |-> r, port |-> p]
    /\ \A i \in DOMAIN words :
         \/ Len(words[i]) <= 2 * Levels(Len(topology.endpoints)) - 1
         \/ connections[i].direct
=============================================================================
