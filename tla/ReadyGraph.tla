----------------------------- MODULE ReadyGraph -----------------------------
(***************************************************************************)
(* The retained-core route of one resolved module: pigen_route_build       *)
(* sweeps the clock edges of all transfers, admits one transfer after the  *)
(* other as a node of the ready graph, names each node's downstream edge   *)
(* and publishes the graph unless it finds a loop; pigen_route_check looks *)
(* for loops again.                                                        *)
(***************************************************************************)
EXTENDS Integers, Sequences, FiniteSets, SequencesExt

CONSTANTS
    Signals,
    Kind,               \* Signals -> transfer type
    Width, Signed,      \* Signals -> packed width and signedness
    Modules             \* lists of transfers, in arena order: the destination
                        \* signals, the value (a kind and the signals read, its
                        \* width and signedness when it is neither a symbol nor
                        \* a concatenation), the clock edge and the signal
                        \* uses with their roles

VARIABLES phase, transfers, at, bindings, single_edge, nodes

vars == <<phase, transfers, at, bindings, single_edge, nodes>>

NoTransfer == 0

-----------------------------------------------------------------------------
(* The laws of one transfer. *)

ReadyDependency(s) ==
    CASE Kind[s] = "abstract" -> "external"
      [] Kind[s] \in {"wire", "reg", "logic", "port"} -> "constant"
      [] Kind[s] = "buf" -> "downstream"
      [] Kind[s] \in {"fifo", "skid"} -> "occupancy"

\* The ownership and domain columns hold exactly of the kinds that are not static.
Owned(s) == Kind[s] \notin {"wire", "reg", "logic"}

Reads(t, s) == t.value.kind = "symbol" /\ t.value.signals = <<s>>
Uses(t, s) == {u \in t.uses : u.signal = s}
HasRole(t, s, role) == \E u \in Uses(t, s) : role \in u.roles

TotalWidth(signals) == FoldSeq(LAMBDA s, sum : Width[s] + sum, 0, signals)
OneSign(signals) == \A i \in DOMAIN signals : Signed[signals[i]] = Signed[signals[1]]

\* route_transfer_laws: the flattened payloads agree in width and signedness.
Fits(t) ==
    LET other == t.value.kind = "other"
        width == IF other THEN t.value.width ELSE TotalWidth(t.value.signals)
        signed == IF other THEN t.value.signed ELSE Signed[t.value.signals[1]]
    IN /\ OneSign(t.destination)
       /\ ~other => OneSign(t.value.signals)
       /\ TotalWidth(t.destination) = width
       /\ Signed[t.destination[1]] = signed

\* route_vdo_laws: nothing is produced and consumed at once, and whatever is
\* listed has the role its place in the transfer asks for.
\* Mutant: a use without the producer's role is taken for a plain read.
OwnsReadsOnly(t) ==
    /\ \A u \in t.uses :
         /\ ~({"producer", "consumer"} \subseteq u.roles)
         /\ Owned(u.signal) /\ Reads(t, u.signal) => "consumer" \in u.roles
    /\ t.uses # {} =>
         \A s \in Signals : Owned(s) /\ Reads(t, s) => HasRole(t, s, "consumer")
Owns(t) ==
    /\ \A u \in t.uses :
         /\ ~({"producer", "consumer"} \subseteq u.roles)
         /\ Owned(u.signal) =>
              /\ u.signal \in Range(t.destination) => "producer" \in u.roles
              /\ Reads(t, u.signal) => "consumer" \in u.roles
    /\ t.uses # {} =>
         \A s \in Signals : Owned(s) /\ Reads(t, s) => HasRole(t, s, "consumer")

\* route_downstream_consumer: the first transfer whose whole value is the signal.
Consumer(s) ==
    LET readers == {i \in DOMAIN transfers : Reads(transfers[i], s)}
    IN IF readers = {} THEN NoTransfer
       ELSE CHOOSE i \in readers : \A j \in readers : i <= j

-----------------------------------------------------------------------------
(* Loops. *)

Downstream(n) == IF nodes[n].ready = "downstream" THEN nodes[n].downstream ELSE NoTransfer

\* route_graph_acyclic: an edge to the node itself, or an edge to a node whose
\* edge leads back.
FindsLoop == \E n \in DOMAIN nodes :
    LET next == Downstream(n)
    IN next # NoTransfer /\ (next = n \/ Downstream(next) = n)

-----------------------------------------------------------------------------
Init == /\ phase = "sweeping"
        /\ transfers \in Modules
        /\ at = 1
        /\ bindings = << >>
        /\ single_edge = TRUE
        /\ nodes = << >>

\* The uses of one transfer in route_domain_multi_edge: the first binds a signal
\* to the transfer's edge.  The list of bindings is a function on the bound.
Sweep ==
    /\ phase = "sweeping"
    /\ LET t == transfers[at]
           bound == {s \in Signals : \E u \in Uses(t, s) : Owned(s) /\ u.roles # {}}
       IN /\ bindings' = [s \in DOMAIN bindings \cup bound |->
                            IF s \in DOMAIN bindings THEN bindings[s] ELSE t.edge]
          /\ single_edge' = (single_edge /\ \A s \in bound \cap DOMAIN bindings :
                                                bindings[s] = t.edge)
    /\ IF at < Len(transfers) THEN at' = at + 1 /\ UNCHANGED phase
       ELSE at' = 1 /\ phase' = IF single_edge' THEN "adding" ELSE "rejected"
    /\ UNCHANGED <<transfers, nodes>>

\* One node of pigen_route_build: the leftmost destination decides its readiness.
\* A transfer of the module's processes is of the module.
AddNode ==
    /\ phase = "adding"
    /\ LET t == transfers[at]
       IN IF Fits(t) /\ Owns(t)
          THEN /\ nodes' = Append(nodes, [ready |-> ReadyDependency(t.destination[1]),
                                          downstream |-> NoTransfer])
               /\ at' = at + 1
               /\ phase' = IF at = Len(transfers) THEN "linking" ELSE "adding"
          ELSE phase' = "rejected" /\ UNCHANGED <<nodes, at>>
    /\ UNCHANGED <<transfers, bindings, single_edge>>

\* The ready-edge pass.
NameEdges ==
    /\ phase = "linking"
    /\ nodes' = [n \in DOMAIN nodes |->
                   IF nodes[n].ready = "downstream"
                   THEN [nodes[n] EXCEPT !.downstream = Consumer(transfers[n].destination[1])]
                   ELSE nodes[n]]
    /\ phase' = "linked"
    /\ UNCHANGED <<transfers, at, bindings, single_edge>>

\* The end of pigen_route_build.
Publish == /\ phase = "linked"
           /\ phase' = IF FindsLoop THEN "rejected" ELSE "published"
           /\ UNCHANGED <<transfers, at, bindings, single_edge, nodes>>

\* pigen_route_check of a published route.
Check == /\ phase = "published"
         /\ phase' = IF nodes = << >> \/ FindsLoop THEN "rejected" ELSE "checked"
         /\ UNCHANGED <<transfers, at, bindings, single_edge, nodes>>

Next == Sweep \/ AddNode \/ NameEdges \/ Publish \/ Check

Spec == Init /\ [][Next]_vars

-----------------------------------------------------------------------------
Accepted == phase \in {"published", "checked"}

\* A transfer is ready when its leftmost destination is: the wires of readiness,
\* from a transfer to the transfers that read a buf it fills.
Waits(i, j) == /\ ReadyDependency(transfers[i].destination[1]) = "downstream"
               /\ Reads(transfers[j], transfers[i].destination[1])

\* What the laws of single transfers and uses promise an accepted module: a
\* stored signal that any two transfers list is clocked by one edge, and a
\* transfer that lists its uses does not read its own destination.  As long as
\* every stored signal has one reader, no two transfers wait for each other.
LawfulRoute == Accepted =>
    /\ \A i, j \in DOMAIN transfers, s \in Signals :
         (/\ Owned(s)
          /\ \E u \in Uses(transfers[i], s) : u.roles # {}
          /\ \E u \in Uses(transfers[j], s) : u.roles # {})
         => transfers[i].edge = transfers[j].edge
    /\ \A i \in DOMAIN transfers : \A s \in Range(transfers[i].destination) :
         transfers[i].uses # {} /\ Owned(s) => ~Reads(transfers[i], s)
    /\ (\A i, j \in DOMAIN transfers, s \in Signals :
            Reads(transfers[i], s) /\ Reads(transfers[j], s) => i = j)
       => ~\E i, j \in DOMAIN transfers : Waits(i, j) /\ Waits(j, i)

\* The ready chain of an accepted route returns to no transfer.
AcyclicReadyGraph == Accepted =>
    LET reach[S \in SUBSET DOMAIN transfers] ==
            LET more == S \cup {j \in DOMAIN transfers : \E i \in S : Waits(i, j)}
            IN IF more = S THEN S ELSE reach[more]
    IN \A i \in DOMAIN transfers :
         i \notin reach[{j \in DOMAIN transfers : Waits(i, j)}]
=============================================================================
