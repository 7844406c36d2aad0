------------------------------ MODULE MCTraffic ------------------------------
(***************************************************************************)
(* Packets through generated circuits: every pipeline of three stages,     *)
(* whichever of them read a source, and a fabric of two sources that share *)
(* a destination.  They share no wire, so one of them is clocked.          *)
(***************************************************************************)
EXTENDS Fabric, FiniteSetsExt

CONSTANT LastStage               \* the last stage of the pipelines

ASSUME LastAssumption == LastStage \in Nat

-----------------------------------------------------------------------------
(* The tables of the fabric: the routers, words and delivered words are    *)
(* those FabricTopology computes for two sources of one destination.       *)

Contended == [s \in Sources |-> 1]
Routers == {1, 2}

RouterPort(router, port) == [kind |-> "router", target |-> router, port |-> port]
EndpointPort(kind, id) == [kind |-> kind, target |-> id]

Attachments == [l \in Routers \X Port |->
    CASE l = <<1, 0>> -> RouterPort(2, 1)
      [] l = <<1, 1>> -> EndpointPort("destination", 1)
      [] l = <<1, 2>> -> EndpointPort("source", 1)
      [] l = <<2, 0>> -> [kind |-> "dummy"]
      [] l = <<2, 1>> -> RouterPort(1, 0)
      [] l = <<2, 2>> -> EndpointPort("source", 2)]

Words == << <<1, 0>>, <<1, 0>> >>
DeliveredWords == << <<0, 1>>, <<1, 0>> >>

-----------------------------------------------------------------------------
Build == INSTANCE FabricTopology
         WITH Declarations <- {}, phase <- "routed", connections <- << >>,
              topology <- << >>, words <- << >>, path_width <- 0

Connections == [s \in Sources |->
                  [source |-> s, destination |-> DestinationOf[s], direct |-> FALSE]]

\* The three endpoints have four leaves: three calls of make_topology_parent.
Tree == LET leaves == Build!Leaves(Connections)
            left == Build!MakeParent(leaves, leaves.level[1], leaves.level[2])
            right == Build!MakeParent(left.tree, leaves.level[3], leaves.level[4])
        IN Build!MakeParent(right.tree, left.node, right.node).tree

Built(a) == IF a.kind # "endpoint" THEN a
            ELSE LET e == Tree.endpoints[a.target]
                 IN EndpointPort(IF e.direction = 1 THEN "source" ELSE "destination", e.id)

ASSUME TablesAreBuilt ==
    LET bare == [s \in Sources |-> Build!PathWord(Tree, Connections[s])]
        width == Max({Len(bare[s]) : s \in Sources})
    IN /\ Routers = DOMAIN Tree.routers
       /\ \A l \in Routers \X Port : Attachments[l] = Built(Tree.routers[l[1]][l[2]])
       /\ \A s \in Sources : /\ Words[s] = Build!Padded(bare[s], width)
                             /\ DeliveredWords[s] = Build!DeliveredWord(bare[s], width)

-----------------------------------------------------------------------------
VARIABLES
    clocked,
    sources, valid, packet, offer, delivered    \* the pipeline

pipeline == <<sources, valid, packet, offer, delivered>>

Chain == INSTANCE Pipeline WITH ingress <- sources

TrafficInit == /\ clocked \in {"pipeline", "fabric"}
               /\ Init
               /\ Chain!Init
               /\ clocked = "fabric" => sources = {}

ClockPipeline == clocked = "pipeline" /\ Chain!Next /\ UNCHANGED <<clocked, vars>>
ClockFabric == clocked = "fabric" /\ Next /\ UNCHANGED <<clocked, pipeline>>

TrafficNext == ClockPipeline \/ ClockFabric

\* The fairness of either circuit, while it is clocked.
FlowPipeline == clocked = "pipeline" /\ Chain!Flow /\ UNCHANGED <<clocked, vars>>
RunFabric == clocked = "fabric" /\ Running /\ UNCHANGED <<clocked, pipeline>>
ConsumeFabric(d) == clocked = "fabric" /\ Consume(d) /\ UNCHANGED <<clocked, pipeline>>

TrafficSpec == /\ TrafficInit /\ [][TrafficNext]_<<clocked, vars, pipeline>>
               /\ SF_pipeline(FlowPipeline)
               /\ WF_vars(RunFabric)
               /\ \A d \in Destinations : WF_vars(ConsumeFabric(d))

-----------------------------------------------------------------------------
\* Whatever stages read consuming signals, the pipeline joins their tokens in step.
ImplementsJoin == Chain!ImplementsJoin

\* A token the pipeline accepted leaves it, also if it has to wait for the partner a
\* later stage joins it with.
EveryTokenLeaves == Chain!EveryTokenLeaves
=============================================================================
