------------------------------ MODULE BackEnd ------------------------------
(***************************************************************************)
(* The parts of the compiler that work on one input each and do not read   *)
(* an expression: the routers of a fabric block, the ready graph of a      *)
(* module, the arenas and the names of the RTL model, the pipeline and fsm *)
(* statements of the structured path, the table of integers, and the way   *)
(* of a source of static signals through the whole compiler.  Each has its *)
(* own variables; what they work on is given.                              *)
(***************************************************************************)
EXTENDS Naturals, Sequences

CONSTANTS
    Blocks,             \* the connection lists of fabric blocks
    RouteSignals, RouteKind, RouteWidth, RouteSigned, RouteModules,
    Laws, Widths,       \* the RTL types
    MaxChildren,        \* children of an RTL expression
    MaxCalls,           \* records of the RTL arenas together
    LoweredPipelines, LoweredMachines,      \* the statements
    Limit,              \* stages, fields and names a pipeline is read up to
    MachineLimit,       \* states and gotos an fsm is read up to
    LimbBits, Radix, MaximumBits, FirstPrecision,   \* the integers
    MaxDigits, MaxIntegers, MaxProduct,
    Spellings, NameRequests,                \* identifiers, and what is asked for
    MaxRequests, MaxNames,                  \* names asked for at once, and in all
    SourceFiles

\* A module to route has transfers, into its signals.
ASSUME RoutesAssumption ==
    \A list \in RouteModules :
        /\ list \in Seq({list[i] : i \in DOMAIN list}) \ {<< >>}
        /\ \A i \in DOMAIN list : list[i].destination \in Seq(RouteSignals) \ {<< >>}

\* An fsm is a list of states with a list of gotos each.
ASSUME MachinesAssumption ==
    \A given \in LoweredMachines :
        /\ given.states \in Seq({given.states[i] : i \in DOMAIN given.states})
        /\ \A i \in DOMAIN given.states :
              LET gotos == given.states[i].gotos
              IN gotos \in Seq({gotos[k] : k \in DOMAIN gotos})

\* A pipeline statement is a list of fields, as wide as their declarations say, a list of
\* stages with a list of items each, and the names its yield reads.
ASSUME PipelinesAssumption ==
    \A given \in LoweredPipelines :
        /\ given.fields \in Seq({given.fields[i] : i \in DOMAIN given.fields})
        /\ \A i \in DOMAIN given.fields : given.fields[i].width \in Nat
        /\ given.stages \in Seq({given.stages[k] : k \in DOMAIN given.stages})
        /\ \A k \in DOMAIN given.stages :
              LET items == given.stages[k]
              IN  items \in Seq({items[i] : i \in DOMAIN items})
        /\ given.yield \in Seq({given.yield[i] : i \in DOMAIN given.yield})

\* PIGEN_PIPELINE_MAX and PIGEN_STAGE_MAX_READS, and FSM_MAX.
ASSUME LimitAssumption == Limit \in Nat \ {0} /\ MachineLimit \in Nat \ {0}

\* A source file is a list of chunks: a module ends before the next begins, and ports,
\* signals and the end of a module stand in a module.
Chunk == {"gap", "punctuation", "word", "module", "endmodule", "port", "signal",
          "typedef", "parameter", "instance", "process"}
InModule(file, head, at) ==
    file[head] = "module" /\ \A i \in head + 1 .. at - 1 : file[i] \notin {"module", "endmodule"}
ASSUME FilesAssumption ==
    \A file \in SourceFiles :
        /\ file \in Seq(Chunk)
        /\ \A at \in DOMAIN file : file[at] \in {"port", "signal", "endmodule"} =>
              \E head \in 1 .. at - 1 : InModule(file, head, at)
        /\ \A head \in DOMAIN file : file[head] = "module" =>
              \E at \in head + 1 .. Len(file) : InModule(file, head, at) /\ file[at] = "endmodule"

VARIABLES
    phase, connections, topology, words, path_width,
    route_phase, transfers, at, bindings, single_edge, nodes,
    types, expressions, modules, objects, equations, instances, updates, processes,
    pipeline_phase, pipeline, packet, views, records,
    machine_phase, machine, identity, controller, state,
    integers, answer,
    names,
    layout_phase, source, syntax, lowered, written_names, items, nested, output

fabric == <<phase, connections, topology, words, path_width>>
route == <<route_phase, transfers, at, bindings, single_edge, nodes>>
arenas == <<types, expressions, modules, objects, equations, instances, updates, processes>>
structured == <<pipeline_phase, pipeline, packet, views, records>>
fsm == <<machine_phase, machine, identity, controller, state>>
integer == <<integers, answer>>
layout == <<layout_phase, source, syntax, lowered, written_names, items, nested, output>>

Fabric == INSTANCE FabricTopology WITH Declarations <- Blocks
Route == INSTANCE ReadyGraph
         WITH phase <- route_phase, Signals <- RouteSignals, Kind <- RouteKind,
              Width <- RouteWidth, Signed <- RouteSigned, Modules <- RouteModules
Rtl == INSTANCE RtlModel
Structured == INSTANCE StructuredPipeline
              WITH phase <- pipeline_phase, rtl <- records,
                   Pipelines <- LoweredPipelines
Machine == INSTANCE StateMachine
           WITH phase <- machine_phase, Limit <- MachineLimit,
                Machines <- LoweredMachines
Integer == INSTANCE IntegerArena
RtlName == INSTANCE RtlNames WITH Spelling <- Spellings, Requests <- NameRequests
Layout == INSTANCE SourceLayout
          WITH Sources <- SourceFiles, phase <- layout_phase, nodes <- syntax,
               objects <- lowered, names <- written_names

-----------------------------------------------------------------------------
LawfulTopology == Fabric!LawfulTopology
LawfulRoute == Route!LawfulRoute
AcyclicReadyGraph == Route!AcyclicReadyGraph
TypesAreCanonical == Rtl!TypesAreCanonical
RangesAreOwned == Rtl!RangesAreOwned
LoweredAsDeclared == Structured!LoweredAsDeclared
EveryStateHasACode == Machine!EveryStateHasACode
SettlesInDeclared == Machine!SettlesInDeclared
NamesAreFresh == RtlName!NamesAreFresh
EmittedAsWritten == Layout!EmittedAsWritten
NothingIsLost == Layout!NothingIsLost

\* The table of integers gives the integer that was asked for, and answers every question
\* about one, as if its limbs and its sign were not there.
IntegersAreExact == Integer!AnswersAreExact /\ Integer!QuestionsAreExact
=============================================================================
