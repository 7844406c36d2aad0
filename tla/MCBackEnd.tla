----------------------------- MODULE MCBackEnd -----------------------------
(***************************************************************************)
(* The parts of the compiler that work on one input each, side by side:    *)
(* those of BackEnd, the expressions of the structured emitter and the     *)
(* types of expressions.  They share nothing, so one of them runs.  What   *)
(* they are given comes first: fabric blocks, expressions to emit, modules *)
(* to route, pipeline and fsm statements, objects and literals to type,    *)
(* names to publish and source files.                                      *)
(***************************************************************************)
EXTENDS BackEnd, ExpressionGrammar

CONSTANTS
    Parts,              \* the parts that may run
    MaxConnections,     \* connections of the small blocks
    MaxSources,         \* sources of the large blocks
    MaxDestinations,    \* destinations of the large blocks
    WidthMax,           \* the largest width of a type
    MaxItems, MaxFirstItems,    \* items of a module, and of the first of two
    MaxOperands, MaxNodes,      \* the typed expressions
    Unaries, Binaries, MaxGeneratedBits,
    ParameterValues, MaxCompared

-----------------------------------------------------------------------------
(* Fabric blocks.  Only the order of the names matters to the generator,   *)
(* so sources and destinations are small numbers.                          *)

\* Small blocks: any list over three sources and two destinations, also the
\* illegal ones, with direct and routed connections mixed.
Connection == [source : 1 .. 3, destination : 1 .. 2, direct : BOOLEAN]
SmallBlocks == UNION {[1 .. n -> Connection] : n \in 0 .. MaxConnections}

\* Large blocks: every routed assignment of sources to destinations.
LargeBlocks ==
    UNION {{[i \in 1 .. n |-> [source |-> i, destination |-> f[i], direct |-> FALSE]]
              : f \in [1 .. n -> 1 .. MaxDestinations]} : n \in 1 .. MaxSources}

DeclaredBlocks == IF "fabric" \in Parts THEN SmallBlocks \cup LargeBlocks ELSE {<< >>}

-----------------------------------------------------------------------------
(* Expressions. *)

Leaf == Node("object", <<"a">>, << >>)
Leaves == {Leaf, Node("literal", <<"7">>, << >>), Node("literal", <<"-", "7">>, << >>)}

\* The nodes that can be built with the given operators, over plain operands.
Over(unaries, binaries) ==
    {Node("unary", u, <<Leaf>>) : u \in unaries}
    \cup {Node("binary", b, <<Leaf, Leaf>>) : b \in binaries}
    \cup {Node("conditional", << >>, <<Leaf, Leaf, Leaf>>),
          Node("resize", <<"signed">>, <<Leaf>>),
          Node("conversion", <<"unsigned">>, <<Leaf>>),
          Node("index", << >>, <<Leaf, Leaf>>),
          Node("concatenation", << >>, <<Leaf, Leaf>>)}
    \cup {Node("select", s, <<Leaf, Leaf, Leaf>>) : s \in {<<":">>, <<"+", ":">>, <<"-", ":">>}}

\* Every operator, and one or two of every level.
All == Over(UnarySpellings, BinarySpellings)
Some == Over({<<"-">>, <<"&">>},
             {<<"*", "*">>, <<"*">>, <<"-">>, <<">", ">">>, <<"<", "=">>, <<"=", "=">>,
              <<"&">>, <<"|">>, <<"&", "&">>, <<"|", "|">>})

\* What stands innermost in three levels.
Few == {Node("unary", <<"-">>, <<Leaf>>), Node("conditional", << >>, <<Leaf, Leaf, Leaf>>)}
       \cup {Node("binary", b, <<Leaf, Leaf>>) : b \in {<<"*", "*">>, <<"-">>, <<"&">>}}

\* Each child of an outer node in turn is replaced by an inner tree.
WithChild(outer, i, inner) ==
    [outer EXCEPT !.children = [j \in DOMAIN @ |-> IF j = i THEN inner ELSE @[j]]]
Nested(outers, inners) ==
    {WithChild(outer, i, inner) : outer \in outers, i \in 1 .. 3, inner \in inners}

Pairs(outers, inners) ==
    {[outer EXCEPT !.children[1] = pair[1], !.children[2] = pair[2]]
       : outer \in {o \in outers : Len(o.children) > 1}, pair \in inners \X inners}

\* The trees with an operator under an operator.
Deep(trees) == {t \in trees : \E i \in DOMAIN t.children : t.children[i].children # << >>}

TreesFor(parts) ==
    IF "expression" \notin parts THEN {Leaf}
    ELSE Deep(Nested(Some, Nested(Some, Few)))
         \cup (Deep(Pairs(Some, Some))
               \cup (Deep(Nested(All, All)) \cup (Nested(All, Leaves) \cup Leaves)))

Trees == TreesFor(Parts)

-----------------------------------------------------------------------------
(* Modules whose ready graph is built. *)

\* Three one-place stores, one of them signed, a wider one, a skid and a register.
GraphKind == [p |-> "buf", q |-> "buf", r |-> "buf", g |-> "buf", w |-> "buf",
              k |-> "skid", l |-> "logic"]
GraphSignals == DOMAIN GraphKind
GraphWidth == [s \in GraphSignals |-> IF s = "w" THEN 2 ELSE 1]
GraphSigned == [s \in GraphSignals |-> s = "g"]

Reading(kind, signals) == [kind |-> kind, signals |-> signals, width |-> 0, signed |-> FALSE]
Computed(width) == [kind |-> "other", signals |-> <<"p">>, width |-> width, signed |-> FALSE]
Use(signal, roles) == [signal |-> signal, roles |-> roles]

RouteTransfer(destination, value, edge, uses) ==
    [destination |-> destination, value |-> value, edge |-> edge, uses |-> uses]

\* The uses the resolver records of a transfer of one signal to another.
Recorded(to, from) == {Use(to, {"producer"}), Use(from, {"consumer"})}

\* One transfer of every shape, with any two uses.
AnyUses == {S \in SUBSET {Use("p", {"producer"}), Use("p", {}), Use("q", {"consumer"}),
                          Use("q", {"producer", "consumer"}), Use("p", {"consumer"})}
              : Cardinality(S) <= 2}
OneTransfer ==
    {<<RouteTransfer(d, v, "posedge", u)>>
       : d \in {<<"p">>, <<"p", "r">>, <<"w">>, <<"g", "r">>, <<"l">>},
         v \in {Reading("symbol", <<s>>) : s \in {"p", "q", "w", "g"}}
               \cup {Reading("concatenation", <<"q", "r">>), Computed(1), Computed(2)},
         u \in AnyUses}

\* A store that is no link of the ready chain, read by the transfer that fills it.
OwnReader ==
    {<<RouteTransfer(<<"k">>, Reading("symbol", <<"k">>), "posedge", {Use("k", roles)})>>
       : roles \in SUBSET {"producer", "consumer"}}

\* Three transfers that share stores on either edge.
SharedStores ==
    LET Clocked == {RouteTransfer(<<d>>, Reading("symbol", <<"q">>), e, u)
                      : d \in {"p", "r"}, e \in {"posedge", "negedge"},
                        u \in {{}, {Use("q", {})}} \cup {Recorded(x, "q") : x \in {"p", "r"}}}
    IN {t \in [1 .. 3 -> Clocked] : t[1].edge = "posedge" /\ t[1].uses = Recorded("p", "q")}

\* Three transfers of whole signals, each store filled and read by one of them.
Chains ==
    LET Distinct == {f \in [1 .. 3 -> {"p", "q", "r", "k"}] :
                        \A i, j \in 1 .. 3 : f[i] = f[j] => i = j}
    IN {[i \in 1 .. 3 |-> RouteTransfer(<<to[i]>>, Reading("symbol", <<from[i]>>), "posedge",
                                        IF to[i] = from[i] THEN {} ELSE Recorded(to[i], from[i]))]
          : to \in Distinct, from \in Distinct}

GraphModules == OwnReader \cup OneTransfer \cup SharedStores \cup Chains
NoRoute == CHOOSE m \in OneTransfer : TRUE

-----------------------------------------------------------------------------
(***************************************************************************)
(* Pipeline and fsm statements.  d and e are signals of the pipeline's     *)
(* module; the state x is not declared.                                    *)
(***************************************************************************)
Field(name, width) == [name |-> name, width |-> width]
Item(to, reads) == [to |-> to, reads |-> reads]

FieldLists == {<<Field("x", 1), Field("y", 1), Field("z", 2)>>,
               <<Field("z", 2), Field("x", 1), Field("x", 2)>>}

Stages == {<< >>} \cup
    {<<Item(to, reads)>> : to \in {"x", "z"}, reads \in {<<"d">>, <<"x">>, <<"x", "y">>, <<"x", "e">>}}
    \cup {<<Item("d", <<"d">>)>>,
          <<Item("x", <<"d">>), Item("y", <<"e">>)>>,
          <<Item("x", <<"y">>), Item("y", <<"x">>)>>,
          <<Item("x", <<"x">>), Item("x", <<"x">>)>>}

Yields == {<<"x">>, <<"z", "y">>, <<"x", "x">>, <<"d", "x", "d">>, <<"d">>}

PipelineStatements ==
    {[fields |-> f, stages |-> s, yield |-> y]
       : f \in FieldLists, s \in UNION {[1 .. n -> Stages] : n \in 1 .. 3}, y \in Yields}

\* More stages, and more names in the yield, than are kept.
LongPipeline == [fields |-> <<Field("x", 1), Field("y", 1), Field("z", 2)>>,
                 stages |-> [k \in 1 .. 6 |-> <<Item("x", <<IF k = 1 THEN "d" ELSE "x">>)>>],
                 yield |-> <<"x", "y", "z", "x", "y", "z">>]
NoPipeline == [fields |-> << >>, stages |-> << <<Item("x", <<"x">>)>> >>, yield |-> <<"x">>]

-----------------------------------------------------------------------------
MachineState(name, action, gotos) == [name |-> name, action |-> action, gotos |-> gotos]
StateNames == <<"a", "b", "c", "d", "e">>

\* One or two states, with any bodies.
Bodies == {MachineState(name, action, gotos) : name \in {"a", "b"}, action \in BOOLEAN,
             gotos \in {<< >>, <<"a">>, <<"b">>, <<"b", "a">>, <<"x">>}}
ShortMachines == {[states |-> s, initial |-> i]
                    : s \in UNION {[1 .. n -> Bodies] : n \in 0 .. 2}, i \in {"a", "b", "x"}}

\* Three states and more, each with a goto to the next one; the first, or all, with
\* one to the initial state.
LongMachines ==
    {[states |-> [k \in 1 .. n |-> MachineState(StateNames[k], k = 2,
                      <<StateNames[IF k = n THEN 1 ELSE k + 1]>>
                      \o (IF k <= back THEN <<StateNames[i]>> ELSE << >>))],
      initial |-> StateNames[i]] : n \in 3 .. 5, i \in 1 .. 3, back \in {1, 5}}

StateMachines == ShortMachines \cup LongMachines
NoMachine == [states |-> << >>, initial |-> "x"]

PipelineInputs == PipelineStatements \cup {LongPipeline, NoPipeline}
MachineInputs == StateMachines \cup {NoMachine}

-----------------------------------------------------------------------------
(***************************************************************************)
(* The objects and literals of the analyzed expressions: integers of one,  *)
(* two and five bits and of W bits, both signs, an array of vectors of W   *)
(* bits, an alias, a parameter and an unpacked array.                      *)
(***************************************************************************)
DataType == INSTANCE DataTypes

Count(n) == [kind |-> "count", count |-> n]
Of(spelling, counts) ==
    DataType!FromSpelling(spelling, "implicit", [i \in DOMAIN counts |-> Count(counts[i])])
Object(type, shape, parameter) ==
    [type |-> type, shape |-> shape, parameter |-> parameter]

VariableTypes ==
    {Of("int", <<DataType!Parameter>>), Of("uint", <<DataType!Parameter>>), Of("int", <<DataType!Literal(1)>>),
     Of("uint", <<DataType!Literal(1)>>), Of("uint", <<DataType!Literal(2)>>), Of("int", <<DataType!Literal(5)>>),
     Of("logic", <<DataType!Parameter, DataType!Literal(2)>>),
     DataType!AliasWithArguments(Of("uint", <<DataType!Parameter>>), "implicit", << >>)}

TypedObjects ==
    {Object(type, 0, FALSE) : type \in VariableTypes}
    \cup {Object(Of("uint", <<DataType!Literal(3)>>), 0, TRUE), Object(Of("uint", <<DataType!Literal(2)>>), 1, FALSE)}

DecimalLiterals == {-3, -1, 0, 1, 2}

-----------------------------------------------------------------------------
(* Names: three identifiers, two of them spelled like what the compiler    *)
(* makes up, and the two outputs of a gate, with and without an origin.    *)

NameSpellings == <<[stem |-> "valid", number |-> 0], [stem |-> "valid", number |-> 1],
               [stem |-> "data", number |-> 0]>>
NoOrigin == 0
AskedNames == [kind : {"source"}, origin : {NoOrigin, 1, 2, 3}]
                \cup [kind : {"valid", "ready"}, origin : {NoOrigin, 1}]

-----------------------------------------------------------------------------
(* Source files: up to two modules, or none, with gaps and words anywhere. *)

SourceItems == {<<"gap">>, <<"word">>, <<"signal">>, <<"process">>, <<"typedef">>,
                <<"parameter", "punctuation">>, <<"instance">>}
Headers == {<< >>, <<"port", "punctuation">>, <<"port", "punctuation", "port", "punctuation">>}

SequencesExt == INSTANCE SequencesExt

\* A clocked process reads its clock and writes a register.
HasSignals(header, body, i) ==
    Len(header) > 2 \/ \E j \in 1 .. i - 1 : body[j] = <<"signal">>

ModuleTexts(n) ==
    UNION {{<<"module">> \o header \o SequencesExt!FlattenSeq(body) \o <<"endmodule">>
              : header \in {h \in Headers : \A i \in DOMAIN body :
                             body[i] = <<"process">> => HasSignals(h, body, i)}}
           : body \in UNION {[1 .. k -> SourceItems] : k \in 0 .. n}}

Between == {<< >>, <<"gap">>, <<"word">>, <<"typedef">>}

WrittenFiles ==
    IF "layout" \notin Parts THEN {<< >>}
    ELSE Between \cup ModuleTexts(MaxItems)
         \cup {a \o m \o b : a \in Between, m \in ModuleTexts(MaxFirstItems), b \in Between}
         \cup {m \o a \o n : m \in ModuleTexts(MaxFirstItems), a \in Between, n \in ModuleTexts(1)}

-----------------------------------------------------------------------------
(* The parts side by side. *)

VARIABLES
    running,
    tree, text, tokens, read,
    operands, constraints, built, resolution

expression == <<tree, text, tokens, read>>
analysis == <<operands, constraints, built, resolution>>

Expression == INSTANCE ExpressionText
Analysis == INSTANCE ExpressionAnalysis
            WITH Objects <- TypedObjects, Literals <- DecimalLiterals,
                 MaximumBits <- MaxGeneratedBits, answer <- resolution

\* What BackEnd is given; each is the name of a set that TLC evaluates once.
GivenBlocks == DeclaredBlocks
GivenModules == GraphModules
GivenPipelines == PipelineInputs
GivenMachines == MachineInputs
GivenFiles == WrittenFiles

-----------------------------------------------------------------------------
\* What does not run rests in one initial state.
Init == /\ running \in Parts
        /\ running # "fabric" => connections = << >>
        /\ running # "expression" => tree = Leaf
        /\ running # "route" => transfers = NoRoute
        /\ running # "structured" => pipeline = NoPipeline
        /\ running # "fsm" => machine = NoMachine
        /\ running # "layout" => source = << >>
        /\ Route!Init
        /\ Fabric!Init
        /\ Machine!Init
        /\ Rtl!Init
        /\ Integer!Init
        /\ Analysis!Init
        /\ RtlName!Init
        /\ Expression!Init
        /\ Structured!Init
        /\ Layout!Init

Next == \/ /\ running = "fabric" /\ Fabric!Next
           /\ UNCHANGED <<running, expression, route, arenas, structured, fsm,
                          integer, analysis, names, layout>>
        \/ /\ running = "expression" /\ Expression!Next
           /\ UNCHANGED <<running, fabric, route, arenas, structured, fsm,
                          integer, analysis, names, layout>>
        \/ /\ running = "route" /\ Route!Next
           /\ UNCHANGED <<running, fabric, expression, arenas, structured, fsm,
                          integer, analysis, names, layout>>
        \/ /\ running = "rtl" /\ Rtl!Next
           /\ UNCHANGED <<running, fabric, expression, route, structured, fsm,
                          integer, analysis, names, layout>>
        \/ /\ running = "structured" /\ Structured!Next
           /\ UNCHANGED <<running, fabric, expression, route, arenas, fsm,
                          integer, analysis, names, layout>>
        \/ /\ running = "fsm" /\ Machine!Next
           /\ UNCHANGED <<running, fabric, expression, route, arenas, structured,
                          integer, analysis, names, layout>>
        \/ /\ running = "integer" /\ Integer!Next
           /\ UNCHANGED <<running, fabric, expression, route, arenas, structured,
                          fsm, analysis, names, layout>>
        \/ /\ running = "types" /\ Analysis!Next
           /\ UNCHANGED <<running, fabric, expression, route, arenas, structured,
                          fsm, integer, names, layout>>
        \/ /\ running = "names" /\ RtlName!Next
           /\ UNCHANGED <<running, fabric, expression, route, arenas, structured,
                          fsm, integer, analysis, layout>>
        \/ /\ running = "layout" /\ Layout!Next
           /\ UNCHANGED <<running, fabric, expression, route, arenas, structured,
                          fsm, integer, analysis, names>>

Spec == Init /\ [][Next]_<<running, fabric, expression, route, arenas, structured, fsm, integer,
                           analysis, names, layout>>

-----------------------------------------------------------------------------
ReadsBack == Expression!ReadsBack
ParensAreEnough == Expression!ParensAreEnough

\* The type of a result holds every value the operation can give, and no narrower type
\* of the same family would.
ResultTypesAreExact == Analysis!ResultsHoldEveryValue /\ Analysis!RangesAreTight

ConversionsKeepValues == Analysis!ConversionsKeepValues
BitsAreAccountedFor == Analysis!BitsAreAccountedFor
=============================================================================
