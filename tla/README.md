# Verification of pigen

pigen compiles an elastic hardware language to SystemVerilog. A signal is not
just a value: it is `wire`, `reg`, `logic`, `buf`, `skid`, `fifo`, `port` or an
abstract handshake, and an assignment `a <= b` is an atomic transfer that fires
when its guard holds, every source it consumes is valid and every destination it
fills is ready. The generated circuit is correct only if each storage primitive
keeps the handshake promise for every clock edge and neighbour, and the compiler
is correct only if what it accepts cannot break that promise. This directory
models the generated circuits edge by edge and the part of the compiler that
decides what is accepted, checks both with TLC, and proves with TLAPS what can be proved
of them for every value of the constants.

Paths are relative to the repository (`src/blocks.c` is the file of that name in
the compiler's source directory). PROJECT.json ties every definition to its lines.

## The system

Two front ends share the repository.

* The structured compiler is what `pigen` runs (`pigen.c`, `compile.c`):
  preprocess, lex, parse, resolve, lower transfers and module, assign names,
  build the output model, emit.
* The textual front end (`assignments.c`, `blocks.c`, `pipeline.c`, `fsm.c`,
  `procedural.c`, `declarations.c`, `transfer.c`) rewrites source text. It is
  linked and documented and still is the definition of fabrics, pipelines and
  state machines, but the compiled path does not reach it
  (`.knowledge/where/am/i.md`).

Both instantiate `rtl/pigen_primitives.sv`.

| component | state | operations | what makes it correct |
|---|---|---|---|
| storage primitives (`rtl/pigen_primitives.sv`) | pointers, counts, valid bits, payloads | one clock edge under reset, clear, discard, force, handshake | bounded first-in first-out; nothing lost, duplicated, reordered or stale; validity actions compose in source order |
| router fabric (`blocks.c`) | a binary tree of routers, routing words; at run time endpoint and ingress queues, round-robin bits | validate, enumerate, pair, route, check; a clock edge of the network | what validation admits can be built; every packet reaches the declared destination, in order, and eventually |
| pipelines (`pipeline.c`) | a register and valid bit per stage | a clock edge with guard, reset, ingress joins, output | an elastic join of its sources |
| guard predicates (`predicate.c`) | interned conjunctions | strengthen, compare | one identity per guard; exclusion decided exactly |
| clocked processes (`resolve.c`, `semantic.c`, `transfer_type.c`) | guards, transfers, roles, domains | resolve a block, an if, an assignment; validate ownership | one producer and one consumer per elastic signal and cycle, one clock domain per elastic signal |
| RTL lowering (`rtl_lower.c`, `rtl.c`, `compile.c`) | fire memo, expressions, equations, updates, process records | lower a transfer, close a process, compose the module | the fire identity of a transfer is its guard and its handshakes |
| RTL model (`rtl.c`) | arenas of types, expressions, modules and what they own | one constructor per record | a type is stored once; a module owns whole ranges of the shared arenas |
| routes (`route.c`) | ready graph | build, check | each published transfer obeys its laws; no combinational ready loop |
| state machines (`fsm*.c`) | state register | lower the controller; goto, stop, reset | every state has a code that fits; the register settles in a declared state |
| structured pipelines (`pipeline_identity.c`, `pipeline_stage.c`, `pipeline_lower.c`) | packet, field views | establish, check each stage, publish | what is published is what is declared, and a stage reads what was written before it |
| preprocessor (`preprocess.c`) | macro table, conditional and include stacks, expanded tokens with their origins | one directive, or a run of text to expand | what is selected, defined and emitted follows the text as written; includes form a tree |
| expressions and emission (`expression.c`, `operation.c`, `sv_emit.c`) | trees, tokens | print, lex, parse, drop groups | what is printed parses to the same tree |
| integers (`integer.c`) | interned signed magnitudes | add, subtract, multiply, shift, power, widths | as if limbs and signs were not there |
| types and analysis (`data_type.c`, `semantic.c`, `expression_analysis.c`, ...) | interned types and width expressions | type an operator, a cast, an index, a select | no operation loses a bit, no type is wider than needed |
| names (`rtl_name.c`) | names of the RTL model | assign several names | one name per role and span; made-up names are fresh |
| syntax tree, output model, driver (`syntax.c`, `output.c`, `compile.c`) | spans and items, slots, module ranges | parse, lower, name, build, emit | the file is divided without overlap; what is emitted is what is declared |
| textual transfers (`assignments.c`, `procedural.c`, `transfer.c`), declarations, instance identities, utilities, SVG diagram | - | - | not modelled, reasons in PROJECT.json |

Components meet in two ways. Inside the compiler by calls in a fixed order over
shared arenas: the resolver strengthens guards in the predicate table and reads
transfer-type columns, lowering reads the transfers and guards. In the generated
circuit by handshakes: a packet crosses a boundary in the cycle `valid` meets
`ready`, and everything the generator prints is driven by wires of other generated
parts, in the same cycle.

What is hard: several independent controls of one primitive in one edge; wrap and
occupancy at the limits; arbitration and back-pressure over several routers;
combinational ready chains that wait for sources further up; guards shared,
interned and compared by identity; tables that survive a compilation; ownership
proved pairwise over branches and processes. There is no concurrency inside the
compiler, nothing is persisted, and nothing is retried. PROJECT.json lists the
hazards line by line.

## Modules

Storage primitives

* `SignalWires`: the wires sampled at an edge, and which combinations generated
  code drives (`Generated`, `OrderedOnly`).
* `ElasticQueue`: the abstract promise, a bounded queue with flow-through or
  registered readiness, with the three validity actions.
* `ValidityLaws`: the composition laws of validity actions, written once.
* `PigenFifo`, `PigenSkid`, `PigenBuf`, `PigenPort`: one module per SystemVerilog
  module. State is the registers plus the wires of the cycle; each action is one
  branch of the `always_ff` block; `ImplementsQueue` maps the registers to
  `ElasticQueue` (the ring of slots for the fifo and the skid).
* `StoredSignalProofs`: the theorems.

Fabric

* `FabricTopology`: `validate_fabric` and `build_fabric_topology`, phase by
  phase: endpoints in name order, parents made pair by pair, breadth-first
  routes, rotation of routing words, the collision check.
* `FabricSkid`: the enable-gated endpoint queue `render_fabric_skid` prints; it
  implements `ElasticQueue`.
* `Fabric`: the network under traffic: one step is one edge of all queues and
  routers. Queues are sequences of at most two packets, which `FabricSkid` justifies.
* `FabricChannels`: the abstract promise, a first-in first-out channel per connection.
  `MCTraffic` composes `Fabric` with `FabricTopology`: the routers and words it
  runs are asserted to be those the topology computes (`TablesAreBuilt`).

Pipelines

* `Pipeline`: the stage registers, the ready chain and the ingress joins that
  `append_pipeline_rtl` prints. Which stages read consuming sources is chosen in
  the initial state. A packet records which token of which source it holds: the
  values stages compute are functions of those.
* `JoinQueue`: the abstract promise, a lane per source; a yield joins the heads.

Compiler

* `Predicates`: the guard operators of `predicate.c`; `PredicateTable` exercises
  them by themselves, in any order.
* `ClockedTransfers`: one module through `resolve.c` and `rtl_lower.c`. The
  program is not given: each step of the resolver chooses the statement it meets
  (block, if, assignment, next process), so the behaviours are all programs within
  the bounds. Ownership validation, lowering of each transfer, the process record
  and the composition gate follow; a diagnostic ends the compilation.

* `Preprocess`: the walk of `preprocess_source` at the grain of its loop: an action
  per directive, one for a run of text, one for the end of a file. Its state is the
  include stack with a position per file, the conditional frames, the macro table, the
  output and the include edges; `visited` is history. The properties read that
  history as text: `SelectedAt` matches openers and closers by counting and `LiveAt`
  looks for the last definition, where the code keeps flags and a table. What expansion
  yields is a constant (`Expand`), because it is a recursion the walk only asks for its outcome.
* `MacroExpansion` extends it with `expand_tokens`, and `MCPreprocess` gives `Expand` that
  value. An expanded token *is* its origin (a tree instead of the arena), because its
  kind and text are always those of the raw token it is spelled by.

* `ExpressionGrammar`: an expression tree, the two precedence tables, `Rendered`
  (`render` of `sv_emit.c`), `Lexed` (the longest-symbol rule) and `Read` (the recursive
  descent of `expression.c`). All are operators; the parse functions recurse as the
  code does and yield a tree with the position after it, or `NoParse`.
* `ExpressionText`: one expression through printing, lexing and reading. `Documented`
  is the tree the emitter's contract promises; `Lowered` drops the groups as
  `lower_expr` does.

* `ReadyGraph`: `pigen_route_build` loop by loop: the sweep of clock edges over all
  transfers, the laws of one transfer, its node, its downstream edge, the walk that looks
  for loops. `LawfulRoute` states the laws without the loops' order.
* `RtlModel`: every constructor of `rtl.c`, in any order, also with arguments it refuses.
* `StructuredPipeline`: the identity, the laws of each stage, and the published records.
  Items are the names they read and write.
* `StateMachine`: `fsm_identity.c` and `fsm_lower.c` publish the controller; then the
  machine that `fsm.c` prints runs, from any bits the register may power up with.

* `LimbArithmetic`: the loops of `integer.c` over limbs, as operators; `IntegerArena` the
  table of interned integers with an action per operation. `Value` reads a record back as
  a number: `AnswersAreExact` and `QuestionsAreExact` compare with TLA+'s integers.
* `IntegerRanges`, `DataTypes`, `TypeResolution`: which width holds an
  operator's result, the interned width expressions and their evaluation, the
  constructors of types, and what type each operator gives. An interned thing is its own
  identity. `ExpressionAnalysis` analyzes an expression bottom up; the recursion of
  `analyze` is its stack of operands. Its properties compute what an operator can give
  from the values its operands can have, for every value of the parameter.

* `RtlNames`: `pigen_rtl_assign_names`. A request that is reused leaves its place of
  `staged_text` unwritten and later searches read it, so each call chooses what they find
  (a crash there is left out).
* `SourceLayout`: one source through `compile.c`. The source is a sequence of chunks of
  one byte; the parser's two cursors make spans of them, and lowering, naming, the output
  model and the emitter each take a step and may refuse. What the middle phases do inside is
  in the modules above; here they keep what the layout reads of them. `EmittedAsWritten`
  says what a compilation without an error has emitted: the modules, ports and signals of
  the file in its order, and spans without a hole or an overlap.

* `BackEnd` puts the machines of the compiler's back end side by side and states their
  properties; `MCBackEnd` holds the inputs of its run.

`MC*` modules give constants and put machines that share nothing side by side
(`MCStoredSignals`, `MCClockedModule`, `MCTraffic`, `MCBackEnd`), so that one run answers
for all of them. The machines do not interact, so every state of one is reached with the
others at rest.

## Runs

| run | expectation | what it shows |
|---|---|---|
| `stored_signals` | pass | a three-slot fifo under transfers, flushes, discards, seeding resets and last-ordered invalidates has pointers that agree and implements the queue; so do skid, buf and fabric endpoint; the validity laws of buf, port and fifo that do hold |
| `traffic` | pass | every three-stage pipeline is a join and lets every packet out; in a fabric where two sources contend for one destination each connection is a channel, with the right destination and no starvation |
| `clocked_module` | pass | all programs of the bounds: ownership, domains, no self-feeding, fire identities built from their own transfer; the guard table is canonical and exact |
| `preprocess` | pass | every short program over lines of branches, macros and inclusions: selection, live definitions, whole directives, include tree, end of the result, order of emission |
| `back_end` | pass | one input per part of the compiler, see below |
| `fifo_later_transfer` | violation | a packet accepted after an `invalidate` of the same cycle is dropped |
| `port_validate` | violation | a `validate` after a transfer pulses the old payload |
| `fire_guard` | violation | the fire identity of an else branch is its condition, not the negation |
| `process_gate` | violation | two clocked processes cannot be composed |
| `emitted_parentheses` | violation | an operator under a unary or a postfix is printed without its parentheses |
| `ready_loop` | violation | three bufs in a ring are published as a route |
| `lost_text` | violation | plain SystemVerilog in a module is missing from the emitted module |

The parts of `back_end` and what each shows:

| part | properties | shows |
|---|---|---|
| fabric | `LawfulTopology` | every small block, legal or not, and up to eight endpoints: what is admitted is built into a closed tree of logarithmic depth with distinct reversible routes |
| expression | `ReadsBack` | every small expression with no operator directly under a unary or a postfix reads back as itself |
| route | `LawfulRoute` | one transfer of every shape with any two uses, and three transfers that share stores or form chains: what is published obeys every law on its own and together |
| rtl | `TypesAreCanonical`, `RangesAreOwned` | any six calls of the constructors |
| structured | `LoweredAsDeclared` | pipelines of up to three stages over three fields, legal or not |
| fsm | `EveryStateHasACode`, `SettlesInDeclared` | any two states, and longer rings with gotos back, up to the limit of gotos |
| integer | `IntegersAreExact` | every operation and question on integers of up to four limbs |
| types | `ResultTypesAreExact`, `ConversionsKeepValues`, `BitsAreAccountedFor` | every operator over operands of every family, nested to four nodes, for every value of the parameter |
| names | `NamesAreFresh` | any calls of up to two requests until four names exist |
| layout | `EmittedAsWritten` | every module of up to three items, and two modules or a module with text around it |

### Bounds

* `Depth = 3` in `stored_signals`: the first depth that is not a power of two and at
  which the wrap, full, empty and one-in-between states differ. Proofs cover the
  rest. Two payloads tell every stale or swapped slot apart.
* Small blocks have up to `MaxConnections` connections over three sources and two
  destinations with every mix of direct and routed ones; large ones every routed
  assignment of up to `MaxSources` sources: counts that are and are not powers of two.
* The fabric of `traffic` has three endpoints, hence two routers, one unused port and a
  contended output; payloads are numbered modulo `Number`, enough to see an order
  change of adjacent packets because a queue holds two.
* `Pipeline` has three stages: a join may be first, in the middle and last.
  Tokens are numbered modulo one more than fit, so all tokens in flight differ.
* `ClockedTransfers`: two processes, three transfers, two conditions, at most two
  pending statements; one signal of each kind that the code treats differently
  (abstract, buffered, register, variable), two domains. Ownership, domain and
  memo errors need two transfers; the third separates adjacent from distant ones.
* `PredicateTable`: three conditions, four predicates.
* `Preprocess`: programs of up to `BranchLines` lines of conditionals around a
  definition, `MacroLines` lines of definitions and uses (object and function
  macros, nested brackets, empty arguments, mutual recursion, continued and torn
  lines), up to `UnendedLines` such lines of a file without its last newline, and
  `IncludeLines` lines that include two files, one through a macro, whose own
  inclusion the provider may resolve in two ways. Two nested conditionals with
  an alternative need four lines, a redefinition that is removed three, an
  inclusion read twice two. Each program is one behaviour but for the provider.
* `ExpressionText`: every operator under and over every operator, in every operand
  position; chains of three nodes and pairs of compound operands with one or two
  operators of every level. A misplaced parenthesis shows between a node and its child,
  a lost one at the earliest with the next operator on either side.

* `ReadyGraph`: three transfers make the shortest loop the one-hop walk misses; two
  edges, and one store of each kind.
* `RtlModel`: six records. A range that is not owned needs two modules, a record of the
  first, one of the second and a second of the first.
* `StructuredPipeline`: a field written in the first stage and read in the third lies
  over a stage; the limit of names is four, so lists at and past it occur, in one pipeline past it in stages and in names of the yield.
* `StateMachine`: five states need three bits, four just fill two; `MachineLimit` is seven so
  that a machine with one goto too many occurs (the code has 64).
* `IntegerArena`: limbs of two bits and radix three stand for 32 bits and ten: the code
  needs only that the radix is less than a limb, and products of limbs fit twice the
  width. Decimals of three digits give two limbs, sums three, products four: carries and
  borrows run through full and equal limbs. Three integers per history: an operation
  finds its result in the table, or not. Questions are asked of single integers.
* Types: one parameter `W`; the values of `W` include one, powers of two and their
  neighbours. `MaxCompared` leaves out the comparison of value sets for results wider
  than 24 bits, which repeated powers reach; their widths are still evaluated. 65535
  stands for the largest 64-bit width.
* `RtlNames`: two identifiers are spelled as the first two candidates of a role, and the
  third candidate is free; four names are two more than a call adds.
* `SourceLayout`: an overlap of the two cursors' spans needs an item of one cursor before
  one of the other; a third item adds what lies behind both.

### Fairness

Liveness is asked of generated circuits only.

* `Fabric!FairSpec`: the clock keeps running (`WF` of a running edge) and a
  consumer with a waiting packet becomes ready again and again. Nothing is asked of
  sources, so starvation by a source that always offers would be found.
  With one token value (`EveryPacketDelivered` asks it of packets numbered 0): sources,
  routers and consumers treat numbers alike, so what holds of one holds of all.
* `Pipeline!FairSpec`: `SF` of a cycle in which guard, sources and consumer are
  willing at once. It is an assumption about the neighbours, not the pipeline: an
  elastic source keeps its offer until it is taken and the guard is the program's.
  Which stage moves in that cycle is left to the circuit, and resets and stalls may
  come between any two such cycles. `EveryTokenLeaves` is asked of token 0, for the same
  reason. In `traffic` each fairness condition is that of its circuit, while it is clocked.

`CHECK_DEADLOCK FALSE` appears where the modelled system ends: a topology that is
built or rejected, a compilation that has composed its module or failed.

## Proofs

Eight modules prove 31 theorems; 30 of them state a property a run checks on a small
instance. Safety is proved with an inductive invariant, refinement as step simulation
under such an invariant.

### Assumptions on the constants

Each is named in the module that declares the constants, and TLC evaluates it on the
values of every run.

| assumption | says | why the code justifies it |
|---|---|---|
| `DepthAssumption`, `DriveAssumption`, `SignalsAssumption` | a fifo has a slot; what drives a primitive is a set of wire values; a payload of zeros exists | `DEPTH` of an array; the ports |
| `WiringAssumption` | ports of routers are wired in pairs, and every endpoint has the one port that names it | `Attach` writes both sides (`make_topology_parent`) |
| `WordsAssumption` | a journey starts at the port of its source, passes no link twice, and the word leads from each place to the next and from the last to the declared destination | `ReachesDestination` of `FabricTopology`, checked before a fabric is printed and by `LawfulTopology` over all small blocks; `TablesAreBuilt` ties the two models |
| `LastAssumption` | stages are numbered from zero | array of stages |
| `ConditionsAssumption`, `ProgramAssumption` | conditions are numbers; statements write and read signals and write at least one; `NoDomain` is not a domain | expression indices; what the parser accepts |
| `ProgramsAssumption`, `IdentifiersAssumption` | a source has tokens, the last of which and no other is its end; the provider answers with sources there are; a mark is no identifier | the lexer; the provider's contract (`preprocess.h`) |
| `RoutesAssumption`, `MachinesAssumption` | the transfers of a module are a non-empty list of transfers with a non-empty list of destinations; an fsm is a list of states with lists of gotos | arenas and arrays |
| `PipelinesAssumption`, `LimitAssumption` | a pipeline is a list of fields with widths, a list of stages that are lists of items, and a list of names; the arrays have a place | the parser's nodes; `FSM_MAX`, `PIGEN_PIPELINE_MAX` |
| `FilesAssumption` | a source file is a list of chunks; a module ends before the next begins, and a port, a signal or the end of a module stands in a module | a chunk is what the parser takes it for: `parse_module` reads to the first `endmodule` and fails without one, and only it reads ports and signals |

Some theorems have a hypothesis on the driver of a primitive, as in the code that
prints those drivers: `Ordered` and `SkidOrdered` (a validity action comes after the
transfers; without it `fifo_later_transfer` shows the drift), `BufGenerated`,
`FifoGenerated` (the wires generated code drives), `EndpointHandshakes` (no validity
action reaches the queue of a fabric endpoint). The drivers of `stored_signals` meet each of them.

### Storage primitives (`StoredSignalProofs`)

For every depth, payload type and driver.

* `TypeCorrect`, `PointersNeverDrift`: the invariant is `QueueInv`, `TypeOK` and
  `PointersAgree` together: the agreement alone says nothing about out-of-range pointers.
* `FifoImplementsQueue`: lemmas on the ring (`RingIsSeq`, `DropHead`, `WriteTail`,
  `PlaceInjective`) say what a pop and a push do to the sequence the slots spell;
  `SameHandshake` equates concrete and abstract handshakes; each branch then maps to one
  action of `ElasticQueue`.
* `SkidAlwaysImplementsQueue`, `BufAlwaysImplementsQueue`, `EndpointAlwaysImplementsQueue`:
  the same, branch by branch; the skid under `SkidInv` (types and agreeing pointers), the
  endpoint with the gated wires as the queue's wires.
* `BufAlwaysComposes`, `PortAlwaysComposes`, `FifoLoneActionAlwaysActs`: action properties, one
  case per branch of the block. That of the port says when it pulses; what the pulse shows
  is another matter where a validate follows the write (`port_validate`).

### Generated circuits (`TrafficProofs`)

* `FabricDelivers`, `FabricNeverOverflows`: for every wiring and every routing words that
  lead to their destinations. `FabricInv` says of every queue that it holds at most two
  packets and that each of them is at a place of the journey of its source with its word
  rotated as far as it has come; the property alone (right destination) says nothing of
  packets under way. `ForwardedIsOnItsWay` is the hop, `GrantedAsks` the arbitration.
* `FabricImplementsChannels`: for every such wiring, however many routers a journey
  passes. The refinement mapping reads the numbers of a source off the queues of its
  journey. `HandsOver` is the heart: what an output gives away of a source is exactly what
  the one queue on its journey gives away, because no two places of a journey leave by the
  same port (`ExitIsOwn`). Each queue then passes on what it gets (`QueueExchanges`), a row
  of such queues does (`RowPasses`), and `ChannelMoves` adds them up from the transmit
  queue to the receive queue. Loss, duplication and reordering are excluded at once.
* `PipelineAlwaysJoins`: for every number of stages and every set of ingress stages. The
  refinement mapping reads a lane per source off the valid stages; `LaneMoves` telescopes,
  stage by stage, what each did to the lanes in the edge: a lane loses its head exactly when
  the last stage delivers and gains a token exactly when its source is drained.
  `SlotSteps` and `LaneSteps` unfold the recursive functions one stage.

### Guards and clocked processes (`PredicateProofs`, `ClockedModuleProofs`)

For every set of signals, statements, domains and conditions, hence every module.

* `TableIsCanonical`, `TableExclusionIsExact`: `WellFormed` (strictly increasing atom lists,
  interned once) is inductive: `InsertAtom` proves the insertion sort, `InternTable` the
  search. `OpposedExact` proves the merge walk of two atom lists right, by the least pair of
  positions at which they differ; an assignment that satisfies two unopposed guards is built.
* `OneDomain`, `NoSelfFeed`: `RolesInv` fixes the roles of each past transfer as a function
  of its signals and of what its guard reads, `DomainInv` binds each elastic signal to the
  domain of all its uses. Both need that guards only grow (`GuardReadsStable`).
* `ExclusiveOwnership`: the pairwise check over all transfers, with guards exclusive as
  `ExclusiveMeans` says, leaves no assignment of the conditions under which two own a signal.
* `OwnFire`: `FireInv` says what every memo entry and every update of this compilation
  means, whatever the memo held at its start.

### Back end (`BackEndProofs`)

* `RouteAlwaysLawful`: `RouteInv` states the laws up to the loop counter (`OneEdge`,
  `Lawful`, `NodesOf`) and carries them through the phases to what is published.
* `RangesAlwaysOwned`, `TypesAlwaysCanonical`: `RangeInv` says that a range of a module holds exactly
  the places whose records name it; a record may be added only at its end.
* `MachineAlwaysSettles`: every name a goto uses has a code of a declared state.
* `PipelineAlwaysAsDeclared`: `StructuredInv` says of the stages checked so far that what
  they read was written before, and of the outgoing packet what it was summed from. The
  width is summed twice, over the fields in the order of their declaration and over the
  members in the order of the yield: `SumTakesAny` shows that the order of a sum does not
  matter, so the two agree (`SameSum`) where fields and members are the same set. The proof
  found a precondition of the property wrong: it bounded the kept members, which are within
  the limit by definition, in place of the names the yield reads (`LongPipeline` is past it).
* `EveryStateAlwaysHasACode`: the three width loops, two that halve a rest and one that
  doubles a value, each leave room for all the names. The step of a loop (`HalvingsStep`,
  `DoublingsStep`) is carried to every number by the least number it would fail for.
* `NamesAlwaysFresh`: the call is a fold over its requests; `Grows` is what each of them
  keeps, and `UniqueNameIsFree` that the search for a suffix ends, because the texts are
  finitely many.

### Source layout (`SourceTreeProofs`, `SourceLayoutProofs`)

`EmittedAlwaysAsWritten`, for every set of source files. Parser, output model and emitter go
through a list once: `ParseSteps`, `BuildSteps` and `KindSteps` name what each has made after
every place, and a claim is carried along by the least place it would fail at.

* The parser (`ParseInv`): the nodes are the items read so far in their order, each once,
  with spans among them; a module that has ended has a span of its own.
* The output model: that span is what the second module of a file fails on, because the
  count of ranges stayed at one (`TwoModulesFail`). So what is emitted has one module.
* The coverage check compares neighbouring spans only; it does not know where the items
  without a slot lie. `CoverInv` says what spans that never go back cover. Before the module
  has ended (`Half`), if none has passed the cursor of bytes, all up to that cursor but the
  declarations; if one has, the next span of bytes will go back. From its end on (`Full`),
  all of the file but the declarations, because the last span of a module reaches the end
  of the file.
* The slots of such a tree are the module followed by its children (`OneModule`), whatever
  their number, so its lines are all that is emitted (`RenderedModule`), each declaration
  at its place (`ChildrenOfKind`), and no name is left over (`NamesFound`).
* `LayoutInv` holds the conclusions for each phase of the compilation; `Written` and
  `WrittenSo` turn them into the property.

### Preprocessor (`PreprocessProofs`)

For all sources, every provider and every outcome of expansion.

* `IncludesAlwaysATree`: `ReadingOK` adds to the property the types of the stack and of
  the edges: an edge names sources there are.
* `DirectivesAlwaysWhole`: the property speaks of two visits of one source, possibly in two
  readings of it, so no invariant of one walk carries it. `Boundary(s)` is the least set of
  places of a source that holds the first and is closed under passing what is read there;
  `WholeInv` says that every place read and every place to be read is one, and
  `BoundariesApart` that none lies inside another's directive.
* `DefinitionsAlwaysLive`: `LiveInv` says that the table has at most one live entry of a name
  and that it is the one `LiveAt` finds in the text, for every name; `RetireFinds` and
  `AddFinds` are what the two table operations do to every name.
* `BranchesAlwaysAsWritten`: `FrameInv` matches the frames with the places of their openers:
  those places are the open conditionals, each has as many openers more than closers
  behind it as frames lie above it, the three flags of a frame say whether every
  conditional below it has chosen its present alternative, whether it has too, and whether
  one of its alternatives held. `OpenAtNext` and `ChosenNext` say what one place more does
  to the text's reading, `FramedOpens`, `FramedAlternates` and `FramedCloses` what it does to
  the frames. What an alternative asks is asked of the table, hence `LiveInv` first.

### Only model-checked

* Liveness (`EveryPacketDelivered`, `EveryTokenLeaves`): fairness and `ENABLED` are out of
  reach.
* `LawfulTopology`, `ReadsBack`, `ResultTypesAreExact`, `ConversionsKeepValues`,
  `BitsAreAccountedFor`: their modules use recursive
  operators or folds over data, where an answer for every input needs induction over data.
* `EmissionInOrder`, `CompleteResult`: what is emitted is what the recursion of
  `MacroExpansion` yields.
* `IntegersAreExact`: powers, and folds over limbs.

## Disagreements between code and documents

The seven violation runs are findings in PROJECT.json. Met while modelling, but not
runs of their own:

* A `validate` or `invalidate` that precedes the transfer of a fifo or a skid in
  source order also moves the count without the pointers. `fifo_later_transfer` is
  the shortest case of that family; a skid has the same last lines.
* An indexed-up select is printed as the range of its two bounds and an indexed-down one
  as an index (`sv_emit.c:601`), although the parser keeps `+:` and `-:` apart from `:`
  and the second bound is a width. The emitter's contract asks for exactly this text,
  so `Documented` takes it as promised.
* `int[1] ** uint[1]` is given the type `int[1]`, though `(-1) ** 0` is 1
  (`data_type.c:1841`); `how/are/symbolic/numerical/ranges/sized.md`
  promises a family that is lossless for every width. The
  property excludes this one power by name (`OneBitPower`).
* A typedef of `uint[W]` with packed dimensions, promoted to a wider integer, is refused
  as an "internal expression materialization failure": the validity test takes the
  underlying width (`data_type.c:821`), the choice of the common type the packed one.
* `fsm_identity.c:212` gives the state type one bit more than the register has for two
  and more states; the comment at line 206 promises the register's width.
* After `FSM_MAX` gotos the update of the reset is written past its array
  (`fsm_lower.c:482`); the model ends in the phase `undefined` there.
* `pipeline_stage.c:421` compares `in_bits` and `out_bits` of one stage, while
  `how/to/repartition/pipeline/boundaries.md` asks that adjacent stages' packets agree.
  A read that skips stages passes the laws of stages and is refused when lowered.
  `yield {x, x}` gives a packet whose members are not as wide as the established packet.
* A SOURCE name is copied without a look at the names there are, so a signal spelled
  `valid` collides with a made-up `valid`; `rtl_name.h:9` promises collision-free names.
  A compilation asks for SOURCE names only. The comment above `unique_name` calls suffixes
  after `_1` unreachable: an identifier spelled `valid_1` reaches them.
* The count of module ranges grows only when their array does (`output.c:56`), so a file
  with two modules that have anything in them fails with "output model build failed". Text
  around the only module overlaps the module's last span, which ends with the file, and
  fails with "SystemVerilog emission failed"; so does a typedef, parameter, instance or
  process that does not directly follow a declaration. The comment at `syntax.c:279`
  promises spans that are contiguous over the whole file.
* The body of a literal is printed from its first word only (`sv_emit.c`).

## Left out, and why

* Payload arithmetic: payloads are opaque members of a small set.
* `ClockedTransfers` compiles one module; the memo limits (256 entries, 16 uses),
  the order of uses in the memo key, concatenations of one element and payload
  expressions are abstracted. An earlier compilation is present as what it may have
  left in the memo. `FireIsGuard` takes conditions of one bit.
* `FabricTopology` takes names as numbers in the same order and leaves out the
  duplicate-name scan and the 64-hop limit, which trees of the bounds do not reach.
* `Pipeline` models the circuit, not the rewriting of its text. After a
  `pipeline_reset` the sources are not realigned: the join promise starts anew.
* `Preprocess` starts from tokens with their lines. Diagnostics and their spans are
  left out, a failing step just drops the result; path texts are not concatenated, and
  the provider fails only for paths it does not know. That an expansion has the
  *text* repeated substitution gives is not stated, only where it comes from and in
  which order.
* `ExpressionText` leaves out calls, members and replications (the printer makes none),
  the digits and the unknown bits of literals, and reads casts on a signedness or a width
  as SystemVerilog does: the front end knows only casts on named types, and takes the
  quote after a number into the number.
* `ReadyGraph`: widths that overflow 64 bits. `RtlModel`: constructors that only set an
  origin; only tests call them. A process records the trailing range of updates whatever
  identities it is given.
* `StructuredPipeline`, `StateMachine`: expressions of items, guards and actions are the
  names in them or a placeholder, as in the code (the lowered guard and reset are
  stand-ins); parameterised widths. More than 64 stages, fields or names are dropped
  silently by the code; the model has the limit as `Limit`. Neither lowering is reached by
  a compilation, nor are `pigen_lower_blocks` and `pigen_finish_pipeline_models`.
* Types: several parameters, type syntax, SystemVerilog literals and the digits of based
  ones; calls, members and replications.
* `SourceLayout`: elastic declarations (their transfers have no slot), fsm and pipeline
  items, header parameters, macros and includes, whose spans are those of their
  invocation; instances of primitives never reach the layout.
* Instance identities, declarations, textual transfers: PROJECT.json says why.
* Parsing inside statements, diagnostics' wording, memory management, the SVG diagram.

## Plan

1. `IntegersAreExact` proved; `CompleteResult` from what expansion
   promises of the end of a file.
2. Expansion as repeated substitution: the text `MacroExpansion` yields against a
   rewriting of the token list, with no stack.
3. `SourceLayout` with elastic signals: instances and equations have no slot of the output
   model today; the module grows when the code does.
4. `AtomicTransfer` (`assignments.c`, `procedural.c`), if a caller returns.
