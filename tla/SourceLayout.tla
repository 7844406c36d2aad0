---------------------------- MODULE SourceLayout ----------------------------
(***************************************************************************)
(* From a source file to the emitted text (compile.c), for sources of      *)
(* static signals: the parser divides the file into opaque spans and       *)
(* items, the lowering publishes modules and objects, names are requested, *)
(* the output model orders what is to be emitted, and the emitter checks   *)
(* the spans against the file before it writes.                            *)
(*                                                                         *)
(* A source is a sequence of chunks of one byte each: a gap between        *)
(* tokens, punctuation the grammar asks for, a word of plain SystemVerilog *)
(* that no item owns, the head of a module, its end, or an item.           *)
(***************************************************************************)
EXTENDS Integers, SequencesExt, FiniteSetsExt

CONSTANT Sources

VARIABLES
    phase, source,
    nodes,          \* the syntax tree in source order
    objects,        \* one per lowered signal, in order
    names,          \* the SOURCE names
    items, nested,  \* the output model: its slots, and the range of every module
    output          \* the lines of the emitted text

Declarations == {"port", "signal"}
Tracked == {"typedef", "parameter", "instance", "process"}

-----------------------------------------------------------------------------
(* The parser.  Of the chunks 1 .. n, chunk i is the bytes i - 1 .. i.  A  *)
(* cursor is the last chunk it has passed.                                 *)

Opaque(module, first, end) ==
    [kind |-> "opaque", module |-> module, at |-> 0, first |-> first, end |-> end]
Item(kind, module, at) == [kind |-> kind, module |-> module, at |-> at, first |-> at - 1, end |-> at]

\* add_opaque: from the first to the last token between the token cursor and the item.
TokenSpan(file, acc, at) ==
    LET tokens == {i \in acc.cursor + 1 .. at - 1 : file[i] # "gap"}
    IN IF tokens = {} THEN << >> ELSE <<Opaque(acc.module, Min(tokens) - 1, Max(tokens))>>

\* add_opaque_bytes: every byte from the byte cursor.
ByteSpan(acc, end) == IF acc.bytes >= end THEN << >> ELSE <<Opaque(acc.module, acc.bytes, end)>>

\* The chunks of module a, of all the modules of the file, start with its head.
Consume(file, acc, at) ==
    LET kind == file[at]
        item == <<Item(kind, acc.module, at)>>
    IN CASE kind = "module" ->
              [nodes |-> acc.nodes \o TokenSpan(file, acc, at) \o item,
               module |-> at, cursor |-> at - 1, bytes |-> 0]
         [] kind \in Declarations ->
              [acc EXCEPT !.nodes = @ \o ByteSpan(acc, at - 1) \o item,
                          !.cursor = at, !.bytes = at]
         [] kind \in Tracked ->
              [acc EXCEPT !.nodes = @ \o TokenSpan(file, acc, at) \o item, !.cursor = at]
         [] kind = "endmodule" ->
              [acc EXCEPT !.nodes = @ \o ByteSpan(acc, Len(file)),
                          !.module = 0, !.cursor = at]
         [] OTHER -> acc

Start == [nodes |-> << >>, module |-> 0, cursor |-> 0, bytes |-> 0]

\* parse_module_items, over the whole file.
Parsed(file) ==
    LET past[n \in 0 .. Len(file)] == IF n = 0 THEN Start ELSE Consume(file, past[n - 1], n)
    IN past[Len(file)]

ParsedNodes(file) == Parsed(file).nodes \o TokenSpan(file, Parsed(file), Len(file) + 1)

Parse == /\ phase = "read" /\ phase' = "parsed"
         /\ nodes' = ParsedNodes(source)
         /\ UNCHANGED <<source, objects, names, items, nested, output>>

-----------------------------------------------------------------------------
(* Lowering and names. *)

\* The nodes or slots of a list that are of given kinds.
OfKind(list, kinds) ==
    LET chosen[n \in 0 .. Len(list)] ==
            IF n = 0 THEN << >>
            ELSE IF list[n].kind \in kinds THEN Append(chosen[n - 1], list[n]) ELSE chosen[n - 1]
    IN chosen[Len(list)]

ModulesOf(tree) == OfKind(tree, {"module"})
SignalsOf(tree) == OfKind(tree, Declarations)

\* The composition gate lets one process of a module through (rtl_lower.c:1622).
ComposesAll ==
    \A i, j \in DOMAIN nodes : nodes[i].kind = "process" /\ nodes[j].kind = "process"
                               /\ nodes[i].module = nodes[j].module => i = j

\* A source without a module asks for no name, which counts as a failure.
Lower == /\ phase = "parsed"
         /\ phase' = IF ComposesAll /\ ModulesOf(nodes) # << >> THEN "named" ELSE "refused"
         /\ objects' = SignalsOf(nodes)
         /\ names' = ModulesOf(nodes) \o SignalsOf(nodes)
         /\ UNCHANGED <<source, nodes, items, nested, output>>

-----------------------------------------------------------------------------
(* The output model. *)

Slot(node) == [kind |-> node.kind, at |-> node.at, first |-> node.first, end |-> node.end,
               range |-> [first |-> 0, count |-> 0]]

\* nested_ensure: the count of ranges only grows with the array that holds them, and
\* that doubles from 8.
Ensure(ranges, needed) ==
    IF needed <= ranges.capacity THEN ranges
    ELSE [ranges EXCEPT !.capacity = IF @ = 0 THEN 8 ELSE 2 * @, !.count = needed]

WithRange(of, key, range) ==
    [k \in DOMAIN of \cup {key} |-> IF k = key THEN range ELSE of[k]]

\* pigen_output_item_open and _add_child; keys number the modules from 0.
Open(model, key, node) ==
    LET range == [first |-> Len(model.items) + 2, count |-> 0]
        ensured == Ensure(model.nested, key + 1)
    IN [items |-> Append(model.items, [Slot(node) EXCEPT !.range = range]),
        nested |-> [ensured EXCEPT !.of = WithRange(@, key, range)],
        failed |-> FALSE]

AddChild(model, key, node) ==
    IF key >= model.nested.count THEN [model EXCEPT !.failed = TRUE]
    ELSE LET range == [model.nested.of[key] EXCEPT !.count = @ + 1]
         IN [items |-> [Append(model.items, Slot(node)) EXCEPT ![range.first - 1].range = range],
             nested |-> [model.nested EXCEPT !.of = WithRange(@, key, range)],
             failed |-> FALSE]

KeyOf(tree, module) ==
    Cardinality({i \in DOMAIN tree : tree[i].kind = "module" /\ tree[i].at < module})

\* emit_node: an item that publishes no identity of its own is passed by.
Lay(tree, model, node) ==
    IF model.failed \/ node.kind \in Tracked THEN model
    ELSE IF node.kind = "module" THEN Open(model, KeyOf(tree, node.at), node)
    ELSE IF node.module # 0 THEN AddChild(model, KeyOf(tree, node.module), node)
    ELSE [model EXCEPT !.items = Append(@, Slot(node))]

NoRanges == [capacity |-> 0, count |-> 0, of |-> << >>]

NoOutput == [items |-> << >>, nested |-> NoRanges, failed |-> FALSE]

\* emit_node of one node after the other.
Built(tree) ==
    LET laid[n \in 0 .. Len(tree)] == IF n = 0 THEN NoOutput ELSE Lay(tree, laid[n - 1], tree[n])
    IN laid[Len(tree)]

Build == /\ phase = "named"
         /\ LET model == Built(nodes)
            IN /\ phase' = IF model.failed THEN "refused" ELSE "built"
               /\ items' = model.items /\ nested' = model.nested
         /\ UNCHANGED <<source, nodes, objects, names, output>>

-----------------------------------------------------------------------------
(* The emitter. *)

Spans == OfKind(items, {"opaque"})

\* Mutant: spans may overlap.
CoversLoosely ==
    Spans # << >> => Head(Spans).first = 0 /\ Spans[Len(Spans)].end = Len(source)

\* validate_coverage: the spans start and end with the file and never go back.
Covers ==
    Spans # << >> =>
        /\ Head(Spans).first = 0
        /\ \A i \in 1 .. Len(Spans) - 1 : Spans[i].end <= Spans[i + 1].first
        /\ Spans[Len(Spans)].end = Len(source)

\* object_name, and module_name: the first name that no object has.
NameOf(at) == IF \E i \in DOMAIN names : names[i].at = at THEN at ELSE 0
UnclaimedName ==
    LET free == {k \in DOMAIN names : \A i \in DOMAIN objects : objects[i].at # names[k].at}
    IN IF free = {} THEN 0 ELSE names[Min(free)].at

Nested(item) == SubSeq(items, item.range.first, item.range.first + item.range.count - 1)

\* emit_module: the ports, then the other objects; the opaque spans among them are
\* passed by.
Lines(kind, name) == [kind |-> kind, name |-> name, first |-> 0, end |-> 0]
ModuleLines(item) ==
    LET of(kind) == LET chosen == OfKind(Nested(item), {kind})
                    IN [i \in DOMAIN chosen |-> Lines(kind, NameOf(chosen[i].at))]
    IN <<Lines("module", UnclaimedName)>> \o of("port") \o of("signal")
       \o <<Lines("endmodule", 0)>>

TopLevel(i) == \A m \in DOMAIN items : items[m].kind = "module" =>
                 i \notin items[m].range.first .. items[m].range.first + items[m].range.count - 1

Rendered ==
    LET line(i) == IF ~TopLevel(i) THEN << >>
                   ELSE IF items[i].kind = "module" THEN ModuleLines(items[i])
                   ELSE <<[kind |-> "text", name |-> 0, first |-> items[i].first,
                           end |-> items[i].end]>>
    IN FlattenSeq([i \in DOMAIN items |-> line(i)])

Emit == /\ phase = "built"
        /\ phase' = IF Covers THEN "emitted" ELSE "refused"
        /\ output' = IF Covers THEN Rendered ELSE << >>
        /\ UNCHANGED <<source, nodes, objects, names, items, nested>>

Init == /\ phase = "read" /\ source \in Sources
        /\ nodes = << >> /\ objects = << >> /\ names = << >>
        /\ items = << >> /\ nested = NoRanges /\ output = << >>

Next == Parse \/ Lower \/ Build \/ Emit

vars == <<phase, source, nodes, objects, names, items, nested, output>>

Spec == Init /\ [][Next]_vars

-----------------------------------------------------------------------------
Chunks(kinds) == {i \in DOMAIN source : source[i] \in kinds}

\* The byte between two positions is in a span.
SpannedBy(i) == {s \in DOMAIN Spans : Spans[s].first < i /\ i <= Spans[s].end}

\* What is emitted declares every module with its ports and then its other signals, each
\* once, in the order and under the names of the source; and the file is divided without
\* hole or overlap: a byte of a declaration is in no span and any other byte in one.  Two
\* cursors, one of tokens and one of bytes, make the spans.
EmittedAsWritten ==
    phase = "emitted" =>
        /\ \A kind \in {"module", "port", "signal"} :
             LET declared == OfKind(output, {kind})
             IN  /\ {line.name : line \in ToSet(declared)} = Chunks({kind})
                 /\ \A i, j \in DOMAIN declared : i < j => declared[i].name < declared[j].name
        /\ \A i \in DOMAIN source :
             Cardinality(SpannedBy(i)) = IF i \in Chunks(Declarations) THEN 0 ELSE 1

\* Everything that is written is in the emitted text: the words no item owns are copied,
\* and every item has its lines.
NothingIsLost ==
    phase = "emitted" =>
        \A i \in Chunks({"word"} \cup Tracked \cup Declarations) :
            \E l \in DOMAIN output : \/ output[l].name = i
                                     \/ output[l].first < i /\ i <= output[l].end
=============================================================================
