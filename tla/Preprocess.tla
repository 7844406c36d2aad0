------------------------------ MODULE Preprocess ------------------------------
\* The walk of preprocess.c over a source file and the files it includes: one
\* action per directive and one for a run of text. A failing step ends the run
\* and drops the whole result. Diagnostics are left out.
EXTENDS Naturals, FiniteSets, SequencesExt

CONSTANTS
    Programs,  \* families of source texts a run may be given
    Root,      \* the source it starts from
    Strings,   \* the texts the lexer takes for string literals
    Loader,    \* path -> the sources the provider may answer with
    Identifiers,                        \* the texts the lexer takes for identifiers
    Expand(_, _, _),                    \* sources, macros, tokens -> the outcome of
                                        \* expand_tokens
    SpelledBy(_), ProducedBy(_)         \* of an origin: the raw token that spells it, and
                                        \* the one whose expansion produced it

VARIABLES
    sources,       \* source -> its raw tokens [text, line, tight]; tight: nothing
                   \* lies between the token and the next token, newline or end
    macros,        \* definitions in order [name, functionLike, parameters,
                   \* replacement, definition, active]
    status,        \* "running", "done" or "failed"
    reading,       \* the sources being read, outermost first, and where
    conditionals,  \* the open conditionals, outermost first
    output,        \* the expanded tokens, as origins
    edges,         \* the include sites written so far and what they resolved to
    visited        \* history: the places read, whether they were active

pvars == <<sources, macros, status, reading, conditionals, output, edges, visited>>

EndOfFile == "eof"
Grave == "grave"  \* the text of the grave accent that begins an invocation
ConditionalNames == {"ifdef", "ifndef", "elsif", "else", "endif"}
DirectiveNames == ConditionalNames \cup {"include", "define", "undef"}

\* The lexer ends a source with its end of file and takes no other text for it; the
\* provider answers with sources there are.
ASSUME ProgramsAssumption ==
    \A family \in Programs : \A program \in family :
        /\ Root \in DOMAIN program
        /\ \A path \in DOMAIN Loader : Loader[path] \subseteq DOMAIN program
        /\ \A s \in DOMAIN program :
              /\ program[s] \in Seq([text : STRING, line : Nat, tight : BOOLEAN]) \ {<< >>}
              /\ \A i \in DOMAIN program[s] :
                    program[s][i].text = EndOfFile <=> i = Len(program[s])

\* A mark is no identifier.
ASSUME IdentifiersAssumption ==
    Identifiers \intersect {EndOfFile, Grave, "\\", "(", ")", ","} = {}

FromSource(s, i) == [kind |-> "source", source |-> s, at |-> i]
Text(o) == LET span == SpelledBy(o) IN sources[span.source][span.at].text

\* The live definition of a name, 0 if there is none.
FindMacro(table, name) ==
    LET live == {m \in DOMAIN table : table[m].active /\ table[m].name = name}
    IN  IF live = {} THEN 0 ELSE Max(live)

-------------------------------------------------------------------------------
\* Raw tokens.

\* The directive at a token of a source, "none" if there is none.
DirectiveAt(s, i) ==
    LET raw == sources[s]
    IN  IF /\ i < Len(raw) /\ raw[i].text = Grave
           /\ raw[i + 1].text \in DirectiveNames /\ raw[i + 1].line = raw[i].line
        THEN raw[i + 1].text ELSE "none"

LineAfter(s, i) ==
    Min({j \in i..Len(sources[s]) : \/ sources[s][j].text = EndOfFile
                                    \/ sources[s][j].line # sources[s][i].line})

Continuation(s, j) == sources[s][j].text = "\\" /\ LineAfter(s, j) = j + 1

\* Whether the line that begins at token j continues the one before it.
Continues(s, j) ==
    LET raw == sources[s]
    IN  /\ raw[j - 1].text = "\\" /\ raw[j - 1].tight
        /\ raw[j].text # EndOfFile /\ raw[j].line = raw[j - 1].line + 1

\* The first token behind a directive and the lines it continues on.
ContinuedAfter(s, i) ==
    LET raw == sources[s]
    IN  Min({j \in i + 1..Len(raw) : /\ raw[j].text = EndOfFile \/ raw[j].line # raw[j - 1].line
                                     /\ ~Continues(s, j)})

\* The tokens of a continued directive without its continuation marks.
LogicalTokens(s, i) ==
    SelectSeq([k \in 1..ContinuedAfter(s, i) - i |-> i + k - 1], LAMBDA j : ~Continuation(s, j))

\* A continuation mark that no newline follows at once: something lies between, or the
\* source ends.
TornContinuation(s, i) ==
    LET raw == sources[s]
    IN  \E j \in i..ContinuedAfter(s, i) - 1 :
            /\ Continuation(s, j)
            /\ ~raw[j].tight \/ raw[j + 1].line = raw[j].line

-------------------------------------------------------------------------------
Init ==
    /\ \E family \in Programs : sources \in family
    /\ macros = << >> /\ conditionals = << >> /\ output = << >>
    /\ edges = {} /\ visited = << >> /\ status = "running"
    /\ reading = <<[source |-> Root, at |-> 1]>>

Here == Last(reading)
Directive == IF Here.at > Len(sources[Here.source]) THEN "none" ELSE DirectiveAt(Here.source, Here.at)
InSource == status = "running" /\ Here.at <= Len(sources[Here.source])
Active == conditionals # << >> => Last(conditionals).branchActive

Visit(after) ==
    visited' = Append(visited, [source |-> Here.source, at |-> Here.at, after |-> after, active |-> Active])

\* Reading goes on behind what was read.
Consume(after) == reading' = [reading EXCEPT ![Len(reading)].at = after] /\ Visit(after)

Fail ==
    /\ status' = "failed"
    /\ reading' = << >> /\ conditionals' = << >> /\ macros' = << >> /\ output' = << >> /\ edges' = {}
    /\ UNCHANGED <<sources, visited>>

-------------------------------------------------------------------------------
\* Conditionals.

Operand == sources[Here.source][Here.at + 2].text
Defined == FindMacro(macros, Operand) # 0
Frame == Last(conditionals)
SetFrame(frame) == conditionals' = [conditionals EXCEPT ![Len(conditionals)] = frame]
OnlyConditionals == UNCHANGED <<sources, macros, status, output, edges>>

OpenConditional ==
    LET selected == IF Directive = "ifdef" THEN Defined ELSE ~Defined
    IN  /\ InSource /\ Directive \in {"ifdef", "ifndef"} /\ Operand \in Identifiers
        /\ conditionals' = Append(conditionals,
              [parentActive |-> Active, branchTaken |-> selected,
               branchActive |-> Active /\ selected, sawElse |-> FALSE])
        /\ Consume(Here.at + 3) /\ OnlyConditionals

\* Mutant: a later alternative is entered although one was taken.
ElsifAgain ==
    /\ InSource /\ Directive = "elsif" /\ Operand \in Identifiers
    /\ conditionals # << >> /\ ~Frame.sawElse
    /\ SetFrame([Frame EXCEPT !.branchActive = Frame.parentActive /\ Defined,
                              !.branchTaken = Frame.branchTaken \/ Defined])
    /\ Consume(Here.at + 3) /\ OnlyConditionals

ElsifBranch ==
    /\ InSource /\ Directive = "elsif" /\ Operand \in Identifiers
    /\ conditionals # << >> /\ ~Frame.sawElse
    /\ SetFrame([Frame EXCEPT !.branchActive = Frame.parentActive /\ ~Frame.branchTaken /\ Defined,
                              !.branchTaken = Frame.branchTaken \/ Defined])
    /\ Consume(Here.at + 3) /\ OnlyConditionals

ElseBranch ==
    /\ InSource /\ Directive = "else"
    /\ conditionals # << >> /\ ~Frame.sawElse
    /\ SetFrame([Frame EXCEPT !.branchActive = Frame.parentActive /\ ~Frame.branchTaken,
                              !.branchTaken = TRUE, !.sawElse = TRUE])
    /\ Consume(Here.at + 2) /\ OnlyConditionals

CloseConditional ==
    /\ InSource /\ Directive = "endif" /\ conditionals # << >>
    /\ conditionals' = Front(conditionals)
    /\ Consume(Here.at + 2) /\ OnlyConditionals

RejectConditional ==
    /\ InSource
    /\ \/ Directive \in {"ifdef", "ifndef", "elsif"} /\ Operand \notin Identifiers
       \/ Directive \in {"elsif", "else", "endif"} /\ conditionals = << >>
       \/ Directive \in {"elsif", "else"} /\ conditionals # << >> /\ Frame.sawElse
    /\ Fail

-------------------------------------------------------------------------------
\* Mutant: only the first line of a definition is passed over.
SkipByLine ==
    /\ InSource /\ ~Active /\ Directive \notin ConditionalNames
    /\ Consume(IF Directive \in {"define", "include", "undef"} THEN LineAfter(Here.source, Here.at) ELSE Here.at + 1)
    /\ UNCHANGED <<sources, macros, status, conditionals, output, edges>>

\* Text that no branch selects: definitions, inclusions and removals are passed
\* over whole, everything else token by token.
Skip ==
    /\ InSource /\ ~Active /\ Directive \notin ConditionalNames
    /\ Consume(CASE Directive = "define" -> ContinuedAfter(Here.source, Here.at)
                 [] Directive \in {"include", "undef"} -> LineAfter(Here.source, Here.at)
                 [] OTHER -> Here.at + 1)
    /\ UNCHANGED <<sources, macros, status, conditionals, output, edges>>

-------------------------------------------------------------------------------
\* Definitions.

\* The formal parameters a token list writes from its fifth token on, and where the
\* replacement begins; ok is FALSE for a missing or repeated name.
Formals(s, tokens) ==
    LET text(n) == sources[s][tokens[n]].text
        closing == {n \in 5..Len(tokens) : text(n) = ")"}
        close == Min(closing)
        names == {n \in 5..close - 1 : n % 2 = 1}
        commas == (5..close - 1) \ names
    IN  CASE closing = {} -> [ok |-> FALSE]
          [] closing # {} /\ close = 5 -> [ok |-> TRUE, parameters |-> << >>, body |-> 6]
          [] OTHER -> [ok |-> /\ close % 2 = 0
                              /\ {text(k) : k \in names} \subseteq Identifiers
                              /\ {text(k) : k \in commas} \subseteq {","}
                              /\ IsInjective([k \in names |-> text(k)]),
                       parameters |-> [k \in 1..(close - 4) \div 2 |->
                                         FromSource(s, tokens[2 * k + 3])],
                       body |-> close + 1]

\* What a definition says: name, parameters and replacement.
Definition(s, i) ==
    LET tokens == LogicalTokens(s, i)
        raw == sources[s]
        name == raw[i + 2]
        functionLike == Len(tokens) > 3 /\ tokens[4] = i + 3 /\ raw[i + 3].text = "(" /\ name.tight
        formals == IF functionLike THEN Formals(s, tokens)
                   ELSE [ok |-> TRUE, parameters |-> << >>, body |-> 4]
    IN  IF TornContinuation(s, i) \/ name.text \notin Identifiers \/ name.line # raw[i].line \/ ~formals.ok
        THEN [ok |-> FALSE]
        ELSE [ok |-> TRUE,
              macro |-> [name |-> name.text, functionLike |-> functionLike, active |-> TRUE,
                         definition |-> FromSource(s, i), parameters |-> formals.parameters,
                         replacement |-> [k \in 1..Len(tokens) - formals.body + 1 |->
                                            FromSource(s, tokens[formals.body + k - 1])]]]

\* The live definition of a name stops being so.
Retire(name) == [m \in DOMAIN macros |-> IF m = FindMacro(macros, name) THEN [macros[m] EXCEPT !.active = FALSE] ELSE macros[m]]

\* Mutant: a redefinition leaves the earlier definition live.
AddMacroBeside(macro) == Append(macros, macro)

AddMacro(macro) == Append(Retire(macro.name), macro)

DefineMacro ==
    /\ InSource /\ Active /\ Directive = "define"
    /\ LET definition == Definition(Here.source, Here.at)
       IN  IF ~definition.ok THEN Fail
           ELSE /\ macros' = AddMacro(definition.macro)
                /\ Consume(ContinuedAfter(Here.source, Here.at))
                /\ UNCHANGED <<sources, status, conditionals, output, edges>>

UndefineMacro ==
    /\ InSource /\ Active /\ Directive = "undef"
    /\ IF Operand \notin Identifiers \/ LineAfter(Here.source, Here.at) = Here.at + 2 THEN Fail
       ELSE /\ macros' = Retire(Operand)
            /\ Consume(LineAfter(Here.source, Here.at))
            /\ UNCHANGED <<sources, status, conditionals, output, edges>>

-------------------------------------------------------------------------------
\* Inclusion.

RawTokens(s, from, after) == [k \in 1..after - from |-> FromSource(s, from + k - 1)]

\* The path an expanded operand spells, << >> if it spells none.
IncludePath(outcome) ==
    LET ts == outcome.tokens
        n == Len(ts)
    IN  CASE ~outcome.ok -> << >>
          [] outcome.ok /\ n = 1 -> IF Text(ts[1]) \in Strings THEN <<Text(ts[1])>> ELSE << >>
          [] outcome.ok /\ n >= 3 -> IF Text(ts[1]) = "<" /\ Text(ts[n]) = ">"
                                     THEN [k \in 1..n - 2 |-> Text(ts[k + 1])] ELSE << >>
          [] OTHER -> << >>

\* Mutant: only the source being read is recognised.
OnTop(s) == Here.source = s

OnStack(s) == \E k \in DOMAIN reading : reading[k].source = s

\* Whether a site was resolved to another source before.
Inconsistent(site, included) == \E e \in edges : e.site = site /\ e.included # included

IncludeSource ==
    LET s == Here.source
        site == FromSource(s, Here.at)
        after == LineAfter(s, Here.at)
        path == IncludePath(Expand(sources, macros, RawTokens(s, Here.at + 2, after)))
    IN  /\ InSource /\ Active /\ Directive = "include"
        /\ \/ path \notin DOMAIN Loader /\ Fail
           \/ /\ path \in DOMAIN Loader
              /\ \E included \in Loader[path] :
                    IF Inconsistent(site, included) \/ OnStack(included) THEN Fail
                    ELSE /\ edges' = edges \cup {[site |-> site, included |-> included]}
                         /\ reading' = Append([reading EXCEPT ![Len(reading)].at = after],
                                              [source |-> included, at |-> 1])
                         /\ Visit(after)
                         /\ UNCHANGED <<sources, macros, status, conditionals, output>>

-------------------------------------------------------------------------------
\* Mutant: the end of an included file is text.
SegmentWithEnd(s, i) == Min({Len(sources[s]) + 1} \cup {j \in i..Len(sources[s]) : DirectiveAt(s, j) # "none"})

\* Text up to the next directive, expanded as a whole. The end of an included
\* file is no part of it, the end of the root is.
SegmentAfter(s, i) ==
    Min({Len(sources[s]) + 1}
        \cup {j \in i..Len(sources[s]) : \/ DirectiveAt(s, j) # "none"
                                         \/ sources[s][j].text = EndOfFile /\ Len(reading) > 1})

ExpandSegment ==
    LET s == Here.source
        after == SegmentAfter(s, Here.at)
        expanded == Expand(sources, macros, RawTokens(s, Here.at, after))
    IN  /\ InSource /\ Active /\ Directive = "none"
        /\ IF ~expanded.ok THEN Fail
           ELSE /\ output' = output \o expanded.tokens
                /\ Consume(IF after = Here.at THEN after + 1 ELSE after)
                /\ UNCHANGED <<sources, macros, status, conditionals, edges>>

\* The end of a source: back to the one that included it, or the end of the run.
EndSource ==
    /\ status = "running" /\ Here.at > Len(sources[Here.source])
    /\ IF Len(reading) = 1 /\ conditionals # << >> THEN Fail
       ELSE /\ reading' = Front(reading)
            /\ status' = IF Len(reading) = 1 THEN "done" ELSE "running"
            /\ UNCHANGED <<sources, macros, conditionals, output, edges, visited>>

\* The caller has the result.
Stopped == status # "running" /\ UNCHANGED pvars

Next == \/ OpenConditional \/ ElsifBranch \/ ElseBranch \/ CloseConditional \/ RejectConditional
        \/ Skip \/ DefineMacro \/ UndefineMacro \/ IncludeSource \/ ExpandSegment
        \/ EndSource \/ Stopped

Spec == Init /\ [][Next]_pvars

-------------------------------------------------------------------------------
\* Properties. A history v is read as the sequence of directives it visits.

NamedAt(v, p) == DirectiveAt(v[p].source, v[p].at)
NameAt(v, p) == sources[v[p].source][v[p].at + 2].text

\* The conditionals that are open in front of place p: more openers than closers
\* from q up to any place before p.
OpenAt(v, p) ==
    {q \in 1..p - 1 : /\ NamedAt(v, q) \in {"ifdef", "ifndef"}
                      /\ \A r \in q..p - 1 :
                            Cardinality({k \in q..r : NamedAt(v, k) = "endif"})
                            < Cardinality({k \in q..r : NamedAt(v, k) \in {"ifdef", "ifndef"}})}

\* The alternatives of conditional q that begin before p.
BranchesOf(v, q, p) ==
    {q} \cup {b \in q + 1..p - 1 : NamedAt(v, b) \in {"elsif", "else"} /\ Max(OpenAt(v, b)) = q}

\* The live definition of a name in front of p, by what was written: the last
\* one in a selected place that no selected removal follows; 0 for none.
LiveAt(v, name, p) ==
    LET changes == {d \in 1..p - 1 : v[d].active /\ NamedAt(v, d) \in {"define", "undef"} /\ NameAt(v, d) = name}
    IN  IF changes = {} \/ NamedAt(v, Max(changes)) = "undef" THEN 0 ELSE Max(changes)

HoldsAt(v, b) == CASE NamedAt(v, b) = "else"   -> TRUE
                   [] NamedAt(v, b) = "ifndef" -> LiveAt(v, NameAt(v, b), b) = 0
                   [] OTHER                    -> LiveAt(v, NameAt(v, b), b) # 0

\* Place p is in the first alternative that holds of every conditional around it.
SelectedAt(v, p) ==
    \A q \in OpenAt(v, p) :
        LET branches == BranchesOf(v, q, p)
        IN  \A b \in branches : HoldsAt(v, b) <=> b = Max(branches)

\* A conditional selects exactly the text of its first alternative that holds
\* where it stands, inside a selected place, across inclusions, whatever the
\* nesting and the definitions in between (handle_conditional,
\* conditional_active).
BranchesAsWritten ==
    LET n == Len(visited)
    IN  n > 0 => (NamedAt(visited, n) \notin ConditionalNames => (visited[n].active <=> SelectedAt(visited, n)))

\* The active entries of the macro table are the definitions the text written so
\* far leaves live: redefinition and removal revive nothing (add_macro,
\* undefine_macro, find_macro).
LiveDefinitions ==
    status = "running" =>
        {<<macros[m].definition.source, macros[m].definition.at>> : m \in {k \in DOMAIN macros : macros[k].active}}
        = {<<visited[d].source, visited[d].at>> :
             d \in {k \in DOMAIN visited : /\ NamedAt(visited, k) = "define"
                                           /\ LiveAt(visited, NameAt(visited, k), Len(visited) + 1) = k}}

\* What a step emits comes from the text it read, in the order of that text, and
\* only selected text emits (expand_tokens, pigen_origin_expansion_span).
EmissionInOrder ==
    [][LET place == Last(visited')
           spans == [k \in 1..Len(output') - Len(output) |-> ProducedBy(output'[Len(output) + k])]
       IN  Len(output') > Len(output) =>
               /\ SelectedAt(visited', Len(visited'))
               /\ IsPrefix(output, output')
               /\ \A k \in DOMAIN spans : spans[k].source = place.source /\ spans[k].at \in place.at..place.after - 1
               /\ \A j, k \in DOMAIN spans : j < k => spans[j].at <= spans[k].at]_pvars

\* No step begins inside a definition, inclusion or removal that an earlier step
\* read or passed over, so no directive written in a replacement is obeyed
\* (continued_directive_after, collect_logical_directive).
DirectivesStayWhole ==
    \A p \in DOMAIN visited :
        LET extent == CASE NamedAt(visited, p) = "define" -> ContinuedAfter(visited[p].source, visited[p].at)
                        [] NamedAt(visited, p) \in {"include", "undef"} -> LineAfter(visited[p].source, visited[p].at)
                        [] OTHER -> 0
        IN  \A q \in DOMAIN visited :
                visited[q].source = visited[p].source => visited[q].at \notin visited[p].at + 1..extent - 1

\* No source is read inside itself, and an include site names one source however
\* often it is read (source_on_stack, record_include).
IncludesAreATree ==
    /\ \A j, k \in DOMAIN reading : reading[j].source = reading[k].source => j = k
    /\ \A d, e \in edges : d.site = e.site => d = e

\* A successful run has closed every conditional and every source, and its
\* tokens end with the end of the root and hold no other end of file
\* (preprocess_source, pigen_preprocess).
CompleteResult ==
    status = "done" =>
        /\ conditionals = << >> /\ reading = << >>
        /\ {k \in DOMAIN output : Text(output[k]) = EndOfFile} = {Len(output)}

===============================================================================
