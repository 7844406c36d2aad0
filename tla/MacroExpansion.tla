---------------------------- MODULE MacroExpansion ----------------------------
\* Token origins and macro expansion of preprocess.c. An expanded token is its
\* origin: kind and text are those of the raw token it is spelled by, so the
\* origin arena becomes a tree of records. An expansion is given what it reads: the
\* sources and the macro table of the walk.
EXTENDS Preprocess

\* The raw token an origin is spelled by.
RECURSIVE SpellingSpan(_)
SpellingSpan(o) == CASE o.kind = "source"      -> o
                     [] o.kind = "replacement" -> SpellingSpan(o.replacement)
                     [] o.kind = "argument"    -> SpellingSpan(o.argument)

\* The raw token whose expansion produced an origin.
RECURSIVE ExpansionSpan(_)
ExpansionSpan(o) == IF o.kind = "source" THEN o ELSE ExpansionSpan(o.invocation)

TokenText(texts, o) == LET span == SpellingSpan(o) IN texts[span.source][span.at].text

\* The parameter a replacement token names, 0 if it names none.
ParameterIndex(texts, macro, o) ==
    SelectInSeq(macro.parameters,
                LAMBDA p : TokenText(texts, o) \in Identifiers /\ TokenText(texts, p) = TokenText(texts, o))

-------------------------------------------------------------------------------
\* An outcome: the tokens produced, or a failure.
Yield(ts) == [ok |-> TRUE, tokens |-> ts]
Failed == [ok |-> FALSE, tokens |-> << >>]

\* Open parentheses, brackets and braces behind token at of an argument list.
Nesting(texts, ts) ==
    LET after[at \in 2..Len(ts)] ==
          IF at <= 3 THEN [round |-> 1, square |-> 0, curly |-> 0]
          ELSE LET n == after[at - 1]
                   down(k) == IF k = 0 THEN 0 ELSE k - 1
               IN  CASE n.round = 0         -> n
                     [] TokenText(texts, ts[at]) = "("  -> [n EXCEPT !.round = @ + 1]
                     [] TokenText(texts, ts[at]) = ")"  -> [n EXCEPT !.round = @ - 1]
                     [] TokenText(texts, ts[at]) = "["  -> [n EXCEPT !.square = @ + 1]
                     [] TokenText(texts, ts[at]) = "]"  -> [n EXCEPT !.square = down(@)]
                     [] TokenText(texts, ts[at]) = "{"  -> [n EXCEPT !.curly = @ + 1]
                     [] TokenText(texts, ts[at]) = "}"  -> [n EXCEPT !.curly = down(@)]
                     [] OTHER               -> n
    IN  after

\* The call grave name ( ... ) at the head of ts: the argument slices and the
\* position of the closing parenthesis.
ParseMacroArguments(texts, macro, ts) ==
    LET nesting == Nesting(texts, ts)
        arity == Len(macro.parameters)
        closing == {at \in 4..Len(ts) : nesting[at].round = 0}
    IN  IF closing = {} THEN [ok |-> FALSE]
        ELSE LET close == Min(closing)
                 Separates(at) == /\ at \in 4..close - 1 /\ TokenText(texts, ts[at]) = ","
                                  /\ nesting[at] = [round |-> 1, square |-> 0, curly |-> 0]
                 commas == SelectSeq([at \in DOMAIN ts |-> at], Separates)
                 bounds == <<3>> \o commas \o <<close>>
                 counted == Len(commas)
                            + IF close # bounds[Len(bounds) - 1] + 1 \/ arity # 0 THEN 1 ELSE 0
             IN  [ok |-> counted = arity, close |-> close,
                  arguments |-> [k \in 1..Len(bounds) - 1 |->
                                   SubSeq(ts, bounds[k] + 1, bounds[k + 1] - 1)]]

\* Mutant: an argument token is charged to itself, not to the invocation.
SubstitutedInPlace(texts, table, m, invocation, arguments) ==
    FlattenSeq([k \in DOMAIN table[m].replacement |->
        LET o == table[m].replacement[k]
            p == ParameterIndex(texts, table[m], o)
        IN  IF p = 0
            THEN <<[kind |-> "replacement", invocation |-> invocation, replacement |-> o, macro |-> m]>>
            ELSE [a \in DOMAIN arguments[p] |->
                    [kind |-> "argument", invocation |-> arguments[p][a], parameter |-> table[m].parameters[p],
                     argument |-> arguments[p][a], macro |-> m]]])

\* The replacement of m with its parameters replaced by the written arguments.
Substituted(texts, table, m, invocation, arguments) ==
    FlattenSeq([k \in DOMAIN table[m].replacement |->
        LET o == table[m].replacement[k]
            p == ParameterIndex(texts, table[m], o)
        IN  IF p = 0
            THEN <<[kind |-> "replacement", invocation |-> invocation, replacement |-> o, macro |-> m]>>
            ELSE [a \in DOMAIN arguments[p] |->
                    [kind |-> "argument", invocation |-> invocation, parameter |-> table[m].parameters[p],
                     argument |-> arguments[p][a], macro |-> m]]])

\* Expansion of a token list under the macros being expanded already.
RECURSIVE ExpandTokens(_, _, _, _)
ExpandMacro(texts, table, m, invocation, arguments, stack) ==
    IF m \in stack THEN Failed
    ELSE ExpandTokens(texts, table, Substituted(texts, table, m, invocation, arguments), stack \cup {m})

ExpandInvocation(texts, table, ts, stack) ==
    LET m == FindMacro(table, TokenText(texts, ts[2]))
        call == ParseMacroArguments(texts, table[m], ts)
        produced(after, arguments) ==
            LET body == ExpandMacro(texts, table, m, ts[2], arguments, stack)
                rest == ExpandTokens(texts, table, SubSeq(ts, after, Len(ts)), stack)
            IN  IF body.ok /\ rest.ok THEN Yield(body.tokens \o rest.tokens) ELSE Failed
    IN  CASE m = 0                                          -> Failed
          [] m # 0 /\ ~table[m].functionLike                -> produced(3, << >>)
          [] m # 0 /\ table[m].functionLike ->
                IF Len(ts) < 3 \/ TokenText(texts, ts[3]) # "(" THEN Failed
                ELSE IF call.ok THEN produced(call.close + 1, call.arguments) ELSE Failed

ExpandTokens(texts, table, ts, stack) ==
    IF ts = << >> THEN Yield(<< >>)
    ELSE IF TokenText(texts, ts[1]) = Grave /\ Len(ts) > 1 /\ TokenText(texts, ts[2]) \in Identifiers
    THEN ExpandInvocation(texts, table, ts, stack)
    ELSE LET rest == ExpandTokens(texts, table, Tail(ts), stack)
         IN  IF rest.ok THEN Yield(<<Head(ts)>> \o rest.tokens) ELSE Failed
===============================================================================
