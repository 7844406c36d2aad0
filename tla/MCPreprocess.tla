----------------------------- MODULE MCPreprocess -----------------------------
\* The preprocessor for TLC: every short program over three vocabularies of
\* lines (branches, macros, inclusions).
EXTENDS MacroExpansion

CONSTANTS BranchLines, MacroLines, UnendedLines, IncludeLines  \* the bounds: lines of a program

MCExpand(texts, table, ts) == ExpandTokens(texts, table, ts, {})

\* A line is its tokens; " " is a gap.
D(words) == <<Grave>> \o words
Branches ==
    {D(<<"ifdef", "A">>), D(<<"ifndef", "A">>), D(<<"elsif", "A">>), D(<<"else">>), D(<<"endif">>),
     D(<<"define", "A">>), <<"x">>}
Macros ==
    {D(<<"define", "A", " ", "x">>),
     D(<<"define", "A", "(", "a", ",", "b", ")", "b", "a", Grave, "B">>),
     D(<<"define", "B", " ", Grave, "A", "(", "y", ",", "y", ")">>),
     D(<<"define", "B", " ", "y", "\\">>),
     D(<<"define", "B", " ", "y", "\\", " ">>),
     D(<<"ifdef", "A">>), D(<<"endif">>), D(<<"undef", "A">>),
     <<"x", Grave, "A", "(", "y", ",", "[", "x", ",", "y", "]", ")", Grave, "B">>,
     <<Grave, "A", "(", Grave, "B", ",", ")">>,
     <<"y">>}
Roots ==
    {D(<<"include", " ", "<", "one", ">">>), D(<<"include", " ", "<", "two", ">">>),
     D(<<"include", Grave, "A">>), D(<<"define", "A", " ", "<", "two", ">">>), D(<<"ifdef", "A">>),
     D(<<"endif">>), <<"x">>}
Included ==
    {D(<<"include", " ", "<", "two", ">">>), D(<<"else">>), <<"y">>}
Nested == {D(<<"include", " ", "<", "one", ">">>), D(<<"else">>)}

\* The raw tokens of a line, and of a source of given lines.
LineTokens ==
    [words \in Branches \cup Macros \cup Roots \cup Included \cup Nested |->
        LET at == SelectSeq([k \in DOMAIN words |-> k], LAMBDA k : words[k] # " ")
        IN  [k \in DOMAIN at |-> [text |-> words[at[k]], line |-> 0,
                                  tight |-> at[k] = Len(words) \/ words[at[k] + 1] # " "]]]

Lex(lines) ==
    FlattenSeq([n \in DOMAIN lines |->
        [k \in DOMAIN LineTokens[lines[n]] |-> [LineTokens[lines[n]][k] EXCEPT !.line = n]]])
    \o <<[text |-> EndOfFile, line |-> Len(lines) + 1, tight |-> TRUE]>>

Empty == Lex(<< >>)

\* A source whose last line has no newline.
Unended(tokens) == [tokens EXCEPT ![Len(tokens)].line = Max({1, @ - 1})]

SourcesOf(root, one, two) == [root |-> Lex(root), one |-> Lex(one), two |-> Lex(two), three |-> Empty]

MCPrograms ==
    {{SourcesOf(p, << >>, << >>) : p \in BoundedSeq(Branches, BranchLines)},
     {SourcesOf(p, << >>, << >>) : p \in BoundedSeq(Macros, MacroLines)},
     {[SourcesOf(p, << >>, << >>) EXCEPT !.root = Unended(@)] :
          p \in BoundedSeq(Macros, UnendedLines)},
     {SourcesOf(p, q, <<l>>) : p \in BoundedSeq(Roots, IncludeLines), q \in BoundedSeq(Included, 2),
                               l \in Nested}}

MCIdentifiers == {"A", "B", "a", "b", "x", "y", "one", "two"} \cup DirectiveNames
MCStrings == {"quoted"}
MCLoader == (<<"one">> :> {"one"}) @@ (<<"two">> :> {"two", "three"})
===============================================================================
