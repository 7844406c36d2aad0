--------------------------- MODULE ExpressionText ---------------------------
(***************************************************************************)
(* What becomes of one lowered expression: sv_emit.c prints it, and the    *)
(* text is lexed and read the way the front end of this compiler reads     *)
(* expressions, whose precedences are those of SystemVerilog.  Casts on a  *)
(* signedness or a width are read like the casts the front end knows.      *)
(***************************************************************************)
EXTENDS ExpressionGrammar

CONSTANT Trees              \* the lowered expressions considered

VARIABLES tree, text, tokens, read

vars == <<tree, text, tokens, read>>

Nothing == << >>

Init == /\ tree \in Trees
        /\ text = Nothing
        /\ tokens = Nothing
        /\ read = Nothing

\* pigen_sv_render_expression
RenderExpression == /\ text = Nothing
                    /\ text' = Rendered(tree)
                    /\ UNCHANGED <<tree, tokens, read>>

\* pigen_lex_source
LexSource == /\ text # Nothing
             /\ tokens = Nothing
             /\ tokens' = Lexed(text)
             /\ UNCHANGED <<tree, text, read>>

\* pigen_parse_expression, and the lowering that drops the parentheses
ReadExpression == /\ tokens # Nothing
                  /\ read = Nothing
                  /\ read' = <<Lowered(Read(tokens))>>
                  /\ UNCHANGED <<tree, text, tokens>>

Next == RenderExpression \/ LexSource \/ ReadExpression

Spec == Init /\ [][Next]_vars

-----------------------------------------------------------------------------
\* The tree the emitter's contract promises a reader: a conversion is its casts,
\* an indexed-up select is the range of its two bounds and an indexed-down one
\* the index of its first, and a negative literal is the negation of its digits.
RECURSIVE Documented(_)
Documented(t) ==
    LET children == [i \in DOMAIN t.children |-> Documented(t.children[i])]
        is(kind, spelling) == Node(kind, spelling, children)
    IN CASE t.kind = "resize" -> is("cast", t.spelling)
         [] t.kind = "conversion" ->
              Node("cast", t.spelling, <<is("cast", <<"8">>)>>)
         [] t.kind = "select" /\ t.spelling = <<"+", ":">> -> is("select", <<":">>)
         [] t.kind = "select" /\ t.spelling = <<"-", ":">> ->
              Node("index", << >>, SubSeq(children, 1, 2))
         [] t.kind = "literal" /\ Len(t.spelling) = 2 ->
              Node("unary", <<"-">>, <<Node("literal", <<t.spelling[2]>>, << >>)>>)
         [] OTHER -> is(t.kind, t.spelling)

ReadsAsDocumented == read # Nothing => read[1] = Documented(tree)

\* No operand of a unary and no base of an index or select is itself built
\* with an operator.
RECURSIVE Standing(_)
Standing(t) ==
    /\ \A i \in DOMAIN t.children : Standing(t.children[i])
    /\ t.kind \in {"unary", "index", "select"} =>
         /\ t.children[1].kind \notin {"unary", "binary", "conditional"}
         /\ Len(t.children[1].spelling) < 2 \/ t.children[1].kind # "literal"

\* Binaries, conditionals, conversions, concatenations and postfixes nest in each
\* other without changing meaning: the printer's levels, which put & ^ | and
\* && || on one level each, and its parentheses fit the reader's precedences.
ReadsBack == Standing(tree) => ReadsAsDocumented

\* The emitter's contract and its precedence table promise every parenthesis
\* that is structurally necessary, for operands of unaries and bases as well.
ParensAreEnough == ReadsAsDocumented
=============================================================================
