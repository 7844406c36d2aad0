------------------------- MODULE ExpressionGrammar -------------------------
(***************************************************************************)
(* Expressions as trees, as the text sv_emit.c prints for them, and as the *)
(* lexer and expression.c read such a text.  A node has a kind, a spelling *)
(* and children.  A text is a sequence of words (names and digits), blanks *)
(* and single symbol characters; a token is a sequence of those.           *)
(***************************************************************************)
EXTENDS Integers, Sequences, FiniteSets

Node(kind, spelling, children) ==
    [kind |-> kind, spelling |-> spelling, children |-> children]

\* Precedence levels of the printer, the tightest first.
STRUCT == 0
LEAF == 1
POWER == 2
MUL == 3
ADD == 4
SHIFT == 5
REL == 6
EQ == 7
BIT == 8
LOG == 9
COND == 10

UnarySpellings == {<<"+">>, <<"-">>, <<"~">>, <<"!">>, <<"&">>, <<"~", "&">>,
                   <<"|">>, <<"~", "|">>, <<"^">>, <<"~", "^">>}

\* The printer's level and the reader's precedence of a binary operator: the
\* tables run in opposite directions and do not group the operators alike.
Binary == <<
    [symbol |-> <<"*", "*">>, level |-> POWER, precedence |-> 12],
    [symbol |-> <<"*">>, level |-> MUL, precedence |-> 11],
    [symbol |-> <<"/">>, level |-> MUL, precedence |-> 11],
    [symbol |-> <<"%">>, level |-> MUL, precedence |-> 11],
    [symbol |-> <<"+">>, level |-> ADD, precedence |-> 10],
    [symbol |-> <<"-">>, level |-> ADD, precedence |-> 10],
    [symbol |-> <<"<", "<">>, level |-> SHIFT, precedence |-> 9],
    [symbol |-> <<">", ">">>, level |-> SHIFT, precedence |-> 9],
    [symbol |-> <<"<", "<", "<">>, level |-> SHIFT, precedence |-> 9],
    [symbol |-> <<">", ">", ">">>, level |-> SHIFT, precedence |-> 9],
    [symbol |-> <<"<">>, level |-> REL, precedence |-> 8],
    [symbol |-> <<"<", "=">>, level |-> REL, precedence |-> 8],
    [symbol |-> <<">">>, level |-> REL, precedence |-> 8],
    [symbol |-> <<">", "=">>, level |-> REL, precedence |-> 8],
    [symbol |-> <<"=", "=">>, level |-> EQ, precedence |-> 7],
    [symbol |-> <<"!", "=">>, level |-> EQ, precedence |-> 7],
    [symbol |-> <<"=", "=", "=">>, level |-> EQ, precedence |-> 7],
    [symbol |-> <<"!", "=", "=">>, level |-> EQ, precedence |-> 7],
    [symbol |-> <<"=", "=", "?">>, level |-> EQ, precedence |-> 7],
    [symbol |-> <<"!", "=", "?">>, level |-> EQ, precedence |-> 7],
    [symbol |-> <<"&">>, level |-> BIT, precedence |-> 6],
    [symbol |-> <<"^">>, level |-> BIT, precedence |-> 5],
    [symbol |-> <<"~", "^">>, level |-> BIT, precedence |-> 5],
    [symbol |-> <<"|">>, level |-> BIT, precedence |-> 4],
    [symbol |-> <<"&", "&">>, level |-> LOG, precedence |-> 3],
    [symbol |-> <<"|", "|">>, level |-> LOG, precedence |-> 2] >>

BinarySpellings == {Binary[i].symbol : i \in DOMAIN Binary}
Entry(symbol) == Binary[CHOOSE i \in DOMAIN Binary : Binary[i].symbol = symbol]

-----------------------------------------------------------------------------
(* Printing. *)

Level(t) ==
    CASE t.kind \in {"concatenation", "index", "select"} -> STRUCT
      [] t.kind = "binary" -> Entry(t.spelling).level
      [] t.kind = "conditional" -> COND
      [] OTHER -> LEAF

\* Mutant: an operand on the right binds like one on the left.
ParenthesisedLeft(t, i) ==
    LET level == Level(t.children[i])
    IN CASE t.kind = "unary" -> level < LEAF
         [] t.kind \in {"binary", "conditional"} -> level > Level(t)
         [] OTHER -> FALSE

\* Is the i-th child of t printed in parentheses?
Parenthesised(t, i) ==
    LET child == t.children[i]
        level == Level(child)
    IN CASE t.kind = "unary" -> level < LEAF
         [] t.kind = "binary" ->
              \/ level > Level(t)
              \/ level = Level(t) /\ child.kind = "binary"
         [] t.kind = "conditional" /\ i = 1 ->
              \/ level > LOG
              \/ level = LOG /\ child.kind = "binary"
         [] t.kind = "conditional" /\ i # 1 -> level >= COND
         [] OTHER -> FALSE

Enclosed(text) == <<"(">> \o text \o <<")">>

RECURSIVE Joined(_)
Joined(texts) == IF Len(texts) = 1 THEN texts[1]
                 ELSE texts[1] \o <<",">> \o Joined(Tail(texts))

\* Not every select prints its second bound.
Bounds(t, texts) ==
    <<"[">> \o texts[2]
    \o (IF t.kind = "select" /\ t.spelling \in {<<":">>, <<"+", ":">>}
        THEN <<":">> \o texts[3] ELSE << >>)
    \o <<"]">>

\* Blanks only surround the symbols of binaries and conditionals.  The word of
\* a conversion is the cast of its target, with a width unless it resizes.
RECURSIVE Rendered(_)
Rendered(t) ==
    LET part == [i \in DOMAIN t.children |->
                   LET text == Rendered(t.children[i])
                   IN IF Parenthesised(t, i) THEN Enclosed(text) ELSE text]
    IN CASE t.kind \in {"object", "literal"} -> t.spelling
         [] t.kind = "unary" -> t.spelling \o part[1]
         [] t.kind = "binary" -> part[1] \o <<" ">> \o t.spelling \o <<" ">> \o part[2]
         [] t.kind = "conditional" ->
              part[1] \o <<" ", "?", " ">> \o part[2] \o <<" ", ":", " ">> \o part[3]
         [] t.kind = "resize" -> t.spelling \o <<"'">> \o Enclosed(part[1])
         [] t.kind = "conversion" ->
              t.spelling \o <<"'">> \o Enclosed(<<"8", "'">> \o Enclosed(part[1]))
         [] t.kind \in {"index", "select"} -> part[1] \o Bounds(t, part)
         [] t.kind = "concatenation" -> <<"{">> \o Joined(part) \o <<"}">>

-----------------------------------------------------------------------------
(* Lexing: the longest symbol that starts at a position is one token. *)

Symbols == BinarySpellings \cup UnarySpellings
    \cup {<<"<", "<", "<", "=">>, <<">", ">", ">", "=">>, <<"<", "<", "=">>,
          <<">", ">", "=">>, <<"^", "~">>, <<"+", ":">>, <<"-", ":">>, <<"+", "+">>,
          <<"-", "-">>, <<"+", "=">>, <<"-", "=">>, <<"*", "=">>, <<"/", "=">>,
          <<"%", "=">>, <<"&", "=">>, <<"|", "=">>, <<"^", "=">>, <<"-", ">">>, <<":", ":">>}

SymbolLength(text, at) ==
    LET fits(n) == at + n - 1 <= Len(text) /\ SubSeq(text, at, at + n - 1) \in Symbols
    IN CASE fits(4) -> 4 [] fits(3) -> 3 [] fits(2) -> 2 [] OTHER -> 1

RECURSIVE LexedFrom(_, _)
LexedFrom(text, at) ==
    IF at > Len(text) THEN << >>
    ELSE IF text[at] = " " THEN LexedFrom(text, at + 1)
    ELSE LET length == SymbolLength(text, at)
         IN <<SubSeq(text, at, at + length - 1)>> \o LexedFrom(text, at + length)
Lexed(text) == LexedFrom(text, 1)

-----------------------------------------------------------------------------
(* Reading.  Every parse function yields the tree and the position after   *)
(* it, or NoParse.                                                         *)

NoParse == [tree |-> Node("none", << >>, << >>), at |-> 0]
Parsed(tree, at) == [tree |-> tree, at |-> at]

\* Both spellings of xnor are one operator.
Token(tokens, at) == CASE at > Len(tokens) -> << >>
                       [] at <= Len(tokens) /\ tokens[at] = <<"^", "~">> -> <<"~", "^">>
                       [] OTHER -> tokens[at]
Is(tokens, at, symbol) == Token(tokens, at) = <<symbol>>

Names == {<<"a">>, <<"b">>}
Digits == {<<"7">>, <<"8">>}
Casts == {<<"signed">>, <<"unsigned">>, <<"8">>}

RECURSIVE Precedence(_, _, _), Extended(_, _, _), Prefix(_, _), Primary(_, _),
          Postfixed(_, _), Items(_, _, _)

\* parse_concatenation and collect_sequence: the items up to the closing brace.
Items(tokens, at, items) ==
    LET item == Precedence(tokens, at, 1)
        all == Append(items, item.tree)
    IN CASE item = NoParse -> NoParse
         [] item # NoParse /\ Is(tokens, item.at, ",") -> Items(tokens, item.at + 1, all)
         [] item # NoParse /\ Is(tokens, item.at, "}") ->
              Parsed(Node("concatenation", << >>, all), item.at + 1)
         [] OTHER -> NoParse

\* What stands between an opening token at `at` - 1 and its parenthesis.
Inner(tokens, at, kind, spelling) ==
    LET operand == Precedence(tokens, at, 1)
    IN IF operand # NoParse /\ Is(tokens, operand.at, ")")
       THEN Parsed(Node(kind, spelling, <<operand.tree>>), operand.at + 1)
       ELSE NoParse

Primary(tokens, at) ==
    LET token == Token(tokens, at)
    IN CASE token \in Casts /\ Is(tokens, at + 1, "'") /\ Is(tokens, at + 2, "(") ->
              Inner(tokens, at + 3, "cast", token)
         [] token = <<"(">> -> Inner(tokens, at + 1, "group", << >>)
         [] token = <<"{">> -> Items(tokens, at + 1, << >>)
         [] token \in Digits -> Parsed(Node("literal", token, << >>), at + 1)
         [] token \in Names -> Parsed(Node("object", token, << >>), at + 1)
         [] OTHER -> NoParse

\* The loop of parse_postfix.
Postfixed(tokens, base) ==
    LET left == Precedence(tokens, base.at + 1, 1)
        kind == Token(tokens, left.at)
        right == Precedence(tokens, left.at + 1, 1)
        index == Node("index", << >>, <<base.tree, left.tree>>)
        select == Node("select", kind, <<base.tree, left.tree, right.tree>>)
    IN CASE base = NoParse \/ ~Is(tokens, base.at, "[") -> base
         [] OTHER ->
              CASE left = NoParse -> NoParse
                [] left # NoParse /\ kind = <<"]">> ->
                     Postfixed(tokens, Parsed(index, left.at + 1))
                [] left # NoParse /\ kind \in {<<":">>, <<"+", ":">>, <<"-", ":">>} ->
                     IF right # NoParse /\ Is(tokens, right.at, "]")
                     THEN Postfixed(tokens, Parsed(select, right.at + 1)) ELSE NoParse
                [] OTHER -> NoParse

Prefix(tokens, at) ==
    IF Token(tokens, at) \in UnarySpellings
    THEN LET operand == Prefix(tokens, at + 1)
         IN IF operand = NoParse THEN NoParse
            ELSE Parsed(Node("unary", Token(tokens, at), <<operand.tree>>), operand.at)
    ELSE Postfixed(tokens, Primary(tokens, at))

\* The loop of parse_precedence: operators of at least the minimum extend the
\* expression on their left.  Only ** is right associative.
Extended(tokens, left, minimum) ==
    LET symbol == Token(tokens, left.at)
        precedence == Entry(symbol).precedence
        right == Precedence(tokens, left.at + 1,
                            IF symbol = <<"*", "*">> THEN precedence ELSE precedence + 1)
        when_true == Precedence(tokens, left.at + 1, 1)
        when_false == Precedence(tokens, when_true.at + 1, 1)
    IN CASE left = NoParse -> NoParse
         [] left # NoParse /\ symbol \in BinarySpellings ->
              IF precedence < minimum THEN left
              ELSE IF right = NoParse THEN NoParse
              ELSE Extended(tokens, Parsed(Node("binary", symbol, <<left.tree, right.tree>>),
                                           right.at), minimum)
         [] left # NoParse /\ symbol = <<"?">> /\ minimum <= 1 ->
              IF when_true = NoParse \/ ~Is(tokens, when_true.at, ":") \/ when_false = NoParse
              THEN NoParse
              ELSE Extended(tokens,
                            Parsed(Node("conditional", << >>,
                                        <<left.tree, when_true.tree, when_false.tree>>),
                                   when_false.at), minimum)
         [] OTHER -> left

Precedence(tokens, at, minimum) == Extended(tokens, Prefix(tokens, at), minimum)

\* pigen_parse_expression: nothing may be left over.
Read(tokens) == LET whole == Precedence(tokens, 1, 1)
                IN IF whole.at = Len(tokens) + 1 THEN whole.tree ELSE NoParse.tree

\* Lowering keeps every node but the groups.
RECURSIVE Lowered(_)
Lowered(t) == IF t.kind = "group" THEN Lowered(t.children[1])
              ELSE [t EXCEPT !.children = [i \in DOMAIN t.children |-> Lowered(t.children[i])]]
=============================================================================
