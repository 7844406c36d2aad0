------------------------- MODULE ExpressionAnalysis -------------------------
(***************************************************************************)
(* expression_analysis.c: an expression is analyzed bottom up, operands    *)
(* before their operator; each node gets a type, an unpacked shape and,    *)
(* when all below it is constant, a constant expression.  The recursion of *)
(* analyze is a stack of analyzed operands.                                *)
(***************************************************************************)
EXTENDS TypeResolution
LOCAL INSTANCE Integers
LOCAL INSTANCE Sequences
LOCAL INSTANCE SequencesExt
LOCAL INSTANCE FiniteSetsExt

CONSTANTS
    Objects,            \* [type, shape, parameter]: the names in scope
    Literals,           \* the decimal literals
    Unaries, Binaries,  \* the operators
    MaximumBits,        \* maximum_generated_bits of the policy
    MaxOperands,        \* bound: operands waiting for their operator
    MaxNodes,           \* bound: nodes of an expression
    ParameterValues,    \* what the parameter may be instantiated with
    MaxCompared         \* bound: widths whose values are compared

VARIABLES
    operands,           \* the analyzed operands, the last one on top
    constraints,        \* the widths to be checked once the parameter is known
    built,              \* how many nodes there are
    answer              \* the last resolution

LOCAL Ranges == INSTANCE IntegerRanges
vars == <<operands, constraints, built, answer>>

Node(type, shape, constant) == [type |-> type, shape |-> shape, constant |-> constant]
Answer(operation, operator, types, conversions, result) ==
    [operation |-> operation, operator |-> operator, types |-> types,
     conversions |-> conversions, result |-> result]
NoAnswer == Answer("none", "none", << >>, << >>, NoType)

Init ==
    /\ operands = << >>
    /\ constraints = {}
    /\ built = 0
    /\ answer = NoAnswer

-----------------------------------------------------------------------------
(* The top operands are replaced by the node made of them. *)

Top(i, n) == operands[Len(operands) - n + i]

Replace(n, node) ==
    /\ built < MaxNodes
    /\ Len(operands) - n < MaxOperands
    /\ node.type # NoType
    /\ operands' = Append(SubSeq(operands, 1, Len(operands) - n), node)
    /\ built' = built + 1

Leaf(node) == Replace(0, node) /\ answer' = NoAnswer /\ UNCHANGED constraints

\* An exact literal, and one with a base.
DecimalLiteral(n) == Leaf(Node(ExactInteger(n), 0, <<Exact(n)>>))
BasedLiteral(width, signedness) ==
    Leaf(Node(SizedLogic(width, signedness), 0, <<Bits(width, signedness)>>))

Name(object) ==
    Leaf(Node(object.type, object.shape, IF object.parameter THEN <<Parameter>> ELSE << >>))

\* converted_constant: a conversion that is not valid leaves no constant.
ConvertedConstant(constant, conversion) ==
    IF constant = << >> \/ conversion.kind = "identity" THEN constant
    ELSE IF ConversionIsValid(conversion) THEN <<Converted(constant[1], conversion)>> ELSE << >>

Together(form, constants) ==
    IF << >> \in ToSet(constants) THEN << >>
    ELSE <<Composed(form, [i \in DOMAIN constants |-> constants[i][1]])>>

Unary(operator) ==
    /\ operands # << >>
    /\ LET operand == Top(1, 1)
           result == UnaryResult(operator, operand.type)
       IN /\ Replace(1, Node(result, operand.shape, Together(operator, <<operand.constant>>)))
          /\ answer' = Answer("unary", operator, <<operand.type>>, << >>, result)
    /\ UNCHANGED constraints

\* reject_excessive_exact_amount.
Generating(operator) == operator = "**" \/ operator \in LeftShifts
Excessive(operator, base, amount) ==
    /\ Generating(operator)
    /\ Interpretation(amount) = "exact" /\ ExactValue(amount) > MaximumBits
    /\ operator = "**" => Evaluate(PackedWidth(base), Unknown) > 1

\* check_generated_width: a width that is known is checked, another one is left for
\* the instances.
WidthAllowed(operator, width) ==
    LET value == Evaluate(width, Unknown)
    IN Generating(operator) => IF value # Failed THEN value <= MaximumBits ELSE Symbolic(width)

Resolve(operator, left, right, found, constants) ==
    LET width == PackedWidth(found.result)
    IN /\ found.result # NoType
       /\ WidthAllowed(operator, width)
       /\ Replace(2, Node(found.result, left.shape,
              IF << >> \in ToSet(constants) THEN << >>
              ELSE <<Binary(operator, constants[1][1], constants[2][1])>>))
       /\ constraints' = constraints \cup
              (IF Generating(operator) /\ Symbolic(width) THEN {width} ELSE {})
       /\ answer' = Answer("binary", operator, <<left.type, right.type>>,
                           found.conversions, found.result)

BinaryOperation(operator) ==
    /\ Len(operands) >= 2
    /\ LET left == Top(1, 2)
           right == Top(2, 2)
       IN /\ left.shape = right.shape
          /\ ~Excessive(operator, left.type, right.type)
          /\ \E found \in {BinaryResolution(operator, left.type, right.type)} :
                Resolve(operator, left, right, found,
                        <<ConvertedConstant(left.constant, found.conversions[1]),
                          ConvertedConstant(right.constant, found.conversions[2])>>)

Conditional ==
    /\ Len(operands) >= 3
    /\ LET branches == <<Top(2, 3), Top(3, 3)>>
           found == ConditionalResolution(branches[1].type, branches[2].type)
       IN /\ branches[1].shape = branches[2].shape
          /\ Replace(3, Node(found.result, branches[1].shape,
                 Together("?:", <<Top(1, 3).constant,
                     ConvertedConstant(branches[1].constant, found.conversions[1]),
                     ConvertedConstant(branches[2].constant, found.conversions[2])>>)))
          /\ answer' = Answer("conditional", "?:", <<branches[1].type, branches[2].type>>,
                              found.conversions, found.result)
    /\ UNCHANGED constraints

\* A cast to a type whose count is the constant below the value (type_resolve.c).
Cast(spelling) ==
    /\ Len(operands) >= 2
    /\ Top(1, 2).constant # << >>
    /\ LET count == Normalized(Top(1, 2).constant[1])
           value == Top(2, 2)
           target == FromSpelling(spelling, "implicit", <<[kind |-> "count", count |-> count]>>)
           conversion == ExplicitConversion(value.type, target)
       IN /\ count # NoWidth
          /\ conversion # NoConversion
          /\ Replace(2, Node(target, value.shape, ConvertedConstant(value.constant, conversion)))
          /\ answer' = Answer("cast", spelling, <<value.type>>, <<conversion>>, target)
    /\ UNCHANGED constraints

\* An unpacked array is indexed before the bits of its elements are.
Index ==
    /\ Len(operands) >= 2
    /\ LET base == Top(1, 2)
           index == Top(2, 2)
           element == PackedElement(base.type)
       IN /\ index.shape = 0
          /\ Replace(2, IF base.shape > 0 THEN Node(base.type, base.shape - 1, << >>)
                        ELSE Node(element, 0, Together("[]", <<base.constant, index.constant>>)))
          /\ answer' = IF base.shape > 0 THEN NoAnswer
                       ELSE Answer("element", "[]", <<base.type>>, << >>, element)
    /\ UNCHANGED constraints

Select(kind) ==
    /\ Len(operands) >= 3
    /\ LET base == Top(1, 3)
           left == Top(2, 3)
           right == Top(3, 3)
           result == PackedSelect(base.type, left.constant[1], right.constant[1], kind)
       IN /\ base.shape = 0 /\ left.shape = 0 /\ right.shape = 0
          /\ right.constant # << >>
          /\ kind = "range" => left.constant # << >>
          /\ Replace(3, Node(result, 0,
                 IF << >> \in {base.constant, left.constant} THEN << >>
                 ELSE Together(kind, <<base.constant, left.constant, right.constant>>)))
          /\ answer' = Answer("select", kind, <<base.type>>, << >>, result)
    /\ UNCHANGED constraints

Concatenate(n) ==
    /\ Len(operands) >= n
    /\ LET parts == [i \in 1 .. n |-> Top(i, n)]
           types == [i \in 1 .. n |-> parts[i].type]
       IN /\ \A i \in 1 .. n : parts[i].shape = 0
          /\ Replace(n, Node(Concatenation(types), 0,
                             Together("{}", [i \in 1 .. n |-> parts[i].constant])))
          /\ answer' = Answer("concatenation", "{}", types, << >>, Concatenation(types))
    /\ UNCHANGED constraints

\* pigen_resolve_assignment_value: the whole expression is assigned.
Assign(object) ==
    /\ Len(operands) = 1
    /\ answer.operation # "assignment"
    /\ LET conversion == AssignmentConversion(operands[1].type, object.type)
       IN /\ conversion # NoConversion
          /\ ConversionIsValid(conversion)
          /\ answer' = Answer("assignment", "=", <<operands[1].type>>, <<conversion>>, object.type)
    /\ operands' = << >>
    /\ UNCHANGED <<constraints, built>>

Next ==
    \/ \E n \in Literals : DecimalLiteral(n)
    \/ \E width \in {1, 2}, signedness \in {"signed", "unsigned"} : BasedLiteral(width, signedness)
    \/ \E object \in Objects : Name(object)
    \/ \E operator \in Unaries : Unary(operator)
    \/ \E operator \in Binaries : BinaryOperation(operator)
    \/ Conditional
    \/ \E spelling \in {"int", "uint", "logic"} : Cast(spelling)
    \/ Index
    \/ \E kind \in {"range", "indexed"} : Select(kind)
    \/ \E n \in 1 .. MaxOperands : Concatenate(n)
    \/ \E object \in Objects : Assign(object)

Spec == Init /\ [][Next]_vars

-----------------------------------------------------------------------------
(* What a value of a type can be, once the parameter has one.              *)

WidthAt(t, w) == Evaluate(PackedWidth(t), w)
Fits(t, w) == Interpretation(t) = "exact" \/ WidthAt(t, w) \in 1 .. MaxCompared
EndsOf(signed, width) == {Ranges!Lowest(signed, width), Ranges!Highest(signed, width)}
Ends(t, w) == IF Interpretation(t) = "exact" THEN {ExactValue(t)}
              ELSE EndsOf(Interpretation(t) = "int", WidthAt(t, w))
Hull(ends) == Min(ends) .. Max(ends)

\* The extreme results of an operation on all values between the ends of its operands.
Results(operator, left, right) ==
    CASE operator = "+" -> {x + y : x \in left, y \in right}
      [] operator = "-" -> {x - y : x \in left, y \in right}
      [] operator = "*" -> {x * y : x \in left, y \in right}
      [] operator \in LeftShifts -> {x * 2 ^ y : x \in left, y \in right}
      [] operator = "**" -> {IF y = 0 THEN 1 ELSE x ^ y : x \in left, y \in Hull(right)}
ResultsAt(w) == Results(answer.operator, Ends(answer.types[1], w), Ends(answer.types[2], w))

\* The binary operations that compute a number, and when it can be compared.
Computing == answer.operation = "binary" /\ Interpretation(answer.result) \in {"int", "uint", "exact"}
             /\ answer.operator \in {"+", "-", "*", "**"} \cup LeftShifts
ComparedAt(w) == \A t \in {answer.types[1], answer.types[2], answer.result} : Fits(t, w)
HoldsResults(w) ==
    ComparedAt(w) => ResultsAt(w) \subseteq Hull(Ends(answer.result, w))

\* A one-bit signed base with a one-bit exponent that is not known.
OneBitPower(w) ==
    /\ answer.operator = "**"
    /\ Interpretation(answer.types[1]) = "int" /\ WidthAt(answer.types[1], w) = 1
    /\ Interpretation(answer.types[2]) = "uint" /\ WidthAt(answer.types[2], w) = 1

\* However the parameter is chosen, the type of a sum, difference, product, power or left
\* shift holds every value it can have: no operation of the language loses bits
\* (data_type.c resolves widths long before they are known).  The code fails this for one
\* power: int[1] ** uint[1] is given the type int[1], and (-1) ** 0 is 1.
ResultsHoldEveryValue ==
    Computing => \A w \in ParameterValues : OneBitPower(w) \/ HoldsResults(w)

\* No narrower width of the family holds the results, and a known one is signed for need.
TightIn(signed, width, results, known) ==
    /\ width > 1 => ~(results \subseteq Hull(EndsOf(signed, width - 1)))
    /\ known /\ signed => \E x \in results : x < 0

\* With one exact operand the result is as narrow as its family allows, whether the width
\* is computed at once, by the shortcut for wide operands, or later from the deferred
\* range; and where the width is known the family is unsigned if it can be.
RangesAreTight ==
    Computing /\ (\E i \in {1, 2} : Interpretation(answer.types[i]) = "exact")
              /\ answer.operator \notin LeftShifts /\ Concrete(answer.result) =>
        \A w \in ParameterValues : ComparedAt(w) =>
            TightIn(Interpretation(answer.result) = "int", WidthAt(answer.result, w),
                    ResultsAt(w), ~Symbolic(PackedWidth(answer.result)))

\* What an operation converts its operands to holds all their values, and the conversion
\* is one that the rest of the compiler accepts: the two are decided in different places,
\* and a width is proved large enough from its structure alone.
ConversionsKeepValues ==
    answer.operation \in {"binary", "conditional"} =>
        \A i \in DOMAIN answer.conversions :
            LET c == answer.conversions[i]
            IN /\ ConversionIsValid(c)
               /\ IsInteger(c.source) =>
                    \A w \in ParameterValues : (Fits(c.source, w) /\ Fits(c.target, w)) =>
                        Ends(c.source, w) \subseteq Hull(Ends(c.target, w))

\* An element times the number of elements, in bits.
Elements(t) == IF t.dimensions = << >> THEN PackedWidth(t)
               ELSE RangeWidth(t.dimensions[1].left, t.dimensions[1].right)
ElementsFill(base, element, w) ==
    Evaluate(Elements(base), w) # Failed =>
        WidthAt(element, w) * Evaluate(Elements(base), w) = WidthAt(base, w)

\* A concatenation has the bits of its parts, and the elements of a packed value have its
\* bits together.
BitsAreAccountedFor ==
    \A w \in ParameterValues :
        /\ answer.operation = "concatenation" =>
              LET parts == [i \in DOMAIN answer.types |-> WidthAt(answer.types[i], w)]
              IN Failed \notin ToSet(parts) =>
                    WidthAt(answer.result, w) = FoldLeft(LAMBDA n, width : n + width, 0, parts)
        /\ answer.operation = "element" =>
              ElementsFill(ProjectionBase(answer.types[1]), answer.result, w)
=============================================================================
