--------------------------- MODULE TypeResolution ---------------------------
(***************************************************************************)
(* data_type.c, continued: the type an operation has and the conversions   *)
(* its operands take first.                                                *)
(***************************************************************************)
EXTENDS DataTypes
LOCAL INSTANCE Integers
LOCAL INSTANCE Sequences
LOCAL INSTANCE SequencesExt
LOCAL INSTANCE FiniteSetsExt

LOCAL Ranges == INSTANCE IntegerRanges

Arithmetic == {"+", "-", "*", "/", "%", "**"}
LeftShifts == {"<<", "<<<"}
Shifts == LeftShifts \cup {">>", ">>>"}
Comparisons == {"<", "<=", ">", ">=", "==", "!=", "===", "!==", "==?", "!=?"}
Logical == {"&&", "||"}
Bitwise == {"&", "^", "~^", "|"}
Reductions == {"&", "~&", "|", "~|", "^", "~^"}

Plus1(width) == Sum(<<width, Literal(1)>>)
\* Mutant: the greatest signed value.
MaximumSigned(width) == Binary("-", Binary("**", Literal(2), Binary("-", width, Literal(1))), Literal(1))

\* maximum_unsigned_value_expression.
MaximumValue(width) == Binary("-", Binary("**", Literal(2), width), Literal(1))

\* exact_width and exact_representation.
ExactWidth(n, signed) ==
    Literal(IF signed THEN Ranges!SignedBits(n) ELSE Ranges!UnsignedBits(n))
ExactRepresentation(t) ==
    IntegerWithWidth(ExactValue(t) < 0, ExactWidth(ExactValue(t), ExactValue(t) < 0))

\* Mutant: an unsigned operand beside a signed one keeps its width.
CommonNarrow(left, right) ==
    LET signed == \E t \in {left, right} : Interpretation(t) = "int" \/ NegativeExact(t)
        WidthOf(t) == IF Interpretation(t) = "exact" THEN ExactWidth(ExactValue(t), signed)
                      ELSE PackedWidth(t)
    IN IF \E t \in {left, right} : ~IsInteger(t) THEN NoType
       ELSE IntegerWithWidth(signed, Maximum({WidthOf(left), WidthOf(right)}))

\* common_numerical_type.
CommonType(left, right) ==
    LET signed == \E t \in {left, right} : Interpretation(t) = "int" \/ NegativeExact(t)
        WidthOf(t) ==
            CASE Interpretation(t) = "exact" -> ExactWidth(ExactValue(t), signed)
              [] signed /\ Interpretation(t) = "uint" -> Plus1(PackedWidth(t))
              [] OTHER -> PackedWidth(t)
    IN IF \/ \E t \in {left, right} : ~IsInteger(t)
          \/ \A t \in {left, right} : Interpretation(t) = "exact"
       THEN NoType
       ELSE IntegerWithWidth(signed, Maximum({WidthOf(left), WidthOf(right)}))

\* The type of a known range, or of one that waits for the parameter.
LOCAL Settled(found) == IF found.width = Failed THEN NoType
                        ELSE IntegerWithWidth(found.signed, Literal(found.width))
LOCAL Deferred(operator, concrete, n, exact_is_left, signed) ==
    IntegerWithWidth(signed,
        NumericalRangeWidth([operator |-> operator, signed |-> Interpretation(concrete) = "int",
                             concrete_width |-> PackedWidth(concrete), exact |-> n,
                             exact_is_left |-> exact_is_left, result_is_signed |-> signed]))

\* concrete_exact_range_type.
ConcreteExactRange(operator, concrete, exact, exact_is_left) ==
    LET n == ExactValue(exact)
        signed == Interpretation(concrete) = "int"
        width == Evaluate(PackedWidth(concrete), Unknown)
    IN CASE operator = "*" /\ n = 0 -> IntegerWithWidth(FALSE, Literal(1))
         [] \/ operator = "*" /\ n = 1
            \/ operator = "+" /\ n = 0
            \/ operator = "-" /\ n = 0 /\ ~exact_is_left -> concrete
         [] OTHER ->
            IF width # Failed
            THEN Settled(Ranges!KnownRange(operator, signed, width, n, exact_is_left))
            ELSE Deferred(operator, concrete, n, exact_is_left,
                          Ranges!FamilyIsSigned(operator, signed, n, exact_is_left))

\* concrete_exact_power_type.
ConcreteExactPower(base, exponent) ==
    LET n == ExactValue(exponent)
        signed == Ranges!PowerIsSigned(Interpretation(base) = "int", n)
        width == Evaluate(PackedWidth(base), Unknown)
    IN IF n < 0 THEN NoType
       ELSE IF width # Failed
       THEN Settled([signed |-> signed,
                     width |-> Ranges!PowerBits(Interpretation(base) = "int", width, n)])
       ELSE Deferred("**", base, n, FALSE, signed)

-----------------------------------------------------------------------------
(* A resolution: the types the operands are converted to, and the result.  *)

Resolved(left, right, result) == [left |-> left, right |-> right, result |-> result]
Refused == Resolved(NoType, NoType, NoType)

ExactPair(operator, left, right) ==
    LET a == ExactValue(left)
        b == ExactValue(right)
    IN CASE operator = "+" -> ExactInteger(a + b)
         [] operator = "-" -> ExactInteger(a - b)
         [] operator = "*" -> ExactInteger(a * b)
         [] operator \in Comparisons \cup Logical -> Boolean
         [] OTHER -> NoType

ShiftResult(operator, left, right) ==
    LET amount == IF Interpretation(right) = "exact" THEN Literal(ExactValue(right))
                  ELSE MaximumValue(PackedWidth(right))
    IN IF \/ ~Concrete(left)
          \/ Interpretation(right) \notin {"uint", "exact"}
          \/ NegativeExact(right)
       THEN NoType
       ELSE IF operator \in LeftShifts
       THEN IntegerWithWidth(Interpretation(left) = "int", Sum(<<PackedWidth(left), amount>>))
       ELSE left

PowerResult(left, right) ==
    IF ~Concrete(left) \/ Interpretation(right) \notin {"uint", "exact"} THEN NoType
    ELSE IF Interpretation(right) = "exact" THEN ConcreteExactPower(left, right)
    ELSE IntegerWithWidth(Interpretation(left) = "int",
             Product(<<PackedWidth(left), MaximumValue(PackedWidth(right))>>))

\* Two integers, not both exact; `range` is the range of one with an exact integer.
IntegerPair(operator, left, right) ==
    LET exact_is_left == Interpretation(left) = "exact"
        mixed == "exact" \in {Interpretation(left), Interpretation(right)}
        range == IF exact_is_left THEN ConcreteExactRange(operator, right, left, TRUE)
                 ELSE ConcreteExactRange(operator, left, right, FALSE)
        signed == \E t \in {left, right} : Interpretation(t) = "int" \/ NegativeExact(t)
        common == CommonType(left, right)
        Represented(t) == IF Interpretation(t) = "exact" THEN ExactRepresentation(t) ELSE t
        Common(result) == IF common = NoType THEN Refused ELSE Resolved(common, common, result)
    IN CASE operator \in {"/", "%"} -> Refused
         [] operator \in Shifts -> Resolved(left, right, ShiftResult(operator, left, right))
         [] operator = "**" -> Resolved(left, right, PowerResult(left, right))
         [] operator = "*" ->
               Resolved(Represented(left), Represented(right),
                   IF mixed THEN range
                   ELSE IntegerWithWidth(signed, Sum(<<PackedWidth(left), PackedWidth(right)>>)))
         [] operator \in {"+", "-"} ->
               Common(IF mixed THEN range
                      ELSE IntegerWithWidth(operator = "-" \/ Interpretation(common) = "int",
                                            Plus1(PackedWidth(common))))
         [] operator \in Comparisons \cup Logical -> Common(Boolean)
         [] operator \in Bitwise -> Common(common)

RawPair(operator, left, right) ==
    IF ~RawVector(left) \/ ~RawVector(right) THEN Refused
    ELSE Resolved(left, right, IF operator \in Comparisons \cup Logical THEN Boolean
                               ELSE IF left = right THEN left ELSE NoType)

\* The resolution is refused when an operand cannot be converted.
Converting(left, right, found) ==
    LET conversions == <<OperandConversion(left, found.left), OperandConversion(right, found.right)>>
    IN [conversions |-> conversions,
        result |-> IF NoConversion \in ToSet(conversions) THEN NoType ELSE found.result]

\* pigen_data_type_resolve_binary_operation.
BinaryResolution(operator, left, right) ==
    LET exacts == {t \in {left, right} : Interpretation(t) = "exact"}
    IN Converting(left, right,
           CASE exacts = {left, right} -> Resolved(left, right, ExactPair(operator, left, right))
             [] IsInteger(left) /\ IsInteger(right) /\ exacts # {left, right} ->
                   IntegerPair(operator, left, right)
             [] OTHER -> RawPair(operator, left, right))

\* pigen_data_type_resolve_unary_operation.
UnaryResult(operator, operand) ==
    CASE operator = "!" -> Boolean
      [] Interpretation(operand) = "exact" ->
            CASE operator = "+" -> operand
              [] operator = "-" -> ExactInteger(-ExactValue(operand))
              [] OTHER -> NoType
      [] operator \in Reductions -> Boolean
      [] Concrete(operand) /\ operator = "-" -> IntegerWithWidth(TRUE, Plus1(PackedWidth(operand)))
      [] OTHER -> operand

\* pigen_data_type_resolve_conditional_operation; the condition may be of any type here,
\* as all of them admit a logical use.
ConditionalResolution(when_true, when_false) ==
    LET branches == {when_true, when_false}
        signed == \E t \in branches : NegativeExact(t)
        result == CASE \A t \in branches : ~IsInteger(t) ->
                         IF when_true = when_false THEN when_true ELSE NoType
                    [] \A t \in branches : Interpretation(t) = "exact" ->
                         IF when_true = when_false THEN when_true
                         ELSE IntegerWithWidth(signed,
                                  Maximum({ExactWidth(ExactValue(t), signed) : t \in branches}))
                    [] OTHER -> CommonType(when_true, when_false)
    IN [conversions |-> <<OperandConversion(when_true, result),
                          OperandConversion(when_false, result)>>,
        result |-> result]
=============================================================================
