---------------------------- MODULE IntegerRanges ----------------------------
(***************************************************************************)
(* The ranges of data_type.c: which signedness and width holds an operator *)
(* applied to an integer of known width and one exact integer.  Integers   *)
(* are TLA+'s; that integer.c computes with them exactly is shown beside   *)
(* (IntegerArena).                                                         *)
(***************************************************************************)
LOCAL INSTANCE Integers
LOCAL INSTANCE FiniteSetsExt

CONSTANT WidthMax       \* UINT64_MAX: no width is larger

LOCAL Limbs == INSTANCE LimbArithmetic WITH LimbBits <- 8

Failed == 0 - 1
BitLength == Limbs!BitLength
Magnitude(n) == IF n < 0 THEN -n ELSE n

UnsignedBits(n) == IF n = 0 THEN 1 ELSE BitLength[n]
SignedBits(n) == 1 + BitLength[IF n < 0 THEN -n - 1 ELSE n]

\* add_width and multiply_width.
Within(width) == IF width > WidthMax THEN Failed ELSE width

\* concrete_integer_bounds.
Lowest(signed, width) == IF signed THEN -(2 ^ (width - 1)) ELSE 0
Highest(signed, width) == 2 ^ (IF signed THEN width - 1 ELSE width) - 1

-----------------------------------------------------------------------------
Sized(signed, width) == [signed |-> signed, width |-> width]
Unsettled == Sized(FALSE, 0)

\* How many bits the operator adds to a width far above the magnitude of the exact
\* integer.
Growth(operator, signed, exact, exact_is_left) ==
    LET m == Magnitude(exact)
        negative == exact < 0
        less == IF m = 1 THEN 0 ELSE UnsignedBits(m - 1)
    IN CASE operator = "*" /\ signed -> IF negative THEN UnsignedBits(m) ELSE less
         [] operator = "*" -> less + (IF negative THEN 1 ELSE 0)
         [] operator = "-" /\ exact_is_left /\ negative ->
                IF signed THEN IF m = 1 THEN 0 ELSE 1 ELSE IF m = 1 THEN 1 ELSE 2
         [] OTHER -> 1

\* symbolic_arithmetic_result_is_signed: the family for every width.
FamilyIsSigned(operator, signed, exact, exact_is_left) ==
    \/ signed
    \/ operator \in {"+", "*"} /\ exact < 0
    \/ operator = "-" /\ (exact_is_left \/ exact >= 0)

\* dominant_arithmetic_range_width: far from the exact integer the result depends on
\* that integer alone.  (Its own choice of the family is the symbolic one but for
\* zero, which makes it signed.)
Dominant(operator, signed, width, exact, exact_is_left) ==
    IF width <= UnsignedBits(Magnitude(exact)) + 2 THEN Unsettled
    ELSE IF exact = 0 THEN Sized(TRUE, Within(width + 1))
    ELSE Sized(FamilyIsSigned(operator, signed, exact, exact_is_left),
               Within(width + Growth(operator, signed, exact, exact_is_left)))

\* arithmetic_range_endpoints: the least and the greatest result.
Endpoints(operator, signed, width, exact, exact_is_left) ==
    LET low == Lowest(signed, width)
        high == Highest(signed, width)
    IN CASE operator = "+" -> <<low + exact, high + exact>>
         [] operator = "-" -> IF exact_is_left THEN <<exact - high, exact - low>>
                              ELSE <<low - exact, high - exact>>
         [] operator = "*" -> IF exact < 0 THEN <<high * exact, low * exact>>
                              ELSE <<low * exact, high * exact>>

\* range_width_for_family.
WidthInFamily(ends, signed) ==
    IF ~signed /\ ends[1] < 0 THEN Failed
    ELSE IF signed THEN Max({SignedBits(ends[1]), SignedBits(ends[2])})
    ELSE UnsignedBits(ends[2])

\* type_containing_integer_range.
Containing(ends) == Sized(ends[1] < 0, WidthInFamily(ends, ends[1] < 0))

\* concrete_exact_range_type, once the width is known.
KnownRange(operator, signed, width, exact, exact_is_left) ==
    LET dominant == Dominant(operator, signed, width, exact, exact_is_left)
    IN IF dominant # Unsettled THEN dominant
       ELSE Containing(Endpoints(operator, signed, width, exact, exact_is_left))

\* closed_power_range_width; pigen_integer_power_width_u64 gives the bits of the power of
\* the greatest base (LimbArithmetic has its bounds).
PowerBits(signed, width, exponent) ==
    IF exponent < 0 THEN Failed
    ELSE IF width = 1 \/ exponent = 0 THEN 1
    ELSE IF signed THEN Within((width - 1) * exponent + 1)
    ELSE IF exponent = 1 THEN width
    ELSE IF UnsignedBits(exponent) < width THEN Within(width * exponent)
    ELSE Within(BitLength[(2 ^ width - 1) ^ exponent])

PowerIsSigned(signed, exponent) == signed /\ exponent % 2 = 1

\* pigen_data_type_evaluate_numerical_range_width.
RangeBits(r, width) ==
    LET dominant == Dominant(r.operator, r.signed, width, r.exact, r.exact_is_left)
    IN IF r.operator = "**"
       THEN IF r.result_is_signed # PowerIsSigned(r.signed, r.exact) THEN Failed
            ELSE PowerBits(r.signed, width, r.exact)
       ELSE IF dominant # Unsettled
       THEN IF dominant.signed = r.result_is_signed THEN dominant.width ELSE Failed
       ELSE WidthInFamily(Endpoints(r.operator, r.signed, width, r.exact, r.exact_is_left),
                          r.result_is_signed)
=============================================================================
