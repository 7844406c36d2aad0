------------------------------ MODULE DataTypes ------------------------------
(***************************************************************************)
(* Types and their widths: the constant expressions of semantic.c that are *)
(* widths, and data_type.c, the types of values and what an operator makes *)
(* of them.  An expression is interned, building one that is known gives   *)
(* the known one, and so is a type: here each is its own identity, and the *)
(* types a result needs on the way are part of it.                         *)
(***************************************************************************)
LOCAL INSTANCE Integers
LOCAL INSTANCE Sequences
LOCAL INSTANCE FiniteSets
LOCAL INSTANCE Bags
LOCAL INSTANCE BagsExt
LOCAL INSTANCE FiniteSetsExt
LOCAL INSTANCE SequencesExt

CONSTANT WidthMax       \* UINT64_MAX: no width is larger

LOCAL Ranges == INSTANCE IntegerRanges

-----------------------------------------------------------------------------
(* Widths. *)

Failed == 0 - 1
Unknown == 0            \* the value of the parameter while a module is compiled

NoWidth == [kind |-> "none"]
Literal(n) == [kind |-> "integer", value |-> n]
Exact(n) == [kind |-> "exact_integer", exact |-> n]
Parameter == [kind |-> "symbol", symbol |-> "W"]

Binary(operator, left, right) ==
    IF NoWidth \in {left, right} THEN NoWidth
    ELSE [kind |-> "binary", operator |-> operator, left |-> left, right |-> right]

\* pigen_const_expr_intern_select_width: the ends of a range have no order.
RangeWidth(left, right) ==
    IF NoWidth \in {left, right} THEN NoWidth ELSE [kind |-> "range", ends |-> {left, right}]
IndexedWidth(size) == IF size = NoWidth THEN NoWidth ELSE [kind |-> "indexed", size |-> size]

\* constant_is_symbolic.
RECURSIVE Symbolic(_)
Symbolic(e) ==
    CASE e.kind = "symbol" -> TRUE
      [] e.kind = "binary" -> Symbolic(e.left) \/ Symbolic(e.right)
      [] e.kind = "conversion" -> Symbolic(e.operand)
      [] e.kind = "composed" -> \E i \in DOMAIN e.children : Symbolic(e.children[i])
      [] e.kind = "indexed" -> Symbolic(e.size)
      [] e.kind = "range" -> \E end \in e.ends : Symbolic(end)
      [] e.kind \in {"sum", "product"} -> \E term \in BagToSet(e.of) : Symbolic(term)
      [] e.kind = "maximum" -> \E term \in e.terms : Symbolic(term)
      [] e.kind = "numerical_range" -> Symbolic(e.range.concrete_width)
      [] OTHER -> FALSE

\* What constants are made of besides: a conversion, and what no width is made of.
Converted(c, conversion) == [kind |-> "conversion", operand |-> c, conversion |-> conversion]
Bits(width, signedness) == [kind |-> "bits", width |-> width, signedness |-> signedness]
Composed(form, children) == [kind |-> "composed", form |-> form, children |-> children]

NumericalRangeWidth(range) ==
    IF range.concrete_width = NoWidth THEN NoWidth
    ELSE [kind |-> "numerical_range", range |-> range]

-----------------------------------------------------------------------------
(* Sums, products and maxima: terms in any order, of which the operands of *)
(* the same kind are taken apart.                                          *)

Repeat(term) == SetToBag({term})

\* collect_width_terms of all operands of a sum or product.
Collected(kind, operands) ==
    LET identity == Literal(IF kind = "sum" THEN 0 ELSE 1)
        Terms(operand) == IF operand.kind = kind THEN operand.of
                          ELSE IF operand = identity THEN EmptyBag ELSE Repeat(operand)
        Upto[n \in 0 .. Len(operands)] ==
            IF n = 0 THEN EmptyBag ELSE Upto[n - 1] (+) Terms(operands[n])
    IN Upto[Len(operands)]

Gathered(kind, operands) ==
    LET terms == Collected(kind, operands)
    IN IF \E i \in DOMAIN operands : operands[i] = NoWidth THEN NoWidth
       ELSE IF terms = EmptyBag THEN Literal(IF kind = "sum" THEN 0 ELSE 1)
       ELSE IF BagCardinality(terms) = 1 THEN CHOOSE term \in BagToSet(terms) : TRUE
       ELSE [kind |-> kind, of |-> terms]

Sum(operands) == Gathered("sum", operands)
Product(operands) == Gathered("product", operands)

\* A maximum keeps each term once, and of its literals the greatest unless it is zero.
Maximum(operands) ==
    LET terms == UNION {IF e.kind = "maximum" THEN e.terms ELSE {e} : e \in operands}
        literals == {e \in terms : e.kind = "integer"}
        greatest == Max({0} \cup {e.value : e \in literals})
        kept == (terms \ literals) \cup
                (IF greatest # 0 \/ terms \subseteq literals THEN {Literal(greatest)} ELSE {})
    IN IF NoWidth \in operands THEN NoWidth
       ELSE IF Cardinality(kept) = 1 THEN CHOOSE term \in kept : TRUE
       ELSE [kind |-> "maximum", terms |-> kept]

-----------------------------------------------------------------------------
(* evaluate_u64.  With the parameter unknown it is what the compiler       *)
(* finds; with a value it is what the emitted width is worth.              *)

Plus(a, b) == IF Failed \in {a, b} \/ a > WidthMax - b THEN Failed ELSE a + b
Times(a, b) == IF Failed \in {a, b} \/ (b # 0 /\ a > WidthMax \div b) THEN Failed ELSE a * b
Raised(base, exponent) ==
    LET power[n \in 0 .. exponent] == IF n = 0 THEN 1 ELSE Times(power[n - 1], base)
    IN IF base <= 1 THEN base ^ exponent
       ELSE IF exponent > Ranges!BitLength[WidthMax] THEN Failed
       ELSE power[exponent]

Computed(operator, a, b) ==
    CASE operator = "+" -> Plus(a, b)
      [] operator = "-" -> IF a < b THEN Failed ELSE a - b
      [] operator = "*" -> Times(a, b)
      [] operator = "**" -> Raised(a, b)
      [] OTHER -> Failed

RECURSIVE Evaluate(_, _)
Evaluate(e, parameter) ==
    LET Value(child) == Evaluate(child, parameter)
        Values(children) == {Value(child) : child \in children}
        Fold(op(_, _), unit) ==
            MapThenFoldBag(op, unit, Value, LAMBDA terms : CHOOSE t \in terms : TRUE, e.of)
    IN CASE e.kind = "integer" -> e.value
         [] e.kind = "exact_integer" -> IF e.exact < 0 THEN Failed ELSE Plus(e.exact, 0)
         [] e.kind = "symbol" -> IF parameter = Unknown THEN Failed ELSE parameter
         [] e.kind = "binary" -> IF Failed \in Values({e.left, e.right}) THEN Failed
                                 ELSE Computed(e.operator, Value(e.left), Value(e.right))
         [] e.kind = "conversion" -> Value(e.operand)
         [] e.kind = "indexed" -> Value(e.size)
         [] e.kind = "range" -> IF Failed \in Values(e.ends) THEN Failed
                                ELSE Plus(Max(Values(e.ends)) - Min(Values(e.ends)), 1)
         [] e.kind = "sum" -> Fold(Plus, 0)
         [] e.kind = "product" -> Fold(Times, 1)
         [] e.kind = "maximum" -> IF Failed \in Values(e.terms) THEN Failed
                                  ELSE Max(Values(e.terms))
         [] e.kind = "numerical_range" ->
                IF Value(e.range.concrete_width) = Failed THEN Failed
                ELSE Ranges!RangeBits(e.range, Value(e.range.concrete_width))
         [] OTHER -> Failed     \* other operators, bits, projections

\* pigen_const_expr_normalize_count: a count is a positive number, or waits for the
\* parameter.
Normalized(e) ==
    IF e = NoWidth THEN NoWidth
    ELSE LET value == Evaluate(e, Unknown)
         IN IF value > 0 THEN Literal(value)
            ELSE IF value = Failed /\ Symbolic(e) THEN e ELSE NoWidth

-----------------------------------------------------------------------------
(* Types. *)

\* struct pigen_data_type: an optional field is an empty or a one-element sequence.
Type(constructor, signedness) ==
    [constructor |-> constructor, signedness |-> signedness, target |-> << >>,
     width |-> << >>, value |-> << >>, dimensions |-> << >>]
NoType == Type("none", "none")

\* primitive_data_types.
State == [logic |-> 4, bit |-> 2, unsized |-> 4, int |-> 2, uint |-> 2, exact |-> 2]
BaseWidth == [logic |-> 1, bit |-> 1, unsized |-> 32, int |-> 0, uint |-> 0, exact |-> 0]

Dimension(left, right) == [left |-> left, right |-> right]
\* Mutant: one bit too many.
UptoWidth(width) == Dimension(width, Literal(0))

Upto(width) == Dimension(Binary("-", width, Literal(1)), Literal(0))

\* data_type_intern.
Interned(t) ==
    IF /\ (t.constructor = "alias") = (t.target # << >>)
       /\ (t.constructor \in {"int", "uint"}) = (t.width # << >>)
       /\ (t.constructor = "exact") = (t.value # << >>)
       /\ NoType \notin ToSet(t.target)
       /\ NoWidth \notin ToSet(t.width)
       /\ \A d \in ToSet(t.dimensions) : NoWidth \notin {d.left, d.right}
    THEN t ELSE NoType

Boolean == Type("logic", "unsigned")
Unsized == Type("unsized", "signed")
Scalar(state) == Type(IF state = 2 THEN "bit" ELSE "logic", "unsigned")
ExactInteger(n) == [Type("exact", "implicit") EXCEPT !.value = <<n>>]

IntegerWithWidth(signed, width) ==
    IF width \in {NoWidth, Literal(0)} THEN NoType
    ELSE Interned([Type(IF signed THEN "int" ELSE "uint",
                        IF signed THEN "signed" ELSE "unsigned") EXCEPT !.width = <<width>>])

SizedLogic(width, signedness) ==
    [Type("logic", signedness) EXCEPT
        !.dimensions = IF width = 1 THEN << >>
                       ELSE <<Dimension(Literal(width - 1), Literal(0))>>]

\* arguments_to_dimensions; the counts are normalized before.
ArgumentDimensions(arguments) ==
    [i \in DOMAIN arguments |-> IF arguments[i].kind = "count" THEN Upto(arguments[i].count)
                                ELSE Dimension(arguments[i].left, arguments[i].right)]

\* pigen_data_type_from_spelling.
FromSpelling(spelling, signedness, arguments) ==
    IF spelling \in {"int", "uint"}
    THEN IF signedness = "implicit" /\ Len(arguments) = 1 /\ arguments[1].kind = "count"
         THEN IntegerWithWidth(spelling = "int", arguments[1].count) ELSE NoType
    ELSE IF spelling \in {"logic", "bit"}
    THEN Interned([Type(spelling, signedness) EXCEPT
                      !.dimensions = ArgumentDimensions(arguments)])
    ELSE NoType

\* pigen_data_type_alias_with_arguments.
AliasWithArguments(target, signedness, arguments) ==
    Interned([Type("alias", signedness) EXCEPT
                 !.target = <<target>>, !.dimensions = ArgumentDimensions(arguments)])

-----------------------------------------------------------------------------
RECURSIVE Underlying(_)
Underlying(t) == IF t.constructor = "alias" THEN Underlying(t.target[1]) ELSE t

\* pigen_data_type_numerical_interpretation.
Interpretation(t) ==
    LET constructor == Underlying(t).constructor
    IN IF constructor \in {"int", "uint", "exact", "none"} THEN constructor ELSE "vector"
Concrete(t) == Interpretation(t) \in {"int", "uint"}
IsInteger(t) == Concrete(t) \/ Interpretation(t) = "exact"
RawVector(t) == Interpretation(t) = "vector"
Integral(t) == Concrete(t) \/ RawVector(t)
ExactValue(t) == Underlying(t).value[1]
IsExact(t, n) == Interpretation(t) = "exact" /\ ExactValue(t) = n
NegativeExact(t) == Interpretation(t) = "exact" /\ ExactValue(t) < 0

RECURSIVE PackedWidth(_)
PackedWidth(t) ==
    LET Extent(d) == RangeWidth(d.left, d.right)
        base == CASE t.constructor = "alias" -> PackedWidth(t.target[1])
                  [] t.width # << >> -> t.width[1]
                  [] OTHER -> Literal(BaseWidth[t.constructor])
    IN IF t.constructor \in {"none", "exact"} THEN NoWidth
       ELSE Product([i \in DOMAIN t.dimensions |-> Extent(t.dimensions[i])] \o <<base>>)

\* packed_projection_base: the first alias that has dimensions, or what all stand for.
RECURSIVE ProjectionBase(_)
ProjectionBase(t) ==
    IF t.constructor = "alias" /\ t.dimensions = << >> THEN ProjectionBase(t.target[1]) ELSE t

Divisible(t) == t.constructor # "none" /\ (t.width # << >> \/ BaseWidth[t.constructor] > 1)

PackedElement(type) ==
    LET t == ProjectionBase(type)
    IN IF t.dimensions = << >>
       THEN IF Divisible(t) THEN Scalar(State[t.constructor]) ELSE NoType
       ELSE Interned([t EXCEPT
                !.signedness = IF t.constructor = "alias" THEN @ ELSE "unsigned",
                !.dimensions = Tail(@)])

\* pigen_data_type_packed_select; an indexed selection has no constant left end.
PackedSelect(type, left, right, kind) ==
    LET t == ProjectionBase(type)
        selected == Upto(IF kind = "range" THEN RangeWidth(left, right)
                         ELSE IndexedWidth(right))
    IN IF t.dimensions = << >>
       THEN IF Divisible(t)
            THEN Interned([Scalar(State[t.constructor]) EXCEPT !.dimensions = <<selected>>])
            ELSE NoType
       ELSE Interned([t EXCEPT !.signedness = "unsigned", !.dimensions[1] = selected])

\* pigen_data_type_concatenation.
Concatenation(types) ==
    LET width == Sum([i \in DOMAIN types |-> PackedWidth(types[i])])
        StateOf(t) == State[Underlying(t).constructor]
        scalar == Scalar(IF \E t \in ToSet(types) : StateOf(t) = 4 THEN 4 ELSE 2)
    IN IF width = NoWidth \/ width = Literal(1)
       THEN IF width = NoWidth THEN NoType ELSE scalar
       ELSE [scalar EXCEPT !.dimensions = <<Upto(width)>>]

-----------------------------------------------------------------------------
(* Conversions. *)

Conversion(kind, source, target) == [kind |-> kind, source |-> source, target |-> target]
NoConversion == Conversion("none", NoType, NoType)

\* pigen_data_type_resolve_assignment_conversion.
AssignmentConversion(source, target) ==
    LET kind == CASE source = target -> "identity"
                  [] Interpretation(source) = "exact" /\ Concrete(target) -> "exact"
                  [] IsInteger(source) /\ Interpretation(source) = Interpretation(target) ->
                        "resize"
                  [] OTHER -> "none"
    IN IF kind = "none" THEN NoConversion ELSE Conversion(kind, source, target)

\* pigen_data_type_resolve_explicit_conversion.
ExplicitConversion(source, target) ==
    LET same == Interpretation(source) = Interpretation(target)
        kind == CASE source = target -> "identity"
                  [] Interpretation(source) = "exact" /\ Integral(target) -> "exact"
                  [] IsInteger(source) /\ IsInteger(target) ->
                        IF same THEN "resize" ELSE "reinterpret"
                  [] RawVector(source) /\ IsInteger(target) -> "vector_to_integer"
                  [] IsInteger(source) /\ RawVector(target) -> "integer_to_vector"
                  [] OTHER -> "none"
    IN IF kind = "none" THEN NoConversion ELSE Conversion(kind, source, target)

\* resolve_operand_conversion.
OperandConversion(source, target) ==
    IF source # target /\ Concrete(source) /\ Concrete(target)
    THEN Conversion(IF Interpretation(source) = Interpretation(target) THEN "resize"
                    ELSE "promotion", source, target)
    ELSE AssignmentConversion(source, target)

RECURSIVE ProvesAtLeast(_, _)
ProvesAtLeast(candidate, required) ==
    LET have == Evaluate(candidate, Unknown)
        need == Evaluate(required, Unknown)
    IN \/ candidate = required
       \/ IF Failed \notin {have, need} THEN have >= need
          ELSE candidate.kind = "maximum" /\ \E term \in candidate.terms : ProvesAtLeast(term, required)

\* pigen_data_type_conversion_is_valid.
ConversionIsValid(c) ==
    LET source == Interpretation(c.source)
        target == Interpretation(c.target)
    IN IF c.kind = "identity" THEN c.source = c.target
       ELSE /\ c.source # c.target
            /\ CASE c.kind = "resize" -> Concrete(c.source) /\ source = target
                 [] c.kind = "exact" -> source = "exact" /\ Integral(c.target)
                 [] c.kind = "promotion" ->
                       /\ source = "uint" /\ target = "int"
                       /\ ProvesAtLeast(Underlying(c.target).width[1],
                              Sum(<<Underlying(c.source).width[1], Literal(1)>>))
                 [] c.kind = "reinterpret" ->
                       Concrete(c.source) /\ Concrete(c.target) /\ source # target
                 [] c.kind = "vector_to_integer" -> RawVector(c.source) /\ Concrete(c.target)
                 [] c.kind = "integer_to_vector" -> Concrete(c.source) /\ RawVector(c.target)
                 [] OTHER -> FALSE
=============================================================================
