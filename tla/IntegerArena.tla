----------------------------- MODULE IntegerArena -----------------------------
(***************************************************************************)
(* The table of interned integers of the semantic model (integer.c): a     *)
(* sign and a magnitude each, found again whenever the same number comes   *)
(* up, and the operations on their identities.                             *)
(***************************************************************************)
EXTENDS LimbArithmetic

CONSTANTS
    Radix,              \* 10: less than a limb
    MaximumBits,        \* the limit a caller sets to results
    FirstPrecision,     \* 128
    MaxDigits,          \* bound for TLC: digits of a decimal
    MaxIntegers,        \* bound for TLC: integers when an operation starts
    MaxProduct          \* bound for TLC: bits of a product without a limit

VARIABLES integers, answer

vars == <<integers, answer>>

NoAnswer == [op |-> "none", of |-> << >>, is |-> 0]

Signed(negative, limbs) == [negative |-> negative, limbs |-> limbs]
Zero == Signed(FALSE, << >>)
One == Signed(FALSE, <<1>>)

-----------------------------------------------------------------------------

\* integer_intern.
Interned(table, value) ==
    LET limbs == Normalized(value.limbs)
        normal == Signed(value.negative /\ limbs # << >>, limbs)
    IN IF normal \in Range(table) THEN table ELSE Append(table, normal)

\* Several results, the last of which is the answer.
Answers(op, of, values) ==
    LET table == FoldLeft(Interned, integers, values)
        result == Last(Interned(<< >>, Last(values)))
    IN /\ integers' = table
       /\ answer' = [op |-> op, of |-> of, is |-> CHOOSE i \in DOMAIN table : table[i] = result]

Room == Len(integers) < MaxIntegers

InternDecimal ==
    /\ Room
    /\ \E n \in 1 .. MaxDigits : \E digits \in [1 .. n -> 0 .. Radix - 1] :
         Answers("decimal", digits,
             <<Signed(FALSE, FoldLeft(LAMBDA limbs, d : TimesPlus(limbs, Radix, d), << >>, digits))>>)

\* pigen_integer_negate: zero is answered as it is.
Negated(value) == Signed(value.limbs # << >> /\ ~value.negative, value.limbs)

Negate == /\ Room
          /\ \E a \in DOMAIN integers : Answers("negate", <<a>>, <<Negated(integers[a])>>)

Sum(a, b) ==
    IF a.negative = b.negative THEN Signed(a.negative, MagnitudeAdd(a.limbs, b.limbs))
    ELSE IF a.limbs = b.limbs THEN Zero
    ELSE IF Below(b.limbs, a.limbs) THEN Signed(a.negative, MagnitudeSubtract(a.limbs, b.limbs))
    ELSE Signed(b.negative, MagnitudeSubtract(b.limbs, a.limbs))

Add == /\ Room
       /\ \E a, b \in DOMAIN integers :
            Answers("add", <<a, b>>, <<Sum(integers[a], integers[b])>>)

\* The negated right side stays in the table.
Subtract == /\ Room
            /\ \E a, b \in DOMAIN integers :
                 LET negated == Negated(integers[b])
                 IN Answers("subtract", <<a, b>>, <<negated, Sum(integers[a], negated)>>)

Product(a, b) == IF Zero \in {a, b} THEN Zero
                 ELSE Signed(a.negative # b.negative, MagnitudeMultiply(a.limbs, b.limbs))
Width(value) == MagnitudeWidth(value.limbs)

Multiply == /\ Room
            /\ \E a, b \in DOMAIN integers :
                 /\ Width(integers[a]) + Width(integers[b]) <= MaxProduct
                 /\ Answers("multiply", <<a, b>>, <<Product(integers[a], integers[b])>>)

Refused(op, of, values) ==
    /\ integers' = FoldLeft(Interned, integers, values)
    /\ answer' = [op |-> op, of |-> of, is |-> Failed]

ShiftInteger ==
    /\ Room
    /\ \E a \in DOMAIN integers, amount \in 0 .. 2 * LimbBits :
         IF integers[a].limbs = << >> THEN Answers("shift", <<a, amount>>, <<Zero>>)
         ELSE IF Width(integers[a]) + amount > MaximumBits THEN Refused("shift", <<a, amount>>, << >>)
         ELSE Answers("shift", <<a, amount>>,
                      <<Signed(integers[a].negative, ShiftLeft(integers[a].limbs, amount))>>)

\* The values pigen_integer_power interns on its way, by squaring under the limit.
PowerSteps(base, exponent) ==
    LET n == BitLength[exponent]
        Times(state, a, b, name) ==
            IF ~state.ok \/ Width(Product(a, b)) > MaximumBits THEN [state EXCEPT !.ok = FALSE]
            ELSE [state EXCEPT ![name] = Product(a, b), !.values = Append(@, Product(a, b))]
        Round(state, k) ==
            LET multiplied == IF (exponent \div 2 ^ (k - 1)) % 2 = 1
                              THEN Times(state, state.result, state.factor, "result") ELSE state
            IN IF k < n THEN Times(multiplied, state.factor, state.factor, "factor")
               ELSE multiplied
    IN FoldLeft(Round, [ok |-> TRUE, result |-> One, factor |-> base, values |-> << >>],
                [k \in 1 .. n |-> k])

ToWord(value) == Limb(value.limbs, 1) + Base * Limb(value.limbs, 2)
IsOdd(value) == value.limbs # << >> /\ value.limbs[1] % 2 = 1

Power ==
    /\ Room
    /\ \E a, b \in DOMAIN integers :
         LET base == integers[a]
             exponent == integers[b]
             steps == PowerSteps(base, ToWord(exponent))
         IN IF exponent.negative THEN Refused("power", <<a, b>>, << >>)
            ELSE IF exponent = Zero \/ base = One THEN Answers("power", <<a, b>>, <<One>>)
            ELSE IF base = Zero THEN Answers("power", <<a, b>>, <<One, Zero>>)
            ELSE IF base = Negated(One)
                 THEN Answers("power", <<a, b>>,
                              <<One, base>> \o (IF IsOdd(exponent) THEN << >> ELSE <<One>>))
            ELSE IF Len(exponent.limbs) > 2
                 THEN Refused("power", <<a, b>>, <<One, Negated(One)>>)
            ELSE IF ~steps.ok
                 THEN Refused("power", <<a, b>>, <<One, Negated(One)>> \o steps.values)
            ELSE Answers("power", <<a, b>>,
                         <<One, Negated(One)>> \o steps.values \o <<steps.result>>)

-----------------------------------------------------------------------------
(* Questions, which change nothing. *)

\* pigen_integer_compare.
Order(a, b) ==
    IF a = b THEN 0
    ELSE IF a.negative # b.negative THEN IF a.negative THEN -1 ELSE 1
    ELSE IF Below(a.limbs, b.limbs) = a.negative THEN 1 ELSE -1

UnsignedWidth(a) == IF a.negative THEN 0 ELSE IF a = Zero THEN 1 ELSE Width(a)

SignedWidth(a) == IF a = Zero THEN 1
                  ELSE Width(a) + (IF a.negative /\ IsPowerOfTwo(a.limbs) THEN 0 ELSE 1)

Init == integers = << >> /\ answer = NoAnswer

Next == \/ InternDecimal \/ Negate \/ Add \/ Subtract \/ Multiply \/ ShiftInteger
        \/ Power

Spec == Init /\ [][Next]_vars

-----------------------------------------------------------------------------
Magnitude(limbs) == FoldRight(LAMBDA limb, rest : limb + Base * rest, limbs, 0)
Value(i) == (IF integers[i].negative THEN -1 ELSE 1) * Magnitude(integers[i].limbs)
Operand(k) == Value(answer.of[k])

\* Powers stop growing at the limit: a longer exponent counts by its parity.
Raised(base, exponent) ==
    LET limit == 2 ^ MaximumBits
        power[n \in Nat] == IF n = 0 THEN 1
                            ELSE Max({-limit, Min({limit, power[n - 1] * base})})
        most == 2 * MaximumBits
    IN power[IF exponent <= most THEN exponent ELSE most + (exponent % 2)]

Meant == CASE answer.op = "decimal" -> FoldLeft(LAMBDA n, d : n * Radix + d, 0, answer.of)
           [] answer.op = "negate" -> -Operand(1)
           [] answer.op = "add" -> Operand(1) + Operand(2)
           [] answer.op = "subtract" -> Operand(1) - Operand(2)
           [] answer.op = "multiply" -> Operand(1) * Operand(2)
           [] answer.op = "shift" -> Operand(1) * 2 ^ answer.of[2]
           [] answer.op = "power" -> Raised(Operand(1), Operand(2))

\* One number has one identity: no magnitude ends in a zero limb, zero has no sign,
\* and no two entries are the same, whichever operations made them.  What an
\* operation on limbs answers is what it means for the numbers, however long the
\* carries and borrows run; it is refused just when the result would not fit, or the
\* exponent is negative.
AnswersAreExact ==
    /\ \A i, j \in DOMAIN integers : Value(i) = Value(j) => i = j
    /\ answer.op # "none" =>
         IF answer.is # Failed THEN Value(answer.is) = Meant
         ELSE \/ answer.op = "power" /\ Operand(2) < 0
              \/ Meant \notin -(2 ^ MaximumBits) + 1 .. 2 ^ MaximumBits - 1

\* The smallest width from least on that holds a number, of the given range.
Fits(value, low(_), high(_)) ==
    Min({w \in 1 .. 30 : low(w) <= value /\ value <= high(w)})

\* The least width of a power, no more than a word long, or Failed.
WidthOfPower(value, exponent) ==
    LET power == FoldLeft(MagnitudeMultiply, <<1>>, [k \in 1 .. exponent |-> FromWord(value)])
        width == Max({1, MagnitudeWidth(power)})
    IN IF width > WordMax THEN Failed ELSE width

\* Order and widths agree with the numbers: a comparison with the order, a width with
\* the least number of bits, with and without a sign, and the width of a power, found
\* from rounded bounds, with that of the power itself (asked of an integer on its own).
QuestionsAreExact ==
    \A i \in DOMAIN integers :
        LET n == Value(i) IN
        /\ n >= 0 => UnsignedWidth(integers[i]) = Fits(n, LAMBDA w : 0, LAMBDA w : 2 ^ w - 1)
        /\ SignedWidth(integers[i]) =
             Fits(n, LAMBDA w : -(2 ^ (w - 1)), LAMBDA w : 2 ^ (w - 1) - 1)
        /\ \A j \in DOMAIN integers :
             (Order(integers[i], integers[j]) < 0) = (n < Value(j))
        /\ n \in 0 .. WordMax /\ Len(integers) = 1 =>
             \A exponent \in 0 .. WordMax :
                 PowerWidth(n, exponent, FirstPrecision) = WidthOfPower(n, exponent)
=============================================================================
