---------------------------- MODULE LimbArithmetic ----------------------------
(***************************************************************************)
(* The magnitudes of integer.c: lists of limbs, the least significant      *)
(* first, and the loops that add, subtract, multiply, shift and measure    *)
(* them limb by limb.                                                      *)
(***************************************************************************)
EXTENDS Integers, Sequences, FiniteSetsExt, SequencesExt

CONSTANT LimbBits       \* LIMB_BITS, at least 1

Base == 2 ^ LimbBits
Failed == 0 - 1

Limb(limbs, i) == IF i <= Len(limbs) THEN limbs[i] ELSE 0

Normalized(limbs) == SubSeq(limbs, 1, Max({0} \cup {i \in DOMAIN limbs : limbs[i] # 0}))

\* A magnitude of one or two limbs.
FromWord(value) == Normalized(<<value % Base, value \div Base>>)

\* A loop over columns: each gives a limb and hands what is above it to the next one,
\* a carry or, below zero, a borrow.
Carried(columns, carry) ==
    LET Step(done, column) == [limbs |-> Append(done.limbs, (column + done.carry) % Base),
                               carry |-> (column + done.carry) \div Base]
        end == FoldLeft(Step, [limbs |-> << >>, carry |-> carry], columns)
    IN end.limbs \o (IF end.carry > 0 THEN <<end.carry>> ELSE << >>)

\* magnitude_multiply_small, then magnitude_add_small.
TimesPlus(limbs, multiplier, addend) ==
    Carried(Carried([i \in DOMAIN limbs |-> limbs[i] * multiplier], 0), addend)

\* magnitude_compare of normalized magnitudes: is left below right?
Below(left, right) ==
    IF Len(left) # Len(right) THEN Len(left) < Len(right)
    ELSE LET differ == {i \in DOMAIN left : left[i] # right[i]}
         IN differ # {} /\ left[Max(differ)] < right[Max(differ)]

MagnitudeAdd(left, right) ==
    Carried([i \in 1 .. Max({Len(left), Len(right)}) |-> Limb(left, i) + Limb(right, i)], 0)

\* Mutant: a borrow is passed on only from a limb that was smaller itself.
SubtractShallow(larger, smaller) ==
    LET borrow(i) == IF i > 0 /\ Limb(larger, i) < Limb(smaller, i) THEN 1 ELSE 0
    IN Normalized([i \in DOMAIN larger |->
                      (larger[i] - Limb(smaller, i) - borrow(i - 1)) % Base])

MagnitudeSubtract(larger, smaller) ==
    Normalized(Carried([i \in DOMAIN larger |-> larger[i] - Limb(smaller, i)], 0))

\* One round of the outer loop of magnitude_multiply.
Row(result, left, right, i) ==
    LET row == Carried([j \in DOMAIN right |-> left[i] * right[j] + Limb(result, i + j - 1)], 0)
    IN SubSeq(result, 1, i - 1) \o row

MagnitudeMultiply(left, right) ==
    IF << >> \in {left, right} THEN << >>
    ELSE Normalized(FoldLeft(LAMBDA result, i : Row(result, left, right, i), << >>,
                             [i \in DOMAIN left |-> i]))

BitLength[n \in Nat] == IF n = 0 THEN 0 ELSE 1 + BitLength[n \div 2]

\* magnitude_width of a normalized magnitude.
MagnitudeWidth(limbs) ==
    IF limbs = << >> THEN 0 ELSE (Len(limbs) - 1) * LimbBits + BitLength[Last(limbs)]

\* magnitude_is_power_of_two.
IsPowerOfTwo(limbs) ==
    \E i \in DOMAIN limbs : /\ limbs[i] \in {2 ^ k : k \in 0 .. LimbBits - 1}
                            /\ \A j \in DOMAIN limbs \ {i} : limbs[j] = 0

ShiftLeft(limbs, amount) ==
    LET words == amount \div LimbBits
        bits == amount % LimbBits
        Moved(i) == Limb(limbs, i) * 2 ^ bits
    IN Normalized([i \in 1 .. Len(limbs) + words + 1 |->
           IF i <= words THEN 0
           ELSE (Moved(i - words) % Base)
                + (IF i - words > 1 THEN Moved(i - words - 1) \div Base ELSE 0)])

\* magnitude_shift_right, to be rounded up when a bit that is lost was set.
ShiftRight(limbs, amount, round_up) ==
    LET words == amount \div LimbBits
        bits == amount % LimbBits
        discarded == \/ \E i \in DOMAIN limbs : i <= words /\ limbs[i] # 0
                     \/ Limb(limbs, words + 1) % 2 ^ bits # 0
        kept == Normalized([i \in 1 .. Len(limbs) - words |->
                    ((Limb(limbs, i + words) + Limb(limbs, i + words + 1) * Base)
                        \div 2 ^ bits) % Base])
    IN IF round_up /\ discarded THEN MagnitudeAdd(kept, <<1>>) ELSE kept

-----------------------------------------------------------------------------
(* pigen_integer_power_width_u64: how many bits a power has, from bounds   *)
(* of limited precision.  A bound is a magnitude shifted left.             *)

WordMax == Base * Base - 1

Exactly(value) == [lower |-> FromWord(value), upper |-> FromWord(value), shift |-> 0]
Overflown == [lower |-> << >>, upper |-> << >>, shift |-> Failed]

\* Bounds of no more bits than the precision, the lower one rounded down, the upper one up.
Rounded(lower, upper, shift, precision) ==
    LET drop == Max({0, MagnitudeWidth(upper) - precision})
    IN IF << >> \in {lower, upper} \/ shift + drop > WordMax THEN Overflown
       ELSE [lower |-> ShiftRight(lower, drop, FALSE),
             upper |-> ShiftRight(upper, drop, TRUE), shift |-> shift + drop]

\* magnitude_interval_multiply.
IntervalMultiply(left, right, precision) ==
    IF Overflown \in {left, right} THEN Overflown
    ELSE Rounded(MagnitudeMultiply(left.lower, right.lower),
                 MagnitudeMultiply(left.upper, right.upper), left.shift + right.shift, precision)

\* Exponentiation by squaring, the low bit of the exponent first.
IntervalPower(value, exponent, precision) ==
    LET n == BitLength[exponent]
        Bit(k) == (exponent \div 2 ^ (k - 1)) % 2
        Round(state, k) ==
            [result |-> IF Bit(k) = 1 THEN IntervalMultiply(state.result, state.factor, precision)
                        ELSE state.result,
             factor |-> IF k < n THEN IntervalMultiply(state.factor, state.factor, precision)
                        ELSE state.factor]
    IN FoldLeft(Round, [result |-> Exactly(1), factor |-> Exactly(value)],
                [k \in 1 .. n |-> k]).result

\* The widths of both bounds: one of them, Failed, or to be asked again.
WidthsOf(found) ==
    IF found = Overflown THEN {Failed}
    ELSE {found.shift + MagnitudeWidth(found.lower), found.shift + MagnitudeWidth(found.upper)}
Settled(widths, retried) ==
    IF Min(widths) > WordMax THEN Failed
    ELSE IF Min(widths) = Max(widths) THEN Min(widths) ELSE retried

\* The precision doubles until both bounds have the width.
IntervalWidth(value, exponent, first_precision) ==
    LET width[precision \in Nat] ==
            Settled(WidthsOf(IntervalPower(value, exponent, precision)), width[2 * precision])
    IN width[first_precision]

PowerWidth(value, exponent, first_precision) ==
    IF exponent = 0 \/ value <= 1 THEN 1
    ELSE IF IsPowerOfTwo(FromWord(value))
         THEN LET log == BitLength[value] - 1
              IN IF exponent > (WordMax - 1) \div log THEN Failed ELSE exponent * log + 1
    ELSE IntervalWidth(value, exponent, first_precision)
=============================================================================
