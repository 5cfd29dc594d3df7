------------------------------- MODULE Binary -------------------------------
(***************************************************************************)
(* utility/binary.hpp and utility/arithmetic.hpp for an unsigned type of   *)
(* Bits bits.  bit_count and parity exist for 32 bits only and are given   *)
(* by their masks over the set of the bits of a value.  And the            *)
(* comparisons of utility/tuple.hpp, for tuples of numbers.                *)
(***************************************************************************)
EXTENDS Integers, FiniteSets, Sequences, SequencesExt, FiniteSetsExt

CONSTANT Bits

Range2 == 2^Bits
Values == 0 .. Range2 - 1
Bit(value, n) == (value \div 2^n) % 2
BitsOf(value) == {n \in 0 .. Bits - 1 : Bit(value, n) = 1}
OfBits(set) == MapThenSumSet(LAMBDA n : 2^n, set)
Or(a, b) == OfBits(BitsOf(a) \union BitsOf(b))

IsBitRound(value) == value > 0 /\ BitsOf(value) \intersect BitsOf(value - 1) = {}

(* value |= value >> i for i of 1, 2, 4 and so on, and back by one. *)
BitRoundUp(value) ==
    IF value = 0 THEN 1
    ELSE LET steps == [n \in 1 .. CHOOSE l \in 0 .. Bits : 2^l = Bits |-> 2^(n - 1)]
         IN  (FoldLeft(LAMBDA v, i : Or(v, v \div 2^i), value - 1, steps) + 1) % Range2

BitRoundDown(value) == BitRoundUp(value) \div 2

(* A shift by the width of the type or more has no value of its own. *)
BitSlide(value, slide) == IF slide < 0 THEN value \div 2^(-slide)
                          ELSE (value * 2^slide) % Range2

(* Of the bits that are lost only the lowest is looked at. *)
SaturatedShift(value, shift) ==
    IF shift >= Bits \/ (shift > 0 /\ Bit(value, Bits - shift) = 1)
    THEN Range2 - 1 ELSE (value * 2^shift) % Range2

SaturatedSlide(value, slide) == IF slide < 0 THEN value \div 2^(-slide)
                                ELSE SaturatedShift(value, slide)

(* The fields of 2, 4 and 8 bits, added, and their sum in the top byte. *)
Fields(set, width) == [f \in 0 .. (32 \div width) - 1 |->
                          {n \in set : n \div width = f}]
BitCount(set) ==
    LET pairs == [f \in 0 .. 15 |-> Cardinality(Fields(set, 2)[f])]
        fours == [f \in 0 .. 7 |-> pairs[2 * f + 1] + pairs[2 * f]]
        bytes == [f \in 0 .. 3 |-> (fours[2 * f + 1] + fours[2 * f]) % 16]
    IN  bytes[0] + bytes[1] + bytes[2] + bytes[3]

(* Three folds by exclusive or leave four bits, an index of 0x6996. *)
Folded(set, by) == LET low == {n \in set : n < by}
                       high == {n - by : n \in {m \in set : m >= by}}
                   IN  (low \union high) \ (low \intersect high)
Parity(set) == LET four == Folded(Folded(Folded(set, 16), 8), 4) \intersect 0 .. 3
                   odd == {1, 2, 4, 7, 8, 11, 13, 14}
               IN  IF MapThenSumSet(LAMBDA n : 2^n, four) \in odd THEN 1 ELSE 0

Clamp(value, low, high) == Max({low, Min({value, high})})
InverseClamp(value, low, high) == IF value > high THEN value - high
                                  ELSE IF value < low THEN value - low ELSE 0
Ceiling(n, d) == (n \div d) + (IF n % d = 0 THEN 0 ELSE 1)
RoundUp(n, d) == Ceiling(n, d) * d
RoundDown(n, d) == (n \div d) * d

(* isqrt for 32 bits: the value is its 16 digits of base 4, high ones first. *)
IsqrtStep(acc, digit) ==
    LET root == 2 * acc[1] + 1
        remainder == 4 * acc[2] + digit
    IN  IF root > remainder THEN <<root - 1, remainder>>
                            ELSE <<root + 1, remainder - root>>
Isqrt(value) == LET digits == [n \in 1 .. 16 |-> (value \div 4^(16 - n)) % 4]
                IN  FoldLeft(IsqrtStep, <<0, 0>>, digits)[1] \div 2

(* utility/tuple.hpp, whose elements are counted from 0.  An element is    *)
(* compared if the one before it is not greater, whatever is before that.  *)
TupleAt(tuple, i) == tuple[i + 1]
TupleSize(tuple) == Len(tuple)
TupleEqual(x, y) == \A i \in 0 .. TupleSize(x) - 1 : TupleAt(x, i) = TupleAt(y, i)
LessAt(x, y, i) == TupleAt(x, i) < TupleAt(y, i)
TupleLess(x, y) == \E i \in 0 .. TupleSize(x) - 1 :
                       LessAt(x, y, i) /\ (i = 0 \/ ~ LessAt(y, x, i - 1))
TuplePushFront(x, tuple) == <<x>> \o tuple
TuplePushBack(tuple, x) == Append(tuple, x)
FromPair(pair) == <<pair.first, pair.second>>
ToPair(tuple) == [first |-> TupleAt(tuple, 0), second |-> TupleAt(tuple, 1)]

-----------------------------------------------------------------------------
Powers == {2^n : n \in 0 .. Bits - 1}

(* Rounding up gives the least power of two that is not less, or 0 when    *)
(* the type has none; rounding down the greatest that is less.  A shift of *)
(* one bit saturates, and so does any shift that loses its lowest bit; all *)
(* others are right only if nothing is lost.                               *)
BinaryRight(value, shift) ==
    /\ IsBitRound(value) <=> value \in Powers
    /\ BitRoundUp(value) = IF \E p \in Powers : p >= value
                           THEN Min({p \in Powers : p >= value}) ELSE 0
    /\ value > 1 /\ BitRoundUp(value) # 0 =>
           BitRoundDown(value) = Max({p \in Powers : p < value})
    /\ LET lost == value * 2^shift >= Range2 \/ shift = Bits
       IN  /\ ~ lost => SaturatedShift(value, shift) = value * 2^shift
           /\ lost /\ (shift \in {1, Bits} \/ Bit(value, Bits - shift) = 1) =>
                  SaturatedShift(value, shift) = Range2 - 1
           /\ ~ lost => SaturatedSlide(SaturatedSlide(value, shift), -shift) = value
    /\ BitCount(BitsOf(value)) = Cardinality(BitsOf(value))
    /\ Parity(BitsOf(value)) = Cardinality(BitsOf(value)) % 2

(* Tuples compare like the sequences of their elements when they have one  *)
(* or two.  Of longer ones the lesser is less, but so may be the greater:  *)
(* operator < is no order of them.                                         *)
TuplesRight(x, y) ==
    LET Lesser(a, b) == \E i \in DOMAIN a : a[i] < b[i] /\ \A j \in 1 .. i - 1 : a[j] = b[j]
    IN  /\ TupleEqual(x, y) <=> x = y
        /\ Lesser(x, y) => TupleLess(x, y)
        /\ TupleSize(x) <= 2 => (TupleLess(x, y) <=> Lesser(x, y))
        /\ TupleLess(TuplePushBack(x, 1), TuplePushBack(y, 1)) <=> TupleLess(x, y)
        /\ TupleSize(x) <= 1 => (TupleLess(TuplePushFront(1, x), TuplePushFront(1, y))
                                      <=> TupleLess(x, y))
        /\ TupleSize(x) = 2 => FromPair(ToPair(x)) = x

(* The arithmetic of whole numbers. *)
ArithmeticRight(n, d) ==
    /\ n <= RoundUp(n, d) /\ RoundUp(n, d) - n < d /\ RoundUp(n, d) % d = 0
    /\ RoundDown(n, d) <= n /\ n - RoundDown(n, d) < d
    /\ Isqrt(n)^2 <= n /\ n < (Isqrt(n) + 1)^2
    /\ \A high \in d .. d + 2 : Clamp(n, d, high) + InverseClamp(n, d, high) = n
=============================================================================
