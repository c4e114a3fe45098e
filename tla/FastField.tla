------------------------------- MODULE FastField -------------------------------
(***************************************************************************)
(* The inner levels' field FE (src/src/fastfield.rs): the integers modulo  *)
(* the prime 2^N_BITS - 2^OFFSET_BIT - 1 in one machine word.  A stored    *)
(* value is reduced by folding its high bits down and may be any           *)
(* representative up to FE_VAL_MAX; only value() makes it unique.          *)
(*                                                                         *)
(* Two registers run any sequence of operations.  elem is the element each *)
(* should hold, in exact arithmetic.  Words wrap, as in a release build; a *)
(* dev build panics where they would.                                      *)
(***************************************************************************)
EXTENDS Integers, FiniteSets

CONSTANTS N_BITS, OFFSET_BIT

TwoN == 2^N_BITS
TwoOff == 2^OFFSET_BIT
Word == 4 * TwoN               \* 2^64, where N_BITS is 62
FULL_BITS_MASK == TwoN - 1
PRIME_ORDER == TwoN - TwoOff - 1
MAX_EXCESS == 3
FE_VAL_MAX == FULL_BITS_MASK + MAX_EXCESS * TwoOff + MAX_EXCESS

ASSUME WidthAssumption ==
    /\ N_BITS \in Nat /\ OFFSET_BIT \in Nat /\ 2 <= OFFSET_BIT /\ OFFSET_BIT < N_BITS
    /\ TwoN \in Nat /\ TwoOff \in Nat /\ 4 <= TwoOff
    /\ 4 * (TwoOff * TwoOff) <= TwoN

Register == {"self", "rhs"}
Field == 0..(PRIME_ORDER - 1)

\* 2^N_BITS - (2^OFFSET_BIT + 1) is prime: every division comes out.
ASSUME PrimeAssumption ==
    \A a, b \in Field : b # 0 => \E q \in Field : (q * b) % PRIME_ORDER = a

VARIABLES val,   \* [Register -> the word an FE stores]
          elem   \* ghost: [Register -> the element it stands for]

feVars == <<val, elem>>

-----------------------------------------------------------------------------
(* The operations, on stored values. *)

\* 2^N_BITS is 2^OFFSET_BIT + 1 modulo the prime.
Fold(v) == (v % TwoN) + (v \div TwoN) + (v \div TwoN) * TwoOff

bit_reduce_once(v) == Fold(v) % Word

reduce_by_p(v) == IF v < PRIME_ORDER THEN v ELSE v - PRIME_ORDER

new(v) == bit_reduce_once(v)
value(v) == reduce_by_p(bit_reduce_once(v))

NoFE == -1

\* MUTANT of from_reduced: too large a number is taken modulo the order.
from_reducedAny(v) == value(v)

from_reduced(v) == IF v < PRIME_ORDER THEN v ELSE NoFE
from_u64_unbiased(v) == from_reduced(v % TwoN)

\* MUTANT of add: the sum is stored as it is.
addUnreduced(x, y) == (x + y) % Word

add(x, y) == new((x + y) % Word)
neg(x) == new((PRIME_ORDER * 2 - x) % Word)
sub(x, y) == add(x, neg(y))

\* MUTANT of FoldedProduct: folded once.
FoldedProductOnce(x, y) == Fold(x * y)

\* bit_reduce_once_128, twice; the product of two stored values fits in u128.
FoldedProduct(x, y) == Fold(Fold(x * y))

mul(x, y) == new(FoldedProduct(x, y) % Word)

\* MUTANT of ExponentBit: bit 1 is taken for set.
ExponentBitOne(b) == b # OFFSET_BIT

\* The bits of PRIME_ORDER - 2, below the highest.
ExponentBit(b) == b \notin {1, OFFSET_BIT}

\* Square and multiply: <<x, y>> after bit b.
Squared(xy, b) == <<mul(xy[1], xy[1]), IF ExponentBit(b) THEN mul(xy[1], xy[2]) ELSE xy[2]>>

\* <<x, y>> when bit b is next.
Squares(v) ==
    LET xy[b \in 0..(N_BITS - 1)] == IF b = 0 THEN <<v, new(1)>> ELSE Squared(xy[b - 1], b - 1)
    IN  xy

recip(v) == mul(Squares(v)[N_BITS - 1][1], Squares(v)[N_BITS - 1][2])

div(x, y) == mul(x, recip(y))
rem(x, y) == sub(x, div(x, y))

\* PartialEq and Ord.
eq(x, y) == value(x) = value(y)
lt(x, y) == value(x) < value(y)

-----------------------------------------------------------------------------

\* a / b in the field; 0 / 0 and x / 0 come out as zero (the assert is debug only).
Quotient(a, b) == IF b = 0 THEN 0 ELSE CHOOSE q \in Field : (q * b) % PRIME_ORDER = a

FEInit == /\ val = [r \in Register |-> 0]
          /\ elem = [r \in Register |-> 0]

Set(r, v, e) == /\ val' = [val EXCEPT ![r] = v]
                /\ elem' = [elem EXCEPT ![r] = e % PRIME_ORDER]

\* new, for any word.
New(w) == Set("self", new(w), w)

\* from_rng takes words until one is accepted.
Draw(w) == /\ from_u64_unbiased(w) # NoFE
           /\ Set("self", from_u64_unbiased(w), w % TwoN)

FEAdd == Set("self", add(val["self"], val["rhs"]), elem["self"] + elem["rhs"])
FENeg == Set("self", neg(val["self"]), -elem["self"])
FESub == Set("self", sub(val["self"], val["rhs"]), elem["self"] - elem["rhs"])
FEMul == Set("self", mul(val["self"], val["rhs"]), elem["self"] * elem["rhs"])
FEDiv == Set("self", div(val["self"], val["rhs"]), Quotient(elem["self"], elem["rhs"]))
FERem == Set("self", rem(val["self"], val["rhs"]),
             elem["self"] - Quotient(elem["self"], elem["rhs"]))

\* FE is Copy.
CopyToRhs == Set("rhs", val["self"], elem["self"])

\* What the protocol uses; nothing in it divides.
RingNext == \/ \E w \in 0..(Word - 1) : New(w) \/ Draw(w)
            \/ FEAdd \/ FENeg \/ FESub \/ FEMul \/ CopyToRhs

FENext == RingNext \/ FEDiv \/ FERem

FESpec == FEInit /\ [][FENext]_feVars
RingSpec == FEInit /\ [][RingNext]_feVars

-----------------------------------------------------------------------------

(* A stored value never leaves 0..FE_VAL_MAX (the comment on FE). *)
TypeOK == /\ val \in [Register -> 0..FE_VAL_MAX]
          /\ elem \in [Register -> Field]

(* Whatever operations led to it, a stored value exposes the exact element,
   and so comparisons of two stored values are comparisons of elements
   (fastfield.rs value, eq; field.rs Ord for FE). *)
ValueExact ==
    /\ \A r \in Register : value(val[r]) = elem[r]
    /\ eq(val["self"], val["rhs"]) <=> elem["self"] = elem["rhs"]
    /\ lt(val["self"], val["rhs"]) <=> elem["self"] < elem["rhs"]

(* No sum, difference, fold or product of stored values is cut off by its
   machine word, and reduce_by_p gets less than twice the order: the
   debug_asserts on ranges and the "no overflow here" comments of fastfield.rs. *)
NeverWraps ==
    LET x == val["self"]  y == val["rhs"]
    IN  /\ x + y < Word
        /\ PRIME_ORDER * 2 - x \in 0..(Word - 1)
        /\ x * y < Word * Word
        /\ FoldedProduct(x, y) < Word
        /\ Fold(x) <= FULL_BITS_MASK
        /\ \A v \in {x + y, PRIME_ORDER * 2 - x, FoldedProduct(x, y)} : Fold(v) <= FE_VAL_MAX
        /\ bit_reduce_once(x) < PRIME_ORDER * 2

\* For how many words each element is drawn.
DrawCount == [e \in Field |->
    Cardinality({w \in 0..(Word - 1) : from_u64_unbiased(w) # NoFE
                                         /\ value(from_u64_unbiased(w)) = e})]

(* Uniform words give uniform elements: each element is drawn for the same
   number of words (the promise of from_u64_unbiased). *)
DrawsUnbiased == DrawCount[elem["self"]] = Word \div TwoN
=============================================================================
