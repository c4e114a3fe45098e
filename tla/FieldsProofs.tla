---------------------------- MODULE FieldsProofs ----------------------------
(***************************************************************************)
(* The arithmetic of both fields.  FE (src/src/fastfield.rs): no operation *)
(* leaves the range of stored values or is cut off by its word, a word     *)
(* always stands for the exact element, and a draw is unbiased, for every  *)
(* width and offset that the constants' comments allow.  FieldElm          *)
(* (src/src/field.rs): a big integer never leaves its range, and what the  *)
(* two jobs of Fields compare, a count with the threshold and a check with *)
(* zero, is canonical, for any number of clients and any modulus.          *)
(***************************************************************************)
EXTENDS Fields, WellFoundedInduction, FiniteSetTheorems, TLAPS

-----------------------------------------------------------------------------
(* Sizes.  n is 2^N_BITS and o is 2^OFFSET_BIT. *)

Stored == 0..FE_VAL_MAX

LEMMA Widths ==
    /\ TwoN \in Nat /\ TwoOff \in Nat /\ 4 <= TwoOff
    /\ 4 * (TwoOff * TwoOff) <= TwoN
    /\ 4 * TwoOff <= TwoOff * TwoOff
    /\ 16 * TwoOff <= TwoN
<1>1. TwoN \in Nat /\ TwoOff \in Nat /\ 4 <= TwoOff /\ 4 * (TwoOff * TwoOff) <= TwoN
  BY WidthAssumption
<1>2. ASSUME NEW o \in Nat, 4 <= o PROVE 4 * o <= o * o
  <2>1. PICK k \in Nat : o = 4 + k
    BY <1>2
  <2>2. o * o = 4 * o + k * o /\ k * o \in Nat
    BY <2>1
  <2> QED BY <2>2
<1> QED BY <1>1, <1>2

LEMMA Constants ==
    /\ PRIME_ORDER \in Nat /\ 1 < PRIME_ORDER /\ Word \in Nat /\ FE_VAL_MAX \in Nat
    /\ PRIME_ORDER = TwoN - TwoOff - 1
    /\ FULL_BITS_MASK = TwoN - 1
    /\ FE_VAL_MAX = TwoN + 3 * TwoOff + 2
    /\ Word = 4 * TwoN
    /\ FE_VAL_MAX < Word
BY Widths DEF PRIME_ORDER, Word, FE_VAL_MAX, FULL_BITS_MASK, MAX_EXCESS

(* Division with remainder by n. *)
LEMMA Quotients ==
    ASSUME NEW n \in Nat, 0 < n, NEW v \in Nat
    PROVE  /\ v % n \in Nat /\ v \div n \in Nat
           /\ v % n < n
           /\ v = n * (v \div n) + (v % n)
OBVIOUS

(* What is below a multiple of n has a quotient below the multiplier. *)
LEMMA QuotientBound ==
    ASSUME NEW n \in Nat, 0 < n, NEW v \in Nat, NEW k \in Nat, v < n * (k + 1)
    PROVE  v \div n <= k
<1>1. v \div n \in Nat /\ v = n * (v \div n) + (v % n) /\ v % n \in Nat
  BY Quotients
<1> SUFFICES ASSUME k + 1 <= v \div n PROVE FALSE
  BY <1>1
<1>2. PICK d \in Nat : v \div n = k + 1 + d
  BY <1>1
<1>3. n * (v \div n) = n * (k + 1) + n * d /\ n * d \in Nat
  BY <1>2
<1> QED BY <1>1, <1>3

(* A fold of a number with quotient at most k. *)
LEMMA FoldBound ==
    ASSUME NEW v \in Nat, NEW k \in Nat, v < TwoN * (k + 1)
    PROVE  Fold(v) \in Nat /\ Fold(v) <= TwoN - 1 + k + k * TwoOff
<1> DEFINE q == v \div TwoN
           r == v % TwoN
<1>1. 0 < TwoN /\ TwoOff \in Nat /\ TwoN \in Nat
  BY Widths
<1>2. q \in Nat /\ q <= k /\ r \in Nat /\ r <= TwoN - 1
  BY <1>1, Quotients, QuotientBound, Widths
<1>3. Fold(v) = r + q + q * TwoOff
  BY DEF Fold
<1> HIDE DEF q, r
<1>4. q * TwoOff <= k * TwoOff /\ q * TwoOff \in Nat /\ k * TwoOff \in Nat
  <2>1. PICK d \in Nat : k = q + d
    <3>1. k - q \in Nat /\ k = q + (k - q)
      BY <1>2
    <3> QED BY <3>1
  <2>2. k * TwoOff = q * TwoOff + d * TwoOff /\ d * TwoOff \in Nat /\ q * TwoOff \in Nat
    BY <1>1, <1>2, <2>1
  <2> QED BY <2>2, <1>1, <1>2
<1>5. ASSUME NEW a \in Nat, NEW b \in Nat, a <= b, Fold(v) = r + q + a
      PROVE  Fold(v) \in Nat /\ Fold(v) <= TwoN - 1 + k + b
  BY <1>1, <1>2, <1>5
<1> QED BY <1>3, <1>4, <1>5

-----------------------------------------------------------------------------
(* The operations on stored values. *)

(* The first fold brings any word into the stored range. *)
LEMMA FoldOfWord ==
    ASSUME NEW v \in 0..(Word - 1)
    PROVE  /\ Fold(v) \in Stored
           /\ new(v) = Fold(v) /\ new(v) \in Stored
<1>1. Fold(v) \in Nat /\ Fold(v) <= TwoN - 1 + 3 + 3 * TwoOff
  <2>1. v \in Nat /\ v < TwoN * (3 + 1)
    BY Constants, Widths
  <2> QED BY <2>1, FoldBound
<1>2. Fold(v) \in Stored
  BY <1>1, Constants, Widths DEF Stored
<1>3. Fold(v) % Word = Fold(v)
  BY <1>2, Constants DEF Stored
<1> QED BY <1>2, <1>3 DEF new, bit_reduce_once

(* The second brings a stored value into N_BITS bits. *)
LEMMA FoldOfStored ==
    ASSUME NEW x \in Stored
    PROVE  Fold(x) \in 0..FULL_BITS_MASK /\ bit_reduce_once(x) = Fold(x)
<1>1. x \in Nat /\ x < Word /\ x <= TwoN + 3 * TwoOff + 2
  BY Constants DEF Stored
<1>2. Fold(x) \in Nat /\ Fold(x) <= TwoN - 1
  <2>1. CASE x < TwoN
    <3>1. x % TwoN = x /\ x \div TwoN = 0
      BY <1>1, <2>1, Widths
    <3> QED BY <3>1, <1>1, <2>1, Widths DEF Fold
  <2>2. CASE TwoN <= x
    <3>1. x < TwoN + TwoN
      BY <1>1, Widths
    <3>2. x % TwoN = x - TwoN /\ x \div TwoN = 1
      BY <1>1, <2>2, <3>1, Widths
    <3>3. Fold(x) = x - TwoN + 1 + TwoOff
      BY <3>2, <1>1, Widths DEF Fold
    <3> QED BY <3>3, <1>1, <2>2, Widths
  <2> QED BY <2>1, <2>2, <1>1, Widths
<1>3. Fold(x) % Word = Fold(x)
  BY <1>2, Constants, Widths
<1> QED BY <1>2, <1>3, Constants, Widths DEF bit_reduce_once

-----------------------------------------------------------------------------
(* Sums, differences and products of stored values fit in their words. *)

LEMMA ProductMonotone ==
    ASSUME NEW a \in Nat, NEW b \in Nat, NEW c \in Nat, NEW d \in Nat, a <= b, c <= d
    PROVE  a * c \in Nat /\ b * d \in Nat /\ a * c <= b * d
<1>1. PICK e \in Nat : b = a + e
  <2>1. b - a \in Nat /\ b = a + (b - a)
    OBVIOUS
  <2> QED BY <2>1
<1>2. PICK f \in Nat : d = c + f
  <2>1. d - c \in Nat /\ d = c + (d - c)
    OBVIOUS
  <2> QED BY <2>1
<1>3. b * d = a * c + a * f + e * c + e * f
  BY <1>1, <1>2
<1>4. a * c \in Nat /\ a * f \in Nat /\ e * c \in Nat /\ e * f \in Nat
  OBVIOUS
<1> QED BY <1>3, <1>4

LEMMA SumsFit ==
    ASSUME NEW x \in Stored, NEW y \in Stored
    PROVE  /\ x + y \in 0..(Word - 1)
           /\ PRIME_ORDER * 2 - x \in 0..(Word - 1)
           /\ bit_reduce_once(x) < PRIME_ORDER * 2
BY Widths, Constants, FoldOfStored DEF Stored

(* A product of stored values is below n * (n + 6*o + 9). *)
LEMMA ProductBound ==
    ASSUME NEW x \in Stored, NEW y \in Stored
    PROVE  /\ x * y \in Nat
           /\ x * y < Word * Word
           /\ x * y < TwoN * ((TwoN + 6 * TwoOff + 8) + 1)
<1> DEFINE c == 3 * TwoOff + 2
<1>1. /\ TwoN \in Nat /\ TwoOff \in Nat /\ 4 <= TwoOff
      /\ 4 * (TwoOff * TwoOff) <= TwoN /\ 4 * TwoOff <= TwoOff * TwoOff
  BY Widths
<1>2. x \in Nat /\ y \in Nat /\ FE_VAL_MAX = TwoN + c /\ x <= TwoN + c /\ y <= TwoN + c
  BY <1>1, Constants DEF Stored
<1>3. x * y \in Nat /\ x * y <= (TwoN + c) * (TwoN + c)
  <2> HIDE DEF c
  <2>1. TwoN + c \in Nat
    BY <1>1, <1>2, Constants
  <2> QED BY <1>2, <2>1, ProductMonotone
<1>4. (TwoN + c) * (TwoN + c) = TwoN * TwoN + 2 * (TwoN * c) + c * c
  <2>1. c \in Nat
    BY <1>1
  <2> HIDE DEF c
  <2> QED BY <1>1, <2>1
<1>5. 2 * (TwoN * c) = 6 * (TwoN * TwoOff) + 4 * TwoN
  BY <1>1
<1>6. c * c = 9 * (TwoOff * TwoOff) + 12 * TwoOff + 4
  BY <1>1
<1>7. c * c <= 4 * TwoN
  <2>1. TwoOff * TwoOff \in Nat
    BY <1>1
  <2>2. ASSUME NEW s \in Nat, NEW o \in Nat, 4 * s <= TwoN, 4 * o <= s, 4 <= o
        PROVE  9 * s + 12 * o + 4 <= 4 * TwoN
    BY <1>1, <2>2
  <2> QED BY <1>1, <1>6, <2>1, <2>2
<1>8. TwoN * ((TwoN + 6 * TwoOff + 8) + 1) = TwoN * TwoN + 6 * (TwoN * TwoOff) + 9 * TwoN
  BY <1>1
<1>9. TwoN * TwoN \in Nat /\ TwoN * TwoOff \in Nat /\ 0 < TwoN /\ c * c \in Nat
  BY <1>1, <1>6, Widths
<1>10. x * y < TwoN * ((TwoN + 6 * TwoOff + 8) + 1)
  <2>1. ASSUME NEW p \in Nat, NEW nn \in Nat, NEW no \in Nat, NEW cc \in Nat,
               p <= nn + (6 * no + 4 * TwoN) + cc, cc <= 4 * TwoN
        PROVE  p < nn + 6 * no + 9 * TwoN
    BY <1>1, <1>9, <2>1
  <2> HIDE DEF c
  <2>2. x * y <= TwoN * TwoN + (6 * (TwoN * TwoOff) + 4 * TwoN) + c * c
    BY <1>3, <1>4, <1>5
  <2> QED BY <1>3, <1>7, <1>8, <1>9, <2>1, <2>2
<1>11. x * y < Word * Word
  <2>1. Word \in Nat /\ 1 <= Word /\ x <= Word - 1 /\ y <= Word - 1
    BY <1>2, Constants DEF Stored
  <2>2. x * y <= (Word - 1) * (Word - 1)
    BY <1>2, <2>1, ProductMonotone
  <2>3. (Word - 1) * (Word - 1) = Word * Word - 2 * Word + 1 /\ Word * Word \in Nat
    BY <2>1
  <2> QED BY <1>3, <2>1, <2>2, <2>3
<1> QED BY <1>3, <1>10, <1>11

(* So two folds bring it into a word. *)
LEMMA ProductFits ==
    ASSUME NEW x \in Stored, NEW y \in Stored
    PROVE  /\ FoldedProduct(x, y) \in 0..(Word - 1)
           /\ FoldedProduct(x, y) % Word = FoldedProduct(x, y)
<1> DEFINE s == TwoOff * TwoOff
           no == TwoN * TwoOff
           k1 == TwoN + 6 * TwoOff + 8
           k2 == TwoOff + 4
<1>1. /\ TwoN \in Nat /\ TwoOff \in Nat /\ 4 <= TwoOff /\ 16 * TwoOff <= TwoN
      /\ s \in Nat /\ 4 * s <= TwoN /\ 4 * TwoOff <= s /\ no \in Nat
  BY Widths
<1>2. k1 \in Nat /\ k2 \in Nat
  BY <1>1
<1>3. Fold(x * y) \in Nat /\ Fold(x * y) <= TwoN - 1 + k1 + k1 * TwoOff
  <2>1. x * y \in Nat /\ x * y < TwoN * (k1 + 1)
    BY ProductBound
  <2> HIDE DEF k1
  <2> QED BY <1>2, <2>1, FoldBound
<1>4. k1 * TwoOff = no + 6 * s + 8 * TwoOff
  BY <1>1
<1>5. Fold(x * y) < no + 5 * TwoN
  <2> HIDE DEF s, no
  <2> QED BY <1>1, <1>3, <1>4
<1>6. TwoN * (k2 + 1) = no + 5 * TwoN
  BY <1>1
<1>7. FoldedProduct(x, y) \in Nat /\ FoldedProduct(x, y) <= TwoN - 1 + k2 + k2 * TwoOff
  <2>1. Fold(x * y) < TwoN * (k2 + 1)
    BY <1>5, <1>6
  <2> HIDE DEF k2
  <2> QED BY <1>2, <1>3, <2>1, FoldBound DEF FoldedProduct
<1>8. k2 * TwoOff = s + 4 * TwoOff
  BY <1>1
<1>9. FoldedProduct(x, y) < Word
  <2>1. FoldedProduct(x, y) <= TwoN - 1 + (TwoOff + 4) + (s + 4 * TwoOff)
    BY <1>7, <1>8
  <2> HIDE DEF s, no, k1, k2
  <2> QED BY <1>1, <1>7, <2>1, Constants
<1> HIDE DEF s, no, k1, k2
<1>10. ASSUME NEW f \in Nat, f < Word PROVE f \in 0..(Word - 1) /\ f % Word = f
  BY <1>10, Constants
<1> QED BY <1>7, <1>9, <1>10

-----------------------------------------------------------------------------
(* Every operation returns a stored value. *)

LEMMA NewStored ==
    ASSUME NEW v \in Int
    PROVE  new(v % Word) \in Stored
<1>1. v % Word \in 0..(Word - 1)
  BY Constants
<1> QED BY <1>1, FoldOfWord

LEMMA OperationsStored ==
    ASSUME NEW x \in Stored, NEW y \in Stored
    PROVE  /\ add(x, y) \in Stored
           /\ neg(x) \in Stored
           /\ sub(x, y) \in Stored
           /\ mul(x, y) \in Stored
<1> ASSUME NEW a \in Stored PROVE a \in Int
  BY Constants DEF Stored
<1>1. ASSUME NEW a \in Stored, NEW b \in Stored PROVE add(a, b) \in Stored
  BY <1>1, NewStored, Constants DEF add, Stored
<1>2. ASSUME NEW a \in Stored PROVE neg(a) \in Stored
  BY <1>2, NewStored, Constants DEF neg, Stored
<1>3. sub(x, y) \in Stored
  BY <1>1, <1>2 DEF sub
<1>4. mul(x, y) \in Stored
  BY ProductFits, FoldOfWord DEF mul
<1> QED BY <1>1, <1>2, <1>3, <1>4

LEMMA SquaredStored ==
    ASSUME NEW xy \in Stored \X Stored, NEW b
    PROVE  Squared(xy, b) \in Stored \X Stored
BY OperationsStored DEF Squared

LEMMA OneStored == new(1) \in Stored
<1>1. 1 \in 0..(Word - 1)
  BY Constants, Widths
<1> QED BY <1>1, FoldOfWord

(* A set of numbers with 0, and with b + 1 for each b in it, has them all. *)
LEMMA BitInduction ==
    ASSUME NEW S, 0 \in S, \A b \in Nat : b \in S => b + 1 \in S
    PROVE  \A b \in Nat : b \in S
<1> DEFINE Missing == Nat \ S
<1> SUFFICES ASSUME Missing # {} PROVE FALSE
  OBVIOUS
<1>1. Missing \subseteq Nat
  OBVIOUS
<1>2. PICK b \in Missing : \A m \in Missing : ~ (<<m, b>> \in OpToRel(<, Nat))
  <2> HIDE DEF Missing
  <2> QED BY <1>1, NatLessThanWellFounded, WFMin
<1>3. b \in Nat /\ b \notin S /\ b # 0 /\ b - 1 \in Nat /\ b - 1 < b
  OBVIOUS
<1>4. <<b - 1, b>> \in OpToRel(<, Nat)
  BY <1>3 DEF OpToRel
<1>5. b - 1 \in S
  BY <1>2, <1>3, <1>4
<1> QED BY <1>3, <1>5

(* Square and multiply, as long as it runs. *)
LEMMA SquaresStored ==
    ASSUME NEW v \in Stored
    PROVE  Squares(v)[N_BITS - 1] \in Stored \X Stored
<1> DEFINE last == N_BITS - 1
           step(f, b) == IF b = 0 THEN <<v, new(1)>> ELSE Squared(f[b - 1], b - 1)
           Good(f, n) == \A b \in 0..n : f[b] = step(f, b)
           S == {n \in Nat : \E f \in [0..n -> Stored \X Stored] : Good(f, n)}
<1>0. last \in Nat
  BY WidthAssumption
<1>1. 0 \in S
  <2> DEFINE f == [b \in 0..0 |-> <<v, new(1)>>]
  <2>1. f \in [0..0 -> Stored \X Stored]
    BY OneStored
  <2>2. Good(f, 0)
    OBVIOUS
  <2> QED BY <2>1, <2>2
<1>2. ASSUME NEW n \in Nat, n \in S PROVE n + 1 \in S
  <2>1. PICK f \in [0..n -> Stored \X Stored] : Good(f, n)
    BY <1>2
  <2> DEFINE g == [b \in 0..(n + 1) |-> IF b = n + 1 THEN Squared(f[n], n) ELSE f[b]]
  <2>2. Squared(f[n], n) \in Stored \X Stored
    <3>1. f[n] \in Stored \X Stored
      BY <2>1
    <3> QED BY <3>1, SquaredStored
  <2>3. g \in [0..(n + 1) -> Stored \X Stored]
    BY <2>2
  <2>4. g[n + 1] = step(g, n + 1)
    BY SMT
  <2>5. ASSUME NEW b \in 0..n PROVE g[b] = step(g, b)
    <3>1. g[b] = f[b] /\ (b # 0 => g[b - 1] = f[b - 1])
      OBVIOUS
    <3> HIDE DEF g
    <3> QED BY <2>1, <3>1
  <2>6. Good(g, n + 1)
    <3> SUFFICES ASSUME NEW b \in 0..(n + 1) PROVE g[b] = step(g, b)
      OBVIOUS
    <3>1. CASE b = n + 1
      <4> HIDE DEF g, step
      <4> QED BY <2>4, <3>1
    <3>2. CASE b # n + 1
      <4>1. b \in 0..n
        BY <3>2
      <4> HIDE DEF g, step
      <4> QED BY <2>5, <4>1
    <3> QED BY <3>1, <3>2
  <2> HIDE DEF g, Good
  <2> QED BY <2>3, <2>6
<1>3. last \in S
  <2> HIDE DEF S
  <2> QED BY <1>0, <1>1, <1>2, BitInduction
<1>4. PICK f \in [0..last -> Stored \X Stored] : Good(f, last)
  BY <1>3
<1> DEFINE IsSquares(f_) == f_ = [b \in 0..last |-> step(f_, b)]
<1>5. IsSquares(f)
  BY <1>4
<1>6. Squares(v) = CHOOSE f_ : IsSquares(f_)
  BY DEF Squares
<1>7. IsSquares(Squares(v))
  <2> HIDE DEF IsSquares
  <2> QED BY <1>5, <1>6
<1> DEFINE sq == Squares(v)
<1>8. \A b \in 0..last : sq[b] = step(sq, b)
  <2> HIDE DEF sq
  <2>1. sq = [b \in 0..last |-> step(sq, b)]
    BY <1>7 DEF sq
  <2> QED BY <2>1
<1> DEFINE T == {n \in Nat : n <= last => sq[n] \in Stored \X Stored}
<1>9. 0 \in T
  <2> HIDE DEF sq
  <2>1. sq[0] = <<v, new(1)>>
    BY <1>0, <1>8
  <2> QED BY <2>1, OneStored
<1>10. ASSUME NEW n \in Nat, n \in T PROVE n + 1 \in T
  <2> SUFFICES ASSUME n + 1 <= last PROVE sq[n + 1] \in Stored \X Stored
    OBVIOUS
  <2>1. sq[n] \in Stored \X Stored
    BY <1>0, <1>10
  <2>2. n + 1 \in 0..last /\ n + 1 # 0 /\ (n + 1) - 1 = n
    BY <1>0
  <2>3. sq[n + 1] = Squared(sq[n], n)
    <3> HIDE DEF sq
    <3> QED BY <1>8, <2>2
  <2> HIDE DEF sq
  <2> QED BY <2>1, <2>3, SquaredStored
<1>11. last \in T
  <2> HIDE DEF T
  <2> QED BY <1>0, <1>9, <1>10, BitInduction
<1> QED BY <1>0, <1>11

LEMMA RecipStored ==
    ASSUME NEW v \in Stored
    PROVE  recip(v) \in Stored
BY SquaresStored, OperationsStored DEF recip

LEMMA DivisionStored ==
    ASSUME NEW x \in Stored, NEW y \in Stored
    PROVE  div(x, y) \in Stored /\ rem(x, y) \in Stored
BY RecipStored, OperationsStored DEF div, rem

LEMMA DrawStored ==
    ASSUME NEW w \in 0..(Word - 1), from_u64_unbiased(w) # NoFE
    PROVE  /\ from_u64_unbiased(w) = w % TwoN
           /\ from_u64_unbiased(w) \in Stored
<1>1. w \in Nat /\ w % TwoN \in Nat
  BY Constants, Widths, Quotients
<1>2. from_u64_unbiased(w) = w % TwoN /\ w % TwoN < PRIME_ORDER
  BY DEF from_u64_unbiased, from_reduced
<1> QED BY <1>1, <1>2, Constants, Widths DEF Stored

-----------------------------------------------------------------------------
(* Congruence, modulo any number. *)

Same(a, b, m) == \E k \in Int : a = b + k * m

LEMMA SameReflexive ==
    ASSUME NEW m \in Nat, NEW a \in Int
    PROVE  Same(a, a, m)
<1>1. a = a + 0 * m
  OBVIOUS
<1> QED BY <1>1 DEF Same

LEMMA SameSymmetric ==
    ASSUME NEW m \in Nat, NEW a \in Int, NEW b \in Int, Same(a, b, m)
    PROVE  Same(b, a, m)
<1>1. PICK k \in Int : a = b + k * m
  BY DEF Same
<1>2. b = a + (-k) * m /\ -k \in Int
  BY <1>1
<1> QED BY <1>2 DEF Same

LEMMA SameTransitive ==
    ASSUME NEW m \in Nat, NEW a \in Int, NEW b \in Int, NEW c \in Int,
           Same(a, b, m), Same(b, c, m)
    PROVE  Same(a, c, m)
<1>1. PICK k \in Int : a = b + k * m
  BY DEF Same
<1>2. PICK l \in Int : b = c + l * m
  BY DEF Same
<1>3. a = c + (k + l) * m /\ k + l \in Int
  BY <1>1, <1>2
<1> QED BY <1>3 DEF Same

LEMMA SameSum ==
    ASSUME NEW m \in Nat, NEW a \in Int, NEW b \in Int, NEW c \in Int, NEW d \in Int,
           Same(a, b, m), Same(c, d, m)
    PROVE  Same(a + c, b + d, m)
<1>1. PICK k \in Int : a = b + k * m
  BY DEF Same
<1>2. PICK l \in Int : c = d + l * m
  BY DEF Same
<1>3. a + c = (b + d) + (k + l) * m /\ k + l \in Int
  BY <1>1, <1>2
<1> QED BY <1>3 DEF Same

(* The negation, and taken off m once or twice. *)
LEMMA SameNegated ==
    ASSUME NEW m \in Nat, NEW a \in Int, NEW b \in Int, Same(a, b, m)
    PROVE  Same(-a, -b, m) /\ Same(m - a, -b, m) /\ Same(m * 2 - a, -b, m)
<1>1. PICK k \in Int : a = b + k * m
  BY DEF Same
<1>2. -a = -b + (-k) * m /\ -k \in Int
  BY <1>1
<1>3. m - a = -b + (1 - k) * m /\ 1 - k \in Int
  BY <1>1
<1>4. m * 2 - a = -b + (2 - k) * m /\ 2 - k \in Int
  BY <1>1
<1> QED BY <1>2, <1>3, <1>4 DEF Same

LEMMA SameProduct ==
    ASSUME NEW m \in Nat, NEW a \in Int, NEW b \in Int, NEW c \in Int, NEW d \in Int,
           Same(a, b, m), Same(c, d, m)
    PROVE  Same(a * c, b * d, m)
<1>1. PICK k \in Int : a = b + k * m
  BY DEF Same
<1>2. PICK l \in Int : c = d + l * m
  BY DEF Same
<1> DEFINE n == b * l + k * d + (k * l) * m
<1>3. n \in Int
  OBVIOUS
<1>4. a * c = b * d + n * m
  BY <1>1, <1>2
<1> HIDE DEF n
<1> QED BY <1>3, <1>4 DEF Same

(* The remainder is congruent, and congruent remainders are equal. *)
LEMMA SameRemainder ==
    ASSUME NEW m \in Nat, 1 < m, NEW a \in Int
    PROVE  a % m \in 0..(m - 1) /\ Same(a % m, a, m)
<1>1. a % m \in 0..(m - 1) /\ a \div m \in Int /\ a % m = a - m * (a \div m)
  OBVIOUS
<1>2. a % m = a + (-(a \div m)) * m
  <2>1. ASSUME NEW q \in Int, NEW r \in Int, r = a - m * q
        PROVE  r = a + (-q) * m
    BY <2>1
  <2> QED BY <1>1, <2>1
<1>3. -(a \div m) \in Int
  BY <1>1
<1> QED BY <1>1, <1>2, <1>3 DEF Same

LEMMA SameUnique ==
    ASSUME NEW m \in Nat, 1 < m, NEW a \in 0..(m - 1), NEW b \in 0..(m - 1), Same(a, b, m)
    PROVE  a = b
<1>1. PICK k \in Int : a = b + k * m
  BY DEF Same
<1>2. a \in Nat /\ b \in Nat /\ a < m /\ b < m
  OBVIOUS
<1>3. CASE k = 0
  BY <1>1, <1>2, <1>3
<1>4. CASE 1 <= k
  <2>1. PICK j \in Nat : k = 1 + j
    BY <1>4
  <2>2. k * m = m + j * m /\ j * m \in Nat
    BY <2>1
  <2> QED BY <1>1, <1>2, <2>2
<1>5. CASE k <= -1
  <2>1. PICK j \in Nat : k = -1 - j
    <3>1. -1 - k \in Nat /\ k = -1 - (-1 - k)
      BY <1>5
    <3> QED BY <3>1
  <2>2. k * m = -m - j * m /\ j * m \in Nat
    BY <2>1
  <2> QED BY <1>1, <1>2, <2>2
<1> QED BY <1>3, <1>4, <1>5

-----------------------------------------------------------------------------
(* Congruence modulo the prime. *)

Cong(a, b) == Same(a, b, PRIME_ORDER)

LEMMA Prime == PRIME_ORDER \in Nat /\ 1 < PRIME_ORDER
BY Constants

LEMMA CongReflexive == \A a \in Int : Cong(a, a)
BY Prime, SameReflexive DEF Cong

LEMMA CongSymmetric ==
    ASSUME NEW a \in Int, NEW b \in Int, Cong(a, b)
    PROVE  Cong(b, a)
BY Prime, SameSymmetric DEF Cong

LEMMA CongTransitive ==
    ASSUME NEW a \in Int, NEW b \in Int, NEW c \in Int, Cong(a, b), Cong(b, c)
    PROVE  Cong(a, c)
BY Prime, SameTransitive DEF Cong

LEMMA CongSum ==
    ASSUME NEW a \in Int, NEW b \in Int, NEW c \in Int, NEW d \in Int, Cong(a, b), Cong(c, d)
    PROVE  Cong(a + c, b + d)
BY Prime, SameSum DEF Cong

LEMMA CongNegated ==
    ASSUME NEW a \in Int, NEW b \in Int, Cong(a, b)
    PROVE  Cong(PRIME_ORDER * 2 - a, -b)
BY Prime, SameNegated DEF Cong

LEMMA CongProduct ==
    ASSUME NEW a \in Int, NEW b \in Int, NEW c \in Int, NEW d \in Int, Cong(a, b), Cong(c, d)
    PROVE  Cong(a * c, b * d)
BY Prime, SameProduct DEF Cong

LEMMA CongRemainder ==
    ASSUME NEW a \in Int
    PROVE  a % PRIME_ORDER \in Field /\ Cong(a % PRIME_ORDER, a)
BY Prime, SameRemainder DEF Cong, Field

LEMMA CongUnique ==
    ASSUME NEW a \in Field, NEW b \in Field, Cong(a, b)
    PROVE  a = b
BY Prime, SameUnique DEF Cong, Field

(* Folding takes the prime off as often as 2^N_BITS goes into the number. *)
LEMMA FoldCong ==
    ASSUME NEW v \in Nat
    PROVE  Fold(v) \in Int /\ Cong(Fold(v), v)
<1> DEFINE q == v \div TwoN
           r == v % TwoN
<1>1. q \in Nat /\ r \in Nat /\ v = TwoN * q + r
  BY Widths, Quotients
<1>2. Fold(v) = r + q + q * TwoOff
  BY DEF Fold
<1> HIDE DEF q, r
<1>3. r + q + q * TwoOff = v + (-q) * PRIME_ORDER /\ r + q + q * TwoOff \in Int
  BY <1>1, Widths, Constants
<1>4. -q \in Int
  BY <1>1
<1> QED BY <1>2, <1>3, <1>4 DEF Cong, Same

(* value is the element that a stored word is congruent to. *)
LEMMA ValueIsElement ==
    ASSUME NEW x \in Stored, NEW e \in Field, Cong(x, e)
    PROVE  value(x) = e
<1>1. x \in Nat /\ e \in Int
  BY Constants DEF Stored, Field
<1>2. Fold(x) \in 0..FULL_BITS_MASK /\ bit_reduce_once(x) = Fold(x)
  BY FoldOfStored
<1>3. Cong(Fold(x), e)
  BY <1>1, FoldCong, CongTransitive
<1>4. CASE Fold(x) < PRIME_ORDER
  <2>1. value(x) = Fold(x)
    BY <1>2, <1>4 DEF value, reduce_by_p
  <2>2. Fold(x) \in Field
    BY <1>2, <1>4, Constants, Widths DEF Field
  <2> QED BY <1>3, <2>1, <2>2, CongUnique
<1>5. CASE ~(Fold(x) < PRIME_ORDER)
  <2>1. value(x) = Fold(x) - PRIME_ORDER
    BY <1>2, <1>5 DEF value, reduce_by_p
  <2>2. Fold(x) - PRIME_ORDER \in Field
    BY <1>2, <1>5, Constants, Widths DEF Field
  <2>3. Cong(Fold(x) - PRIME_ORDER, e)
    <3>1. PICK k \in Int : Fold(x) = e + k * PRIME_ORDER
      BY <1>3 DEF Cong, Same
    <3>2. Fold(x) - PRIME_ORDER = e + (k - 1) * PRIME_ORDER /\ k - 1 \in Int
      BY <1>1, <3>1, Prime
    <3> QED BY <3>2 DEF Cong, Same
  <2> QED BY <2>1, <2>2, <2>3, CongUnique
<1> QED BY <1>4, <1>5

-----------------------------------------------------------------------------
(* Each operation computes the congruent result. *)

LEMMA NewCong ==
    ASSUME NEW v \in 0..(Word - 1)
    PROVE  new(v) \in Int /\ Cong(new(v), v)
<1>1. v \in Nat
  BY Constants
<1> QED BY <1>1, FoldOfWord, FoldCong

LEMMA AddCong ==
    ASSUME NEW x \in Stored, NEW y \in Stored, NEW a \in Int, NEW b \in Int, Cong(x, a), Cong(y, b)
    PROVE  Cong(add(x, y), a + b)
<1>1. x \in Int /\ y \in Int /\ x + y \in 0..(Word - 1)
  BY Constants, SumsFit DEF Stored
<1>2. (x + y) % Word = x + y
  BY <1>1, Constants
<1>3. new(x + y) \in Int /\ Cong(new(x + y), x + y)
  BY <1>1, NewCong
<1>4. Cong(x + y, a + b)
  BY <1>1, CongSum
<1>5. Cong(new(x + y), a + b)
  <2>1. x + y \in Int /\ a + b \in Int
    BY <1>1
  <2> QED BY <1>3, <1>4, <2>1, CongTransitive
<1> QED BY <1>2, <1>5 DEF add

LEMMA NegCong ==
    ASSUME NEW x \in Stored, NEW a \in Int, Cong(x, a)
    PROVE  Cong(neg(x), -a)
<1> DEFINE d == PRIME_ORDER * 2 - x
<1>1. x \in Int /\ d \in 0..(Word - 1) /\ d \in Int
  BY Constants, SumsFit DEF Stored
<1>2. Cong(d, -a)
  BY <1>1, CongNegated
<1>3. neg(x) = new(d % Word)
  BY DEF neg
<1> HIDE DEF d
<1>4. d % Word = d
  BY <1>1, Constants
<1>5. new(d) \in Int /\ Cong(new(d), d) /\ -a \in Int
  BY <1>1, NewCong
<1> QED BY <1>1, <1>2, <1>3, <1>4, <1>5, CongTransitive

LEMMA SubCong ==
    ASSUME NEW x \in Stored, NEW y \in Stored, NEW a \in Int, NEW b \in Int, Cong(x, a), Cong(y, b)
    PROVE  Cong(sub(x, y), a - b)
<1>1. Cong(neg(y), -b) /\ neg(y) \in Stored /\ -b \in Int
  BY NegCong, OperationsStored
<1>2. Cong(add(x, neg(y)), a + (-b))
  BY <1>1, AddCong
<1>3. a + (-b) = a - b
  OBVIOUS
<1> QED BY <1>2, <1>3 DEF sub

LEMMA MulCong ==
    ASSUME NEW x \in Stored, NEW y \in Stored, NEW a \in Int, NEW b \in Int, Cong(x, a), Cong(y, b)
    PROVE  Cong(mul(x, y), a * b)
<1> DEFINE p == x * y
           f == FoldedProduct(x, y)
<1>1. x \in Int /\ y \in Int
  BY Constants DEF Stored
<1>2. p \in Nat /\ Fold(p) \in Nat /\ a * b \in Int
  <2>1. x * y \in Nat /\ x * y < TwoN * ((TwoN + 6 * TwoOff + 8) + 1)
    BY ProductBound
  <2>2. TwoN + 6 * TwoOff + 8 \in Nat
    BY Widths
  <2> QED BY <2>1, <2>2, FoldBound
<1>3. Cong(p, a * b)
  BY <1>1, CongProduct
<1>4. f = Fold(Fold(p)) /\ mul(x, y) = new(f) /\ f \in 0..(Word - 1)
  BY ProductFits DEF mul, FoldedProduct
<1>5. new(f) \in Int /\ Cong(new(f), f)
  BY <1>4, NewCong
<1> HIDE DEF p, f
<1>6. Cong(Fold(p), p) /\ Cong(Fold(Fold(p)), Fold(p)) /\ Fold(Fold(p)) \in Int
  BY <1>2, FoldCong
<1>7. Cong(Fold(p), a * b)
  <2>1. Fold(p) \in Int /\ p \in Int
    BY <1>2
  <2> QED BY <1>2, <1>3, <1>6, <2>1, CongTransitive
<1>8. Cong(f, a * b) /\ f \in Int
  <2>1. Fold(p) \in Int
    BY <1>2
  <2> QED BY <1>2, <1>4, <1>6, <1>7, <2>1, CongTransitive
<1> QED BY <1>2, <1>4, <1>5, <1>8, CongTransitive

LEMMA DrawCong ==
    ASSUME NEW w \in 0..(Word - 1), from_u64_unbiased(w) # NoFE
    PROVE  from_u64_unbiased(w) \in Int /\ Cong(from_u64_unbiased(w), w % TwoN)
<1>1. w \in Nat /\ w % TwoN \in Int
  BY Constants, Widths, Quotients
<1> QED BY <1>1, DrawStored, CongReflexive

-----------------------------------------------------------------------------
(* The registers. *)

LEMMA SetTyped ==
    ASSUME TypeOK, NEW r \in Register, NEW v \in Stored, NEW e \in Int, Set(r, v, e)
    PROVE  TypeOK'
<1>1. e % PRIME_ORDER \in Field
  BY CongRemainder
<1> QED BY <1>1 DEF TypeOK, Set, Stored

LEMMA RegistersTyped ==
    ASSUME TypeOK
    PROVE  /\ "self" \in Register /\ "rhs" \in Register
           /\ \A r \in Register : val[r] \in Stored /\ elem[r] \in Field /\ elem[r] \in Int
<1>1. \A e \in Field : e \in Int
  BY Prime DEF Field
<1> QED BY <1>1 DEF TypeOK, Stored, Register

LEMMA QuotientTyped ==
    ASSUME NEW a \in Field, NEW b \in Field
    PROVE  Quotient(a, b) \in Field
<1>1. 0 \in Field
  BY Prime DEF Field
<1>2. CASE b # 0
  <2>1. \E q \in Field : (q * b) % PRIME_ORDER = a
    BY <1>2, PrimeAssumption
  <2> QED BY <1>2, <2>1 DEF Quotient
<1> QED BY <1>1, <1>2 DEF Quotient

LEMMA InitTyped == FEInit => TypeOK
<1>1. 0 \in Field /\ 0 \in 0..FE_VAL_MAX
  BY Constants DEF Field
<1> QED BY <1>1 DEF FEInit, TypeOK

LEMMA RingTyped == TypeOK /\ RingNext => TypeOK'
<1> SUFFICES ASSUME TypeOK, RingNext PROVE TypeOK'
  OBVIOUS
<1> DEFINE x == val["self"]
           y == val["rhs"]
           a == elem["self"]
           b == elem["rhs"]
<1>0. /\ "self" \in Register /\ "rhs" \in Register
      /\ x \in Stored /\ y \in Stored /\ a \in Int /\ b \in Int
  BY RegistersTyped
<1>01. a + b \in Int /\ -a \in Int /\ a - b \in Int /\ a * b \in Int
  <2> HIDE DEF a, b
  <2> QED BY <1>0
<1>1. ASSUME NEW w \in 0..(Word - 1), New(w) PROVE TypeOK'
  <2>1. new(w) \in Stored /\ w \in Int
    BY FoldOfWord, Constants
  <2> QED BY <1>0, <1>1, <2>1, SetTyped DEF New
<1>2. ASSUME NEW w \in 0..(Word - 1), Draw(w) PROVE TypeOK'
  <2>1. from_u64_unbiased(w) \in Stored /\ w % TwoN \in Int
    BY <1>2, DrawStored, Constants, Widths, Quotients DEF Draw
  <2> QED BY <1>0, <1>2, <2>1, SetTyped DEF Draw
<1>3. CASE FEAdd
  <2>1. add(x, y) \in Stored /\ a + b \in Int
    <3> HIDE DEF x, y, a, b
    <3> QED BY <1>0, <1>01, OperationsStored
  <2> QED BY <1>0, <1>3, <2>1, SetTyped DEF FEAdd
<1>4. CASE FENeg
  <2>1. neg(x) \in Stored /\ -a \in Int
    <3> HIDE DEF x, y, a, b
    <3> QED BY <1>0, <1>01, OperationsStored
  <2> QED BY <1>0, <1>4, <2>1, SetTyped DEF FENeg
<1>5. CASE FESub
  <2>1. sub(x, y) \in Stored /\ a - b \in Int
    <3> HIDE DEF x, y, a, b
    <3> QED BY <1>0, <1>01, OperationsStored
  <2> QED BY <1>0, <1>5, <2>1, SetTyped DEF FESub
<1>6. CASE FEMul
  <2>1. mul(x, y) \in Stored /\ a * b \in Int
    <3> HIDE DEF x, y, a, b
    <3> QED BY <1>0, <1>01, OperationsStored
  <2> QED BY <1>0, <1>6, <2>1, SetTyped DEF FEMul
<1>7. CASE CopyToRhs
  BY <1>0, <1>7, SetTyped DEF CopyToRhs
<1> QED BY <1>1, <1>2, <1>3, <1>4, <1>5, <1>6, <1>7 DEF RingNext

LEMMA DivisionTyped == TypeOK /\ (FEDiv \/ FERem) => TypeOK'
<1> SUFFICES ASSUME TypeOK, FEDiv \/ FERem PROVE TypeOK'
  OBVIOUS
<1> DEFINE q == Quotient(elem["self"], elem["rhs"])
<1>1. "self" \in Register /\ elem["self"] \in Int /\ q \in Field
  BY RegistersTyped, QuotientTyped
<1>2. q \in Int /\ elem["self"] - q \in Int
  BY <1>1, Prime DEF Field
<1>3. /\ div(val["self"], val["rhs"]) \in Stored
      /\ rem(val["self"], val["rhs"]) \in Stored
  BY RegistersTyped, DivisionStored
<1>4. CASE FEDiv
  BY <1>1, <1>2, <1>3, <1>4, SetTyped DEF FEDiv
<1>5. CASE FERem
  BY <1>1, <1>2, <1>3, <1>5, SetTyped DEF FERem
<1> QED BY <1>4, <1>5

(* Whatever is done to them, divisions included, the registers hold words of the
   stored range (the comment on struct FE). *)
THEOREM RangeKept == FESpec => []TypeOK
<1>1. FEInit => TypeOK
  BY InitTyped
<1>2. TypeOK /\ [FENext]_feVars => TypeOK'
  <2>1. ASSUME TypeOK, UNCHANGED feVars PROVE TypeOK'
    BY <2>1 DEF TypeOK, feVars
  <2> QED BY <2>1, RingTyped, DivisionTyped DEF FENext
<1> QED BY <1>1, <1>2, PTL DEF FESpec

LEMMA TypedFits == TypeOK => NeverWraps
<1> SUFFICES ASSUME TypeOK PROVE NeverWraps
  OBVIOUS
<1> DEFINE x == val["self"]
           y == val["rhs"]
<1>1. x \in Stored /\ y \in Stored
  BY RegistersTyped
<1> HIDE DEF x, y
<1>2. x + y \in 0..(Word - 1) /\ PRIME_ORDER * 2 - x \in 0..(Word - 1)
  BY <1>1, SumsFit
<1>3. x + y < Word
  BY <1>2, Constants
<1>4. x * y < Word * Word /\ bit_reduce_once(x) < PRIME_ORDER * 2
  BY <1>1, ProductBound, SumsFit
<1>5. FoldedProduct(x, y) \in 0..(Word - 1)
  BY <1>1, ProductFits
<1>6. FoldedProduct(x, y) < Word
  BY <1>5, Constants
<1>7. Fold(x) <= FULL_BITS_MASK
  BY <1>1, FoldOfStored, Constants
<1>8. \A v \in 0..(Word - 1) : Fold(v) <= FE_VAL_MAX
  BY FoldOfWord, Constants DEF Stored
<1>9. \A v \in {x + y, PRIME_ORDER * 2 - x, FoldedProduct(x, y)} : Fold(v) <= FE_VAL_MAX
  BY <1>2, <1>5, <1>8
<1> QED BY <1>3, <1>2, <1>4, <1>6, <1>7, <1>9 DEF NeverWraps, x, y

(* Nothing is cut off by a machine word, for every width and offset: the
   debug_asserts on ranges in fastfield.rs never fire. *)
THEOREM NothingWraps == FESpec => []NeverWraps
BY RangeKept, TypedFits, PTL

-----------------------------------------------------------------------------
(* Without division, a register is congruent to its element. *)

Exact == \A r \in Register : Cong(val[r], elem[r])

LEMMA SetExact ==
    ASSUME TypeOK, Exact, NEW r \in Register, NEW v \in Stored, NEW e \in Int,
           Cong(v, e), Set(r, v, e)
    PROVE  Exact'
<1>1. e % PRIME_ORDER \in Int /\ Cong(e, e % PRIME_ORDER) /\ v \in Int
  <2>1. e % PRIME_ORDER \in Int /\ v \in Int
    BY CongRemainder, Constants, Prime DEF Field, Stored
  <2> QED BY <2>1, CongRemainder, CongSymmetric
<1>2. Cong(v, e % PRIME_ORDER)
  BY <1>1, CongTransitive
<1>3. ASSUME NEW s \in Register PROVE Cong(val'[s], elem'[s])
  <2>1. CASE s = r
    <3>1. val'[s] = v /\ elem'[s] = e % PRIME_ORDER
      BY <2>1 DEF Set, TypeOK
    <3> QED BY <1>2, <3>1
  <2>2. CASE s # r
    <3>1. val'[s] = val[s] /\ elem'[s] = elem[s]
      BY <2>2 DEF Set, TypeOK
    <3> QED BY <3>1 DEF Exact
  <2> QED BY <2>1, <2>2
<1> QED BY <1>3 DEF Exact, Cong, Same

LEMMA RingExact == TypeOK /\ Exact /\ RingNext => Exact'
<1> SUFFICES ASSUME TypeOK, Exact, RingNext PROVE Exact'
  OBVIOUS
<1> DEFINE x == val["self"]
           y == val["rhs"]
           a == elem["self"]
           b == elem["rhs"]
<1>0. /\ "self" \in Register /\ "rhs" \in Register
      /\ x \in Stored /\ y \in Stored /\ a \in Int /\ b \in Int
      /\ Cong(x, a) /\ Cong(y, b)
  BY RegistersTyped DEF Exact
<1>01. a + b \in Int /\ -a \in Int /\ a - b \in Int /\ a * b \in Int
  <2> HIDE DEF a, b
  <2> QED BY <1>0
<1>1. ASSUME NEW w \in 0..(Word - 1), New(w) PROVE Exact'
  <2>1. new(w) \in Stored /\ w \in Int /\ Cong(new(w), w)
    BY FoldOfWord, NewCong, Constants
  <2> QED BY <1>0, <1>1, <2>1, SetExact DEF New
<1>2. ASSUME NEW w \in 0..(Word - 1), Draw(w) PROVE Exact'
  <2>1. from_u64_unbiased(w) \in Stored /\ w % TwoN \in Int
    BY <1>2, DrawStored, Constants, Widths, Quotients DEF Draw
  <2>2. Cong(from_u64_unbiased(w), w % TwoN)
    BY <1>2, DrawCong DEF Draw
  <2> QED BY <1>0, <1>2, <2>1, <2>2, SetExact DEF Draw
<1>3. CASE FEAdd
  <2>1. add(x, y) \in Stored /\ a + b \in Int /\ Cong(add(x, y), a + b)
    <3> HIDE DEF x, y, a, b
    <3> QED BY <1>0, <1>01, OperationsStored, AddCong
  <2> QED BY <1>0, <1>3, <2>1, SetExact DEF FEAdd
<1>4. CASE FENeg
  <2>1. neg(x) \in Stored /\ -a \in Int /\ Cong(neg(x), -a)
    <3> HIDE DEF x, y, a, b
    <3> QED BY <1>0, <1>01, OperationsStored, NegCong
  <2> QED BY <1>0, <1>4, <2>1, SetExact DEF FENeg
<1>5. CASE FESub
  <2>1. sub(x, y) \in Stored /\ a - b \in Int /\ Cong(sub(x, y), a - b)
    <3> HIDE DEF x, y, a, b
    <3> QED BY <1>0, <1>01, OperationsStored, SubCong
  <2> QED BY <1>0, <1>5, <2>1, SetExact DEF FESub
<1>6. CASE FEMul
  <2>1. mul(x, y) \in Stored /\ a * b \in Int /\ Cong(mul(x, y), a * b)
    <3> HIDE DEF x, y, a, b
    <3> QED BY <1>0, <1>01, OperationsStored, MulCong
  <2> QED BY <1>0, <1>6, <2>1, SetExact DEF FEMul
<1>7. CASE CopyToRhs
  BY <1>0, <1>7, SetExact DEF CopyToRhs
<1> QED BY <1>1, <1>2, <1>3, <1>4, <1>5, <1>6, <1>7 DEF RingNext

LEMMA InitExact == FEInit => Exact
<1>1. Cong(0, 0)
  BY CongReflexive
<1> QED BY <1>1 DEF FEInit, Exact

LEMMA ExactValue == TypeOK /\ Exact => ValueExact
<1> SUFFICES ASSUME TypeOK, Exact PROVE ValueExact
  OBVIOUS
<1>1. \A r \in Register : value(val[r]) = elem[r]
  BY RegistersTyped, ValueIsElement DEF Exact
<1> QED BY <1>1, RegistersTyped DEF ValueExact, eq, lt

(* Any sequence of draws, sums, differences, negations and products leaves the
   exact element behind value(), and so comparisons of stored words compare
   elements, for every width and offset. *)
THEOREM RingOperationsExact == RingSpec => []ValueExact
<1>1. FEInit => TypeOK /\ Exact
  BY InitTyped, InitExact
<1>2. TypeOK /\ Exact /\ [RingNext]_feVars => TypeOK' /\ Exact'
  <2>1. ASSUME TypeOK, Exact, UNCHANGED feVars PROVE TypeOK' /\ Exact'
    BY <2>1 DEF TypeOK, Exact, feVars, Cong, Same
  <2> QED BY <2>1, RingTyped, RingExact
<1>3. TypeOK /\ Exact => ValueExact
  BY ExactValue
<1> QED BY <1>1, <1>2, <1>3, PTL DEF RingSpec

-----------------------------------------------------------------------------
(* Draws.  Four words have each element in their low N_BITS bits. *)

DrawnAs(e) == {w \in 0..(Word - 1) : from_u64_unbiased(w) # NoFE
                                        /\ value(from_u64_unbiased(w)) = e}

LEMMA DrawnWords ==
    ASSUME NEW e \in Field
    PROVE  DrawnAs(e) = {e, e + TwoN, e + 2 * TwoN, e + 3 * TwoN}
<1>1. e \in Nat /\ e < PRIME_ORDER /\ e < TwoN /\ TwoN \in Nat /\ 0 < TwoN
  BY Widths, Constants DEF Field
<1>2. \A x \in Field : x \in Stored /\ value(x) = x
  <2> TAKE x \in Field
  <2>1. x \in Int /\ x \in Stored
    BY Widths, Constants DEF Field, Stored
  <2> QED BY <2>1, CongReflexive, ValueIsElement
<1>3. ASSUME NEW w \in 0..(Word - 1) PROVE w \in DrawnAs(e) <=> w % TwoN = e
  <2>1. w \in Nat /\ w % TwoN \in Nat
    BY <1>1, Constants, Quotients
  <2>2. CASE w % TwoN < PRIME_ORDER
    <3>1. from_u64_unbiased(w) = w % TwoN /\ w % TwoN # NoFE
      BY <2>1, <2>2 DEF from_u64_unbiased, from_reduced, NoFE
    <3>2. w % TwoN \in Field
      BY <2>1, <2>2, Constants DEF Field
    <3> QED BY <1>2, <3>1, <3>2 DEF DrawnAs
  <2>3. CASE ~(w % TwoN < PRIME_ORDER)
    <3>1. from_u64_unbiased(w) = NoFE
      BY <2>3 DEF from_u64_unbiased, from_reduced
    <3> QED BY <1>1, <2>3, <3>1 DEF DrawnAs
  <2> QED BY <2>2, <2>3
<1>4. ASSUME NEW n \in Nat, 0 < n, NEW w \in 0..(4 * n - 1), NEW c \in 0..(n - 1)
      PROVE  w % n = c <=> w \in {c, c + n, c + 2 * n, c + 3 * n}
  BY <1>4
<1>5. e \in 0..(TwoN - 1) /\ Word = 4 * TwoN
  BY <1>1, Constants
<1>6. ASSUME NEW w \in 0..(Word - 1)
      PROVE  w \in DrawnAs(e) <=> w \in {e, e + TwoN, e + 2 * TwoN, e + 3 * TwoN}
  BY <1>1, <1>3, <1>4, <1>5
<1>7. {e, e + TwoN, e + 2 * TwoN, e + 3 * TwoN} \subseteq 0..(Word - 1)
  BY <1>1, <1>5
<1>8. DrawnAs(e) \subseteq 0..(Word - 1)
  BY DEF DrawnAs
<1> QED BY <1>6, <1>7, <1>8

LEMMA FourElements ==
    ASSUME NEW a, NEW b, NEW c, NEW d, a # b, a # c, a # d, b # c, b # d, c # d
    PROVE  Cardinality({a, b, c, d}) = 4
<1>1. IsFiniteSet({a}) /\ Cardinality({a}) = 1
  BY FS_Singleton
<1>2. IsFiniteSet({a, b}) /\ Cardinality({a, b}) = 2
  <2>1. {a, b} = {a} \cup {b} /\ b \notin {a}
    OBVIOUS
  <2> QED BY <1>1, <2>1, FS_AddElement
<1>3. IsFiniteSet({a, b, c}) /\ Cardinality({a, b, c}) = 3
  <2>1. {a, b, c} = {a, b} \cup {c} /\ c \notin {a, b}
    OBVIOUS
  <2> QED BY <1>2, <2>1, FS_AddElement
<1>4. {a, b, c, d} = {a, b, c} \cup {d} /\ d \notin {a, b, c}
  OBVIOUS
<1> QED BY <1>3, <1>4, FS_AddElement

LEMMA DrawsFromType == TypeOK => DrawsUnbiased
<1> SUFFICES ASSUME TypeOK PROVE DrawsUnbiased
  OBVIOUS
<1> DEFINE e == elem["self"]
<1>1. e \in Field
  BY RegistersTyped
<1> HIDE DEF e
<1>2. e \in Nat /\ TwoN \in Nat /\ 0 < TwoN /\ Word = 4 * TwoN
  BY <1>1, Widths, Constants DEF Field
<1>3. Cardinality({e, e + TwoN, e + 2 * TwoN, e + 3 * TwoN}) = 4
  <2>1. /\ e # e + TwoN /\ e # e + 2 * TwoN /\ e # e + 3 * TwoN
        /\ e + TwoN # e + 2 * TwoN /\ e + TwoN # e + 3 * TwoN
        /\ e + 2 * TwoN # e + 3 * TwoN
    BY <1>2
  <2>2. ASSUME NEW a, NEW b, NEW c, a = e + TwoN, b = e + 2 * TwoN, c = e + 3 * TwoN
        PROVE  Cardinality({e, a, b, c}) = 4
    <3>1. e # a /\ e # b /\ e # c /\ a # b /\ a # c /\ b # c
      BY <2>1, <2>2
    <3> QED BY <3>1, FourElements, Zenon
  <2> QED BY <2>2
<1>4. DrawCount[e] = Cardinality(DrawnAs(e))
  BY <1>1, Zenon DEF DrawCount, DrawnAs
<1>5. Word \div TwoN = 4
  <2>1. ASSUME NEW n \in Nat, 0 < n PROVE (4 * n) \div n = 4
    BY <2>1
  <2> QED BY <1>2, <2>1
<1>6. DrawCount[e] = Word \div TwoN
  BY <1>1, <1>3, <1>4, <1>5, DrawnWords
<1> QED BY <1>6 DEF DrawsUnbiased, e

(* Each element is drawn for exactly four words, for every width and offset:
   uniform words give uniform elements (from_u64_unbiased). *)
THEOREM DrawsFair == FESpec => []DrawsUnbiased
BY RangeKept, DrawsFromType, PTL

-----------------------------------------------------------------------------
(* The three types.  Canonical words are what an operation that reduces returns,
   raw words what may be stored, and loose words what lazy operations return. *)

Canonical == IF type = "FE" THEN Stored ELSE 0..(Modulus - 1)
Loose == IF type = "FieldElm" THEN Nat ELSE Raw

\* x is one of the words S, and stands for a.
Stands(S, x, a) == x \in S /\ a \in Int /\ Same(x, a, Order)

LEMMA OrderType ==
    ASSUME type \in Type
    PROVE  /\ Order \in Nat /\ 1 < Order /\ Modulus \in Nat /\ 1 < Modulus
           /\ type = "FE" => Order = PRIME_ORDER
           /\ type # "FE" => Order = Modulus
           /\ \A a, b : Cong(a, b) <=> Same(a, b, PRIME_ORDER)
BY ModulusAssumption, Prime DEF Order, Cong

LEMMA WordTypes ==
    ASSUME type \in Type
    PROVE  /\ Elem \subseteq Canonical /\ Canonical \subseteq Raw /\ Raw \subseteq Loose
           /\ Loose \subseteq Nat
           /\ 0..(Order - 1) \subseteq Canonical
           /\ 0 \in Canonical
           /\ type = "FE" => Canonical = Stored /\ Raw = Stored /\ Loose = Stored
           /\ type = "u64" => /\ Canonical = 0..(Modulus - 1) /\ Raw = 0..(Modulus - 1)
                              /\ Loose = 0..(Modulus - 1)
           /\ type = "FieldElm" => /\ Canonical = 0..(Modulus - 1) /\ Raw = 0..Modulus
                                   /\ Loose = Nat
<1>1. type = "FE" => Canonical = Stored /\ Raw = Stored /\ Loose = Stored
  BY DEF Canonical, Raw, Loose, Stored
<1>2. type = "u64" => /\ Canonical = 0..(Modulus - 1) /\ Raw = 0..(Modulus - 1)
                      /\ Loose = 0..(Modulus - 1)
  BY DEF Canonical, Raw, Loose
<1>3. type = "FieldElm" => Canonical = 0..(Modulus - 1) /\ Raw = 0..Modulus /\ Loose = Nat
  BY DEF Canonical, Raw, Loose
<1>4. type = "FE" => Elem \subseteq Field /\ Field \subseteq Stored /\ Stored \subseteq Nat
                     /\ 0..(Order - 1) = Field /\ 0 \in Stored
  BY ModulusAssumption, Widths, Constants DEF Elem, Field, Stored, Order
<1>5. type # "FE" => Elem = 0..(Modulus - 1) /\ Order = Modulus
  BY DEF Elem, Order
<1>6. CASE type = "FE"
  BY <1>1, <1>4, <1>6
<1>7. CASE type = "u64"
  BY <1>2, <1>5, <1>7, OrderType
<1>8. CASE type = "FieldElm"
  BY <1>3, <1>5, <1>8, OrderType
<1> QED BY <1>6, <1>7, <1>8 DEF Type

(* A word stands for itself, and a canonical one may be stored. *)
LEMMA StandsForItself ==
    ASSUME type \in Type, NEW S, S \subseteq Loose, NEW x \in S
    PROVE  Stands(S, x, x)
<1>1. x \in Int
  BY WordTypes
<1> QED BY <1>1, OrderType, SameReflexive DEF Stands

LEMMA Wider ==
    ASSUME type \in Type, NEW x, NEW a
    PROVE  /\ Stands(Canonical, x, a) => Stands(Raw, x, a)
           /\ Stands(Raw, x, a) => Stands(Loose, x, a)
           /\ Stands(Canonical, x, a) => Stands(Loose, x, a)
BY WordTypes DEF Stands

(* What stands for a stands for whatever a is congruent to. *)
LEMMA StandsFor ==
    ASSUME type \in Type, NEW S, S \subseteq Loose, NEW x, NEW a, NEW b \in Int,
           Stands(S, x, a), Same(a, b, Order)
    PROVE  Stands(S, x, b)
<1>1. x \in Int /\ a \in Int /\ x \in S /\ Same(x, a, Order)
  BY WordTypes DEF Stands
<1> QED BY <1>1, OrderType, SameTransitive DEF Stands

LEMMA ReduceStands ==
    ASSUME type \in Type, type # "FE", NEW x \in Nat, NEW a \in Int, Same(x, a, Order)
    PROVE  Stands(Canonical, x % Modulus, a)
<1>1. x % Modulus \in 0..(Modulus - 1) /\ Same(x % Modulus, x, Modulus) /\ Order = Modulus
  BY OrderType, SameRemainder
<1>2. x % Modulus \in Int /\ x \in Int
  BY <1>1
<1>3. Same(x % Modulus, a, Order)
  BY <1>1, <1>2, OrderType, SameTransitive
<1>4. Canonical = 0..(Modulus - 1)
  BY DEF Canonical
<1> QED BY <1>1, <1>3, <1>4 DEF Stands

LEMMA AddStands ==
    ASSUME type \in Type, NEW x, NEW y, NEW a, NEW b, Stands(Loose, x, a), Stands(Loose, y, b)
    PROVE  Stands(Canonical, Add(x, y), a + b)
<1>1. /\ x \in Loose /\ y \in Loose /\ x \in Nat /\ y \in Nat /\ a \in Int /\ b \in Int
      /\ Same(x, a, Order) /\ Same(y, b, Order)
  BY WordTypes DEF Stands
<1>2. a + b \in Int
  BY <1>1
<1>3. CASE type = "FE"
  <2>1. x \in Stored /\ y \in Stored /\ Cong(x, a) /\ Cong(y, b) /\ Canonical = Stored
    BY <1>1, <1>3, WordTypes, OrderType
  <2>2. add(x, y) \in Stored /\ Cong(add(x, y), a + b)
    BY <1>1, <2>1, OperationsStored, AddCong
  <2> QED BY <1>2, <1>3, <2>1, <2>2, OrderType DEF Add, Stands
<1>4. CASE type # "FE"
  <2>1. x + y \in Nat /\ Same(x + y, a + b, Order)
    BY <1>1, OrderType, SameSum
  <2>2. Stands(Canonical, (x + y) % Modulus, a + b)
    BY <1>2, <1>4, <2>1, ReduceStands
  <2> QED BY <1>4, <2>2 DEF Add
<1> QED BY <1>3, <1>4

LEMMA MulStands ==
    ASSUME type \in Type, NEW x, NEW y, NEW a, NEW b, Stands(Loose, x, a), Stands(Loose, y, b)
    PROVE  Stands(Canonical, Mul(x, y), a * b)
<1>1. /\ x \in Loose /\ y \in Loose /\ x \in Nat /\ y \in Nat /\ a \in Int /\ b \in Int
      /\ Same(x, a, Order) /\ Same(y, b, Order)
  BY WordTypes DEF Stands
<1>2. a * b \in Int
  BY <1>1
<1>3. CASE type = "FE"
  <2>1. x \in Stored /\ y \in Stored /\ Cong(x, a) /\ Cong(y, b) /\ Canonical = Stored
    BY <1>1, <1>3, WordTypes, OrderType
  <2>2. mul(x, y) \in Stored /\ Cong(mul(x, y), a * b)
    BY <1>1, <2>1, OperationsStored, MulCong
  <2> QED BY <1>2, <1>3, <2>1, <2>2, OrderType DEF Mul, Stands
<1>4. CASE type # "FE"
  <2>1. x * y \in Nat /\ Same(x * y, a * b, Order)
    BY <1>1, OrderType, SameProduct
  <2>2. Stands(Canonical, (x * y) % Modulus, a * b)
    BY <1>2, <1>4, <2>1, ReduceStands
  <2> QED BY <1>4, <2>2 DEF Mul
<1> QED BY <1>3, <1>4

LEMMA LazyStands ==
    ASSUME type \in Type, NEW x, NEW y, NEW a, NEW b, Stands(Loose, x, a), Stands(Loose, y, b)
    PROVE  /\ Stands(Loose, AddLazy(x, y), a + b)
           /\ Stands(Loose, MulLazy(x, y), a * b)
<1>1. CASE type = "FieldElm"
  <2>1. x \in Nat /\ y \in Nat /\ a \in Int /\ b \in Int /\ Loose = Nat
        /\ Same(x, a, Order) /\ Same(y, b, Order)
    BY <1>1, WordTypes DEF Stands
  <2>2. x + y \in Nat /\ a + b \in Int /\ Same(x + y, a + b, Order)
    BY <2>1, OrderType, SameSum
  <2>3. x * y \in Nat /\ a * b \in Int /\ Same(x * y, a * b, Order)
    BY <2>1, OrderType, SameProduct
  <2>4. AddLazy(x, y) = x + y /\ MulLazy(x, y) = x * y
    BY <1>1 DEF AddLazy, MulLazy
  <2> QED BY <2>1, <2>2, <2>3, <2>4 DEF Stands
<1>2. CASE type # "FieldElm"
  <2>1. AddLazy(x, y) = Add(x, y) /\ MulLazy(x, y) = Mul(x, y)
    BY <1>2 DEF AddLazy, MulLazy
  <2>2. Stands(Canonical, Add(x, y), a + b) /\ Stands(Canonical, Mul(x, y), a * b)
    BY AddStands, MulStands
  <2> QED BY <2>1, <2>2, Wider
<1> QED BY <1>1, <1>2

LEMMA ReducedStands ==
    ASSUME type \in Type, NEW x, NEW a, Stands(Loose, x, a)
    PROVE  Stands(Canonical, Reduce(x), a)
<1>1. x \in Nat /\ a \in Int /\ Same(x, a, Order)
  BY WordTypes DEF Stands
<1>2. CASE type = "FieldElm"
  BY <1>1, <1>2, ReduceStands DEF Reduce
<1>3. CASE type # "FieldElm"
  <2>1. Loose = Canonical /\ Reduce(x) = x
    BY <1>3, WordTypes DEF Type, Reduce
  <2> QED BY <2>1
<1> QED BY <1>2, <1>3

LEMMA NegateStands ==
    ASSUME type \in Type, NEW x, NEW a, Stands(Raw, x, a)
    PROVE  Stands(Raw, Negate(x), -a)
<1>1. x \in Nat /\ x \in Raw /\ a \in Int /\ -a \in Int /\ Same(x, a, Order)
  BY WordTypes DEF Stands
<1>2. CASE type = "FE"
  <2>1. x \in Stored /\ Cong(x, a) /\ Raw = Stored
    BY <1>1, <1>2, WordTypes, OrderType
  <2>2. neg(x) \in Stored /\ Cong(neg(x), -a)
    BY <1>1, <2>1, OperationsStored, NegCong
  <2>3. Negate(x) = neg(x)
    BY <1>2 DEF Negate
  <2> QED BY <1>1, <1>2, <2>1, <2>2, <2>3, OrderType DEF Stands
<1>3. CASE type # "FE"
  <2>1. x \in 0..Modulus /\ Order = Modulus
    BY <1>1, <1>3, WordTypes, OrderType DEF Type
  <2>2. Modulus - x \in Nat /\ Modulus - x \in 0..Modulus
    BY <2>1, OrderType
  <2>3. Same(Modulus - x, -a, Order)
    <3>1. x \in Int /\ Same(x, a, Modulus)
      BY <1>1, <2>1
    <3>2. Same(Modulus - x, -a, Modulus)
      BY <1>1, <3>1, OrderType, SameNegated
    <3> QED BY <2>1, <3>2
  <2>4. CASE type = "u64"
    <3>1. Stands(Canonical, (Modulus - x) % Modulus, -a)
      BY <1>1, <1>3, <2>2, <2>3, ReduceStands
    <3>2. Negate(x) = (Modulus - x) % Modulus
      BY <2>4 DEF Negate
    <3> QED BY <3>1, <3>2, Wider
  <2>5. CASE type = "FieldElm"
    <3>1. Negate(x) = Modulus - x
      BY <2>5 DEF Negate
    <3> QED BY <1>1, <2>2, <2>3, <2>5, <3>1, WordTypes DEF Stands
  <2> QED BY <1>3, <2>4, <2>5 DEF Type
<1> QED BY <1>2, <1>3

(* A difference of two stored words, the larger first or not. *)
LEMMA SubStands ==
    ASSUME type \in Type, NEW x, NEW y, NEW a, NEW b, Stands(Raw, x, a), Stands(Raw, y, b)
    PROVE  Stands(Raw, Sub(x, y), a - b)
<1>1. /\ x \in Nat /\ y \in Nat /\ x \in Raw /\ y \in Raw
      /\ a \in Int /\ b \in Int /\ a - b \in Int /\ -b \in Int /\ a + (-b) = a - b
      /\ Same(x, a, Order) /\ Same(y, b, Order)
  BY WordTypes DEF Stands
<1>2. CASE type = "FE"
  <2>1. x \in Stored /\ y \in Stored /\ Cong(x, a) /\ Cong(y, b) /\ Raw = Stored
    BY <1>1, <1>2, WordTypes, OrderType
  <2>2. sub(x, y) \in Stored /\ Cong(sub(x, y), a - b)
    BY <1>1, <2>1, OperationsStored, SubCong
  <2>3. Sub(x, y) = sub(x, y)
    BY <1>2 DEF Sub
  <2> QED BY <1>1, <1>2, <2>1, <2>2, <2>3, OrderType DEF Stands
<1>3. CASE type = "u64"
  <2>1. Stands(Raw, Negate(y), -b)
    BY NegateStands
  <2>2. Stands(Canonical, Add(x, Negate(y)), a + (-b))
    BY <2>1, AddStands, Wider
  <2>3. Sub(x, y) = Add(x, Negate(y))
    BY <1>3 DEF Sub
  <2> QED BY <1>1, <2>2, <2>3, Wider
<1>4. CASE type = "FieldElm"
  <2>1. x \in 0..Modulus /\ y \in 0..Modulus /\ Order = Modulus /\ Raw = 0..Modulus
    BY <1>1, <1>4, WordTypes, OrderType
  <2>2. Same(x - y, a - b, Order)
    <3>1. Same(-y, -b, Modulus)
      <4>1. y \in Int /\ Same(y, b, Modulus)
        BY <1>1, <2>1
      <4> QED BY <1>1, <4>1, OrderType, SameNegated
    <3>2. -y \in Int
      BY <1>1
    <3>3. Same(x + (-y), a + (-b), Modulus)
      BY <1>1, <2>1, <3>1, <3>2, OrderType, SameSum
    <3>4. x + (-y) = x - y
      BY <1>1
    <3> QED BY <1>1, <2>1, <3>3, <3>4
  <2>3. CASE x < y
    <3>1. Sub(x, y) = x + Modulus - y
      BY <1>4, <2>3 DEF Sub
    <3>2. x + Modulus - y \in 0..Modulus
      BY <2>1, <2>3, OrderType
    <3>3. Same(x + Modulus - y, x - y, Modulus)
      <4>1. x + Modulus - y = (x - y) + 1 * Modulus
        BY <1>1, OrderType
      <4> QED BY <4>1 DEF Same
    <3>4. Same(x + Modulus - y, a - b, Modulus)
      <4>1. x + Modulus - y \in Int /\ x - y \in Int
        BY <1>1, OrderType
      <4> QED BY <1>1, <2>1, <2>2, <3>3, <4>1, OrderType, SameTransitive
    <3> QED BY <1>1, <2>1, <3>1, <3>2, <3>4 DEF Stands
  <2>4. CASE ~(x < y)
    <3>1. Sub(x, y) = x - y
      BY <1>4, <2>4 DEF Sub
    <3>2. x - y \in 0..Modulus
      BY <2>1, <2>4, OrderType
    <3> QED BY <1>1, <2>1, <2>2, <3>1, <3>2 DEF Stands
  <2> QED BY <2>3, <2>4
<1> QED BY <1>2, <1>3, <1>4 DEF Type

(* Shares that are opened are canonical, and compare as the element. *)
LEMMA OpenedStands ==
    ASSUME type \in Type, NEW x, NEW y, NEW a, NEW b, Stands(Loose, x, a), Stands(Loose, y, b)
    PROVE  Stands(Canonical, Opened(x, y), a + b)
<1>1. Stands(Loose, 0, 0) /\ a \in Int /\ 0 + a = a
  <2>1. a \in Int /\ 0 \in Loose
    BY WordTypes DEF Stands
  <2> QED BY <2>1, StandsForItself
<1>2. Stands(Canonical, Add(0, x), a)
  BY <1>1, AddStands, Zenon
<1> QED BY <1>2, AddStands, Wider DEF Opened

LEMMA ComparedIs ==
    ASSUME type \in Type, NEW x, NEW e \in 0..(Order - 1), Stands(Canonical, x, e)
    PROVE  Compared(x) = e
<1>1. x \in Canonical /\ Same(x, e, Order)
  BY DEF Stands
<1>2. CASE type = "FE"
  <2>1. x \in Stored /\ e \in Field /\ Cong(x, e)
    BY <1>1, <1>2, WordTypes, OrderType DEF Field
  <2> QED BY <1>2, <2>1, ValueIsElement DEF Compared
<1>3. CASE type # "FE"
  <2>1. x \in 0..(Order - 1) /\ Compared(x) = x
    BY <1>1, <1>3, WordTypes, OrderType DEF Type, Compared
  <2> QED BY <1>1, <2>1, OrderType, SameUnique
<1> QED BY <1>2, <1>3

-----------------------------------------------------------------------------
(* The two jobs.  JobInv says at each phase what the words computed so far
   stand for, all in terms of the job's inputs in exact arithmetic. *)

NodeKey == [conv : [Server -> Elem], bit : [Server -> {0, 1}], cor : Raw]

\* What a key adds to the sum of the servers' values of a node.
Kept(k) == (k.conv[0] + k.bit[0] * k.cor) - (k.conv[1] + k.bit[1] * k.cor)

\* What the check's output shares open to.
Answer == Product(1) + Product(2) + Product(3)

\* A node's value after n words.
Bounded(n) == \A s \in Server : IF type = "FieldElm" THEN acc[s] \in 0..(n * Modulus)
                                                     ELSE acc[s] \in Raw

JobTyped == /\ type \in Type
            /\ phase \in {"node", "key", "word", "counted", "check", "answered", "verified",
                          "registers"}
            /\ clients \in 0..NClients
            /\ want \in 0..(Order - 1)
            /\ acc \in [Server -> Loose]
            /\ word \in [Server -> Raw]
            /\ keys = None \/ keys \in NodeKey

JobInv ==
    /\ JobTyped
    /\ phase \in {"node", "key", "word"} => Bounded(clients)
    /\ phase \in {"key", "word"} => clients < NClients
    /\ phase = "node" => Same(acc[0] + acc[1], want, Order)
    /\ phase = "key" => keys \in NodeKey /\ Same((acc[0] + acc[1]) + Kept(keys), want, Order)
    /\ phase = "word" => Same((acc[0] + acc[1]) + (word[0] + word[1]), want, Order)
    /\ phase \in {"counted", "check", "answered", "verified", "registers"} =>
          acc \in [Server -> Canonical]
    /\ phase \in {"check", "answered"} => check \in Inputs
    /\ phase = "answered" => Same(acc[0] + acc[1], Answer, Order)
    /\ phase \in {"counted", "verified"} => Stands(Canonical, out, want)

\* The type of field does not change.
LEMMA TypeStays ==
    ASSUME type' = type
    PROVE  /\ Order' = Order /\ Elem' = Elem /\ Raw' = Raw /\ Loose' = Loose
           /\ Canonical' = Canonical /\ NodeKey' = NodeKey /\ Inputs' = Inputs
<1>1. Order' = Order /\ Elem' = Elem /\ Raw' = Raw
  BY DEF Order, Elem, Raw
<1> QED BY <1>1 DEF Loose, Canonical, NodeKey, Inputs

LEMMA InitJob == Init => JobInv
<1> SUFFICES ASSUME Init PROVE JobInv
  OBVIOUS
<1>1. type \in Type /\ clients = 0 /\ keys = None /\ word = Zeros /\ acc = Zeros /\ want = 0
  BY DEF Init
<1>2. /\ Zeros \in [Server -> Raw] /\ Zeros \in [Server -> Loose] /\ Zeros \in [Server -> Canonical]
      /\ Zeros[0] = 0 /\ Zeros[1] = 0
  BY <1>1, WordTypes DEF Zeros, Server
<1>3. 0 \in 0..NClients /\ 0 \in 0..(Order - 1) /\ 0 * Modulus = 0
  BY <1>1, ClientsAssumption, OrderType
<1>4. JobTyped
  BY <1>1, <1>2, <1>3 DEF JobTyped, Init
<1>5. Bounded(clients)
  <2>1. \A s \in Server : acc[s] = 0 /\ acc[s] \in Raw
    BY <1>1, <1>2 DEF Zeros
  <2> QED BY <1>1, <1>3, <2>1 DEF Bounded
<1>6. Same(acc[0] + acc[1], want, Order)
  <2>1. Same(0, 0, Order) /\ 0 + 0 = 0
    BY <1>1, OrderType, SameReflexive
  <2> QED BY <1>1, <1>2, <2>1
<1> QED BY <1>1, <1>2, <1>4, <1>5, <1>6 DEF JobInv, Init

(* Signs and correction words cancel: on the path a key adds its value. *)
LEMMA OnPathKey ==
    ASSUME type \in Type, NEW v \in Elem, NEW conv \in [Server -> Elem], NEW b \in {0, 1},
           NEW bit, bit = [s \in Server |-> IF s = 1 THEN b ELSE 1 - b],
           NEW k, k = [conv |-> conv, bit |-> bit, cor |-> CorWord(v, conv, bit)]
    PROVE  k \in NodeKey /\ Kept(k) \in Int /\ Same(Kept(k), v, Order)
<1> DEFINE w == Add(PairSub(v, conv[0]), conv[1])
           c0 == conv[0]
           c1 == conv[1]
           cor == CorWord(v, conv, bit)
<1>1. c0 \in Elem /\ c1 \in Elem /\ bit \in [Server -> {0, 1}] /\ bit[1] = b /\ bit[0] = 1 - b
  BY DEF Server
<1>2. Elem \subseteq Raw /\ Elem \subseteq Loose
  BY WordTypes
<1>3. Stands(Raw, c0, c0) /\ Stands(Loose, v, v) /\ Stands(Loose, c1, c1)
  <2>1. Stands(Elem, c0, c0) /\ Stands(Elem, v, v) /\ Stands(Elem, c1, c1)
    <3> HIDE DEF c0, c1
    <3> QED BY <1>1, <1>2, StandsForItself
  <2> QED BY <1>2, <2>1 DEF Stands
<1>4. v \in Int /\ c0 \in Int /\ c1 \in Int
  BY <1>3 DEF Stands
<1>5. Stands(Canonical, w, (v + (-c0)) + c1)
  <2>1. Stands(Loose, Negate(c0), -c0)
    <3> HIDE DEF c0
    <3> QED BY <1>3, NegateStands, Wider
  <2>2. Stands(Loose, PairSub(v, c0), v + (-c0))
    <3> HIDE DEF c0
    <3> QED BY <1>3, <2>1, AddStands, Wider DEF PairSub
  <2> QED BY <1>3, <2>2, AddStands
<1> HIDE DEF w, c0, c1, cor
<1>6. /\ b = 1 => cor = Negate(w)
      /\ b = 0 => cor = w
  BY <1>1 DEF CorWord, w, cor
<1>7. k.conv[0] = c0 /\ k.conv[1] = c1 /\ k.bit[0] = 1 - b /\ k.bit[1] = b /\ k.cor = cor
  BY <1>1 DEF c0, c1, cor
<1>8. Kept(k) = (c0 + (1 - b) * cor) - (c1 + b * cor)
  BY <1>7 DEF Kept
<1>9. ASSUME NEW r \in Raw, cor = r PROVE k \in NodeKey
  BY <1>1, <1>9 DEF NodeKey, cor
<1>10. CASE b = 0
  <2>1. Stands(Raw, cor, (v + (-c0)) + c1)
    BY <1>5, <1>6, <1>10, Wider
  <2>2. cor \in Raw /\ cor \in Int /\ Same(cor, (v + (-c0)) + c1, Order)
    BY <2>1, WordTypes DEF Stands
  <2>3. Kept(k) = cor + (c0 - c1)
    BY <1>4, <1>8, <1>10, <2>2
  <2>4. Same(cor + (c0 - c1), ((v + (-c0)) + c1) + (c0 - c1), Order)
    <3>1. (v + (-c0)) + c1 \in Int /\ c0 - c1 \in Int
      BY <1>4
    <3>2. Same(c0 - c1, c0 - c1, Order)
      BY <3>1, OrderType, SameReflexive
    <3> QED BY <2>2, <3>1, <3>2, OrderType, SameSum
  <2>5. ((v + (-c0)) + c1) + (c0 - c1) = v
    BY <1>4
  <2>6. Kept(k) \in Int
    BY <1>4, <2>2, <2>3
  <2> QED BY <1>9, <2>2, <2>3, <2>4, <2>5, <2>6
<1>11. CASE b = 1
  <2>1. Stands(Raw, cor, -((v + (-c0)) + c1))
    BY <1>5, <1>6, <1>11, Wider, NegateStands
  <2>2. cor \in Raw /\ cor \in Int /\ Same(cor, -((v + (-c0)) + c1), Order)
    BY <2>1, WordTypes DEF Stands
  <2>3. Kept(k) = -cor + (c0 - c1)
    BY <1>4, <1>8, <1>11, <2>2, OrderType
  <2>4. Same(-cor, -(-((v + (-c0)) + c1)), Order)
    <3>1. PICK n \in Int : n = -((v + (-c0)) + c1)
      BY <1>4
    <3>2. Same(-cor, -n, Order)
      BY <2>2, <3>1, OrderType, SameNegated
    <3> QED BY <3>1, <3>2
  <2>5. Same(-cor + (c0 - c1), -(-((v + (-c0)) + c1)) + (c0 - c1), Order)
    <3>1. -(-((v + (-c0)) + c1)) \in Int /\ c0 - c1 \in Int /\ -cor \in Int
      BY <1>4, <2>2, OrderType
    <3>2. Same(c0 - c1, c0 - c1, Order)
      BY <3>1, OrderType, SameReflexive
    <3> QED BY <2>4, <3>1, <3>2, OrderType, SameSum
  <2>6. -(-((v + (-c0)) + c1)) + (c0 - c1) = v
    BY <1>4
  <2>7. Kept(k) \in Int
    BY <1>4, <2>2, <2>3, OrderType
  <2> QED BY <1>9, <2>2, <2>3, <2>5, <2>6, <2>7
<1> QED BY <1>10, <1>11

LEMMA AccTyped ==
    ASSUME JobTyped
    PROVE  /\ acc[0] \in Int /\ acc[1] \in Int /\ acc[0] + acc[1] \in Int
           /\ \A s \in Server : Stands(Loose, acc[s], acc[s])
           /\ \A s \in Server : Stands(Loose, word[s], word[s]) /\ word[s] \in Raw
           /\ word[0] \in Int /\ word[1] \in Int
           /\ want \in Int /\ type \in Type
<1>1. type \in Type /\ want \in Int
  BY OrderType DEF JobTyped
<1>2. \A s \in Server : acc[s] \in Loose /\ word[s] \in Raw /\ word[s] \in Loose
  BY <1>1, WordTypes DEF JobTyped
<1>3. \A s \in Server : Stands(Loose, acc[s], acc[s]) /\ Stands(Loose, word[s], word[s])
  BY <1>1, <1>2, StandsForItself
<1>4. acc[0] \in Int /\ acc[1] \in Int /\ word[0] \in Int /\ word[1] \in Int
  BY <1>1, <1>2, WordTypes DEF Server
<1> QED BY <1>1, <1>2, <1>3, <1>4

LEMMA GenOnPathKeeps ==
    ASSUME JobInv, GenOnPath
    PROVE  JobInv'
<1>1. /\ phase = "node" /\ phase' = "key" /\ clients < NClients
      /\ UNCHANGED <<type, clients, word, acc, check, out>>
  BY DEF GenOnPath
<1>2. JobTyped /\ Bounded(clients) /\ Same(acc[0] + acc[1], want, Order) /\ type \in Type
  BY <1>1 DEF JobInv, JobTyped
<1>3. PICK v \in Elem, conv \in [Server -> Elem], b \in {0, 1} :
         /\ keys' = [conv |-> conv, bit |-> [s \in Server |-> IF s = 1 THEN b ELSE 1 - b],
                     cor |-> CorWord(v, conv, [s \in Server |-> IF s = 1 THEN b ELSE 1 - b])]
         /\ want' = (want + v) % Order
  BY Zenon DEF GenOnPath
<1>4. PICK bit : bit = [s \in Server |-> IF s = 1 THEN b ELSE 1 - b]
  OBVIOUS
<1>5. keys' \in NodeKey /\ Kept(keys') \in Int /\ Same(Kept(keys'), v, Order)
  <2>1. keys' = [conv |-> conv, bit |-> bit, cor |-> CorWord(v, conv, bit)]
    BY <1>3, <1>4, Zenon
  <2> QED BY <1>2, <1>4, <2>1, OnPathKey
<1>6. v \in Int /\ want \in Int /\ acc[0] + acc[1] \in Int
  BY <1>2, AccTyped, WordTypes
<1>7. want' \in 0..(Order - 1) /\ want' \in Int /\ Same(want', want + v, Order)
  <2>1. want + v \in Int
    BY <1>6
  <2> QED BY <1>2, <1>3, <2>1, OrderType, SameRemainder
<1>8. Same((acc[0] + acc[1]) + Kept(keys'), want', Order)
  <2>1. Same((acc[0] + acc[1]) + Kept(keys'), want + v, Order)
    BY <1>2, <1>5, <1>6, OrderType, SameSum
  <2>2. Same(want + v, want', Order)
    BY <1>2, <1>6, <1>7, OrderType, SameSymmetric
  <2>3. (acc[0] + acc[1]) + Kept(keys') \in Int /\ want + v \in Int
    BY <1>5, <1>6
  <2> QED BY <1>2, <1>7, <2>1, <2>2, <2>3, OrderType, SameTransitive
<1>9. JobTyped'
  BY <1>1, <1>2, <1>5, <1>7, TypeStays DEF JobTyped
<1> QED BY <1>1, <1>2, <1>5, <1>8, <1>9, TypeStays DEF JobInv, Bounded

(* Off the path the servers' words are equal but for the sign. *)
LEMMA GenOffPathKeeps ==
    ASSUME JobInv, GenOffPath
    PROVE  JobInv'
<1>1. /\ phase = "node" /\ phase' = "key" /\ clients < NClients
      /\ UNCHANGED <<type, clients, word, acc, check, out, want>>
  BY DEF GenOffPath
<1>2. JobTyped /\ Bounded(clients) /\ Same(acc[0] + acc[1], want, Order) /\ type \in Type
  BY <1>1 DEF JobInv, JobTyped
<1>3. PICK c \in Elem, b \in {0, 1}, cor \in Elem \cup {Negate(0)} :
         keys' = [conv |-> [s \in Server |-> c], bit |-> [s \in Server |-> b], cor |-> cor]
  BY Zenon DEF GenOffPath
<1>4. cor \in Raw
  <2>1. Stands(Raw, 0, 0)
    BY <1>2, WordTypes, StandsForItself
  <2>2. Negate(0) \in Raw
    BY <1>2, <2>1, NegateStands DEF Stands
  <2> QED BY <1>2, <2>2, WordTypes
<1>5. keys' \in NodeKey
  BY <1>3, <1>4 DEF NodeKey
<1>6. Kept(keys') = 0
  <2>1. Kept(keys') = (c + b * cor) - (c + b * cor)
    BY <1>3 DEF Kept, Server
  <2>2. c \in Int /\ cor \in Int /\ b \in Int
    BY <1>2, <1>4, WordTypes
  <2>3. b * cor \in Int
    BY <2>2
  <2> QED BY <2>1, <2>2, <2>3
<1>7. (acc[0] + acc[1]) + Kept(keys') = acc[0] + acc[1]
  BY <1>2, <1>6, AccTyped
<1>8. JobTyped'
  BY <1>1, <1>2, <1>5, TypeStays DEF JobTyped
<1> QED BY <1>1, <1>2, <1>5, <1>7, <1>8, TypeStays DEF JobInv, Bounded

LEMMA EvalStands ==
    ASSUME type \in Type, NEW k \in NodeKey, NEW s \in Server
    PROVE  Stands(Raw, EvalWord(s, k),
                  IF s = 1 THEN -(k.conv[s] + k.bit[s] * k.cor) ELSE k.conv[s] + k.bit[s] * k.cor)
<1> DEFINE c == k.conv[s]
           b == k.bit[s]
           r == k.cor
           w == IF b = 1 THEN Add(c, r) ELSE c
<1>1. c \in Elem /\ b \in {0, 1} /\ r \in Raw
  BY DEF NodeKey
<1>2. Stands(Raw, c, c) /\ Stands(Raw, r, r) /\ c \in Int /\ r \in Int
  <2> HIDE DEF c, r
  <2>1. c \in Raw
    BY <1>1, WordTypes
  <2> QED BY <1>1, <2>1, WordTypes, StandsForItself
<1>3. EvalWord(s, k) = IF s = 1 THEN Negate(w) ELSE w
  BY DEF EvalWord
<1> HIDE DEF c, b, r
<1>4. Stands(Raw, w, c + b * r)
  <2>1. CASE b = 1
    <3>1. Stands(Canonical, Add(c, r), c + r)
      BY <1>2, AddStands, Wider
    <3>2. c + b * r = c + r
      BY <1>2, <2>1
    <3> QED BY <2>1, <3>1, <3>2, Wider
  <2>2. CASE b = 0
    <3>1. c + b * r = c
      BY <1>2, <2>2
    <3> QED BY <1>2, <2>2, <3>1
  <2> QED BY <1>1, <2>1, <2>2
<1> HIDE DEF w
<1>5. s = 1 => Stands(Raw, Negate(w), -(c + b * r))
  BY <1>4, NegateStands
<1> QED BY <1>3, <1>4, <1>5 DEF c, b, r

LEMMA EvalBitKeeps ==
    ASSUME JobInv, EvalBit
    PROVE  JobInv'
<1>1. /\ phase = "key" /\ phase' = "word" /\ keys' = None
      /\ word' = [s \in Server |-> EvalWord(s, keys)]
      /\ UNCHANGED <<type, clients, acc, check, out, want>>
  BY DEF EvalBit
<1>2. /\ JobTyped /\ Bounded(clients) /\ clients < NClients /\ keys \in NodeKey
      /\ Same((acc[0] + acc[1]) + Kept(keys), want, Order) /\ type \in Type
  BY <1>1 DEF JobInv, JobTyped
<1>3. PICK w0, w1 : w0 = EvalWord(0, keys) /\ w1 = EvalWord(1, keys)
  OBVIOUS
<1>4. PICK e0, e1 : /\ e0 = keys.conv[0] + keys.bit[0] * keys.cor
                    /\ e1 = keys.conv[1] + keys.bit[1] * keys.cor
  OBVIOUS
<1>5. Stands(Raw, w0, e0) /\ Stands(Raw, w1, -e1)
  <2>1. 0 \in Server /\ 1 \in Server
    BY DEF Server
  <2>2. Stands(Raw, EvalWord(0, keys), keys.conv[0] + keys.bit[0] * keys.cor)
    BY <1>2, <2>1, EvalStands
  <2>3. Stands(Raw, EvalWord(1, keys), -(keys.conv[1] + keys.bit[1] * keys.cor))
    BY <1>2, <2>1, EvalStands
  <2> QED BY <1>3, <1>4, <2>2, <2>3
<1>6. e0 \in Int /\ e1 \in Int
  <2>1. \A s \in Server : keys.conv[s] \in Int /\ keys.bit[s] \in Int /\ keys.cor \in Int
    BY <1>2, WordTypes DEF NodeKey
  <2>2. ASSUME NEW c \in Int, NEW b \in Int, NEW r \in Int PROVE c + b * r \in Int
    OBVIOUS
  <2> QED BY <1>4, <2>1, <2>2 DEF Server
<1>7. word'[0] = w0 /\ word'[1] = w1 /\ word' \in [Server -> Raw]
  <2>1. w0 \in Raw /\ w1 \in Raw
    BY <1>5 DEF Stands
  <2> QED BY <1>1, <1>3, <2>1 DEF Server
<1>8. w0 \in Int /\ w1 \in Int /\ Same(w0, e0, Order) /\ Same(w1, -e1, Order)
  BY <1>2, <1>5, WordTypes DEF Stands
<1>9. Same(w0 + w1, Kept(keys), Order) /\ Kept(keys) \in Int /\ w0 + w1 \in Int
  <2>1. Same(w0 + w1, e0 + (-e1), Order)
    BY <1>2, <1>6, <1>8, OrderType, SameSum
  <2>2. e0 + (-e1) = e0 - e1 /\ e0 - e1 \in Int
    BY <1>6
  <2>3. Kept(keys) = e0 - e1
    BY <1>4 DEF Kept
  <2> QED BY <1>8, <2>1, <2>2, <2>3
<1>10. Same((acc[0] + acc[1]) + (word'[0] + word'[1]), want, Order)
  <2>1. /\ acc[0] + acc[1] \in Int /\ want \in Int
        /\ Same(acc[0] + acc[1], acc[0] + acc[1], Order)
    BY <1>2, AccTyped, OrderType, SameReflexive
  <2>2. Same((acc[0] + acc[1]) + (w0 + w1), (acc[0] + acc[1]) + Kept(keys), Order)
    BY <1>2, <1>9, <2>1, OrderType, SameSum
  <2>3. /\ (acc[0] + acc[1]) + (w0 + w1) \in Int
        /\ (acc[0] + acc[1]) + Kept(keys) \in Int
    BY <1>9, <2>1
  <2> QED BY <1>2, <1>7, <2>1, <2>2, <2>3, OrderType, SameTransitive
<1>11. JobTyped'
  BY <1>1, <1>2, <1>7, TypeStays DEF JobTyped
<1> QED BY <1>1, <1>2, <1>10, <1>11, TypeStays DEF JobInv, Bounded

LEMMA AddToNodeKeeps ==
    ASSUME JobInv, AddToNode
    PROVE  JobInv'
<1>1. /\ phase = "word" /\ phase' = "node" /\ word' = Zeros /\ clients' = clients + 1
      /\ acc' = [s \in Server |-> AddLazy(acc[s], word[s])]
      /\ UNCHANGED <<type, keys, check, out, want>>
  BY DEF AddToNode
<1>2. /\ JobTyped /\ Bounded(clients) /\ clients < NClients /\ type \in Type
      /\ Same((acc[0] + acc[1]) + (word[0] + word[1]), want, Order)
  BY <1>1 DEF JobInv, JobTyped
<1>3. clients \in Nat /\ clients' \in 0..NClients /\ clients' = clients + 1
  BY <1>1, <1>2, ClientsAssumption DEF JobTyped
<1>4. ASSUME NEW s \in Server
      PROVE  /\ acc'[s] = AddLazy(acc[s], word[s])
             /\ Stands(Loose, acc'[s], acc[s] + word[s])
  <2>1. acc'[s] = AddLazy(acc[s], word[s])
    BY <1>1
  <2>2. Stands(Loose, acc[s], acc[s]) /\ Stands(Loose, word[s], word[s])
    BY <1>2, AccTyped
  <2> QED BY <1>2, <2>1, <2>2, LazyStands
<1>5. acc' \in [Server -> Loose]
  BY <1>1, <1>4 DEF Stands
<1>6. Bounded(clients)'
  <2> SUFFICES ASSUME NEW s \in Server
               PROVE  IF type = "FieldElm" THEN acc'[s] \in 0..(clients' * Modulus)
                                           ELSE acc'[s] \in Raw
    BY <1>1, TypeStays DEF Bounded
  <2>1. CASE type = "FieldElm"
    <3>1. acc'[s] = acc[s] + word[s]
      BY <1>4, <2>1 DEF AddLazy
    <3>2. acc[s] \in 0..(clients * Modulus)
      BY <1>2, <2>1 DEF Bounded
    <3>3. word[s] \in 0..Modulus
      BY <1>2, <2>1, WordTypes, AccTyped
    <3>4. clients' * Modulus = clients * Modulus + Modulus /\ clients * Modulus \in Nat
      BY <1>2, <1>3, OrderType
    <3>5. ASSUME NEW n \in Nat, NEW m \in Nat, NEW x \in 0..n, NEW y \in 0..m
          PROVE  x + y \in 0..(n + m)
      OBVIOUS
    <3>6. acc[s] + word[s] \in 0..(clients * Modulus + Modulus)
      BY <1>2, <3>2, <3>3, <3>4, <3>5, OrderType
    <3> QED BY <2>1, <3>1, <3>4, <3>6
  <2>2. CASE type # "FieldElm"
    <3>1. Loose = Raw
      BY <2>2 DEF Loose
    <3> QED BY <1>4, <2>2, <3>1 DEF Stands
  <2> QED BY <2>1, <2>2
<1>7. Same(acc'[0] + acc'[1], want, Order)
  <2>1. PICK a0, a1, w0, w1 : a0 = acc[0] /\ a1 = acc[1] /\ w0 = word[0] /\ w1 = word[1]
    OBVIOUS
  <2>2. a0 \in Int /\ a1 \in Int /\ w0 \in Int /\ w1 \in Int /\ want \in Int
    BY <1>2, <2>1, AccTyped
  <2>3. PICK x, y : x = acc'[0] /\ y = acc'[1]
    OBVIOUS
  <2>4. x \in Int /\ y \in Int /\ Same(x, a0 + w0, Order) /\ Same(y, a1 + w1, Order)
    <3>1. Stands(Loose, x, a0 + w0) /\ Stands(Loose, y, a1 + w1)
      BY <1>4, <2>1, <2>3 DEF Server
    <3> QED BY <1>2, <3>1, WordTypes DEF Stands
  <2>5. Same(x + y, (a0 + w0) + (a1 + w1), Order)
    <3>1. a0 + w0 \in Int /\ a1 + w1 \in Int
      BY <2>2
    <3> QED BY <1>2, <2>4, <3>1, OrderType, SameSum
  <2>6. (a0 + w0) + (a1 + w1) = (a0 + a1) + (w0 + w1) /\ (a0 + a1) + (w0 + w1) \in Int
    BY <2>2
  <2>7. Same((a0 + a1) + (w0 + w1), want, Order)
    BY <1>2, <2>1
  <2>8. x + y \in Int
    BY <2>4
  <2>9. Same(x + y, want, Order)
    BY <1>2, <2>2, <2>5, <2>6, <2>7, <2>8, OrderType, SameTransitive
  <2> QED BY <2>3, <2>9
<1>8. Zeros \in [Server -> Raw]
  BY <1>2, WordTypes DEF Zeros
<1>9. JobTyped'
  BY <1>1, <1>2, <1>3, <1>5, <1>8, TypeStays DEF JobTyped
<1> QED BY <1>1, <1>2, <1>6, <1>7, <1>9, TypeStays DEF JobInv

(* What two shares stand for together, once they are opened. *)
LEMMA OpenedWant ==
    ASSUME type \in Type, NEW x, NEW y, NEW a \in Int, NEW b \in Int, NEW e \in Int,
           Stands(Loose, x, a), Stands(Loose, y, b), Same(a + b, e, Order)
    PROVE  Stands(Canonical, Opened(x, y), e)
<1>1. Stands(Canonical, Opened(x, y), a + b)
  BY OpenedStands
<1>2. Canonical \subseteq Loose
  BY WordTypes
<1> QED BY <1>1, <1>2, StandsFor

LEMMA KeepValuesKeeps ==
    ASSUME JobInv, KeepValues
    PROVE  JobInv'
<1>1. /\ phase = "node" /\ phase' = "counted"
      /\ acc' = [s \in Server |-> Reduce(acc[s])]
      /\ out' = Opened(acc'[0], acc'[1])
      /\ UNCHANGED <<type, clients, keys, word, check, want>>
  BY DEF KeepValues
<1>2. JobTyped /\ Same(acc[0] + acc[1], want, Order) /\ type \in Type
  BY <1>1 DEF JobInv, JobTyped
<1>3. \A s \in Server : acc'[s] = Reduce(acc[s]) /\ Stands(Canonical, acc'[s], acc[s])
  BY <1>1, <1>2, AccTyped, ReducedStands
<1>4. acc' \in [Server -> Canonical] /\ acc' \in [Server -> Loose]
  BY <1>1, <1>2, <1>3, WordTypes DEF Stands
<1>5. Stands(Canonical, out', want)
  <2>1. Stands(Loose, acc'[0], acc[0]) /\ Stands(Loose, acc'[1], acc[1])
    BY <1>2, <1>3, Wider DEF Server
  <2>2. acc[0] \in Int /\ acc[1] \in Int /\ want \in Int
    BY <1>2, AccTyped
  <2>3. Stands(Canonical, Opened(acc'[0], acc'[1]), want)
    BY <1>2, <2>1, <2>2, OpenedWant
  <2> QED BY <1>1, <2>3
<1>6. JobTyped'
  BY <1>1, <1>2, <1>4, TypeStays DEF JobTyped
<1> QED BY <1>1, <1>4, <1>5, <1>6, TypeStays DEF JobInv, Stands

-----------------------------------------------------------------------------
(* The check's three products. *)

LEMMA TapeStands ==
    ASSUME type \in Type, check \in Inputs, NEW i \in Check, NEW n \in 0..7
    PROVE  /\ Tape(i, n) \in Int
           /\ Tape(i, n) \in Raw
           /\ Stands(Raw, Tape(i, n), Tape(i, n))
<1>1. ASSUME NEW k \in Int PROVE k % Order \in 0..(Order - 1)
  BY OrderType, SameRemainder
<1>2. check.tape \in [0..23 -> Nat] /\ 8 * (i - 1) + n \in 0..23
  BY TapesAssumption DEF Inputs, Check
<1>3. Tape(i, n) \in 0..(Order - 1)
  BY <1>1, <1>2 DEF Tape
<1>4. Tape(i, n) \in Raw
  BY <1>3, WordTypes
<1> QED BY <1>3, <1>4, WordTypes, StandsForItself

(* What the check reads: shares of what it multiplies, and a random factor. *)
LEMMA OperandsStand ==
    ASSUME type \in Type, check \in Inputs, NEW i \in Check
    PROVE  /\ \A s \in Server : /\ Stands(Raw, MulState.xs[i][s], MulState.xs[i][s])
                               /\ Stands(Raw, MulState.ys[i][s], MulState.ys[i][s])
                               /\ Stands(Raw, MulState.zs[i][s], MulState.zs[i][s])
           /\ Stands(Raw, MulState.rs[i], MulState.rs[i])
<1>1. \A v \in Elem : v \in Raw
  BY WordTypes
<1>2. \A v \in Raw : Stands(Raw, v, v)
  BY WordTypes, StandsForItself
<1>3. ASSUME NEW j \in Check, NEW s \in Server
      PROVE  Drawn(j, 6)[s] \in Raw
  <2>1. 6 + s \in 0..7
    BY DEF Server
  <2> QED BY <2>1, TapeStands DEF Drawn
<1>4. \A s \in Server : check.r_x[s] \in Raw /\ check.mac[s] \in Raw /\ check.r2_x[s] \in Raw
  BY <1>1 DEF Inputs
<1>5. 2 \in Check /\ 3 \in Check
  BY DEF Check
<1>6. \A s \in Server : /\ MulState.xs[i][s] \in Raw /\ MulState.ys[i][s] \in Raw
                         /\ MulState.zs[i][s] \in Raw
  <2>1. CASE i = 1
    BY <1>4, <2>1 DEF MulState
  <2>2. CASE i = 2
    BY <1>3, <1>4, <1>5, <2>2 DEF MulState
  <2>3. CASE i = 3
    BY <1>3, <1>4, <1>5, <2>3 DEF MulState
  <2> QED BY <2>1, <2>2, <2>3 DEF Check
<1>7. MulState.rs[i] \in Raw
  <2>1. \A j \in Check : Tape(j, 5) \in Raw
    BY TapeStands
  <2> QED BY <2>1 DEF MulState, Check
<1> QED BY <1>2, <1>6, <1>7

(* A triple's words, and what its third shares. *)
LEMMA TripleStands ==
    ASSUME type \in Type, check \in Inputs, NEW i \in Check
    PROVE  \E a0, a1, b0, b1, c0 \in Int :
              /\ Triple(i).a[0] = a0 /\ Triple(i).a[1] = a1
              /\ Triple(i).b[0] = b0 /\ Triple(i).b[1] = b1
              /\ Stands(Raw, a0, a0) /\ Stands(Raw, a1, a1)
              /\ Stands(Raw, b0, b0) /\ Stands(Raw, b1, b1)
              /\ Stands(Raw, Triple(i).c[0], c0)
              /\ Stands(Raw, Triple(i).c[1], (a0 + a1) * (b0 + b1) - c0)
<1>1. PICK a0, a1, b0, b1, c0 :
        /\ a0 = Tape(i, 0) /\ a1 = Tape(i, 1) /\ b0 = Tape(i, 2) /\ b1 = Tape(i, 3)
        /\ c0 = Tape(i, 4)
  OBVIOUS
<1>2. /\ Stands(Raw, a0, a0) /\ Stands(Raw, a1, a1) /\ Stands(Raw, b0, b0) /\ Stands(Raw, b1, b1)
      /\ Stands(Raw, c0, c0)
      /\ a0 \in Int /\ a1 \in Int /\ b0 \in Int /\ b1 \in Int /\ c0 \in Int
  BY <1>1, TapeStands
<1>3. PICK c1 : c1 = Sub(Mul(Add(a0, a1), Add(b0, b1)), c0)
  OBVIOUS
<1>4. Stands(Raw, c1, (a0 + a1) * (b0 + b1) - c0)
  <2>1. Stands(Loose, Add(a0, a1), a0 + a1) /\ Stands(Loose, Add(b0, b1), b0 + b1)
    BY <1>2, AddStands, Wider
  <2>2. Stands(Raw, Mul(Add(a0, a1), Add(b0, b1)), (a0 + a1) * (b0 + b1))
    BY <2>1, MulStands, Wider
  <2> QED BY <1>2, <1>3, <2>2, SubStands
<1>5. /\ Triple(i).a[0] = a0 /\ Triple(i).a[1] = a1 /\ Triple(i).b[0] = b0 /\ Triple(i).b[1] = b1
      /\ Triple(i).c[0] = c0 /\ Triple(i).c[1] = c1
  <2>1. 0 + 0 = 0 /\ 0 + 1 = 1 /\ 2 + 0 = 2 /\ 2 + 1 = 3
    OBVIOUS
  <2> QED BY <1>1, <1>3, <2>1 DEF Triple, Drawn, Server
<1> QED BY <1>2, <1>4, <1>5

LEMMA OpeningStands ==
    ASSUME type \in Type, NEW x, NEW mask, NEW x0, NEW x1, NEW m0, NEW m1,
           x[0] = x0, x[1] = x1, mask[0] = m0, mask[1] = m1,
           Stands(Raw, x0, x0), Stands(Raw, x1, x1), Stands(Raw, m0, m0), Stands(Raw, m1, m1)
    PROVE  Stands(Loose, Opening(x, mask), (x0 - m0) + (x1 - m1))
<1>1. Stands(Loose, Sub(x0, m0), x0 - m0) /\ Stands(Loose, Sub(x1, m1), x1 - m1)
  BY SubStands, Wider
<1>2. Stands(Loose, Opened(Sub(x0, m0), Sub(x1, m1)), (x0 - m0) + (x1 - m1))
  BY <1>1, OpenedStands, Wider
<1> QED BY <1>2 DEF Opening

\* A product's part of out_share, from what it reads.
TermOf(s, d, e, a, b, c, z, r) ==
    LET de == IF s = 1 THEN AddLazy(0, MulLazy(d, e)) ELSE 0
        db == AddLazy(de, MulLazy(d, b))
        ea == AddLazy(db, MulLazy(e, a))
    IN  MulLazy(AddLazy(AddLazy(ea, c), Negate(z)), r)

LEMMA TermStands ==
    ASSUME type \in Type, NEW s \in Server,
           NEW d, NEW e, NEW a, NEW b, NEW c, NEW z, NEW r,
           NEW D \in Int, NEW E \in Int, NEW C \in Int,
           Stands(Loose, d, D), Stands(Loose, e, E), Stands(Raw, a, a), Stands(Raw, b, b),
           Stands(Raw, c, C), Stands(Raw, z, z), Stands(Raw, r, r)
    PROVE  Stands(Loose, TermOf(s, d, e, a, b, c, z, r),
                  (((((IF s = 1 THEN D * E ELSE 0) + D * b) + E * a) + C) + (-z)) * r)
<1>1. /\ Stands(Loose, a, a) /\ Stands(Loose, b, b) /\ Stands(Loose, c, C) /\ Stands(Loose, r, r)
      /\ a \in Int /\ b \in Int /\ z \in Int /\ r \in Int
  BY Wider DEF Stands
<1>2. Stands(Loose, Negate(z), -z)
  BY NegateStands, Wider
<1>3. Stands(Loose, 0, 0)
  BY WordTypes, StandsForItself
<1>4. Stands(Loose, MulLazy(d, e), D * E) /\ Stands(Loose, MulLazy(d, b), D * b)
      /\ Stands(Loose, MulLazy(e, a), E * a)
  BY <1>1, LazyStands
<1>5. PICK de : de = IF s = 1 THEN AddLazy(0, MulLazy(d, e)) ELSE 0
  OBVIOUS
<1>6. PICK DE : DE = IF s = 1 THEN D * E ELSE 0
  OBVIOUS
<1>7. Stands(Loose, de, DE) /\ DE \in Int
  <2>1. CASE s = 1
    <3>1. Stands(Loose, AddLazy(0, MulLazy(d, e)), 0 + D * E)
      BY <1>3, <1>4, LazyStands
    <3>2. 0 + D * E = D * E /\ D * E \in Int
      OBVIOUS
    <3> QED BY <1>5, <1>6, <2>1, <3>1, <3>2
  <2>2. CASE s # 1
    BY <1>3, <1>5, <1>6, <2>2
  <2> QED BY <2>1, <2>2
<1>8. PICK db : db = AddLazy(de, MulLazy(d, b))
  OBVIOUS
<1>9. PICK ea : ea = AddLazy(db, MulLazy(e, a))
  OBVIOUS
<1>10. PICK term : term = AddLazy(AddLazy(ea, c), Negate(z))
  OBVIOUS
<1>11. Stands(Loose, db, DE + D * b)
  BY <1>4, <1>7, <1>8, LazyStands
<1>12. Stands(Loose, ea, (DE + D * b) + E * a)
  BY <1>4, <1>9, <1>11, LazyStands
<1>13. Stands(Loose, AddLazy(ea, c), ((DE + D * b) + E * a) + C)
  BY <1>1, <1>12, LazyStands
<1>14. PICK T : T = (((DE + D * b) + E * a) + C) + (-z)
  OBVIOUS
<1>15. Stands(Loose, term, T)
  BY <1>2, <1>10, <1>13, <1>14, LazyStands
<1>16. Stands(Loose, MulLazy(term, r), T * r)
  BY <1>1, <1>15, LazyStands
<1>17. TermOf(s, d, e, a, b, c, z, r) = MulLazy(term, r)
  BY <1>5, <1>8, <1>9, <1>10, Zenon DEF TermOf
<1> QED BY <1>6, <1>14, <1>16, <1>17, Zenon

(* The identity behind Beaver's multiplication. *)
LEMMA Beaver ==
    ASSUME NEW x \in Int, NEW y \in Int, NEW a0 \in Int, NEW a1 \in Int,
           NEW b0 \in Int, NEW b1 \in Int, NEW c \in Int, NEW z0 \in Int, NEW z1 \in Int,
           NEW d \in Int, NEW e \in Int, d = x - (a0 + a1), e = y - (b0 + b1)
    PROVE  ((((0 + d * b0) + e * a0) + c) + (-z0))
             + ((((d * e + d * b1) + e * a1) + ((a0 + a1) * (b0 + b1) - c)) + (-z1))
             = x * y - (z0 + z1)
<1>1. PICK a, b \in Int : a = a0 + a1 /\ b = b0 + b1
  OBVIOUS
<1>2. d * b0 + d * b1 = d * b /\ e * a0 + e * a1 = e * a
  BY <1>1
<1>3. ((((0 + d * b0) + e * a0) + c) + (-z0)) + ((((d * e + d * b1) + e * a1) + (a * b - c)) + (-z1))
        = d * e + d * b + e * a + a * b - (z0 + z1)
  <2>1. ASSUME NEW p0 \in Int, NEW p1 \in Int, NEW q0 \in Int, NEW q1 \in Int,
               NEW de \in Int, NEW ab \in Int
        PROVE  ((((0 + p0) + q0) + c) + (-z0)) + ((((de + p1) + q1) + (ab - c)) + (-z1))
                 = de + (p0 + p1) + (q0 + q1) + ab - (z0 + z1)
    OBVIOUS
  <2>2. /\ d * b0 \in Int /\ d * b1 \in Int /\ e * a0 \in Int /\ e * a1 \in Int
        /\ d * e \in Int /\ a * b \in Int
    BY <1>1
  <2> QED BY <1>2, <2>1, <2>2
<1>4. d * e + d * b + e * a + a * b = (d + a) * (e + b)
  BY <1>1
<1>5. d + a = x /\ e + b = y
  BY <1>1
<1>6. d * e + d * b + e * a + a * b - (z0 + z1) = x * y - (z0 + z1)
  BY <1>4, <1>5
<1> QED BY <1>1, <1>3, <1>6

(* The two servers' parts of one product add up to it. *)
LEMMA ProductStands ==
    ASSUME type \in Type, check \in Inputs, NEW i \in Check
    PROVE  \E p0, p1 \in Int : /\ Stands(Loose, OutTerm(0, i), p0)
                              /\ Stands(Loose, OutTerm(1, i), p1)
                              /\ p0 + p1 = Product(i)
<1>1. PICK x0, x1, y0, y1, z0, z1, r :
        /\ x0 = MulState.xs[i][0] /\ x1 = MulState.xs[i][1]
        /\ y0 = MulState.ys[i][0] /\ y1 = MulState.ys[i][1]
        /\ z0 = MulState.zs[i][0] /\ z1 = MulState.zs[i][1] /\ r = MulState.rs[i]
  OBVIOUS
<1>2. /\ Stands(Raw, x0, x0) /\ Stands(Raw, x1, x1) /\ Stands(Raw, y0, y0) /\ Stands(Raw, y1, y1)
      /\ Stands(Raw, z0, z0) /\ Stands(Raw, z1, z1) /\ Stands(Raw, r, r)
  BY <1>1, OperandsStand DEF Server
<1>3. PICK a0, a1, b0, b1, C \in Int :
        /\ Triple(i).a[0] = a0 /\ Triple(i).a[1] = a1
        /\ Triple(i).b[0] = b0 /\ Triple(i).b[1] = b1
        /\ Stands(Raw, a0, a0) /\ Stands(Raw, a1, a1)
        /\ Stands(Raw, b0, b0) /\ Stands(Raw, b1, b1)
        /\ Stands(Raw, Triple(i).c[0], C)
        /\ Stands(Raw, Triple(i).c[1], (a0 + a1) * (b0 + b1) - C)
  BY TripleStands
<1>4. PICK c0, c1 : c0 = Triple(i).c[0] /\ c1 = Triple(i).c[1]
  OBVIOUS
<1>5. /\ x0 \in Int /\ x1 \in Int /\ y0 \in Int /\ y1 \in Int /\ z0 \in Int /\ z1 \in Int
      /\ r \in Int
  BY <1>2 DEF Stands
<1>6. PICK d, e : /\ d = Opening(MulState.xs[i], Triple(i).a)
                  /\ e = Opening(MulState.ys[i], Triple(i).b)
  OBVIOUS
<1>7. PICK D, E \in Int : D = (x0 - a0) + (x1 - a1) /\ E = (y0 - b0) + (y1 - b1)
  BY <1>5
<1>8. Stands(Loose, d, D) /\ Stands(Loose, e, E)
  <2>1. Stands(Loose, Opening(MulState.xs[i], Triple(i).a), (x0 - a0) + (x1 - a1))
    BY <1>1, <1>2, <1>3, OpeningStands
  <2>2. Stands(Loose, Opening(MulState.ys[i], Triple(i).b), (y0 - b0) + (y1 - b1))
    BY <1>1, <1>2, <1>3, OpeningStands
  <2> QED BY <1>6, <1>7, <2>1, <2>2
<1>9. /\ OutTerm(0, i) = TermOf(0, d, e, a0, b0, c0, z0, r)
      /\ OutTerm(1, i) = TermOf(1, d, e, a1, b1, c1, z1, r)
  BY <1>1, <1>3, <1>4, <1>6, Zenon DEF OutTerm, TermOf
<1>10. PICK t0, t1 : /\ t0 = (((0 + D * b0) + E * a0) + C) + (-z0)
                     /\ t1 = (((D * E + D * b1) + E * a1) + ((a0 + a1) * (b0 + b1) - C)) + (-z1)
  OBVIOUS
<1>11. /\ Stands(Loose, OutTerm(0, i), t0 * r)
       /\ Stands(Loose, OutTerm(1, i), t1 * r)
  <2>1. 0 \in Server /\ 1 \in Server
    BY DEF Server
  <2>2. PICK F \in Int : F = (a0 + a1) * (b0 + b1) - C
    BY <1>3 DEF Stands
  <2>3. Stands(Loose, TermOf(0, d, e, a0, b0, c0, z0, r),
               (((((IF 0 = 1 THEN D * E ELSE 0) + D * b0) + E * a0) + C) + (-z0)) * r)
    BY <1>2, <1>3, <1>4, <1>8, <2>1, TermStands
  <2>4. Stands(Loose, TermOf(1, d, e, a1, b1, c1, z1, r),
               (((((IF 1 = 1 THEN D * E ELSE 0) + D * b1) + E * a1) + F) + (-z1)) * r)
    <3>1. Stands(Raw, c1, F)
      BY <1>3, <1>4, <2>2
    <3> QED BY <1>2, <1>3, <1>8, <2>1, <3>1, TermStands
  <2>5. (IF 0 = 1 THEN D * E ELSE 0) = 0 /\ (IF 1 = 1 THEN D * E ELSE 0) = D * E
    OBVIOUS
  <2> QED BY <1>9, <1>10, <2>2, <2>3, <2>4, <2>5
<1>12. t0 \in Int /\ t1 \in Int
  <2>1. D * b0 \in Int /\ E * a0 \in Int /\ D * E \in Int /\ D * b1 \in Int /\ E * a1 \in Int
        /\ (a0 + a1) * (b0 + b1) \in Int
    OBVIOUS
  <2> QED BY <1>5, <1>10, <2>1
<1>13. t0 * r + t1 * r = Product(i)
  <2>1. PICK x, y \in Int : x = x0 + x1 /\ y = y0 + y1
    BY <1>5
  <2>2. D = x - (a0 + a1) /\ E = y - (b0 + b1)
    BY <1>5, <1>7, <2>1
  <2>3. t0 + t1 = x * y - (z0 + z1)
    BY <1>5, <1>10, <2>1, <2>2, Beaver
  <2>4. Product(i) = (x * y - (z0 + z1)) * r
    BY <1>1, <2>1 DEF Product
  <2>5. t0 * r + t1 * r = (t0 + t1) * r
    BY <1>5, <1>12
  <2> QED BY <2>3, <2>4, <2>5
<1>14. t0 * r \in Int /\ t1 * r \in Int
  BY <1>5, <1>12
<1> QED BY <1>11, <1>13, <1>14

(* A server's share stands for the sum of its parts. *)
LEMMA ShareStands ==
    ASSUME type \in Type, NEW s \in Server, NEW p \in Int, NEW q \in Int, NEW u \in Int,
           Stands(Loose, OutTerm(s, 1), p), Stands(Loose, OutTerm(s, 2), q),
           Stands(Loose, OutTerm(s, 3), u)
    PROVE  Stands(Canonical, OutShare(s), p + q + u)
<1>1. Stands(Loose, 0, 0)
  BY WordTypes, StandsForItself
<1>2. Stands(Loose, AddLazy(0, OutTerm(s, 1)), 0 + p)
  BY <1>1, LazyStands
<1>3. Stands(Loose, AddLazy(AddLazy(0, OutTerm(s, 1)), OutTerm(s, 2)), (0 + p) + q)
  BY <1>2, LazyStands
<1>4. Stands(Loose, AddLazy(AddLazy(AddLazy(0, OutTerm(s, 1)), OutTerm(s, 2)), OutTerm(s, 3)),
             ((0 + p) + q) + u)
  BY <1>3, LazyStands
<1>5. Stands(Canonical, OutShare(s), ((0 + p) + q) + u)
  BY <1>4, ReducedStands DEF OutShare
<1>6. ((0 + p) + q) + u = p + q + u
  OBVIOUS
<1> QED BY <1>5, <1>6

LEMMA AnswerStands ==
    ASSUME type \in Type, check \in Inputs
    PROVE  /\ Answer \in Int
           /\ OutShare(0) \in Canonical /\ OutShare(1) \in Canonical
           /\ Same(OutShare(0) + OutShare(1), Answer, Order)
<1>1. 1 \in Check /\ 2 \in Check /\ 3 \in Check /\ 0 \in Server /\ 1 \in Server
  BY DEF Check, Server
<1>2. PICK p0, p1 \in Int : /\ Stands(Loose, OutTerm(0, 1), p0) /\ Stands(Loose, OutTerm(1, 1), p1)
                            /\ p0 + p1 = Product(1)
  BY <1>1, ProductStands
<1>3. PICK q0, q1 \in Int : /\ Stands(Loose, OutTerm(0, 2), q0) /\ Stands(Loose, OutTerm(1, 2), q1)
                            /\ q0 + q1 = Product(2)
  BY <1>1, ProductStands
<1>4. PICK u0, u1 \in Int : /\ Stands(Loose, OutTerm(0, 3), u0) /\ Stands(Loose, OutTerm(1, 3), u1)
                            /\ u0 + u1 = Product(3)
  BY <1>1, ProductStands
<1>5. /\ Stands(Canonical, OutShare(0), p0 + q0 + u0)
      /\ Stands(Canonical, OutShare(1), p1 + q1 + u1)
  BY <1>1, <1>2, <1>3, <1>4, ShareStands
<1>6. (p0 + q0 + u0) + (p1 + q1 + u1) = Answer /\ Answer \in Int
  BY <1>2, <1>3, <1>4 DEF Answer
<1>7. Same(OutShare(0) + OutShare(1), (p0 + q0 + u0) + (p1 + q1 + u1), Order)
  <2>1. OutShare(0) \in Int /\ OutShare(1) \in Int
        /\ Same(OutShare(0), p0 + q0 + u0, Order) /\ Same(OutShare(1), p1 + q1 + u1, Order)
    BY <1>5, WordTypes DEF Stands
  <2> QED BY <2>1, OrderType, SameSum
<1> QED BY <1>5, <1>6, <1>7 DEF Stands

LEMMA AnswerStays == UNCHANGED <<type, check>> => Answer' = Answer
BY TypeStays DEF Answer, Product, MulState, Drawn, Tape

LEMMA OutSharesKeeps ==
    ASSUME JobInv, OutShares
    PROVE  JobInv'
<1>1. /\ phase = "check" /\ phase' = "answered"
      /\ acc' = [s \in Server |-> OutShare(s)]
      /\ UNCHANGED <<type, clients, keys, word, check, out, want>>
  BY DEF OutShares
<1>2. JobTyped /\ check \in Inputs /\ type \in Type
  BY <1>1 DEF JobInv, JobTyped
<1>3. acc'[0] = OutShare(0) /\ acc'[1] = OutShare(1)
  BY <1>1 DEF Server
<1>4. acc' \in [Server -> Canonical] /\ acc' \in [Server -> Loose]
  <2>1. \A s \in Server : OutShare(s) \in Canonical
    BY <1>2, AnswerStands DEF Server
  <2> QED BY <1>1, <1>2, <2>1, WordTypes
<1>5. Same(acc'[0] + acc'[1], Answer, Order)
  BY <1>2, <1>3, AnswerStands
<1>6. JobTyped'
  BY <1>1, <1>2, <1>4, TypeStays DEF JobTyped
<1>7. Answer' = Answer
  BY <1>1, AnswerStays
<1> QED BY <1>1, <1>2, <1>4, <1>5, <1>6, <1>7, TypeStays DEF JobInv

LEMMA VerifyKeeps ==
    ASSUME JobInv, Verify
    PROVE  JobInv'
<1>1. /\ phase = "answered" /\ phase' = "verified"
      /\ out' = Verified(acc[0], acc[1])
      /\ want' = Answer % Order
      /\ UNCHANGED <<type, clients, keys, word, acc, check>>
  BY DEF Verify, Answer
<1>2. /\ JobTyped /\ type \in Type /\ check \in Inputs /\ acc \in [Server -> Canonical]
      /\ Same(acc[0] + acc[1], Answer, Order)
  BY <1>1 DEF JobInv, JobTyped
<1>3. Answer \in Int
  BY <1>2, AnswerStands
<1>4. /\ want' \in 0..(Order - 1) /\ want' \in Int /\ Same(Answer, want', Order)
  <2>1. want' \in 0..(Order - 1) /\ Same(want', Answer, Order)
    BY <1>1, <1>2, <1>3, OrderType, SameRemainder
  <2>2. want' \in Int
    BY <1>2, <2>1, OrderType
  <2> QED BY <1>2, <1>3, <2>1, <2>2, OrderType, SameSymmetric
<1>5. Stands(Canonical, out', want')
  <2>1. /\ Stands(Loose, acc[0], acc[0]) /\ Stands(Loose, acc[1], acc[1])
        /\ acc[0] \in Int /\ acc[1] \in Int /\ acc[0] + acc[1] \in Int
    BY <1>2, AccTyped DEF Server
  <2>2. Same(acc[0] + acc[1], want', Order)
    BY <1>2, <1>3, <1>4, <2>1, OrderType, SameTransitive
  <2>3. Stands(Canonical, Verified(acc[0], acc[1]), acc[0] + acc[1])
    BY <1>2, <2>1, AddStands DEF Verified
  <2>4. Stands(Canonical, Verified(acc[0], acc[1]), want')
    BY <1>2, <1>4, <2>1, <2>2, <2>3, StandsFor, WordTypes
  <2> QED BY <1>1, <2>4
<1>6. JobTyped'
  BY <1>1, <1>2, <1>4, TypeStays DEF JobTyped
<1> QED BY <1>1, <1>2, <1>5, <1>6, TypeStays DEF JobInv, Stands

LEMMA StutterKeeps ==
    ASSUME JobInv, UNCHANGED jobVars
    PROVE  JobInv'
<1>1. /\ UNCHANGED <<type, phase, clients, keys, word, acc, check, out, want>>
  BY DEF jobVars
<1>2. Answer' = Answer
  BY <1>1, AnswerStays
<1> QED BY <1>1, <1>2, TypeStays DEF JobInv, JobTyped, Bounded, Stands

LEMMA StepKeeps == JobInv /\ [Next]_vars => JobInv'
<1> SUFFICES ASSUME JobInv, [Next]_vars PROVE JobInv'
  OBVIOUS
<1>1. CASE UNCHANGED jobVars
  BY <1>1, StutterKeeps
<1>2. CASE GenOnPath
  BY <1>2, GenOnPathKeeps
<1>3. CASE GenOffPath
  BY <1>3, GenOffPathKeeps
<1>4. CASE EvalBit
  BY <1>4, EvalBitKeeps
<1>5. CASE AddToNode
  BY <1>5, AddToNodeKeeps
<1>6. CASE KeepValues
  BY <1>6, KeepValuesKeeps
<1>7. CASE OutShares
  BY <1>7, OutSharesKeeps
<1>8. CASE Verify
  BY <1>8, VerifyKeeps
<1>9. UNCHANGED vars => UNCHANGED jobVars
  BY DEF vars
<1> QED BY <1>1, <1>2, <1>3, <1>4, <1>5, <1>6, <1>7, <1>8, <1>9 DEF Next, JobNext, Finished

(* At every phase of the two jobs the words stand for what they should. *)
THEOREM JobsStand == Spec => []JobInv
<1>1. Init => JobInv
  BY InitJob
<1>2. JobInv /\ [Next]_vars => JobInv'
  BY StepKeeps
<1> QED BY <1>1, <1>2, PTL DEF Spec

(* On the way to the openings, shares are subtracted and negated in range. *)
LEMMA DifferencesStand ==
    ASSUME type \in Type, check \in Inputs, NEW s \in Server
    PROVE  Differences(s) \subseteq Raw
<1> SUFFICES ASSUME NEW i \in Check
             PROVE  /\ Sub(MulState.xs[i][s], Triple(i).a[s]) \in Raw
                    /\ Sub(MulState.ys[i][s], Triple(i).b[s]) \in Raw
                    /\ Triple(i).c[s] \in Raw /\ Negate(MulState.zs[i][s]) \in Raw
  BY DEF Differences
<1>1. PICK x, y, z : /\ x = MulState.xs[i][s] /\ y = MulState.ys[i][s] /\ z = MulState.zs[i][s]
                     /\ Stands(Raw, x, x) /\ Stands(Raw, y, y) /\ Stands(Raw, z, z)
  BY OperandsStand
<1>2. PICK a, b, c, C : /\ a = Triple(i).a[s] /\ b = Triple(i).b[s] /\ c = Triple(i).c[s]
                        /\ Stands(Raw, a, a) /\ Stands(Raw, b, b) /\ Stands(Raw, c, C)
  BY TripleStands DEF Server
<1>3. Stands(Raw, Sub(x, a), x - a) /\ Stands(Raw, Sub(y, b), y - b) /\ Stands(Raw, Negate(z), -z)
  BY <1>1, <1>2, SubStands, NegateStands
<1> QED BY <1>1, <1>2, <1>3 DEF Stands

LEMMA RangeFromInv == JobInv => RawInRange
<1> SUFFICES ASSUME JobInv PROVE RawInRange
  OBVIOUS
<1>1. JobTyped /\ type \in Type
  BY DEF JobInv, JobTyped
<1>2. ASSUME NEW s \in Server
      PROVE  IF type = "FieldElm" THEN acc[s] \in 0..(NClients * Modulus) ELSE acc[s] \in Raw
  <2>1. Modulus \in Nat /\ NClients \in Nat /\ 1 <= NClients
    BY <1>1, OrderType, ClientsAssumption
  <2>2. CASE phase \in {"node", "key", "word"}
    <3>1. Bounded(clients) /\ clients \in Nat /\ clients <= NClients
      BY <1>1, <2>1, <2>2 DEF JobInv, JobTyped
    <3>2. CASE type = "FieldElm"
      <4>1. acc[s] \in 0..(clients * Modulus)
        BY <3>1, <3>2 DEF Bounded
      <4>2. PICK k \in Nat : NClients = clients + k
        <5>1. NClients - clients \in Nat /\ NClients = clients + (NClients - clients)
          BY <2>1, <3>1
        <5> QED BY <5>1
      <4>3. /\ NClients * Modulus = clients * Modulus + k * Modulus
            /\ clients * Modulus \in Nat /\ k * Modulus \in Nat
        BY <2>1, <3>1, <4>2
      <4> QED BY <3>2, <4>1, <4>3
    <3>3. CASE type # "FieldElm"
      BY <3>1, <3>3 DEF Bounded
    <3> QED BY <3>2, <3>3
  <2>3. CASE phase \notin {"node", "key", "word"}
    <3>1. acc[s] \in Canonical
      BY <1>1, <2>3 DEF JobInv, JobTyped
    <3>2. CASE type = "FieldElm"
      <4>1. acc[s] \in 0..(Modulus - 1)
        BY <1>1, <3>1, <3>2, WordTypes
      <4>2. PICK k \in Nat : NClients = 1 + k
        <5>1. NClients - 1 \in Nat /\ NClients = 1 + (NClients - 1)
          BY <2>1
        <5> QED BY <5>1
      <4>3. NClients * Modulus = Modulus + k * Modulus /\ k * Modulus \in Nat
        BY <2>1, <4>2
      <4> QED BY <2>1, <3>2, <4>1, <4>3
    <3>3. CASE type # "FieldElm"
      BY <1>1, <3>1, <3>3, WordTypes
    <3> QED BY <3>2, <3>3
  <2> QED BY <2>2, <2>3
<1>3. ASSUME phase = "check", NEW s \in Server PROVE Differences(s) \subseteq Raw
  BY <1>1, <1>3, DifferencesStand DEF JobInv
<1> QED BY <1>1, <1>2, <1>3 DEF RawInRange, JobTyped, NodeKey

LEMMA ComparedFromInv == JobInv => CountCanonical /\ ZeroRecognized
<1> SUFFICES ASSUME JobInv, phase \in {"counted", "verified"} PROVE Compared(out) = want
  BY DEF CountCanonical, ZeroRecognized
<1>1. type \in Type /\ want \in 0..(Order - 1) /\ Stands(Canonical, out, want)
  BY DEF JobInv, JobTyped
<1> QED BY <1>1, ComparedIs

(* No BigUint goes below zero, no u64 reaches its modulus, and a sum of unreduced
   words is below one modulus for each client, in the orders of calls of the count
   and of the check (field.rs; make_tree_node's add_lazy). *)
THEOREM RawStaysInRange == Spec => []RawInRange
BY JobsStand, RangeFromInv, PTL

(* What is compared with the threshold is the canonical count, and what is
   compared with zero is zero exactly when the sum of the check is: for every
   modulus, every number of clients and all three types (keep_values, verify). *)
THEOREM ComparisonsExact == Spec => [](CountCanonical /\ ZeroRecognized)
BY JobsStand, ComparedFromInv, PTL
=============================================================================
