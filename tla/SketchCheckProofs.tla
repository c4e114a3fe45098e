------------------------- MODULE SketchCheckProofs -------------------------
(***************************************************************************)
(* The joint check of SketchCheck opens to the check in the clear, accepts *)
(* what an honest client sends and never uses a triple twice, over any     *)
(* commutative ring, for any number of levels and any frontier width; over *)
(* a field no malformed key passes with every draw.                        *)
(***************************************************************************)
EXTENDS SketchCheck, WellFoundedInduction, TLAPS

-----------------------------------------------------------------------------
(* The ring. *)

(* The laws of the ring, one by one. *)
LEMMA RingLaws ==
    /\ Zero \in Elem /\ One \in Elem
    /\ \A x \in Elem : Neg(x) \in Elem
    /\ \A x, y \in Elem : Add(x, y) \in Elem /\ Mul(x, y) \in Elem
    /\ \A x, y \in Elem : Add(x, y) = Add(y, x) /\ Mul(x, y) = Mul(y, x)
    /\ \A x, y, z \in Elem : Add(x, Add(y, z)) = Add(Add(x, y), z)
    /\ \A x, y, z \in Elem : Mul(x, Mul(y, z)) = Mul(Mul(x, y), z)
    /\ \A x, y, z \in Elem : Mul(x, Add(y, z)) = Add(Mul(x, y), Mul(x, z))
    /\ \A x \in Elem : Add(x, Neg(x)) = Zero /\ Add(Neg(x), x) = Zero
    /\ \A x \in Elem : Add(x, Zero) = x /\ Add(Zero, x) = x
    /\ \A x \in Elem : Mul(x, Zero) = Zero /\ Mul(Zero, x) = Zero
    /\ \A x \in Elem : Mul(x, One) = x /\ Mul(One, x) = x
<1>1. Zero \in Elem /\ One \in Elem /\ \A x \in Elem : Neg(x) \in Elem
  BY RingAssumption
<1>2. \A x, y \in Elem : Add(x, y) \in Elem /\ Mul(x, y) \in Elem
  BY RingAssumption
<1>3. \A x, y \in Elem : Add(x, y) = Add(y, x) /\ Mul(x, y) = Mul(y, x)
  BY RingAssumption
<1>4. \A x, y, z \in Elem : Add(x, Add(y, z)) = Add(Add(x, y), z)
  BY RingAssumption
<1>5. \A x, y, z \in Elem : Mul(x, Mul(y, z)) = Mul(Mul(x, y), z)
  BY RingAssumption
<1>6. \A x, y, z \in Elem : Mul(x, Add(y, z)) = Add(Mul(x, y), Mul(x, z))
  BY RingAssumption
<1>7. \A x \in Elem : Add(x, Neg(x)) = Zero /\ Add(x, Zero) = x
                     /\ Mul(x, Zero) = Zero /\ Mul(x, One) = x
  BY RingAssumption
<1>8. \A x \in Elem : Add(Neg(x), x) = Zero /\ Add(Zero, x) = x
                     /\ Mul(Zero, x) = Zero /\ Mul(One, x) = x
  <2> SUFFICES ASSUME NEW x \in Elem
               PROVE  Add(Neg(x), x) = Zero /\ Add(Zero, x) = x
                      /\ Mul(Zero, x) = Zero /\ Mul(One, x) = x
    OBVIOUS
  <2>1. Add(Neg(x), x) = Add(x, Neg(x)) /\ Add(Zero, x) = Add(x, Zero)
    BY <1>1, <1>3
  <2>2. Mul(Zero, x) = Mul(x, Zero) /\ Mul(One, x) = Mul(x, One)
    BY <1>1, <1>3
  <2> QED BY <1>7, <2>1, <2>2
<1> QED BY <1>1, <1>2, <1>3, <1>4, <1>5, <1>6, <1>7, <1>8

(* The parts of them a step needs most. *)
LEMMA Closed ==
    /\ Zero \in Elem /\ One \in Elem
    /\ \A x \in Elem : Neg(x) \in Elem
    /\ \A x, y \in Elem : Add(x, y) \in Elem /\ Mul(x, y) \in Elem
BY RingLaws

LEMMA MulAssoc == \A x, y, z \in Elem : Mul(Mul(x, y), z) = Mul(x, Mul(y, z))
BY RingLaws

LEMMA MulLeft == \A x, y, z \in Elem : Mul(x, Add(y, z)) = Add(Mul(x, y), Mul(x, z))
BY RingLaws

LEMMA Units == \A x \in Elem : /\ Add(x, Zero) = x /\ Add(Zero, x) = x
                              /\ Mul(x, Zero) = Zero /\ Mul(Zero, x) = Zero
                              /\ Mul(x, One) = x /\ Mul(One, x) = x
BY RingLaws

(* Two sums of two are added crosswise: the shares of each summand meet. *)
LEMMA AddSwap ==
    ASSUME NEW a \in Elem, NEW b \in Elem, NEW c \in Elem, NEW d \in Elem
    PROVE  Add(Add(a, b), Add(c, d)) = Add(Add(a, c), Add(b, d))
<1>1. Add(Add(a, b), Add(c, d)) = Add(a, Add(b, Add(c, d)))
  BY RingLaws
<1>2. Add(b, Add(c, d)) = Add(c, Add(b, d))
  <2>1. Add(b, Add(c, d)) = Add(Add(b, c), d) /\ Add(c, Add(b, d)) = Add(Add(c, b), d)
    BY RingLaws
  <2> QED BY <2>1, RingLaws
<1>3. Add(a, Add(c, Add(b, d))) = Add(Add(a, c), Add(b, d))
  BY RingLaws
<1> QED BY <1>1, <1>2, <1>3

LEMMA MulRight ==
    ASSUME NEW x \in Elem, NEW y \in Elem, NEW z \in Elem
    PROVE  Mul(Add(x, y), z) = Add(Mul(x, z), Mul(y, z))
<1>1. Mul(Add(x, y), z) = Mul(z, Add(x, y))
  BY RingLaws
<1>2. Mul(z, Add(x, y)) = Add(Mul(z, x), Mul(z, y))
  BY RingLaws
<1>3. Mul(z, x) = Mul(x, z) /\ Mul(z, y) = Mul(y, z)
  BY RingLaws
<1> QED BY <1>1, <1>2, <1>3

(* What is added to x to make zero is Neg(x). *)
LEMMA NegUnique ==
    ASSUME NEW x \in Elem, NEW y \in Elem, Add(x, y) = Zero
    PROVE  y = Neg(x)
<1>1. Add(Neg(x), Add(x, y)) = Neg(x)
  BY RingLaws
<1>2. Add(Neg(x), Add(x, y)) = Add(Add(Neg(x), x), y)
  BY RingLaws
<1>3. Add(Add(Neg(x), x), y) = y
  BY RingLaws
<1> QED BY <1>1, <1>2, <1>3

LEMMA NegAdd ==
    ASSUME NEW x \in Elem, NEW y \in Elem
    PROVE  Neg(Add(x, y)) = Add(Neg(x), Neg(y))
<1>1. /\ Add(x, y) \in Elem /\ Neg(x) \in Elem /\ Neg(y) \in Elem
      /\ Add(Neg(x), Neg(y)) \in Elem
  BY RingLaws
<1>2. Add(Add(x, y), Add(Neg(x), Neg(y))) = Add(Add(x, Neg(x)), Add(y, Neg(y)))
  BY <1>1, AddSwap
<1>3. Add(Add(x, Neg(x)), Add(y, Neg(y))) = Zero
  BY RingLaws
<1> QED BY <1>1, <1>2, <1>3, NegUnique

(* A difference and its subtrahend add up again. *)
LEMMA SubAdd ==
    ASSUME NEW x \in Elem, NEW y \in Elem
    PROVE  Sub(x, y) \in Elem /\ Add(Sub(x, y), y) = x /\ Add(y, Sub(x, y)) = x
<1>1. Sub(x, y) \in Elem /\ Neg(y) \in Elem
  BY RingLaws DEF Sub
<1>2. Add(Sub(x, y), y) = Add(x, Add(Neg(y), y))
  BY <1>1, RingLaws DEF Sub
<1>3. Add(x, Add(Neg(y), y)) = x
  BY RingLaws
<1>4. Add(y, Sub(x, y)) = Add(Sub(x, y), y)
  BY <1>1, RingLaws
<1> QED BY <1>1, <1>2, <1>3, <1>4

(* Differences are added component by component. *)
LEMMA SubSwap ==
    ASSUME NEW a \in Elem, NEW b \in Elem, NEW c \in Elem, NEW d \in Elem
    PROVE  Add(Sub(a, c), Sub(b, d)) = Sub(Add(a, b), Add(c, d))
<1>1. Neg(c) \in Elem /\ Neg(d) \in Elem
  BY RingLaws
<1>2. Add(Add(a, Neg(c)), Add(b, Neg(d))) = Add(Add(a, b), Add(Neg(c), Neg(d)))
  BY <1>1, AddSwap
<1>3. Add(Neg(c), Neg(d)) = Neg(Add(c, d))
  BY NegAdd
<1> QED BY <1>2, <1>3 DEF Sub

(* A shared value opens to itself (lib.rs share). *)
LEMMA ShareOpens ==
    ASSUME NEW v \in Elem, NEW mask \in Elem
    PROVE  Share(v, mask) \in [Server -> Elem] /\ Open(Share(v, mask)) = v
<1>1. Sub(v, mask) \in Elem /\ Add(mask, Sub(v, mask)) = v
  BY SubAdd
<1>2. Share(v, mask)[0] = mask /\ Share(v, mask)[1] = Sub(v, mask)
  BY DEF Share, Server
<1> QED BY <1>1, <1>2 DEF Share, Server, Open

-----------------------------------------------------------------------------
(* Sums over a frontier.  Induction is had from the least number that is not
   in the set of those for which a claim holds. *)

(* A set of numbers with 0, and with n + 1 for each n in it, has them all. *)
LEMMA SetInduction ==
    ASSUME NEW S, 0 \in S, \A n \in Nat : n \in S => n + 1 \in S
    PROVE  \A n \in Nat : n \in S
<1> DEFINE T == Nat \ S
<1> SUFFICES ASSUME T # {} PROVE FALSE
  OBVIOUS
<1>1. T \subseteq Nat
  OBVIOUS
<1>2. PICK n \in T : \A m \in T : ~ (<<m, n>> \in OpToRel(<, Nat))
  <2> HIDE DEF T
  <2> QED BY <1>1, NatLessThanWellFounded, WFMin
<1>3. n \in Nat /\ n \notin S /\ n # 0 /\ n - 1 \in Nat /\ n - 1 < n
  OBVIOUS
<1>4. <<n - 1, n>> \in OpToRel(<, Nat)
  BY <1>3 DEF OpToRel
<1>5. n - 1 \in S
  BY <1>2, <1>3, <1>4
<1> QED BY <1>3, <1>5

IsSums(f, r, v) ==
    f = [j \in 0..Len(v) |-> IF j = 0 THEN Zero ELSE Add(f[j - 1], Mul(v[j], r[j]))]

Row(n) == [1..n -> Elem]

(* There is a function of running sums, so DotSums is one. *)
LEMMA SumsExist ==
    ASSUME NEW w \in Nat, NEW r \in Row(w), NEW v \in Seq(Elem), Len(v) <= w
    PROVE  \E f \in [0..Len(v) -> Elem] : IsSums(f, r, v)
<1> DEFINE Good(f, n) == \A j \in 0..n : f[j] = IF j = 0 THEN Zero ELSE Add(f[j - 1], Mul(v[j], r[j]))
           S == {n \in Nat : n <= Len(v) => \E f \in [0..n -> Elem] : Good(f, n)}
<1>1. 0 \in S
  <2>1. [j \in 0..0 |-> Zero] \in [0..0 -> Elem]
    BY RingLaws
  <2>2. Good([j \in 0..0 |-> Zero], 0)
    OBVIOUS
  <2> QED BY <2>1, <2>2
<1>2. ASSUME NEW n \in Nat, n \in S PROVE n + 1 \in S
  <2> SUFFICES ASSUME n + 1 <= Len(v)
               PROVE  \E f \in [0..(n + 1) -> Elem] : Good(f, n + 1)
    OBVIOUS
  <2>1. PICK f \in [0..n -> Elem] : Good(f, n)
    BY <1>2
  <2>2. v[n + 1] \in Elem /\ r[n + 1] \in Elem
    BY DEF Row
  <2>3. Add(f[n], Mul(v[n + 1], r[n + 1])) \in Elem
    <3>1. f[n] \in Elem
      BY <2>1
    <3> QED BY <2>2, <3>1, Closed
  <2> DEFINE g == [j \in 0..(n + 1) |->
                      IF j = n + 1 THEN Add(f[n], Mul(v[n + 1], r[n + 1])) ELSE f[j]]
  <2>4. g \in [0..(n + 1) -> Elem]
    BY <2>3
  <2>5. g[n + 1] = Add(g[n], Mul(v[n + 1], r[n + 1]))
    OBVIOUS
  <2>6. ASSUME NEW j \in 0..n
        PROVE  g[j] = IF j = 0 THEN Zero ELSE Add(g[j - 1], Mul(v[j], r[j]))
    <3>1. g[j] = f[j] /\ (j # 0 => g[j - 1] = f[j - 1])
      OBVIOUS
    <3> HIDE DEF g
    <3> QED BY <2>1, <3>1
  <2>7. Good(g, n + 1)
    <3> SUFFICES ASSUME NEW j \in 0..(n + 1)
                 PROVE  g[j] = IF j = 0 THEN Zero ELSE Add(g[j - 1], Mul(v[j], r[j]))
      OBVIOUS
    <3>1. CASE j = n + 1
      <4> HIDE DEF g
      <4> QED BY <2>5, <3>1
    <3>2. CASE j # n + 1
      <4>1. j \in 0..n
        BY <3>2
      <4> HIDE DEF g
      <4> QED BY <2>6, <4>1
    <3> QED BY <3>1, <3>2
  <2> HIDE DEF g
  <2> QED BY <2>4, <2>7
<1>3. Len(v) \in S
  <2> HIDE DEF S
  <2> QED BY <1>1, <1>2, SetInduction
<1>4. PICK f \in [0..Len(v) -> Elem] : Good(f, Len(v))
  BY <1>3
<1>5. IsSums(f, r, v)
  BY <1>4 DEF IsSums
<1> QED BY <1>5

LEMMA DotSumsFact ==
    ASSUME NEW w \in Nat, NEW r \in Row(w), NEW v \in Seq(Elem), Len(v) <= w
    PROVE  /\ DotSums(r, v)[0] = Zero
           /\ \A j \in 1..Len(v) : DotSums(r, v)[j] = Add(DotSums(r, v)[j - 1], Mul(v[j], r[j]))
<1>1. DotSums(r, v) = CHOOSE f : IsSums(f, r, v)
  BY DEF DotSums, IsSums
<1>2. \E f : IsSums(f, r, v)
  BY SumsExist
<1>3. IsSums(DotSums(r, v), r, v)
  BY <1>1, <1>2
<1> DEFINE f == DotSums(r, v)
<1>4. \A j \in 0..Len(v) : f[j] = IF j = 0 THEN Zero ELSE Add(f[j - 1], Mul(v[j], r[j]))
  <2> HIDE DEF f
  <2> SUFFICES ASSUME IsSums(f, r, v)
               PROVE  \A j \in 0..Len(v) : f[j] = IF j = 0 THEN Zero ELSE Add(f[j - 1], Mul(v[j], r[j]))
    BY <1>3 DEF f
  <2> DEFINE g == [j \in 0..Len(v) |-> IF j = 0 THEN Zero ELSE Add(f[j - 1], Mul(v[j], r[j]))]
  <2>1. f = g
    BY DEF IsSums
  <2>2. \A j \in 0..Len(v) : g[j] = IF j = 0 THEN Zero ELSE Add(f[j - 1], Mul(v[j], r[j]))
    OBVIOUS
  <2> HIDE DEF g
  <2> QED BY <2>1, <2>2
<1>5. Len(v) \in Nat
  OBVIOUS
<1> HIDE DEF f
<1>6. f[0] = Zero
  BY <1>4, <1>5
<1>7. \A j \in 1..Len(v) : f[j] = Add(f[j - 1], Mul(v[j], r[j]))
  BY <1>4, <1>5
<1> QED BY <1>6, <1>7 DEF f

(* The same, of a row of n elements. *)
LEMMA RowSums ==
    ASSUME NEW w \in Nat, NEW r \in Row(w), NEW n \in 0..w, NEW v \in Row(n)
    PROVE  /\ v \in Seq(Elem) /\ Len(v) = n
           /\ DotSums(r, v)[0] = Zero
           /\ \A j \in 1..n : DotSums(r, v)[j] = Add(DotSums(r, v)[j - 1], Mul(v[j], r[j]))
<1>1. v \in Seq(Elem) /\ Len(v) = n /\ n <= w
  BY DEF Row
<1>2. /\ DotSums(r, v)[0] = Zero
      /\ \A j \in 1..Len(v) : DotSums(r, v)[j] = Add(DotSums(r, v)[j - 1], Mul(v[j], r[j]))
  BY <1>1, DotSumsFact
<1> QED BY <1>1, <1>2

(* What an induction over the running sums has to show. *)
LEMMA SumsInduction ==
    ASSUME NEW n \in Nat, NEW S, 0 \in S, \A j \in 1..n : j - 1 \in S => j \in S
    PROVE  \A j \in 0..n : j \in S
<1> DEFINE T == {j \in Nat : j <= n => j \in S}
<1>1. 0 \in T
  OBVIOUS
<1>2. ASSUME NEW j \in Nat, j \in T PROVE j + 1 \in T
  <2> SUFFICES ASSUME j + 1 <= n PROVE j + 1 \in S
    OBVIOUS
  <2>1. j + 1 \in 1..n /\ (j + 1) - 1 = j /\ j \in S
    BY <1>2
  <2> QED BY <2>1
<1>3. \A j \in Nat : j \in T
  <2> HIDE DEF T
  <2> QED BY <1>1, <1>2, SetInduction
<1> QED BY <1>3

LEMMA DotType ==
    ASSUME NEW w \in Nat, NEW r \in Row(w), NEW v \in Seq(Elem), Len(v) <= w
    PROVE  /\ \A j \in 0..Len(v) : DotSums(r, v)[j] \in Elem
           /\ Dot(r, v) \in Elem
<1> DEFINE f == DotSums(r, v)
           S == {j \in Nat : f[j] \in Elem}
<1>1. Len(v) \in Nat
  OBVIOUS
<1>2. 0 \in S
  <2>1. f[0] = Zero
    BY DotSumsFact
  <2> QED BY <2>1, Closed
<1>3. ASSUME NEW j \in 1..Len(v), j - 1 \in S PROVE j \in S
  <2>1. f[j] = Add(f[j - 1], Mul(v[j], r[j]))
    BY DotSumsFact
  <2>2. v[j] \in Elem /\ r[j] \in Elem
    BY DEF Row
  <2>3. Mul(v[j], r[j]) \in Elem
    BY <2>2, RingLaws
  <2>4. f[j - 1] \in Elem
    BY <1>3
  <2> HIDE DEF f
  <2> QED BY <2>1, <2>3, <2>4, Closed
<1>4. \A j \in 0..Len(v) : j \in S
  <2> HIDE DEF S
  <2> QED BY <1>1, <1>2, <1>3, SumsInduction
<1>5. \A j \in 0..Len(v) : f[j] \in Elem
  BY <1>4
<1> QED BY <1>1, <1>5 DEF Dot

(* The sum is linear in what is summed: shares of a vector sum to shares. *)
LEMMA DotAdd ==
    ASSUME NEW w \in Nat, NEW r \in Row(w), NEW n \in 0..w,
           NEW v0 \in Row(n), NEW v1 \in Row(n), NEW v \in Row(n),
           \A j \in 1..n : v[j] = Add(v0[j], v1[j])
    PROVE  Dot(r, v) = Add(Dot(r, v0), Dot(r, v1))
<1>1. /\ v0 \in Seq(Elem) /\ v1 \in Seq(Elem) /\ v \in Seq(Elem)
      /\ Len(v0) = n /\ Len(v1) = n /\ Len(v) = n /\ n \in Nat /\ n <= w
  BY DEF Row
<1> DEFINE f0 == DotSums(r, v0)
           f1 == DotSums(r, v1)
           f  == DotSums(r, v)
           S == {j \in Nat : f[j] = Add(f0[j], f1[j])}
<1>2. /\ f[0] = Zero /\ f0[0] = Zero /\ f1[0] = Zero
      /\ \A j \in 1..n : /\ f[j] = Add(f[j - 1], Mul(v[j], r[j]))
                         /\ f0[j] = Add(f0[j - 1], Mul(v0[j], r[j]))
                         /\ f1[j] = Add(f1[j - 1], Mul(v1[j], r[j]))
  <2>1. f[0] = Zero /\ \A j \in 1..n : f[j] = Add(f[j - 1], Mul(v[j], r[j]))
    BY RowSums
  <2>2. f0[0] = Zero /\ \A j \in 1..n : f0[j] = Add(f0[j - 1], Mul(v0[j], r[j]))
    BY RowSums
  <2>3. f1[0] = Zero /\ \A j \in 1..n : f1[j] = Add(f1[j - 1], Mul(v1[j], r[j]))
    BY RowSums
  <2> HIDE DEF f, f0, f1
  <2> QED BY <2>1, <2>2, <2>3
<1>3. \A j \in 0..n : f0[j] \in Elem /\ f1[j] \in Elem
  BY <1>1, DotType
<1> HIDE DEF f0, f1, f
<1>4. 0 \in S
  BY <1>2, RingLaws
<1>5. ASSUME NEW j \in 1..n, j - 1 \in S PROVE j \in S
  <2>1. v0[j] \in Elem /\ v1[j] \in Elem /\ r[j] \in Elem
    BY <1>1 DEF Row
  <2>2. f0[j - 1] \in Elem /\ f1[j - 1] \in Elem
    BY <1>1, <1>3
  <2>3. Mul(v[j], r[j]) = Add(Mul(v0[j], r[j]), Mul(v1[j], r[j]))
    BY <2>1, MulRight
  <2>4. Mul(v0[j], r[j]) \in Elem /\ Mul(v1[j], r[j]) \in Elem
    BY <2>1, RingLaws
  <2>5. f[j - 1] = Add(f0[j - 1], f1[j - 1])
    BY <1>5
  <2>6. f[j] = Add(Add(f0[j - 1], f1[j - 1]), Add(Mul(v0[j], r[j]), Mul(v1[j], r[j])))
    BY <1>2, <2>3, <2>5
  <2>7. f[j] = Add(Add(f0[j - 1], Mul(v0[j], r[j])), Add(f1[j - 1], Mul(v1[j], r[j])))
    BY <2>2, <2>4, <2>6, AddSwap
  <2> QED BY <1>2, <2>7
<1>6. \A j \in 0..n : j \in S
  <2> HIDE DEF S
  <2> QED BY <1>1, <1>4, <1>5, SumsInduction
<1>7. f[n] = Add(f0[n], f1[n])
  BY <1>1, <1>6
<1> QED BY <1>1, <1>7 DEF Dot, f, f0, f1

(* A factor of every summand is a factor of the sum: the sketch of the MACs
   is the MAC of the sketch. *)
LEMMA DotScale ==
    ASSUME NEW w \in Nat, NEW r \in Row(w), NEW n \in 0..w, NEW k \in Elem,
           NEW v \in Row(n), NEW kv \in Row(n), \A j \in 1..n : kv[j] = Mul(k, v[j])
    PROVE  Dot(r, kv) = Mul(k, Dot(r, v))
<1>1. /\ v \in Seq(Elem) /\ kv \in Seq(Elem)
      /\ Len(v) = n /\ Len(kv) = n /\ n \in Nat /\ n <= w
  BY DEF Row
<1> DEFINE f == DotSums(r, v)
           g == DotSums(r, kv)
           S == {j \in Nat : g[j] = Mul(k, f[j])}
<1>2. /\ f[0] = Zero /\ g[0] = Zero
      /\ \A j \in 1..n : /\ f[j] = Add(f[j - 1], Mul(v[j], r[j]))
                         /\ g[j] = Add(g[j - 1], Mul(kv[j], r[j]))
  BY <1>1, DotSumsFact
<1>3. \A j \in 0..n : f[j] \in Elem
  BY <1>1, DotType
<1> HIDE DEF f, g
<1>4. 0 \in S
  BY <1>2, RingLaws
<1>5. ASSUME NEW j \in 1..n, j - 1 \in S PROVE j \in S
  <2>1. v[j] \in Elem /\ r[j] \in Elem /\ f[j - 1] \in Elem
    BY <1>1, <1>3 DEF Row
  <2>2. Mul(kv[j], r[j]) = Mul(k, Mul(v[j], r[j]))
    <3>1. kv[j] = Mul(k, v[j])
      OBVIOUS
    <3> QED BY <2>1, <3>1, MulAssoc
  <2>3. Mul(v[j], r[j]) \in Elem
    BY <2>1, RingLaws
  <2>4. g[j - 1] = Mul(k, f[j - 1])
    BY <1>5
  <2>5. g[j] = Add(Mul(k, f[j - 1]), Mul(k, Mul(v[j], r[j])))
    BY <1>2, <2>2, <2>4
  <2>6. Mul(k, Add(f[j - 1], Mul(v[j], r[j]))) = Add(Mul(k, f[j - 1]), Mul(k, Mul(v[j], r[j])))
    BY <2>1, <2>3, MulLeft
  <2> QED BY <1>2, <2>5, <2>6
<1>6. \A j \in 0..n : j \in S
  <2> HIDE DEF S
  <2> QED BY <1>1, <1>4, <1>5, SumsInduction
<1>7. g[n] = Mul(k, f[n])
  BY <1>1, <1>6
<1> QED BY <1>1, <1>7 DEF Dot, f, g

(* The sum over a vector that is one at i (nowhere if i is 0) is r[i]. *)
LEMMA DotUnit ==
    ASSUME NEW w \in Nat, NEW r \in Row(w), NEW n \in 0..w, NEW i \in 0..n,
           NEW v \in Row(n), \A j \in 1..n : v[j] = IF j = i THEN One ELSE Zero
    PROVE  Dot(r, v) = IF i = 0 THEN Zero ELSE r[i]
<1>1. v \in Seq(Elem) /\ Len(v) = n /\ n \in Nat /\ n <= w
  BY DEF Row
<1> DEFINE f == DotSums(r, v)
           S == {j \in Nat : f[j] = IF i = 0 \/ j < i THEN Zero ELSE r[i]}
<1>2. /\ f[0] = Zero
      /\ \A j \in 1..n : f[j] = Add(f[j - 1], Mul(v[j], r[j]))
  BY <1>1, DotSumsFact
<1> HIDE DEF f
<1>3. 0 \in S
  BY <1>2
<1>4. ASSUME NEW j \in 1..n, j - 1 \in S PROVE j \in S
  <2>1. r[j] \in Elem /\ (i # 0 => r[i] \in Elem)
    BY <1>1 DEF Row
  <2>2. CASE j = i
    <3>1. f[j - 1] = Zero
      BY <1>4, <2>2
    <3>2. Mul(v[j], r[j]) = r[j]
      BY <2>1, <2>2, Units
    <3>3. f[j] = r[j]
      <4>1. f[j] = Add(f[j - 1], Mul(v[j], r[j]))
        BY <1>2
      <4> QED BY <2>1, <3>1, <3>2, <4>1, Units
    <3> QED BY <2>2, <3>3
  <2>3. CASE j # i
    <3>1. Mul(v[j], r[j]) = Zero
      <4>1. v[j] = Zero
        BY <2>3
      <4> QED BY <2>1, <4>1, Units
    <3>2. f[j - 1] = IF i = 0 \/ j - 1 < i THEN Zero ELSE r[i]
      BY <1>4
    <3>3. f[j - 1] \in Elem
      BY <2>1, <3>2, Closed
    <3>4. f[j] = f[j - 1]
      <4>1. f[j] = Add(f[j - 1], Mul(v[j], r[j]))
        BY <1>2
      <4> QED BY <3>1, <3>3, <4>1, Units
    <3>5. (i = 0 \/ j - 1 < i) <=> (i = 0 \/ j < i)
      BY <2>3
    <3> QED BY <3>2, <3>4, <3>5
  <2> QED BY <2>2, <2>3
<1>5. \A j \in 0..n : j \in S
  <2> HIDE DEF S
  <2> QED BY <1>1, <1>3, <1>4, SumsInduction
<1>6. f[n] = IF i = 0 THEN Zero ELSE r[i]
  BY <1>1, <1>5
<1> QED BY <1>1, <1>6 DEF Dot, f

-----------------------------------------------------------------------------
(* The multiplication. *)

Pair == [Server -> Elem]

(* A product of shared values from an opened difference to a shared triple:
   the two servers' terms add up to X*Y + Z (mpc.rs out_share). *)
LEMMA Beaver ==
    ASSUME NEW a \in Pair, NEW b \in Pair, NEW c \in Pair,
           NEW x \in Pair, NEW y \in Pair, NEW z \in Pair,
           NEW d, d = Add(Sub(x[0], a[0]), Sub(x[1], a[1])),
           NEW e, e = Add(Sub(y[0], b[0]), Sub(y[1], b[1])),
           Open(c) = Mul(Open(a), Open(b))
    PROVE  Add(Add(Add(Add(Add(Zero, Mul(d, b[0])), Mul(e, a[0])), c[0]), z[0]),
               Add(Add(Add(Add(Mul(d, e), Mul(d, b[1])), Mul(e, a[1])), c[1]), z[1]))
             = Add(Mul(Open(x), Open(y)), Open(z))
<1> DEFINE a0 == a[0]
           a1 == a[1]
           b0 == b[0]
           b1 == b[1]
           c0 == c[0]
           c1 == c[1]
           x0 == x[0]
           x1 == x[1]
           y0 == y[0]
           y1 == y[1]
           z0 == z[0]
           z1 == z[1]
<1>a. /\ a0 \in Elem /\ a1 \in Elem /\ b0 \in Elem /\ b1 \in Elem
      /\ c0 \in Elem /\ c1 \in Elem /\ x0 \in Elem /\ x1 \in Elem
      /\ y0 \in Elem /\ y1 \in Elem /\ z0 \in Elem /\ z1 \in Elem
  BY DEF Pair, Server
<1>b. /\ d = Add(Sub(x0, a0), Sub(x1, a1)) /\ e = Add(Sub(y0, b0), Sub(y1, b1))
      /\ Add(c0, c1) = Mul(Add(a0, a1), Add(b0, b1))
  BY DEF Open
<1> HIDE DEF a0, a1, b0, b1, c0, c1, x0, x1, y0, y1, z0, z1
<1> DEFINE A == Add(a0, a1)
           B == Add(b0, b1)
           X == Add(x0, x1)
           Y == Add(y0, y1)
           s0 == Add(Zero, Mul(d, b0))
           s1 == Add(Mul(d, e), Mul(d, b1))
           q0 == Add(s0, Mul(e, a0))
           q1 == Add(s1, Mul(e, a1))
           p0 == Add(q0, c0)
           p1 == Add(q1, c1)
<1>1. A \in Elem /\ B \in Elem /\ X \in Elem /\ Y \in Elem
  BY <1>a, Closed
<1>2. d = Sub(X, A) /\ e = Sub(Y, B)
  BY <1>a, <1>b, SubSwap
<1>3. d \in Elem /\ e \in Elem /\ Add(d, A) = X /\ Add(e, B) = Y
  BY <1>1, <1>2, SubAdd
<1>4. /\ Mul(d, b0) \in Elem /\ Mul(d, b1) \in Elem /\ Mul(d, e) \in Elem
      /\ Mul(e, a0) \in Elem /\ Mul(e, a1) \in Elem
      /\ Mul(d, B) \in Elem /\ Mul(e, A) \in Elem /\ Mul(A, B) \in Elem
  BY <1>1, <1>3, <1>a, Closed
<1>5. s0 \in Elem /\ s1 \in Elem /\ Zero \in Elem
  BY <1>4, <1>a, Closed
<1>6. q0 \in Elem /\ q1 \in Elem
  <2> HIDE DEF s0, s1
  <2> QED BY <1>4, <1>5, <1>a, Closed
<1>7. p0 \in Elem /\ p1 \in Elem
  <2> HIDE DEF q0, q1
  <2> QED BY <1>6, <1>a, Closed
<1>8. Add(s0, s1) = Add(Mul(d, e), Mul(d, B))
  <2>1. Add(s0, s1) = Add(Add(Zero, Mul(d, e)), Add(Mul(d, b0), Mul(d, b1)))
    <3> DEFINE de == Mul(d, e)
               db0 == Mul(d, b0)
               db1 == Mul(d, b1)
    <3>1. de \in Elem /\ db0 \in Elem /\ db1 \in Elem /\ Zero \in Elem
      BY <1>4, <1>5
    <3> HIDE DEF de, db0, db1
    <3>2. Add(Add(Zero, db0), Add(de, db1)) = Add(Add(Zero, de), Add(db0, db1))
      BY <3>1, AddSwap
    <3> QED BY <3>2 DEF de, db0, db1
  <2>2. Add(Zero, Mul(d, e)) = Mul(d, e)
    BY <1>4, Units
  <2>3. Add(Mul(d, b0), Mul(d, b1)) = Mul(d, B)
    BY <1>3, <1>a, MulLeft
  <2> QED BY <2>1, <2>2, <2>3
<1>9. Add(q0, q1) = Add(Add(s0, s1), Mul(e, A))
  <2>1. Add(q0, q1) = Add(Add(s0, s1), Add(Mul(e, a0), Mul(e, a1)))
    <3> DEFINE ea0 == Mul(e, a0)
               ea1 == Mul(e, a1)
    <3>1. ea0 \in Elem /\ ea1 \in Elem /\ s0 \in Elem /\ s1 \in Elem
      BY <1>4, <1>5
    <3> HIDE DEF s0, s1, ea0, ea1
    <3>2. Add(Add(s0, ea0), Add(s1, ea1)) = Add(Add(s0, s1), Add(ea0, ea1))
      BY <3>1, AddSwap
    <3> QED BY <3>2 DEF ea0, ea1
  <2>2. Add(Mul(e, a0), Mul(e, a1)) = Mul(e, A)
    BY <1>3, <1>a, MulLeft
  <2> QED BY <2>1, <2>2
<1>10. Add(p0, p1) = Add(Add(q0, q1), Mul(A, B))
  <2> HIDE DEF q0, q1
  <2>1. Add(p0, p1) = Add(Add(q0, q1), Add(c0, c1))
    BY <1>6, <1>a, AddSwap
  <2> QED BY <2>1, <1>b
<1>11. Add(Mul(d, e), Mul(d, B)) = Mul(d, Y)
  <2> HIDE DEF B, Y
  <2> QED BY <1>1, <1>3, <1>a, MulLeft
<1>12. Add(Mul(e, A), Mul(A, B)) = Mul(A, Y)
  <2> HIDE DEF A, B, Y
  <2>1. Mul(e, A) = Mul(A, e)
    BY <1>1, <1>3, RingLaws
  <2> QED BY <1>1, <1>3, <2>1, <1>a, MulLeft
<1>13. Add(Mul(d, Y), Mul(A, Y)) = Mul(X, Y)
  <2> HIDE DEF A, X, Y
  <2> QED BY <1>1, <1>3, MulRight
<1>14. Add(p0, p1) = Mul(X, Y)
  <2>1. Add(p0, p1) = Add(Add(Mul(d, Y), Mul(e, A)), Mul(A, B))
    BY <1>8, <1>9, <1>10, <1>11
  <2>2. Add(Add(Mul(d, Y), Mul(e, A)), Mul(A, B)) = Add(Mul(d, Y), Add(Mul(e, A), Mul(A, B)))
    <3>1. Mul(d, Y) \in Elem
      BY <1>1, <1>3, <1>a, Closed
    <3> HIDE DEF A, B, Y
    <3> QED BY <1>4, <3>1, RingLaws
  <2> QED BY <2>1, <2>2, <1>12, <1>13
<1>15. Add(Add(p0, z0), Add(p1, z1)) = Add(Add(p0, p1), Add(z0, z1))
  <2> HIDE DEF p0, p1
  <2> QED BY <1>7, <1>a, AddSwap
<1> QED BY <1>14, <1>15 DEF Open, a0, a1, b0, b1, c0, c1, x0, x1, y0, y1, z0, z1

StateType == [triples : [Check -> TripleType], xs : [Check -> Elem], ys : [Check -> Elem],
              zs : [Check -> Elem], rs : [Check -> Elem]]

TripleOpens(t0, t1) == Add(t0.c, t1.c) = Mul(Add(t0.a, t1.a), Add(t0.b, t1.b))

LEMMA TermOpens ==
    ASSUME NEW st0 \in StateType, NEW st1 \in StateType, NEW i \in Check,
           TripleOpens(st0.triples[i], st1.triples[i]),
           NEW co, co = Cor(CorShare(st0), CorShare(st1))
    PROVE  /\ OutTerm(0, st0, co, i) \in Elem /\ OutTerm(1, st1, co, i) \in Elem
           /\ Add(OutTerm(0, st0, co, i), OutTerm(1, st1, co, i))
                = Add(Mul(Add(st0.xs[i], st1.xs[i]), Add(st0.ys[i], st1.ys[i])),
                      Add(st0.zs[i], st1.zs[i]))
<1> DEFINE t0 == st0.triples[i]
           t1 == st1.triples[i]
           d == Add(Sub(st0.xs[i], t0.a), Sub(st1.xs[i], t1.a))
           e == Add(Sub(st0.ys[i], t0.b), Sub(st1.ys[i], t1.b))
<1>1. /\ t0 \in TripleType /\ t1 \in TripleType
      /\ st0.xs[i] \in Elem /\ st0.ys[i] \in Elem /\ st0.zs[i] \in Elem
      /\ st1.xs[i] \in Elem /\ st1.ys[i] \in Elem /\ st1.zs[i] \in Elem
  BY DEF StateType
<1>2. /\ t0.a \in Elem /\ t0.b \in Elem /\ t0.c \in Elem
      /\ t1.a \in Elem /\ t1.b \in Elem /\ t1.c \in Elem
  BY <1>1 DEF TripleType
<1>3. co.ds[i] = d /\ co.es[i] = e
  BY DEF Cor, CorShare
<1>4. d \in Elem /\ e \in Elem
  BY <1>1, <1>2, SubAdd, Closed
<1>5. /\ OutTerm(0, st0, co, i)
           = Add(Add(Add(Add(Zero, Mul(d, t0.b)), Mul(e, t0.a)), t0.c), st0.zs[i])
      /\ OutTerm(1, st1, co, i)
           = Add(Add(Add(Add(Mul(d, e), Mul(d, t1.b)), Mul(e, t1.a)), t1.c), st1.zs[i])
  BY <1>3 DEF OutTerm
<1>6. Add(t0.c, t1.c) = Mul(Add(t0.a, t1.a), Add(t0.b, t1.b))
  BY DEF TripleOpens
<1>7. Add(OutTerm(0, st0, co, i), OutTerm(1, st1, co, i))
        = Add(Mul(Add(st0.xs[i], st1.xs[i]), Add(st0.ys[i], st1.ys[i])),
              Add(st0.zs[i], st1.zs[i]))
  <2> DEFINE x == [s \in Server |-> IF s = 0 THEN st0.xs[i] ELSE st1.xs[i]]
             y == [s \in Server |-> IF s = 0 THEN st0.ys[i] ELSE st1.ys[i]]
             z == [s \in Server |-> IF s = 0 THEN st0.zs[i] ELSE st1.zs[i]]
             a == [s \in Server |-> IF s = 0 THEN t0.a ELSE t1.a]
             b == [s \in Server |-> IF s = 0 THEN t0.b ELSE t1.b]
             c == [s \in Server |-> IF s = 0 THEN t0.c ELSE t1.c]
  <2> HIDE DEF t0, t1
  <2>1. /\ x \in Pair /\ y \in Pair /\ z \in Pair /\ a \in Pair /\ b \in Pair /\ c \in Pair
    BY <1>1, <1>2 DEF Pair, Server
  <2>2. /\ x[0] = st0.xs[i] /\ y[0] = st0.ys[i] /\ z[0] = st0.zs[i]
        /\ x[1] = st1.xs[i] /\ y[1] = st1.ys[i] /\ z[1] = st1.zs[i]
        /\ a[0] = t0.a /\ b[0] = t0.b /\ c[0] = t0.c
        /\ a[1] = t1.a /\ b[1] = t1.b /\ c[1] = t1.c
    BY DEF Server
  <2> HIDE DEF x, y, z, a, b, c
  <2>3. d = Add(Sub(x[0], a[0]), Sub(x[1], a[1])) /\ e = Add(Sub(y[0], b[0]), Sub(y[1], b[1]))
    BY <2>2
  <2>4. Open(c) = Mul(Open(a), Open(b))
    BY <1>6, <2>2 DEF Open
  <2> HIDE DEF d, e
  <2>5. Add(Add(Add(Add(Add(Zero, Mul(d, b[0])), Mul(e, a[0])), c[0]), z[0]),
            Add(Add(Add(Add(Mul(d, e), Mul(d, b[1])), Mul(e, a[1])), c[1]), z[1]))
          = Add(Mul(Open(x), Open(y)), Open(z))
    BY <2>1, <2>3, <2>4, Beaver
  <2> QED BY <1>5, <2>2, <2>5 DEF Open
<1>8. OutTerm(0, st0, co, i) \in Elem /\ OutTerm(1, st1, co, i) \in Elem
  <2> HIDE DEF t0, t1, d, e
  <2>1. /\ Mul(d, t0.b) \in Elem /\ Mul(e, t0.a) \in Elem /\ Mul(d, e) \in Elem
        /\ Mul(d, t1.b) \in Elem /\ Mul(e, t1.a) \in Elem /\ Zero \in Elem
    BY <1>2, <1>4, Closed
  <2>2. Add(Zero, Mul(d, t0.b)) \in Elem /\ Add(Mul(d, e), Mul(d, t1.b)) \in Elem
    BY <2>1, Closed
  <2>3. /\ Add(Add(Zero, Mul(d, t0.b)), Mul(e, t0.a)) \in Elem
        /\ Add(Add(Mul(d, e), Mul(d, t1.b)), Mul(e, t1.a)) \in Elem
    BY <2>1, <2>2, Closed
  <2>4. /\ Add(Add(Add(Zero, Mul(d, t0.b)), Mul(e, t0.a)), t0.c) \in Elem
        /\ Add(Add(Add(Mul(d, e), Mul(d, t1.b)), Mul(e, t1.a)), t1.c) \in Elem
    BY <1>2, <2>3, Closed
  <2> QED BY <1>1, <1>5, <2>4, Closed
<1> QED BY <1>7, <1>8

(* Three sums of two, summed: the two servers' totals. *)
LEMMA Sum3Swap ==
    ASSUME NEW f \in [Check -> Elem], NEW g \in [Check -> Elem]
    PROVE  /\ Sum3(f) \in Elem
           /\ Add(Sum3(f), Sum3(g)) = Sum3([i \in Check |-> Add(f[i], g[i])])
<1>1. /\ f[1] \in Elem /\ f[2] \in Elem /\ f[3] \in Elem
      /\ g[1] \in Elem /\ g[2] \in Elem /\ g[3] \in Elem
  BY DEF Check, TRIPLES_PER_LEVEL
<1>2. Add(f[1], f[2]) \in Elem /\ Add(g[1], g[2]) \in Elem
  BY <1>1, Closed
<1>3. Add(Add(Add(f[1], f[2]), f[3]), Add(Add(g[1], g[2]), g[3]))
        = Add(Add(Add(f[1], f[2]), Add(g[1], g[2])), Add(f[3], g[3]))
  BY <1>1, <1>2, AddSwap
<1>4. Add(Add(f[1], f[2]), Add(g[1], g[2])) = Add(Add(f[1], g[1]), Add(f[2], g[2]))
  BY <1>1, AddSwap
<1>5. Sum3([i \in Check |-> Add(f[i], g[i])])
        = Add(Add(Add(f[1], g[1]), Add(f[2], g[2])), Add(f[3], g[3]))
  BY DEF Sum3, Check, TRIPLES_PER_LEVEL
<1> QED BY <1>1, <1>2, <1>3, <1>4, <1>5, Closed DEF Sum3

(* The output shares of two states with the same multipliers and valid
   triples open to the sum of rs * (xs * ys + zs) of what the states share. *)
LEMMA OutOpens ==
    ASSUME NEW st0 \in StateType, NEW st1 \in StateType, st0.rs = st1.rs,
           \A i \in Check : TripleOpens(st0.triples[i], st1.triples[i]),
           NEW co, co = Cor(CorShare(st0), CorShare(st1))
    PROVE  /\ OutShare(0, st0, co) \in Elem /\ OutShare(1, st1, co) \in Elem
           /\ Add(OutShare(0, st0, co), OutShare(1, st1, co))
                = Sum3([i \in Check |->
                    Mul(Add(Mul(Add(st0.xs[i], st1.xs[i]), Add(st0.ys[i], st1.ys[i])),
                            Add(st0.zs[i], st1.zs[i])), st0.rs[i])])
<1> DEFINE f == [i \in Check |-> Mul(OutTerm(0, st0, co, i), st0.rs[i])]
           g == [i \in Check |-> Mul(OutTerm(1, st1, co, i), st1.rs[i])]
           val(i) == Add(Mul(Add(st0.xs[i], st1.xs[i]), Add(st0.ys[i], st1.ys[i])),
                         Add(st0.zs[i], st1.zs[i]))
<1>1. \A i \in Check : /\ OutTerm(0, st0, co, i) \in Elem /\ OutTerm(1, st1, co, i) \in Elem
                       /\ Add(OutTerm(0, st0, co, i), OutTerm(1, st1, co, i)) = val(i)
  BY TermOpens
<1>2. \A i \in Check : st0.rs[i] \in Elem /\ st1.rs[i] = st0.rs[i]
  BY DEF StateType
<1>3. f \in [Check -> Elem] /\ g \in [Check -> Elem]
  BY <1>1, <1>2, Closed
<1>4. ASSUME NEW i \in Check PROVE Add(f[i], g[i]) = Mul(val(i), st0.rs[i])
  <2>1. f[i] = Mul(OutTerm(0, st0, co, i), st0.rs[i])
        /\ g[i] = Mul(OutTerm(1, st1, co, i), st0.rs[i])
    BY <1>2
  <2> HIDE DEF f, g, val
  <2> QED BY <1>1, <1>2, <2>1, MulRight
<1>5. [i \in Check |-> Add(f[i], g[i])] = [i \in Check |-> Mul(val(i), st0.rs[i])]
  <2> HIDE DEF f, g, val
  <2> QED BY <1>4
<1>6. OutShare(0, st0, co) = Sum3(f) /\ OutShare(1, st1, co) = Sum3(g)
  BY DEF OutShare
<1>7. Sum3(f) \in Elem /\ Sum3(g) \in Elem
      /\ Add(Sum3(f), Sum3(g)) = Sum3([i \in Check |-> Add(f[i], g[i])])
  <2> HIDE DEF f, g
  <2> QED BY <1>3, Sum3Swap
<1> QED BY <1>5, <1>6, <1>7

-----------------------------------------------------------------------------
(* The sketch. *)

Entry == [x : Elem, kx : Elem]

\* A column of a vector.
Xs(v) == [j \in DOMAIN v |-> v[j].x]
KXs(v) == [j \in DOMAIN v |-> v[j].kx]
Squares(d, v) == [j \in DOMAIN v |-> Mul(d.r[j], d.r[j])]

LEMMA SketchColumns ==
    ASSUME NEW d, NEW v
    PROVE  SketchAt(d, v) = [r_x  |-> Dot(d.r, Xs(v)),
                             r2_x |-> Dot(Squares(d, v), Xs(v)),
                             r_kx |-> Dot(d.r, KXs(v))]
BY DEF SketchAt, Xs, KXs, Squares

LEMMA ColumnTypes ==
    ASSUME NEW d \in AllDraws, NEW n \in 0..Width, NEW v \in [1..n -> Entry]
    PROVE  /\ d.r \in Row(Width) /\ Squares(d, v) \in Row(n)
           /\ Xs(v) \in Row(n) /\ KXs(v) \in Row(n)
           /\ \A j \in 1..n : Xs(v)[j] = v[j].x /\ KXs(v)[j] = v[j].kx
           /\ \A j \in 1..n : Squares(d, v)[j] = Mul(d.r[j], d.r[j])
<1>1. d.r \in Row(Width)
  BY DEF AllDraws, Row
<1>2. DOMAIN v = 1..n /\ \A j \in 1..n : v[j] \in Entry
  OBVIOUS
<1>3. \A j \in 1..n : v[j].x \in Elem /\ v[j].kx \in Elem
  BY <1>2 DEF Entry
<1>4. Xs(v) \in Row(n) /\ KXs(v) \in Row(n)
  BY <1>2, <1>3 DEF Xs, KXs, Row
<1>5. \A j \in 1..n : d.r[j] \in Elem
  BY <1>1, LevelAssumption DEF Row
<1>6. Squares(d, v) \in Row(n)
  BY <1>2, <1>5, Closed DEF Squares, Row
<1> QED BY <1>1, <1>2, <1>4, <1>6 DEF Xs, KXs, Squares

(* The servers' words for a vector are vectors of the same length that add
   up to it entry by entry. *)
LEMMA WordsOpen ==
    ASSUME NEW c \in Coins, NEW l \in BOOLEAN, NEW n \in 0..Width, NEW v \in [1..n -> Entry]
    PROVE  /\ \A s \in Server : Words(s, c, l, v) \in [1..n -> Entry]
           /\ \A j \in 1..n :
                 /\ v[j].x = Add(Words(0, c, l, v)[j].x, Words(1, c, l, v)[j].x)
                 /\ v[j].kx = Add(Words(0, c, l, v)[j].kx, Words(1, c, l, v)[j].kx)
<1>1. DOMAIN v = 1..n
  OBVIOUS
<1>2. ASSUME NEW j \in 1..n
      PROVE  /\ Share(v[j].x, Coin(c, "x", l, j)) \in [Server -> Elem]
             /\ Open(Share(v[j].x, Coin(c, "x", l, j))) = v[j].x
             /\ Share(v[j].kx, Coin(c, "kx", l, j)) \in [Server -> Elem]
             /\ Open(Share(v[j].kx, Coin(c, "kx", l, j))) = v[j].kx
  <2>1. v[j].x \in Elem /\ v[j].kx \in Elem
    BY DEF Entry
  <2>2. j \in 1..(Width + TRIPLES_PER_LEVEL * (InnerLevels + 1))
    BY LevelAssumption DEF TRIPLES_PER_LEVEL
  <2>3. Coin(c, "x", l, j) \in Elem /\ Coin(c, "kx", l, j) \in Elem
    BY <2>2, CoinAssumption
  <2> QED BY <2>1, <2>3, ShareOpens
<1>3. \A s \in Server : Words(s, c, l, v) \in [1..n -> Entry]
  BY <1>1, <1>2 DEF Words, Entry
<1>4. \A s \in Server, j \in 1..n :
         /\ Words(s, c, l, v)[j].x = Share(v[j].x, Coin(c, "x", l, j))[s]
         /\ Words(s, c, l, v)[j].kx = Share(v[j].kx, Coin(c, "kx", l, j))[s]
  BY <1>1 DEF Words
<1>5. 0 \in Server /\ 1 \in Server
  BY DEF Server
<1> QED BY <1>2, <1>3, <1>4, <1>5 DEF Open

SketchType == [r_x : Elem, r2_x : Elem, r_kx : Elem]

LEMMA SketchTyped ==
    ASSUME NEW d \in AllDraws, NEW n \in 0..Width, NEW v \in [1..n -> Entry]
    PROVE  SketchAt(d, v) \in SketchType
<1>1. /\ d.r \in Row(Width) /\ Squares(d, v) \in Row(n)
      /\ Xs(v) \in Row(n) /\ KXs(v) \in Row(n)
  BY ColumnTypes
<1>2. /\ Xs(v) \in Seq(Elem) /\ KXs(v) \in Seq(Elem) /\ Width \in Nat /\ n \in Nat
      /\ Len(Xs(v)) = n /\ Len(KXs(v)) = n /\ n <= Width
  BY <1>1, LevelAssumption DEF Row
<1>3. Dot(d.r, Xs(v)) \in Elem /\ Dot(d.r, KXs(v)) \in Elem
  BY <1>1, <1>2, DotType
<1>4. Dot(Squares(d, v), Xs(v)) \in Elem
  BY <1>1, <1>2, DotType
<1> QED BY <1>3, <1>4, SketchColumns DEF SketchType

(* The servers' sketches are shares of the sketch of the vector. *)
LEMMA SketchOpens ==
    ASSUME NEW d \in AllDraws, NEW n \in 0..Width, NEW v \in [1..n -> Entry],
           NEW v0 \in [1..n -> Entry], NEW v1 \in [1..n -> Entry],
           \A j \in 1..n : v[j].x = Add(v0[j].x, v1[j].x) /\ v[j].kx = Add(v0[j].kx, v1[j].kx)
    PROVE  /\ SketchAt(d, v).r_x = Add(SketchAt(d, v0).r_x, SketchAt(d, v1).r_x)
           /\ SketchAt(d, v).r2_x = Add(SketchAt(d, v0).r2_x, SketchAt(d, v1).r2_x)
           /\ SketchAt(d, v).r_kx = Add(SketchAt(d, v0).r_kx, SketchAt(d, v1).r_kx)
<1>1. /\ d.r \in Row(Width) /\ Width \in Nat /\ n \in Nat /\ n \in 0..n
      /\ Xs(v) \in Row(n) /\ Xs(v0) \in Row(n) /\ Xs(v1) \in Row(n)
      /\ KXs(v) \in Row(n) /\ KXs(v0) \in Row(n) /\ KXs(v1) \in Row(n)
      /\ Squares(d, v) \in Row(n)
  BY ColumnTypes, LevelAssumption
<1>2. /\ \A j \in 1..n : Xs(v)[j] = Add(Xs(v0)[j], Xs(v1)[j])
      /\ \A j \in 1..n : KXs(v)[j] = Add(KXs(v0)[j], KXs(v1)[j])
  BY ColumnTypes
<1>3. Squares(d, v0) = Squares(d, v) /\ Squares(d, v1) = Squares(d, v)
  BY DEF Squares
<1>4. Dot(d.r, Xs(v)) = Add(Dot(d.r, Xs(v0)), Dot(d.r, Xs(v1)))
  <2> DEFINE r == d.r
             xs == Xs(v)
             xs0 == Xs(v0)
             xs1 == Xs(v1)
  <2>1. r \in Row(Width) /\ xs \in Row(n) /\ xs0 \in Row(n) /\ xs1 \in Row(n)
    BY <1>1
  <2>2. \A j \in 1..n : xs[j] = Add(xs0[j], xs1[j])
    BY <1>2
  <2> HIDE DEF r, xs, xs0, xs1
  <2>3. Dot(r, xs) = Add(Dot(r, xs0), Dot(r, xs1))
    BY <1>1, <2>1, <2>2, DotAdd
  <2> QED BY <2>3 DEF r, xs, xs0, xs1
<1>5. Dot(d.r, KXs(v)) = Add(Dot(d.r, KXs(v0)), Dot(d.r, KXs(v1)))
  <2> DEFINE r == d.r
             kxs == KXs(v)
             kxs0 == KXs(v0)
             kxs1 == KXs(v1)
  <2>1. r \in Row(Width) /\ kxs \in Row(n) /\ kxs0 \in Row(n) /\ kxs1 \in Row(n)
    BY <1>1
  <2>2. \A j \in 1..n : kxs[j] = Add(kxs0[j], kxs1[j])
    BY <1>2
  <2> HIDE DEF r, kxs, kxs0, kxs1
  <2>3. Dot(r, kxs) = Add(Dot(r, kxs0), Dot(r, kxs1))
    BY <1>1, <2>1, <2>2, DotAdd
  <2> QED BY <2>3 DEF r, kxs, kxs0, kxs1
<1>6. Dot(Squares(d, v), Xs(v)) = Add(Dot(Squares(d, v), Xs(v0)), Dot(Squares(d, v), Xs(v1)))
  <2> DEFINE q == Squares(d, v)
             xs == Xs(v)
             xs0 == Xs(v0)
             xs1 == Xs(v1)
  <2>1. q \in Row(n) /\ xs \in Row(n) /\ xs0 \in Row(n) /\ xs1 \in Row(n)
    BY <1>1
  <2>2. \A j \in 1..n : xs[j] = Add(xs0[j], xs1[j])
    BY <1>2
  <2> HIDE DEF q, xs, xs0, xs1
  <2>3. Dot(q, xs) = Add(Dot(q, xs0), Dot(q, xs1))
    BY <1>1, <2>1, <2>2, DotAdd
  <2> QED BY <2>3 DEF q, xs, xs0, xs1
<1> QED BY <1>3, <1>4, <1>5, <1>6, SketchColumns

-----------------------------------------------------------------------------
(* The keys. *)

LEMMA ThreeChecks == Check = {1, 2, 3} /\ TRIPLES_PER_LEVEL = 3
BY DEF Check, TRIPLES_PER_LEVEL

(* A triple's shares open to a, b and a*b (mpc.rs TripleShare::new). *)
LEMMA TripleShareOpens ==
    ASSUME NEW c \in Coins, NEW l \in BOOLEAN, NEW i \in 1..NumTriples(l)
    PROVE  /\ TripleShare(c, l, i) \in [Server -> TripleType]
           /\ TripleOpens(TripleShare(c, l, i)[0], TripleShare(c, l, i)[1])
<1> DEFINE a == [s \in Server |-> Coin(c, IF s = 0 THEN "a0" ELSE "a1", l, i)]
           b == [s \in Server |-> Coin(c, IF s = 0 THEN "b0" ELSE "b1", l, i)]
           ab == Share(Mul(Open(a), Open(b)), Coin(c, "c", l, i))
<1>1. i \in 1..(Width + TRIPLES_PER_LEVEL * (InnerLevels + 1))
  BY LevelAssumption, ThreeChecks DEF NumTriples
<1>2. /\ Coin(c, "a0", l, i) \in Elem /\ Coin(c, "a1", l, i) \in Elem
      /\ Coin(c, "b0", l, i) \in Elem /\ Coin(c, "b1", l, i) \in Elem
      /\ Coin(c, "c", l, i) \in Elem
  BY <1>1, CoinAssumption
<1>3. a \in [Server -> Elem] /\ b \in [Server -> Elem]
  BY <1>2 DEF Server
<1>4. TripleShare(c, l, i) = [s \in Server |-> [a |-> a[s], b |-> b[s], c |-> ab[s]]]
  BY DEF TripleShare
<1> HIDE DEF a, b
<1>5. Open(a) \in Elem /\ Open(b) \in Elem
  BY <1>3, Closed DEF Open, Server
<1>6. ab \in [Server -> Elem] /\ Open(ab) = Mul(Open(a), Open(b))
  <2>1. Mul(Open(a), Open(b)) \in Elem
    BY <1>5, Closed
  <2> QED BY <1>2, <2>1, ShareOpens
<1> HIDE DEF ab
<1>7. TripleShare(c, l, i) \in [Server -> TripleType]
  BY <1>3, <1>4, <1>6 DEF TripleType
<1>8. TripleOpens(TripleShare(c, l, i)[0], TripleShare(c, l, i)[1])
  BY <1>4, <1>6 DEF TripleOpens, Open, Server
<1> QED BY <1>7, <1>8

KeyTyped(k) ==
    /\ k.mac \in [BOOLEAN -> [Server -> Elem]]
    /\ k.mac2 \in [BOOLEAN -> [Server -> Elem]]
    /\ \A l \in BOOLEAN : k.triples[l] \in [1..NumTriples(l) -> [Server -> TripleType]]

TriplesOpen(k) ==
    \A l \in BOOLEAN : \A i \in 1..NumTriples(l) :
        TripleOpens(k.triples[l][i][0], k.triples[l][i][1])

(* A generated key has the types of a key, and its triples are valid. *)
LEMMA GenTyped ==
    ASSUME NEW c \in Coins, NEW mac \in [BOOLEAN -> Elem], NEW err \in MacErrors
    PROVE  KeyTyped(Gen(c, mac, err)) /\ TriplesOpen(Gen(c, mac, err))
<1> DEFINE k == Gen(c, mac, err)
<1>1. 1 \in 1..(Width + TRIPLES_PER_LEVEL * (InnerLevels + 1))
  BY LevelAssumption, ThreeChecks
<1>2. \A l \in BOOLEAN : Coin(c, "mac", l, 1) \in Elem /\ Coin(c, "mac2", l, 1) \in Elem
  BY <1>1, CoinAssumption
<1>3. \A l \in BOOLEAN : mac[l] \in Elem /\ Add(Mul(mac[l], mac[l]), err) \in Elem
  BY Closed, StreamsAssumption
<1>4. k.mac \in [BOOLEAN -> [Server -> Elem]]
  <2>1. \A l \in BOOLEAN : Share(mac[l], Coin(c, "mac", l, 1)) \in [Server -> Elem]
    BY <1>2, <1>3, ShareOpens
  <2> QED BY <2>1 DEF Gen
<1>5. k.mac2 \in [BOOLEAN -> [Server -> Elem]]
  <2>1. \A l \in BOOLEAN : Share(Add(Mul(mac[l], mac[l]), err), Coin(c, "mac2", l, 1))
                             \in [Server -> Elem]
    BY <1>2, <1>3, ShareOpens
  <2> QED BY <2>1 DEF Gen
<1>6. \A l \in BOOLEAN : k.triples[l] = [i \in 1..NumTriples(l) |-> TripleShare(c, l, i)]
  BY DEF Gen
<1> HIDE DEF k
<1>7. ASSUME NEW l \in BOOLEAN PROVE k.triples[l] \in [1..NumTriples(l) -> [Server -> TripleType]]
  <2>1. \A i \in 1..NumTriples(l) : TripleShare(c, l, i) \in [Server -> TripleType]
    BY TripleShareOpens
  <2> DEFINE Pairs == [Server -> TripleType]
  <2>2. k.triples[l] = [i \in 1..NumTriples(l) |-> TripleShare(c, l, i)]
    BY <1>6
  <2>3. \A i \in 1..NumTriples(l) : TripleShare(c, l, i) \in Pairs
    BY <2>1
  <2> HIDE DEF Pairs
  <2>4. k.triples[l] \in [1..NumTriples(l) -> Pairs]
    BY <2>2, <2>3
  <2> QED BY <2>4 DEF Pairs
<1>8. ASSUME NEW l \in BOOLEAN, NEW i \in 1..NumTriples(l)
      PROVE  TripleOpens(k.triples[l][i][0], k.triples[l][i][1])
  <2>1. k.triples[l][i] = TripleShare(c, l, i)
    BY <1>6
  <2> QED BY <2>1, TripleShareOpens
<1> QED BY <1>4, <1>5, <1>7, <1>8 DEF KeyTyped, TriplesOpen, k

(* The state a server builds for a level is typed, and the two servers'
   triples there open to a product. *)
LEMMA MulStateTyped ==
    ASSUME NEW s \in Server, NEW k, KeyTyped(k), NEW last \in BOOLEAN,
           NEW l \in Nat, TripStart(l) + 3 <= NumTriples(last),
           NEW sk \in SketchType, NEW d \in AllDraws
    PROVE  /\ MulState(s, k, last, l, sk, d) \in StateType
           /\ \A i \in Check : /\ TripStart(l) + i \in 1..NumTriples(last)
                               /\ MulState(s, k, last, l, sk, d).triples[i]
                                    = k.triples[last][TripStart(l) + i][s]
<1> DEFINE st == MulState(s, k, last, l, sk, d)
<1>1. \A i \in Check : TripStart(l) + i \in 1..NumTriples(last)
  BY ThreeChecks, LevelAssumption DEF TripStart, NumTriples
<1>2. k.triples[last] \in [1..NumTriples(last) -> [Server -> TripleType]]
      /\ k.mac[last][s] \in Elem /\ k.mac2[last][s] \in Elem
  BY DEF KeyTyped
<1>3. sk.r_x \in Elem /\ sk.r2_x \in Elem /\ sk.r_kx \in Elem
  BY DEF SketchType
<1>4. Neg(sk.r2_x) \in Elem /\ Neg(sk.r_kx) \in Elem /\ Neg(k.mac2[last][s]) \in Elem
  BY <1>2, <1>3, Closed
<1>5. \A p, q, r \in Elem : <<p, q, r>> \in [Check -> Elem]
  BY ThreeChecks
<1>6. st.xs \in [Check -> Elem] /\ st.ys \in [Check -> Elem] /\ st.zs \in [Check -> Elem]
  <2>1. /\ st.xs = <<sk.r_x, k.mac[last][s], sk.r_x>>
        /\ st.ys = <<sk.r_x, k.mac[last][s], k.mac[last][s]>>
        /\ st.zs = <<Neg(sk.r2_x), Neg(k.mac2[last][s]), Neg(sk.r_kx)>>
    BY DEF MulState
  <2> HIDE DEF st
  <2> QED BY <1>2, <1>3, <1>4, <1>5, <2>1
<1>7. st.rs \in [Check -> Elem]
  BY DEF MulState, AllDraws
<1>8. st.triples = [i \in Check |-> k.triples[last][TripStart(l) + i][s]]
  BY DEF MulState
<1>9. st.triples \in [Check -> TripleType]
  <2>1. \A i \in Check : k.triples[last][TripStart(l) + i][s] \in TripleType
    BY <1>1, <1>2
  <2> HIDE DEF st
  <2> QED BY <1>8, <2>1
<1>10. st = [triples |-> st.triples, xs |-> st.xs, ys |-> st.ys, zs |-> st.zs, rs |-> st.rs]
  BY DEF MulState
<1> HIDE DEF st
<1>11. st \in StateType
  BY <1>6, <1>7, <1>9, <1>10 DEF StateType
<1>12. \A i \in Check : st.triples[i] = k.triples[last][TripStart(l) + i][s]
  BY <1>8
<1> QED BY <1>1, <1>11, <1>12 DEF st

-----------------------------------------------------------------------------
(* One level. *)

\* CheckValue, for any key, kind of level and vector.
ValueOf(k, last, d, v) ==
    LET sk == SketchAt(d, v)
        mac == Open(k.mac[last])
    IN  Sum3(<<Mul(Sub(Mul(sk.r_x, sk.r_x), sk.r2_x), d.rand[1]),
               Mul(Sub(Mul(mac, mac), Open(k.mac2[last])), d.rand[2]),
               Mul(Sub(Mul(sk.r_x, mac), sk.r_kx), d.rand[3])>>)

\* The output shares of two states are elements, and add up to value.
OutIs(st0, st1, value) ==
    LET co == Cor(CorShare(st0), CorShare(st1))
    IN  /\ OutShare(0, st0, co) \in Elem /\ OutShare(1, st1, co) \in Elem
        /\ Add(OutShare(0, st0, co), OutShare(1, st1, co)) = value

(* Two states made from shares of a vector open to its check. *)
LEMMA CheckOpens ==
    ASSUME NEW k, KeyTyped(k), TriplesOpen(k), NEW last \in BOOLEAN,
           NEW l \in Nat, TripStart(l) + 3 <= NumTriples(last),
           NEW d \in AllDraws, NEW n \in 0..Width, NEW v \in [1..n -> Entry],
           NEW v0 \in [1..n -> Entry], NEW v1 \in [1..n -> Entry],
           \A j \in 1..n : v[j].x = Add(v0[j].x, v1[j].x) /\ v[j].kx = Add(v0[j].kx, v1[j].kx)
    PROVE  OutIs(MulState(0, k, last, l, SketchAt(d, v0), d),
                 MulState(1, k, last, l, SketchAt(d, v1), d), ValueOf(k, last, d, v))
<1> DEFINE st0 == MulState(0, k, last, l, SketchAt(d, v0), d)
           st1 == MulState(1, k, last, l, SketchAt(d, v1), d)
           co == Cor(CorShare(st0), CorShare(st1))
           sk == SketchAt(d, v)
           sk0 == SketchAt(d, v0)
           sk1 == SketchAt(d, v1)
           mac == k.mac[last]
           mac2 == k.mac2[last]
<1>1. sk0 \in SketchType /\ sk1 \in SketchType /\ 0 \in Server /\ 1 \in Server
  BY SketchTyped DEF Server
<1>2. /\ sk.r_x = Add(sk0.r_x, sk1.r_x)
      /\ sk.r2_x = Add(sk0.r2_x, sk1.r2_x)
      /\ sk.r_kx = Add(sk0.r_kx, sk1.r_kx)
  BY SketchOpens
<1>3. mac \in [Server -> Elem] /\ mac2 \in [Server -> Elem]
  BY DEF KeyTyped
<1>4. /\ st0.xs = <<sk0.r_x, mac[0], sk0.r_x>> /\ st1.xs = <<sk1.r_x, mac[1], sk1.r_x>>
      /\ st0.ys = <<sk0.r_x, mac[0], mac[0]>>  /\ st1.ys = <<sk1.r_x, mac[1], mac[1]>>
      /\ st0.zs = <<Neg(sk0.r2_x), Neg(mac2[0]), Neg(sk0.r_kx)>>
      /\ st1.zs = <<Neg(sk1.r2_x), Neg(mac2[1]), Neg(sk1.r_kx)>>
      /\ st0.rs = d.rand /\ st1.rs = d.rand
  BY DEF MulState
<1> HIDE DEF sk, sk0, sk1, mac, mac2
<1>5. /\ st0 \in StateType /\ st1 \in StateType
      /\ \A i \in Check : /\ TripStart(l) + i \in 1..NumTriples(last)
                          /\ st0.triples[i] = k.triples[last][TripStart(l) + i][0]
                          /\ st1.triples[i] = k.triples[last][TripStart(l) + i][1]
  BY <1>1, MulStateTyped DEF sk0, sk1
<1> HIDE DEF st0, st1
<1>6. \A i \in Check : TripleOpens(st0.triples[i], st1.triples[i])
  BY <1>5 DEF TriplesOpen
<1> DEFINE val(i) == Add(Mul(Add(st0.xs[i], st1.xs[i]), Add(st0.ys[i], st1.ys[i])),
                         Add(st0.zs[i], st1.zs[i]))
<1>7. /\ OutShare(0, st0, co) \in Elem /\ OutShare(1, st1, co) \in Elem
      /\ Add(OutShare(0, st0, co), OutShare(1, st1, co))
           = Sum3([i \in Check |-> Mul(val(i), st0.rs[i])])
  <2>1. st0.rs = st1.rs
    BY <1>4
  <2> QED BY <1>5, <1>6, <2>1, OutOpens
<1>8. /\ sk0.r_x \in Elem /\ sk0.r2_x \in Elem /\ sk0.r_kx \in Elem
      /\ sk1.r_x \in Elem /\ sk1.r2_x \in Elem /\ sk1.r_kx \in Elem
      /\ mac[0] \in Elem /\ mac[1] \in Elem /\ mac2[0] \in Elem /\ mac2[1] \in Elem
  BY <1>1, <1>3 DEF SketchType
<1>9. /\ Add(Neg(sk0.r2_x), Neg(sk1.r2_x)) = Neg(sk.r2_x)
      /\ Add(Neg(mac2[0]), Neg(mac2[1])) = Neg(Open(mac2))
      /\ Add(Neg(sk0.r_kx), Neg(sk1.r_kx)) = Neg(sk.r_kx)
  BY <1>2, <1>8, NegAdd DEF Open
<1>10. val(1) = Sub(Mul(sk.r_x, sk.r_x), sk.r2_x)
  BY <1>2, <1>4, <1>9 DEF Sub
<1>11. val(2) = Sub(Mul(Open(mac), Open(mac)), Open(mac2))
  BY <1>4, <1>9 DEF Sub, Open
<1>12. val(3) = Sub(Mul(sk.r_x, Open(mac)), sk.r_kx)
  BY <1>2, <1>4, <1>9 DEF Sub, Open
<1> HIDE DEF val
<1>13. Sum3([i \in Check |-> Mul(val(i), st0.rs[i])])
         = Sum3(<<Mul(val(1), d.rand[1]), Mul(val(2), d.rand[2]), Mul(val(3), d.rand[3])>>)
  BY <1>4, ThreeChecks DEF Sum3
<1>14. OutIs(st0, st1, ValueOf(k, last, d, v))
  BY <1>7, <1>10, <1>11, <1>12, <1>13 DEF OutIs, ValueOf, sk, mac, mac2
<1> QED BY <1>14 DEF st0, st1

LEMMA SubSelf == \A x, y \in Elem : Sub(x, x) = Zero /\ Mul(Sub(x, x), y) = Zero
BY RingLaws DEF Sub

(* A vector with a one at a single node at most, and the right MACs, has a
   check of zero. *)
LEMMA WellFormedZero ==
    ASSUME NEW k, KeyTyped(k), NEW last \in BOOLEAN,
           NEW d \in AllDraws, NEW n \in 0..Width, NEW v \in [1..n -> Entry],
           Open(k.mac2[last]) = Mul(Open(k.mac[last]), Open(k.mac[last])),
           \A j \in 1..n : v[j].x \in {Zero, One} /\ v[j].kx = Mul(Open(k.mac[last]), v[j].x),
           \A i, j \in 1..n : v[i].x = One /\ v[j].x = One => i = j
    PROVE  ValueOf(k, last, d, v) = Zero
<1> DEFINE mac == Open(k.mac[last])
           sk == SketchAt(d, v)
<1>1. mac \in Elem
  <2>1. k.mac[last] \in [Server -> Elem]
    BY DEF KeyTyped
  <2> QED BY <2>1, Closed DEF Open, Server
<1>2. /\ d.r \in Row(Width) /\ Squares(d, v) \in Row(n) /\ Xs(v) \in Row(n) /\ KXs(v) \in Row(n)
      /\ \A j \in 1..n : Xs(v)[j] = v[j].x /\ KXs(v)[j] = v[j].kx
      /\ \A j \in 1..n : Squares(d, v)[j] = Mul(d.r[j], d.r[j])
      /\ Width \in Nat /\ n \in Nat /\ n \in 0..n
  BY ColumnTypes, LevelAssumption
<1>3. PICK i \in 0..n : \A j \in 1..n : Xs(v)[j] = IF j = i THEN One ELSE Zero
  <2>1. CASE \E i \in 1..n : v[i].x = One
    <3>1. PICK i \in 1..n : v[i].x = One
      BY <2>1
    <3>2. \A j \in 1..n : Xs(v)[j] = IF j = i THEN One ELSE Zero
      BY <1>2, <3>1
    <3>3. i \in 0..n
      BY <3>1
    <3> QED BY <3>2, <3>3
  <2>2. CASE ~\E i \in 1..n : v[i].x = One
    BY <1>2, <2>2
  <2> QED BY <2>1, <2>2
<1>4. Dot(d.r, Xs(v)) = IF i = 0 THEN Zero ELSE d.r[i]
  BY <1>2, <1>3, DotUnit
<1>5. Dot(Squares(d, v), Xs(v)) = IF i = 0 THEN Zero ELSE Mul(d.r[i], d.r[i])
  <2> DEFINE q == Squares(d, v)
             xs == Xs(v)
  <2>1. q \in Row(n) /\ xs \in Row(n) /\ (\A j \in 1..n : xs[j] = IF j = i THEN One ELSE Zero)
    BY <1>2, <1>3
  <2>2. i # 0 => q[i] = Mul(d.r[i], d.r[i])
    BY <1>2
  <2> HIDE DEF q, xs
  <2>3. Dot(q, xs) = IF i = 0 THEN Zero ELSE q[i]
    BY <1>2, <2>1, DotUnit
  <2> QED BY <2>2, <2>3 DEF q, xs
<1>6. Dot(d.r, KXs(v)) = Mul(mac, Dot(d.r, Xs(v)))
  <2> DEFINE xs == Xs(v)
             kxs == KXs(v)
  <2>1. xs \in Row(n) /\ kxs \in Row(n) /\ (\A j \in 1..n : kxs[j] = Mul(mac, xs[j]))
    BY <1>2
  <2> HIDE DEF xs, kxs, mac
  <2>2. Dot(d.r, kxs) = Mul(mac, Dot(d.r, xs))
    BY <1>1, <1>2, <2>1, DotScale
  <2> QED BY <2>2 DEF xs, kxs
<1>7. d.rand[1] \in Elem /\ d.rand[2] \in Elem /\ d.rand[3] \in Elem
  BY ThreeChecks DEF AllDraws
<1>8. sk.r_x \in Elem
  BY SketchTyped DEF SketchType
<1>9. /\ sk.r_x = Dot(d.r, Xs(v)) /\ sk.r2_x = Dot(Squares(d, v), Xs(v))
      /\ sk.r_kx = Dot(d.r, KXs(v))
  BY SketchColumns
<1>10. sk.r2_x = Mul(sk.r_x, sk.r_x)
  <2>1. Mul(Zero, Zero) = Zero
    BY Closed, Units
  <2> QED BY <1>4, <1>5, <1>9, <2>1
<1>11. sk.r_kx = Mul(sk.r_x, mac)
  BY <1>1, <1>6, <1>8, <1>9, RingLaws
<1> HIDE DEF sk, mac
<1>12. Mul(sk.r_x, sk.r_x) \in Elem /\ Mul(mac, mac) \in Elem /\ Mul(sk.r_x, mac) \in Elem
  BY <1>1, <1>8, Closed
<1>13. /\ Mul(Sub(Mul(sk.r_x, sk.r_x), sk.r2_x), d.rand[1]) = Zero
       /\ Mul(Sub(Mul(mac, mac), Open(k.mac2[last])), d.rand[2]) = Zero
       /\ Mul(Sub(Mul(sk.r_x, mac), sk.r_kx), d.rand[3]) = Zero
  BY <1>7, <1>10, <1>11, <1>12, SubSelf DEF mac
<1>14. Sum3(<<Zero, Zero, Zero>>) = Zero
  BY Closed, Units DEF Sum3
<1> QED BY <1>13, <1>14 DEF ValueOf, sk, mac

-----------------------------------------------------------------------------
(* The check, level after level. *)

\* What a sketch draws, at either server and whenever it is made.
draws == DrawsAfter(0)

LEMMA DrawsAgree ==
    ASSUME stream \in Streams
    PROVE  draws \in AllDraws /\ \A n : DrawsAfter(n) = draws
BY StreamsAssumption DEF draws, DrawsAfter

LevelState(s) == MulState(s, key, Last, TripleLevel,
                          SketchAt(draws, Words(s, coin, Last, vector)), draws)

(* Once there is a vector it has a frontier's shape, and the states, the
   opened correction and the output shares are those of that vector. *)
Sketched ==
    /\ phase \in {"crawled", "sketched", "answered"} => vector \in Vector
    /\ phase \in {"sketched", "answered"} =>
          mul = [s \in Server |-> LevelState(s)] /\ cor = Cor(CorShare(mul[0]), CorShare(mul[1]))
    /\ phase = "answered" => out = [s \in Server |-> OutShare(s, mul[s], cor)]

\* Every triple spent so far belongs to an earlier level, or to this one.
SpentSoFar ==
    /\ phase \in {"pruned", "crawled", "sketched"} =>
          \A t \in spent : t[1] = FALSE /\ t[2] <= TRIPLES_PER_LEVEL * level
    /\ phase = "answered" /\ ~Last =>
          \A t \in spent : t[1] = FALSE /\ t[2] <= TRIPLES_PER_LEVEL * (level + 1)

IInv == TypeOK /\ TriplesOpen(key) /\ Sketched /\ SpentSoFar

(* The offsets of a level's triples are inside the key's triples. *)
LEMMA LevelFits ==
    ASSUME level \in 0..InnerLevels
    PROVE  /\ Last \in BOOLEAN /\ TripleLevel \in Nat
           /\ TripStart(TripleLevel) + 3 <= NumTriples(Last)
           /\ ~Last => TripleLevel = level /\ level < InnerLevels
BY LevelAssumption, ThreeChecks DEF Last, TripleLevel, TripStart, NumTriples

LEMMA LevelOpens ==
    ASSUME KeyTyped(key), TriplesOpen(key), coin \in Coins, draws \in AllDraws,
           level \in 0..InnerLevels, vector \in Vector,
           NEW m, m = [s \in Server |-> LevelState(s)],
           NEW co, co = Cor(CorShare(m[0]), CorShare(m[1]))
    PROVE  /\ OutShare(0, m[0], co) \in Elem /\ OutShare(1, m[1], co) \in Elem
           /\ Add(OutShare(0, m[0], co), OutShare(1, m[1], co)) = CheckValue(draws)
<1>1. PICK n \in 0..Width : vector \in [1..n -> Entry]
  BY DEF Vector, Entry
<1>2. /\ Last \in BOOLEAN /\ TripleLevel \in Nat /\ 0 \in Server /\ 1 \in Server
      /\ TripStart(TripleLevel) + 3 <= NumTriples(Last)
  BY LevelFits DEF Server
<1> DEFINE v0 == Words(0, coin, Last, vector)
           v1 == Words(1, coin, Last, vector)
<1>3. /\ v0 \in [1..n -> Entry] /\ v1 \in [1..n -> Entry]
      /\ \A j \in 1..n : /\ vector[j].x = Add(v0[j].x, v1[j].x)
                         /\ vector[j].kx = Add(v0[j].kx, v1[j].kx)
  BY <1>1, <1>2, WordsOpen
<1>4. /\ m[0] = MulState(0, key, Last, TripleLevel, SketchAt(draws, v0), draws)
      /\ m[1] = MulState(1, key, Last, TripleLevel, SketchAt(draws, v1), draws)
  BY <1>2 DEF LevelState
<1> HIDE DEF v0, v1
<1>6. OutIs(MulState(0, key, Last, TripleLevel, SketchAt(draws, v0), draws),
            MulState(1, key, Last, TripleLevel, SketchAt(draws, v1), draws),
            ValueOf(key, Last, draws, vector))
  BY <1>1, <1>2, <1>3, CheckOpens
<1>7. ValueOf(key, Last, draws, vector) = CheckValue(draws)
  BY DEF ValueOf, CheckValue
<1> QED BY <1>4, <1>6, <1>7 DEF OutIs

LEMMA CheckInit == Init => IInv
<1> SUFFICES ASSUME Init PROVE IInv
  OBVIOUS
<1>1. coin \in Coins /\ stream \in Streams
  BY DEF Init
<1>2. KeyTyped(key) /\ TriplesOpen(key)
  <2>1. PICK mac \in [BOOLEAN -> Elem], err \in MacErrors : key = Gen(coin, mac, err)
    BY DEF Init
  <2> QED BY <1>1, <2>1, GenTyped
<1>3. /\ phase = "pruned" /\ level = 0 /\ vector = << >> /\ spent = {}
      /\ out \in [Server -> Elem]
  BY Closed DEF Init, NoOut
<1>4. TypeOK
  BY <1>1, <1>2, <1>3, LevelAssumption DEF TypeOK, KeyTyped
<1>5. Sketched /\ SpentSoFar
  BY <1>3 DEF Sketched, SpentSoFar
<1> QED BY <1>2, <1>4, <1>5 DEF IInv

(* What the invariant says of a level whose states are built. *)
LEMMA LevelAnswer ==
    ASSUME IInv, phase \in {"sketched", "answered"}
    PROVE  /\ OutShare(0, mul[0], cor) \in Elem /\ OutShare(1, mul[1], cor) \in Elem
           /\ Add(OutShare(0, mul[0], cor), OutShare(1, mul[1], cor)) = CheckValue(draws)
<1>1. KeyTyped(key) /\ TriplesOpen(key) /\ coin \in Coins /\ draws \in AllDraws
      /\ level \in 0..InnerLevels /\ vector \in Vector
  BY DrawsAgree DEF IInv, TypeOK, KeyTyped, Sketched
<1>2. mul = [s \in Server |-> LevelState(s)] /\ cor = Cor(CorShare(mul[0]), CorShare(mul[1]))
  BY DEF IInv, Sketched
<1> QED BY <1>1, <1>2, LevelOpens

LEMMA CheckStep == IInv /\ [Next]_vars => IInv'
<1> SUFFICES ASSUME IInv, [Next]_vars PROVE IInv'
  OBVIOUS
<1>1. TypeOK /\ TriplesOpen(key) /\ Sketched /\ SpentSoFar
  BY DEF IInv
<1>2. CASE TreeCrawl
  <2> USE <1>2 DEF TreeCrawl
  <2>1. TypeOK'
    BY <1>1 DEF TypeOK
  <2>2. TriplesOpen(key)'
    BY <1>1 DEF TriplesOpen
  <2>3. Sketched' /\ SpentSoFar'
    BY <1>1 DEF Sketched, SpentSoFar
  <2> QED BY <2>1, <2>2, <2>3 DEF IInv
<1>3. CASE TreeSketchFrontier
  <2> USE <1>3 DEF TreeSketchFrontier
  <2>1. TypeOK'
    BY <1>1 DEF TypeOK
  <2>2. TriplesOpen(key)'
    BY <1>1 DEF TriplesOpen
  <2>3. Sketched'
    <3>1. \A s \in Server : LevelState(s)' = LevelState(s)
      BY DEF LevelState, Last, TripleLevel, draws, DrawsAfter
    <3>2. mul' = [s \in Server |-> LevelState(s)]
      BY DEF LevelState, draws, DrawsAfter
    <3> QED BY <1>1, <3>1, <3>2 DEF Sketched
  <2>4. SpentSoFar'
    BY <1>1 DEF SpentSoFar
  <2> QED BY <2>1, <2>2, <2>3, <2>4 DEF IInv
<1>4. CASE TreeOutShares
  <2> USE <1>4 DEF TreeOutShares
  <2>1. /\ Last \in BOOLEAN /\ TripleLevel \in Nat /\ level \in 0..InnerLevels
        /\ ~Last => TripleLevel = level
    BY <1>1, LevelFits DEF TypeOK
  <2>2. \A t \in Slots(Last, TripleLevel) :
           /\ t \in BOOLEAN \X Nat /\ t[1] = Last
           /\ t[2] <= TRIPLES_PER_LEVEL * (TripleLevel + 1)
    BY <2>1, ThreeChecks DEF Slots, TripStart
  <2>3. TypeOK'
    <3>1. out' \in [Server -> Elem]
      BY LevelAnswer DEF Server
    <3>2. spent' \subseteq BOOLEAN \X Nat
      BY <1>1, <2>2 DEF TypeOK
    <3> QED BY <1>1, <3>1, <3>2 DEF TypeOK
  <2>4. TriplesOpen(key)'
    BY <1>1 DEF TriplesOpen
  <2>5. Sketched'
    <3>1. \A s \in Server : LevelState(s)' = LevelState(s)
      BY DEF LevelState, Last, TripleLevel, draws, DrawsAfter
    <3> QED BY <1>1, <3>1 DEF Sketched
  <2>6. SpentSoFar'
    <3> SUFFICES ASSUME ~Last, NEW t \in spent'
                 PROVE  t[1] = FALSE /\ t[2] <= TRIPLES_PER_LEVEL * (level + 1)
      BY DEF SpentSoFar, Last
    <3>1. CASE t \in spent
      <4>1. t[1] = FALSE /\ t[2] <= TRIPLES_PER_LEVEL * level /\ t[2] \in Nat
        BY <1>1, <3>1 DEF SpentSoFar, TypeOK
      <4> QED BY <2>1, <4>1, ThreeChecks, LevelAssumption
    <3>2. CASE t \in Slots(Last, TripleLevel)
      BY <2>1, <2>2, <3>2
    <3> QED BY <3>1, <3>2
  <2> QED BY <2>3, <2>4, <2>5, <2>6 DEF IInv
<1>5. CASE LeaderVerify
  <2> USE <1>5 DEF LeaderVerify
  <2>1. TypeOK'
    <3>1. out' \in [Server -> Elem]
      BY Closed DEF NoOut
    <3>2. level' \in 0..InnerLevels
      BY <1>1, LevelAssumption DEF TypeOK, Last
    <3>3. phase' \in {"refused", "done", "pruned"}
      OBVIOUS
    <3> QED BY <1>1, <3>1, <3>2, <3>3 DEF TypeOK
  <2>2. TriplesOpen(key)'
    BY <1>1 DEF TriplesOpen
  <2>3. Sketched'
    BY DEF Sketched
  <2>4. SpentSoFar'
    BY <1>1 DEF SpentSoFar
  <2> QED BY <2>1, <2>2, <2>3, <2>4 DEF IInv
<1>6. CASE Stopped \/ UNCHANGED vars
  <2>1. UNCHANGED vars
    BY <1>6 DEF Stopped
  <2>2. TypeOK' /\ TriplesOpen(key)'
    BY <1>1, <2>1 DEF TypeOK, TriplesOpen, vars
  <2>3. \A s \in Server : LevelState(s)' = LevelState(s)
    BY <2>1 DEF LevelState, Last, TripleLevel, vars, draws, DrawsAfter
  <2>4. Sketched' /\ SpentSoFar'
    BY <1>1, <2>1, <2>3 DEF Sketched, SpentSoFar, Last, vars
  <2> QED BY <2>2, <2>4 DEF IInv
<1> QED BY <1>2, <1>3, <1>4, <1>5, <1>6 DEF Next

LEMMA CheckInductive == Spec => []IInv
BY CheckInit, CheckStep, PTL DEF Spec

(* The keys, the sketch's shares and the record of spent triples have their
   types in every reachable state, whatever the ring, the client's tape and
   the servers' random stream. *)
THEOREM TypeCorrect == Spec => []TypeOK
<1>1. IInv => TypeOK
  BY DEF IInv
<1> QED BY <1>1, CheckInductive, PTL

(* The multiplication is right: at every level the two output shares add up
   to the value of the three checks, of any vector and any key (mpc.rs), in
   whatever order each server sketches its keys (collect.rs). *)
THEOREM SharesOpenToCheck == Spec => []OpensToCheck
<1>1. IInv => OpensToCheck
  <2> SUFFICES ASSUME IInv, phase = "answered" PROVE Open(out) = CheckValue(draws)
    BY DEF OpensToCheck, draws
  <2>1. out = [s \in Server |-> OutShare(s, mul[s], cor)]
    BY DEF IInv, Sketched
  <2>2. Open(out) = Add(OutShare(0, mul[0], cor), OutShare(1, mul[1], cor))
    BY <2>1 DEF Open, Server
  <2> QED BY <2>2, LevelAnswer
<1> QED BY <1>1, CheckInductive, PTL

(* Completeness: a key that is one at a single node at most and carries the
   right MACs passes with every random stream, so the leader's assert!(v)
   never fires for what SketchDPFKey::gen makes (leader.rs run_level). *)
THEOREM WellFormedKeysPass == Spec => []WellFormedPasses
<1>1. IInv /\ OpensToCheck => WellFormedPasses
  <2> SUFFICES ASSUME IInv, OpensToCheck, phase = "answered", WellFormed PROVE Verify(out)
    BY DEF WellFormedPasses
  <2>1. KeyTyped(key) /\ draws \in AllDraws /\ level \in 0..InnerLevels /\ vector \in Vector
    BY DrawsAgree DEF IInv, TypeOK, KeyTyped, Sketched
  <2>2. PICK n \in 0..Width : vector \in [1..n -> Entry]
    BY <2>1 DEF Vector, Entry
  <2>3. Last \in BOOLEAN /\ DOMAIN vector = 1..n
    BY <2>1, <2>2, LevelFits
  <2>4. /\ Open(key.mac2[Last]) = Mul(Open(key.mac[Last]), Open(key.mac[Last]))
        /\ \A j \in 1..n : /\ vector[j].x \in {Zero, One}
                           /\ vector[j].kx = Mul(Open(key.mac[Last]), vector[j].x)
        /\ \A i, j \in 1..n : vector[i].x = One /\ vector[j].x = One => i = j
    BY <2>3 DEF WellFormed
  <2>5. ValueOf(key, Last, draws, vector) = Zero
    BY <2>1, <2>2, <2>3, <2>4, WellFormedZero
  <2>6. Open(out) = ValueOf(key, Last, draws, vector)
    BY DEF OpensToCheck, ValueOf, CheckValue, draws
  <2> QED BY <2>5, <2>6 DEF Verify
<1> QED BY <1>1, CheckInductive, SharesOpenToCheck, PTL

(* No Beaver triple is used at two levels, however many levels there are: the
   offsets of MulState::new only grow, and the last level has its own three. *)
THEOREM TriplesUsedOnce == Spec => []TriplesFresh
<1>1. IInv => TriplesFresh
  <2> SUFFICES ASSUME IInv, phase = "sketched", NEW t \in Slots(Last, TripleLevel), t \in spent
               PROVE  FALSE
    BY DEF TriplesFresh
  <2>1. level \in 0..InnerLevels /\ t[1] = FALSE /\ t[2] <= TRIPLES_PER_LEVEL * level
    BY DEF IInv, TypeOK, SpentSoFar
  <2>2. PICK i \in Check : t = <<Last, TripStart(TripleLevel) + i>>
    BY DEF Slots
  <2>3. ~Last /\ TripleLevel = level
    BY <2>1, <2>2, LevelFits
  <2>4. t[2] \in Nat /\ t[2] > TRIPLES_PER_LEVEL * level
    BY <2>1, <2>2, <2>3, ThreeChecks, LevelAssumption DEF TripStart
  <2> QED BY <2>1, <2>4, ThreeChecks, LevelAssumption
<1> QED BY <1>1, CheckInductive, PTL

-----------------------------------------------------------------------------
(* Soundness: a malformed key has a draw that refuses it.  This needs a field
   (FieldAssumption): in Z_2 every x is its own square. *)

(* The draws matter to a sum as the vector does. *)
LEMMA DotSwap ==
    ASSUME NEW w \in Nat, NEW r \in Row(w), NEW n \in 0..w,
           NEW v \in Row(n), NEW u \in Row(n), \A j \in 1..n : u[j] = r[j]
    PROVE  Dot(r, v) = Dot(v, u)
<1>1. v \in Seq(Elem) /\ u \in Seq(Elem) /\ Len(v) = n /\ Len(u) = n /\ n \in Nat /\ n \in 0..n
  BY DEF Row
<1> DEFINE f == DotSums(r, v)
           g == DotSums(v, u)
           S == {j \in Nat : f[j] = g[j]}
<1>2. f[0] = Zero /\ \A j \in 1..n : f[j] = Add(f[j - 1], Mul(v[j], r[j]))
  BY RowSums
<1>3. g[0] = Zero /\ \A j \in 1..n : g[j] = Add(g[j - 1], Mul(u[j], v[j]))
  BY <1>1, RowSums
<1> HIDE DEF f, g
<1>4. 0 \in S
  BY <1>2, <1>3
<1>5. ASSUME NEW j \in 1..n, j - 1 \in S PROVE j \in S
  <2>1. v[j] \in Elem /\ u[j] \in Elem /\ u[j] = r[j]
    BY DEF Row
  <2>2. Mul(u[j], v[j]) = Mul(v[j], r[j])
    <3>1. Mul(u[j], v[j]) = Mul(v[j], u[j])
      BY <2>1, RingLaws
    <3> QED BY <2>1, <3>1
  <2>3. f[j - 1] = g[j - 1] /\ j \in Nat
    BY <1>5
  <2> QED BY <1>2, <1>3, <2>2, <2>3
<1>6. \A j \in 0..n : j \in S
  <2> HIDE DEF S
  <2> QED BY <1>1, <1>4, <1>5, SumsInduction
<1>7. f[n] = g[n]
  BY <1>1, <1>6
<1> QED BY <1>1, <1>7 DEF Dot, f, g

Unit(n, i) == [j \in 1..n |-> IF j = i THEN One ELSE Zero]

LEMMA UnitRow ==
    ASSUME NEW n \in Nat, NEW i
    PROVE  Unit(n, i) \in Row(n) /\ \A j \in 1..n : Unit(n, i)[j] = IF j = i THEN One ELSE Zero
BY Closed DEF Unit, Row

(* Draws that are one at a single node pick its word. *)
LEMMA DotPickOne ==
    ASSUME NEW w \in Nat, NEW r \in Row(w), NEW n \in 0..w, NEW v \in Row(n), NEW i \in 1..n,
           \A j \in 1..n : r[j] = IF j = i THEN One ELSE Zero
    PROVE  Dot(r, v) = v[i]
<1>1. n \in Nat /\ n \in 0..n /\ i \in 0..n /\ i # 0
  OBVIOUS
<1>2. PICK u \in Row(n) : \A j \in 1..n : u[j] = IF j = i THEN One ELSE Zero
  BY <1>1, UnitRow
<1>3. Dot(r, v) = Dot(v, u)
  BY <1>2, DotSwap
<1>4. Dot(v, u) = IF i = 0 THEN Zero ELSE v[i]
  BY <1>1, <1>2, DotUnit
<1> QED BY <1>1, <1>3, <1>4

(* Draws that are one at two nodes add their words. *)
LEMMA DotPickTwo ==
    ASSUME NEW w \in Nat, NEW r \in Row(w), NEW n \in 0..w, NEW v \in Row(n),
           NEW i \in 1..n, NEW k \in 1..n, i # k,
           \A j \in 1..n : r[j] = IF j \in {i, k} THEN One ELSE Zero
    PROVE  Dot(r, v) = Add(v[i], v[k])
<1>1. n \in Nat /\ n \in 0..n /\ i \in 0..n /\ i # 0 /\ k \in 0..n /\ k # 0
  OBVIOUS
<1>2. PICK ui \in Row(n) : \A j \in 1..n : ui[j] = IF j = i THEN One ELSE Zero
  BY <1>1, UnitRow
<1>3. PICK uk \in Row(n) : \A j \in 1..n : uk[j] = IF j = k THEN One ELSE Zero
  BY <1>1, UnitRow
<1>4. PICK u \in Row(n) : \A j \in 1..n : u[j] = r[j]
  <2>1. [j \in 1..n |-> r[j]] \in Row(n)
    BY DEF Row
  <2> QED BY <2>1
<1>5. \A j \in 1..n : u[j] = Add(ui[j], uk[j])
  BY <1>2, <1>3, <1>4, Closed, Units
<1>6. Dot(v, u) = Add(Dot(v, ui), Dot(v, uk))
  BY <1>1, <1>5, DotAdd
<1>7. Dot(r, v) = Dot(v, u)
  BY <1>4, DotSwap
<1>8. Dot(v, ui) = v[i]
  <2>1. Dot(v, ui) = IF i = 0 THEN Zero ELSE v[i]
    BY <1>1, <1>2, DotUnit
  <2> QED BY <1>1, <2>1
<1>9. Dot(v, uk) = v[k]
  <2>1. Dot(v, uk) = IF k = 0 THEN Zero ELSE v[k]
    BY <1>1, <1>3, DotUnit
  <2> QED BY <1>1, <2>1
<1> QED BY <1>6, <1>7, <1>8, <1>9

(* The sketch with such draws: a zero and a one are their own squares. *)
LEMMA SketchPicksOne ==
    ASSUME NEW d \in AllDraws, NEW n \in 0..Width, NEW v \in [1..n -> Entry], NEW i \in 1..n,
           \A j \in 1..Width : d.r[j] = IF j = i THEN One ELSE Zero
    PROVE  SketchAt(d, v) = [r_x |-> v[i].x, r2_x |-> v[i].x, r_kx |-> v[i].kx]
<1>1. /\ d.r \in Row(Width) /\ Squares(d, v) \in Row(n) /\ Xs(v) \in Row(n) /\ KXs(v) \in Row(n)
      /\ \A j \in 1..n : Xs(v)[j] = v[j].x /\ KXs(v)[j] = v[j].kx
      /\ \A j \in 1..n : Squares(d, v)[j] = Mul(d.r[j], d.r[j])
      /\ Width \in Nat /\ n \in Nat /\ n \in 0..n
  BY ColumnTypes, LevelAssumption
<1>2. \A j \in 1..n : d.r[j] = IF j = i THEN One ELSE Zero
  BY <1>1
<1>3. \A j \in 1..n : Squares(d, v)[j] = IF j = i THEN One ELSE Zero
  BY <1>1, <1>2, Closed, Units
<1>4. Dot(d.r, Xs(v)) = Xs(v)[i] /\ Dot(d.r, KXs(v)) = KXs(v)[i]
  BY <1>1, <1>2, DotPickOne
<1>5. Dot(Squares(d, v), Xs(v)) = Xs(v)[i]
  <2> DEFINE q == Squares(d, v)
             xs == Xs(v)
  <2>1. q \in Row(n) /\ xs \in Row(n) /\ (\A j \in 1..n : q[j] = IF j = i THEN One ELSE Zero)
    BY <1>1, <1>3
  <2> HIDE DEF q, xs
  <2>2. Dot(q, xs) = xs[i]
    BY <1>1, <2>1, DotPickOne
  <2> QED BY <2>2 DEF q, xs
<1> QED BY <1>1, <1>4, <1>5, SketchColumns

LEMMA SketchPicksTwo ==
    ASSUME NEW d \in AllDraws, NEW n \in 0..Width, NEW v \in [1..n -> Entry],
           NEW i \in 1..n, NEW k \in 1..n, i # k,
           \A j \in 1..Width : d.r[j] = IF j \in {i, k} THEN One ELSE Zero
    PROVE  LET sk == SketchAt(d, v)
           IN  sk.r_x = Add(v[i].x, v[k].x) /\ sk.r2_x = Add(v[i].x, v[k].x)
<1>1. /\ d.r \in Row(Width) /\ Squares(d, v) \in Row(n) /\ Xs(v) \in Row(n)
      /\ \A j \in 1..n : Xs(v)[j] = v[j].x
      /\ \A j \in 1..n : Squares(d, v)[j] = Mul(d.r[j], d.r[j])
      /\ Width \in Nat /\ n \in Nat /\ n \in 0..n
  BY ColumnTypes, LevelAssumption
<1>2. \A j \in 1..n : d.r[j] = IF j \in {i, k} THEN One ELSE Zero
  BY <1>1
<1>3. \A j \in 1..n : Squares(d, v)[j] = IF j \in {i, k} THEN One ELSE Zero
  BY <1>1, <1>2, Closed, Units
<1>4. Dot(d.r, Xs(v)) = Add(Xs(v)[i], Xs(v)[k])
  BY <1>1, <1>2, DotPickTwo
<1>5. Dot(Squares(d, v), Xs(v)) = Add(Xs(v)[i], Xs(v)[k])
  <2> DEFINE q == Squares(d, v)
             xs == Xs(v)
  <2>1. q \in Row(n) /\ xs \in Row(n) /\ (\A j \in 1..n : q[j] = IF j \in {i, k} THEN One ELSE Zero)
    BY <1>1, <1>3
  <2> HIDE DEF q, xs
  <2>2. Dot(q, xs) = Add(xs[i], xs[k])
    BY <1>1, <2>1, DotPickTwo
  <2> QED BY <2>2 DEF q, xs
<1> QED BY <1>1, <1>4, <1>5, SketchColumns

LEMMA SubZero ==
    ASSUME NEW x \in Elem, NEW y \in Elem, Sub(x, y) = Zero
    PROVE  x = y
<1>1. Add(Zero, y) = x
  BY SubAdd
<1> QED BY <1>1, Units

(* Zero and one are the only elements that are their own squares. *)
LEMMA OwnSquare ==
    ASSUME NEW x \in Elem, Mul(x, x) = x
    PROVE  x \in {Zero, One}
<1> DEFINE y == Sub(x, One)
<1>1. y \in Elem /\ Add(y, One) = x
  BY Closed, SubAdd
<1>2. Mul(x, Add(y, One)) = Add(Mul(x, y), Mul(x, One))
  <2> HIDE DEF y
  <2> QED BY <1>1, Closed, MulLeft
<1>3. Mul(x, y) \in Elem /\ Mul(x, One) = x
  <2> HIDE DEF y
  <2> QED BY <1>1, Closed, Units
<1>4. Add(Mul(x, y), x) = x
  <2> HIDE DEF y
  <2>1. Mul(x, Add(y, One)) = Mul(x, x)
    BY <1>1
  <2>2. Add(Mul(x, y), Mul(x, One)) = Add(Mul(x, y), x)
    BY <1>3
  <2> QED BY <1>2, <2>1, <2>2
<1>5. Mul(x, y) = Zero
  <2> DEFINE p == Mul(x, y)
  <2> HIDE DEF p, y
  <2>1. p \in Elem /\ Add(p, x) = x
    BY <1>3, <1>4 DEF p
  <2>2. Add(Add(p, x), Neg(x)) = Add(p, Add(x, Neg(x)))
    BY <2>1, RingLaws
  <2>3. Add(x, Neg(x)) = Zero /\ Add(p, Zero) = p
    BY <2>1, RingLaws
  <2> QED BY <2>1, <2>2, <2>3 DEF p
<1>6. x = Zero \/ y = Zero
  <2> HIDE DEF y
  <2> QED BY <1>1, <1>5, FieldAssumption
<1> QED BY <1>6, Closed, SubZero

(* One and one make neither zero nor one. *)
LEMMA TwoIsOther == Add(One, One) \in Elem /\ Add(One, One) \notin {Zero, One}
<1>1. Add(One, One) \in Elem /\ Add(One, One) # Zero
  BY Closed, FieldAssumption
<1>2. ASSUME Add(One, One) = One PROVE FALSE
  <2>1. Add(Add(One, One), Neg(One)) = Add(One, Add(One, Neg(One)))
    BY RingLaws
  <2>2. Add(One, Neg(One)) = Zero /\ Add(One, Zero) = One /\ Add(Zero, Zero) = Zero
    BY RingLaws
  <2> QED BY <1>1, <1>2, <2>1, <2>2
<1> QED BY <1>1, <1>2

(* A draw of a single one shows one of the three checks alone. *)
LEMMA SumPicks ==
    ASSUME NEW a \in Elem, NEW b \in Elem, NEW c \in Elem
    PROVE  /\ Sum3(<<Mul(a, One), Mul(b, Zero), Mul(c, Zero)>>) = a
           /\ Sum3(<<Mul(a, Zero), Mul(b, One), Mul(c, Zero)>>) = b
           /\ Sum3(<<Mul(a, Zero), Mul(b, Zero), Mul(c, One)>>) = c
<1>1. /\ Mul(a, One) = a /\ Mul(b, One) = b /\ Mul(c, One) = c
      /\ Mul(a, Zero) = Zero /\ Mul(b, Zero) = Zero /\ Mul(c, Zero) = Zero
      /\ Add(a, Zero) = a /\ Add(Zero, b) = b /\ Add(b, Zero) = b
      /\ Add(Zero, Zero) = Zero /\ Add(Zero, c) = c
  BY Closed, Units
<1> QED BY <1>1 DEF Sum3

(* The draws that pick check c and the nodes of I. *)
Picking(c, I) == [rand |-> [i \in Check |-> IF i = c THEN One ELSE Zero],
                  r |-> [j \in 1..Width |-> IF j \in I THEN One ELSE Zero]]

Picks(d, c, I) == /\ \A j \in 1..Width : d.r[j] = IF j \in I THEN One ELSE Zero
                  /\ \A i \in Check : d.rand[i] = IF i = c THEN One ELSE Zero

LEMMA PickingDraws ==
    ASSUME NEW c \in Check, NEW I
    PROVE  \E d \in AllDraws : Picks(d, c, I)
<1>1. [i \in Check |-> IF i = c THEN One ELSE Zero] \in [Check -> Elem]
  BY Closed
<1>2. [j \in 1..Width |-> IF j \in I THEN One ELSE Zero] \in [1..Width -> Elem]
  BY Closed
<1>3. Picking(c, I) \in AllDraws
  BY <1>1, <1>2 DEF Picking, AllDraws
<1>4. Picks(Picking(c, I), c, I)
  BY DEF Picks, Picking
<1> QED BY <1>3, <1>4

(* What each of the three checks is with draws that pick it. *)
LEMMA ValuePicks ==
    ASSUME NEW k, KeyTyped(k), NEW last \in BOOLEAN, NEW d \in AllDraws,
           NEW c \in Check, NEW I, Picks(d, c, I),
           NEW n \in 0..Width, NEW v \in [1..n -> Entry]
    PROVE  LET sk == SketchAt(d, v)
               mac == Open(k.mac[last])
           IN  /\ c = 1 => ValueOf(k, last, d, v) = Sub(Mul(sk.r_x, sk.r_x), sk.r2_x)
               /\ c = 2 => ValueOf(k, last, d, v) = Sub(Mul(mac, mac), Open(k.mac2[last]))
               /\ c = 3 => ValueOf(k, last, d, v) = Sub(Mul(sk.r_x, mac), sk.r_kx)
<1> DEFINE sk == SketchAt(d, v)
           mac == Open(k.mac[last])
           mac2 == Open(k.mac2[last])
           c1 == Sub(Mul(sk.r_x, sk.r_x), sk.r2_x)
           c2 == Sub(Mul(mac, mac), mac2)
           c3 == Sub(Mul(sk.r_x, mac), sk.r_kx)
<1>1. mac \in Elem /\ mac2 \in Elem
  <2>1. k.mac[last] \in [Server -> Elem] /\ k.mac2[last] \in [Server -> Elem]
    BY DEF KeyTyped
  <2> QED BY <2>1, Closed DEF Open, Server
<1>2. sk.r_x \in Elem /\ sk.r2_x \in Elem /\ sk.r_kx \in Elem
  BY SketchTyped DEF SketchType
<1>3. ValueOf(k, last, d, v) = Sum3(<<Mul(c1, d.rand[1]), Mul(c2, d.rand[2]), Mul(c3, d.rand[3])>>)
  BY DEF ValueOf
<1>4. 1 \in Check /\ 2 \in Check /\ 3 \in Check
  BY ThreeChecks
<1>5. c1 \in Elem /\ c2 \in Elem /\ c3 \in Elem
  <2> HIDE DEF sk, mac, mac2
  <2> QED BY <1>1, <1>2, Closed DEF Sub
<1> HIDE DEF c1, c2, c3
<1>6. /\ Sum3(<<Mul(c1, One), Mul(c2, Zero), Mul(c3, Zero)>>) = c1
      /\ Sum3(<<Mul(c1, Zero), Mul(c2, One), Mul(c3, Zero)>>) = c2
      /\ Sum3(<<Mul(c1, Zero), Mul(c2, Zero), Mul(c3, One)>>) = c3
  BY <1>5, SumPicks
<1>7. /\ d.rand[1] = IF c = 1 THEN One ELSE Zero
      /\ d.rand[2] = IF c = 2 THEN One ELSE Zero
      /\ d.rand[3] = IF c = 3 THEN One ELSE Zero
  BY <1>4 DEF Picks
<1>8. /\ c = 1 => ValueOf(k, last, d, v) = c1
      /\ c = 2 => ValueOf(k, last, d, v) = c2
      /\ c = 3 => ValueOf(k, last, d, v) = c3
  BY <1>3, <1>6, <1>7
<1> QED BY <1>8 DEF c1, c2, c3, sk, mac, mac2

(* Each way of being malformed has its draw. *)
LEMMA SomeDrawRefuses ==
    ASSUME NEW k, KeyTyped(k), NEW last \in BOOLEAN, NEW n \in 0..Width, NEW v \in [1..n -> Entry],
           ~ /\ Open(k.mac2[last]) = Mul(Open(k.mac[last]), Open(k.mac[last]))
             /\ \A j \in 1..n : v[j].x \in {Zero, One} /\ v[j].kx = Mul(Open(k.mac[last]), v[j].x)
             /\ \A i, j \in 1..n : v[i].x = One /\ v[j].x = One => i = j
    PROVE  \E d \in AllDraws : ValueOf(k, last, d, v) # Zero
<1> DEFINE mac == Open(k.mac[last])
           mac2 == Open(k.mac2[last])
<1>1. mac \in Elem /\ mac2 \in Elem
  <2>1. k.mac[last] \in [Server -> Elem] /\ k.mac2[last] \in [Server -> Elem]
    BY DEF KeyTyped
  <2> QED BY <2>1, Closed DEF Open, Server
<1>2. \A j \in 1..n : v[j].x \in Elem /\ v[j].kx \in Elem
  BY DEF Entry
<1>3. 1 \in Check /\ 2 \in Check /\ 3 \in Check
  BY ThreeChecks
<1>4. CASE mac2 # Mul(mac, mac)
  <2>1. PICK d \in AllDraws : Picks(d, 2, {})
    BY <1>3, PickingDraws
  <2>2. ValueOf(k, last, d, v) = Sub(Mul(mac, mac), mac2)
    BY <1>3, <2>1, ValuePicks
  <2>3. Mul(mac, mac) \in Elem
    BY <1>1, Closed
  <2> HIDE DEF mac, mac2
  <2>4. Sub(Mul(mac, mac), mac2) # Zero
    BY <1>1, <1>4, <2>3, SubZero
  <2> QED BY <2>2, <2>4
<1>5. CASE \E i \in 1..n : v[i].x \notin {Zero, One}
  <2>1. PICK i \in 1..n : v[i].x \notin {Zero, One}
    BY <1>5
  <2>2. PICK d \in AllDraws : Picks(d, 1, {i})
    BY <1>3, PickingDraws
  <2>3. SketchAt(d, v) = [r_x |-> v[i].x, r2_x |-> v[i].x, r_kx |-> v[i].kx]
    <3>1. \A j \in 1..Width : d.r[j] = IF j = i THEN One ELSE Zero
      BY <2>2 DEF Picks
    <3> QED BY <3>1, SketchPicksOne
  <2> DEFINE x == v[i].x
  <2>4. ValueOf(k, last, d, v) = Sub(Mul(x, x), x)
    BY <1>3, <2>2, <2>3, ValuePicks
  <2>5. x \in Elem /\ Mul(x, x) \in Elem /\ x \notin {Zero, One}
    BY <1>2, <2>1, Closed
  <2> HIDE DEF x
  <2>6. Sub(Mul(x, x), x) # Zero
    BY <2>5, SubZero, OwnSquare
  <2> QED BY <2>4, <2>6
<1>6. CASE \E i \in 1..n : v[i].kx # Mul(mac, v[i].x)
  <2>1. PICK i \in 1..n : v[i].kx # Mul(mac, v[i].x)
    BY <1>6
  <2>2. PICK d \in AllDraws : Picks(d, 3, {i})
    BY <1>3, PickingDraws
  <2>3. SketchAt(d, v) = [r_x |-> v[i].x, r2_x |-> v[i].x, r_kx |-> v[i].kx]
    <3>1. \A j \in 1..Width : d.r[j] = IF j = i THEN One ELSE Zero
      BY <2>2 DEF Picks
    <3> QED BY <3>1, SketchPicksOne
  <2> DEFINE x == v[i].x
             kx == v[i].kx
  <2>4. ValueOf(k, last, d, v) = Sub(Mul(x, mac), kx)
    BY <1>3, <2>2, <2>3, ValuePicks
  <2>5. x \in Elem /\ kx \in Elem /\ kx # Mul(mac, x)
    BY <1>2, <2>1
  <2> HIDE DEF x, kx, mac
  <2>6. Mul(x, mac) \in Elem /\ Mul(x, mac) = Mul(mac, x)
    BY <1>1, <2>5, RingLaws
  <2>7. Sub(Mul(x, mac), kx) # Zero
    BY <2>5, <2>6, SubZero
  <2> QED BY <2>4, <2>7
<1>7. CASE \E i, j \in 1..n : v[i].x = One /\ v[j].x = One /\ i # j
  <2>1. PICK i \in 1..n, m \in 1..n : v[i].x = One /\ v[m].x = One /\ i # m
    BY <1>7
  <2>2. PICK d \in AllDraws : Picks(d, 1, {i, m})
    BY <1>3, PickingDraws
  <2>3. SketchAt(d, v).r_x = Add(v[i].x, v[m].x) /\ SketchAt(d, v).r2_x = Add(v[i].x, v[m].x)
    <3>1. i # m
      BY <2>1
    <3>2. \A j \in 1..Width : d.r[j] = IF j \in {i, m} THEN One ELSE Zero
      BY <2>2 DEF Picks
    <3> QED BY <3>1, <3>2, SketchPicksTwo
  <2>4. PICK two : two = Add(One, One)
    OBVIOUS
  <2>5. ValueOf(k, last, d, v) = Sub(Mul(two, two), two)
    BY <1>3, <2>1, <2>2, <2>3, <2>4, ValuePicks
  <2>6. two \in Elem /\ two \notin {Zero, One}
    BY <2>4, TwoIsOther
  <2>7. Mul(two, two) \in Elem
    BY <2>6, Closed
  <2>8. Sub(Mul(two, two), two) # Zero
    BY <2>6, <2>7, SubZero, OwnSquare
  <2> QED BY <2>5, <2>8
<1> QED BY <1>4, <1>5, <1>6, <1>7

(* Soundness: a key that is not one at a single node at most, or carries a
   wrong MAC, is refused by some draws of rand_stream, at every level and for
   every frontier.  Some draws, not all: the three checks of MulState::new
   leave no malformed key that always passes (mpc.rs, sketch.rs). *)
THEOREM MalformedKeysCaught == Spec => []MalformedCaught
<1>1. IInv => MalformedCaught
  <2> SUFFICES ASSUME IInv, phase = "crawled", ~WellFormed
               PROVE  \E d \in AllDraws : CheckValue(d) # Zero
    BY DEF MalformedCaught
  <2>1. KeyTyped(key) /\ level \in 0..InnerLevels /\ vector \in Vector
    BY DEF IInv, TypeOK, KeyTyped, Sketched
  <2>2. PICK n \in 0..Width : vector \in [1..n -> Entry]
    BY <2>1 DEF Vector, Entry
  <2>3. Last \in BOOLEAN /\ DOMAIN vector = 1..n
    BY <2>1, <2>2, LevelFits
  <2>4. ~ /\ Open(key.mac2[Last]) = Mul(Open(key.mac[Last]), Open(key.mac[Last]))
          /\ \A j \in 1..n : /\ vector[j].x \in {Zero, One}
                             /\ vector[j].kx = Mul(Open(key.mac[Last]), vector[j].x)
          /\ \A i, j \in 1..n : vector[i].x = One /\ vector[j].x = One => i = j
    BY <2>3 DEF WellFormed
  <2>5. PICK d \in AllDraws : ValueOf(key, Last, d, vector) # Zero
    BY <2>1, <2>2, <2>3, <2>4, SomeDrawRefuses
  <2>6. CheckValue(d) = ValueOf(key, Last, d, vector)
    BY DEF CheckValue, ValueOf
  <2> QED BY <2>5, <2>6
<1> QED BY <1>1, CheckInductive, PTL
=============================================================================
