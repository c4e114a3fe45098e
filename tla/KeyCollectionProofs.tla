------------------------ MODULE KeyCollectionProofs ------------------------
(***************************************************************************)
(* What the methods of KeyCollection compute: what a node's values add up  *)
(* to at the two servers, what a prune leaves, and what a crawl makes of   *)
(* it.  The proofs about the leader and the servers cite these lemmas.     *)
(***************************************************************************)
EXTENDS KeyCollection, FiniteSetTheorems, SequenceTheorems, WellFoundedInduction, TLAPS

-----------------------------------------------------------------------------
(* Paths and counts: the facts of PrefixTreeProofs, about the same Votes. *)

(* Strings that start with p and one bit more start with p, so a child never
   counts more than its parent (the sums make_tree_node builds). *)
LEMMA CountMonotone ==
    ASSUME NEW vs \in Seq(BitString), NEW n \in Nat, NEW p \in BitPath(n), NEW b \in BOOLEAN
    PROVE  Count(vs, Append(p, b)) <= Count(vs, p)
<1>1. p \in Seq(BOOLEAN) /\ Len(p) = n /\ DOMAIN p = 1..n
  BY DEF BitPath
<1>2. Holders(vs, Append(p, b)) \subseteq Holders(vs, p)
  <2> SUFFICES ASSUME NEW i \in DOMAIN vs,
                      \A j \in DOMAIN Append(p, b) : vs[i][j] = Append(p, b)[j]
               PROVE  \A j \in DOMAIN p : vs[i][j] = p[j]
    BY DEF Holders
  <2>1. DOMAIN Append(p, b) = 1..(n + 1)
    BY <1>1
  <2>2. \A j \in 1..n : Append(p, b)[j] = p[j]
    BY <1>1
  <2> QED BY <1>1, <2>1, <2>2
<1>3. IsFiniteSet(Holders(vs, p))
  <2>1. DOMAIN vs = 1..Len(vs) /\ Len(vs) \in Nat
    OBVIOUS
  <2>2. IsFiniteSet(1..Len(vs))
    BY <2>1, FS_Interval
  <2> QED BY <2>1, <2>2, FS_Subset DEF Holders
<1> QED BY <1>2, <1>3, FS_Subset DEF Count

(* Every count is a number: only finitely many clients hold a prefix. *)
LEMMA CountType ==
    ASSUME NEW vs \in Seq(BitString), NEW p
    PROVE  Count(vs, p) \in Nat
<1>1. DOMAIN vs = 1..Len(vs) /\ Len(vs) \in Nat
  OBVIOUS
<1>2. IsFiniteSet(1..Len(vs))
  BY <1>1, FS_Interval
<1>3. IsFiniteSet(Holders(vs, p))
  BY <1>1, <1>2, FS_Subset DEF Holders
<1> QED BY <1>3, FS_CardinalityType DEF Count

(* A prefix of n+1 bits is a prefix of n bits and one bit. *)
LEMMA SplitPath ==
    ASSUME NEW n \in Nat, NEW q \in BitPath(n + 1)
    PROVE  \E p \in BitPath(n), b \in BOOLEAN : q = Append(p, b)
<1> DEFINE p == [i \in 1..n |-> q[i]]
<1>1. p \in BitPath(n) /\ q[n + 1] \in BOOLEAN
  BY DEF BitPath
<1>2. q = Append(p, q[n + 1])
  <2>1. q \in Seq(BOOLEAN) /\ Len(q) = n + 1
    BY DEF BitPath
  <2>2. p \in Seq(BOOLEAN) /\ Len(p) = n
    <3> HIDE DEF p
    <3> QED BY <1>1 DEF BitPath
  <2>3. Append(p, q[n + 1]) \in Seq(BOOLEAN) /\ Len(Append(p, q[n + 1])) = n + 1
    BY <1>1, <2>2
  <2>4. \A i \in 1..(n + 1) : Append(p, q[n + 1])[i] = q[i]
    BY <2>1, <2>2
  <2> HIDE DEF p
  <2> QED BY <2>1, <2>3, <2>4
<1> QED BY <1>1, <1>2

(* Conversely one bit more makes a path of n bits a path of n+1. *)
LEMMA ExtendPath ==
    ASSUME NEW n \in Nat, NEW p \in BitPath(n), NEW b \in BOOLEAN
    PROVE  Append(p, b) \in BitPath(n + 1)
<1>1. p \in Seq(BOOLEAN) /\ Len(p) = n
  BY DEF BitPath
<1>2. Append(p, b) \in Seq(BOOLEAN) /\ Len(Append(p, b)) = n + 1
  BY <1>1
<1> QED BY <1>2, LenProperties DEF BitPath

(* Paths of the root level are the empty path alone. *)
LEMMA RootPath == BitPath(0) = {<< >>}
<1>1. << >> \in BitPath(0)
  BY DEF BitPath
<1>2. ASSUME NEW p \in BitPath(0) PROVE p = << >>
  BY <1>2 DEF BitPath
<1> QED BY <1>1, <1>2

(* At most everybody holds a prefix. *)
LEMMA CountBounded ==
    ASSUME NEW vs \in Seq(BitString), NEW p
    PROVE  Count(vs, p) \in Nat /\ Count(vs, p) <= Len(vs)
<1>1. DOMAIN vs = 1..Len(vs) /\ Len(vs) \in Nat
  OBVIOUS
<1>2. IsFiniteSet(1..Len(vs)) /\ Cardinality(1..Len(vs)) = Len(vs)
  BY <1>1, FS_Interval
<1>3. Holders(vs, p) \subseteq 1..Len(vs)
  BY <1>1 DEF Holders
<1>4. Cardinality(Holders(vs, p)) <= Cardinality(1..Len(vs))
  BY <1>2, <1>3, FS_Subset
<1> QED BY <1>2, <1>4, CountType DEF Count

-----------------------------------------------------------------------------
(* Numbers. *)

(* A set of numbers with 0, and with n + 1 for each n in it, has them all. *)
LEMMA SetInduction ==
    ASSUME NEW S, 0 \in S, \A n \in Nat : n \in S => n + 1 \in S
    PROVE  \A n \in Nat : n \in S
<1> DEFINE T == Nat \ S
<1> SUFFICES ASSUME T # {} PROVE FALSE
  OBVIOUS
<1>1. T \subseteq Nat
  OBVIOUS
<1>2. PICK n \in T : \A m \in T : ~ (<<m, n>> \in OpToRel(<, Nat))
  <2> HIDE DEF T
  <2> QED BY <1>1, NatLessThanWellFounded, WFMin
<1>3. n \in Nat /\ n \notin S /\ n # 0 /\ n - 1 \in Nat /\ n - 1 < n
  OBVIOUS
<1>4. <<n - 1, n>> \in OpToRel(<, Nat)
  BY <1>3 DEF OpToRel
<1>5. n - 1 \in S
  BY <1>2, <1>3, <1>4
<1> QED BY <1>3, <1>5

-----------------------------------------------------------------------------
(* Sums over sets of keys. *)

Some(t) == CHOOSE x \in t : TRUE

IsSum(f, w, D) ==
    f = [t \in SUBSET D |-> IF t = {} THEN 0 ELSE w[Some(t)] + f[t \ {Some(t)}]]

(* A finite set without one member is smaller. *)
LEMMA SmallerWithoutOne ==
    ASSUME NEW D, IsFiniteSet(D), NEW t \in SUBSET D, NEW x \in t
    PROVE  /\ IsFiniteSet(t) /\ IsFiniteSet(t \ {x})
           /\ Cardinality(t) \in Nat /\ Cardinality(t) # 0
           /\ Cardinality(t \ {x}) = Cardinality(t) - 1
<1>1. IsFiniteSet(t)
  BY FS_Subset
<1> QED BY <1>1, FS_RemoveElement, FS_CardinalityType, FS_EmptySet

(* Every finite set of numbers has a sum. *)
LEMMA SumExists ==
    ASSUME NEW D, IsFiniteSet(D), NEW w \in [D -> Int]
    PROVE  \E f \in [SUBSET D -> Int] : IsSum(f, w, D)
<1> DEFINE Small(m) == {t \in SUBSET D : Cardinality(t) <= m}
           Good(f, m) == \A t \in Small(m) :
               f[t] = IF t = {} THEN 0 ELSE w[Some(t)] + f[t \ {Some(t)}]
           S == {m \in Nat : \E f \in [Small(m) -> Int] : Good(f, m)}
<1>1. \A t \in SUBSET D : Cardinality(t) \in Nat /\ (t # {} => Some(t) \in t)
  BY FS_Subset, FS_CardinalityType DEF Some
<1>2. 0 \in S
  <2> DEFINE f == [t \in Small(0) |-> 0]
  <2>1. f \in [Small(0) -> Int]
    OBVIOUS
  <2>2. \A t \in Small(0) : t = {}
    BY <1>1, FS_Subset, FS_EmptySet
  <2>3. Good(f, 0)
    BY <2>2
  <2> QED BY <2>1, <2>3
<1>3. ASSUME NEW m \in Nat, m \in S PROVE m + 1 \in S
  <2>1. PICK f \in [Small(m) -> Int] : Good(f, m)
    BY <1>3
  <2> DEFINE g == [t \in Small(m + 1) |-> IF t = {} THEN 0 ELSE w[Some(t)] + f[t \ {Some(t)}]]
  <2>2. ASSUME NEW t \in Small(m + 1), t # {}
        PROVE  Some(t) \in D /\ t \ {Some(t)} \in Small(m) /\ t \ {Some(t)} \in Small(m + 1)
    BY <1>1, <2>2, SmallerWithoutOne
  <2>3. g \in [Small(m + 1) -> Int]
    BY <2>2
  <2>4. ASSUME NEW t \in Small(m) PROVE t \in Small(m + 1) /\ g[t] = f[t]
    <3>1. t \in Small(m + 1)
      BY <1>1
    <3> QED BY <2>1, <3>1
  <2>5. Good(g, m + 1)
    BY <2>2, <2>4
  <2> HIDE DEF g, Good, Small
  <2> QED BY <2>3, <2>5
<1>4. Cardinality(D) \in S
  <2> HIDE DEF S
  <2> QED BY <1>1, <1>2, <1>3, SetInduction
<1>5. PICK f \in [Small(Cardinality(D)) -> Int] : Good(f, Cardinality(D))
  BY <1>4
<1>6. Small(Cardinality(D)) = SUBSET D
  BY FS_Subset
<1> DEFINE g == [t \in SUBSET D |-> IF t = {} THEN 0 ELSE w[Some(t)] + f[t \ {Some(t)}]]
<1>7. g = f
  BY <1>5, <1>6
<1> QED BY <1>5, <1>6, <1>7 DEF IsSum

(* The sums of a set's parts, one element after the other. *)
LEMMA SumUnfolds ==
    ASSUME NEW D, NEW w, NEW f, IsSum(f, w, D), NEW t \in SUBSET D
    PROVE  f[t] = IF t = {} THEN 0 ELSE w[Some(t)] + f[t \ {Some(t)}]
<1> DEFINE F == [u \in SUBSET D |-> IF u = {} THEN 0 ELSE w[Some(u)] + f[u \ {Some(u)}]]
<1>1. f = F
  BY DEF IsSum
<1>2. F[t] = IF t = {} THEN 0 ELSE w[Some(t)] + f[t \ {Some(t)}]
  OBVIOUS
<1> HIDE DEF F
<1> QED BY <1>1, <1>2

LEMMA SumOfNone ==
    ASSUME NEW D, NEW w, NEW f, IsSum(f, w, D)
    PROVE  f[{}] = 0
<1>1. {} \in SUBSET D
  OBVIOUS
<1>2. f[{}] = IF {} = {} THEN 0 ELSE w[Some({})] + f[{} \ {Some({})}]
  BY <1>1, SumUnfolds
<1> QED BY <1>2

LEMMA SumStep ==
    ASSUME NEW D, NEW w, NEW f, IsSum(f, w, D), NEW t \in SUBSET D, t # {}
    PROVE  \E x \in t : x = Some(t) /\ f[t] = w[x] + f[t \ {x}]
<1>1. f[t] = IF t = {} THEN 0 ELSE w[Some(t)] + f[t \ {Some(t)}]
  BY SumUnfolds
<1>2. Some(t) \in t
  BY DEF Some
<1> QED BY <1>1, <1>2

LEMMA SumTyped ==
    ASSUME NEW D, IsFiniteSet(D), NEW w \in [D -> Int], NEW f, IsSum(f, w, D)
    PROVE  f \in [SUBSET D -> Int]
<1> DEFINE S == {m \in Nat : \A t \in SUBSET D : Cardinality(t) = m => f[t] \in Int}
<1>1. 0 \in S
  <2> SUFFICES ASSUME NEW t \in SUBSET D, Cardinality(t) = 0 PROVE f[t] \in Int
    OBVIOUS
  <2>1. t = {}
    BY FS_Subset, FS_EmptySet
  <2>2. f[t] = 0
    BY <2>1, SumOfNone
  <2> QED BY <2>2
<1>2. ASSUME NEW m \in Nat, m \in S PROVE m + 1 \in S
  <2> SUFFICES ASSUME NEW t \in SUBSET D, Cardinality(t) = m + 1 PROVE f[t] \in Int
    OBVIOUS
  <2>1. t # {}
    <3>1. Cardinality({}) = 0
      BY FS_EmptySet
    <3>2. m + 1 # 0
      OBVIOUS
    <3> QED BY <3>1, <3>2, Zenon
  <2>2. PICK x \in t : f[t] = w[x] + f[t \ {x}]
    BY <2>1, SumStep
  <2>3. Cardinality(t \ {x}) = m
    BY SmallerWithoutOne
  <2>4. f[t \ {x}] \in Int
    BY <1>2, <2>3
  <2> QED BY <2>2, <2>4
<1>3. \A m \in Nat : m \in S
  <2> HIDE DEF S
  <2> QED BY <1>1, <1>2, SetInduction
<1>4. \A t \in SUBSET D : f[t] \in Int
  BY <1>3, FS_Subset, FS_CardinalityType
<1>5. f = [t \in SUBSET D |-> f[t]]
  BY DEF IsSum
<1> QED BY <1>4, <1>5

\* The numbers that NodeValue adds.
Alive(c) == {i \in DOMAIN c.keys : c.keys[i].alive}
Weights(s, c, p) == [i \in Alive(c) |-> EvalShare(s, c.keys[i].key, p)]

(* NodeValue is the remainder of such a sum (make_tree_node's add_lazy loop
   and reduce). *)
LEMMA NodeValueIsSum ==
    ASSUME NEW s, NEW c, NEW p, IsFiniteSet(Alive(c)), Weights(s, c, p) \in [Alive(c) -> Int]
    PROVE  \E f \in [SUBSET Alive(c) -> Int] :
              /\ IsSum(f, Weights(s, c, p), Alive(c))
              /\ NodeValue(s, c, p) = f[Alive(c)] % Modulus
<1> DEFINE D == Alive(c)
           w == Weights(s, c, p)
           F(f) == [t \in SUBSET D |-> IF t = {} THEN 0 ELSE
                      LET x == Some(t) IN EvalShare(s, c.keys[x].key, p) + f[t \ {x}]]
           total == CHOOSE f : f = F(f)
<1>1. NodeValue(s, c, p) = total[D] % Modulus
  BY DEF NodeValue, MapThenSumSet, MapThenFoldSet, Alive, Some
<1>2. PICK f \in [SUBSET D -> Int] : IsSum(f, w, D)
  BY SumExists
<1>3. f = F(f)
  BY <1>2 DEF IsSum, Some, Weights
<1>4. total = F(total)
  BY <1>3
<1>5. IsSum(total, w, D)
  <2> HIDE DEF total
  <2> QED BY <1>4 DEF IsSum, Weights, Some
<1>6. total \in [SUBSET D -> Int]
  <2> HIDE DEF total
  <2> QED BY <1>5, SumTyped
<1> HIDE DEF total
<1> QED BY <1>1, <1>5, <1>6
-----------------------------------------------------------------------------
(* Equality up to a multiple of the field's order. *)

Cong(a, b) == \E k \in Int : a = b + k * Modulus

LEMMA CongSum ==
    ASSUME NEW a \in Int, NEW b \in Int, NEW x \in Int, NEW y \in Int, Cong(a, b), Cong(x, y)
    PROVE  Cong(a + x, b + y)
<1> USE ModulusAssumption
<1>1. PICK k \in Int : a = b + k * Modulus
  BY DEF Cong
<1>2. PICK l \in Int : x = y + l * Modulus
  BY DEF Cong
<1>3. k * Modulus + l * Modulus = (k + l) * Modulus
  OBVIOUS
<1>4. k * Modulus \in Int /\ l * Modulus \in Int /\ (k + l) * Modulus \in Int
  OBVIOUS
<1>5. a + x = (b + y) + (k + l) * Modulus
  BY <1>1, <1>2, <1>3, <1>4
<1>6. k + l \in Int
  OBVIOUS
<1> QED BY <1>5, <1>6, Zenon DEF Cong

LEMMA Remainder ==
    ASSUME NEW a \in Int
    PROVE  /\ a % Modulus \in 0..(Modulus - 1)
           /\ Cong(a, a % Modulus) /\ Cong(a % Modulus, a)
<1> USE ModulusAssumption
<1> DEFINE q == a \div Modulus
<1>1. q \in Int /\ a % Modulus \in 0..(Modulus - 1) /\ a = (a % Modulus) + q * Modulus
  OBVIOUS
<1>2. -q \in Int /\ (-q) * Modulus = -(q * Modulus) /\ q * Modulus \in Int
  BY <1>1
<1>3. a % Modulus = a + (-q) * Modulus
  BY <1>1, <1>2
<1> HIDE DEF q
<1> QED BY <1>1, <1>2, <1>3 DEF Cong

(* Numbers below the order that differ by a multiple of it are equal. *)
LEMMA CongUnique ==
    ASSUME NEW a \in 0..(Modulus - 1), NEW b \in 0..(Modulus - 1), Cong(a, b)
    PROVE  a = b
<1> USE ModulusAssumption
<1>1. PICK k \in Int : a = b + k * Modulus
  BY DEF Cong
<1>2. k * Modulus < Modulus /\ k * Modulus > -Modulus /\ k * Modulus \in Int
  BY <1>1
<1>3. CASE k >= 1
  <2>1. k * Modulus >= Modulus
    BY <1>3
  <2> QED BY <1>2, <2>1
<1>4. CASE k <= -1
  <2>1. k * Modulus <= -Modulus
    BY <1>4
  <2> QED BY <1>2, <2>1
<1>5. CASE k = 0
  BY <1>1, <1>5
<1> QED BY <1>3, <1>4, <1>5

LEMMA CongTransitive ==
    ASSUME NEW a \in Int, NEW b \in Int, NEW c \in Int, Cong(a, b), Cong(b, c)
    PROVE  Cong(a, c)
<1> USE ModulusAssumption
<1>1. PICK k \in Int : a = b + k * Modulus
  BY DEF Cong
<1>2. PICK l \in Int : b = c + l * Modulus
  BY DEF Cong
<1>3. k * Modulus + l * Modulus = (k + l) * Modulus
  OBVIOUS
<1>4. k * Modulus \in Int /\ l * Modulus \in Int /\ (k + l) * Modulus \in Int
  OBVIOUS
<1>5. a = c + (k + l) * Modulus
  BY <1>1, <1>2, <1>3, <1>4
<1>6. k + l \in Int
  OBVIOUS
<1> QED BY <1>5, <1>6, Zenon DEF Cong

\* Two sums over the same set take the same next element.
LEMMA SumsStep ==
    ASSUME NEW D, NEW w, NEW v, NEW f, NEW g, IsSum(f, w, D), IsSum(g, v, D),
           NEW t \in SUBSET D, t # {}
    PROVE  \E x \in t : f[t] = w[x] + f[t \ {x}] /\ g[t] = v[x] + g[t \ {x}]
<1>1. \E x \in t : x = Some(t) /\ f[t] = w[x] + f[t \ {x}]
  <2>1. \A h, u : IsSum(h, u, D) => \E x \in t : x = Some(t) /\ h[t] = u[x] + h[t \ {x}]
    BY SumStep
  <2> QED BY <2>1
<1>2. \E x \in t : x = Some(t) /\ g[t] = v[x] + g[t \ {x}]
  <2>1. \A h, u : IsSum(h, u, D) => \E x \in t : x = Some(t) /\ h[t] = u[x] + h[t \ {x}]
    BY SumStep
  <2> QED BY <2>1
<1> QED BY <1>1, <1>2

(* Two sums whose terms are shares of ones and zeros are shares of the number
   of ones. *)
LEMMA SumsOpen ==
    ASSUME NEW D, IsFiniteSet(D), NEW w \in [D -> Int], NEW v \in [D -> Int],
           NEW f, IsSum(f, w, D), NEW g, IsSum(g, v, D), NEW H \in SUBSET D,
           \A i \in D : Cong(w[i] + v[i], IF i \in H THEN 1 ELSE 0)
    PROVE  Cong(f[D] + g[D], Cardinality(H))
<1> DEFINE Opens(t) == Cong(f[t] + g[t], Cardinality(t \cap H))
           S == {m \in Nat : \A t \in SUBSET D : Cardinality(t) = m => Opens(t)}
<1> HIDE DEF Opens, S
<1>1. f \in [SUBSET D -> Int] /\ g \in [SUBSET D -> Int]
  BY SumTyped
<1>2. ASSUME NEW t \in SUBSET D
      PROVE  /\ IsFiniteSet(t) /\ IsFiniteSet(t \cap H)
             /\ Cardinality(t) \in Nat /\ Cardinality(t \cap H) \in Int
  <2>1. t \cap H \in SUBSET D
    OBVIOUS
  <2>2. IsFiniteSet(t) /\ IsFiniteSet(t \cap H)
    BY <2>1, FS_Subset
  <2>3. Cardinality(t) \in Nat /\ Cardinality(t \cap H) \in Nat
    BY <2>2, FS_CardinalityType
  <2> QED BY <2>2, <2>3
<1>3. ASSUME NEW t \in SUBSET D, t # {}
      PROVE  \E x \in t : f[t] = w[x] + f[t \ {x}] /\ g[t] = v[x] + g[t \ {x}]
  BY <1>3, SumsStep
<1>4. 0 \in S
  <2> SUFFICES ASSUME NEW t \in SUBSET D, Cardinality(t) = 0 PROVE Opens(t)
    BY DEF S
  <2>1. t = {}
    BY <1>2, FS_EmptySet
  <2>2. f[t] = 0 /\ g[t] = 0 /\ Cardinality(t \cap H) = 0
    <3>1. f[{}] = 0 /\ g[{}] = 0
      BY SumOfNone
    <3>2. t \cap H = {}
      BY <2>1
    <3> QED BY <2>1, <3>1, <3>2, FS_EmptySet
  <2>3. 0 + 0 = 0 + 0 * Modulus
    BY ModulusAssumption
  <2> QED BY <2>2, <2>3 DEF Cong, Opens
<1>5. ASSUME NEW m \in Nat, m \in S PROVE m + 1 \in S
  <2> SUFFICES ASSUME NEW t \in SUBSET D, Cardinality(t) = m + 1 PROVE Opens(t)
    BY DEF S
  <2>1. t # {}
    <3>1. Cardinality({}) = 0
      BY FS_EmptySet
    <3>2. m + 1 # 0
      OBVIOUS
    <3> QED BY <3>1, <3>2, Zenon
  <2>2. PICK x \in t : /\ f[t] = w[x] + f[t \ {x}]
                       /\ g[t] = v[x] + g[t \ {x}]
    BY <2>1, <1>3
  <2>3. PICK r \in SUBSET D : r = t \ {x}
    OBVIOUS
  <2>4. Cardinality(r) = m
    <3>1. Cardinality(t \ {x}) = Cardinality(t) - 1
      BY SmallerWithoutOne
    <3> QED BY <2>3, <3>1
  <2>5. Cong(f[r] + g[r], Cardinality(r \cap H))
    BY <1>5, <2>4 DEF S, Opens
  <2>6. PICK one \in Int : one = IF x \in H THEN 1 ELSE 0
    OBVIOUS
  <2>7. Cardinality(t \cap H) = one + Cardinality(r \cap H)
    <3>1. CASE x \in H
      <4>1. (t \cap H) \ {x} = r \cap H /\ x \in t \cap H /\ t \cap H \in SUBSET D
        BY <2>3, <3>1
      <4>2. Cardinality(r \cap H) = Cardinality(t \cap H) - 1
        BY <4>1, SmallerWithoutOne
      <4>3. Cardinality(t \cap H) \in Int
        BY <1>2
      <4> QED BY <2>6, <3>1, <4>2, <4>3
    <3>2. CASE x \notin H
      <4>1. t \cap H = r \cap H
        BY <2>3, <3>2
      <4>2. Cardinality(t \cap H) \in Int /\ one = 0
        BY <1>2, <2>6, <3>2
      <4>3. PICK n \in Int : n = Cardinality(t \cap H)
        BY <4>2
      <4>4. Cardinality(r \cap H) = n
        BY <4>1, <4>3
      <4>5. one + n = n
        BY <4>2
      <4> QED BY <4>3, <4>4, <4>5
    <3> QED BY <3>1, <3>2
  <2>8. x \in D /\ Cong(w[x] + v[x], one)
    BY <2>6
  <2>9. /\ w[x] \in Int /\ v[x] \in Int /\ f[r] \in Int /\ g[r] \in Int
        /\ Cardinality(r \cap H) \in Int
    <3>1. Cardinality(r \cap H) \in Int
      BY <1>2
    <3> QED BY <1>1, <2>8, <3>1
  <2>10. Cong((w[x] + v[x]) + (f[r] + g[r]), one + Cardinality(r \cap H))
    BY <2>5, <2>8, <2>9, CongSum
  <2>11. f[t] + g[t] = (w[x] + v[x]) + (f[r] + g[r])
    BY <2>2, <2>3, <2>9
  <2> QED BY <2>7, <2>10, <2>11 DEF Opens
<1>6. Opens(D)
  <2>1. \A m \in Nat : m \in S
    BY <1>4, <1>5, SetInduction
  <2> QED BY <1>2, <2>1 DEF S
<1>7. D \cap H = H
  OBVIOUS
<1> QED BY <1>6, <1>7 DEF Opens

-----------------------------------------------------------------------------
(* What two servers that hold the same keys compute. *)

AliveKeys(ks) == [i \in DOMAIN ks |-> [alive |-> TRUE, key |-> ks[i]]]
Bits(ks) == [i \in DOMAIN ks |-> ks[i].bits]

(* Shares of a key at a prefix are numbers, and add up to whether its string
   starts with the prefix (SketchDPFKey::eval_bit at the two servers). *)
LEMMA EvalSharesOpen ==
    ASSUME NEW key \in Key, NEW n \in 0..DataLen, NEW p \in BitPath(n)
    PROVE  /\ EvalShare(0, key, p) \in Int /\ EvalShare(1, key, p) \in Int
           /\ Cong(EvalShare(0, key, p) + EvalShare(1, key, p),
                   IF Holds(key.bits, p) THEN 1 ELSE 0)
<1> USE ModulusAssumption
<1>1. PICK m \in Int : m = Mask(key.site, p)
  BY MaskAssumption DEF Key
<1>2. PICK h \in Int : h = IF Holds(key.bits, p) THEN 1 ELSE 0
  OBVIOUS
<1>3. EvalShare(0, key, p) = m /\ EvalShare(1, key, p) = (h - m) % Modulus
  BY <1>1, <1>2 DEF EvalShare
<1>4. h - m \in Int /\ (h - m) % Modulus \in Int /\ m + (h - m) = h
  OBVIOUS
<1>5. Cong((h - m) % Modulus, h - m)
  BY <1>4, Remainder
<1>6. Cong(m, m)
  <2>1. 0 \in Int /\ m = m + 0 * Modulus
    OBVIOUS
  <2> QED BY <2>1 DEF Cong
<1>7. Cong(m + ((h - m) % Modulus), m + (h - m))
  BY <1>4, <1>5, <1>6, CongSum
<1>8. Cong(m + ((h - m) % Modulus), h)
  BY <1>4, <1>7
<1> QED BY <1>2, <1>3, <1>4, <1>8

(* The values of a node at any server are remainders. *)
LEMMA NodeValueTyped ==
    ASSUME NEW s \in Server, NEW c, NEW n \in 0..DataLen, NEW p \in BitPath(n),
           c.keys \in Seq([alive : BOOLEAN, key : Key])
    PROVE  NodeValue(s, c, p) \in 0..(Modulus - 1)
<1>1. IsFiniteSet(Alive(c))
  <2>1. DOMAIN c.keys = 1..Len(c.keys) /\ Len(c.keys) \in Nat
    OBVIOUS
  <2>2. Alive(c) \subseteq 1..Len(c.keys)
    BY <2>1 DEF Alive
  <2>3. IsFiniteSet(1..Len(c.keys))
    BY <2>1, FS_Interval
  <2> QED BY <2>2, <2>3, FS_Subset
<1>2. Weights(s, c, p) \in [Alive(c) -> Int]
  <2>1. ASSUME NEW i \in Alive(c) PROVE EvalShare(s, c.keys[i].key, p) \in Int
    <3>1. i \in 1..Len(c.keys)
      BY DEF Alive
    <3>2. c.keys[i] \in [alive : BOOLEAN, key : Key]
      BY <3>1, ElementOfSeq
    <3>3. c.keys[i].key \in Key
      BY <3>2
    <3> QED BY <3>3, EvalSharesOpen DEF Server
  <2> QED BY <2>1 DEF Weights
<1>3. PICK f \in [SUBSET Alive(c) -> Int] : NodeValue(s, c, p) = f[Alive(c)] % Modulus
  BY <1>1, <1>2, NodeValueIsSum
<1>4. f[Alive(c)] \in Int
  OBVIOUS
<1> QED BY <1>3, <1>4, Remainder

(* The two servers' values of a node add up to the number of strings that
   start with its prefix (tree_crawl at both, add_leaves at the leader). *)
LEMMA CountsOpen ==
    ASSUME NEW ks \in Seq(Key), Len(ks) < Modulus, NEW c, NEW d,
           c.keys = AliveKeys(ks), d.keys = AliveKeys(ks),
           NEW n \in 0..DataLen, NEW p \in BitPath(n)
    PROVE  Reconstruct(NodeValue(0, c, p), NodeValue(1, d, p)) = Count(Bits(ks), p)
<1> USE ModulusAssumption
<1> DEFINE D == 1..Len(ks)
           H == Holders(Bits(ks), p)
<1>1. Len(ks) \in Nat /\ DOMAIN ks = D /\ IsFiniteSet(D)
  BY FS_Interval
<1>2. Alive(c) = D /\ Alive(d) = D
  BY <1>1 DEF Alive, AliveKeys
<1>3. \A i \in D : ks[i] \in Key /\ c.keys[i].key = ks[i] /\ d.keys[i].key = ks[i]
  BY <1>1 DEF AliveKeys
<1>4. PICK w \in [D -> Int] : w = Weights(0, c, p) /\ \A i \in D : w[i] = EvalShare(0, ks[i], p)
  <2>1. \A i \in D : EvalShare(0, ks[i], p) \in Int
    BY <1>3, EvalSharesOpen
  <2>2. Weights(0, c, p) = [i \in D |-> EvalShare(0, ks[i], p)]
    BY <1>2, <1>3 DEF Weights
  <2> QED BY <2>1, <2>2
<1>5. PICK v \in [D -> Int] : v = Weights(1, d, p) /\ \A i \in D : v[i] = EvalShare(1, ks[i], p)
  <2>1. \A i \in D : EvalShare(1, ks[i], p) \in Int
    BY <1>3, EvalSharesOpen
  <2>2. Weights(1, d, p) = [i \in D |-> EvalShare(1, ks[i], p)]
    BY <1>2, <1>3 DEF Weights
  <2> QED BY <2>1, <2>2
<1>6. PICK f \in [SUBSET D -> Int] : IsSum(f, w, D) /\ NodeValue(0, c, p) = f[D] % Modulus
  <2> HIDE DEF D, H
  <2>1. IsFiniteSet(Alive(c)) /\ Weights(0, c, p) \in [Alive(c) -> Int]
    BY <1>1, <1>2, <1>4
  <2>2. \E f \in [SUBSET Alive(c) -> Int] :
            /\ IsSum(f, Weights(0, c, p), Alive(c))
            /\ NodeValue(0, c, p) = f[Alive(c)] % Modulus
    BY <2>1, NodeValueIsSum
  <2> QED BY <1>2, <1>4, <2>2
<1>7. PICK g \in [SUBSET D -> Int] : IsSum(g, v, D) /\ NodeValue(1, d, p) = g[D] % Modulus
  <2> HIDE DEF D, H
  <2>1. IsFiniteSet(Alive(d)) /\ Weights(1, d, p) \in [Alive(d) -> Int]
    BY <1>1, <1>2, <1>5
  <2>2. \E g \in [SUBSET Alive(d) -> Int] :
            /\ IsSum(g, Weights(1, d, p), Alive(d))
            /\ NodeValue(1, d, p) = g[Alive(d)] % Modulus
    BY <2>1, NodeValueIsSum
  <2> QED BY <1>2, <1>5, <2>2
<1>8. H \in SUBSET D /\ \A i \in D : i \in H <=> Holds(ks[i].bits, p)
  BY <1>1 DEF Holders, Bits, Holds
<1>9. ASSUME NEW i \in D PROVE Cong(w[i] + v[i], IF i \in H THEN 1 ELSE 0)
  BY <1>3, <1>4, <1>5, <1>8, EvalSharesOpen
<1>10. Cong(f[D] + g[D], Cardinality(H))
  <2> HIDE DEF D, H
  <2> QED BY <1>1, <1>6, <1>7, <1>8, <1>9, SumsOpen
<1>11. Bits(ks) \in Seq(BitString) /\ Len(Bits(ks)) = Len(ks)
  <2>1. \A i \in D : ks[i].bits \in BitString
    BY <1>3 DEF Key
  <2> QED BY <1>1, <2>1 DEF Bits
<1>12. Cardinality(H) \in 0..(Modulus - 1)
  <2>1. Count(Bits(ks), p) \in Nat /\ Count(Bits(ks), p) <= Len(ks)
    BY <1>11, CountBounded
  <2> QED BY <1>1, <2>1 DEF Count
<1>13. PICK a \in Int, b \in Int : a = f[D] /\ b = g[D]
  OBVIOUS
<1>14. /\ a % Modulus \in Int /\ b % Modulus \in Int
       /\ Cong(a % Modulus, a) /\ Cong(b % Modulus, b)
  BY Remainder
<1>15. Cong((a % Modulus) + (b % Modulus), a + b)
  BY <1>14, CongSum
<1>16. PICK t \in Int : t = (a % Modulus) + (b % Modulus)
  <2>1. \A x \in Int, y \in Int : x + y \in Int
    OBVIOUS
  <2>2. (a % Modulus) + (b % Modulus) \in Int
    BY <1>14, <2>1
  <2> QED BY <2>2
<1>17. t % Modulus \in 0..(Modulus - 1) /\ Cong(t % Modulus, t)
  BY Remainder
<1>18. Cong(t, Cardinality(H))
  <2>1. Cardinality(H) \in Int /\ a + b \in Int
    BY <1>12
  <2> QED BY <1>10, <1>13, <1>15, <1>16, <2>1, CongTransitive
<1>19. t % Modulus = Cardinality(H)
  <2>1. Cardinality(H) \in Int /\ t % Modulus \in Int
    BY <1>12, <1>17
  <2>2. Cong(t % Modulus, Cardinality(H))
    BY <1>17, <1>18, <2>1, CongTransitive
  <2> QED BY <1>12, <1>17, <2>2, CongUnique
<1> QED BY <1>6, <1>7, <1>13, <1>16, <1>19 DEF Reconstruct, Count

-----------------------------------------------------------------------------
(* What a prune leaves. *)

(* A nonempty set of numbers up to n has a largest one. *)
LEMMA MaxExists ==
    ASSUME NEW n \in Nat, NEW t \in SUBSET (1..n), t # {}
    PROVE  Max(t) \in t /\ \A y \in t : Max(t) >= y
<1> DEFINE HasMax(u) == \E x \in u : \A y \in u : x >= y
           S == {m \in Nat : \A u \in SUBSET (1..m) : u # {} => HasMax(u)}
<1>1. 0 \in S
  <2>1. 1..0 = {}
    OBVIOUS
  <2> QED BY <2>1
<1>2. ASSUME NEW m \in Nat, m \in S PROVE m + 1 \in S
  <2> SUFFICES ASSUME NEW u \in SUBSET (1..(m + 1)), u # {} PROVE HasMax(u)
    OBVIOUS
  <2>1. CASE m + 1 \in u
    BY <2>1
  <2>2. CASE m + 1 \notin u
    <3>1. u \in SUBSET (1..m)
      BY <2>2
    <3> QED BY <1>2, <3>1
  <2> QED BY <2>1, <2>2
<1>3. n \in S
  <2> HIDE DEF S
  <2> QED BY <1>1, <1>2, SetInduction
<1>4. HasMax(t)
  BY <1>3
<1> QED BY <1>4 DEF Max

IsPruning(f, nodes, keep, n) ==
    f = [t \in SUBSET (1..n) |->
            IF t = {} THEN nodes
            ELSE IF keep[n - Max(t) + 1] THEN f[t \ {Max(t)}]
                                         ELSE RemoveAt(f[t \ {Max(t)}], n - Max(t) + 1)]

(* The fold of tree_prune has a value, whatever it prunes. *)
LEMMA PruningExists ==
    ASSUME NEW n \in Nat, NEW nodes, NEW keep
    PROVE  \E f : IsPruning(f, nodes, keep, n)
<1> DEFINE D == 1..n
           Small(m) == {t \in SUBSET D : Cardinality(t) <= m}
           Next1(f, t) == IF t = {} THEN nodes
                          ELSE IF keep[n - Max(t) + 1] THEN f[t \ {Max(t)}]
                               ELSE RemoveAt(f[t \ {Max(t)}], n - Max(t) + 1)
           Good(f, m) == \A t \in Small(m) : f[t] = Next1(f, t)
           S == {m \in Nat : \E f : Good(f, m)}
<1>1. IsFiniteSet(D) /\ Cardinality(D) \in Nat /\ Cardinality(D) = n
  BY FS_Interval
<1>2. \A t \in SUBSET D : Cardinality(t) \in Nat /\ (t # {} => Max(t) \in t)
  BY <1>1, FS_Subset, FS_CardinalityType, MaxExists
<1>3. 0 \in S
  <2>1. ASSUME NEW t \in Small(0) PROVE t = {}
    <3>1. t \in SUBSET D /\ Cardinality(t) <= 0
      OBVIOUS
    <3>2. IsFiniteSet(t) /\ Cardinality(t) = 0
      <4> HIDE DEF D
      <4> QED BY <1>1, <1>2, <3>1, FS_Subset
    <3> QED BY <3>2, FS_EmptySet
  <2>2. Good([t \in Small(0) |-> nodes], 0)
    BY <2>1
  <2> HIDE DEF Good
  <2> QED BY <2>2
<1>4. ASSUME NEW m \in Nat, m \in S PROVE m + 1 \in S
  <2>1. PICK f : Good(f, m)
    BY <1>4
  <2> DEFINE g == [t \in Small(m + 1) |-> Next1(f, t)]
  <2>2. ASSUME NEW t \in Small(m + 1), t # {} PROVE t \ {Max(t)} \in Small(m)
    <3>1. Cardinality(t) \in Nat /\ Cardinality(t) <= m + 1 /\ Max(t) \in t
      BY <1>2, <2>2
    <3>2. Cardinality(t \ {Max(t)}) = Cardinality(t) - 1
      BY <1>1, <3>1, SmallerWithoutOne
    <3>3. t \ {Max(t)} \in SUBSET D
      OBVIOUS
    <3>4. \A a \in Nat : a <= m + 1 => a - 1 <= m
      OBVIOUS
    <3>5. Cardinality(t \ {Max(t)}) <= m
      BY <3>1, <3>2, <3>4
    <3> QED BY <3>3, <3>5
  <2>3. ASSUME NEW t \in Small(m) PROVE g[t] = f[t]
    <3>1. t \in Small(m + 1)
      BY <1>2
    <3>2. f[t] = Next1(f, t)
      BY <2>1
    <3> QED BY <3>1, <3>2
  <2>4. ASSUME NEW t \in Small(m + 1) PROVE g[t] = Next1(g, t)
    <3>1. g[t] = Next1(f, t)
      OBVIOUS
    <3>2. CASE t = {}
      BY <3>1, <3>2
    <3>3. CASE t # {}
      <4>1. g[t \ {Max(t)}] = f[t \ {Max(t)}]
        BY <2>2, <2>3, <3>3
      <4> HIDE DEF g
      <4> QED BY <3>1, <4>1
    <3> QED BY <3>2, <3>3
  <2>5. Good(g, m + 1)
    BY <2>4
  <2> HIDE DEF g, Good, Small
  <2> QED BY <2>5
<1>5. n \in S
  <2> HIDE DEF S
  <2> QED BY <1>3, <1>4, SetInduction
<1>6. PICK f : Good(f, n)
  BY <1>5
<1>7. Small(n) = SUBSET D
  BY <1>1, FS_Subset
<1> DEFINE g == [t \in SUBSET D |-> f[t]]
<1>8. ASSUME NEW t \in SUBSET D PROVE g[t] = Next1(g, t)
  <2>1. g[t] = Next1(f, t)
    BY <1>6, <1>7
  <2>2. t \ {Max(t)} \in SUBSET D
    OBVIOUS
  <2>3. g[t \ {Max(t)}] = f[t \ {Max(t)}]
    BY <2>2
  <2> HIDE DEF g
  <2> QED BY <2>1, <2>3
<1>9. g = [t \in SUBSET D |-> Next1(g, t)]
  BY <1>8
<1>10. IsPruning(g, nodes, keep, n)
  <2> HIDE DEF g
  <2> QED BY <1>9 DEF IsPruning
<1> QED BY <1>10

(* tree_prune is that fold. *)
LEMMA PrunedFolds ==
    ASSUME NEW n \in Nat, NEW nodes, NEW keep, DOMAIN keep = 1..n
    PROVE  \E f : IsPruning(f, nodes, keep, n) /\ Pruned(nodes, keep) = f[1..n]
<1> DEFINE back == Reverse([i \in DOMAIN keep |-> i])
           F(f) == [t \in SUBSET DOMAIN back |->
                      IF t = {} THEN nodes
                      ELSE LET x == Max(t)
                           IN  IF keep[back[x]] THEN f[t \ {x}] ELSE RemoveAt(f[t \ {x}], back[x])]
           total == CHOOSE f : f = F(f)
<1>1. Pruned(nodes, keep) = total[DOMAIN back]
  BY DEF Pruned, FoldLeft, MapThenFoldSet
<1>2. back = [i \in 1..n |-> n - i + 1]
  <2>1. [i \in 1..n |-> i] \in Seq(Int) /\ Len([i \in 1..n |-> i]) = n
    OBVIOUS
  <2>2. back = [i \in 1..n |-> [j \in 1..n |-> j][(n - i) + 1]]
    BY <2>1 DEF Reverse
  <2>3. \A i \in 1..n : (n - i) + 1 \in 1..n
    OBVIOUS
  <2> HIDE DEF back
  <2> QED BY <2>2, <2>3
<1>3. DOMAIN back = 1..n /\ \A i \in 1..n : back[i] = n - i + 1
  BY <1>2
<1> HIDE DEF back
<1>4. ASSUME NEW f PROVE (f = F(f)) <=> IsPruning(f, nodes, keep, n)
  <2>1. \A t \in SUBSET (1..n) : t # {} => Max(t) \in 1..n
    BY MaxExists
  <2>2. ASSUME NEW t \in SUBSET (1..n), t # {}
        PROVE  back[Max(t)] = n - Max(t) + 1
    BY <1>3, <2>1, <2>2
  <2>3. F(f) = [t \in SUBSET (1..n) |->
            IF t = {} THEN nodes
            ELSE IF keep[n - Max(t) + 1] THEN f[t \ {Max(t)}]
                                         ELSE RemoveAt(f[t \ {Max(t)}], n - Max(t) + 1)]
    BY <1>3, <2>2
  <2> HIDE DEF F
  <2> QED BY <2>3 DEF IsPruning
<1>5. PICK f : IsPruning(f, nodes, keep, n)
  BY PruningExists
<1> HIDE DEF F
<1>6. f = F(f)
  BY <1>4, <1>5
<1>7. total = F(total)
  BY <1>6
<1> HIDE DEF total
<1> QED BY <1>1, <1>3, <1>4, <1>7

(* Taking an element out moves the ones behind it forward. *)
LEMMA RemoveAtShifts ==
    ASSUME NEW T, NEW q \in Seq(T), NEW i \in 1..Len(q)
    PROVE  /\ RemoveAt(q, i) \in Seq(T)
           /\ Len(RemoveAt(q, i)) = Len(q) - 1
           /\ \A j \in 1..(Len(q) - 1) : RemoveAt(q, i)[j] = IF j < i THEN q[j] ELSE q[j + 1]
<1>1. Len(q) \in Nat /\ \A j \in 1..Len(q) : q[j] \in T
  BY ElementOfSeq
<1> DEFINE a == SubSeq(q, 1, i - 1)
           b == SubSeq(q, i + 1, Len(q))
<1>2. a \in Seq(T) /\ Len(a) = i - 1 /\ \A j \in 1..(i - 1) : a[j] = q[j]
  OBVIOUS
<1>3. b \in Seq(T) /\ Len(b) = Len(q) - i /\ \A j \in 1..(Len(q) - i) : b[j] = q[i + j]
  BY <1>1
<1> HIDE DEF a, b
<1>4. /\ a \o b \in Seq(T) /\ Len(a \o b) = Len(a) + Len(b)
      /\ \A j \in 1..(Len(a) + Len(b)) :
            (a \o b)[j] = IF j <= Len(a) THEN a[j] ELSE b[j - Len(a)]
  BY <1>2, <1>3, ConcatProperties
<1>5. RemoveAt(q, i) = a \o b
  BY DEF RemoveAt, a, b
<1>6. ASSUME NEW j \in 1..(Len(q) - 1)
      PROVE  (a \o b)[j] = IF j < i THEN q[j] ELSE q[j + 1]
  <2>1. j \in 1..(Len(a) + Len(b))
    BY <1>1, <1>2, <1>3
  <2>2. CASE j < i
    BY <1>1, <1>2, <1>4, <2>1, <2>2
  <2>3. CASE ~(j < i)
    <3>1. j - Len(a) \in 1..(Len(q) - i) /\ i + (j - Len(a)) = j + 1 /\ ~(j <= Len(a))
      BY <1>1, <1>2, <2>3
    <3>2. (a \o b)[j] = b[j - Len(a)]
      BY <1>4, <2>1, <3>1
    <3> QED BY <1>3, <2>3, <3>1, <3>2
  <2> QED BY <2>2, <2>3
<1> QED BY <1>1, <1>2, <1>3, <1>4, <1>5, <1>6

(* The fold goes through the positions from the last to the first. *)
LEMMA PruningStep ==
    ASSUME NEW n \in Nat, NEW nodes, NEW keep, NEW f, IsPruning(f, nodes, keep, n),
           NEW m \in 0..(n - 1)
    PROVE  f[1..(m + 1)] = IF keep[n - m] THEN f[1..m] ELSE RemoveAt(f[1..m], n - m)
<1> DEFINE t == 1..(m + 1)
<1>1. t \in SUBSET (1..n) /\ t # {} /\ m + 1 \in t
  OBVIOUS
<1>2. Max(t) = m + 1
  <2>1. Max(t) \in t /\ \A y \in t : Max(t) >= y
    BY <1>1, MaxExists
  <2> QED BY <1>1, <2>1
<1>3. t \ {Max(t)} = 1..m /\ n - Max(t) + 1 = n - m
  BY <1>2
<1> HIDE DEF t
<1>4. f[t] = IF t = {} THEN nodes
             ELSE IF keep[n - Max(t) + 1] THEN f[t \ {Max(t)}]
                                          ELSE RemoveAt(f[t \ {Max(t)}], n - Max(t) + 1)
  <2> DEFINE F == [u \in SUBSET (1..n) |->
            IF u = {} THEN nodes
            ELSE IF keep[n - Max(u) + 1] THEN f[u \ {Max(u)}]
                                         ELSE RemoveAt(f[u \ {Max(u)}], n - Max(u) + 1)]
  <2>1. f = F
    BY DEF IsPruning
  <2>2. F[t] = IF t = {} THEN nodes
             ELSE IF keep[n - Max(t) + 1] THEN f[t \ {Max(t)}]
                                          ELSE RemoveAt(f[t \ {Max(t)}], n - Max(t) + 1)
    BY <1>1
  <2> HIDE DEF F
  <2> QED BY <2>1, <2>2
<1>5. f[t] = IF keep[n - m] THEN f[1..m] ELSE RemoveAt(f[1..m], n - m)
  BY <1>1, <1>3, <1>4
<1> QED BY <1>5 DEF t

LEMMA PruningStart ==
    ASSUME NEW n \in Nat, NEW nodes, NEW keep, NEW f, IsPruning(f, nodes, keep, n)
    PROVE  f[1..0] = nodes
<1>1. 1..0 = {} /\ {} \in SUBSET (1..n)
  OBVIOUS
<1> DEFINE F == [u \in SUBSET (1..n) |->
            IF u = {} THEN nodes
            ELSE IF keep[n - Max(u) + 1] THEN f[u \ {Max(u)}]
                                         ELSE RemoveAt(f[u \ {Max(u)}], n - Max(u) + 1)]
<1>2. f = F
  BY DEF IsPruning
<1>3. F[{}] = nodes
  BY <1>1
<1> HIDE DEF F
<1> QED BY <1>1, <1>2, <1>3

(* The positions that a prune keeps, in order. *)
Kept(keep) == Pruned([i \in DOMAIN keep |-> i], keep)

(* h lists, once each, the positions of 1..n that are before k or kept. *)
Lists(h, keep, k, n) ==
    /\ h \in Seq(1..n)
    /\ IsInjective(h)
    /\ \A i \in 1..n : (i <= k \/ keep[i]) <=> \E j \in 1..Len(h) : h[j] = i
    /\ Len(h) >= k /\ \A i \in 1..k : h[i] = i

LEMMA ListStep ==
    ASSUME NEW n \in Nat, NEW k \in 1..n, NEW keep, NEW h, Lists(h, keep, k, n)
    PROVE  Lists(IF keep[k] THEN h ELSE RemoveAt(h, k), keep, k - 1, n)
<1>1. /\ h \in Seq(1..n) /\ Len(h) \in Nat /\ Len(h) >= k /\ DOMAIN h = 1..Len(h)
      /\ IsInjective(h) /\ \A i \in 1..k : h[i] = i
      /\ \A i \in 1..n : (i <= k \/ keep[i]) <=> \E j \in 1..Len(h) : h[j] = i
  BY DEF Lists
<1>2. CASE keep[k]
  <2>1. \A i \in 1..n : (i <= k - 1 \/ keep[i]) <=> (i <= k \/ keep[i])
    BY <1>2
  <2> QED BY <1>1, <1>2, <2>1 DEF Lists
<1>3. CASE ~keep[k]
  <2>1. PICK r : r = RemoveAt(h, k)
    OBVIOUS
  <2>2. /\ r \in Seq(1..n) /\ Len(r) = Len(h) - 1 /\ DOMAIN r = 1..Len(r)
        /\ \A j \in 1..(Len(h) - 1) : r[j] = IF j < k THEN h[j] ELSE h[j + 1]
    <3>1. k \in 1..Len(h)
      BY <1>1
    <3>2. /\ RemoveAt(h, k) \in Seq(1..n)
          /\ Len(RemoveAt(h, k)) = Len(h) - 1
          /\ \A j \in 1..(Len(h) - 1) : RemoveAt(h, k)[j] = IF j < k THEN h[j] ELSE h[j + 1]
      BY <1>1, <3>1, RemoveAtShifts
    <3>3. DOMAIN r = 1..Len(r)
      BY <2>1, <3>2
    <3> QED BY <2>1, <3>2, <3>3
  <2>3. ASSUME NEW j \in 1..Len(r)
        PROVE  \E x \in 1..Len(h) : r[j] = h[x] /\ (x = j \/ x = j + 1) /\ (x < k <=> x = j)
                                    /\ (x > k <=> x = j + 1)
    <3>1. CASE j < k
      <4>1. j \in 1..Len(h) /\ r[j] = h[j] /\ j # j + 1 /\ ~(j > k)
        BY <1>1, <2>2, <3>1
      <4> QED BY <3>1, <4>1
    <3>2. CASE ~(j < k)
      <4>1. j + 1 \in 1..Len(h) /\ r[j] = h[j + 1] /\ j # j + 1 /\ ~(j + 1 < k) /\ j + 1 > k
        BY <1>1, <2>2, <3>2
      <4> QED BY <4>1
    <3> QED BY <3>1, <3>2
  <2>4. IsInjective(r)
    <3> SUFFICES ASSUME NEW a \in 1..Len(r), NEW b \in 1..Len(r), r[a] = r[b] PROVE a = b
      BY <2>2 DEF IsInjective
    <3>1. PICK x \in 1..Len(h) : /\ r[a] = h[x] /\ (x = a \/ x = a + 1)
                                 /\ (x < k <=> x = a) /\ (x > k <=> x = a + 1)
      BY <2>3
    <3>2. PICK y \in 1..Len(h) : /\ r[b] = h[y] /\ (y = b \/ y = b + 1)
                                 /\ (y < k <=> y = b) /\ (y > k <=> y = b + 1)
      BY <2>3
    <3>3. h[x] = h[y] /\ x \in DOMAIN h /\ y \in DOMAIN h
      BY <1>1, <3>1, <3>2
    <3>4. x = y
      BY <1>1, <3>3 DEF IsInjective
    <3> QED BY <3>1, <3>2, <3>4
  <2>5. ASSUME NEW i \in 1..n
        PROVE  (i <= k - 1 \/ keep[i]) <=> \E j \in 1..Len(r) : r[j] = i
    <3>1. ASSUME NEW j \in 1..Len(r), r[j] = i PROVE i <= k - 1 \/ keep[i]
      <4>1. PICK x \in 1..Len(h) : /\ r[j] = h[x] /\ (x = j \/ x = j + 1)
                                   /\ (x < k <=> x = j) /\ (x > k <=> x = j + 1)
        BY <2>3
      <4>2. h[x] = i
        BY <3>1, <4>1
      <4>3. i <= k \/ keep[i]
        BY <1>1, <4>2
      <4>4. i # k
        <5>1. SUFFICES ASSUME i = k PROVE FALSE
          OBVIOUS
        <5>2. h[k] = h[x] /\ k \in 1..Len(h)
          BY <1>1, <4>2, <5>1
        <5>3. x = k
          BY <1>1, <5>2 DEF IsInjective
        <5> QED BY <4>1, <5>3
      <4> QED BY <4>3, <4>4
    <3>2. ASSUME i <= k - 1 \/ keep[i] PROVE \E j \in 1..Len(r) : r[j] = i
      <4>1. i # k
        BY <1>3, <3>2
      <4>2. PICK x \in 1..Len(h) : h[x] = i
        BY <1>1, <3>2
      <4>3. x # k
        BY <1>1, <4>1, <4>2
      <4>4. CASE x < k
        <5>1. x \in 1..Len(r) /\ r[x] = h[x]
          BY <1>1, <2>2, <4>4
        <5> QED BY <4>2, <5>1
      <4>5. CASE x > k
        <5>1. x - 1 \in 1..Len(r) /\ r[x - 1] = h[(x - 1) + 1] /\ (x - 1) + 1 = x
          BY <1>1, <2>2, <4>5
        <5> QED BY <4>2, <5>1
      <4> QED BY <4>3, <4>4, <4>5
    <3> QED BY <3>1, <3>2
  <2>6. Len(r) >= k - 1 /\ \A i \in 1..(k - 1) : r[i] = i
    BY <1>1, <2>2
  <2>7. Lists(r, keep, k - 1, n)
    BY <2>2, <2>4, <2>5, <2>6 DEF Lists
  <2> QED BY <1>3, <2>1, <2>7
<1> QED BY <1>2, <1>3

\* The elements of nodes at the positions that h lists.
Picked(nodes, h) == [j \in 1..Len(h) |-> nodes[h[j]]]

(* Pruning a sequence is pruning its positions. *)
LEMMA SelectStep ==
    ASSUME NEW n \in Nat, NEW k \in 1..n, NEW T, NEW nodes \in Seq(T), Len(nodes) = n,
           NEW h \in Seq(1..n), Len(h) >= k
    PROVE  RemoveAt(Picked(nodes, h), k) = Picked(nodes, RemoveAt(h, k))
<1>1. /\ Len(h) \in Nat /\ \A j \in 1..Len(h) : h[j] \in 1..n /\ nodes[h[j]] \in T
  <2>1. \A j \in 1..Len(h) : h[j] \in 1..n
    BY ElementOfSeq
  <2> QED BY <2>1, ElementOfSeq
<1>2. PICK g : g = [j \in 1..Len(h) |-> nodes[h[j]]]
  OBVIOUS
<1>3. g \in Seq(T) /\ Len(g) = Len(h) /\ \A j \in 1..Len(h) : g[j] = nodes[h[j]]
  BY <1>1, <1>2
<1>4. k \in 1..Len(h)
  BY <1>1
<1>5. PICK r : r = RemoveAt(h, k)
  OBVIOUS
<1>6. /\ r \in Seq(1..n) /\ Len(r) = Len(h) - 1
      /\ \A j \in 1..(Len(h) - 1) : r[j] = IF j < k THEN h[j] ELSE h[j + 1]
  BY <1>4, <1>5, RemoveAtShifts
<1>7. PICK q : q = RemoveAt(g, k)
  OBVIOUS
<1>8. /\ q \in Seq(T) /\ Len(q) = Len(h) - 1
      /\ \A j \in 1..(Len(h) - 1) : q[j] = IF j < k THEN g[j] ELSE g[j + 1]
  <2>1. k \in 1..Len(g)
    BY <1>3, <1>4
  <2>2. /\ RemoveAt(g, k) \in Seq(T) /\ Len(RemoveAt(g, k)) = Len(g) - 1
        /\ \A j \in 1..(Len(g) - 1) : RemoveAt(g, k)[j] = IF j < k THEN g[j] ELSE g[j + 1]
    BY <1>3, <2>1, RemoveAtShifts
  <2> QED BY <1>3, <1>7, <2>2
<1>9. ASSUME NEW j \in 1..(Len(h) - 1) PROVE q[j] = nodes[r[j]]
  <2>1. j \in 1..Len(h) /\ j + 1 \in 1..Len(h)
    BY <1>1
  <2>2. CASE j < k
    BY <1>3, <1>6, <1>8, <2>1, <2>2
  <2>3. CASE ~(j < k)
    BY <1>3, <1>6, <1>8, <2>1, <2>3
  <2> QED BY <2>2, <2>3
<1>10. q = [j \in 1..Len(r) |-> nodes[r[j]]]
  BY <1>1, <1>6, <1>8, <1>9
<1> QED BY <1>2, <1>5, <1>7, <1>10 DEF Picked

(* What is left of a sequence are its elements at the kept positions, in
   order and each once (tree_prune, from the back to the front). *)
LEMMA PrunedSelects ==
    ASSUME NEW n \in Nat, NEW keep, DOMAIN keep = 1..n
    PROVE  /\ Lists(Kept(keep), keep, 0, n)
           /\ \A T : \A nodes \in Seq(T) : Len(nodes) = n =>
                 Pruned(nodes, keep) = Picked(nodes, Kept(keep))
<1> DEFINE ids == [i \in 1..n |-> i]
<1>1. ids \in Seq(1..n) /\ Len(ids) = n /\ \A i \in 1..n : ids[i] = i
  OBVIOUS
<1>2. [i \in DOMAIN keep |-> i] = ids
  OBVIOUS
<1> HIDE DEF ids
<1>3. PICK h : IsPruning(h, ids, keep, n) /\ Kept(keep) = h[1..n]
  BY <1>2, PrunedFolds DEF Kept
<1> DEFINE S == {m \in Nat : m <= n => Lists(h[1..m], keep, n - m, n)}
<1>4. 0 \in S
  <2>1. Lists(ids, keep, n, n)
    BY <1>1 DEF Lists, IsInjective
  <2>2. h[1..0] = ids
    BY <1>3, PruningStart
  <2>3. n - 0 = n
    OBVIOUS
  <2> QED BY <2>1, <2>2, <2>3
<1>5. ASSUME NEW m \in Nat, m \in S PROVE m + 1 \in S
  <2> SUFFICES ASSUME m + 1 <= n PROVE Lists(h[1..(m + 1)], keep, n - (m + 1), n)
    OBVIOUS
  <2>1. m \in 0..(n - 1) /\ n - m \in 1..n /\ n - (m + 1) = (n - m) - 1 /\ m <= n
    OBVIOUS
  <2>2. h[1..(m + 1)] = IF keep[n - m] THEN h[1..m] ELSE RemoveAt(h[1..m], n - m)
    BY <1>3, <2>1, PruningStep
  <2>3. Lists(h[1..m], keep, n - m, n)
    BY <1>5, <2>1
  <2> QED BY <2>1, <2>2, <2>3, ListStep
<1>6. \A m \in Nat : m \in S
  <2> HIDE DEF S
  <2> QED BY <1>4, <1>5, SetInduction
<1>7. \A m \in 0..n : Lists(h[1..m], keep, n - m, n)
  BY <1>6
<1>8. Lists(Kept(keep), keep, 0, n)
  <2>1. n \in 0..n /\ n - n = 0
    OBVIOUS
  <2>2. Lists(h[1..n], keep, n - n, n)
    BY <1>7, <2>1
  <2> QED BY <1>3, <2>1, <2>2
<1>9. ASSUME NEW T, NEW nodes \in Seq(T), Len(nodes) = n
      PROVE  Pruned(nodes, keep) = Picked(nodes, Kept(keep))
  <2>1. PICK g : IsPruning(g, nodes, keep, n) /\ Pruned(nodes, keep) = g[1..n]
    BY PrunedFolds
  <2> DEFINE R == {m \in Nat : m <= n =>
                     g[1..m] = Picked(nodes, h[1..m])}
  <2>2. 0 \in R
    <3>1. g[1..0] = nodes /\ h[1..0] = ids
      BY <1>3, <2>1, PruningStart
    <3>2. nodes = [j \in 1..n |-> nodes[ids[j]]]
      BY <1>1, <1>9
    <3>3. nodes = Picked(nodes, ids)
      BY <1>1, <3>2 DEF Picked
    <3> QED BY <3>1, <3>3
  <2>3. ASSUME NEW m \in Nat, m \in R PROVE m + 1 \in R
    <3> SUFFICES ASSUME m + 1 <= n
                 PROVE  g[1..(m + 1)] = Picked(nodes, h[1..(m + 1)])
      OBVIOUS
    <3>1. m \in 0..(n - 1) /\ m \in 0..n /\ n - m \in 1..n /\ m <= n
      OBVIOUS
    <3>2. h[1..(m + 1)] = IF keep[n - m] THEN h[1..m] ELSE RemoveAt(h[1..m], n - m)
      BY <1>3, <3>1, PruningStep
    <3>3. g[1..(m + 1)] = IF keep[n - m] THEN g[1..m] ELSE RemoveAt(g[1..m], n - m)
      BY <2>1, <3>1, PruningStep
    <3>4. g[1..m] = Picked(nodes, h[1..m])
      BY <2>3, <3>1
    <3>5. PICK hm : hm = h[1..m]
      OBVIOUS
    <3>6. hm \in Seq(1..n) /\ Len(hm) >= n - m
      BY <1>7, <3>1, <3>5 DEF Lists
    <3>7. RemoveAt(Picked(nodes, hm), n - m) = Picked(nodes, RemoveAt(hm, n - m))
      <4> HIDE DEF R, S
      <4>1. Len(nodes) = n /\ nodes \in Seq(T)
        BY <1>9
      <4>2. PICK k \in 1..n : k = n - m
        BY <3>1
      <4>3. Len(hm) >= k
        BY <3>6, <4>2
      <4>4. RemoveAt(Picked(nodes, hm), k) = Picked(nodes, RemoveAt(hm, k))
        BY <3>6, <4>1, <4>3, SelectStep
      <4> QED BY <4>2, <4>4
    <3> HIDE DEF R, S
    <3>8. CASE keep[n - m]
      BY <3>2, <3>3, <3>4, <3>8
    <3>9. CASE ~keep[n - m]
      BY <3>2, <3>3, <3>4, <3>5, <3>7, <3>9
    <3> QED BY <3>8, <3>9
  <2>4. \A m \in Nat : m \in R
    <3> HIDE DEF R
    <3> QED BY <2>2, <2>3, SetInduction
  <2> QED BY <1>3, <2>1, <2>4
<1> QED BY <1>8, <1>9

-----------------------------------------------------------------------------
(* Frontiers as the paths they are at. *)

TreeNode == [path : Seq(BOOLEAN), value : 0..(Modulus - 1), width : Nat]

\* nodes are at the paths P, and were made from w keys.
IsFrontier(nodes, P, w) ==
    /\ nodes \in Seq(TreeNode)
    /\ Len(nodes) = Len(P)
    /\ \A i \in 1..Len(P) : nodes[i].path = P[i] /\ nodes[i].width = w

ChildPaths(P) == [i \in 1..(2 * Len(P)) |-> Append(P[(i + 1) \div 2], i % 2 = 0)]

(* A path is the child of one path by one bit only. *)
LEMMA SameChild ==
    ASSUME NEW n \in Nat, NEW p \in BitPath(n), NEW q \in BitPath(n),
           NEW a, NEW b, Append(p, a) = Append(q, b)
    PROVE  p = q /\ a = b
<1>1. p \in Seq(BOOLEAN) /\ q \in Seq(BOOLEAN) /\ Len(p) = n /\ Len(q) = n
  BY DEF BitPath
<1>2. /\ Append(p, a)[n + 1] = a /\ \A i \in 1..n : Append(p, a)[i] = p[i]
      /\ Append(q, b)[n + 1] = b /\ \A i \in 1..n : Append(q, b)[i] = q[i]
  BY <1>1
<1>3. \A i \in 1..n : p[i] = q[i]
  BY <1>2
<1>4. p = q
  BY <1>1, <1>3, SeqEqual
<1>5. a = b
  BY <1>2
<1> QED BY <1>4, <1>5

(* Position i among the children belongs to the node in the middle. *)
LEMMA Halves ==
    ASSUME NEW m \in Nat, NEW i \in 1..(2 * m)
    PROVE  /\ (i + 1) \div 2 \in 1..m
           /\ i = IF i % 2 = 0 THEN 2 * ((i + 1) \div 2) ELSE 2 * ((i + 1) \div 2) - 1
  OBVIOUS

(* The children of different paths are different, and all are there
   (tree_crawl's two children of every node). *)
LEMMA ChildPathsAreChildren ==
    ASSUME NEW n \in Nat, NEW P \in Seq(BitPath(n))
    PROVE  /\ ChildPaths(P) \in Seq(BitPath(n + 1))
           /\ Len(ChildPaths(P)) = 2 * Len(P)
           /\ IsInjective(P) => IsInjective(ChildPaths(P))
           /\ \A q \in Range(ChildPaths(P)) : \E p \in Range(P), b \in BOOLEAN : q = Append(p, b)
           /\ \A p \in Range(P), b \in BOOLEAN : Append(p, b) \in Range(ChildPaths(P))
<1>1. Len(P) \in Nat /\ DOMAIN P = 1..Len(P) /\ \A i \in 1..Len(P) : P[i] \in BitPath(n)
  BY ElementOfSeq
<1>2. PICK m \in Nat : m = Len(P)
  BY <1>1, Zenon
<1>3. PICK C : C = ChildPaths(P)
  OBVIOUS
<1>4. /\ DOMAIN C = 1..(2 * m)
      /\ \A i \in 1..(2 * m) : C[i] = Append(P[(i + 1) \div 2], i % 2 = 0)
  BY <1>2, <1>3 DEF ChildPaths
<1>5. ASSUME NEW i \in 1..(2 * m)
      PROVE  /\ (i + 1) \div 2 \in 1..m /\ P[(i + 1) \div 2] \in BitPath(n)
             /\ C[i] \in BitPath(n + 1)
  <2>1. (i + 1) \div 2 \in 1..m
    BY Halves
  <2>2. P[(i + 1) \div 2] \in BitPath(n)
    BY <1>1, <1>2, <2>1
  <2>3. (i % 2 = 0) \in BOOLEAN
    OBVIOUS
  <2> QED BY <1>4, <2>1, <2>2, <2>3, ExtendPath
<1>6. C \in Seq(BitPath(n + 1)) /\ Len(C) = 2 * m
  <2>1. 2 * m \in Nat
    OBVIOUS
  <2>2. C = [i \in 1..(2 * m) |-> C[i]]
    BY <1>3, <1>4 DEF ChildPaths
  <2>3. PICK k \in Nat : k = 2 * m
    BY <2>1
  <2>4. C \in [1..k -> BitPath(n + 1)]
    BY <1>5, <2>2, <2>3
  <2> QED BY <2>3, <2>4
<1>7. ASSUME IsInjective(P) PROVE IsInjective(C)
  <2> SUFFICES ASSUME NEW i \in 1..(2 * m), NEW j \in 1..(2 * m), C[i] = C[j] PROVE i = j
    BY <1>4 DEF IsInjective
  <2>1. PICK x \in 1..m, y \in 1..m : x = (i + 1) \div 2 /\ y = (j + 1) \div 2
    BY <1>5
  <2>2. PICK a, b : a = (i % 2 = 0) /\ b = (j % 2 = 0)
    OBVIOUS
  <2>3. PICK u \in BitPath(n), v \in BitPath(n) : u = P[x] /\ v = P[y]
    BY <1>1, <1>2, <2>1
  <2>4. Append(u, a) = Append(v, b)
    BY <1>4, <2>1, <2>2, <2>3
  <2>5. u = v /\ a = b
    BY <2>4, SameChild
  <2>6. x = y
    BY <1>1, <1>2, <1>7, <2>3, <2>5 DEF IsInjective
  <2> QED BY <2>1, <2>2, <2>5, <2>6, Halves
<1>8. /\ \A q \in Range(C) : \E p \in Range(P), b \in BOOLEAN : q = Append(p, b)
      /\ \A p \in Range(P), b \in BOOLEAN : Append(p, b) \in Range(C)
  <2>1. ASSUME NEW q \in Range(C) PROVE \E p \in Range(P), b \in BOOLEAN : q = Append(p, b)
    <3>1. PICK i \in 1..(2 * m) : q = C[i]
      BY <1>4, <2>1 DEF Range
    <3>2. PICK p : p = P[(i + 1) \div 2]
      OBVIOUS
    <3>3. p \in Range(P)
      BY <1>1, <1>2, <1>5, <3>2 DEF Range
    <3>4. q = Append(p, i % 2 = 0) /\ (i % 2 = 0) \in BOOLEAN
      BY <1>4, <3>1, <3>2
    <3> QED BY <3>3, <3>4
  <2>2. ASSUME NEW p \in Range(P), NEW b \in BOOLEAN PROVE Append(p, b) \in Range(C)
    <3>1. PICK x \in 1..m : p = P[x]
      BY <1>1, <1>2, <2>2 DEF Range
    <3>2. PICK i \in 1..(2 * m) : i = IF b THEN 2 * x ELSE 2 * x - 1
      OBVIOUS
    <3>3. (i + 1) \div 2 = x /\ (i % 2 = 0) = b
      BY <3>2
    <3>4. C[i] = Append(p, b)
      BY <1>4, <3>1, <3>3
    <3> QED BY <1>4, <3>4 DEF Range
  <2> QED BY <2>1, <2>2
<1> QED BY <1>2, <1>3, <1>6, <1>7, <1>8

(* Paths are sequences of bits. *)
LEMMA PathTyped ==
    ASSUME NEW n \in Nat, NEW p \in BitPath(n)
    PROVE  p \in Seq(BOOLEAN) /\ Len(p) = n
BY DEF BitPath

\* What a server stores for a client: the key, and whether it is still in.
StoredKey == [alive : BOOLEAN, key : Key]

(* A crawl puts the frontier at the children, each with this server's share
   of its count (make_tree_node). *)
LEMMA NextFrontierIs ==
    ASSUME NEW s \in Server, NEW c, NEW n \in 0..(DataLen - 1), NEW P \in Seq(BitPath(n)), NEW w,
           IsFrontier(c.frontier, P, w), c.keys \in Seq(StoredKey)
    PROVE  /\ IsFrontier(NextFrontier(s, c), ChildPaths(P), Len(c.keys))
           /\ \A i \in 1..Len(ChildPaths(P)) :
                 NextFrontier(s, c)[i].value = NodeValue(s, c, ChildPaths(P)[i])
<1> USE DataLenAssumption
<1>1. n \in Nat /\ n + 1 \in 0..DataLen /\ n + 1 \in Nat
  OBVIOUS
<1>2. PICK C : C = ChildPaths(P)
  OBVIOUS
<1>3. PICK m \in Nat : m = Len(P)
  BY LenProperties
<1>4. /\ C \in Seq(BitPath(n + 1)) /\ Len(C) = 2 * m
      /\ \A i \in 1..(2 * m) : C[i] = Append(P[(i + 1) \div 2], i % 2 = 0)
  <2>1. C \in Seq(BitPath(n + 1)) /\ Len(C) = 2 * m
    BY <1>1, <1>2, <1>3, ChildPathsAreChildren
  <2>2. C = [i \in 1..(2 * m) |-> Append(P[(i + 1) \div 2], i % 2 = 0)]
    BY <1>2, <1>3 DEF ChildPaths
  <2>3. \A i \in 1..(2 * m) : C[i] = Append(P[(i + 1) \div 2], i % 2 = 0)
    BY <2>2
  <2> QED BY <2>1, <2>3
<1>5. PICK N : N = NextFrontier(s, c)
  OBVIOUS
<1>6. PICK k \in Nat : k = 2 * m
  OBVIOUS
<1>7. N = [i \in 1..k |-> MakeTreeNode(s, c, c.frontier[(i + 1) \div 2], i % 2 = 0)]
  BY <1>3, <1>5, <1>6 DEF NextFrontier, IsFrontier
<1>8. ASSUME NEW i \in 1..k
      PROVE  N[i] \in TreeNode /\ N[i].path = C[i] /\ N[i].width = Len(c.keys)
             /\ N[i].value = NodeValue(s, c, C[i])
  <2>1. i \in 1..(2 * m) /\ (i + 1) \div 2 \in 1..m
    BY <1>6, Halves
  <2>2. c.frontier[(i + 1) \div 2].path = P[(i + 1) \div 2]
    BY <1>3, <2>1 DEF IsFrontier
  <2>3. N[i] = MakeTreeNode(s, c, c.frontier[(i + 1) \div 2], i % 2 = 0)
    BY <1>7
  <2>4. PICK p : p = C[i]
    OBVIOUS
  <2>5. p = Append(c.frontier[(i + 1) \div 2].path, i % 2 = 0)
    BY <1>4, <2>1, <2>2, <2>4
  <2>6. N[i] = [path |-> p, value |-> NodeValue(s, c, p), width |-> Len(c.keys)]
    BY <2>3, <2>5 DEF MakeTreeNode
  <2>7. p \in BitPath(n + 1)
    BY <1>4, <2>1, <2>4, ElementOfSeq
  <2>8. p \in Seq(BOOLEAN)
    BY <1>1, <2>7, PathTyped
  <2>9. NodeValue(s, c, p) \in 0..(Modulus - 1)
    BY <1>1, <2>7, NodeValueTyped DEF StoredKey
  <2>10. Len(c.keys) \in Nat
    BY LenProperties
  <2> QED BY <2>4, <2>6, <2>8, <2>9, <2>10 DEF TreeNode
<1>9. N \in Seq(TreeNode) /\ Len(N) = k
  <2>1. DOMAIN N = 1..k /\ N = [i \in 1..k |-> N[i]]
    BY <1>7
  <2>2. N \in [1..k -> TreeNode]
    BY <1>8, <2>1
  <2> QED BY <2>2
<1> QED BY <1>2, <1>4, <1>5, <1>6, <1>8, <1>9 DEF IsFrontier

(* The paths and the values of a frontier, as sequences of its length. *)
LEMMA FrontierParts ==
    ASSUME NEW T, NEW P \in Seq(T), NEW w, NEW nodes, IsFrontier(nodes, P, w)
    PROVE  /\ DOMAIN nodes = 1..Len(P) /\ Len(nodes) = Len(P) /\ Len(P) \in Nat
           /\ Paths(nodes) = P
           /\ DOMAIN Values(nodes) = 1..Len(P) /\ Len(Values(nodes)) = Len(P)
           /\ \A i \in 1..Len(P) : Values(nodes)[i] = nodes[i].value
<1>1. DOMAIN nodes = 1..Len(P) /\ Len(nodes) = Len(P) /\ Len(P) \in Nat
  BY LenProperties DEF IsFrontier
<1>2. Paths(nodes) = P
  <2>1. DOMAIN P = 1..Len(P) /\ P = [i \in 1..Len(P) |-> P[i]]
    BY LenProperties
  <2>2. Paths(nodes) = [i \in 1..Len(P) |-> P[i]]
    BY <1>1 DEF Paths, IsFrontier
  <2> QED BY <2>1, <2>2
<1>3. Values(nodes) = [i \in 1..Len(P) |-> nodes[i].value]
  BY <1>1 DEF Values
<1>4. Len(Values(nodes)) = Len(P) /\ DOMAIN Values(nodes) = 1..Len(P)
  BY <1>1, <1>3
<1> QED BY <1>1, <1>2, <1>3, <1>4

(* Nodes that are picked by position keep their paths and their values. *)
LEMMA PickedFrontier ==
    ASSUME NEW n \in Nat, NEW e \in Seq(1..n), NEW P, Len(P) = n, NEW w, NEW nodes,
           IsFrontier(nodes, P, w)
    PROVE  /\ IsFrontier(Picked(nodes, e), Picked(P, e), w)
           /\ Len(Picked(P, e)) = Len(e)
           /\ \A j \in 1..Len(e) : e[j] \in 1..n /\ Picked(nodes, e)[j].value = nodes[e[j]].value
                                   /\ Picked(P, e)[j] = P[e[j]]
<1>1. PICK k \in Nat : k = Len(e)
  BY LenProperties
<1>2. \A j \in 1..k : e[j] \in 1..n
  BY <1>1, ElementOfSeq
<1>3. nodes \in Seq(TreeNode) /\ Len(nodes) = n
  BY DEF IsFrontier
<1>4. \A i \in 1..n : nodes[i] \in TreeNode
  BY <1>3, ElementOfSeq
<1>5. PICK N : N = Picked(nodes, e)
  OBVIOUS
<1>6. N = [j \in 1..k |-> nodes[e[j]]]
  BY <1>1, <1>5 DEF Picked
<1>7. N \in Seq(TreeNode) /\ Len(N) = k /\ \A j \in 1..k : N[j] = nodes[e[j]]
  <2>1. N \in [1..k -> TreeNode]
    BY <1>2, <1>4, <1>6
  <2> QED BY <1>6, <2>1
<1>8. PICK Q : Q = Picked(P, e)
  OBVIOUS
<1>9. Q = [j \in 1..k |-> P[e[j]]]
  BY <1>1, <1>8 DEF Picked
<1>10. Len(Q) = k /\ \A j \in 1..k : Q[j] = P[e[j]]
  BY <1>9
<1>11. ASSUME NEW j \in 1..k PROVE N[j].path = Q[j] /\ N[j].width = w
  BY <1>2, <1>7, <1>10 DEF IsFrontier
<1>12. IsFrontier(N, Q, w)
  BY <1>7, <1>10, <1>11 DEF IsFrontier
<1> QED BY <1>1, <1>2, <1>5, <1>7, <1>8, <1>10, <1>12

(* The paths left by a prune are the kept ones, each once. *)
LEMMA PickedPaths ==
    ASSUME NEW n \in Nat, NEW e, NEW keep, Lists(e, keep, 0, n),
           NEW T, NEW P \in Seq(T), Len(P) = n
    PROVE  /\ Picked(P, e) \in Seq(T)
           /\ IsInjective(P) => IsInjective(Picked(P, e))
           /\ Range(Picked(P, e)) = {P[i] : i \in {j \in 1..n : keep[j]}}
<1>1. e \in Seq(1..n) /\ IsInjective(e)
  BY DEF Lists
<1>2. PICK k \in Nat : k = Len(e)
  BY <1>1, LenProperties
<1>3. \A j \in 1..k : e[j] \in 1..n
  BY <1>1, <1>2, ElementOfSeq
<1>4. DOMAIN e = 1..k
  BY <1>1, <1>2
<1>5. \A i \in 1..n : keep[i] <=> \E j \in 1..k : e[j] = i
  <2>1. \A i \in 1..n : ~(i <= 0)
    OBVIOUS
  <2> QED BY <1>2, <2>1 DEF Lists
<1>6. DOMAIN P = 1..n /\ \A i \in 1..n : P[i] \in T
  BY ElementOfSeq
<1>7. PICK Q : Q = Picked(P, e)
  OBVIOUS
<1>8. Q = [j \in 1..k |-> P[e[j]]]
  BY <1>2, <1>7 DEF Picked
<1>9. Q \in Seq(T) /\ DOMAIN Q = 1..k /\ \A j \in 1..k : Q[j] = P[e[j]]
  <2>1. Q \in [1..k -> T]
    BY <1>3, <1>6, <1>8
  <2> QED BY <1>8, <2>1
<1>10. ASSUME IsInjective(P) PROVE IsInjective(Q)
  BY <1>1, <1>3, <1>4, <1>6, <1>9, <1>10 DEF IsInjective
<1>11. Range(Q) = {P[i] : i \in {j \in 1..n : keep[j]}}
  <2>1. ASSUME NEW q \in Range(Q) PROVE q \in {P[i] : i \in {j \in 1..n : keep[j]}}
    <3>1. PICK j \in 1..k : q = P[e[j]]
      BY <1>9 DEF Range
    <3> QED BY <1>3, <1>5, <3>1
  <2>2. ASSUME NEW i \in 1..n, keep[i] PROVE P[i] \in Range(Q)
    <3>1. PICK j \in 1..k : e[j] = i
      BY <1>5, <2>2
    <3>2. j \in DOMAIN Q /\ Q[j] = P[i]
      BY <1>9, <3>1
    <3> QED BY <3>2 DEF Range
  <2> QED BY <2>1, <2>2
<1> QED BY <1>7, <1>9, <1>10, <1>11

(* The root is the frontier at the empty path (tree_init). *)
LEMMA RootFrontier ==
    ASSUME NEW w \in Nat
    PROVE  /\ IsFrontier(<<[path |-> << >>, value |-> 0, width |-> w]>>, << << >> >>, w)
           /\ << << >> >> \in Seq(BitPath(0)) /\ IsInjective(<< << >> >>)
           /\ Range(<< << >> >>) = {<< >>}
<1>1. [path |-> << >>, value |-> 0, width |-> w] \in TreeNode
  BY ModulusAssumption DEF TreeNode
<1>2. << >> \in BitPath(0)
  BY RootPath
<1>3. DOMAIN << << >> >> = {1}
  OBVIOUS
<1> QED BY <1>1, <1>2, <1>3 DEF IsFrontier, IsInjective, Range
-----------------------------------------------------------------------------
(* Facts about a collection of honest keys. *)

Collection == [keys : Seq(StoredKey), frontier : Seq(TreeNode), frontierLast : Seq(TreeNode)]

(* A collection is the record of its fields. *)
LEMMA CollectionFields ==
    ASSUME NEW c \in Collection
    PROVE  /\ c = [keys |-> c.keys, frontier |-> c.frontier, frontierLast |-> c.frontierLast]
           /\ c.keys \in Seq(StoredKey)
           /\ c.frontier \in Seq(TreeNode) /\ c.frontierLast \in Seq(TreeNode)
BY DEF Collection

(* Storing keys loses none. *)
LEMMA AliveLength ==
    ASSUME NEW ks \in Seq(Key)
    PROVE  Len(AliveKeys(ks)) = Len(ks) /\ DOMAIN AliveKeys(ks) = 1..Len(ks) /\ Len(ks) \in Nat
BY DEF AliveKeys

(* What enough strings start with is a child of what enough strings start
   with: a crawl misses nothing that the frontier did not miss. *)
LEMMA ChildrenOfHeavy ==
    ASSUME NEW vs \in Seq(BitString), NEW th \in Nat, NEW l \in Nat, NEW P \in Seq(BitPath(l)),
           \A q \in BitPath(l) : Count(vs, q) >= th => q \in Range(P)
    PROVE  \A q \in BitPath(l + 1) : Count(vs, q) >= th => q \in Range(ChildPaths(P))
<1> SUFFICES ASSUME NEW q \in BitPath(l + 1), Count(vs, q) >= th
             PROVE  q \in Range(ChildPaths(P))
  OBVIOUS
<1>1. PICK p \in BitPath(l), b \in BOOLEAN : q = Append(p, b)
  BY SplitPath
<1>2. Count(vs, q) <= Count(vs, p) /\ Count(vs, q) \in Nat /\ Count(vs, p) \in Nat
  BY <1>1, CountMonotone, CountType
<1>3. Count(vs, p) >= th
  BY <1>2
<1>4. p \in Range(P)
  BY <1>3
<1>5. \A x \in Range(P), d \in BOOLEAN : Append(x, d) \in Range(ChildPaths(P))
  BY ChildPathsAreChildren
<1> QED BY <1>1, <1>4, <1>5

(* A string has one prefix of each length: it is at one of the distinct paths
   of a level, or at none. *)
LEMMA HeldOnce ==
    ASSUME NEW n \in 0..DataLen, NEW P \in Seq(BitPath(n)), IsInjective(P), NEW bits
    PROVE  \A i, j \in DOMAIN P : Holds(bits, P[i]) /\ Holds(bits, P[j]) => i = j
<1> USE DataLenAssumption
<1>1. SUFFICES ASSUME NEW i \in DOMAIN P, NEW j \in DOMAIN P,
                      Holds(bits, P[i]), Holds(bits, P[j])
               PROVE  i = j
  OBVIOUS
<1>2. P[i] \in BitPath(n) /\ P[j] \in BitPath(n)
  BY ElementOfSeq, LenProperties
<1>3. DOMAIN P[i] = 1..n /\ DOMAIN P[j] = 1..n
  BY <1>2 DEF BitPath
<1>4. \A x \in 1..n : P[i][x] = P[j][x]
  BY <1>1, <1>3 DEF Holds
<1>5. P[i] = P[j]
  BY <1>2, <1>4 DEF BitPath
<1> QED BY <1>5 DEF IsInjective
=============================================================================
