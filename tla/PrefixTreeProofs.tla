-------------------------- MODULE PrefixTreeProofs --------------------------
(***************************************************************************)
(* The search of PrefixTree loses no heavy prefix, keeps no light one, and *)
(* so publishes what HeavyHitters promises, for every string length,       *)
(* number of clients and threshold.                                        *)
(***************************************************************************)
EXTENDS PrefixTree, FiniteSetTheorems, SequenceTheorems, TLAPS

-----------------------------------------------------------------------------
(* Paths and counts. *)

(* Strings that start with p and one bit more start with p, so a child never
   counts more than its parent (the sums make_tree_node builds). *)
LEMMA CountMonotone ==
    ASSUME NEW vs \in Seq(BitString), NEW n \in Nat, NEW p \in BitPath(n), NEW b \in BOOLEAN
    PROVE  Count(vs, Append(p, b)) <= Count(vs, p)
<1>1. p \in Seq(BOOLEAN) /\ Len(p) = n /\ DOMAIN p = 1..n
  BY DEF BitPath
<1>2. Holders(vs, Append(p, b)) \subseteq Holders(vs, p)
  <2> SUFFICES ASSUME NEW i \in DOMAIN vs,
                      \A j \in DOMAIN Append(p, b) : vs[i][j] = Append(p, b)[j]
               PROVE  \A j \in DOMAIN p : vs[i][j] = p[j]
    BY DEF Holders
  <2>1. DOMAIN Append(p, b) = 1..(n + 1)
    BY <1>1
  <2>2. \A j \in 1..n : Append(p, b)[j] = p[j]
    BY <1>1
  <2> QED BY <1>1, <2>1, <2>2
<1>3. IsFiniteSet(Holders(vs, p))
  <2>1. DOMAIN vs = 1..Len(vs) /\ Len(vs) \in Nat
    OBVIOUS
  <2>2. IsFiniteSet(1..Len(vs))
    BY <2>1, FS_Interval
  <2> QED BY <2>1, <2>2, FS_Subset DEF Holders
<1> QED BY <1>2, <1>3, FS_Subset DEF Count

(* Every count is a number: only finitely many clients hold a prefix. *)
LEMMA CountType ==
    ASSUME NEW vs \in Seq(BitString), NEW p
    PROVE  Count(vs, p) \in Nat
<1>1. DOMAIN vs = 1..Len(vs) /\ Len(vs) \in Nat
  OBVIOUS
<1>2. IsFiniteSet(1..Len(vs))
  BY <1>1, FS_Interval
<1>3. IsFiniteSet(Holders(vs, p))
  BY <1>1, <1>2, FS_Subset DEF Holders
<1> QED BY <1>3, FS_CardinalityType DEF Count

(* A prefix of n+1 bits is a prefix of n bits and one bit. *)
LEMMA SplitPath ==
    ASSUME NEW n \in Nat, NEW q \in BitPath(n + 1)
    PROVE  \E p \in BitPath(n), b \in BOOLEAN : q = Append(p, b)
<1> DEFINE p == [i \in 1..n |-> q[i]]
<1>1. p \in BitPath(n) /\ q[n + 1] \in BOOLEAN
  BY DEF BitPath
<1>2. q = Append(p, q[n + 1])
  <2>1. q \in Seq(BOOLEAN) /\ Len(q) = n + 1
    BY DEF BitPath
  <2>2. p \in Seq(BOOLEAN) /\ Len(p) = n
    <3> HIDE DEF p
    <3> QED BY <1>1 DEF BitPath
  <2>3. Append(p, q[n + 1]) \in Seq(BOOLEAN) /\ Len(Append(p, q[n + 1])) = n + 1
    BY <1>1, <2>2
  <2>4. \A i \in 1..(n + 1) : Append(p, q[n + 1])[i] = q[i]
    BY <2>1, <2>2
  <2> HIDE DEF p
  <2> QED BY <2>1, <2>3, <2>4
<1> QED BY <1>1, <1>2

(* Conversely one bit more makes a path of n bits a path of n+1. *)
LEMMA ExtendPath ==
    ASSUME NEW n \in Nat, NEW p \in BitPath(n), NEW b \in BOOLEAN
    PROVE  Append(p, b) \in BitPath(n + 1)
<1>1. p \in Seq(BOOLEAN) /\ Len(p) = n
  BY DEF BitPath
<1>2. Append(p, b) \in Seq(BOOLEAN) /\ Len(Append(p, b)) = n + 1
  BY <1>1
<1> QED BY <1>2, LenProperties DEF BitPath

(* Paths of the root level are the empty path alone. *)
LEMMA RootPath == BitPath(0) = {<< >>}
<1>1. << >> \in BitPath(0)
  BY DEF BitPath
<1>2. ASSUME NEW p \in BitPath(0) PROVE p = << >>
  BY <1>2 DEF BitPath
<1> QED BY <1>1, <1>2

-----------------------------------------------------------------------------
(* The search. *)

(* Every variable keeps its type: in particular the frontier only ever holds
   paths of the tree's current level. *)
THEOREM TypeCorrect == Spec => []TypeOK
<1> USE DataLenAssumption, NClientsAssumption, ThresholdAssumption
<1>1. Init => TypeOK
  BY DEF Init, TypeOK
<1>2. TypeOK /\ [Next]_vars => TypeOK'
  <2> SUFFICES ASSUME TypeOK, [Next]_vars
               PROVE  TypeOK'
    OBVIOUS
  <2> USE DEF TypeOK
  <2>1. CASE AddKeys
    <3>1. PICK n \in 1..(NClients - Len(votes)) :
                  \E b \in [1..n -> BitString] : votes' = votes \o b
      BY <2>1 DEF AddKeys
    <3>2. PICK b \in [1..n -> BitString] : votes' = votes \o b
      BY <3>1
    <3>3. b \in Seq(BitString)
      OBVIOUS
    <3>4. votes' \in Seq(BitString)
      BY <3>2, <3>3
    <3> QED BY <2>1, <3>4 DEF AddKeys
  <2>2. CASE TreeInit
    BY <2>2, RootPath DEF TreeInit
  <2>3. CASE Crawl
    <3>1. level + 1 \in 0..DataLen
      BY <2>3 DEF Crawl
    <3>2. level \in Nat /\ \A p \in frontier, b \in BOOLEAN : Append(p, b) \in BitPath(level + 1)
      BY ExtendPath
    <3>3. ASSUME NEW q \in Children PROVE q \in BitPath(level + 1)
      <4>1. PICK p \in frontier, b \in BOOLEAN : q = Append(p, b)
        BY <3>3 DEF Children
      <4> QED BY <4>1, <3>2
    <3> QED BY <2>3, <3>1, <3>3 DEF Crawl
  <2>4. CASE Prune
    BY <2>4 DEF Prune, Survivors
  <2>5. CASE Reset
    BY <2>5 DEF Reset
  <2>6. CASE UNCHANGED vars
    BY <2>6 DEF vars
  <2> QED BY <2>1, <2>2, <2>3, <2>4, <2>5, <2>6 DEF Next
<1> QED BY <1>1, <1>2, PTL DEF Spec

-----------------------------------------------------------------------------

\* Nothing light is left by a prune: what bounds the frontier from above.
NoLightKept == (phase \in {"pruned", "done"} /\ level > 0) =>
    \A p \in frontier : Count(votes, p) >= Threshold

IInv == TypeOK /\ NoHeavyLost /\ NoLightKept

(* A crawl loses no heavy prefix: one of the new level extends a prefix that
   counts at least as much, and that one was still in the frontier. *)
LEMMA CrawlKeepsHeavy ==
    ASSUME IInv, Crawl
    PROVE  \A q \in BitPath(level + 1) : Count(votes, q) >= Threshold => q \in Children
<1> USE DataLenAssumption, ThresholdAssumption
<1> SUFFICES ASSUME NEW q \in BitPath(level + 1), Count(votes, q) >= Threshold
             PROVE  q \in Children
  OBVIOUS
<1>1. level \in Nat /\ votes \in Seq(BitString) /\ phase = "pruned"
  BY DEF IInv, TypeOK, Crawl
<1>2. PICK p \in BitPath(level), b \in BOOLEAN : q = Append(p, b)
  BY <1>1, SplitPath
<1>3. Count(votes, q) <= Count(votes, p)
  BY <1>1, <1>2, CountMonotone
<1>4. Count(votes, p) \in Nat /\ Count(votes, q) \in Nat
  BY <1>1, CountType
<1>5. p \in frontier
  BY <1>1, <1>3, <1>4 DEF IInv, NoHeavyLost
<1> QED BY <1>2, <1>5 DEF Children

LEMMA SearchInit == Init => IInv
<1> USE DataLenAssumption, NClientsAssumption, ThresholdAssumption
<1> QED BY DEF Init, IInv, TypeOK, NoHeavyLost, NoLightKept

(* Every step keeps the search exact. *)
LEMMA SearchStep == IInv /\ TypeOK' /\ [Next]_vars => IInv'
<1> USE DataLenAssumption, NClientsAssumption, ThresholdAssumption
<1> SUFFICES ASSUME IInv, TypeOK', [Next]_vars
             PROVE  NoHeavyLost' /\ NoLightKept'
  BY DEF IInv
<1>1. CASE AddKeys
  BY <1>1 DEF AddKeys, NoHeavyLost, NoLightKept
<1>2. CASE TreeInit
  BY <1>2, RootPath DEF TreeInit, NoHeavyLost, NoLightKept
<1>3. CASE Crawl
  <2>1. NoHeavyLost'
    BY <1>3, CrawlKeepsHeavy DEF Crawl, NoHeavyLost
  <2>2. NoLightKept'
    BY <1>3 DEF Crawl, NoLightKept
  <2> QED BY <2>1, <2>2
<1>4. CASE Prune
  BY <1>4 DEF Prune, Survivors, IInv, NoHeavyLost, NoLightKept
<1>5. CASE Reset
  BY <1>5 DEF Reset, NoHeavyLost, NoLightKept
<1>6. CASE UNCHANGED vars
  BY <1>6 DEF vars, IInv, NoHeavyLost, NoLightKept
<1> QED BY <1>1, <1>2, <1>3, <1>4, <1>5, <1>6 DEF Next

(* The search loses no heavy prefix at any level, for any number of bits and
   strings and any threshold: no heavy string starts with a prefix that
   tree_prune has removed. *)
THEOREM SearchComplete == Spec => []NoHeavyLost
<1>1. IInv => NoHeavyLost
  BY DEF IInv
<1> QED BY <1>1, SearchInit, SearchStep, TypeCorrect, PTL DEF Spec

-----------------------------------------------------------------------------

(* If each member of F owns at least t numbers below n, and nobody shares,
   then F has at most n / t members. *)
LEMMA OwnersBounded ==
    ASSUME NEW n \in Nat, NEW t \in Nat \ {0}, NEW F, NEW own \in [F -> SUBSET (1..n)],
           \A p \in F : Cardinality(own[p]) >= t,
           \A p, q \in F : own[p] \cap own[q] # {} => p = q
    PROVE  Cardinality(F) * t <= n
<1> DEFINE Picks(p) == {g \in [1..t -> own[p]] : \A i, j \in 1..t : g[i] = g[j] => i = j}
<1>1. IsFiniteSet(1..n) /\ Cardinality(1..n) = n /\ IsFiniteSet(1..t) /\ Cardinality(1..t) = t
  BY FS_Interval
<1>2. ASSUME NEW p \in F PROVE Picks(p) # {}
  <2>1. IsFiniteSet(own[p])
    BY <1>1, FS_Subset
  <2>2. Cardinality(own[p]) \in Nat /\ ExistsBijection(1..Cardinality(own[p]), own[p])
    BY <2>1, FS_CardinalityType
  <2>3. PICK b \in [1..Cardinality(own[p]) -> own[p]] :
                \A i, j \in 1..Cardinality(own[p]) : b[i] = b[j] => i = j
    BY <2>2 DEF ExistsBijection, Bijection, Injection, IsInjective
  <2>4. 1..t \subseteq 1..Cardinality(own[p])
    BY <2>2
  <2>5. [i \in 1..t |-> b[i]] \in Picks(p)
    BY <2>3, <2>4
  <2> QED BY <2>5
<1> DEFINE G == [p \in F |-> CHOOSE g \in Picks(p) : TRUE]
<1>3. \A p \in F : G[p] \in Picks(p)
  BY <1>2
<1> HIDE DEF G
<1>4. \A p \in F, i \in 1..t : G[p][i] \in own[p] /\ own[p] \subseteq 1..n
  BY <1>3
<1>5. \A p \in F, i, j \in 1..t : G[p][i] = G[p][j] => i = j
  BY <1>3
<1>6. \A p, q \in F, i, j \in 1..t : G[p][i] = G[q][j] => p = q /\ i = j
  BY <1>4, <1>5
<1>7. IsFiniteSet(F)
  <2> DEFINE first == [p \in F |-> G[p][1]]
  <2>1. first \in [F -> 1..n] /\ \A p, q \in F : first[p] = first[q] => p = q
    BY <1>4, <1>6
  <2>2. first \in Injection(F, 1..n)
    BY <2>1 DEF Injection, IsInjective
  <2> QED BY <1>1, <2>2, FS_Injection
<1>8. Cardinality(F \X (1..t)) <= n
  <2> DEFINE all == [x \in F \X (1..t) |-> G[x[1]][x[2]]]
  <2>1. all \in [F \X (1..t) -> 1..n]
    BY <1>4
  <2>2. ASSUME NEW x \in F \X (1..t), NEW y \in F \X (1..t), all[x] = all[y] PROVE x = y
    BY <1>6, <2>2
  <2>3. all \in Injection(F \X (1..t), 1..n)
    BY <2>1, <2>2 DEF Injection, IsInjective
  <2> QED BY <1>1, <2>3, FS_Injection
<1>9. Cardinality(F \X (1..t)) = Cardinality(F) * t
  <2>1. IsFiniteSet(1..t) /\ Cardinality(1..t) = t
    BY <1>1, FS_Interval
  <2>2. Cardinality(F \X (1..t)) = Cardinality(F) * Cardinality(1..t)
    BY <1>7, <2>1, FS_Product
  <2> QED BY <2>1, <2>2
<1> QED BY <1>8, <1>9

(* No two frontier nodes of a level share a string. *)
LEMMA HoldersDisjoint ==
    ASSUME NEW vs \in Seq(BitString), NEW n \in Nat, NEW p \in BitPath(n), NEW q \in BitPath(n),
           Holders(vs, p) \cap Holders(vs, q) # {}
    PROVE  p = q
<1>1. PICK i \in DOMAIN vs : (\A j \in DOMAIN p : vs[i][j] = p[j])
                              /\ (\A j \in DOMAIN q : vs[i][j] = q[j])
  BY DEF Holders
<1>2. DOMAIN p = 1..n /\ DOMAIN q = 1..n
  BY DEF BitPath
<1>3. \A j \in 1..n : p[j] = q[j]
  BY <1>1, <1>2
<1> QED BY <1>2, <1>3 DEF BitPath

(* What survives a prune is never more than the strings could pay for: a
   server's work per level is bounded by the clients and the threshold. *)
THEOREM FrontierStaysSmall == Spec => []FrontierBounded
<1> USE DataLenAssumption, NClientsAssumption, ThresholdAssumption
<1>1. IInv => FrontierBounded
  <2> SUFFICES ASSUME IInv, phase \in {"pruned", "done"}, level > 0
               PROVE  Cardinality(frontier) * Threshold <= Len(votes)
    BY DEF FrontierBounded
  <2> DEFINE own == [p \in frontier |-> Holders(votes, p)]
  <2>1. /\ votes \in Seq(BitString) /\ Len(votes) \in Nat /\ DOMAIN votes = 1..Len(votes)
        /\ level \in Nat /\ frontier \subseteq BitPath(level)
    BY DEF IInv, TypeOK
  <2>2. own \in [frontier -> SUBSET (1..Len(votes))]
    BY <2>1 DEF Holders
  <2>3. \A p \in frontier : Cardinality(own[p]) >= Threshold
    BY DEF IInv, NoLightKept, Count
  <2>4. \A p, q \in frontier : own[p] \cap own[q] # {} => p = q
    BY <2>1, HoldersDisjoint
  <2> HIDE DEF own
  <2> QED BY <2>1, <2>2, <2>3, <2>4, OwnersBounded
<1> QED BY <1>1, SearchInit, SearchStep, TypeCorrect, PTL DEF Spec

-----------------------------------------------------------------------------

(* After the prune of the last level the frontier is the promised answer. *)
LEMMA AnswerExact ==
    ASSUME IInv, Prune, level = DataLen
    PROVE  Survivors = HH!HeavyStrings(votes)
<1>1. \A p : HH!Count(votes, p) = Count(votes, p)
  BY DEF HH!Count, HH!Holders, HH!Cardinality, Count, Holders, Cardinality
<1>2. HH!BitString = BitPath(DataLen)
  BY DEF HH!BitString, HH!BitPath, BitPath
<1>3. frontier \subseteq BitPath(DataLen)
  BY DEF IInv, TypeOK
<1>4. \A p \in BitPath(DataLen) : Count(votes, p) >= Threshold => p \in frontier
  BY DEF IInv, NoHeavyLost, Prune
<1> QED BY <1>1, <1>2, <1>3, <1>4 DEF HH!HeavyStrings, Survivors

(* The search implements the promise of HeavyHitters: with the last frontier
   as the output, each of its steps gathers, publishes, restarts or stutters. *)
THEOREM SearchImplementsPromise == Spec => ImplementsHeavyHitters
<1> USE DataLenAssumption, NClientsAssumption, ThresholdAssumption
<1>1. Init => HH!HInit
  BY DEF Init, HH!HInit, HH!NotYet, Published
<1>2. IInv /\ [Next]_vars => [HH!HNext]_(HH!hvars)
  <2> SUFFICES ASSUME IInv, [Next]_vars
               PROVE  HH!HNext \/ UNCHANGED HH!hvars
    OBVIOUS
  <2> USE DEF HH!hvars, Published
  <2>1. CASE AddKeys
    BY <2>1 DEF AddKeys, HH!HNext, HH!Gather, HH!NotYet, HH!BitString, HH!BitPath,
                BitString, BitPath
  <2>2. CASE TreeInit
    BY <2>2 DEF TreeInit
  <2>3. CASE Crawl
    BY <2>3 DEF Crawl
  <2>4. CASE Prune
    <3>1. CASE level = DataLen
      BY <2>4, <3>1, AnswerExact DEF Prune, HH!HNext, HH!Publish, HH!NotYet
    <3>2. CASE level # DataLen
      BY <2>4, <3>2 DEF Prune
    <3> QED BY <3>1, <3>2
  <2>5. CASE Reset
    BY <2>5 DEF Reset, HH!HNext, HH!Restart, HH!NotYet
  <2>6. CASE UNCHANGED vars
    BY <2>6 DEF vars
  <2> QED BY <2>1, <2>2, <2>3, <2>4, <2>5, <2>6 DEF Next
<1> QED BY <1>1, <1>2, SearchInit, SearchStep, TypeCorrect, PTL
        DEF Spec, ImplementsHeavyHitters, HH!HSpec
=============================================================================
