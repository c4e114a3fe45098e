----------------------------- MODULE SketchCheck -----------------------------
(***************************************************************************)
(* The check of one client key, level after level: the encoding made by    *)
(* SketchDPFKey::gen and the servers' linear sketch of it                  *)
(* (src/src/sketch.rs), and the two-party multiplication that tests the    *)
(* sketch without opening it (src/src/mpc.rs).  CollectorServer treats     *)
(* this as a black box that accepts a key that is one at a single node at  *)
(* most; here is the inside.  The field is a parameter.                    *)
(***************************************************************************)
EXTENDS Integers, Sequences

CONSTANTS Elem, Zero, One, Add(_, _), Neg(_), Mul(_, _),   \* Group
          InnerLevels,         \* alpha_bits.len() - 1
          Width,               \* bound: nodes of a frontier
          Coins,               \* which random tapes a client may have
          Coin(_, _, _, _),    \* a tape's element for one purpose, kind of level and index
          MacErrors,           \* how far mac_key2 may be off the square
          OtherSketches,       \* bound: sketches a server makes before this key's
          Streams              \* what rand_stream may yield

Server == {0, 1}
TRIPLES_PER_LEVEL == 3
Check == 1..TRIPLES_PER_LEVEL

Vector == UNION {[1..w -> [x : Elem, kx : Elem]] : w \in 0..Width}
AllDraws == [rand : [Check -> Elem], r : [1..Width -> Elem]]

ASSUME LevelAssumption == InnerLevels \in Nat /\ Width \in Nat \ {0}
ASSUME CoinAssumption ==
    \A n \in Coins, l \in BOOLEAN, i \in 1..(Width + TRIPLES_PER_LEVEL * (InnerLevels + 1)),
       what \in {"mac", "mac2", "x", "kx", "a0", "a1", "b0", "b1", "c"} :
           Coin(n, what, l, i) \in Elem
ASSUME StreamsAssumption ==
    /\ OtherSketches \in Nat
    /\ Streams \subseteq [0..OtherSketches -> AllDraws]
    /\ MacErrors \subseteq Elem
ASSUME RingAssumption ==
    /\ {Zero, One} \subseteq Elem
    /\ \A x \in Elem : /\ Neg(x) \in Elem /\ Add(x, Neg(x)) = Zero
                       /\ Add(x, Zero) = x /\ Mul(x, Zero) = Zero /\ Mul(x, One) = x
    /\ \A x, y \in Elem : /\ Add(x, y) \in Elem /\ Add(x, y) = Add(y, x)
                          /\ Mul(x, y) \in Elem /\ Mul(x, y) = Mul(y, x)
    /\ \A x, y, z \in Elem : /\ Add(x, Add(y, z)) = Add(Add(x, y), z)
                             /\ Mul(x, Mul(y, z)) = Mul(Mul(x, y), z)
                             /\ Mul(x, Add(y, z)) = Add(Mul(x, y), Mul(x, z))
\* The fields' orders are odd primes.
ASSUME FieldAssumption ==
    /\ \A x, y \in Elem : Mul(x, y) = Zero => x = Zero \/ y = Zero
    /\ Add(One, One) # Zero

VARIABLES coin,     \* the client's tape
          key,      \* the two halves of its key
          stream,   \* the collections' rand_stream, cut into one key's draws each
          phase,    \* how far the check of this level is
          level,    \* 0 .. InnerLevels, where the last level is a kind of its own
          vector,   \* what the key's words add up to on the level's frontier
          mul,      \* [Server -> MulState]
          cor,      \* the opened correction
          out,      \* [Server -> OutShare]
          spent     \* history: the triples of earlier levels

vars == <<coin, key, stream, phase, level, vector, mul, cor, out, spent>>

-----------------------------------------------------------------------------
(* Group::sub, Share::share, and sums. *)

\* MUTANT of Sub: the difference is not reduced.
SubUnreduced(x, y) == x - y

Sub(x, y) == Add(x, Neg(y))

Share(v, mask) == [s \in Server |-> IF s = 0 THEN mask ELSE Sub(v, mask)]
Open(sh) == Add(sh[0], sh[1])

\* The running sums of <r, v>, and the last of them.
DotSums(r, v) ==
    LET sum[j \in 0..Len(v)] == IF j = 0 THEN Zero ELSE Add(sum[j - 1], Mul(v[j], r[j]))
    IN  sum

Dot(r, v) == DotSums(r, v)[Len(v)]

Sum3(f) == Add(Add(f[1], f[2]), f[3])

\* TripleShare::new: a, b and a*b, shared.
TripleShare(n, last, i) ==
    LET a == [s \in Server |-> Coin(n, IF s = 0 THEN "a0" ELSE "a1", last, i)]
        b == [s \in Server |-> Coin(n, IF s = 0 THEN "b0" ELSE "b1", last, i)]
        c == Share(Mul(Open(a), Open(b)), Coin(n, "c", last, i))
    IN  [s \in Server |-> [a |-> a[s], b |-> b[s], c |-> c[s]]]

NumTriples(last) == IF last THEN TRIPLES_PER_LEVEL ELSE TRIPLES_PER_LEVEL * InnerLevels

\* SketchDPFKey::gen, for a MAC key of either kind of level; err is 0 there.
Gen(n, mac, err) ==
    [mac     |-> [l \in BOOLEAN |-> Share(mac[l], Coin(n, "mac", l, 1))],
     mac2    |-> [l \in BOOLEAN |-> Share(Add(Mul(mac[l], mac[l]), err), Coin(n, "mac2", l, 1))],
     triples |-> [l \in BOOLEAN |-> [i \in 1..NumTriples(l) |-> TripleShare(n, l, i)]]]

\* A server's words for the vector (Dpf shows that they add up to it).
Words(s, n, l, v) ==
    [j \in DOMAIN v |-> [x  |-> Share(v[j].x, Coin(n, "x", l, j))[s],
                         kx |-> Share(v[j].kx, Coin(n, "kx", l, j))[s]]]

\* MUTANT of SketchAt: r_kx is taken of the values, not of their MACs.
SketchAtOfX(d, v) ==
    LET r2 == [j \in DOMAIN v |-> Mul(d.r[j], d.r[j])]
    IN  [r_x  |-> Dot(d.r, [j \in DOMAIN v |-> v[j].x]),
         r2_x |-> Dot(r2,  [j \in DOMAIN v |-> v[j].x]),
         r_kx |-> Dot(d.r, [j \in DOMAIN v |-> v[j].x])]

\* sketch_at, sketch_at_last.
SketchAt(d, v) ==
    LET r2 == [j \in DOMAIN v |-> Mul(d.r[j], d.r[j])]
    IN  [r_x  |-> Dot(d.r, [j \in DOMAIN v |-> v[j].x]),
         r2_x |-> Dot(r2,  [j \in DOMAIN v |-> v[j].x]),
         r_kx |-> Dot(d.r, [j \in DOMAIN v |-> v[j].kx])]

\* MUTANT of DrawsAfter: the keys of a server draw from one stream in turn.
DrawsAfterShared(n) == stream[n]

\* What a key's sketch draws if n others were made before it: each key gets a clone.
DrawsAfter(n) == stream[0]

-----------------------------------------------------------------------------
(* mpc.rs.  A MulState computes shares of the sum of rs[i]*(xs[i]*ys[i] +
   zs[i]): the original check, the MAC key's square, and the MAC. *)

\* MUTANT of TripStart: without the factor.
TripStartPlain(l) == l

TripStart(l) == l * TRIPLES_PER_LEVEL

Slots(last, l) == {<<last, TripStart(l) + i>> : i \in Check}

MulState(s, k, last, l, sk, d) ==
    LET mac == k.mac[last][s]
    IN  [triples |-> [i \in Check |-> k.triples[last][TripStart(l) + i][s]],
         xs |-> <<sk.r_x, mac, sk.r_x>>,
         ys |-> <<sk.r_x, mac, mac>>,
         zs |-> <<Neg(sk.r2_x), Neg(k.mac2[last][s]), Neg(sk.r_kx)>>,
         rs |-> d.rand]

CorShare(st) == [ds |-> [i \in Check |-> Sub(st.xs[i], st.triples[i].a)],
                 es |-> [i \in Check |-> Sub(st.ys[i], st.triples[i].b)]]

Cor(sh0, sh1) == [ds |-> [i \in Check |-> Add(sh0.ds[i], sh1.ds[i])],
                  es |-> [i \in Check |-> Add(sh0.es[i], sh1.es[i])]]

\* MUTANT of OutTerm: both servers add d*e.
OutTermBoth(s, st, co, i) ==
    LET t == st.triples[i]
        de == Mul(co.ds[i], co.es[i])
    IN  Add(Add(Add(Add(de, Mul(co.ds[i], t.b)), Mul(co.es[i], t.a)), t.c), st.zs[i])

\* d*e is added by the server whose server_idx is true.
OutTerm(s, st, co, i) ==
    LET t == st.triples[i]
        de == IF s = 1 THEN Mul(co.ds[i], co.es[i]) ELSE Zero
    IN  Add(Add(Add(Add(de, Mul(co.ds[i], t.b)), Mul(co.es[i], t.a)), t.c), st.zs[i])

OutShare(s, st, co) == Sum3([i \in Check |-> Mul(OutTerm(s, st, co, i), st.rs[i])])

Verify(o) == Open(o) = Zero

-----------------------------------------------------------------------------

Last == level = InnerLevels
TripleLevel == IF Last THEN 0 ELSE level     \* a last level's triples start at 0
NoMul == [s \in Server |-> << >>]
NoOut == [s \in Server |-> Zero]

Init == /\ coin \in Coins
        /\ \E mac \in [BOOLEAN -> Elem], err \in MacErrors : key = Gen(coin, mac, err)
        /\ stream \in Streams
        /\ phase = "pruned"
        /\ level = 0
        /\ vector = << >>
        /\ mul = NoMul
        /\ cor = << >>
        /\ out = NoOut
        /\ spent = {}

\* The frontier the tree has grown decides what the key's vector is.
TreeCrawl == /\ phase = "pruned"
             /\ phase' = "crawled"
             /\ vector' \in Vector
             /\ UNCHANGED <<coin, key, stream, level, mul, cor, out, spent>>

\* Each server sketches its keys in parallel, so this one's turn may differ.
TreeSketchFrontier ==
    /\ phase = "crawled"
    /\ phase' = "sketched"
    /\ \E before \in [Server -> 0..OtherSketches] :
          mul' = [s \in Server |->
                    LET d == DrawsAfter(before[s])
                    IN  MulState(s, key, Last, TripleLevel,
                                 SketchAt(d, Words(s, coin, Last, vector)), d)]
    /\ cor' = Cor(CorShare(mul'[0]), CorShare(mul'[1]))
    /\ UNCHANGED <<coin, key, stream, level, vector, out, spent>>

TreeOutShares == /\ phase = "sketched"
                 /\ phase' = "answered"
                 /\ out' = [s \in Server |-> OutShare(s, mul[s], cor)]
                 /\ spent' = spent \cup Slots(Last, TripleLevel)
                 /\ UNCHANGED <<coin, key, stream, level, vector, mul, cor>>

\* The leader asserts the outcome and goes on to prune.
LeaderVerify == /\ phase = "answered"
                /\ phase' = IF ~Verify(out) THEN "refused" ELSE IF Last THEN "done" ELSE "pruned"
                /\ level' = IF Verify(out) /\ ~Last THEN level + 1 ELSE level
                /\ vector' = << >>
                /\ mul' = NoMul
                /\ cor' = << >>
                /\ out' = NoOut
                /\ UNCHANGED <<coin, key, stream, spent>>

\* The last level is done, or the leader has panicked.
Stopped == phase \in {"refused", "done"} /\ UNCHANGED vars

Next == TreeCrawl \/ TreeSketchFrontier \/ TreeOutShares \/ LeaderVerify \/ Stopped

Spec == Init /\ [][Next]_vars

-----------------------------------------------------------------------------

TripleType == [a : Elem, b : Elem, c : Elem]

TypeOK ==
    /\ coin \in Coins
    /\ key.mac \in [BOOLEAN -> [Server -> Elem]]
    /\ key.mac2 \in [BOOLEAN -> [Server -> Elem]]
    /\ \A l \in BOOLEAN : key.triples[l] \in [1..NumTriples(l) -> [Server -> TripleType]]
    /\ stream \in Streams
    /\ phase \in {"pruned", "crawled", "sketched", "answered", "refused", "done"}
    /\ level \in 0..InnerLevels
    /\ vector = << >> \/ vector \in Vector
    /\ out \in [Server -> Elem]
    /\ spent \subseteq BOOLEAN \X Nat

(* The check as sketch.rs describes it, on values nobody ever holds. *)
CheckValue(d) ==
    LET sk == SketchAt(d, vector)
        mac == Open(key.mac[Last])
    IN  Sum3(<<Mul(Sub(Mul(sk.r_x, sk.r_x), sk.r2_x), d.rand[1]),
               Mul(Sub(Mul(mac, mac), Open(key.mac2[Last])), d.rand[2]),
               Mul(Sub(Mul(sk.r_x, mac), sk.r_kx), d.rand[3])>>)

\* x is zero or one at a single node, and carries the right MAC.
WellFormed ==
    LET mac == Open(key.mac[Last])
    IN  /\ Open(key.mac2[Last]) = Mul(mac, mac)
        /\ \A j \in DOMAIN vector : /\ vector[j].x \in {Zero, One}
                                    /\ vector[j].kx = Mul(mac, vector[j].x)
        /\ \A i, j \in DOMAIN vector : vector[i].x = One /\ vector[j].x = One => i = j

(* The two servers' output shares add up to the check's value, though neither
   sees the sketch or the MAC key (mpc.rs cor_share, cor, out_share), and
   though the key's turn may be another at each server and level. *)
OpensToCheck == phase = "answered" => Open(out) = CheckValue(DrawsAfter(0))

(* What SketchDPFKey::gen makes always passes, at every level and with every
   random stream: the leader's assert!(v) does not fire (leader.rs run_level). *)
WellFormedPasses == phase = "answered" /\ WellFormed => Verify(out)

(* A vector that is not of that form does not pass with every stream: there
   are draws that refuse it (the three checks of MulState::new are enough). *)
MalformedCaught == phase = "crawled" /\ ~WellFormed => \E d \in AllDraws : CheckValue(d) # Zero

(* No Beaver triple is used at two levels, and the last level has its own
   (the offsets of MulState::new; a triple used twice would open differences
   of the servers' private values). *)
TriplesFresh == phase = "sketched" => Slots(Last, TripleLevel) \cap spent = {}

(* The comment on SketchOutput: r_kx is <r, k.x> + k^2 (sketch.rs). *)
SquareInSketch == phase = "sketched" =>
    Add(mul[0].zs[3], mul[1].zs[3])
        = Neg(Add(SketchAt(DrawsAfter(0), vector).r_kx, Open(key.mac2[Last])))
=============================================================================
