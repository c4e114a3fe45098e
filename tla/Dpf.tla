--------------------------------- MODULE Dpf ---------------------------------
(***************************************************************************)
(* The all-prefix distributed point function (src/src/dpf.rs): gen makes   *)
(* two keys for a bit string alpha and a value per prefix of it; each      *)
(* server walks down a path with its own key alone.  The seeds, their      *)
(* generator (expand_dir, convert) and the group of the values are         *)
(* parameters with the laws the code relies on.  T and U, the value types  *)
(* of the inner levels and of the last, are one group here.                *)
(***************************************************************************)
EXTENDS Naturals, Sequences

CONSTANTS DomainBits,     \* bits of alpha
          Seed,           \* 128-bit seeds ...
          Xor(_, _),      \*   ... and ^ on them
          ExpandSeed(_, _), ExpandBit(_, _),  \* expand: a seed's child to a side, its bit
          ConvertSeed(_), ConvertWord(_),     \* convert: the next seed and a group element
          Elem, Zero, Add(_, _), Neg(_)       \* Group

Bit == {0, 1}
Server == {0, 1}

ASSUME DomainAssumption == DomainBits \in Nat \ {0}
ASSUME SeedAssumption ==
    \A x, y \in Seed : /\ Xor(x, y) \in Seed
                       /\ Xor(x, y) = Xor(y, x)
                       /\ Xor(x, Xor(x, y)) = y
ASSUME PrgAssumption ==
    \A x \in Seed : /\ \A d \in Bit : ExpandSeed(x, d) \in Seed /\ ExpandBit(x, d) \in Bit
                    /\ ConvertSeed(x) \in Seed
                    /\ ConvertWord(x) \in Elem
ASSUME GroupAssumption ==
    /\ Zero \in Elem
    /\ \A x \in Elem : Neg(x) \in Elem /\ Add(x, Neg(x)) = Zero /\ Add(x, Zero) = x
    /\ \A x, y \in Elem : Add(x, y) \in Elem /\ Add(x, y) = Add(y, x)
    /\ \A x, y, z \in Elem : Add(x, Add(y, z)) = Add(Add(x, y), z)

VARIABLES alpha,    \* the string the keys are for
          values,   \* the value at each of its prefixes
          trace,    \* trace[1]: the root states; history: gen's states after each level
          cors,     \* the correction words made so far
          path,     \* where the servers evaluate
          state,    \* [Server -> EvalState there]
          word      \* [Server -> the element eval_bit returned]

vars == <<alpha, values, trace, cors, path, state, word>>

State == [seed : Seed, bit : Bit]
CorWord == [seed : Seed, bits : [Bit -> Bit], word : Elem]

\* MUTANT of BitXor: the bits are added.
BitXorSum(a, b) == a + b

BitXor(a, b) == IF a = b THEN 0 ELSE 1

TypeOK == /\ alpha \in [1..DomainBits -> Bit]
          /\ values \in [1..DomainBits -> Elem]
          /\ trace \in Seq([Server -> State])
          /\ cors \in Seq(CorWord)
          /\ path \in Seq(Bit)
          /\ state \in [Server -> State]
          /\ word \in [Server -> Elem]

-----------------------------------------------------------------------------
(* The child of a state to one side, corrected if the state's bit is set. *)

ChildSeed(st, cw, dir) ==
    IF st.bit = 1 THEN Xor(ExpandSeed(st.seed, dir), cw.seed) ELSE ExpandSeed(st.seed, dir)

ChildBit(st, cw, dir) ==
    IF st.bit = 1 THEN BitXor(ExpandBit(st.seed, dir), cw.bits[dir])
                  ELSE ExpandBit(st.seed, dir)

Child(st, cw, dir) == [seed |-> ConvertSeed(ChildSeed(st, cw, dir)),
                       bit  |-> ChildBit(st, cw, dir)]

\* eval_bit's word: server 1 returns the negative.
ChildWord(s, st, cw, dir) ==
    LET conv == ConvertWord(ChildSeed(st, cw, dir))
        w == IF ChildBit(st, cw, dir) = 1 THEN Add(conv, cw.word) ELSE conv
    IN  IF s = 1 THEN Neg(w) ELSE w

\* MUTANT of CorBit: the inversion is on the other side.
CorBitSwapped(sts, bit, dir) ==
    LET both == BitXor(ExpandBit(sts[0].seed, dir), ExpandBit(sts[1].seed, dir))
    IN  IF dir = 1 THEN BitXor(BitXor(both, bit), 1) ELSE BitXor(both, bit)

\* gen_cor_word's seed and bits, which make the losing side's states equal.
CorBit(sts, bit, dir) ==
    LET both == BitXor(ExpandBit(sts[0].seed, dir), ExpandBit(sts[1].seed, dir))
    IN  IF dir = 0 THEN BitXor(BitXor(both, bit), 1) ELSE BitXor(both, bit)

CorSeed(sts, bit) == Xor(ExpandSeed(sts[0].seed, 1 - bit), ExpandSeed(sts[1].seed, 1 - bit))

\* MUTANT of CorValue: never negated.
CorValuePlain(sts, cw, bit, value) ==
    Add(Add(value, Neg(ConvertWord(ChildSeed(sts[0], cw, bit)))),
        ConvertWord(ChildSeed(sts[1], cw, bit)))

\* Its word, negated if server 1 is the one that will add it.
CorValue(sts, cw, bit, value) ==
    LET w == Add(Add(value, Neg(ConvertWord(ChildSeed(sts[0], cw, bit)))),
                 ConvertWord(ChildSeed(sts[1], cw, bit)))
    IN  IF ChildBit(sts[1], cw, bit) = 1 THEN Neg(w) ELSE w

MakeCorWord(sts, bit, value) ==
    LET cw == [seed |-> CorSeed(sts, bit), bits |-> [d \in Bit |-> CorBit(sts, bit, d)]]
    IN  [seed |-> cw.seed, bits |-> cw.bits, word |-> CorValue(sts, cw, bit, value)]

-----------------------------------------------------------------------------

Init == /\ alpha \in [1..DomainBits -> Bit]
        /\ values \in [1..DomainBits -> Elem]
        /\ \E roots \in [Server -> Seed] :
              trace = <<[s \in Server |-> [seed |-> roots[s], bit |-> s]]>>
        /\ cors = << >>
        /\ path = << >>
        /\ state = trace[1]
        /\ word = [s \in Server |-> Zero]

\* One round of gen's loop over the bits of alpha.
GenCorWord ==
    LET i == Len(cors) + 1
        cw == MakeCorWord(trace[i], alpha[i], values[i])
    IN  /\ i <= DomainBits
        /\ cors' = Append(cors, cw)
        /\ trace' = Append(trace, [s \in Server |-> Child(trace[i][s], cw, alpha[i])])
        /\ UNCHANGED <<alpha, values, path, state, word>>

\* Both servers take the same step down: eval_bit, or eval_bit_last.
EvalBit(dir) ==
    LET i == Len(path) + 1
    IN  /\ Len(cors) = DomainBits
        /\ i <= DomainBits
        /\ path' = Append(path, dir)
        /\ state' = [s \in Server |-> Child(state[s], cors[i], dir)]
        /\ word' = [s \in Server |-> ChildWord(s, state[s], cors[i], dir)]
        /\ UNCHANGED <<alpha, values, trace, cors>>

\* eval_init: back at the root, for another path.
EvalInit == /\ Len(cors) = DomainBits
            /\ path # << >>
            /\ path' = << >>
            /\ state' = trace[1]
            /\ word' = [s \in Server |-> Zero]
            /\ UNCHANGED <<alpha, values, trace, cors>>

Next == GenCorWord \/ (\E dir \in Bit : EvalBit(dir)) \/ EvalInit

Spec == Init /\ [][Next]_vars

-----------------------------------------------------------------------------

OnPath == \A i \in 1..Len(path) : path[i] = alpha[i]

(* What the two servers' words add up to: the value of the prefix on alpha's
   path, zero everywhere else (dpf.rs eval_bit, tests/dpf_test.rs). *)
SharesAddUp == path # << >> =>
    Add(word[0], word[1]) = IF OnPath THEN values[Len(path)] ELSE Zero

(* On alpha's path exactly one server's bit is set; off it, however far, the
   servers' states are the same (what gen_cor_word's xor of the losing side
   achieves, and what makes every later word cancel). *)
StatesDiffer == IF OnPath THEN state[0].bit # state[1].bit ELSE state[0] = state[1]
=============================================================================
