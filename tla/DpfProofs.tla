------------------------------ MODULE DpfProofs ------------------------------
(***************************************************************************)
(* The two servers' words add up to the value on alpha's path and to zero  *)
(* off it, for every generator, group, string length and string, bit by    *)
(* bit (Dpf) and path by path (DpfEval).                                   *)
(***************************************************************************)
EXTENDS DpfEval, SequenceTheorems, WellFoundedInduction, TLAPS

(* The bits alone: with different bits at the parent, the corrected children
   differ on the kept side and agree on the lost one. *)
LEMMA BitAlgebra ==
    ASSUME NEW b0 \in Bit, NEW b1 \in Bit, b0 # b1,
           NEW e0 \in Bit, NEW e1 \in Bit, NEW a \in Bit, NEW d \in Bit,
           NEW c, c = IF d = 0 THEN BitXor(BitXor(BitXor(e0, e1), a), 1)
                               ELSE BitXor(BitXor(e0, e1), a),
           NEW n0, n0 = IF b0 = 1 THEN BitXor(e0, c) ELSE e0,
           NEW n1, n1 = IF b1 = 1 THEN BitXor(e1, c) ELSE e1
    PROVE  IF d = a THEN n0 # n1 ELSE n0 = n1
BY DEF BitXor, Bit

LEMMA ChildType ==
    ASSUME NEW st \in State, NEW cw, NEW d \in Bit, cw.seed \in Seed, cw.bits[d] \in Bit
    PROVE  /\ ChildSeed(st, cw, d) \in Seed
           /\ ChildBit(st, cw, d) \in Bit
           /\ Child(st, cw, d) \in State
           /\ ConvertWord(ChildSeed(st, cw, d)) \in Elem
<1>1. st.seed \in Seed /\ st.bit \in Bit
  BY DEF State
<1>2. ChildSeed(st, cw, d) \in Seed
  BY <1>1, SeedAssumption, PrgAssumption DEF ChildSeed
<1>3. ChildBit(st, cw, d) \in Bit
  BY <1>1, PrgAssumption DEF ChildBit, BitXor, Bit
<1> QED BY <1>2, <1>3, PrgAssumption DEF Child, State

LEMMA CorWordType ==
    ASSUME NEW sts \in [Server -> State], NEW a \in Bit, NEW v \in Elem
    PROVE  /\ MakeCorWord(sts, a, v) \in CorWord
           /\ \A d \in Bit : MakeCorWord(sts, a, v).bits[d] = CorBit(sts, a, d)
           /\ MakeCorWord(sts, a, v).seed = CorSeed(sts, a)
           /\ MakeCorWord(sts, a, v).word = CorValue(sts, MakeCorWord(sts, a, v), a, v)
<1> DEFINE cw == [seed |-> CorSeed(sts, a), bits |-> [d \in Bit |-> CorBit(sts, a, d)]]
           full == MakeCorWord(sts, a, v)
<1>1. sts[0] \in State /\ sts[1] \in State
  BY DEF Server
<1>2. 1 - a \in Bit
  BY DEF Bit
<1>3. CorSeed(sts, a) \in Seed
  BY <1>1, <1>2, SeedAssumption, PrgAssumption DEF CorSeed, State
<1>4. \A d \in Bit : CorBit(sts, a, d) \in Bit
  BY DEF CorBit, BitXor, Bit
<1>5. cw.seed \in Seed /\ cw.bits \in [Bit -> Bit] /\ cw.bits[a] \in Bit
  BY <1>3, <1>4
<1>6. CorValue(sts, cw, a, v) \in Elem
  BY <1>1, <1>5, ChildType, GroupAssumption DEF CorValue
<1>7. full = [seed |-> cw.seed, bits |-> cw.bits, word |-> CorValue(sts, cw, a, v)]
  BY DEF MakeCorWord
<1>8. full \in CorWord
  BY <1>5, <1>6, <1>7 DEF CorWord
<1>9. full.seed = cw.seed /\ full.bits = cw.bits
  BY <1>7
<1>10. CorValue(sts, full, a, v) = CorValue(sts, cw, a, v)
  BY <1>9 DEF CorValue, ChildSeed, ChildBit
<1> QED BY <1>7, <1>8, <1>9, <1>10

(* One level down from states whose bits differ. *)
LEMMA ChildStates ==
    ASSUME NEW sts \in [Server -> State], NEW a \in Bit, NEW v \in Elem, NEW d \in Bit,
           sts[0].bit # sts[1].bit,
           NEW cw, cw = MakeCorWord(sts, a, v)
    PROVE  /\ d = a => ChildBit(sts[0], cw, d) # ChildBit(sts[1], cw, d)
           /\ d # a => /\ ChildBit(sts[0], cw, d) = ChildBit(sts[1], cw, d)
                       /\ ChildSeed(sts[0], cw, d) = ChildSeed(sts[1], cw, d)
<1> DEFINE e0 == ExpandBit(sts[0].seed, d)
           e1 == ExpandBit(sts[1].seed, d)
<1>1. sts[0].seed \in Seed /\ sts[1].seed \in Seed /\ sts[0].bit \in Bit /\ sts[1].bit \in Bit
  BY DEF State, Server
<1>2. e0 \in Bit /\ e1 \in Bit
  BY <1>1, PrgAssumption
<1>3. cw.bits[d] = CorBit(sts, a, d) /\ cw.seed = CorSeed(sts, a)
  BY CorWordType
<1>4. CorBit(sts, a, d) = IF d = 0 THEN BitXor(BitXor(BitXor(e0, e1), a), 1)
                                   ELSE BitXor(BitXor(e0, e1), a)
  BY DEF CorBit
<1>5. /\ ChildBit(sts[0], cw, d) = IF sts[0].bit = 1 THEN BitXor(e0, cw.bits[d]) ELSE e0
      /\ ChildBit(sts[1], cw, d) = IF sts[1].bit = 1 THEN BitXor(e1, cw.bits[d]) ELSE e1
  BY DEF ChildBit
<1>6. IF d = a THEN ChildBit(sts[0], cw, d) # ChildBit(sts[1], cw, d)
               ELSE ChildBit(sts[0], cw, d) = ChildBit(sts[1], cw, d)
  <2> DEFINE b0 == sts[0].bit
             b1 == sts[1].bit
             c  == cw.bits[d]
             n0 == ChildBit(sts[0], cw, d)
             n1 == ChildBit(sts[1], cw, d)
  <2>1. b0 \in Bit /\ b1 \in Bit /\ b0 # b1
    BY <1>1
  <2>2. c = IF d = 0 THEN BitXor(BitXor(BitXor(e0, e1), a), 1) ELSE BitXor(BitXor(e0, e1), a)
    BY <1>3, <1>4
  <2>3. n0 = (IF b0 = 1 THEN BitXor(e0, c) ELSE e0) /\ n1 = (IF b1 = 1 THEN BitXor(e1, c) ELSE e1)
    BY <1>5
  <2> HIDE DEF e0, e1, b0, b1, c, n0, n1
  <2>4. IF d = a THEN n0 # n1 ELSE n0 = n1
    BY <1>2, <2>1, <2>2, <2>3, BitAlgebra
  <2> QED BY <2>4 DEF n0, n1
<1>7. ASSUME d # a PROVE ChildSeed(sts[0], cw, d) = ChildSeed(sts[1], cw, d)
  <2> DEFINE x0 == ExpandSeed(sts[0].seed, d)
             x1 == ExpandSeed(sts[1].seed, d)
  <2>1. d = 1 - a
    BY <1>7 DEF Bit
  <2>2. cw.seed = Xor(x0, x1)
    BY <1>3, <2>1 DEF CorSeed
  <2>3. x0 \in Seed /\ x1 \in Seed
    BY <1>1, PrgAssumption
  <2>4. Xor(x0, Xor(x0, x1)) = x1 /\ Xor(x1, Xor(x0, x1)) = x0
    BY <2>3, SeedAssumption
  <2>5. (sts[0].bit = 1 /\ sts[1].bit = 0) \/ (sts[0].bit = 0 /\ sts[1].bit = 1)
    BY <1>1 DEF Bit
  <2>6. /\ ChildSeed(sts[0], cw, d) = IF sts[0].bit = 1 THEN Xor(x0, cw.seed) ELSE x0
        /\ ChildSeed(sts[1], cw, d) = IF sts[1].bit = 1 THEN Xor(x1, cw.seed) ELSE x1
    BY DEF ChildSeed
  <2> HIDE DEF x0, x1
  <2> QED BY <2>2, <2>4, <2>5, <2>6
<1> QED BY <1>6, <1>7

-----------------------------------------------------------------------------
(* What is needed of a commutative group. *)

LEMMA Rearrange ==
    ASSUME NEW x \in Elem, NEW y \in Elem, NEW z \in Elem
    PROVE  Add(x, Add(y, z)) = Add(y, Add(x, z))
<1>1. Add(x, Add(y, z)) = Add(Add(x, y), z)
  BY GroupAssumption
<1>2. Add(y, Add(x, z)) = Add(Add(y, x), z)
  BY GroupAssumption
<1> QED BY <1>1, <1>2, GroupAssumption

LEMMA ZeroLeft == ASSUME NEW x \in Elem PROVE Add(Zero, x) = x /\ Add(Neg(x), x) = Zero
BY GroupAssumption

LEMMA NegUnique ==
    ASSUME NEW x \in Elem, NEW y \in Elem, Add(x, y) = Zero
    PROVE  y = Neg(x)
<1>1. Neg(x) \in Elem
  BY GroupAssumption
<1>2. Add(Neg(x), Add(x, y)) = Add(Add(Neg(x), x), y)
  BY <1>1, GroupAssumption
<1>3. Add(Neg(x), Zero) = Neg(x)
  BY <1>1, GroupAssumption
<1>4. Add(Add(Neg(x), x), y) = y
  BY ZeroLeft
<1> QED BY <1>2, <1>3, <1>4

LEMMA NegAdd ==
    ASSUME NEW x \in Elem, NEW y \in Elem
    PROVE  Neg(Add(x, y)) = Add(Neg(x), Neg(y))
<1>1. Neg(x) \in Elem /\ Neg(y) \in Elem /\ Add(x, y) \in Elem /\ Add(Neg(x), Neg(y)) \in Elem
  BY GroupAssumption
<1>2. Add(Add(x, y), Add(Neg(x), Neg(y))) = Add(x, Add(y, Add(Neg(x), Neg(y))))
  BY <1>1, GroupAssumption
<1>3. Add(y, Add(Neg(x), Neg(y))) = Add(Neg(x), Add(y, Neg(y)))
  BY <1>1, Rearrange
<1>4. Add(Neg(x), Add(y, Neg(y))) = Neg(x)
  BY <1>1, GroupAssumption
<1>5. Add(Add(x, y), Add(Neg(x), Neg(y))) = Zero
  BY <1>2, <1>3, <1>4, GroupAssumption
<1> QED BY <1>1, <1>5, NegUnique

LEMMA NegNeg == ASSUME NEW x \in Elem PROVE Neg(Neg(x)) = x
<1>1. Neg(x) \in Elem /\ Add(Neg(x), x) = Zero
  BY GroupAssumption, ZeroLeft
<1> QED BY <1>1, NegUnique

(* c0 and c1 are the converted words, w the correction: adding w at server 0
   gives the value, and so does adding -w at server 1. *)
LEMMA CorrectionCancels ==
    ASSUME NEW c0 \in Elem, NEW c1 \in Elem, NEW v \in Elem,
           NEW w, w = Add(Add(v, Neg(c0)), c1)
    PROVE  /\ Add(Add(c0, w), Neg(c1)) = v
           /\ Add(c0, Neg(Add(c1, Neg(w)))) = v
<1>1. Neg(c0) \in Elem /\ Neg(c1) \in Elem /\ Add(v, Neg(c0)) \in Elem /\ w \in Elem /\ Neg(w) \in Elem
  BY GroupAssumption
<1>2. Add(c0, Add(v, Neg(c0))) = v
  <2>1. Add(c0, Add(v, Neg(c0))) = Add(v, Add(c0, Neg(c0)))
    BY <1>1, Rearrange
  <2> QED BY <2>1, GroupAssumption
<1>3. Add(c0, w) = Add(v, c1)
  <2>1. Add(c0, w) = Add(Add(c0, Add(v, Neg(c0))), c1)
    BY <1>1, GroupAssumption
  <2> QED BY <2>1, <1>2
<1>4. Add(Add(v, c1), Neg(c1)) = v
  <2>1. Add(Add(v, c1), Neg(c1)) = Add(v, Add(c1, Neg(c1)))
    BY <1>1, GroupAssumption
  <2> QED BY <2>1, GroupAssumption
<1>5. Neg(Add(c1, Neg(w))) = Add(Neg(c1), w)
  BY <1>1, NegAdd, NegNeg
<1>6. Add(c0, Add(Neg(c1), w)) = Add(Neg(c1), Add(c0, w))
  BY <1>1, Rearrange
<1>7. Add(Neg(c1), Add(c0, w)) = v
  <2>1. Add(v, c1) \in Elem
    BY GroupAssumption
  <2> QED BY <1>1, <1>3, <1>4, <2>1, GroupAssumption
<1> QED BY <1>3, <1>4, <1>5, <1>6, <1>7

(* The words returned one level down from states whose bits differ. *)
LEMMA ChildWords ==
    ASSUME NEW sts \in [Server -> State], NEW a \in Bit, NEW v \in Elem, NEW d \in Bit,
           sts[0].bit # sts[1].bit,
           NEW cw, cw = MakeCorWord(sts, a, v)
    PROVE  Add(ChildWord(0, sts[0], cw, d), ChildWord(1, sts[1], cw, d))
             = IF d = a THEN v ELSE Zero
<1> DEFINE c0 == ConvertWord(ChildSeed(sts[0], cw, d))
           c1 == ConvertWord(ChildSeed(sts[1], cw, d))
           n0 == ChildBit(sts[0], cw, d)
           n1 == ChildBit(sts[1], cw, d)
           w  == Add(Add(v, Neg(c0)), c1)
<1>1. sts[0] \in State /\ sts[1] \in State
  BY DEF Server
<1>2. cw.seed \in Seed /\ cw.bits \in [Bit -> Bit] /\ cw.bits[d] \in Bit /\ cw.word \in Elem
  BY CorWordType DEF CorWord
<1>3. c0 \in Elem /\ c1 \in Elem /\ n0 \in Bit /\ n1 \in Bit
  BY <1>1, <1>2, ChildType
<1>4. /\ ChildWord(0, sts[0], cw, d) = IF n0 = 1 THEN Add(c0, cw.word) ELSE c0
      /\ ChildWord(1, sts[1], cw, d) = Neg(IF n1 = 1 THEN Add(c1, cw.word) ELSE c1)
  BY DEF ChildWord
<1>5. CASE d = a
  <2>1. n0 # n1
    BY <1>5, ChildStates
  <2>2. cw.word = IF n1 = 1 THEN Neg(w) ELSE w
    <3>1. cw.word = CorValue(sts, cw, a, v)
      BY CorWordType
    <3> QED BY <1>5, <3>1 DEF CorValue
  <2>3. Add(Add(c0, w), Neg(c1)) = v /\ Add(c0, Neg(Add(c1, Neg(w)))) = v
    BY <1>3, CorrectionCancels
  <2>4. (n0 = 1 /\ n1 = 0) \/ (n0 = 0 /\ n1 = 1)
    BY <1>3, <2>1 DEF Bit
  <2> HIDE DEF c0, c1, n0, n1, w
  <2> QED BY <1>4, <1>5, <2>2, <2>3, <2>4
<1>6. CASE d # a
  <2>1. n0 = n1 /\ c0 = c1
    BY <1>6, ChildStates
  <2> HIDE DEF c0, c1, n0, n1
  <2>2. ChildWord(0, sts[0], cw, d) \in Elem
    <3>1. Add(c0, cw.word) \in Elem
      BY <1>2, <1>3, GroupAssumption
    <3> QED BY <1>3, <1>4, <3>1
  <2> QED BY <1>4, <1>6, <2>1, <2>2, GroupAssumption
<1> QED BY <1>5, <1>6

(* Equal states stay equal below, and their words cancel. *)
LEMMA EqualStates ==
    ASSUME NEW st \in State, NEW cw \in CorWord, NEW d \in Bit
    PROVE  Add(ChildWord(0, st, cw, d), ChildWord(1, st, cw, d)) = Zero
<1> DEFINE c == ConvertWord(ChildSeed(st, cw, d))
           w == IF ChildBit(st, cw, d) = 1 THEN Add(c, cw.word) ELSE c
<1>1. cw.seed \in Seed /\ cw.bits[d] \in Bit /\ cw.word \in Elem
  BY DEF CorWord
<1>2. w \in Elem
  BY <1>1, ChildType, GroupAssumption
<1>3. ChildWord(0, st, cw, d) = w /\ ChildWord(1, st, cw, d) = Neg(w)
  BY DEF ChildWord
<1> HIDE DEF w
<1> QED BY <1>2, <1>3, GroupAssumption

-----------------------------------------------------------------------------
(* The inductive invariant: gen's states after each level of alpha have
   different bits and are what evaluation along alpha reproduces. *)

Made == /\ Len(cors) <= DomainBits
        /\ Len(trace) = Len(cors) + 1
        /\ \A i \in 1..Len(trace) : trace[i][0].bit # trace[i][1].bit
        /\ \A i \in 1..Len(cors) :
              /\ cors[i] = MakeCorWord(trace[i], alpha[i], values[i])
              /\ trace[i + 1] = [s \in Server |-> Child(trace[i][s], cors[i], alpha[i])]

Evaluated == /\ Len(path) <= DomainBits
             /\ path # << >> => Len(cors) = DomainBits
             /\ IF OnPath THEN state = trace[Len(path) + 1] ELSE state[0] = state[1]

IInv == TypeOK /\ Made /\ Evaluated /\ SharesAddUp

LEMMA StepFacts ==
    ASSUME TypeOK, Made, NEW i \in 1..Len(trace), i <= DomainBits
    PROVE  /\ trace[i] \in [Server -> State]
           /\ alpha[i] \in Bit
           /\ values[i] \in Elem
           /\ MakeCorWord(trace[i], alpha[i], values[i]) \in CorWord
<1>1. i \in 1..DomainBits /\ trace[i] \in [Server -> State]
  BY DomainAssumption DEF TypeOK
<1>2. alpha[i] \in Bit /\ values[i] \in Elem
  BY <1>1 DEF TypeOK
<1> QED BY <1>1, <1>2, CorWordType

LEMMA DpfInit == Init => IInv
<1> SUFFICES ASSUME Init PROVE IInv
  OBVIOUS
<1>1. PICK roots \in [Server -> Seed] :
          trace = <<[s \in Server |-> [seed |-> roots[s], bit |-> s]]>>
  BY DEF Init
<1>2. trace[1] \in [Server -> State] /\ trace[1][0].bit # trace[1][1].bit
  BY <1>1 DEF State, Server, Bit
<1>3. Len(trace) = 1 /\ trace \in Seq([Server -> State])
  BY <1>1, <1>2
<1>4. TypeOK
  BY <1>2, <1>3, GroupAssumption DEF Init, TypeOK
<1>5. Made
  <2>1. cors = << >> /\ Len(cors) = 0 /\ 1..Len(cors) = {} /\ 1..Len(trace) = {1}
    BY <1>3 DEF Init
  <2> QED BY <1>2, <1>3, <2>1, DomainAssumption DEF Made
<1>6. Evaluated /\ SharesAddUp
  BY <1>2, DomainAssumption DEF Init, Evaluated, OnPath, SharesAddUp
<1> QED BY <1>4, <1>5, <1>6 DEF IInv

(* A round of gen makes the next correction word from the states before it. *)
LEMMA GenStep == IInv /\ GenCorWord => IInv'
<1> SUFFICES ASSUME IInv, GenCorWord PROVE IInv'
  OBVIOUS
<1> DEFINE i == Len(cors) + 1
           cw == MakeCorWord(trace[i], alpha[i], values[i])
           sts == [s \in Server |-> Child(trace[i][s], cw, alpha[i])]
<1>1. TypeOK /\ Made /\ Evaluated /\ SharesAddUp
  BY DEF IInv
<1>2. i \in Nat /\ i <= DomainBits /\ i \in 1..Len(trace) /\ Len(trace) = i
  BY <1>1 DEF GenCorWord, TypeOK, Made
<1>3. trace[i] \in [Server -> State] /\ alpha[i] \in Bit /\ values[i] \in Elem /\ cw \in CorWord
  BY <1>1, <1>2, StepFacts
<1>4. /\ cors' = Append(cors, cw) /\ trace' = Append(trace, sts)
      /\ UNCHANGED <<alpha, values, path, state, word>>
  BY DEF GenCorWord
<1>5. sts \in [Server -> State]
  BY <1>3, ChildType DEF CorWord
<1>6. sts[0].bit # sts[1].bit
  <2>1. trace[i][0].bit # trace[i][1].bit
    BY <1>1, <1>2 DEF Made
  <2>2. ChildBit(trace[i][0], cw, alpha[i]) # ChildBit(trace[i][1], cw, alpha[i])
    BY <1>3, <2>1, ChildStates
  <2> QED BY <2>2 DEF Child, Server
<1> HIDE DEF cw, sts
<1>7. TypeOK'
  BY <1>1, <1>3, <1>4, <1>5 DEF TypeOK
<1>8. Len(cors') = i /\ Len(trace') = i + 1
  BY <1>1, <1>2, <1>3, <1>4, <1>5 DEF TypeOK
<1>9. /\ \A j \in 1..(i - 1) : cors'[j] = cors[j]
      /\ cors'[i] = cw
      /\ \A j \in 1..i : trace'[j] = trace[j]
      /\ trace'[i + 1] = sts
  BY <1>1, <1>2, <1>3, <1>4, <1>5 DEF TypeOK
<1>10. Made'
  <2>1. \A j \in 1..Len(trace') : trace'[j][0].bit # trace'[j][1].bit
    BY <1>1, <1>2, <1>6, <1>8, <1>9 DEF Made
  <2>2. ASSUME NEW j \in 1..Len(cors')
        PROVE  /\ cors'[j] = MakeCorWord(trace'[j], alpha'[j], values'[j])
               /\ trace'[j + 1] = [s \in Server |-> Child(trace'[j][s], cors'[j], alpha'[j])]
    <3>1. CASE j = i
      BY <1>2, <1>4, <1>8, <1>9, <3>1 DEF cw, sts
    <3>2. CASE j \in 1..(i - 1)
      <4>1. j \in 1..Len(cors) /\ j \in 1..i /\ j + 1 \in 1..i
        BY <1>2, <3>2
      <4> QED BY <1>1, <1>4, <1>9, <3>2, <4>1 DEF Made
    <3> QED BY <1>2, <1>8, <3>1, <3>2
  <2> QED BY <1>2, <1>8, <2>1, <2>2 DEF Made
<1>11. Evaluated' /\ SharesAddUp'
  <2>1. path = << >>
    BY <1>1, <1>2 DEF Evaluated
  <2>2. Len(path) + 1 = 1 /\ 1 \in 1..i
    BY <1>2, <2>1
  <2> QED BY <1>1, <1>4, <1>9, <2>1, <2>2, DomainAssumption DEF Evaluated, OnPath, SharesAddUp
<1> QED BY <1>7, <1>10, <1>11 DEF IInv

(* The step down: along alpha the states are gen's own, off it they are equal. *)
LEMMA EvalStep == IInv /\ (\E dir \in Bit : EvalBit(dir)) => IInv'
<1> SUFFICES ASSUME IInv, NEW dir \in Bit, EvalBit(dir) PROVE IInv'
  OBVIOUS
<1> DEFINE i == Len(path) + 1
           next == [s \in Server |-> Child(state[s], cors[i], dir)]
           words == [s \in Server |-> ChildWord(s, state[s], cors[i], dir)]
<1>1. TypeOK /\ Made /\ Evaluated
  BY DEF IInv
<1>2. i \in Nat /\ i <= DomainBits /\ Len(cors) = DomainBits /\ i \in 1..Len(cors) /\ i \in 1..Len(trace)
  BY <1>1, DomainAssumption DEF EvalBit, TypeOK, Made
<1>3. path' = Append(path, dir) /\ state' = next /\ word' = words /\ UNCHANGED <<alpha, values, trace, cors>>
  BY DEF EvalBit
<1>4. state[0] \in State /\ state[1] \in State /\ cors[i] \in CorWord
  BY <1>1, <1>2 DEF TypeOK, Server
<1>5. cors[i].seed \in Seed /\ cors[i].bits[dir] \in Bit /\ cors[i].word \in Elem
  BY <1>4 DEF CorWord
<1>6. next \in [Server -> State] /\ next[0] = Child(state[0], cors[i], dir) /\ next[1] = Child(state[1], cors[i], dir)
  BY <1>4, <1>5, ChildType DEF Server
<1>7. words \in [Server -> Elem] /\ words[0] = ChildWord(0, state[0], cors[i], dir)
                                 /\ words[1] = ChildWord(1, state[1], cors[i], dir)
  <2>1. \A s \in Server : ConvertWord(ChildSeed(state[s], cors[i], dir)) \in Elem
    BY <1>4, <1>5, ChildType DEF Server
  <2>2. \A s \in Server : ChildWord(s, state[s], cors[i], dir) \in Elem
    BY <1>5, <2>1, GroupAssumption DEF ChildWord
  <2> QED BY <2>2 DEF Server
<1> HIDE DEF next, words
<1>8. /\ path' \in Seq(Bit) /\ Len(path') = i /\ path'[i] = dir /\ path' # << >>
      /\ \A j \in 1..(i - 1) : path'[j] = path[j]
  <2>1. path \in Seq(Bit) /\ path' = Append(path, dir)
    BY <1>1, <1>3 DEF TypeOK
  <2>2. Len(path') = i /\ path' \in Seq(Bit)
    BY <2>1
  <2>3. path' # << >>
    <3>1. Len(path') # 0
      BY <2>1, <2>2
    <3> QED BY <3>1
  <2>4. path'[i] = dir
    BY <2>1
  <2>5. \A j \in 1..(i - 1) : path'[j] = path[j]
    BY <2>1
  <2> QED BY <2>2, <2>3, <2>4, <2>5
<1>9. OnPath' <=> OnPath /\ dir = alpha[i]
  <2>1. Len(path) = i - 1
    BY <1>1 DEF TypeOK
  <2> QED BY <1>2, <1>3, <1>8, <2>1 DEF OnPath
<1>10. trace[i] \in [Server -> State] /\ alpha[i] \in Bit /\ values[i] \in Elem
  BY <1>1, <1>2, StepFacts
<1>11. CASE OnPath
  <2>1. state = trace[i] /\ trace[i][0].bit # trace[i][1].bit
        /\ cors[i] = MakeCorWord(trace[i], alpha[i], values[i])
        /\ trace[i + 1] = [s \in Server |-> Child(trace[i][s], cors[i], alpha[i])]
    BY <1>1, <1>2, <1>11 DEF Evaluated, Made
  <2>2. Add(words[0], words[1]) = IF dir = alpha[i] THEN values[i] ELSE Zero
    BY <1>7, <1>10, <2>1, ChildWords
  <2>3. dir = alpha[i] => next = trace[i + 1]
    BY <2>1 DEF next
  <2>4. dir # alpha[i] => next[0] = next[1]
    <3>1. dir # alpha[i] => /\ ChildBit(state[0], cors[i], dir) = ChildBit(state[1], cors[i], dir)
                            /\ ChildSeed(state[0], cors[i], dir) = ChildSeed(state[1], cors[i], dir)
      BY <1>10, <2>1, ChildStates
    <3> QED BY <1>6, <3>1 DEF Child
  <2>5. Evaluated'
    BY <1>2, <1>3, <1>8, <1>9, <1>11, <2>3, <2>4 DEF Evaluated
  <2>6. SharesAddUp'
    BY <1>3, <1>8, <1>9, <1>11, <2>2 DEF SharesAddUp
  <2> QED BY <2>5, <2>6, <1>1, <1>3, <1>6, <1>7, <1>8 DEF IInv, TypeOK, Made
<1>12. CASE ~OnPath
  <2>1. state[0] = state[1]
    BY <1>1, <1>12 DEF Evaluated
  <2>2. next[0] = next[1]
    BY <1>6, <2>1
  <2>3. Add(words[0], words[1]) = Zero
    BY <1>4, <1>7, <2>1, EqualStates
  <2>4. Evaluated'
    BY <1>2, <1>3, <1>8, <1>9, <1>12, <2>2 DEF Evaluated
  <2>5. SharesAddUp'
    BY <1>3, <1>9, <1>12, <2>3 DEF SharesAddUp
  <2> QED BY <2>4, <2>5, <1>1, <1>3, <1>6, <1>7, <1>8 DEF IInv, TypeOK, Made
<1> QED BY <1>11, <1>12

LEMMA RestartStep == IInv /\ EvalInit => IInv'
<1> SUFFICES ASSUME IInv, EvalInit PROVE IInv'
  OBVIOUS
<1>1. TypeOK /\ Made /\ Evaluated
  BY DEF IInv
<1>2. path' = << >> /\ state' = trace[1] /\ word' = [s \in Server |-> Zero]
      /\ UNCHANGED <<alpha, values, trace, cors>>
  BY DEF EvalInit
<1>3. trace[1] \in [Server -> State]
  <2>1. trace \in Seq([Server -> State]) /\ cors \in Seq(CorWord) /\ Len(trace) = Len(cors) + 1
    BY <1>1 DEF Made, TypeOK
  <2>2. 1 \in 1..Len(trace)
    BY <2>1
  <2> QED BY <2>1, <2>2
<1>4. word' \in [Server -> Elem] /\ path' \in Seq(Bit) /\ Len(path') = 0
  BY <1>2, GroupAssumption
<1>5. TypeOK' /\ Made'
  BY <1>1, <1>2, <1>3, <1>4 DEF TypeOK, Made
<1>6. Evaluated' /\ SharesAddUp'
  BY <1>2, <1>4, DomainAssumption DEF Evaluated, OnPath, SharesAddUp, EvalInit
<1> QED BY <1>5, <1>6 DEF IInv

LEMMA DpfStep == IInv /\ [Next]_vars => IInv'
<1> SUFFICES ASSUME IInv, [Next]_vars PROVE IInv'
  OBVIOUS
<1>1. CASE UNCHANGED vars
  <2>1. TypeOK' /\ Made'
    BY <1>1 DEF IInv, TypeOK, Made, vars
  <2>2. Evaluated'
    BY <1>1 DEF IInv, Evaluated, OnPath, vars
  <2>3. SharesAddUp'
    BY <1>1 DEF IInv, SharesAddUp, OnPath, vars
  <2> QED BY <2>1, <2>2, <2>3 DEF IInv
<1> QED BY <1>1, GenStep, EvalStep, RestartStep DEF Next

LEMMA DpfInvariant == Spec => []IInv
BY DpfInit, DpfStep, PTL DEF Spec

(* All variables of generation and evaluation keep their types. *)
THEOREM DpfTypeCorrect == Spec => []TypeOK
<1>1. IInv => TypeOK
  BY DEF IInv
<1> QED BY <1>1, DpfInvariant, PTL

(* Wherever the servers evaluate, their words add up to the value of that
   prefix if it is one of alpha's, and to zero if it is not. *)
THEOREM DpfCorrect == Spec => []SharesAddUp
<1>1. IInv => SharesAddUp
  BY DEF IInv
<1> QED BY <1>1, DpfInvariant, PTL

(* On alpha's path the servers' bits differ, off it their states are equal. *)
THEOREM DpfStates == Spec => []StatesDiffer
<1>1. IInv => StatesDiffer
  <2> SUFFICES ASSUME IInv PROVE StatesDiffer
    OBVIOUS
  <2>1. CASE OnPath
    <3>1. Len(path) + 1 \in 1..Len(trace)
      <4>0. cors \in Seq(CorWord) /\ path \in Seq(Bit) /\ Len(trace) = Len(cors) + 1
        BY DEF IInv, TypeOK, Made
      <4>1. Len(cors) \in Nat /\ Len(trace) = Len(cors) + 1 /\ Len(path) \in Nat
        BY <4>0
      <4>2. CASE path = << >>
        BY <4>1, <4>2
      <4>3. CASE path # << >>
        BY <4>1, <4>3, DomainAssumption DEF IInv, Evaluated
      <4> QED BY <4>2, <4>3
    <3> QED BY <2>1, <3>1 DEF IInv, Made, Evaluated, StatesDiffer
  <2>2. CASE ~OnPath
    BY <2>2 DEF IInv, Evaluated, StatesDiffer
  <2> QED BY <2>1, <2>2
<1> QED BY <1>1, DpfInvariant, PTL

-----------------------------------------------------------------------------
(* Whole paths in one call (DpfEval). *)

(* A set of numbers with 0, and with n + 1 for each n in it, has them all. *)
LEMMA LevelInduction ==
    ASSUME NEW S, 0 \in S, \A n \in Nat : n \in S => n + 1 \in S
    PROVE  \A n \in Nat : n \in S
<1> DEFINE Missing == Nat \ S
<1> SUFFICES ASSUME Missing # {} PROVE FALSE
  OBVIOUS
<1>1. PICK n \in Missing : \A m \in Missing : ~ (<<m, n>> \in OpToRel(<, Nat))
  <2>1. Missing \subseteq Nat
    OBVIOUS
  <2> HIDE DEF Missing
  <2> QED BY <2>1, NatLessThanWellFounded, WFMin
<1>2. n \in Nat /\ n \notin S /\ n # 0
  OBVIOUS
<1>3. PICK k \in Nat : n = k + 1
  BY <1>2
<1>4. <<k, n>> \in OpToRel(<, Nat)
  BY <1>2, <1>3 DEF OpToRel
<1>5. k \in S
  BY <1>1, <1>4
<1> QED BY <1>2, <1>3, <1>5

\* st is the walk of n levels along idx from the state a.
Walks(st, n, a, idx) ==
    st = [i \in 0..n |-> IF i = 0 THEN a ELSE Child(st[i - 1], WordAt(idx, i), idx[i])]

(* There is a walk, and it goes through states. *)
LEMMA WalkExists ==
    ASSUME NEW m \in Nat, NEW a \in State, NEW idx,
           \A i \in 1..m : idx[i] \in Bit /\ WordAt(idx, i) \in CorWord
    PROVE  \E st \in [0..m -> State] : Walks(st, m, a, idx)
<1> DEFINE S == {n \in Nat : n <= m => \E st \in [0..n -> State] : Walks(st, n, a, idx)}
<1>1. 0 \in S
  <2>1. PICK st : st = [i \in 0..0 |-> a]
    OBVIOUS
  <2>2. st \in [0..0 -> State]
    BY <2>1
  <2>3. Walks(st, 0, a, idx)
    BY <2>1 DEF Walks
  <2> QED BY <2>2, <2>3
<1>2. ASSUME NEW n \in Nat, n \in S PROVE n + 1 \in S
  <2> SUFFICES ASSUME n + 1 <= m
               PROVE  \E st \in [0..(n + 1) -> State] : Walks(st, n + 1, a, idx)
    OBVIOUS
  <2>1. PICK st \in [0..n -> State] : Walks(st, n, a, idx)
    BY <1>2
  <2>2. st = [i \in 0..n |-> IF i = 0 THEN a ELSE Child(st[i - 1], WordAt(idx, i), idx[i])]
    BY <2>1, Zenon DEF Walks
  <2>3. PICK next : next = Child(st[n], WordAt(idx, n + 1), idx[n + 1])
    OBVIOUS
  <2>4. next \in State
    <3>1. n + 1 \in 1..m /\ st[n] \in State
      BY <2>1
    <3>2. idx[n + 1] \in Bit /\ WordAt(idx, n + 1) \in CorWord
      BY <3>1
    <3> QED BY <2>3, <3>1, <3>2, ChildType DEF CorWord
  <2>5. PICK g : g = [i \in 0..(n + 1) |-> IF i = n + 1 THEN next ELSE st[i]]
    OBVIOUS
  <2>6. g \in [0..(n + 1) -> State]
    BY <2>4, <2>5
  <2>7. ASSUME NEW i \in 0..(n + 1)
        PROVE  g[i] = IF i = 0 THEN a ELSE Child(g[i - 1], WordAt(idx, i), idx[i])
    <3>1. CASE i = n + 1
      <4>1. g[i] = next /\ i # 0 /\ i - 1 = n /\ g[n] = st[n]
        BY <2>5, <3>1
      <4> QED BY <2>3, <3>1, <4>1
    <3>2. CASE i # n + 1 /\ i # 0
      <4>1. i \in 0..n /\ i - 1 \in 0..n /\ g[i] = st[i] /\ g[i - 1] = st[i - 1]
        BY <2>5, <3>2
      <4>2. st[i] = Child(st[i - 1], WordAt(idx, i), idx[i])
        BY <2>2, <3>2, <4>1
      <4> QED BY <3>2, <4>1, <4>2
    <3>3. CASE i # n + 1 /\ i = 0
      <4>1. 0 \in 0..n /\ g[0] = st[0] /\ st[0] = a
        BY <2>2, <2>5, <3>3
      <4> QED BY <3>3, <4>1
    <3> QED BY <3>1, <3>2, <3>3
  <2>8. g = [i \in 0..(n + 1) |-> IF i = 0 THEN a ELSE Child(g[i - 1], WordAt(idx, i), idx[i])]
    BY <2>6, <2>7
  <2>9. Walks(g, n + 1, a, idx)
    BY <2>8, Zenon DEF Walks
  <2> QED BY <2>6, <2>9
<1>3. \A n \in Nat : n \in S
  <2> HIDE DEF S
  <2> QED BY <1>1, <1>2, LevelInduction
<1> QED BY <1>3

(* eval's states are the walk from the server's root. *)
LEMMA EvalStatesWalk ==
    ASSUME TypeOK, Made, Generated, NEW idx \in Paths, NEW s \in Server
    PROVE  /\ Walks(EvalStates(s, idx), Len(idx), trace[1][s], idx)
           /\ EvalStates(s, idx) \in [0..Len(idx) -> State]
           /\ \A i \in 1..Len(idx) : idx[i] \in Bit /\ WordAt(idx, i) \in CorWord
           /\ Len(idx) \in 1..DomainBits
<1> USE DomainAssumption
<1>1. PICK m \in 1..DomainBits : idx \in [1..m -> Bit]
  BY DEF Paths
<1>2. Len(idx) = m
  BY <1>1
<1>3. ASSUME NEW i \in 1..m PROVE idx[i] \in Bit /\ WordAt(idx, i) \in CorWord
  <2>1. cors \in Seq(CorWord) /\ Len(cors) = DomainBits
    BY DEF TypeOK, Generated
  <2>2. cors[DomainBits] \in CorWord /\ cors[i] \in CorWord
    <3>1. i \in 1..Len(cors) /\ DomainBits \in 1..Len(cors)
      BY <2>1
    <3> QED BY <2>1, <3>1, ElementOfSeq
  <2> QED BY <1>1, <2>2 DEF WordAt
<1>4. PICK a : a = trace[1][s] /\ a \in State
  <2>1. 1 \in 1..Len(trace) /\ 1 <= DomainBits
    <3>1. Len(trace) = DomainBits + 1
      BY DEF Made, Generated
    <3> QED BY <3>1
  <2> QED BY <2>1, StepFacts
<1>5. PICK st \in [0..m -> State] : Walks(st, m, a, idx)
  <2>1. m \in Nat /\ a \in State
    BY <1>4
  <2> QED BY <1>3, <2>1, WalkExists
<1>6. EvalStates(s, idx) = CHOOSE f : Walks(f, m, a, idx)
  BY <1>2, <1>4 DEF EvalStates, Walks
<1>7. Walks(EvalStates(s, idx), m, a, idx)
  BY <1>5, <1>6, Zenon
<1>8. PICK e : e = EvalStates(s, idx)
  OBVIOUS
<1>9. e = [i \in 0..m |-> IF i = 0 THEN a ELSE Child(e[i - 1], WordAt(idx, i), idx[i])]
  BY <1>7, <1>8, Zenon DEF Walks
<1> DEFINE S == {n \in Nat : n <= m => e[n] \in State}
<1>10. 0 \in S
  BY <1>4, <1>9
<1>11. ASSUME NEW n \in Nat, n \in S PROVE n + 1 \in S
  <2> SUFFICES ASSUME n + 1 <= m PROVE e[n + 1] \in State
    OBVIOUS
  <2>1. n + 1 \in 1..m /\ n + 1 \in 0..m /\ n + 1 # 0 /\ (n + 1) - 1 = n /\ e[n] \in State
    BY <1>11
  <2>2. e[n + 1] = Child(e[n], WordAt(idx, n + 1), idx[n + 1])
    BY <1>9, <2>1
  <2>3. idx[n + 1] \in Bit /\ WordAt(idx, n + 1) \in CorWord
    BY <1>3, <2>1
  <2> QED BY <2>1, <2>2, <2>3, ChildType DEF CorWord
<1>12. \A n \in Nat : n \in S
  <2> HIDE DEF S
  <2> QED BY <1>10, <1>11, LevelInduction
<1>13. e \in [0..m -> State]
  BY <1>9, <1>12
<1> QED BY <1>2, <1>3, <1>4, <1>7, <1>8, <1>13

\* The first n bits of idx are alpha's.
Follows(idx, n) == \A j \in 1..n : idx[j] = alpha[j]

(* Before the last level two evaluations along one path are in gen's states as
   long as it is alpha's, and in equal states after that. *)
LEMMA WalksTogether ==
    ASSUME TypeOK, Made, Generated, NEW idx \in Paths,
           NEW e0, e0 = EvalStates(0, idx), NEW e1, e1 = EvalStates(1, idx),
           NEW k \in Nat, k < Len(idx)
    PROVE  IF Follows(idx, k) THEN e0[k] = trace[k + 1][0] /\ e1[k] = trace[k + 1][1]
                              ELSE e0[k] = e1[k]
<1> USE DomainAssumption
<1>1. 0 \in Server /\ 1 \in Server
  BY DEF Server
<1>2. PICK m \in 1..DomainBits : m = Len(idx)
  BY <1>1, EvalStatesWalk
<1>3. /\ e0 = [i \in 0..m |-> IF i = 0 THEN trace[1][0] ELSE Child(e0[i - 1], WordAt(idx, i), idx[i])]
      /\ e1 = [i \in 0..m |-> IF i = 0 THEN trace[1][1] ELSE Child(e1[i - 1], WordAt(idx, i), idx[i])]
  <2>1. Walks(e0, m, trace[1][0], idx) /\ Walks(e1, m, trace[1][1], idx)
    BY <1>1, <1>2, EvalStatesWalk
  <2> QED BY <2>1, Zenon DEF Walks
<1> DEFINE Together(n) ==
               IF Follows(idx, n) THEN e0[n] = trace[n + 1][0] /\ e1[n] = trace[n + 1][1]
                                  ELSE e0[n] = e1[n]
           S == {n \in Nat : n < m => Together(n)}
<1>4. 0 \in S
  BY <1>3 DEF Follows
<1>5. ASSUME NEW n \in Nat, n \in S PROVE n + 1 \in S
  <2> SUFFICES ASSUME n + 1 < m PROVE Together(n + 1)
    OBVIOUS
  <2>1. n + 1 \in 1..m /\ n + 1 \in 0..m /\ n + 1 # 0 /\ (n + 1) - 1 = n /\ n < m
    OBVIOUS
  <2>2. Together(n)
    BY <1>5, <2>1
  <2>3. WordAt(idx, n + 1) = cors[n + 1]
    BY <1>2 DEF WordAt
  <2>4. PICK d : d = idx[n + 1] /\ d \in Bit
    BY <1>1, <1>2, <2>1, EvalStatesWalk
  <2>5. PICK cw : cw = cors[n + 1]
    OBVIOUS
  <2>6. e0[n + 1] = Child(e0[n], cw, d) /\ e1[n + 1] = Child(e1[n], cw, d)
    BY <1>3, <2>1, <2>3, <2>4, <2>5
  <2>7. Len(cors) = DomainBits /\ n + 1 \in 1..Len(cors) /\ n + 1 \in 1..Len(trace)
    <3>1. Len(cors) = DomainBits /\ Len(trace) = DomainBits + 1
      BY DEF Made, Generated
    <3>2. n + 1 \in 1..DomainBits /\ n + 1 \in 1..(DomainBits + 1)
      BY <2>1
    <3> QED BY <3>1, <3>2
  <2>8. Follows(idx, n + 1) <=> Follows(idx, n) /\ d = alpha[n + 1]
    BY <2>4 DEF Follows
  <2>9. CASE ~Follows(idx, n)
    BY <2>2, <2>6, <2>8, <2>9
  <2>10. CASE Follows(idx, n)
    <3>1. PICK sts : sts = trace[n + 1]
      OBVIOUS
    <3>2. e0[n] = sts[0] /\ e1[n] = sts[1]
      BY <2>2, <2>10, <3>1
    <3>3. /\ sts \in [Server -> State] /\ alpha[n + 1] \in Bit /\ values[n + 1] \in Elem
          /\ sts[0].bit # sts[1].bit /\ cw = MakeCorWord(sts, alpha[n + 1], values[n + 1])
          /\ trace[(n + 1) + 1] = [s \in Server |-> Child(sts[s], cw, alpha[n + 1])]
      <4>1. n + 1 <= DomainBits
        BY <1>2
      <4>2. trace[n + 1] \in [Server -> State] /\ alpha[n + 1] \in Bit /\ values[n + 1] \in Elem
        BY <2>7, <4>1, StepFacts
      <4> QED BY <2>5, <2>7, <3>1, <4>2 DEF Made
    <3>4. CASE d = alpha[n + 1]
      BY <1>1, <2>6, <2>8, <2>10, <3>2, <3>3, <3>4
    <3>5. CASE d # alpha[n + 1]
      <4>1. /\ ChildBit(sts[0], cw, d) = ChildBit(sts[1], cw, d)
            /\ ChildSeed(sts[0], cw, d) = ChildSeed(sts[1], cw, d)
        BY <2>4, <3>3, <3>5, ChildStates
      <4>2. e0[n + 1] = e1[n + 1]
        BY <2>6, <3>2, <4>1 DEF Child
      <4> QED BY <2>8, <3>5, <4>2
    <3> QED BY <3>4, <3>5
  <2> QED BY <2>9, <2>10
<1>6. \A n \in Nat : n \in S
  <2> HIDE DEF S
  <2> QED BY <1>4, <1>5, LevelInduction
<1> QED BY <1>2, <1>6

LEMMA EvalFromInv == IInv => EvalSharesAddUp
<1> USE DomainAssumption
<1> SUFFICES ASSUME IInv, Generated, NEW idx \in Paths, NEW i \in 1..Len(idx),
                    i < Len(idx) \/ Len(idx) = DomainBits
             PROVE  Add(Eval(0, idx)[i], Eval(1, idx)[i])
                      = IF Follows(idx, i) THEN values[i] ELSE Zero
  BY DEF EvalSharesAddUp, Follows
<1>1. TypeOK /\ Made /\ 0 \in Server /\ 1 \in Server
  BY DEF IInv, Server
<1>2. PICK m \in 1..DomainBits : m = Len(idx)
  BY <1>1, EvalStatesWalk
<1>3. PICK e0, e1 : e0 = EvalStates(0, idx) /\ e1 = EvalStates(1, idx)
  OBVIOUS
<1>4. PICK k \in Nat : i = k + 1 /\ k = i - 1 /\ k < m
  BY <1>2
<1>5. PICK d : d = idx[i] /\ d \in Bit
  BY <1>1, EvalStatesWalk
<1>6. PICK cw : cw = cors[i]
  OBVIOUS
<1>7. WordAt(idx, i) = cw
  BY <1>2, <1>6 DEF WordAt
<1>8. /\ Eval(0, idx)[i] = ChildWord(0, e0[k], cw, d)
      /\ Eval(1, idx)[i] = ChildWord(1, e1[k], cw, d)
  BY <1>3, <1>4, <1>5, <1>7 DEF Eval
<1>9. IF Follows(idx, k) THEN e0[k] = trace[k + 1][0] /\ e1[k] = trace[k + 1][1]
                         ELSE e0[k] = e1[k]
  BY <1>1, <1>2, <1>3, <1>4, WalksTogether
<1>10. i \in 1..Len(cors) /\ i \in 1..Len(trace) /\ i <= DomainBits
  <2>1. Len(cors) = DomainBits /\ Len(trace) = DomainBits + 1
    BY <1>1 DEF Made, Generated
  <2>2. i \in 1..DomainBits /\ i \in 1..(DomainBits + 1) /\ i <= DomainBits
    BY <1>2
  <2> QED BY <2>1, <2>2
<1>11. /\ trace[i] \in [Server -> State] /\ alpha[i] \in Bit /\ values[i] \in Elem
       /\ trace[i][0].bit # trace[i][1].bit /\ cw = MakeCorWord(trace[i], alpha[i], values[i])
  BY <1>1, <1>6, <1>10, StepFacts DEF Made
<1>12. Follows(idx, i) <=> Follows(idx, k) /\ d = alpha[i]
  BY <1>4, <1>5 DEF Follows
<1>13. CASE Follows(idx, k)
  <2>1. e0[k] = trace[i][0] /\ e1[k] = trace[i][1]
    BY <1>4, <1>9, <1>13
  <2>2. Add(ChildWord(0, trace[i][0], cw, d), ChildWord(1, trace[i][1], cw, d))
          = IF d = alpha[i] THEN values[i] ELSE Zero
    BY <1>5, <1>11, ChildWords
  <2> QED BY <1>8, <1>12, <1>13, <2>1, <2>2
<1>14. CASE ~Follows(idx, k)
  <2>1. e0[k] \in State /\ cw \in CorWord
    <3>1. e0 \in [0..m -> State] /\ k \in 0..m
      BY <1>1, <1>2, <1>3, <1>4, EvalStatesWalk
    <3>2. cw \in CorWord
      BY <1>1, <1>6, <1>10, ElementOfSeq DEF TypeOK
    <3> QED BY <3>1, <3>2
  <2> QED BY <1>5, <1>8, <1>9, <1>12, <1>14, <2>1, EqualStates
<1> QED BY <1>13, <1>14

(* One call for a whole path gives, at each prefix of it, words that add up to
   that prefix's value or to zero (DPFKey::eval, test dpf_complete). *)
THEOREM EvalCorrect == Spec => []EvalSharesAddUp
<1> QED BY DpfInvariant, EvalFromInv, PTL
=============================================================================
