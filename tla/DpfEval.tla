--------------------------------- MODULE DpfEval ---------------------------------
(***************************************************************************)
(* DPFKey::eval (src/src/dpf.rs): one server walks down a whole path in a  *)
(* single call, with the last correction word at its end.  SketchDPFKey's  *)
(* eval (src/src/sketch.rs) is a call of it.                               *)
(***************************************************************************)
EXTENDS Dpf

Paths == UNION {[1..n -> Bit] : n \in 1..DomainBits}

\* MUTANT of WordAt: cor_word_last on every level.
WordAtLast(idx, i) == cors[DomainBits]

\* The last bit is evaluated by eval_bit_last, wherever it is.
WordAt(idx, i) == IF i = Len(idx) THEN cors[DomainBits] ELSE cors[i]

\* Server s's states along idx, from eval_init.
EvalStates(s, idx) ==
    LET st[i \in 0..Len(idx)] == IF i = 0 THEN trace[1][s]
                                 ELSE Child(st[i - 1], WordAt(idx, i), idx[i])
    IN  st

Eval(s, idx) ==
    LET st == EvalStates(s, idx)
    IN  [i \in 1..Len(idx) |-> ChildWord(s, st[i - 1], WordAt(idx, i), idx[i])]

-----------------------------------------------------------------------------

Generated == Len(cors) = DomainBits

(* The inner words of any path add up to the values on alpha's prefixes and to
   zero elsewhere, and so does the last word of a whole string: what the test
   dpf_complete expects of a prefix, for every prefix and also at the end. *)
EvalSharesAddUp == Generated =>
    \A idx \in Paths :
        LET e0 == Eval(0, idx)
            e1 == Eval(1, idx)
        IN  \A i \in 1..Len(idx) : i < Len(idx) \/ Len(idx) = DomainBits =>
                Add(e0[i], e1[i]) = IF \A j \in 1..i : idx[j] = alpha[j] THEN values[i] ELSE Zero
=============================================================================
