--------------------------------- MODULE Fields ---------------------------------
(***************************************************************************)
(* Group for FE, FieldElm and u64 (src/src/field.rs), in the orders in     *)
(* which the program applies it.  A FieldElm is a big integer that is      *)
(* compared as it is, and not every operation reduces it: the lazy ones    *)
(* never do, and negate makes the modulus of zero.  Whether a comparison   *)
(* sees a canonical value depends on what was called before.               *)
(*                                                                         *)
(* There are two such jobs, on raw values: the count of a tree node, from  *)
(* the making of the clients' correction words to keep_values, and the     *)
(* check of one key's sketch, from the sketch's shares to verify.  The      *)
(* third phase is FastField's own machine, any operations on an FE.        *)
(*                                                                         *)
(* A BigUint cannot be negative: a difference below zero is a panic.       *)
(***************************************************************************)
EXTENDS FastField

CONSTANTS Modulus,    \* of FieldElm and u64, both small here
          FEDraws,    \* elements of FE that are drawn
          NClients,   \* clients whose words a node adds
          Tapes       \* choices of the check's random elements

ASSUME ModulusAssumption == Modulus \in Nat /\ Modulus >= 2 /\ FEDraws \subseteq Field
ASSUME ClientsAssumption == NClients \in Nat \ {0}
ASSUME TapesAssumption == Tapes \subseteq [0..23 -> Nat]

Server == {0, 1}
Type == {"FE", "FieldElm", "u64"}

VARIABLES type,     \* which of the three implementations
          phase,    \* where the job is
          clients,  \* clients done
          keys,     \* the current client's key at this node: both halves
          word,     \* [Server -> its word for that key]
          acc,      \* [Server -> the node's value]
          check,    \* shares of the check's inputs, and its random elements
          out,      \* the value that is compared
          want      \* ghost: what it stands for, in exact arithmetic

jobVars == <<type, phase, clients, keys, word, acc, check, out, want>>
vars == <<feVars, jobVars>>

Order == IF type = "FE" THEN PRIME_ORDER ELSE Modulus

\* What from_rng draws.
Elem == IF type = "FE" THEN FEDraws ELSE 0..(Modulus - 1)

-----------------------------------------------------------------------------
(* Group for the three types, and sub for a pair. *)

Add(x, y) == IF type = "FE" THEN add(x, y) ELSE (x + y) % Modulus
Mul(x, y) == IF type = "FE" THEN mul(x, y) ELSE (x * y) % Modulus

AddLazy(x, y) == IF type = "FieldElm" THEN x + y ELSE Add(x, y)
MulLazy(x, y) == IF type = "FieldElm" THEN x * y ELSE Mul(x, y)
Reduce(x) == IF type = "FieldElm" THEN x % Modulus ELSE x

Negate(x) == CASE type = "FE"       -> neg(x)
               [] type = "u64"      -> (Modulus - x) % Modulus
               [] type = "FieldElm" -> Modulus - x

Sub(x, y) == CASE type = "FE"       -> sub(x, y)
               [] type = "u64"      -> Add(x, Negate(y))
               [] type = "FieldElm" -> IF x < y THEN x + Modulus - y ELSE x - y

PairSub(x, y) == Add(x, Negate(y))

\* What Ord and Eq look at.
Compared(x) == IF type = "FE" THEN value(x) ELSE x

\* MUTANT of EvalWord: the correction is added lazily.
EvalWordLazy(s, k) ==
    LET w == IF k.bit[s] = 1 THEN AddLazy(k.conv[s], k.cor) ELSE k.conv[s]
    IN  IF s = 1 THEN Negate(w) ELSE w

\* A server evaluates a key: convert, the correction if its bit is set, the sign.
EvalWord(s, k) ==
    LET w == IF k.bit[s] = 1 THEN Add(k.conv[s], k.cor) ELSE k.conv[s]
    IN  IF s = 1 THEN Negate(w) ELSE w

\* gen_cor_word's word.
CorWord(v, conv, bit) ==
    LET w == Add(PairSub(v, conv[0]), conv[1])
    IN  IF bit[1] = 1 THEN Negate(w) ELSE w

\* MUTANT of Opened: the sum is not reduced.
OpenedLazy(x, y) == AddLazy(x, y)

\* keep_values, Result and cor: both servers' shares, added from zero.
Opened(x, y) == Add(Add(0, x), y)

\* MUTANT of Verified: the sum is not reduced.
VerifiedLazy(x, y) == AddLazy(x, y)

\* verify: one share, with the other added to it.
Verified(x, y) == Add(x, y)

-----------------------------------------------------------------------------

None == << >>
Zeros == [s \in Server |-> 0]

\* Shares from the sketch and of the MAC key; the rest is drawn, eight elements
\* for each of the check's products.
Inputs == [r_x : [Server -> Elem], mac : [Server -> Elem], r2_x : [Server -> Elem],
           tape : Tapes]

Init == /\ type \in Type
        /\ clients = 0
        /\ keys = None
        /\ word = Zeros
        /\ acc = Zeros
        /\ out = None
        /\ want = 0
        /\ \/ phase = "node" /\ check = None
           \/ phase = "check" /\ check \in Inputs
           \/ phase = "registers" /\ type = "FE" /\ check = None
        /\ FEInit

\* A client's key on alpha's path: the servers' bits differ.
GenOnPath ==
    /\ phase = "node"
    /\ clients < NClients
    /\ \E v \in Elem, conv \in [Server -> Elem], b \in {0, 1} :
          LET bit == [s \in Server |-> IF s = 1 THEN b ELSE 1 - b]
          IN  /\ keys' = [conv |-> conv, bit |-> bit, cor |-> CorWord(v, conv, bit)]
              /\ want' = (want + v) % Order
    /\ phase' = "key"
    /\ UNCHANGED <<type, clients, word, acc, check, out>>

\* Off the path their states are equal, and the correction word is any.
GenOffPath ==
    /\ phase = "node"
    /\ clients < NClients
    /\ \E c \in Elem, b \in {0, 1}, cor \in Elem \cup {Negate(0)} :
          keys' = [conv |-> [s \in Server |-> c], bit |-> [s \in Server |-> b], cor |-> cor]
    /\ phase' = "key"
    /\ UNCHANGED <<type, clients, word, acc, check, out, want>>

EvalBit == /\ phase = "key"
           /\ word' = [s \in Server |-> EvalWord(s, keys)]
           /\ keys' = None
           /\ phase' = "word"
           /\ UNCHANGED <<type, clients, acc, check, out, want>>

\* make_tree_node: add_lazy over the clients' words ...
AddToNode == /\ phase = "word"
             /\ acc' = [s \in Server |-> AddLazy(acc[s], word[s])]
             /\ word' = Zeros
             /\ clients' = clients + 1
             /\ phase' = "node"
             /\ UNCHANGED <<type, keys, check, out, want>>

\* ... then reduce; and keep_values adds the two servers'.
KeepValues == /\ phase = "node"
              /\ clients = NClients
              /\ acc' = [s \in Server |-> Reduce(acc[s])]
              /\ out' = Opened(acc'[0], acc'[1])
              /\ phase' = "counted"
              /\ UNCHANGED <<type, clients, keys, word, check, want>>

-----------------------------------------------------------------------------
(* The check's three products x*y - z, each with a triple (mpc.rs). *)

Check == 1..3
Tape(i, n) == check.tape[8 * (i - 1) + n] % Order
Drawn(i, n) == [s \in Server |-> Tape(i, n + s)]

MulState == [xs |-> <<check.r_x, check.mac, check.r_x>>,
             ys |-> <<check.r_x, check.mac, check.mac>>,
             zs |-> <<check.r2_x, Drawn(2, 6), Drawn(3, 6)>>,
             rs |-> <<Tape(1, 5), Tape(2, 5), Tape(3, 5)>>]

Triple(i) ==
    LET a == Drawn(i, 0)
        b == Drawn(i, 2)
        c == Mul(Add(a[0], a[1]), Add(b[0], b[1]))
        c0 == Tape(i, 4)
    IN  [a |-> a, b |-> b, c |-> [s \in Server |-> IF s = 0 THEN c0 ELSE Sub(c, c0)]]

Opening(x, mask) == Opened(Sub(x[0], mask[0]), Sub(x[1], mask[1]))

\* A product's part of out_share, in lazy operations; zs was negated in new.
OutTerm(s, i) ==
    LET t == Triple(i)
        d == Opening(MulState.xs[i], t.a)
        e == Opening(MulState.ys[i], t.b)
        de == IF s = 1 THEN AddLazy(0, MulLazy(d, e)) ELSE 0
        db == AddLazy(de, MulLazy(d, t.b[s]))
        ea == AddLazy(db, MulLazy(e, t.a[s]))
        term == AddLazy(AddLazy(ea, t.c[s]), Negate(MulState.zs[i][s]))
    IN  MulLazy(term, MulState.rs[i])

OutShare(s) ==
    Reduce(AddLazy(AddLazy(AddLazy(0, OutTerm(s, 1)), OutTerm(s, 2)), OutTerm(s, 3)))

\* Ghost: a product of the check, in exact arithmetic.
Product(i) ==
    LET x == MulState.xs[i]
        y == MulState.ys[i]
        z == MulState.zs[i]
    IN  ((x[0] + x[1]) * (y[0] + y[1]) - (z[0] + z[1])) * MulState.rs[i]

OutShares == /\ phase = "check"
             /\ acc' = [s \in Server |-> OutShare(s)]
             /\ phase' = "answered"
             /\ UNCHANGED <<type, clients, keys, word, check, out, want>>

Verify == /\ phase = "answered"
          /\ out' = Verified(acc[0], acc[1])
          /\ want' = (Product(1) + Product(2) + Product(3)) % Order
          /\ phase' = "verified"
          /\ UNCHANGED <<type, clients, keys, word, acc, check>>

Finished == phase \in {"counted", "verified"} /\ UNCHANGED jobVars

JobNext == \/ GenOnPath \/ GenOffPath \/ EvalBit \/ AddToNode \/ KeepValues
           \/ OutShares \/ Verify \/ Finished

Next == \/ JobNext /\ UNCHANGED feVars
        \/ phase = "registers" /\ FENext /\ UNCHANGED jobVars

Spec == Init /\ [][Next]_vars

-----------------------------------------------------------------------------

\* What may be stored in a word.
Raw == CASE type = "FE"       -> 0..FE_VAL_MAX
         [] type = "u64"      -> 0..(Modulus - 1)
         [] type = "FieldElm" -> 0..Modulus

\* What cor_share and new compute of a server's shares on the way.
Differences(s) ==
    UNION {{Sub(MulState.xs[i][s], Triple(i).a[s]), Sub(MulState.ys[i][s], Triple(i).b[s]),
            Triple(i).c[s], Negate(MulState.zs[i][s])} : i \in Check}

(* In these orders no BigUint goes below zero, though words equal to the modulus
   are negated again and shares are subtracted from each other; a u64 stays below
   its modulus (the debug_asserts of field.rs), an FE within its range, and a
   node's sum of unreduced words within one modulus for each client
   (make_tree_node's add_lazy). *)
RawInRange ==
    /\ keys = None \/ keys \in [conv : [Server -> Elem], bit : [Server -> {0, 1}], cor : Raw]
    /\ word \in [Server -> Raw]
    /\ \A s \in Server : IF type = "FieldElm" THEN acc[s] \in 0..(NClients * Modulus)
                                              ELSE acc[s] \in Raw
    /\ phase = "check" => \A s \in Server : Differences(s) \subseteq Raw

(* The value that the leader compares with the threshold is the canonical
   count, though words equal to the modulus and unreduced sums went into it
   (dpf.rs gen_cor_word and eval_bit, collect.rs make_tree_node, keep_values;
   FieldElm's Ord compares the integers). *)
CountCanonical == phase = "counted" => Compared(out) = want

(* verify compares with zero, a FieldElm structurally: it accepts exactly when
   the exact sum of the products, each times its random factor, is zero (mpc.rs
   out_share and verify). *)
ZeroRecognized == phase = "verified" => (Compared(out) = 0 <=> want = 0)
=============================================================================
