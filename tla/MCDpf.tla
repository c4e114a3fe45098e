-------------------------------- MODULE MCDpf --------------------------------
(* Values for the constants of Dpf and DpfEval. *)
EXTENDS DpfEval

MCXor(x, y) == 2 * (((x \div 2) + (y \div 2)) % 2) + ((x + y) % 2)
MCExpandSeed(x, d) == (3 * x + 2 * d + 1) % 4
MCExpandBit(x, d) == ((x \div 2) + d * x) % 2
MCConvertSeed(x) == (x + 1) % 4
MCConvertWord(x) == (2 * x + 1) % 3
MCAdd(x, y) == (x + y) % 3
MCNeg(x) == (3 - x) % 3
=============================================================================
