-------------------------------- MODULE Votes --------------------------------
(***************************************************************************)
(* Clients' strings and how many of them start with given bits: the ideal  *)
(* count that every layer of the system is about.                          *)
(***************************************************************************)
EXTENDS Naturals, Sequences, FiniteSets

CONSTANT DataLen      \* bits in a client's string (config data_len)

ASSUME DataLenAssumption == DataLen \in Nat \ {0}

BitPath(n) == [1..n -> BOOLEAN]
BitString == BitPath(DataLen)

\* The positions of vs whose string starts with the bits p.
Holders(vs, p) == {i \in DOMAIN vs : \A j \in DOMAIN p : vs[i][j] = p[j]}

Count(vs, p) == Cardinality(Holders(vs, p))
=============================================================================
