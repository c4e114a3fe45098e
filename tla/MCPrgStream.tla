------------------------------ MODULE MCPrgStream ------------------------------
(* Values for PrgStream's constants. *)
EXTENDS PrgStream

\* Seeds that differ in the cleared bits only, and ones whose counter wraps.
MCSeeds == {[lo |-> 0, hi |-> 0], [lo |-> 3, hi |-> 0], [lo |-> 5, hi |-> 14]}

\* FE, FieldElm, a pair of each, and a type that asks for over four blocks.
MCShapes == {[draws |-> n, width |-> w] : n \in {1, 2}, w \in {1, 4}}
              \cup {[draws |-> 2, width |-> 11]}

MCRejected(byte) == byte.hi % 4 = 1 /\ byte.off = 0
=============================================================================
