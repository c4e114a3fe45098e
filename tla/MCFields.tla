------------------------------ MODULE MCFields ------------------------------
(* Fields with a few tapes for the random elements of the check. *)
EXTENDS Fields

MCTapes == {[n \in 0..23 |-> (m * n * n * n + 3 * n + m) % 59] : m \in {1, 2, 4}}
=============================================================================
