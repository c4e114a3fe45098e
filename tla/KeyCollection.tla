--------------------------- MODULE KeyCollection ---------------------------
(***************************************************************************)
(* One server's KeyCollection (src/src/collect.rs): the client keys it     *)
(* holds and the two frontiers of its prefix tree.  Every method is an     *)
(* operator on the record, beside a predicate that says when it panics.    *)
(*                                                                         *)
(* A client key is modelled by the pair of shares it was generated with:   *)
(* [site, bits].  The server's share of the value at a prefix is Mask at   *)
(* server 0 and "1 on the prefixes of bits, 0 elsewhere" minus Mask at     *)
(* server 1, modulo Modulus: what Dpf shows of eval_bit.  The element      *)
(* types T (inner levels) and U (last level) share this one field.         *)
(***************************************************************************)
EXTENDS Votes, SequencesExt

CONSTANTS Site,          \* identities of generated key pairs
          Modulus,       \* order of the field the shares live in
          Mask(_, _)     \* server 0's share for a site's key at a prefix

ASSUME ModulusAssumption == Modulus \in Nat \ {0, 1}
ASSUME MaskAssumption == \A x \in Site, n \in 0..DataLen : \A p \in BitPath(n) : Mask(x, p) \in Int

Server == {0, 1}
Key == [site : Site, bits : BitString]

Holds(bits, p) == \A j \in DOMAIN p : bits[j] = p[j]

\* MUTANT of EvalShare: server 1 does not negate its word.
EvalShareNotNegated(s, key, p) ==
    IF s = 0 THEN Mask(key.site, p)
             ELSE ((IF Holds(key.bits, p) THEN 1 ELSE 0) + Mask(key.site, p)) % Modulus

\* SketchDPFKey::eval_bit and eval_bit_last, first component.
EvalShare(s, key, p) ==
    IF s = 0 THEN Mask(key.site, p)
             ELSE ((IF Holds(key.bits, p) THEN 1 ELSE 0) - Mask(key.site, p)) % Modulus

Reconstruct(v0, v1) == (v0 + v1) % Modulus

-----------------------------------------------------------------------------
(* width is the number of key_states and key_values a node was built with. *)

NewCollection == [keys |-> << >>, frontier |-> << >>, frontierLast |-> << >>]

FrontierOf(c, last) == IF last THEN c.frontierLast ELSE c.frontier
Paths(nodes) == [i \in DOMAIN nodes |-> nodes[i].path]

AddKeys(c, keys) ==
    [c EXCEPT !.keys = @ \o [i \in DOMAIN keys |-> [alive |-> TRUE, key |-> keys[i]]]]

TreeInit(c) ==
    [c EXCEPT !.frontier = <<[path |-> << >>, value |-> 0, width |-> Len(c.keys)]>>,
              !.frontierLast = << >>]

\* MUTANT of NodeValue: without child_val.reduce().
NodeValueUnreduced(s, c, p) ==
    MapThenSumSet(LAMBDA i : EvalShare(s, c.keys[i].key, p),
                  {i \in DOMAIN c.keys : c.keys[i].alive})

\* Only live keys' values are summed.
NodeValue(s, c, p) ==
    MapThenSumSet(LAMBDA i : EvalShare(s, c.keys[i].key, p),
                  {i \in DOMAIN c.keys : c.keys[i].alive}) % Modulus

\* MUTANT of MakeTreeNode: the new bit goes to the front of the path.
MakeTreeNodeFront(s, c, parent, dir) ==
    LET p == <<dir>> \o parent.path
    IN  [path |-> p, value |-> NodeValue(s, c, p), width |-> Len(c.keys)]

MakeTreeNode(s, c, parent, dir) ==
    LET p == Append(parent.path, dir)
    IN  [path |-> p, value |-> NodeValue(s, c, p), width |-> Len(c.keys)]

\* MUTANT of NextFrontier: server 1 collects the children in another order.
NextFrontierUnordered(s, c) ==
    LET n == 2 * Len(c.frontier)
    IN  [i \in 1..n |-> LET j == IF s = 1 THEN n + 1 - i ELSE i
                        IN  MakeTreeNode(s, c, c.frontier[(j + 1) \div 2], j % 2 = 0)]

\* Both children of every node, the 0 child first.
NextFrontier(s, c) ==
    [i \in 1..(2 * Len(c.frontier)) |->
        MakeTreeNode(s, c, c.frontier[(i + 1) \div 2], i % 2 = 0)]

\* A key without a state at the parent, or, but for the last level, without
\* a correction word for the bit, is an index out of bounds.
TreeCrawlPanics(c, last) ==
    \E i \in DOMAIN c.frontier :
        \/ Len(c.frontier[i].path) > DataLen
        \/ Len(c.keys) > c.frontier[i].width
        \/ ~last /\ c.keys # << >> /\ Len(c.frontier[i].path) >= DataLen - 1

TreeCrawl(s, c, last) ==
    IF last THEN [c EXCEPT !.frontierLast = NextFrontier(s, c)]
            ELSE [c EXCEPT !.frontier = NextFrontier(s, c)]

Values(nodes) == [i \in DOMAIN nodes |-> nodes[i].value]

-----------------------------------------------------------------------------
(* Keys start+1 .. end (the code's half-open start..end, from zero). *)

TreeSketchFrontierPanics(c, start, end, last) ==
    \/ start >= end
    \/ end > Len(c.keys)
    \/ \E i \in DOMAIN FrontierOf(c, last) : end > FrontierOf(c, last)[i].width

\* What a key's sketch is a linear function of: the key and the frontier.
TreeSketchFrontier(c, start, end, last) ==
    [i \in 1..(end - start) |-> [key   |-> c.keys[start + i].key,
                                 paths |-> Paths(FrontierOf(c, last))]]

\* MUTANT of ApplySketchResults: removes the keys that passed.
ApplySketchResultsInverted(c, res) ==
    [c EXCEPT !.keys =
        [i \in DOMAIN @ |-> [alive |-> @[i].alive /\ ~res[i], key |-> @[i].key]]]

ApplySketchResults(c, res) ==
    [c EXCEPT !.keys =
        [i \in DOMAIN @ |-> [alive |-> @[i].alive /\ res[i], key |-> @[i].key]]]

\* MUTANT of Pruned: stops after the first removal.
PrunedOnce(nodes, keep) ==
    LET drop == {i \in DOMAIN keep : ~keep[i]}
    IN  IF drop = {} THEN nodes ELSE RemoveAt(nodes, Max(drop))

\* From back to front, so that the indices still to come stay right.
Pruned(nodes, keep) ==
    FoldLeft(LAMBDA f, i : IF keep[i] THEN f ELSE RemoveAt(f, i),
             nodes, Reverse([i \in DOMAIN keep |-> i]))

TreePrunePanics(c, keep, last) == Len(keep) # Len(FrontierOf(c, last))

TreePrune(c, keep, last) ==
    IF last THEN [c EXCEPT !.frontierLast = Pruned(@, keep)]
            ELSE [c EXCEPT !.frontier = Pruned(@, keep)]

\* MUTANT of KeepValues: above the threshold, not at it.
KeepValuesAbove(threshold, vals0, vals1) ==
    [i \in DOMAIN vals0 |-> Reconstruct(vals0[i], vals1[i]) > threshold]

\* At the leader, from both servers' values.
KeepValues(threshold, vals0, vals1) ==
    [i \in DOMAIN vals0 |-> Reconstruct(vals0[i], vals1[i]) >= threshold]

FinalShares(c) ==
    [i \in DOMAIN c.frontierLast |-> [path  |-> c.frontierLast[i].path,
                                      value |-> c.frontierLast[i].value]]

FinalValues(res0, res1) ==
    [i \in DOMAIN res0 |-> [path  |-> res0[i].path,
                            value |-> Reconstruct(res0[i].value, res1[i].value)]]
=============================================================================
