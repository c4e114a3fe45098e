----------------------------- MODULE PrefixTree -----------------------------
(***************************************************************************)
(* The search the two servers perform together, with the secret sharing    *)
(* taken away: a frontier of prefixes is extended by one bit (crawl) and   *)
(* cut down to the prefixes that enough strings start with (prune), level  *)
(* by level, until whole strings are left.  CollectorSystem is shown to    *)
(* implement it at each server.                                            *)
(***************************************************************************)
EXTENDS Votes

CONSTANTS NClients,     \* requests the leader sends (its -n argument)
          Threshold     \* the count a prefix needs to survive a prune

ASSUME NClientsAssumption == NClients \in Nat
ASSUME ThresholdAssumption == Threshold \in Nat \ {0}

VARIABLES votes,     \* the strings whose keys the collection holds
          phase,     \* "collect", "pruned", "crawled" or "done"
          level,     \* bits of every prefix in the frontier
          frontier   \* the prefixes still alive

vars == <<votes, phase, level, frontier>>

TypeOK == /\ votes \in Seq(BitString)
          /\ phase \in {"collect", "pruned", "crawled", "done"}
          /\ level \in 0..DataLen
          /\ frontier \in SUBSET BitPath(level)

-----------------------------------------------------------------------------

Init == /\ votes = << >>
        /\ phase = "collect"
        /\ level = 0
        /\ frontier = {}

\* add_keys: a batch of clients' keys is stored.
AddKeys == /\ phase = "collect"
           /\ \E n \in 1..(NClients - Len(votes)) :
                 \E b \in [1..n -> BitString] : votes' = votes \o b
           /\ UNCHANGED <<phase, level, frontier>>

\* tree_init: the frontier is the root alone.
TreeInit == /\ phase = "collect"
            /\ phase' = "pruned"
            /\ level' = 0
            /\ frontier' = {<< >>}
            /\ UNCHANGED votes

\* MUTANT of Children: a crawl that keeps the parents.
ChildrenAndParents == frontier \cup {Append(p, b) : p \in frontier, b \in BOOLEAN}

Children == {Append(p, b) : p \in frontier, b \in BOOLEAN}

\* MUTANT of Survivors: above the threshold, not at it.
SurvivorsAbove == {p \in frontier : Count(votes, p) > Threshold}

\* MUTANT of Survivors: off by one below the threshold.
SurvivorsBelow == {p \in frontier : Count(votes, p) + 1 >= Threshold}

Survivors == {p \in frontier : Count(votes, p) >= Threshold}

\* tree_crawl and tree_crawl_last: both children of every node.
Crawl == /\ phase = "pruned"
         /\ level < DataLen
         /\ phase' = "crawled"
         /\ level' = level + 1
         /\ frontier' = Children
         /\ UNCHANGED votes

\* keep_values and tree_prune: nodes below the threshold go.
Prune == /\ phase = "crawled"
         /\ phase' = IF level = DataLen THEN "done" ELSE "pruned"
         /\ frontier' = Survivors
         /\ UNCHANGED <<votes, level>>

\* reset: the collection is replaced by an empty one.
Reset == /\ votes' = << >>
         /\ phase' = "collect"
         /\ level' = 0
         /\ frontier' = {}

Next == AddKeys \/ TreeInit \/ Crawl \/ Prune \/ Reset

Spec == Init /\ [][Next]_vars

-----------------------------------------------------------------------------
(* Nothing heavy is ever cut: in the search, every prefix of the frontier's
   length that enough strings start with is in the frontier
   (collect.rs tree_prune drops a node only for being light). *)
NoHeavyLost == phase # "collect" =>
    \A p \in BitPath(level) : Count(votes, p) >= Threshold => p \in frontier

(* The frontier that leaves a prune is a full answer one level up: it has at
   most as many nodes as there are strings to share among them, so the work
   per level is bounded by the threshold (collect.rs keep_values). *)
FrontierBounded == phase \in {"pruned", "done"} /\ level > 0 =>
    Cardinality(frontier) * Threshold <= Len(votes)

\* What a leader publishes when the search is done.
Published == IF phase = "done" THEN << frontier >> ELSE << >>

HH == INSTANCE HeavyHitters WITH output <- Published

(* The search implements the promise: what is left at the last level is the
   set of strings that at least Threshold of the collected ones equal. *)
ImplementsHeavyHitters == HH!HSpec
=============================================================================
