----------------------------- MODULE LocalDriver -----------------------------
(***************************************************************************)
(* The single-process driver (src/src/main.rs): both collections in one    *)
(* program, FE at every level, the sketch results applied to the keys      *)
(* instead of asserted.  One thread, so a step is one call pair of main.   *)
(***************************************************************************)
EXTENDS CollectorServer

CONSTANTS NClients,     \* main's argument
          Threshold     \* 2 in main

ASSUME DriverAssumption == /\ NClients \in Nat \ {0} /\ Threshold \in Nat \ {0}
                           /\ Cardinality(Site) \in Nat \ {0} /\ Site = 1..Cardinality(Site)
                           /\ NClients < Modulus

VARIABLES strings,   \* client_strings' keys
          col,       \* [Server -> collection]: col0 and col1
          pc,        \* main's next step
          level,
          vals       \* [Server -> values of the last crawl]

vars == <<strings, col, pc, level, vals>>

Init == /\ strings \in {k \in [Site -> Key] : \A x \in Site : k[x].site = x}
        /\ col = [s \in Server |-> NewCollection]
        /\ pc = "load"
        /\ level = 0
        /\ vals = [s \in Server |-> << >>]

\* i % keys.len(), counted from one.
ClientKeys(s) == [i \in 1..NClients |-> strings[((i - 1) % Cardinality(Site)) + 1]]

\* add_key for every client, then tree_init.
Load == /\ pc = "load"
        /\ pc' = "crawl"
        /\ col' = [s \in Server |-> TreeInit(AddKeys(col[s], ClientKeys(s)))]
        /\ UNCHANGED <<strings, level, vals>>

\* The loop runs over all of 0..strlen with the inner-level crawl.
Crawl == /\ pc = "crawl"
         /\ IF \E s \in Server : TreeCrawlPanics(col[s], FALSE)
            THEN pc' = "panicked" /\ UNCHANGED <<col, vals>>
            ELSE /\ pc' = "sketch"
                 /\ col' = [s \in Server |-> TreeCrawl(s, col[s], FALSE)]
                 /\ vals' = [s \in Server |-> Values(col'[s].frontier)]
         /\ UNCHANGED <<strings, level>>

\* verify_sketches' outcome for keys 0 .. col0.keys.len().
Sketched(s) == MulStates(TreeSketchFrontier(col[s], 0, Len(col[0].keys), FALSE), level)
OutShares(s) == [i \in DOMAIN Sketched(s) |->
                    [state |-> Sketched(s)[i], cor |-> Cors(Sketched(0), Sketched(1))[i]]]
Outcome == Verify(OutShares(0), OutShares(1))

\* MulState::new finds three triples of its own for an inner level only.
Sketch == /\ pc = "sketch"
          /\ IF \/ \E s \in Server :
                      TreeSketchFrontierPanics(col[s], 0, Len(col[0].keys), FALSE)
                \/ level >= DataLen - 1
             THEN pc' = "panicked" /\ UNCHANGED col
             ELSE /\ pc' = "prune"
                  /\ col' = [s \in Server |-> ApplySketchResults(col[s], Outcome)]
          /\ UNCHANGED <<strings, level, vals>>

\* The values are those of the crawl, from before the results were applied.
Prune == /\ pc = "prune"
         /\ LET keep == KeepValues(Threshold, vals[0], vals[1])
            IN  col' = [s \in Server |-> TreePrune(col[s], keep, FALSE)]
         /\ level' = level + 1
         /\ pc' = IF level + 1 < DataLen THEN "crawl" ELSE "done"
         /\ UNCHANGED <<strings, vals>>

Stopped == pc \in {"panicked", "done"} /\ UNCHANGED vars

Next == Load \/ Crawl \/ Sketch \/ Prune \/ Stopped

Spec == Init /\ [][Next]_vars

-----------------------------------------------------------------------------

ClientStrings == [i \in 1..NClients |-> ClientKeys(0)[i].bits]

(* Both collections judge every key alike and drop none that is honest: the
   results of the joint check are applied twice, by index (collect.rs
   apply_sketch_results). *)
NobodyDropped == \A s \in Server :
    /\ Len(col[s].keys) = Len(col[0].keys)
    /\ \A i \in DOMAIN col[s].keys : col[s].keys[i].alive

(* While there are inner levels, what survives a prune is what enough clients
   start with, in both collections (collect.rs keep_values, tree_prune). *)
LocalSearchExact == pc = "crawl" /\ level > 0 => \A s \in Server :
    Range(Paths(col[s].frontier))
        = {p \in BitPath(level) : Count(ClientStrings, p) >= Threshold}

(* debug_assert!((level + 1) * TRIPLES_PER_LEVEL <= triples.len()), mpc.rs
   MulState::new: gen made that many triples for each inner level. *)
TriplesSuffice == pc = "sketch" => (level + 1) * 3 <= 3 * (DataLen - 1)
=============================================================================
