-------------------------- MODULE CollectorServer --------------------------
(***************************************************************************)
(* The RPC handlers of a server (src/src/bin/server.rs).  All connections  *)
(* share one KeyCollection and two multiplication states, each behind a    *)
(* std Mutex; a handler holds the lock of the collection from its first    *)
(* line to its last, so each is one step.  A handler that panics answers   *)
(* nothing and poisons the locks it holds; a poisoned lock makes every     *)
(* later lock().unwrap() panic.                                            *)
(*                                                                         *)
(* A multiplication state (src/src/mpc.rs ManyMulState) has one entry per  *)
(* key of a sketch batch.  Its sketch is kept as what it is a linear       *)
(* function of, and the correction shares and output shares as what they   *)
(* are computed from; Verify says when a check over a field accepts: the   *)
(* two servers worked from the same key, level and frontier, each from the *)
(* state that was opened, and the key is 1 at one frontier node at most.   *)
(* A check that should fail is taken to fail (the code fails all but one   *)
(* in the field's order).                                                  *)
(***************************************************************************)
EXTENDS KeyCollection

\* Which mutexes: the collection's, and the two multiplication states'.
Lock == {"arc", "arc_mul", "arc_mul_last"}
MulLock(last) == IF last THEN "arc_mul_last" ELSE "arc_mul"

NewServer == [coll |-> NewCollection, mul |-> << >>, mulLast |-> << >>, poisoned |-> {}]

\* MUTANT of Mul: the last level answers from the inner levels' state.
MulInner(srv, last) == srv.mul

Mul(srv, last) == IF last THEN srv.mulLast ELSE srv.mul

SetMul(srv, last, states) ==
    IF last THEN [srv EXCEPT !.mulLast = states] ELSE [srv EXCEPT !.mul = states]

\* A handler's outcome: the server it leaves and its replies (none: a panic).
Replies(srv, value) == [srv |-> srv, reply |-> <<value>>]
Panics(srv, held) == [srv |-> [srv EXCEPT !.poisoned = @ \cup held], reply |-> << >>]

-----------------------------------------------------------------------------

\* A handler that takes the collection's lock and may panic holding it.
UnderLock(srv, bad, coll, value) ==
    IF "arc" \in srv.poisoned \/ bad THEN Panics(srv, {"arc"})
                                     ELSE Replies([srv EXCEPT !.coll = coll], value)

\* MUTANT of HandleReset: the keys stay.
HandleResetKeepsKeys(srv) ==
    Replies([srv EXCEPT !.coll.frontier = << >>, !.mul = << >>, !.mulLast = << >>], "Done")

\* The collection is replaced before the other two locks are tried.
HandleReset(srv) ==
    IF "arc" \in srv.poisoned THEN Panics(srv, {})
    ELSE IF "arc_mul" \in srv.poisoned
         THEN Panics([srv EXCEPT !.coll = NewCollection], {"arc"})
    ELSE IF "arc_mul_last" \in srv.poisoned
         THEN Panics([srv EXCEPT !.coll = NewCollection, !.mul = << >>], {"arc"})
    ELSE Replies([srv EXCEPT !.coll = NewCollection, !.mul = << >>, !.mulLast = << >>], "Done")

HandleAddKeys(srv, keys) == UnderLock(srv, FALSE, AddKeys(srv.coll, keys), "")

HandleTreeInit(srv) == UnderLock(srv, FALSE, TreeInit(srv.coll), "Done")

HandleTreeCrawl(s, srv, last) ==
    LET c == TreeCrawl(s, srv.coll, last)
    IN  UnderLock(srv, TreeCrawlPanics(srv.coll, last), c, Values(FrontierOf(c, last)))

HandleTreePrune(srv, keep, last) ==
    UnderLock(srv, TreePrunePanics(srv.coll, keep, last),
              TreePrune(srv.coll, keep, last), "Done")

\* ManyMulState::new: triples[3*level ..] must exist at an inner level.
MulStates(sketches, level) ==
    [i \in DOMAIN sketches |-> [sketch |-> sketches[i], level |-> level]]

HandleTreeSketchFrontier(srv, level, start, end, last) ==
    IF \/ "arc" \in srv.poisoned
       \/ TreeSketchFrontierPanics(srv.coll, start, end, last)
       \/ ~last /\ level >= DataLen - 1
       \/ MulLock(last) \in srv.poisoned
    THEN Panics(srv, {"arc"})
    ELSE LET states == MulStates(TreeSketchFrontier(srv.coll, start, end, last),
                                 IF last THEN 0 ELSE level)
         IN  Replies(SetMul(srv, last, states), states)

\* Answered from whatever state was stored last, without the collection.
HandleTreeOutShares(srv, cor, last) ==
    LET states == Mul(srv, last)
    IN  IF MulLock(last) \in srv.poisoned \/ Len(cor) < Len(states)
        THEN Panics(srv, {MulLock(last)})
        ELSE Replies(srv, [i \in DOMAIN states |-> [state |-> states[i], cor |-> cor[i]]])

HandleFinalShares(srv) == UnderLock(srv, FALSE, srv.coll, FinalShares(srv.coll))

Handle(s, srv, req) ==
    CASE req.op = "reset"                -> HandleReset(srv)
      [] req.op = "add_keys"             -> HandleAddKeys(srv, req.keys)
      [] req.op = "tree_init"            -> HandleTreeInit(srv)
      [] req.op = "tree_crawl"           -> HandleTreeCrawl(s, srv, req.last)
      [] req.op = "tree_prune"           -> HandleTreePrune(srv, req.keep, req.last)
      [] req.op = "tree_sketch_frontier" ->
             HandleTreeSketchFrontier(srv, req.level, req.start, req.end, req.last)
      [] req.op = "tree_out_shares"      -> HandleTreeOutShares(srv, req.cor, req.last)
      [] req.op = "final_shares"         -> HandleFinalShares(srv)

-----------------------------------------------------------------------------
(* The leader's side of the check (ManyMulState::cors and ::verify). *)

Cors(shares0, shares1) == [i \in DOMAIN shares0 |-> <<shares0[i], shares1[i]>>]

\* The sketched vector is zero, or one at a single node.
IsUnit(sketch) ==
    \A i, j \in DOMAIN sketch.paths :
        Holds(sketch.key.bits, sketch.paths[i]) /\ Holds(sketch.key.bits, sketch.paths[j])
            => i = j

Accepts(out0, out1) ==
    /\ out0.state = out1.state
    /\ out0.cor = <<out0.state, out1.state>>
    /\ out1.cor = out0.cor
    /\ IsUnit(out0.state.sketch)

Verify(outs0, outs1) == [i \in DOMAIN outs0 |-> Accepts(outs0[i], outs1[i])]
=============================================================================
