----------------------- MODULE CollectorSystemProofs -----------------------
(***************************************************************************)
(* The deployment keeps every invariant that the runs of CollectorSystem   *)
(* check on small instances, and implements PrefixTree at both servers,    *)
(* for every number of clients, string length, batch size, threshold,      *)
(* number of sessions and of crashes, provided that no late request is     *)
(* served (LateDelivery is FALSE).                                         *)
(*                                                                         *)
(* IInv is the inductive invariant.  Its first part is about one server:   *)
(* its record has the shape that its place in the search asks for, and     *)
(* each request in flight to it fits that place.  Its second part is       *)
(* about the session, as long as its leader runs.  It speaks of what each  *)
(* server will have and will have answered once it has handled its         *)
(* request (Settled, Answer, Place): so it does not change when a server   *)
(* does so, and the two servers may do so in any order.                    *)
(***************************************************************************)
EXTENDS CollectorSystem, KeyCollectionProofs

\* The requests of the living session that s has not handled.
Pending(s) == {r \in net[s] : r.session = session}
Request(s) == CHOOSE r \in Pending(s) : TRUE

\* What s will have and will have answered once it has handled its request.
Outcome(s) == IF Pending(s) = {} THEN [srv |-> server[s], reply |-> replies[s]]
              ELSE Handle(s, server[s], Request(s))
Settled(s) == Outcome(s).srv
Answer(s) == Outcome(s).reply[1]
Place(s) == IF Pending(s) = {} THEN tree[s] ELSE TreeAfter(s, Request(s))

-----------------------------------------------------------------------------
(* Part one: each server on its own, whoever's requests it handles. *)

MulState == [sketch : [key : Key, paths : Seq(Seq(BOOLEAN))], level : Nat]

ServerRecord == [coll : Collection,
                 mul : Seq(MulState), mulLast : Seq(MulState), poisoned : {{}}]

TreePlace == [phase : {"collect", "pruned", "crawled", "done"}, level : 0..DataLen]

\* What the record srv of a server keeps when its tree is at place t.
Shape(srv, t) ==
    /\ srv \in ServerRecord
    /\ t \in TreePlace
    /\ Len(srv.coll.keys) <= NReqs
    /\ IF t.phase = "collect"
       THEN t.level = 0 /\ srv.coll.frontier = << >>
       ELSE LET nodes == FrontierOf(srv.coll, t.level = DataLen)
            IN  /\ IsFrontier(nodes, Paths(nodes), Len(srv.coll.keys))
                /\ Paths(nodes) \in Seq(BitPath(t.level))

VotesOf(srv) == [i \in DOMAIN srv.coll.keys |-> srv.coll.keys[i].key.bits]

\* The request r can be handled by a server with srv at place t: no index is
\* out of bounds, and it is the search's next step there.
Fits(srv, t, r) ==
    /\ r.op = "add_keys" =>
          /\ t.phase = "collect"
          /\ r.keys \in Seq(Key) /\ r.keys # << >>
          /\ Len(srv.coll.keys) + Len(r.keys) <= NReqs
    /\ r.op = "tree_init" => t.phase = "collect"
    /\ r.op = "tree_crawl" =>
          t.phase = "pruned" /\ t.level < DataLen /\ r.last = (t.level + 1 = DataLen)
    /\ r.op = "tree_sketch_frontier" =>
          /\ t.phase = "crawled" /\ r.last = (t.level = DataLen)
          /\ r.level \in Nat /\ r.level = t.level - 1
          /\ r.start \in Nat /\ r.end \in Nat /\ r.start < r.end
          /\ r.end <= Len(srv.coll.keys)
    /\ r.op = "tree_out_shares" => Len(r.cor) = Len(Mul(srv, r.last))
    /\ r.op = "tree_prune" =>
          LET nodes == FrontierOf(srv.coll, r.last)
          IN  /\ t.phase = "crawled" /\ r.last = (t.level = DataLen)
              /\ Len(r.keep) = Len(nodes) /\ DOMAIN r.keep = 1..Len(nodes)
              /\ \A i \in 1..Len(nodes) :
                    r.keep[i] <=> Count(VotesOf(srv), nodes[i].path) >= Threshold

\* A request that is not a reset is the oldest there, and the only one of its
\* session; every other is a reset.
InOrder(s) == \A r, q \in net[s] :
    r # q /\ r.op # "reset" => q.op = "reset" /\ r.session < q.session

ServerInv(s) ==
    /\ Shape(server[s], tree[s])
    /\ \A r \in net[s] : /\ r.op \in Rpc
                         /\ r.session \in 1..session
                         /\ r.op = "reset" => r = [op |-> "reset", session |-> r.session]
                         /\ Fits(server[s], tree[s], r)
    /\ InOrder(s)

-----------------------------------------------------------------------------
(* Part two: the session, as long as its leader runs. *)

Waiting == pc \in Rpc \cup {"done"}

Waits(s) == /\ Len(replies[s]) \in {0, 1}
            /\ Waiting =>
                  /\ replies[s] # << >> => net[s] = {}
                  /\ replies[s] = << >> => /\ s \notin lost /\ pc # "done"
                                           /\ \E r \in net[s] : /\ Pending(s) = {r}
                                                                /\ r.op = pc

Searching == pc \in {"tree_crawl", "tree_sketch_frontier", "tree_out_shares", "tree_prune",
                     "final_shares", "done"}

LeaderTyped == /\ session \in 1..MaxSessions
               /\ keys \in GeneratedKeys
               /\ pc \in Rpc \cup {"done", "disconnected"}
               /\ lost \subseteq Server /\ crashes \in 0..MaxCrashes
               /\ left \in 0..NReqs
               /\ level \in 0..(DataLen - 1)
               /\ start \in Nat
               /\ sent \in Seq(Key)
               /\ verified \in [1..NReqs -> Nat]

\* Where the tree of a server is once it has handled the request of pc.
PlaceAt == CASE pc \in {"reset", "add_keys"} -> [phase |-> "collect", level |-> 0]
             [] pc = "tree_init" -> [phase |-> "pruned", level |-> 0]
             [] pc \in {"tree_crawl", "tree_sketch_frontier", "tree_out_shares"} ->
                  [phase |-> "crawled", level |-> level + 1]
             [] OTHER -> [phase |-> IF LastLevel THEN "done" ELSE "pruned", level |-> level + 1]

\* The paths P of a level miss no heavy prefix and have none twice.
Complete(P) ==
    /\ P \in Seq(BitPath(level + 1))
    /\ IsInjective(P)
    /\ \A q \in BitPath(level + 1) : Count(SentVotes, q) >= Threshold => q \in Range(P)

\* The shares at the servers are shares of the counts of P.
SharesOf(v0, v1, P) ==
    /\ DOMAIN v0 = 1..Len(P) /\ DOMAIN v1 = 1..Len(P) /\ Len(v0) = Len(P) /\ Len(v1) = Len(P)
    /\ \A i \in 1..Len(P) : Reconstruct(v0[i], v1[i]) = Count(SentVotes, P[i])

\* The states of the current batch.
BatchStates(P) ==
    [i \in 1..(BatchEnd(start) - start) |->
        [sketch |-> [key |-> sent[start + i], paths |-> P],
         level |-> IF LastLevel THEN 0 ELSE level]]

BatchOuts(P) == [i \in DOMAIN BatchStates(P) |->
                   [state |-> BatchStates(P)[i], cor |-> <<BatchStates(P)[i], BatchStates(P)[i]>>]]

Nodes(s) == FrontierOf(Settled(s).coll, LastLevel)

AtPaths(P) ==
    /\ Complete(P)
    /\ \A s \in Server \ lost : Paths(Nodes(s)) = P
    /\ lost = {} => SharesOf(Values(Nodes(0)), Values(Nodes(1)), P)
    /\ pc = "tree_crawl" => SharesOf(Answer(0), Answer(1), P)
    /\ pc \in {"tree_sketch_frontier", "tree_out_shares"} =>
          /\ SharesOf(vals[0], vals[1], P)
          /\ start < NReqs
          /\ verified = [i \in 1..NReqs |-> IF i <= start THEN 1 ELSE 0]
    /\ pc = "tree_sketch_frontier" =>
          /\ \A s \in Server : Answer(s) = BatchStates(P)
          /\ \A s \in Server \ lost : Mul(Settled(s), LastLevel) = BatchStates(P)
    /\ pc = "tree_out_shares" => \A s \in Server : Answer(s) = BatchOuts(P)
    /\ pc = "tree_prune" => verified = [i \in 1..NReqs |-> 1] /\ SumsBounded
    /\ pc \in {"tree_prune", "final_shares", "done"} =>
          \A i \in 1..Len(P) : Count(SentVotes, P[i]) >= Threshold
    /\ pc \in {"final_shares", "done"} =>
          /\ LastLevel
          /\ \A s \in Server : DOMAIN Answer(s) = 1..Len(P) /\ Paths(Answer(s)) = P
          /\ SharesOf(Values(Answer(0)), Values(Answer(1)), P)

SessionInv ==
    /\ Len(sent) + left = NReqs
    /\ pc \notin {"reset", "add_keys"} => left = 0
    /\ \A s \in Server : Outcome(s).reply # << >>
    /\ \A s \in Server \ lost : /\ Settled(s).coll.keys = AliveKeys(sent)
                                /\ Place(s) = PlaceAt
    /\ pc = "tree_init" => \A s \in Server \ lost : Paths(Settled(s).coll.frontier) = << << >> >>
    /\ Searching => \E P \in Seq(BitPath(level + 1)) : AtPaths(P)

\* The variables with an entry for each server.
Tables == /\ DOMAIN server = Server /\ DOMAIN net = Server
          /\ DOMAIN replies = Server /\ DOMAIN tree = Server

IInv == /\ LeaderTyped /\ Tables
        /\ \A s \in Server : ServerInv(s) /\ Waits(s)
        /\ Waiting => SessionInv

-----------------------------------------------------------------------------
(* What the handlers do to a server, when the request fits. *)

(* A server is the record of its fields. *)
LEMMA RecordFields ==
    ASSUME NEW srv \in ServerRecord
    PROVE  /\ srv = [coll |-> srv.coll, mul |-> srv.mul, mulLast |-> srv.mulLast, poisoned |-> {}]
           /\ srv.coll \in Collection /\ srv.mul \in Seq(MulState) /\ srv.mulLast \in Seq(MulState)
           /\ srv.poisoned = {}
BY DEF ServerRecord

LEMMA WithCollection ==
    ASSUME NEW srv \in ServerRecord, NEW coll \in Collection
    PROVE  /\ [srv EXCEPT !.coll = coll] \in ServerRecord
           /\ [srv EXCEPT !.coll = coll].coll = coll
           /\ [srv EXCEPT !.coll = coll].mul = srv.mul
           /\ [srv EXCEPT !.coll = coll].mulLast = srv.mulLast
BY DEF ServerRecord

LEMMA NewServerShape == Shape(NewServer, [phase |-> "collect", level |-> 0])
<1> USE SystemAssumption, DataLenAssumption
<1>1. NewServer \in ServerRecord
  BY DEF NewServer, NewCollection, ServerRecord, Collection
<1>2. [phase |-> "collect", level |-> 0] \in TreePlace
  BY DEF TreePlace
<1>3. Len(NewServer.coll.keys) <= NReqs /\ NewServer.coll.frontier = << >>
  BY DEF NewServer, NewCollection
<1> QED BY <1>1, <1>2, <1>3 DEF Shape

(* reset leaves what a server starts with. *)
LEMMA ResetHandled ==
    ASSUME NEW s, NEW srv \in ServerRecord, NEW r, r.op = "reset"
    PROVE  Handle(s, srv, r) = [srv |-> NewServer, reply |-> <<"Done">>]
<1>1. srv.poisoned = {}
  BY DEF ServerRecord
<1>2. Handle(s, srv, r) = HandleReset(srv)
  BY DEF Handle
<1>3. [srv EXCEPT !.coll = NewCollection, !.mul = << >>, !.mulLast = << >>] = NewServer
  <2>1. [srv EXCEPT !.coll = NewCollection, !.mul = << >>, !.mulLast = << >>]
          \in [coll : {NewCollection}, mul : {<< >>}, mulLast : {<< >>}, poisoned : {{}}]
    BY DEF ServerRecord
  <2>2. \A x \in [coll : {NewCollection}, mul : {<< >>}, mulLast : {<< >>}, poisoned : {{}}] :
            x = [coll |-> NewCollection, mul |-> << >>, mulLast |-> << >>, poisoned |-> {}]
    OBVIOUS
  <2>3. [srv EXCEPT !.coll = NewCollection, !.mul = << >>, !.mulLast = << >>]
          = [coll |-> NewCollection, mul |-> << >>, mulLast |-> << >>, poisoned |-> {}]
    BY <2>1, <2>2, Zenon
  <2> QED BY <2>3 DEF NewServer
<1> QED BY <1>1, <1>2, <1>3 DEF HandleReset, Replies

\* A handler that takes the lock of a collection that nothing has poisoned.
LEMMA Unlocked ==
    ASSUME NEW srv \in ServerRecord, NEW coll, NEW value
    PROVE  UnderLock(srv, FALSE, coll, value)
             = [srv |-> [srv EXCEPT !.coll = coll], reply |-> <<value>>]
BY DEF UnderLock, Replies, ServerRecord

\* What add_keys, on a server that fits, leaves and answers.
KeysAdded(s, srv, t, r, new) ==
    /\ Handle(s, srv, r) = [srv |-> new, reply |-> <<"">>]
    /\ new = [srv EXCEPT !.coll = AddKeys(srv.coll, r.keys)]
    /\ new.coll.keys = srv.coll.keys \o AliveKeys(r.keys)
    /\ Shape(new, [phase |-> "collect", level |-> 0])

LEMMA AddKeysHandled ==
    ASSUME NEW s, NEW srv, NEW t, Shape(srv, t), NEW r, r.op = "add_keys", Fits(srv, t, r)
    PROVE  \E new : KeysAdded(s, srv, t, r, new)
<1> USE SystemAssumption, DataLenAssumption
<1>1. srv \in ServerRecord /\ srv.coll.frontier = << >>
  BY DEF Shape, Fits
<1>2. PICK new : new = [srv EXCEPT !.coll = AddKeys(srv.coll, r.keys)]
  OBVIOUS
<1>3. Handle(s, srv, r) = [srv |-> new, reply |-> <<"">>]
  <2>1. Handle(s, srv, r) = HandleAddKeys(srv, r.keys)
    BY DEF Handle
  <2>2. PICK coll : coll = AddKeys(srv.coll, r.keys)
    OBVIOUS
  <2>3. UnderLock(srv, FALSE, coll, "") = [srv |-> [srv EXCEPT !.coll = coll], reply |-> <<"">>]
    BY <1>1, Unlocked, Zenon
  <2> QED BY <1>2, <2>1, <2>2, <2>3, Zenon DEF HandleAddKeys
<1>4. PICK more : more = AliveKeys(r.keys)
  OBVIOUS
<1>5. more \in Seq(StoredKey) /\ Len(more) = Len(r.keys)
  <2>1. r.keys \in Seq(Key)
    BY DEF Fits
  <2>2. PICK n \in Nat : n = Len(r.keys) /\ DOMAIN r.keys = 1..n
    BY <2>1, LenProperties
  <2>3. more = [i \in 1..n |-> [alive |-> TRUE, key |-> r.keys[i]]]
    BY <1>4, <2>2 DEF AliveKeys
  <2>4. \A i \in 1..n : r.keys[i] \in Key
    BY <2>1, <2>2, ElementOfSeq
  <2>5. more \in [1..n -> StoredKey]
    BY <2>3, <2>4 DEF StoredKey
  <2>6. more \in Seq(StoredKey)
    BY <2>5
  <2>7. Len(more) = n
    BY <2>3
  <2> QED BY <2>2, <2>6, <2>7
<1>6. PICK c : c = srv.coll /\ c \in Collection /\ c.frontier = << >>
  BY <1>1, RecordFields
<1>7. c.keys \in Seq(StoredKey)
  BY <1>6, CollectionFields
<1>8. PICK ks : ks = c.keys \o more
  OBVIOUS
<1>9. ks \in Seq(StoredKey) /\ Len(ks) = Len(c.keys) + Len(r.keys)
  <2>1. Len(ks) = Len(c.keys) + Len(more) /\ ks \in Seq(StoredKey)
    <3>1. PICK a : a = c.keys
      OBVIOUS
    <3>2. a \in Seq(StoredKey) /\ more \in Seq(StoredKey)
      BY <1>5, <1>7, <3>1
    <3>3. a \o more \in Seq(StoredKey) /\ Len(a \o more) = Len(a) + Len(more)
      BY <3>2, ConcatProperties
    <3> QED BY <1>8, <3>1, <3>3
  <2> QED BY <1>5, <2>1
<1>10. AddKeys(c, r.keys) = [keys |-> ks, frontier |-> << >>, frontierLast |-> c.frontierLast]
  <2>1. c = [keys |-> c.keys, frontier |-> << >>, frontierLast |-> c.frontierLast]
    BY <1>6, CollectionFields
  <2>2. AddKeys(c, r.keys) = [c EXCEPT !.keys = ks]
    BY <1>4, <1>8, <2>1 DEF AddKeys, AliveKeys
  <2> QED BY <2>1, <2>2
<1>11. AddKeys(c, r.keys) \in Collection
  BY <1>6, <1>9, <1>10, CollectionFields DEF Collection
<1>12. /\ new \in ServerRecord /\ new.coll.keys = srv.coll.keys \o more
       /\ new.coll.frontier = << >>
  <2>1. new \in ServerRecord /\ new.coll = AddKeys(c, r.keys)
    BY <1>1, <1>2, <1>6, <1>11, WithCollection
  <2> QED BY <1>6, <1>8, <1>10, <2>1
<1>13. Len(new.coll.keys) <= NReqs
  BY <1>6, <1>8, <1>9, <1>12 DEF Fits
<1>14. Shape(new, [phase |-> "collect", level |-> 0])
  BY <1>12, <1>13 DEF Shape, TreePlace
<1>15. KeysAdded(s, srv, t, r, new)
  BY <1>2, <1>3, <1>4, <1>12, <1>14, Zenon DEF KeysAdded
<1> QED BY <1>15

\* The same of tree_init.
TreeStarted(s, srv, t, r, new) ==
    /\ Handle(s, srv, r) = [srv |-> new, reply |-> <<"Done">>]
    /\ new = [srv EXCEPT !.coll = TreeInit(srv.coll)]
    /\ new.coll.keys = srv.coll.keys
    /\ Paths(new.coll.frontier) = << << >> >>
    /\ Shape(new, [phase |-> "pruned", level |-> 0])

LEMMA TreeInitHandled ==
    ASSUME NEW s, NEW srv, NEW t, Shape(srv, t), NEW r, r.op = "tree_init", Fits(srv, t, r)
    PROVE  \E new : TreeStarted(s, srv, t, r, new)
<1> USE SystemAssumption, DataLenAssumption
<1>1. srv \in ServerRecord /\ Len(srv.coll.keys) <= NReqs
  BY DEF Shape, Fits
<1>2. PICK new : new = [srv EXCEPT !.coll = TreeInit(srv.coll)]
  OBVIOUS
<1>3. Handle(s, srv, r) = [srv |-> new, reply |-> <<"Done">>]
  BY <1>1, <1>2, Unlocked DEF Handle, HandleTreeInit
<1>4. PICK w \in Nat : w = Len(srv.coll.keys)
  BY <1>1, RecordFields, CollectionFields, LenProperties
<1>5. PICK root : root = <<[path |-> << >>, value |-> 0, width |-> w]>>
  OBVIOUS
<1>6. /\ IsFrontier(root, << << >> >>, w) /\ << << >> >> \in Seq(BitPath(0))
  BY <1>5, RootFrontier
<1>7. root \in Seq(TreeNode)
  BY <1>6 DEF IsFrontier
<1>8. /\ new \in ServerRecord /\ new.coll.keys = srv.coll.keys /\ new.coll.frontier = root
  <2>1. PICK c : c = srv.coll /\ c \in Collection
    BY <1>1, RecordFields
  <2>2. TreeInit(c) = [keys |-> c.keys, frontier |-> root, frontierLast |-> << >>]
    <3>1. TreeInit(c) = [c EXCEPT !.frontier = root, !.frontierLast = << >>]
      BY <1>4, <1>5, <2>1 DEF TreeInit
    <3>2. TreeInit(c) \in [keys : {c.keys}, frontier : {root}, frontierLast : {<< >>}]
      BY <2>1, <3>1 DEF Collection
    <3> QED BY <3>2
  <2>3. TreeInit(c) \in Collection
    BY <1>7, <2>1, <2>2, CollectionFields DEF Collection
  <2>4. new \in ServerRecord /\ new.coll = TreeInit(c)
    BY <1>1, <1>2, <2>1, <2>3, WithCollection
  <2> QED BY <2>1, <2>2, <2>4
<1>9. Paths(root) = << << >> >>
  <2>1. DOMAIN root = {1} /\ root[1].path = << >>
    BY <1>5
  <2>2. Paths(root) = [i \in {1} |-> << >>]
    BY <2>1 DEF Paths
  <2>3. << << >> >> = [i \in {1} |-> << >>]
    OBVIOUS
  <2> QED BY <2>2, <2>3
<1>10. PICK t1 : t1 = [phase |-> "pruned", level |-> 0]
  OBVIOUS
<1>11. t1 \in TreePlace /\ t1.level = 0 /\ t1.level # DataLen /\ t1.phase # "collect"
  BY <1>10 DEF TreePlace
<1>12. FrontierOf(new.coll, t1.level = DataLen) = root
  BY <1>8, <1>11 DEF FrontierOf
<1>13. Shape(new, t1)
  BY <1>1, <1>4, <1>6, <1>8, <1>9, <1>11, <1>12 DEF Shape
<1>14. TreeStarted(s, srv, t, r, new)
  BY <1>2, <1>3, <1>8, <1>9, <1>10, <1>13 DEF TreeStarted
<1> QED BY <1>14

\* Of tree_crawl from a frontier at the paths P.
Crawled(s, srv, t, r, P, new) ==
    /\ Handle(s, srv, r) = [srv   |-> new,
                            reply |-> <<Values(FrontierOf(new.coll, r.last))>>]
    /\ new.coll.keys = srv.coll.keys
    /\ P \in Seq(BitPath(t.level))
    /\ IsFrontier(FrontierOf(new.coll, r.last), ChildPaths(P), Len(srv.coll.keys))
    /\ \A i \in 1..Len(ChildPaths(P)) :
          FrontierOf(new.coll, r.last)[i].value
            = NodeValue(s, srv.coll, ChildPaths(P)[i])
    /\ Shape(new, [phase |-> "crawled", level |-> t.level + 1])

LEMMA CrawlHandled ==
    ASSUME NEW s \in Server, NEW srv, NEW t, Shape(srv, t), NEW r, r.op = "tree_crawl",
           Fits(srv, t, r), NEW P, P = Paths(srv.coll.frontier)
    PROVE  \E new : Crawled(s, srv, t, r, P, new)
<1> USE SystemAssumption, DataLenAssumption
<1>1. srv \in ServerRecord /\ Len(srv.coll.keys) <= NReqs
  BY DEF Shape
<1>2. /\ t \in TreePlace /\ t.phase # "collect" /\ t.level \in 0..(DataLen - 1)
      /\ r.last = (t.level + 1 = DataLen)
  BY DEF Shape, Fits, TreePlace
<1>3. PICK c : c = srv.coll /\ c \in Collection
  BY <1>1, RecordFields
<1>4. PICK w \in Nat : w = Len(c.keys)
  BY <1>3, CollectionFields, LenProperties
<1>5. FrontierOf(c, t.level = DataLen) = c.frontier
  BY <1>2 DEF FrontierOf
<1>6. IsFrontier(c.frontier, P, w) /\ P \in Seq(BitPath(t.level))
  BY <1>2, <1>3, <1>4, <1>5 DEF Shape
<1>7. ~TreeCrawlPanics(c, r.last)
  <2> SUFFICES ASSUME NEW i \in DOMAIN c.frontier
               PROVE  /\ Len(c.frontier[i].path) <= DataLen /\ w <= c.frontier[i].width
                      /\ r.last \/ Len(c.frontier[i].path) < DataLen - 1
    <3>1. \A i \in DOMAIN c.frontier : /\ ~(Len(c.frontier[i].path) > DataLen)
                                       /\ ~(Len(c.keys) > c.frontier[i].width)
                                       /\ r.last \/ ~(Len(c.frontier[i].path) >= DataLen - 1)
      <4>1. \A i \in DOMAIN c.frontier : /\ Len(c.frontier[i].path) \in Int
                                         /\ c.frontier[i].width \in Int
        <5>1. DOMAIN c.frontier = 1..Len(P) /\ Len(P) \in Nat /\ c.frontier \in Seq(TreeNode)
              /\ Len(c.frontier) = Len(P)
          BY <1>6, FrontierParts DEF IsFrontier
        <5>2. ASSUME NEW i \in DOMAIN c.frontier PROVE c.frontier[i] \in TreeNode
          BY <5>1, ElementOfSeq
        <5> QED BY <5>2, LenProperties DEF TreeNode
      <4> QED BY <1>4, <4>1
    <3> QED BY <3>1 DEF TreeCrawlPanics
  <2>1. DOMAIN c.frontier = 1..Len(P)
    BY <1>6, FrontierParts
  <2>2. c.frontier[i].path = P[i] /\ c.frontier[i].width = w
    BY <1>6, <2>1 DEF IsFrontier
  <2>3. P[i] \in BitPath(t.level)
    BY <1>6, <2>1, ElementOfSeq
  <2>4. Len(P[i]) = t.level
    BY <1>2, <2>3, PathTyped
  <2>5. r.last \/ t.level + 1 # DataLen
    BY <1>2
  <2>6. t.level <= DataLen /\ (t.level + 1 # DataLen => t.level < DataLen - 1) /\ w <= w
    BY <1>2
  <2> QED BY <2>2, <2>4, <2>5, <2>6
<1>8. PICK N : N = NextFrontier(s, c)
  OBVIOUS
<1>9. PICK C : C = ChildPaths(P)
  OBVIOUS
<1>10. /\ IsFrontier(N, C, w)
       /\ \A i \in 1..Len(C) : N[i].value = NodeValue(s, c, C[i])
  <2>1. c.keys \in Seq(StoredKey)
    BY <1>3, CollectionFields
  <2> QED BY <1>2, <1>4, <1>6, <1>8, <1>9, <2>1, NextFrontierIs
<1>11. C \in Seq(BitPath(t.level + 1))
  BY <1>2, <1>6, <1>9, ChildPathsAreChildren
<1>12. PICK d : d = TreeCrawl(s, c, r.last)
  OBVIOUS
<1>13. d \in Collection /\ d.keys = c.keys /\ FrontierOf(d, r.last) = N
  <2>1. N \in Seq(TreeNode)
    BY <1>10 DEF IsFrontier
  <2>2. CASE r.last
    <3>1. d = [c EXCEPT !.frontierLast = N]
      BY <1>8, <1>12, <2>2 DEF TreeCrawl
    <3>2. d \in Collection /\ d.keys = c.keys /\ d.frontierLast = N
      BY <1>3, <2>1, <3>1 DEF Collection
    <3> QED BY <2>2, <3>2 DEF FrontierOf
  <2>3. CASE ~r.last
    <3>1. d = [c EXCEPT !.frontier = N]
      BY <1>8, <1>12, <2>3 DEF TreeCrawl
    <3>2. d \in Collection /\ d.keys = c.keys /\ d.frontier = N
      BY <1>3, <2>1, <3>1 DEF Collection
    <3> QED BY <2>3, <3>2 DEF FrontierOf
  <2> QED BY <2>2, <2>3
<1>14. PICK new : new = [srv EXCEPT !.coll = d]
  OBVIOUS
<1>15. new \in ServerRecord /\ new.coll = d
  BY <1>1, <1>13, <1>14, WithCollection
<1>16. Handle(s, srv, r) = [srv |-> new, reply |-> <<Values(FrontierOf(d, r.last))>>]
  <2>1. Handle(s, srv, r) = HandleTreeCrawl(s, srv, r.last)
    BY DEF Handle
  <2>2. HandleTreeCrawl(s, srv, r.last)
          = UnderLock(srv, TreeCrawlPanics(c, r.last), d, Values(FrontierOf(d, r.last)))
    BY <1>3, <1>12 DEF HandleTreeCrawl
  <2>3. "arc" \notin srv.poisoned
    BY <1>1, RecordFields
  <2>4. HandleTreeCrawl(s, srv, r.last) = Replies(new, Values(FrontierOf(d, r.last)))
    BY <1>7, <1>14, <2>2, <2>3 DEF UnderLock
  <2> QED BY <2>1, <2>4 DEF Replies
<1>17. PICK t1 : t1 = [phase |-> "crawled", level |-> t.level + 1]
  OBVIOUS
<1>18. /\ t1 \in TreePlace /\ t1.phase # "collect" /\ t1.level = t.level + 1
       /\ r.last = (t1.level = DataLen)
  BY <1>2, <1>17 DEF TreePlace
<1>19. Shape(new, t1)
  <2>1. FrontierOf(new.coll, t1.level = DataLen) = N
    BY <1>13, <1>15, <1>18
  <2>2. Paths(N) = C
    BY <1>10, <1>11, FrontierParts
  <2>3. Len(new.coll.keys) = w
    BY <1>4, <1>13, <1>15
  <2> QED BY <1>1, <1>3, <1>4, <1>10, <1>11, <1>15, <1>18, <2>1, <2>2, <2>3 DEF Shape
<1>20. Crawled(s, srv, t, r, P, new)
  BY <1>3, <1>4, <1>6, <1>9, <1>10, <1>13, <1>15, <1>16, <1>17, <1>19 DEF Crawled
<1> QED BY <1>20

\* The states that tree_sketch_frontier leaves at srv.
StatesFor(srv, r) ==
    [i \in 1..(r.end - r.start) |->
        [sketch |-> [key   |-> srv.coll.keys[r.start + i].key,
                     paths |-> Paths(FrontierOf(srv.coll, r.last))],
         level  |-> IF r.last THEN 0 ELSE r.level]]

\* Of tree_sketch_frontier that sketches into the states st.
Sketched(s, srv, t, r, st, new) ==
    /\ Handle(s, srv, r) = [srv |-> new, reply |-> <<st>>]
    /\ new.coll = srv.coll
    /\ Mul(new, r.last) = st
    /\ Shape(new, t)

LEMMA SketchHandled ==
    ASSUME NEW s \in Server, NEW srv, NEW t, Shape(srv, t), NEW r, r.op = "tree_sketch_frontier",
           Fits(srv, t, r), NEW st, st = StatesFor(srv, r)
    PROVE  \E new : Sketched(s, srv, t, r, st, new)
<1>1. PICK P : P = Paths(FrontierOf(srv.coll, r.last))
  OBVIOUS
<1>2. st = [i \in 1..(r.end - r.start) |->
              [sketch |-> [key |-> srv.coll.keys[r.start + i].key, paths |-> P],
               level  |-> IF r.last THEN 0 ELSE r.level]]
  BY <1>1 DEF StatesFor
<1> USE SystemAssumption, DataLenAssumption
<1>3. srv \in ServerRecord /\ Len(srv.coll.keys) <= NReqs
  BY DEF Shape
<1>4. /\ t \in TreePlace /\ t.phase # "collect" /\ t.level \in 0..DataLen
      /\ r.last = (t.level = DataLen) /\ r.level \in Nat /\ r.level = t.level - 1
      /\ r.start \in Nat /\ r.end \in Nat /\ r.start < r.end
      /\ r.end <= Len(srv.coll.keys)
  BY DEF Shape, Fits, TreePlace
<1>5. PICK c : c = srv.coll /\ c \in Collection
  BY <1>3, RecordFields
<1>6. PICK w \in Nat : w = Len(c.keys)
  BY <1>5, CollectionFields, LenProperties
<1>7. PICK nodes : nodes = FrontierOf(c, r.last)
  OBVIOUS
<1>8. IsFrontier(nodes, P, w) /\ P \in Seq(BitPath(t.level))
  BY <1>1, <1>4, <1>5, <1>6, <1>7 DEF Shape
<1>9. PICK b \in Nat, e \in Nat : b = r.start /\ e = r.end /\ b < e /\ e <= w
  <2>1. r.start \in Nat /\ r.end \in Nat /\ r.start < r.end /\ r.end <= Len(srv.coll.keys)
    BY <1>4
  <2>2. Len(srv.coll.keys) = w
    BY <1>5, <1>6
  <2>3. r.end <= w
    BY <2>1, <2>2, Zenon
  <2> QED BY <2>1, <2>3, Zenon
<1>10. b < e /\ e <= w
  BY <1>9, Zenon
<1>11. ~TreeSketchFrontierPanics(c, r.start, r.end, r.last)
  <2>1. ASSUME NEW i \in DOMAIN nodes PROVE ~(r.end > nodes[i].width)
    <3>1. DOMAIN nodes = 1..Len(P)
      BY <1>8, FrontierParts
    <3>2. nodes[i].width = w
      BY <1>8, <3>1 DEF IsFrontier
    <3> QED BY <1>9, <3>2
  <2>2. ~(r.start >= r.end) /\ ~(r.end > Len(c.keys))
    <3>1. ~(b >= e) /\ ~(e > w)
      BY <1>10
    <3> QED BY <1>6, <1>9, <3>1, Zenon
  <2> QED BY <1>7, <2>1, <2>2 DEF TreeSketchFrontierPanics
<1>12. ~(~r.last /\ r.level >= DataLen - 1)
  <2>1. CASE t.level = DataLen
    BY <1>4, <2>1
  <2>2. CASE t.level # DataLen
    BY <1>4, <2>2
  <2> QED BY <2>1, <2>2
<1>13. MulStates(TreeSketchFrontier(c, r.start, r.end, r.last), IF r.last THEN 0 ELSE r.level) = st
  <2>1. PICK sk : sk = TreeSketchFrontier(c, r.start, r.end, r.last)
    OBVIOUS
  <2>2. sk = [i \in 1..(r.end - r.start) |->
                [key |-> c.keys[r.start + i].key, paths |-> P]]
    BY <1>1, <1>5, <2>1 DEF TreeSketchFrontier
  <2>3. MulStates(sk, IF r.last THEN 0 ELSE r.level)
          = [i \in 1..(r.end - r.start) |->
               [sketch |-> sk[i], level |-> IF r.last THEN 0 ELSE r.level]]
    BY <2>2 DEF MulStates
  <2>4. \A i \in 1..(r.end - r.start) : sk[i] = [key |-> c.keys[r.start + i].key, paths |-> P]
    BY <2>2
  <2>5. MulStates(sk, IF r.last THEN 0 ELSE r.level)
          = [i \in 1..(r.end - r.start) |->
               [sketch |-> [key |-> c.keys[r.start + i].key, paths |-> P],
                level  |-> IF r.last THEN 0 ELSE r.level]]
    BY <2>3, <2>4
  <2> QED BY <1>2, <1>5, <2>1, <2>5, Zenon
<1>14. st \in Seq(MulState)
  <2>1. PICK n \in Nat : n = r.end - r.start
    BY <1>4
  <2>2. P \in Seq(Seq(BOOLEAN))
    <3>1. ASSUME NEW i \in 1..Len(P) PROVE P[i] \in Seq(BOOLEAN)
      BY <1>4, <1>8, ElementOfSeq, PathTyped
    <3>2. PICK m \in Nat : m = Len(P) /\ P = [i \in 1..m |-> P[i]]
      BY <1>8, LenProperties
    <3>3. P \in [1..m -> Seq(BOOLEAN)]
      BY <3>1, <3>2
    <3>4. [1..m -> Seq(BOOLEAN)] \subseteq Seq(Seq(BOOLEAN))
      OBVIOUS
    <3> QED BY <3>3, <3>4, Zenon
  <2>3. ASSUME NEW i \in 1..n
        PROVE  /\ c.keys[r.start + i].key \in Key
               /\ (IF r.last THEN 0 ELSE r.level) \in Nat
    <3>1. n = e - b
      BY <1>9, <2>1, Zenon
    <3>2. b + i \in 1..w
      BY <1>10, <3>1
    <3>3. r.start + i \in 1..w
      BY <1>9, <3>2, Zenon
    <3>4. c.keys[r.start + i] \in StoredKey
      BY <1>5, <1>6, <3>3, CollectionFields, ElementOfSeq
    <3> QED BY <1>4, <3>4 DEF StoredKey
  <2>4. ASSUME NEW i \in 1..n
        PROVE  [sketch |-> [key |-> c.keys[r.start + i].key, paths |-> P],
                level  |-> IF r.last THEN 0 ELSE r.level] \in MulState
    BY <2>2, <2>3 DEF MulState
  <2>5. PICK q : q = [i \in 1..n |->
                        [sketch |-> [key |-> c.keys[r.start + i].key, paths |-> P],
                         level  |-> IF r.last THEN 0 ELSE r.level]]
    OBVIOUS
  <2>6. q \in [1..n -> MulState]
    BY <2>4, <2>5
  <2>7. q = st
    BY <1>2, <1>5, <2>1, <2>5
  <2>8. q \in Seq(MulState)
    BY <2>6
  <2> QED BY <2>7, <2>8, Zenon
<1>15. PICK new : new = SetMul(srv, r.last, st)
  OBVIOUS
<1>16. new \in ServerRecord /\ new.coll = srv.coll /\ Mul(new, r.last) = st
  <2>1. CASE r.last
    <3>1. new = [srv EXCEPT !.mulLast = st]
      BY <1>15, <2>1 DEF SetMul
    <3>2. new \in ServerRecord /\ new.coll = srv.coll /\ new.mulLast = st
      BY <1>3, <1>14, <3>1 DEF ServerRecord
    <3> QED BY <2>1, <3>2 DEF Mul
  <2>2. CASE ~r.last
    <3>1. new = [srv EXCEPT !.mul = st]
      BY <1>15, <2>2 DEF SetMul
    <3>2. new \in ServerRecord /\ new.coll = srv.coll /\ new.mul = st
      BY <1>3, <1>14, <3>1 DEF ServerRecord
    <3> QED BY <2>2, <3>2 DEF Mul
  <2> QED BY <2>1, <2>2
<1>17. Handle(s, srv, r) = [srv |-> new, reply |-> <<st>>]
  <2>1. Handle(s, srv, r) = HandleTreeSketchFrontier(srv, r.level, r.start, r.end, r.last)
    BY DEF Handle
  <2>2. "arc" \notin srv.poisoned /\ MulLock(r.last) \notin srv.poisoned
    BY <1>3, RecordFields
  <2> QED BY <1>5, <1>11, <1>12, <1>13, <1>15, <2>1, <2>2 DEF HandleTreeSketchFrontier, Replies
<1>18. Shape(new, t)
  BY <1>16 DEF Shape
<1>19. Sketched(s, srv, t, r, st, new)
  BY <1>16, <1>17, <1>18 DEF Sketched
<1> QED BY <1>19

\* What tree_out_shares answers from the states st and the corrections cor.
OutsOf(st, cor) == [i \in DOMAIN st |-> [state |-> st[i], cor |-> cor[i]]]

LEMMA OutSharesHandled ==
    ASSUME NEW s \in Server, NEW srv, NEW t, Shape(srv, t), NEW r, r.op = "tree_out_shares",
           Fits(srv, t, r), NEW st, st = Mul(srv, r.last)
    PROVE  /\ Handle(s, srv, r) = [srv |-> srv, reply |-> <<OutsOf(st, r.cor)>>]
           /\ st \in Seq(MulState)
<1>1. srv \in ServerRecord
  BY DEF Shape
<1>2. MulLock(r.last) \notin srv.poisoned
  BY <1>1, RecordFields
<1>3. st \in Seq(MulState)
  BY <1>1, RecordFields DEF Mul
<1>4. ~(Len(r.cor) < Len(st))
  <2>1. Len(st) \in Nat /\ Len(r.cor) = Len(st)
    BY <1>3, LenProperties DEF Fits
  <2> QED BY <2>1
<1>5. Handle(s, srv, r) = HandleTreeOutShares(srv, r.cor, r.last)
  BY DEF Handle
<1> QED BY <1>2, <1>3, <1>4, <1>5 DEF HandleTreeOutShares, Replies, OutsOf

LEMMA FinalHandled ==
    ASSUME NEW s \in Server, NEW srv, NEW t, Shape(srv, t), NEW r, r.op = "final_shares"
    PROVE  Handle(s, srv, r) = [srv |-> srv, reply |-> <<FinalShares(srv.coll)>>]
<1>1. srv \in ServerRecord
  BY DEF Shape
<1>2. [srv EXCEPT !.coll = srv.coll] = srv
  BY <1>1 DEF ServerRecord
<1>3. Handle(s, srv, r) = HandleFinalShares(srv)
  BY DEF Handle
<1> QED BY <1>1, <1>2, <1>3, Unlocked DEF HandleFinalShares

\* Of tree_prune of a frontier with these nodes.
PrunedTo(s, srv, t, r, nodes, new) ==
    /\ Handle(s, srv, r) = [srv |-> new, reply |-> <<"Done">>]
    /\ new.coll.keys = srv.coll.keys
    /\ FrontierOf(new.coll, r.last) = Picked(nodes, Kept(r.keep))
    /\ Paths(nodes) \in Seq(BitPath(t.level)) /\ Len(Paths(nodes)) = Len(nodes)
    /\ Lists(Kept(r.keep), r.keep, 0, Len(nodes))
    /\ IsFrontier(nodes, Paths(nodes), Len(srv.coll.keys))
    /\ Shape(new, [phase |-> IF r.last THEN "done" ELSE "pruned", level |-> t.level])

LEMMA PruneHandled ==
    ASSUME NEW s \in Server, NEW srv, NEW t, Shape(srv, t), NEW r, r.op = "tree_prune",
           Fits(srv, t, r), NEW nodes, nodes = FrontierOf(srv.coll, r.last)
    PROVE  \E new : PrunedTo(s, srv, t, r, nodes, new)
<1> USE SystemAssumption, DataLenAssumption
<1>1. srv \in ServerRecord /\ Len(srv.coll.keys) <= NReqs
  BY DEF Shape
<1>2. /\ t \in TreePlace /\ t.phase # "collect" /\ t.level \in 0..DataLen
      /\ r.last = (t.level = DataLen)
      /\ Len(r.keep) = Len(nodes) /\ DOMAIN r.keep = 1..Len(nodes)
  BY DEF Shape, Fits, TreePlace
<1>3. PICK c : c = srv.coll /\ c \in Collection
  BY <1>1, RecordFields
<1>4. PICK w \in Nat : w = Len(c.keys)
  BY <1>3, CollectionFields, LenProperties
<1>5. PICK P : P = Paths(nodes)
  OBVIOUS
<1>6. IsFrontier(nodes, P, w) /\ P \in Seq(BitPath(t.level))
  BY <1>2, <1>3, <1>4, <1>5 DEF Shape
<1>7. PICK n \in Nat : n = Len(nodes) /\ n = Len(P)
  BY <1>6, FrontierParts
<1>8. PICK e : e = Kept(r.keep)
  OBVIOUS
<1>9. nodes \in Seq(TreeNode)
  BY <1>6 DEF IsFrontier
<1>10. Lists(e, r.keep, 0, n) /\ Pruned(nodes, r.keep) = Picked(nodes, e)
  <2>1. DOMAIN r.keep = 1..n
    BY <1>2, <1>7
  <2> QED BY <1>7, <1>8, <1>9, <2>1, PrunedSelects
<1>11. IsFrontier(Picked(nodes, e), Picked(P, e), w)
  <2>1. e \in Seq(1..n)
    BY <1>10 DEF Lists
  <2> QED BY <1>6, <1>7, <2>1, PickedFrontier
<1>12. Picked(P, e) \in Seq(BitPath(t.level))
  BY <1>6, <1>7, <1>10, PickedPaths
<1>13. PICK d : d = TreePrune(c, r.keep, r.last)
  OBVIOUS
<1>14. d \in Collection /\ d.keys = c.keys /\ FrontierOf(d, r.last) = Picked(nodes, e)
  <2>1. Picked(nodes, e) \in Seq(TreeNode)
    BY <1>11 DEF IsFrontier
  <2>2. CASE r.last
    <3>1. nodes = c.frontierLast
      BY <1>3, <2>2 DEF FrontierOf
    <3>2. d = [c EXCEPT !.frontierLast = Picked(nodes, e)]
      BY <1>10, <1>13, <2>2, <3>1 DEF TreePrune
    <3>3. d \in Collection /\ d.keys = c.keys /\ d.frontierLast = Picked(nodes, e)
      BY <1>3, <2>1, <3>2 DEF Collection
    <3> QED BY <2>2, <3>3 DEF FrontierOf
  <2>3. CASE ~r.last
    <3>1. nodes = c.frontier
      BY <1>3, <2>3 DEF FrontierOf
    <3>2. d = [c EXCEPT !.frontier = Picked(nodes, e)]
      BY <1>10, <1>13, <2>3, <3>1 DEF TreePrune
    <3>3. d \in Collection /\ d.keys = c.keys /\ d.frontier = Picked(nodes, e)
      BY <1>3, <2>1, <3>2 DEF Collection
    <3> QED BY <2>3, <3>3 DEF FrontierOf
  <2> QED BY <2>2, <2>3
<1>15. PICK new : new = [srv EXCEPT !.coll = d]
  OBVIOUS
<1>16. new \in ServerRecord /\ new.coll = d
  BY <1>1, <1>14, <1>15, WithCollection
<1>17. Handle(s, srv, r) = [srv |-> new, reply |-> <<"Done">>]
  <2>1. Handle(s, srv, r) = HandleTreePrune(srv, r.keep, r.last)
    BY DEF Handle
  <2>2. ~TreePrunePanics(c, r.keep, r.last)
    BY <1>2, <1>3 DEF TreePrunePanics
  <2>3. "arc" \notin srv.poisoned
    BY <1>1, RecordFields
  <2>4. HandleTreePrune(srv, r.keep, r.last) = Replies(new, "Done")
    BY <1>3, <1>13, <1>15, <2>2, <2>3 DEF HandleTreePrune, UnderLock
  <2> QED BY <2>1, <2>4 DEF Replies
<1>18. PICK t1 : t1 = [phase |-> IF r.last THEN "done" ELSE "pruned", level |-> t.level]
  OBVIOUS
<1>19. t1 \in TreePlace /\ t1.phase # "collect" /\ t1.level = t.level
  BY <1>2, <1>18 DEF TreePlace
<1>20. Shape(new, t1)
  <2>1. FrontierOf(new.coll, t1.level = DataLen) = Picked(nodes, e)
    BY <1>2, <1>14, <1>16, <1>19
  <2>2. Paths(Picked(nodes, e)) = Picked(P, e)
    BY <1>11, <1>12, FrontierParts
  <2>3. Len(new.coll.keys) = w
    BY <1>4, <1>14, <1>16
  <2> QED BY <1>1, <1>3, <1>4, <1>11, <1>12, <1>16, <1>19, <2>1, <2>2, <2>3 DEF Shape
<1>21. PrunedTo(s, srv, t, r, nodes, new)
  BY <1>3, <1>4, <1>5, <1>6, <1>7, <1>8, <1>10, <1>14, <1>16, <1>17, <1>18, <1>20 DEF PrunedTo
<1> QED BY <1>21

-----------------------------------------------------------------------------
(* The handlers, in one: a request that fits is answered, and leaves the
   server in the shape that the place after it asks for. *)

(* Where a request takes the tree. *)
LEMMA PlaceAfter ==
    ASSUME NEW s, NEW r
    PROVE  /\ r.op \in {"reset", "add_keys"} => TreeAfter(s, r) = [phase |-> "collect", level |-> 0]
           /\ r.op = "tree_init" => TreeAfter(s, r) = [phase |-> "pruned", level |-> 0]
           /\ r.op = "tree_crawl" =>
                 TreeAfter(s, r) = [phase |-> "crawled", level |-> tree[s].level + 1]
           /\ r.op = "tree_prune" => TreeAfter(s, r)
                 = [tree[s] EXCEPT !.phase = IF r.last THEN "done" ELSE "pruned"]
           /\ r.op \in {"tree_sketch_frontier", "tree_out_shares", "final_shares"} =>
                 TreeAfter(s, r) = tree[s]
BY DEF TreeAfter

LEMMA Handled ==
    ASSUME NEW s \in Server, NEW srv, Shape(srv, tree[s]),
           NEW r, r.op \in Rpc, Fits(srv, tree[s], r)
    PROVE  \E new, v : /\ Handle(s, srv, r) = [srv |-> new, reply |-> <<v>>]
                       /\ Shape(new, TreeAfter(s, r))
<1>1. srv \in ServerRecord
  BY DEF Shape
<1> DEFINE Answers(new, v) == Handle(s, srv, r) = [srv |-> new, reply |-> <<v>>]
<1>2. CASE r.op = "reset"
  <2>1. Answers(NewServer, "Done") /\ Shape(NewServer, [phase |-> "collect", level |-> 0])
    BY <1>1, <1>2, ResetHandled, NewServerShape
  <2>2. TreeAfter(s, r) = [phase |-> "collect", level |-> 0]
    BY <1>2, PlaceAfter
  <2> QED BY <2>1, <2>2, Zenon
<1>3. CASE r.op = "add_keys"
  <2>1. PICK new : KeysAdded(s, srv, tree[s], r, new)
    BY <1>3, AddKeysHandled
  <2>2. TreeAfter(s, r) = [phase |-> "collect", level |-> 0]
    BY <1>3, PlaceAfter
  <2> QED BY <2>1, <2>2, Zenon DEF KeysAdded
<1>4. CASE r.op = "tree_init"
  <2>1. PICK new : TreeStarted(s, srv, tree[s], r, new)
    BY <1>4, TreeInitHandled
  <2>2. TreeAfter(s, r) = [phase |-> "pruned", level |-> 0]
    BY <1>4, PlaceAfter
  <2> QED BY <2>1, <2>2, Zenon DEF TreeStarted
<1>5. CASE r.op = "tree_crawl"
  <2>1. PICK P : P = Paths(srv.coll.frontier)
    OBVIOUS
  <2>2. PICK new : Crawled(s, srv, tree[s], r, P, new)
    BY <1>5, <2>1, CrawlHandled
  <2>3. TreeAfter(s, r) = [phase |-> "crawled", level |-> tree[s].level + 1]
    BY <1>5, PlaceAfter
  <2> QED BY <2>2, <2>3, Zenon DEF Crawled
<1>6. CASE r.op = "tree_sketch_frontier"
  <2>1. PICK st : st = StatesFor(srv, r)
    OBVIOUS
  <2>2. PICK new : Sketched(s, srv, tree[s], r, st, new)
    BY <1>6, <2>1, SketchHandled
  <2>3. TreeAfter(s, r) = tree[s]
    BY <1>6, PlaceAfter
  <2> QED BY <2>2, <2>3, Zenon DEF Sketched
<1>7. CASE r.op = "tree_out_shares"
  <2>1. PICK v : Answers(srv, v)
    BY <1>7, OutSharesHandled, Zenon
  <2>2. TreeAfter(s, r) = tree[s]
    BY <1>7, PlaceAfter
  <2> QED BY <2>1, <2>2, Zenon
<1>8. CASE r.op = "tree_prune"
  <2>1. PICK nodes : nodes = FrontierOf(srv.coll, r.last)
    OBVIOUS
  <2>2. PICK new : PrunedTo(s, srv, tree[s], r, nodes, new)
    BY <1>8, <2>1, PruneHandled
  <2>3. TreeAfter(s, r) = [phase |-> IF r.last THEN "done" ELSE "pruned", level |-> tree[s].level]
    BY <1>8, PlaceAfter DEF Shape, TreePlace
  <2> QED BY <2>3, <2>2, Zenon DEF PrunedTo
<1>9. CASE r.op = "final_shares"
  <2>1. Answers(srv, FinalShares(srv.coll))
    BY <1>9, FinalHandled, Zenon
  <2>2. TreeAfter(s, r) = tree[s]
    BY <1>9, PlaceAfter
  <2> QED BY <2>1, <2>2, Zenon
<1> QED BY <1>2, <1>3, <1>4, <1>5, <1>6, <1>7, <1>8, <1>9 DEF Rpc

-----------------------------------------------------------------------------
(* What a step that leaves the session alone keeps. *)

(* The session's invariant is about what the servers will have and answer, so
   it stays when a server handles its request. *)
LEMMA SessionKept ==
    ASSUME SessionInv, UNCHANGED <<left, level, start, vals, sent, verified>>,
           lost \subseteq lost', pc' = pc \/ (pc = "final_shares" /\ pc' = "done"),
           \A s \in Server : Outcome(s)'.reply = Outcome(s).reply,
           \A s \in Server \ lost' : Outcome(s)' = Outcome(s) /\ Place(s)' = Place(s)
    PROVE  SessionInv'
<1>1. /\ \A s \in Server : Answer(s)' = Answer(s)
      /\ \A s \in Server \ lost' : Settled(s)' = Settled(s)
  BY DEF Settled, Answer
<1>2. Server \ lost' \subseteq Server \ lost /\ (lost' = {} => lost = {})
  OBVIOUS
<1>3. PlaceAt' = PlaceAt
  BY DEF PlaceAt, LastLevel
<1>4. ASSUME NEW P, AtPaths(P) PROVE AtPaths(P)'
  <2>1. Complete(P)'
    BY <1>4 DEF AtPaths, Complete, SentVotes
  <2>2. \A s \in Server \ lost' : Nodes(s)' = Nodes(s)
    BY <1>1 DEF Nodes, LastLevel
  <2>3. BatchStates(P)' = BatchStates(P)
    BY DEF BatchStates, BatchEnd, BatchSize, LastLevel
  <2>4. BatchOuts(P)' = BatchOuts(P)
    BY <2>3 DEF BatchOuts
  <2>5. 0 \in Server /\ 1 \in Server
    BY DEF Server
  <2> QED BY <1>1, <1>2, <1>4, <2>1, <2>2, <2>3, <2>4, <2>5
          DEF AtPaths, SharesOf, SentVotes, LastLevel, SumsBounded
<1> QED BY <1>1, <1>2, <1>3, <1>4 DEF SessionInv, Searching

(* A server whose record, requests, reply and tree stay is as it was. *)
LEMMA ServerKept ==
    ASSUME NEW s \in Server, ServerInv(s), Waits(s), session' = session, pc' = pc, lost' = lost,
           server'[s] = server[s], net'[s] = net[s], replies'[s] = replies[s], tree'[s] = tree[s]
    PROVE  /\ ServerInv(s)' /\ Waits(s)'
           /\ Outcome(s)' = Outcome(s) /\ Place(s)' = Place(s)
<1>1. Pending(s)' = Pending(s)
  BY DEF Pending
<1>2. Request(s)' = Request(s)
  BY <1>1 DEF Request
<1>3. ServerInv(s)'
  BY DEF ServerInv, InOrder
<1>4. Waits(s)'
  BY <1>1 DEF Waits, Waiting
<1>5. Outcome(s)' = Outcome(s)
  BY <1>1, <1>2 DEF Outcome
<1>6. Place(s)' = Place(s)
  BY <1>1, <1>2 DEF Place, TreeAfter
<1> QED BY <1>3, <1>4, <1>5, <1>6

(* A server that handles a request: those left are resets, and the session's
   own request was either this one or a reset (Serve and Overtaken). *)
LEMMA ServeKeeps ==
    ASSUME ~LateDelivery, IInv, NEW s \in Server, NEW req \in net[s], Serve(s, req)
    PROVE  IInv'
<1> USE SystemAssumption
<1>1. ASSUME NEW r \in net[s]
      PROVE  /\ r.session \in 1..session /\ req.session \in 1..session
             /\ r.session >= req.session
  <2>1. r \notin Overtaken(s, req) /\ Overtaken(s, req) = {r1 \in net[s] : r1.session < req.session}
    BY DEF Serve, Overtaken
  <2>2. r.session \in 1..session /\ req.session \in 1..session
    BY DEF IInv, ServerInv
  <2>3. session \in Int
    BY DEF IInv, LeaderTyped
  <2> QED BY <2>1, <2>2, <2>3
<1>2. /\ Shape(server[s], tree[s]) /\ InOrder(s) /\ req.op \in Rpc
      /\ Fits(server[s], tree[s], req)
  BY DEF IInv, ServerInv
<1>3. PICK new, v : /\ Handle(s, server[s], req) = [srv |-> new, reply |-> <<v>>]
                    /\ Shape(new, TreeAfter(s, req))
  BY <1>2, Handled
<1>4. /\ server' = [server EXCEPT ![s] = new]
      /\ net' = [net EXCEPT ![s] = @ \ {req}]
      /\ replies' = IF req.session = session THEN [replies EXCEPT ![s] = <<v>>] ELSE replies
      /\ tree' = [tree EXCEPT ![s] = TreeAfter(s, req)]
  BY <1>3 DEF Serve
<1>5. Tables' /\ Tables
  BY <1>4 DEF IInv, Tables
<1>6. /\ server'[s] = new /\ net'[s] = net[s] \ {req} /\ tree'[s] = TreeAfter(s, req)
      /\ replies'[s] = IF req.session = session THEN <<v>> ELSE replies[s]
  BY <1>4, <1>5 DEF Tables
<1>7. UNCHANGED <<leaderVars, verified, crashes>>
  BY DEF Serve
<1>8. /\ UNCHANGED <<keys, left, level, start, vals, sent, session, pc, lost, verified, crashes>>
  BY <1>7 DEF leaderVars, progress
<1>9. ASSUME NEW r \in net'[s] PROVE r.op = "reset"
  <2>1. r \in net[s] /\ r # req
    BY <1>6
  <2>2. CASE req.op = "reset"
    <3>1. SUFFICES ASSUME r.op # "reset" PROVE FALSE
      OBVIOUS
    <3>2. r.session < req.session
      BY <1>2, <2>1, <3>1 DEF InOrder
    <3> QED BY <1>1, <2>1, <3>2
  <2>3. CASE req.op # "reset"
    BY <1>2, <2>1, <2>3 DEF InOrder
  <2> QED BY <2>2, <2>3
<1>10. ServerInv(s)'
  <2>1. ASSUME NEW r \in net'[s]
        PROVE  /\ r.op \in Rpc /\ r.session \in 1..session /\ r = [op |-> "reset", session |-> r.session]
               /\ Fits(server'[s], tree'[s], r)
    <3>1. r \in net[s] /\ r.op = "reset"
      BY <1>6, <1>9
    <3>2. Fits(server'[s], tree'[s], r)
      BY <3>1 DEF Fits
    <3> QED BY <3>1, <3>2 DEF IInv, ServerInv
  <2>2. InOrder(s)'
    BY <1>9 DEF InOrder
  <2>3. Shape(server'[s], tree'[s])
    BY <1>3, <1>6
  <2> QED BY <1>8, <2>1, <2>2, <2>3 DEF ServerInv
<1>11. ASSUME req.session = session
      PROVE  Waits(s)' /\ (Waiting => Outcome(s)' = Outcome(s) /\ Place(s)' = Place(s))
  <2>1. \A r \in net[s] : r.session = session
    BY <1>1, <1>11
  <2>2. Pending(s) = net[s] /\ req \in Pending(s)
    BY <2>1 DEF Pending
  <2>3. Waiting => Pending(s) = {req} /\ replies[s] = << >> /\ s \notin lost /\ pc # "done"
    BY <2>2 DEF IInv, Waits
  <2>4. Waiting => net'[s] = {}
    BY <1>6, <2>2, <2>3
  <2>5. replies'[s] = <<v>> /\ <<v>> # << >> /\ Len(<<v>>) = 1
    BY <1>6, <1>11
  <2>6. Waits(s)'
    BY <1>8, <2>4, <2>5 DEF Waits, Waiting
  <2>7. Waiting => Outcome(s)' = Outcome(s) /\ Place(s)' = Place(s)
    <3> SUFFICES ASSUME Waiting PROVE Outcome(s)' = Outcome(s) /\ Place(s)' = Place(s)
      OBVIOUS
    <3>1. Request(s) = req
      BY <2>3 DEF Request
    <3>2. Outcome(s) = [srv |-> new, reply |-> <<v>>] /\ Place(s) = TreeAfter(s, req)
      BY <1>3, <2>3, <3>1 DEF Outcome, Place
    <3>3. Pending(s)' = {}
      BY <2>4 DEF Pending
    <3> QED BY <1>6, <2>5, <3>2, <3>3 DEF Outcome, Place
  <2> QED BY <2>6, <2>7
<1>12. ASSUME req.session # session
      PROVE  Waits(s)' /\ (Waiting => Outcome(s)' = Outcome(s) /\ Place(s)' = Place(s))
  <2>1. replies'[s] = replies[s]
    BY <1>6, <1>12
  <2>2. Pending(s)' = Pending(s)
    BY <1>6, <1>8, <1>12 DEF Pending
  <2>3. Request(s)' = Request(s)
    BY <2>2 DEF Request
  <2>4. Waiting => replies[s] = << >>
    BY DEF IInv, Waits
  <2>5. ASSUME Waiting
        PROVE  \E r \in net'[s] : Pending(s) = {r} /\ r.op = pc /\ s \notin lost /\ pc # "done"
    <3>1. PICK r \in net[s] : Pending(s) = {r} /\ r.op = pc /\ s \notin lost /\ pc # "done"
      BY <2>4, <2>5 DEF IInv, Waits
    <3>2. r # req
      BY <1>12, <3>1 DEF Pending
    <3> QED BY <1>6, <3>1, <3>2
  <2>6. Waits(s)'
    <3>1. Len(replies'[s]) \in {0, 1}
      BY <2>1 DEF IInv, Waits
    <3>2. Waiting' <=> Waiting
      BY <1>8 DEF Waiting
    <3>3. Pending(s)' = Pending(s) /\ pc' = pc /\ lost' = lost
      BY <1>8, <2>2
    <3> QED BY <2>1, <2>4, <2>5, <3>1, <3>2, <3>3 DEF Waits
  <2>7. ASSUME Waiting PROVE Outcome(s)' = Outcome(s) /\ Place(s)' = Place(s)
    <3>1. PICK r \in net'[s] : Pending(s) = {r}
      BY <2>5, <2>7
    <3>2. r \in net[s] /\ r.op = "reset" /\ Request(s) = r
      BY <1>6, <1>9, <3>1 DEF Request
    <3>3. server[s] \in ServerRecord /\ server'[s] \in ServerRecord
      BY <1>2, <1>3, <1>6 DEF Shape
    <3>4. Handle(s, server[s], r) = Handle(s, server'[s], r)
      BY <3>2, <3>3, ResetHandled
    <3>5. Outcome(s) = Handle(s, server[s], r) /\ Outcome(s)' = Handle(s, server'[s], r)
      BY <2>2, <2>3, <3>1, <3>2 DEF Outcome
    <3>6. TreeAfter(s, r) = [phase |-> "collect", level |-> 0]
          /\ TreeAfter(s, r)' = [phase |-> "collect", level |-> 0]
      BY <3>2 DEF TreeAfter
    <3>7. Place(s) = TreeAfter(s, r) /\ Place(s)' = TreeAfter(s, r)'
      BY <2>2, <2>3, <3>1, <3>2 DEF Place
    <3> QED BY <3>4, <3>5, <3>6, <3>7
  <2> QED BY <2>6, <2>7
<1>13. ASSUME NEW u \in Server, u # s
       PROVE  ServerInv(u)' /\ Waits(u)' /\ Outcome(u)' = Outcome(u) /\ Place(u)' = Place(u)
  <2>1. server'[u] = server[u] /\ net'[u] = net[u] /\ replies'[u] = replies[u] /\ tree'[u] = tree[u]
    BY <1>4, <1>5, <1>13 DEF Tables
  <2>2. ServerInv(u) /\ Waits(u)
    BY DEF IInv
  <2> QED BY <1>8, <2>1, <2>2, ServerKept
<1>14. LeaderTyped'
  BY <1>8 DEF IInv, LeaderTyped
<1>15. Waiting' => SessionInv'
  <2> SUFFICES ASSUME Waiting' PROVE SessionInv'
    OBVIOUS
  <2>1. Waiting
    BY <1>8 DEF Waiting
  <2>2. SessionInv
    BY <2>1 DEF IInv
  <2>3. \A u \in Server : Outcome(u)' = Outcome(u) /\ Place(u)' = Place(u)
    BY <1>11, <1>12, <1>13, <2>1
  <2> QED BY <1>8, <2>2, <2>3, SessionKept
<1> QED BY <1>5, <1>10, <1>11, <1>12, <1>13, <1>14, <1>15 DEF IInv

(* The connection of a dead leader closes: only its requests go. *)
LEMMA CloseKeeps ==
    ASSUME IInv, NEW s \in Server, CloseConnection(s)
    PROVE  IInv'
<1>1. UNCHANGED <<server, replies, keys, left, level, start, vals, sent, session, pc, lost,
                  verified, tree, crashes>>
  BY DEF CloseConnection, leaderVars, progress
<1>2. Tables /\ Tables'
  BY <1>1 DEF IInv, Tables, CloseConnection
<1>3. net'[s] = net[s] \ Stale(s)
  BY <1>2 DEF Tables, CloseConnection
<1>4. net'[s] \subseteq net[s] /\ Pending(s)' = Pending(s) /\ Pending(s) \subseteq net'[s]
  BY <1>1, <1>3 DEF Pending, Stale
<1>5. Request(s)' = Request(s)
  BY <1>4 DEF Request
<1>6. Outcome(s)' = Outcome(s)
  BY <1>1, <1>4, <1>5 DEF Outcome
<1>7. Place(s)' = Place(s)
  BY <1>1, <1>4, <1>5 DEF Place, TreeAfter
<1>8. ServerInv(s)'
  <2>1. ServerInv(s)
    BY DEF IInv
  <2>2. InOrder(s)'
    BY <1>4, <2>1 DEF ServerInv, InOrder
  <2> QED BY <1>1, <1>4, <2>1, <2>2 DEF ServerInv
<1>9. Waits(s)'
  <2>1. Waits(s)
    BY DEF IInv
  <2>2. ASSUME NEW r \in net[s], Pending(s) = {r} PROVE r \in net'[s] /\ Pending(s)' = {r}
    BY <1>4, <2>2
  <2>3. net[s] = {} => net'[s] = {}
    BY <1>4
  <2> QED BY <1>1, <2>1, <2>2, <2>3 DEF Waits, Waiting
<1>10. ASSUME NEW u \in Server, u # s
       PROVE  ServerInv(u)' /\ Waits(u)' /\ Outcome(u)' = Outcome(u) /\ Place(u)' = Place(u)
  <2>1. server'[u] = server[u] /\ net'[u] = net[u] /\ replies'[u] = replies[u] /\ tree'[u] = tree[u]
    BY <1>1, <1>2, <1>10 DEF Tables, CloseConnection
  <2>2. ServerInv(u) /\ Waits(u)
    BY DEF IInv
  <2> QED BY <1>1, <2>1, <2>2, ServerKept
<1>11. LeaderTyped'
  BY <1>1 DEF IInv, LeaderTyped
<1>12. Waiting' => SessionInv'
  <2> SUFFICES ASSUME Waiting' PROVE SessionInv'
    OBVIOUS
  <2>1. SessionInv
    BY <1>1 DEF Waiting, IInv
  <2> QED BY <1>1, <1>6, <1>7, <1>10, <2>1, SessionKept
<1> QED BY <1>2, <1>8, <1>9, <1>10, <1>11, <1>12 DEF IInv

(* A server dies: the leader that waits for it is told, and one that has its
   reply knows what the server would have answered (Crash). *)
LEMMA CrashKeeps ==
    ASSUME IInv, NEW s \in Server, Crash(s)
    PROVE  IInv'
<1> USE SystemAssumption
<1>1. /\ UNCHANGED <<keys, left, level, start, vals, sent, session, replies, verified>>
      /\ server' = [server EXCEPT ![s] = NewServer] /\ net' = [net EXCEPT ![s] = {}]
      /\ tree' = [tree EXCEPT ![s] = [phase |-> "collect", level |-> 0]]
      /\ lost' = lost \cup {s} /\ crashes < MaxCrashes /\ crashes' = crashes + 1
      /\ pc' = IF pc \in Rpc /\ replies[s] = << >> THEN "disconnected" ELSE pc
  BY DEF Crash, progress
<1>2. Tables /\ Tables'
  BY <1>1 DEF IInv, Tables
<1>3. /\ server'[s] = NewServer /\ net'[s] = {} /\ replies'[s] = replies[s]
      /\ tree'[s] = [phase |-> "collect", level |-> 0]
  BY <1>1, <1>2 DEF Tables
<1>4. \A u \in Server : u # s => /\ server'[u] = server[u] /\ net'[u] = net[u]
                                 /\ replies'[u] = replies[u] /\ tree'[u] = tree[u]
  BY <1>1, <1>2 DEF Tables
<1>5. Waiting' => Waiting /\ pc' = pc /\ replies[s] # << >>
  <2>1. CASE pc \in Rpc /\ replies[s] = << >>
    BY <1>1, <2>1 DEF Waiting, Rpc
  <2>2. CASE ~(pc \in Rpc /\ replies[s] = << >>)
    <3>1. pc' = pc
      BY <1>1, <2>2
    <3>2. Waiting /\ pc \notin Rpc => pc = "done"
      BY DEF Waiting
    <3>3. Waiting /\ replies[s] = << >> => pc # "done"
      BY DEF IInv, Waits
    <3> QED BY <2>2, <3>1, <3>2, <3>3 DEF Waiting
  <2> QED BY <2>1, <2>2
<1>6. ServerInv(s)' /\ Waits(s)'
  <2>1. Shape(server'[s], tree'[s])
    BY <1>3, NewServerShape
  <2>2. ServerInv(s)'
    BY <1>3, <2>1 DEF ServerInv, InOrder
  <2>3. Len(replies[s]) \in {0, 1}
    BY DEF IInv, Waits
  <2> QED BY <1>3, <1>5, <2>2, <2>3 DEF Waits
<1>7. ASSUME NEW u \in Server, u # s PROVE ServerInv(u)' /\ Waits(u)'
  <2>1. ServerInv(u) /\ Waits(u)
    BY DEF IInv
  <2>2. /\ server'[u] = server[u] /\ net'[u] = net[u] /\ replies'[u] = replies[u]
        /\ tree'[u] = tree[u] /\ session' = session
    BY <1>1, <1>4, <1>7
  <2>3. ServerInv(u)'
    BY <2>1, <2>2 DEF ServerInv, InOrder
  <2>4. Pending(u)' = Pending(u)
    BY <2>2 DEF Pending
  <2>5. u \notin lost => u \notin lost'
    BY <1>1, <1>7
  <2>6. Waits(u)'
    <3>1. CASE Waiting'
      BY <1>5, <2>1, <2>2, <2>4, <2>5, <3>1 DEF Waits
    <3>2. CASE ~Waiting'
      BY <2>1, <2>2, <3>2 DEF Waits
    <3> QED BY <3>1, <3>2
  <2> QED BY <2>3, <2>6
<1>8. ASSUME NEW u \in Server, u # s
      PROVE  Outcome(u)' = Outcome(u) /\ Place(u)' = Place(u)
  <2>1. Pending(u)' = Pending(u)
    BY <1>1, <1>4, <1>8 DEF Pending
  <2>2. Request(u)' = Request(u)
    BY <2>1 DEF Request
  <2>3. Outcome(u)' = Outcome(u)
    BY <1>4, <1>8, <2>1, <2>2 DEF Outcome
  <2>4. Place(u)' = Place(u)
    BY <1>4, <1>8, <2>1, <2>2 DEF Place, TreeAfter
  <2> QED BY <2>3, <2>4
<1>9. Waiting' => SessionInv'
  <2> SUFFICES ASSUME Waiting' PROVE SessionInv'
    OBVIOUS
  <2>1. net[s] = {} /\ Pending(s) = {} /\ Pending(s)' = {}
    BY <1>3, <1>5 DEF IInv, Waits, Pending
  <2>2. Outcome(s)'.reply = Outcome(s).reply
    BY <1>3, <2>1 DEF Outcome
  <2>3. \A u \in Server : Outcome(u)'.reply = Outcome(u).reply
    BY <1>8, <2>2
  <2>4. \A u \in Server \ lost' : Outcome(u)' = Outcome(u) /\ Place(u)' = Place(u)
    BY <1>1, <1>8
  <2>5. SessionInv
    BY <1>5 DEF IInv
  <2>6. lost \subseteq lost' /\ pc' = pc
    BY <1>1, <1>5
  <2> QED BY <1>1, <2>3, <2>4, <2>5, <2>6, SessionKept
<1>10. LeaderTyped'
  <2>1. pc' \in Rpc \cup {"done", "disconnected"}
    BY <1>1 DEF IInv, LeaderTyped
  <2>2. crashes' \in 0..MaxCrashes /\ lost' \subseteq Server
    BY <1>1 DEF IInv, LeaderTyped
  <2> QED BY <1>1, <2>1, <2>2 DEF IInv, LeaderTyped
<1> QED BY <1>2, <1>6, <1>7, <1>9, <1>10 DEF IInv

(* A new leader starts with a reset, whatever older leaders left. *)
LEMMA ResetPending ==
    ASSUME NEW s \in Server, NEW r, r = [op |-> "reset", session |-> session], Pending(s) = {r},
           server[s] \in ServerRecord, pc = "reset", session \in Nat, lost = {},
           sent = << >>, left = NReqs
    PROVE  /\ Outcome(s) = [srv |-> NewServer, reply |-> <<"Done">>]
           /\ Settled(s).coll.keys = AliveKeys(sent)
           /\ Place(s) = PlaceAt
<1>1. Request(s) = r /\ r.op = "reset"
  BY DEF Request
<1>2. Outcome(s) = [srv |-> NewServer, reply |-> <<"Done">>]
  BY <1>1, ResetHandled DEF Outcome
<1>3. AliveKeys(sent) = << >>
  BY DEF AliveKeys
<1>4. Settled(s).coll.keys = << >>
  BY <1>2 DEF Settled, NewServer, NewCollection
<1>5. Place(s) = PlaceAt
  BY <1>1 DEF Place, TreeAfter, PlaceAt
<1> QED BY <1>2, <1>3, <1>4, <1>5

Fresh == /\ pc = "reset" /\ lost = {} /\ sent = << >> /\ left = NReqs /\ session \in Nat
         /\ \A s \in Server : /\ server[s] \in ServerRecord
                              /\ Pending(s) = {[op |-> "reset", session |-> session]}

LEMMA FreshSession == Fresh => SessionInv
<1> SUFFICES ASSUME Fresh PROVE SessionInv
  OBVIOUS
<1> USE SystemAssumption
<1>1. Len(sent) + left = NReqs
  BY DEF Fresh
<1>2. \A s \in Server : /\ Outcome(s) = [srv |-> NewServer, reply |-> <<"Done">>]
                        /\ Settled(s).coll.keys = AliveKeys(sent)
                        /\ Place(s) = PlaceAt
  BY ResetPending DEF Fresh
<1>3. ~Searching
  BY DEF Fresh, Searching
<1> QED BY <1>1, <1>2, <1>3 DEF SessionInv, Fresh

LEMMA NewLeaderKeeps ==
    ASSUME IInv, NewLeader
    PROVE  IInv'
<1> USE SystemAssumption, DataLenAssumption
<1> DEFINE req == [op |-> "reset", session |-> session + 1]
<1>1. /\ session \in 1..MaxSessions /\ session' = session + 1 /\ session' \in 1..MaxSessions
      /\ session \in Nat
  BY DEF IInv, LeaderTyped, NewLeader
<1>2. /\ UNCHANGED <<server, tree, crashes>> /\ pc' = "reset" /\ left' = NReqs /\ level' = 0
      /\ start' = 0 /\ lost' = {} /\ sent' = << >> /\ verified' = [i \in 1..NReqs |-> 0]
      /\ keys' \in GeneratedKeys
      /\ net' = [s \in Server |-> net[s] \cup {req}] /\ replies' = [s \in Server |-> << >>]
  BY DEF NewLeader
<1>3. Tables'
  BY <1>2 DEF IInv, Tables
<1>4. \A s \in Server : net'[s] = net[s] \cup {req} /\ replies'[s] = << >>
  BY <1>2
<1>5. LeaderTyped'
  <2>1. sent' \in Seq(Key)
    BY <1>2
  <2> QED BY <1>1, <1>2, <2>1 DEF IInv, LeaderTyped, Rpc
<1>6. ASSUME NEW s \in Server
      PROVE  /\ \A r \in net[s] : r.session \in 1..session /\ r.session < req.session
             /\ Pending(s)' = {req}
  <2>1. \A r \in net[s] : r.session \in 1..session
    BY DEF IInv, ServerInv
  <2>2. \A r \in net[s] : r.session < session + 1 /\ r.session # session + 1
    BY <1>1, <2>1
  <2>3. req.session = session + 1
    OBVIOUS
  <2>4. Pending(s)' = {r \in net'[s] : r.session = session + 1}
    BY <1>1 DEF Pending
  <2> HIDE DEF req
  <2> QED BY <1>4, <2>1, <2>2, <2>3, <2>4
<1>7. ASSUME NEW s \in Server PROVE ServerInv(s)' /\ Waits(s)'
  <2>1. ServerInv(s)
    BY DEF IInv
  <2>2. req.op = "reset" /\ req.op \in Rpc /\ req.session = session + 1
        /\ req = [op |-> "reset", session |-> req.session]
    BY DEF Rpc
  <2> HIDE DEF req
  <2>3. InOrder(s)'
    <3> SUFFICES ASSUME NEW r \in net'[s], NEW q \in net'[s], r # q, r.op # "reset"
                 PROVE  q.op = "reset" /\ r.session < q.session
      BY DEF InOrder
    <3>1. r \in net[s]
      BY <1>4, <2>2
    <3>2. CASE q = req
      BY <1>6, <2>2, <3>1, <3>2
    <3>3. CASE q # req
      BY <1>4, <2>1, <3>1, <3>3 DEF ServerInv, InOrder
    <3> QED BY <3>2, <3>3
  <2>4. ASSUME NEW r \in net'[s]
        PROVE  /\ r.op \in Rpc /\ r.session \in 1..session'
               /\ r.op = "reset" => r = [op |-> "reset", session |-> r.session]
               /\ Fits(server'[s], tree'[s], r)
    <3>1. CASE r = req
      <4>1. Fits(server'[s], tree'[s], r)
        BY <2>2, <3>1 DEF Fits
      <4>2. r.session \in 1..session'
        BY <1>1, <2>2, <3>1
      <4> QED BY <2>2, <3>1, <4>1, <4>2
    <3>2. CASE r \in net[s]
      <4>1. r.session \in 1..session'
        BY <1>1, <1>6, <3>2
      <4> QED BY <1>2, <2>1, <3>2, <4>1 DEF ServerInv
    <3> QED BY <1>4, <3>1, <3>2
  <2>5. ServerInv(s)'
    BY <1>2, <2>1, <2>3, <2>4 DEF ServerInv
  <2>6. Waits(s)'
    BY <1>2, <1>4, <1>6, <2>2 DEF Waits
  <2> QED BY <2>5, <2>6
<1>8. SessionInv'
  <2>1. \A s \in Server : server[s] \in ServerRecord
    BY DEF IInv, ServerInv, Shape
  <2>2. Fresh'
    BY <1>1, <1>2, <1>6, <2>1 DEF Fresh
  <2> QED BY <2>2, FreshSession, PTL
<1> QED BY <1>3, <1>5, <1>7, <1>8 DEF IInv

LEMMA InitHolds == Init => IInv
<1> USE SystemAssumption, DataLenAssumption
<1> SUFFICES ASSUME Init PROVE IInv
  OBVIOUS
<1> DEFINE req == [op |-> "reset", session |-> 1]
<1>1. Tables
  BY DEF Init, Tables, Idle
<1>2. LeaderTyped
  <2>1. sent \in Seq(Key)
    BY DEF Init
  <2> QED BY <2>1 DEF Init, LeaderTyped, Rpc
<1>3. \A s \in Server : /\ server[s] = NewServer /\ net[s] = {req} /\ replies[s] = << >>
                        /\ tree[s] = [phase |-> "collect", level |-> 0]
  BY DEF Init, Idle
<1>4. req.op = "reset" /\ req.session = 1 /\ req = [op |-> "reset", session |-> req.session]
  OBVIOUS
<1>5. session = 1 /\ pc = "reset" /\ lost = {} /\ sent = << >> /\ left = NReqs
  BY DEF Init
<1> HIDE DEF req
<1>6. ASSUME NEW s \in Server
      PROVE  Pending(s) = {req} /\ server[s] \in ServerRecord /\ ServerInv(s) /\ Waits(s)
  <2>1. Pending(s) = {req}
    BY <1>3, <1>4, <1>5 DEF Pending
  <2>2. Shape(server[s], tree[s])
    BY <1>3, NewServerShape
  <2>3. Fits(server[s], tree[s], req)
    BY <1>4 DEF Fits
  <2>4. ServerInv(s)
    BY <1>3, <1>4, <1>5, <2>2, <2>3 DEF ServerInv, InOrder, Rpc
  <2>5. Waits(s)
    BY <1>3, <1>4, <1>5, <2>1 DEF Waits
  <2> QED BY <2>1, <2>2, <2>4, <2>5 DEF Shape
<1>7. Fresh
  BY <1>4, <1>5, <1>6 DEF Fresh
<1> QED BY <1>1, <1>2, <1>6, <1>7, FreshSession DEF IInv

-----------------------------------------------------------------------------
(* The leader's steps. *)

\* The leader has both replies to its request op.
LEMMA AtReturn ==
    ASSUME IInv, NEW op \in Rpc, Returned(op)
    PROVE  /\ Waiting /\ SessionInv /\ pc = op
           /\ \A s \in Server : /\ replies[s] # << >> /\ net[s] = {}
                                /\ Settled(s) = server[s] /\ Answer(s) = Reply(s)
                                /\ Shape(server[s], tree[s])
           /\ \A s \in Server \ lost : /\ server[s].coll.keys = AliveKeys(sent)
                                       /\ tree[s] = PlaceAt
<1>1. Waiting /\ pc = op /\ \A s \in Server : replies[s] # << >>
  BY DEF Returned, Waiting
<1>2. SessionInv
  BY <1>1 DEF IInv
<1>3. ASSUME NEW s \in Server
      PROVE  /\ net[s] = {} /\ Shape(server[s], tree[s])
             /\ Settled(s) = server[s] /\ Answer(s) = Reply(s) /\ Place(s) = tree[s]
  <2>1. net[s] = {} /\ Shape(server[s], tree[s])
    BY <1>1 DEF IInv, Waits, ServerInv
  <2>2. Pending(s) = {}
    BY <2>1 DEF Pending
  <2>3. Outcome(s) = [srv |-> server[s], reply |-> replies[s]] /\ Place(s) = tree[s]
    BY <2>2 DEF Outcome, Place
  <2> QED BY <2>1, <2>3 DEF Settled, Answer, Reply
<1>4. ASSUME NEW s \in Server \ lost
      PROVE  server[s].coll.keys = AliveKeys(sent) /\ tree[s] = PlaceAt
  <2>1. Settled(s).coll.keys = AliveKeys(sent) /\ Place(s) = PlaceAt
    BY <1>2 DEF SessionInv
  <2> QED BY <1>3, <2>1
<1> QED BY <1>1, <1>2, <1>3, <1>4

\* What both servers will have made of the request req.
Made(req) == /\ lost = {} /\ lost' = {} /\ pc' = req.op
             /\ \A s \in Server : /\ Outcome(s)' = Handle(s, server[s], req)
                                  /\ Place(s)' = TreeAfter(s, req)

(* A request that fits the servers it reaches (Call). *)
LEMMA CallMakes ==
    ASSUME IInv, NEW op \in Rpc, Returned(op), UNCHANGED others,
           NEW req, req.op \in Rpc \ {"reset"}, req.session = session, Call(req),
           \A s \in Server \ lost : Fits(server[s], tree[s], req)
    PROVE  /\ Tables' /\ pc' \in Rpc \cup {"disconnected"}
           /\ \A s \in Server : ServerInv(s)' /\ Waits(s)'
           /\ Waiting' => Made(req)
<1>1. UNCHANGED <<server, session, lost, crashes, tree>>
  BY DEF others
<1>2. pc' = IF lost = {} THEN req.op ELSE "disconnected"
  BY DEF Call
<1>3. PICK reached \in SUBSET (Server \ lost) :
          /\ lost = {} => reached = Server
          /\ net' = [s \in Server |-> IF s \in reached THEN net[s] \cup {req} ELSE net[s]]
  BY DEF Call
<1>4. replies' = [s \in Server |-> << >>]
  BY DEF Call
<1>5. Tables'
  BY <1>1, <1>3, <1>4 DEF IInv, Tables
<1>6. \A s \in Server : net[s] = {} /\ Shape(server[s], tree[s])
  BY AtReturn
<1>7. ASSUME NEW s \in Server
      PROVE  /\ replies'[s] = << >>
             /\ net'[s] = IF s \in reached THEN {req} ELSE {}
  BY <1>3, <1>4, <1>6
<1>8. ASSUME NEW s \in Server PROVE ServerInv(s)'
  <2>1. session \in 1..session
    BY DEF IInv, LeaderTyped
  <2>2. ASSUME NEW r \in net'[s]
        PROVE  /\ r.op \in Rpc /\ r.op # "reset" /\ r.session \in 1..session
               /\ Fits(server[s], tree[s], r)
    <3>1. r = req /\ s \in Server \ lost
      BY <1>3, <1>7
    <3> QED BY <2>1, <3>1
  <2>3. InOrder(s)'
    BY <1>7 DEF InOrder
  <2> QED BY <1>1, <1>6, <2>2, <2>3 DEF ServerInv
<1>9. ASSUME Waiting'
      PROVE  /\ lost = {} /\ lost' = {} /\ pc' = req.op
             /\ \A s \in Server : net'[s] = {req} /\ Pending(s)' = {req}
  <2>1. lost = {}
    BY <1>2, <1>9 DEF Waiting, Rpc
  <2>2. \A s \in Server : net'[s] = {req}
    BY <1>3, <1>7, <2>1
  <2>3. \A s \in Server : Pending(s)' = {req}
    BY <1>1, <2>2 DEF Pending
  <2> QED BY <1>1, <1>2, <2>1, <2>2, <2>3
<1>10. ASSUME NEW s \in Server PROVE Waits(s)'
  <2>1. Waiting' => s \notin lost' /\ pc' # "done" /\ \E r \in net'[s] : Pending(s)' = {r} /\ r.op = pc'
    BY <1>9 DEF Rpc
  <2> QED BY <1>7, <2>1 DEF Waits
<1>11. ASSUME Waiting', NEW s \in Server
       PROVE  Outcome(s)' = Handle(s, server[s], req) /\ Place(s)' = TreeAfter(s, req)
  <2>1. Pending(s)' = {req}
    BY <1>9, <1>11
  <2>2. Request(s)' = req
    BY <2>1 DEF Request
  <2>3. Outcome(s)' = Handle(s, server[s], req)
    BY <1>1, <2>1, <2>2 DEF Outcome
  <2>4. Place(s)' = TreeAfter(s, req)
    BY <1>1, <2>1, <2>2 DEF Place, TreeAfter
  <2> QED BY <2>3, <2>4
<1> QED BY <1>2, <1>5, <1>8, <1>9, <1>10, <1>11 DEF Made

(* The smaller of two batch bounds. *)
LEMMA MinOfTwo ==
    ASSUME NEW a \in Nat, NEW b \in Nat
    PROVE  /\ Min({a, b}) \in Nat /\ Min({a, b}) <= a /\ Min({a, b}) <= b
           /\ Min({a, b}) = a \/ Min({a, b}) = b
<1>1. \E x \in {a, b} : \A y \in {a, b} : x <= y
  <2>1. CASE a <= b
    BY <2>1
  <2>2. CASE b <= a
    BY <2>2
  <2> QED BY <2>1, <2>2
<1>2. Min({a, b}) \in {a, b} /\ \A y \in {a, b} : Min({a, b}) <= y
  BY <1>1 DEF Min
<1> QED BY <1>2

(* Keys are stored in the order they are sent in (add_keys). *)
LEMMA AliveConcat ==
    ASSUME NEW ks \in Seq(Key), NEW b \in Seq(Key)
    PROVE  AliveKeys(ks) \o AliveKeys(b) = AliveKeys(ks \o b)
<1>1. PICK m \in Nat, n \in Nat : m = Len(ks) /\ n = Len(b) /\ DOMAIN ks = 1..m /\ DOMAIN b = 1..n
  OBVIOUS
<1>2. PICK x, y : x = AliveKeys(ks) /\ y = AliveKeys(b)
  OBVIOUS
<1>3. /\ x = [i \in 1..m |-> [alive |-> TRUE, key |-> ks[i]]]
      /\ y = [i \in 1..n |-> [alive |-> TRUE, key |-> b[i]]]
  BY <1>1, <1>2 DEF AliveKeys
<1>4. Len(x) = m /\ Len(y) = n /\ x \in Seq(StoredKey) /\ y \in Seq(StoredKey)
  <2>1. \A i \in 1..m : ks[i] \in Key
    BY <1>1, ElementOfSeq
  <2>2. \A i \in 1..n : b[i] \in Key
    BY <1>1, ElementOfSeq
  <2>3. x \in [1..m -> StoredKey] /\ y \in [1..n -> StoredKey]
    BY <1>3, <2>1, <2>2 DEF StoredKey
  <2>4. x \in Seq(StoredKey) /\ y \in Seq(StoredKey)
    BY <2>3
  <2> QED BY <1>3, <2>4
<1>5. PICK z : z = ks \o b
  OBVIOUS
<1>6. /\ z \in Seq(Key) /\ Len(z) = m + n /\ DOMAIN z = 1..(m + n)
      /\ \A i \in 1..(m + n) : z[i] = IF i <= m THEN ks[i] ELSE b[i - m]
  BY <1>1, <1>5, ConcatProperties
<1>7. PICK w : w = AliveKeys(z)
  OBVIOUS
<1>8. w = [i \in 1..(m + n) |-> [alive |-> TRUE, key |-> z[i]]]
  BY <1>6, <1>7 DEF AliveKeys
<1>9. PICK c : c = x \o y
  OBVIOUS
<1>10. /\ c \in Seq(StoredKey) /\ Len(c) = m + n
       /\ \A i \in 1..(m + n) : c[i] = IF i <= m THEN x[i] ELSE y[i - m]
  BY <1>4, <1>9, ConcatProperties
<1>11. ASSUME NEW i \in 1..(m + n) PROVE c[i] = [alive |-> TRUE, key |-> z[i]]
  <2>1. CASE i <= m
    <3>1. i \in 1..m
      BY <2>1
    <3>2. x[i] = [alive |-> TRUE, key |-> ks[i]]
      BY <1>3, <3>1
    <3>3. c[i] = x[i] /\ z[i] = ks[i]
      BY <1>6, <1>10, <2>1
    <3> QED BY <3>2, <3>3
  <2>2. CASE ~(i <= m)
    <3>1. i - m \in 1..n
      BY <2>2
    <3>2. y[i - m] = [alive |-> TRUE, key |-> b[i - m]]
      BY <1>3, <3>1
    <3>3. c[i] = y[i - m] /\ z[i] = b[i - m]
      BY <1>6, <1>10, <2>2
    <3> QED BY <3>2, <3>3
  <2> QED BY <2>1, <2>2
<1>12. c = [i \in 1..(m + n) |-> c[i]]
  BY <1>10, LenProperties
<1>13. c = w
  BY <1>8, <1>11, <1>12
<1> QED BY <1>2, <1>5, <1>7, <1>9, <1>13, Zenon

(* The next batch of keys, or tree_init after the last (main's loop over
   addkey_batch_size). *)
LEMMA KeysStepKeeps ==
    ASSUME IInv, KeysStep
    PROVE  IInv'
<1> USE SystemAssumption, DataLenAssumption
<1>1. PICK op \in {"reset", "add_keys"} : Returned(op)
  BY DEF KeysStep
<1>2. op \in Rpc /\ UNCHANGED others /\ UNCHANGED <<keys, level, start, vals, verified>>
  BY DEF KeysStep, Rpc
<1>3. UNCHANGED <<server, session, lost, crashes, tree>>
  BY <1>2 DEF others
<1>4. /\ SessionInv /\ pc = op
      /\ \A s \in Server : Shape(server[s], tree[s])
      /\ \A s \in Server \ lost : /\ server[s].coll.keys = AliveKeys(sent)
                                  /\ tree[s] = [phase |-> "collect", level |-> 0]
  BY <1>1, <1>2, AtReturn DEF PlaceAt
<1>5. /\ left \in 0..NReqs /\ sent \in Seq(Key) /\ Len(sent) + left = NReqs /\ Len(sent) \in Nat
      /\ keys \in GeneratedKeys
  BY <1>4, LenProperties DEF IInv, LeaderTyped, SessionInv
<1>6. CASE left = 0
  <2>1. PICK req : req = [op |-> "tree_init", session |-> session]
    OBVIOUS
  <2>2. req.op = "tree_init" /\ req.session = session /\ Call(req) /\ UNCHANGED <<left, sent>>
    BY <1>6, <2>1 DEF KeysStep, SendKeys, CallNext
  <2>3. \A s \in Server \ lost : Fits(server[s], tree[s], req)
    BY <1>4, <2>2 DEF Fits
  <2>4. req.op \in Rpc \ {"reset"}
    BY <2>2 DEF Rpc
  <2>5. /\ Tables' /\ pc' \in Rpc \cup {"disconnected"}
        /\ \A s \in Server : ServerInv(s)' /\ Waits(s)'
        /\ Waiting' => Made(req)
    BY <1>1, <1>2, <2>2, <2>3, <2>4, CallMakes
  <2>6. LeaderTyped'
    BY <1>2, <1>3, <2>2, <2>5 DEF IInv, LeaderTyped
  <2>7. Waiting' => SessionInv'
    <3> SUFFICES ASSUME Waiting' PROVE SessionInv'
      OBVIOUS
    <3>1. Made(req) /\ pc' = "tree_init" /\ lost = {}
      BY <2>2, <2>5 DEF Made
    <3>2. ASSUME NEW s \in Server
          PROVE  /\ Outcome(s)'.reply # << >> /\ Settled(s)'.coll.keys = AliveKeys(sent)
                 /\ Place(s)' = [phase |-> "pruned", level |-> 0]
                 /\ Paths(Settled(s)'.coll.frontier) = << << >> >>
      <4>1. server[s].coll.keys = AliveKeys(sent)
        BY <1>4, <3>1
      <4>2. PICK new : TreeStarted(s, server[s], tree[s], req, new)
        BY <1>4, <2>2, <2>3, <3>1, TreeInitHandled
      <4>3. Outcome(s)' = [srv |-> new, reply |-> <<"Done">>]
        BY <3>1, <4>2 DEF Made, TreeStarted
      <4>4. Settled(s)' = new /\ Outcome(s)'.reply # << >>
        BY <4>3 DEF Settled
      <4>5. Place(s)' = [phase |-> "pruned", level |-> 0]
        BY <2>2, <3>1, PlaceAfter DEF Made
      <4> QED BY <4>1, <4>2, <4>4, <4>5 DEF TreeStarted
    <3>3. PlaceAt' = [phase |-> "pruned", level |-> 0]
      BY <3>1 DEF PlaceAt
    <3>4. Len(sent') + left' = NReqs /\ left' = 0
      BY <1>5, <1>6, <2>2
    <3> QED BY <2>2, <3>1, <3>2, <3>3, <3>4 DEF SessionInv, Searching
  <2> QED BY <2>5, <2>6, <2>7 DEF IInv
<1>7. CASE left # 0
  <2>1. PICK n \in Nat : n = ThisBatch /\ n \in 1..left
    BY <1>5, <1>7, MinOfTwo DEF ThisBatch
  <2>2. PICK b \in [1..n -> Range(keys)] :
            /\ Call([op |-> "add_keys", session |-> session, keys |-> b])
            /\ left' = left - n /\ sent' = sent \o b
    BY <1>7, <2>1 DEF KeysStep, SendKeys
  <2>3. b \in Seq(Key) /\ Len(b) = n /\ b # << >>
    <3>1. Range(keys) \subseteq Key
      BY <1>5 DEF GeneratedKeys, Range
    <3>2. b \in [1..n -> Key]
      BY <3>1
    <3>3. b \in Seq(Key) /\ Len(b) = n
      BY <3>2
    <3> QED BY <2>1, <3>3
  <2>4. PICK req : req = [op |-> "add_keys", session |-> session, keys |-> b]
    OBVIOUS
  <2>5. req.op = "add_keys" /\ req.session = session /\ req.keys = b /\ Call(req)
    BY <2>2, <2>4
  <2>6. \A s \in Server \ lost : Fits(server[s], tree[s], req)
    <3>1. Len(AliveKeys(sent)) + Len(b) <= NReqs
      BY <1>5, <2>1, <2>3, AliveLength
    <3> QED BY <1>4, <2>3, <2>5, <3>1 DEF Fits
  <2>7. req.op \in Rpc \ {"reset"}
    BY <2>5 DEF Rpc
  <2>8. /\ Tables' /\ pc' \in Rpc \cup {"disconnected"}
        /\ \A s \in Server : ServerInv(s)' /\ Waits(s)'
        /\ Waiting' => Made(req)
    BY <1>1, <1>2, <2>5, <2>6, <2>7, CallMakes
  <2>9. sent' \in Seq(Key) /\ Len(sent') = Len(sent) + n
    BY <1>5, <2>2, <2>3, ConcatProperties
  <2>10. LeaderTyped'
    <3>1. left' \in 0..NReqs
      BY <1>5, <2>1, <2>2
    <3> QED BY <1>2, <1>3, <2>8, <2>9, <3>1 DEF IInv, LeaderTyped
  <2>11. Waiting' => SessionInv'
    <3> SUFFICES ASSUME Waiting' PROVE SessionInv'
      OBVIOUS
    <3>1. Made(req) /\ pc' = "add_keys" /\ lost = {}
      BY <2>5, <2>8 DEF Made
    <3>2. ASSUME NEW s \in Server
          PROVE  /\ Outcome(s)'.reply # << >> /\ Settled(s)'.coll.keys = AliveKeys(sent')
                 /\ Place(s)' = [phase |-> "collect", level |-> 0]
      <4>1. server[s].coll.keys = AliveKeys(sent)
        BY <1>4, <3>1
      <4>2. PICK new : KeysAdded(s, server[s], tree[s], req, new)
        BY <1>4, <2>5, <2>6, <3>1, AddKeysHandled
      <4>3. PICK v : Outcome(s)' = [srv |-> new, reply |-> <<v>>]
        BY <3>1, <4>2, Zenon DEF Made, KeysAdded
      <4>4. Settled(s)' = new /\ Outcome(s)'.reply # << >>
        BY <4>3 DEF Settled
      <4>5. Place(s)' = [phase |-> "collect", level |-> 0]
        BY <2>5, <3>1, PlaceAfter DEF Made
      <4>6. new.coll.keys = AliveKeys(sent) \o AliveKeys(b)
        <5>1. new.coll.keys = server[s].coll.keys \o AliveKeys(req.keys)
          BY <4>2, Zenon DEF KeysAdded
        <5> QED BY <2>5, <4>1, <5>1
      <4>7. new.coll.keys = AliveKeys(sent')
        BY <1>5, <2>2, <2>3, <4>6, AliveConcat
      <4> QED BY <4>4, <4>5, <4>7
    <3>3. PlaceAt' = [phase |-> "collect", level |-> 0]
      BY <3>1 DEF PlaceAt
    <3>4. Len(sent') + left' = NReqs
      <4>1. PICK m \in Nat, l \in Nat : m = Len(sent) /\ l = left
        BY <1>5
      <4>2. Len(sent') = m + n /\ left' = l - n /\ m + l = NReqs
        BY <1>5, <2>2, <2>9, <4>1
      <4>3. (m + n) + (l - n) = m + l
        OBVIOUS
      <4> QED BY <4>2, <4>3, Zenon
    <3> QED BY <3>1, <3>2, <3>3, <3>4 DEF SessionInv, Searching
  <2> QED BY <2>8, <2>10, <2>11 DEF IInv
<1> QED BY <1>6, <1>7

LEMMA ThresholdType == Threshold \in Nat /\ Threshold >= 1
<1> USE SystemAssumption
<1>1. PICK d \in Nat : d = (ThresholdNum * NReqs) \div ThresholdDen
  OBVIOUS
<1>2. \E x \in {1, d} : \A y \in {1, d} : x >= y
  <2>1. CASE d <= 1
    BY <2>1
  <2>2. CASE 1 <= d
    BY <2>2
  <2> QED BY <2>1, <2>2
<1>3. Max({1, d}) \in {1, d} /\ \A y \in {1, d} : Max({1, d}) >= y
  BY <1>2 DEF Max
<1> QED BY <1>1, <1>3 DEF Threshold

(* The strings of the keys that were sent. *)
LEMMA SentStrings ==
    ASSUME sent \in Seq(Key)
    PROVE  SentVotes = Bits(sent) /\ SentVotes \in Seq(BitString) /\ Len(SentVotes) = Len(sent)
<1>1. PICK n \in Nat : n = Len(sent) /\ DOMAIN sent = 1..n
  BY LenProperties
<1>2. \A i \in 1..n : sent[i].bits \in BitString
  <2>1. \A i \in 1..n : sent[i] \in Key
    BY <1>1, ElementOfSeq
  <2> QED BY <2>1 DEF Key
<1>3. PICK v : v = SentVotes
  OBVIOUS
<1>4. v = [i \in 1..n |-> sent[i].bits]
  BY <1>1, <1>3 DEF SentVotes
<1>5. v \in [1..n -> BitString]
  BY <1>2, <1>4
<1>6. v \in Seq(BitString) /\ Len(v) = n
  BY <1>4, <1>5
<1> QED BY <1>1, <1>3, <1>6 DEF SentVotes, Bits

\* No string that enough clients hold is outside the prefixes P of a level l.
Covers(P, l) == /\ P \in Seq(BitPath(l)) /\ IsInjective(P)
                /\ \A q \in BitPath(l) : Count(SentVotes, q) >= Threshold => q \in Range(P)

(* The children of the prefixes of a level cover the next level. *)
LEMMA ChildrenCover ==
    ASSUME sent \in Seq(Key), NEW l \in Nat, NEW Q, Covers(Q, l)
    PROVE  Covers(ChildPaths(Q), l + 1)
<1>1. Q \in Seq(BitPath(l)) /\ IsInjective(Q)
  BY DEF Covers
<1>2. ChildPaths(Q) \in Seq(BitPath(l + 1)) /\ IsInjective(ChildPaths(Q))
  BY <1>1, ChildPathsAreChildren
<1>3. PICK v, th : v = SentVotes /\ th = Threshold
  OBVIOUS
<1>4. /\ v \in Seq(BitString) /\ th \in Nat
      /\ \A q \in BitPath(l) : Count(v, q) >= th => q \in Range(Q)
  BY <1>3, SentStrings, ThresholdType DEF Covers
<1>5. \A q \in BitPath(l + 1) : Count(v, q) >= th => q \in Range(ChildPaths(Q))
  BY <1>1, <1>4, ChildrenOfHeavy
<1> QED BY <1>2, <1>3, <1>5 DEF Covers

\* A server's frontier is at the paths C, with its shares of their counts.
AtChildren(s, nodes, C) ==
    /\ IsFrontier(nodes, C, NReqs)
    /\ \A i \in 1..Len(C) : nodes[i].value = NodeValue(s, server[s].coll, C[i])

(* The values of two frontiers at the same paths are shares of the counts. *)
LEMMA ValuesShare ==
    ASSUME sent \in Seq(Key), Len(sent) = NReqs, NEW n \in 0..DataLen, NEW C \in Seq(BitPath(n)),
           \A s \in Server : server[s].coll.keys = AliveKeys(sent),
           NEW n0, NEW n1, AtChildren(0, n0, C), AtChildren(1, n1, C)
    PROVE  SharesOf(Values(n0), Values(n1), C)
<1> USE SystemAssumption
<1>1. /\ DOMAIN Values(n0) = 1..Len(C) /\ Len(Values(n0)) = Len(C)
      /\ DOMAIN Values(n1) = 1..Len(C) /\ Len(Values(n1)) = Len(C)
      /\ \A i \in 1..Len(C) : Values(n0)[i] = n0[i].value /\ Values(n1)[i] = n1[i].value
  BY FrontierParts DEF AtChildren
<1>2. PICK c, d : c = server[0].coll /\ d = server[1].coll
  OBVIOUS
<1>3. c.keys = AliveKeys(sent) /\ d.keys = AliveKeys(sent)
  BY <1>2 DEF Server
<1>4. Len(sent) < Modulus
  BY ModulusAssumption
<1>5. ASSUME NEW i \in 1..Len(C)
      PROVE  Reconstruct(Values(n0)[i], Values(n1)[i]) = Count(SentVotes, C[i])
  <2>1. C[i] \in BitPath(n)
    BY ElementOfSeq
  <2>2. Reconstruct(NodeValue(0, c, C[i]), NodeValue(1, d, C[i])) = Count(Bits(sent), C[i])
    BY <1>3, <1>4, <2>1, CountsOpen
  <2>3. Values(n0)[i] = NodeValue(0, c, C[i]) /\ Values(n1)[i] = NodeValue(1, d, C[i])
    BY <1>1, <1>2 DEF AtChildren
  <2> QED BY <2>2, <2>3, SentStrings
<1> QED BY <1>1, <1>5 DEF SharesOf

(* After a crawl: both frontiers are at the children, and the values that are
   answered open to their counts (run_level, run_level_last). *)
LEMMA CrawlMakes ==
    ASSUME SessionInv, NEW l \in 0..(DataLen - 1), level' = l,
           sent \in Seq(Key), Len(sent) = NReqs, UNCHANGED <<sent, left>>, left = 0,
           NEW Q, Covers(Q, l), NEW req, req.op = "tree_crawl", req.last = (l = DataLen - 1),
           Made(req),
           \A s \in Server : /\ Shape(server[s], tree[s])
                             /\ server[s].coll.keys = AliveKeys(sent)
                             /\ tree[s] = [phase |-> "pruned", level |-> l]
                             /\ Paths(server[s].coll.frontier) = Q
    PROVE  SessionInv'
<1> USE DataLenAssumption
<1>1. l \in Nat /\ l + 1 \in 0..DataLen /\ (l = DataLen - 1 <=> l + 1 = DataLen)
  OBVIOUS
<1>2. pc' = "tree_crawl" /\ lost = {} /\ lost' = {}
  BY DEF Made
<1>3. PICK C : C = ChildPaths(Q)
  OBVIOUS
<1>4. Covers(C, l + 1) /\ C \in Seq(BitPath(l + 1))
  BY <1>1, <1>3, ChildrenCover DEF Covers
<1>5. ASSUME NEW s \in Server
      PROVE  /\ Outcome(s)'.reply # << >> /\ Settled(s)'.coll.keys = AliveKeys(sent)
             /\ AtChildren(s, Nodes(s)', C) /\ Answer(s)' = Values(Nodes(s)')
             /\ Place(s)' = [phase |-> "crawled", level |-> l + 1]
  <2>1. Fits(server[s], tree[s], req)
    <3>1. tree[s].phase = "pruned" /\ tree[s].level = l
      OBVIOUS
    <3>2. tree[s].level < DataLen /\ req.last = (tree[s].level + 1 = DataLen)
      BY <1>1, <3>1
    <3> QED BY <3>1, <3>2 DEF Fits
  <2>2. PICK new : Crawled(s, server[s], tree[s], req, Q, new)
    BY <2>1, CrawlHandled
  <2>3. PICK nodes : nodes = FrontierOf(new.coll, req.last)
    OBVIOUS
  <2>4. Outcome(s)' = [srv |-> new, reply |-> <<Values(nodes)>>]
    BY <2>2, <2>3 DEF Made, Crawled
  <2>5. Settled(s)' = new /\ Answer(s)' = Values(nodes) /\ Outcome(s)'.reply # << >>
    BY <2>4 DEF Settled, Answer
  <2>6. Nodes(s)' = nodes
    BY <2>3, <2>5 DEF Nodes, LastLevel
  <2>7. new.coll.keys = AliveKeys(sent)
    BY <2>2 DEF Crawled
  <2>8. AtChildren(s, nodes, C)
    <3>1. Len(server[s].coll.keys) = NReqs
      BY AliveLength
    <3> QED BY <1>3, <2>2, <2>3, <3>1 DEF Crawled, AtChildren
  <2>9. Place(s)' = [phase |-> "crawled", level |-> l + 1]
    <3>1. TreeAfter(s, req) = [phase |-> "crawled", level |-> tree[s].level + 1]
      BY PlaceAfter
    <3>2. tree[s].level = l
      OBVIOUS
    <3> QED BY <3>1, <3>2 DEF Made
  <2> QED BY <2>5, <2>6, <2>7, <2>8, <2>9
<1>6. 0 \in Server /\ 1 \in Server
  BY DEF Server
<1>7. SharesOf(Values(Nodes(0)'), Values(Nodes(1)'), C)
  <2>1. PICK n0, n1 : n0 = Nodes(0)' /\ n1 = Nodes(1)'
    OBVIOUS
  <2>2. AtChildren(0, n0, C) /\ AtChildren(1, n1, C)
    BY <1>5, <1>6, <2>1
  <2> QED BY <1>1, <1>4, <2>1, <2>2, ValuesShare
<1>8. \A s \in Server : Paths(Nodes(s)') = C
  BY <1>4, <1>5, FrontierParts DEF AtChildren
<1>9. AtPaths(C)'
  <2>1. Complete(C)'
    BY <1>4 DEF Complete, Covers, SentVotes
  <2>2. SentVotes' = SentVotes
    BY DEF SentVotes
  <2>3. SharesOf(Values(Nodes(0)), Values(Nodes(1)), C)'
    BY <1>7, <2>2 DEF SharesOf
  <2>4. SharesOf(Answer(0), Answer(1), C)'
    BY <1>5, <1>6, <1>7, <2>2 DEF SharesOf
  <2> QED BY <1>2, <1>8, <2>1, <2>3, <2>4 DEF AtPaths
<1>10. \E P \in Seq(BitPath(level' + 1)) : AtPaths(P)'
  BY <1>4, <1>9
<1>11. PlaceAt' = [phase |-> "crawled", level |-> l + 1]
  BY <1>2 DEF PlaceAt
<1> QED BY <1>2, <1>5, <1>10, <1>11 DEF SessionInv, Searching

(* The leader has a whole level's prefixes in hand and crawls the next. *)
LEMMA CrawlStepKeeps ==
    ASSUME IInv, NEW op \in Rpc, Returned(op), NEW l \in 0..(DataLen - 1), Crawl(l),
           UNCHANGED <<others, keys, left, start, vals, sent, verified>>, left = 0,
           NEW Q, Covers(Q, l),
           \A s \in Server \ lost : /\ tree[s] = [phase |-> "pruned", level |-> l]
                                    /\ Paths(server[s].coll.frontier) = Q
    PROVE  IInv'
<1> USE SystemAssumption, DataLenAssumption
<1>1. UNCHANGED others /\ UNCHANGED <<keys, left, start, vals, sent, verified, session, lost, crashes>>
  BY DEF others
<1>2. PICK req : req = [op |-> "tree_crawl", session |-> session, last |-> l = DataLen - 1]
  OBVIOUS
<1>3. req.op = "tree_crawl" /\ req.session = session /\ Call(req) /\ level' = l
  BY <1>2 DEF Crawl
<1>4. req.last = (l = DataLen - 1)
  BY <1>2
<1>5. /\ SessionInv /\ \A s \in Server : Shape(server[s], tree[s])
      /\ \A s \in Server \ lost : server[s].coll.keys = AliveKeys(sent)
  BY AtReturn
<1>6. ASSUME NEW s \in Server \ lost PROVE Fits(server[s], tree[s], req)
  <2>1. tree[s].phase = "pruned" /\ tree[s].level = l
    OBVIOUS
  <2>2. tree[s].level < DataLen /\ (l = DataLen - 1 <=> tree[s].level + 1 = DataLen)
    BY <2>1
  <2>3. req.last = (tree[s].level + 1 = DataLen)
    BY <1>4, <2>2
  <2> QED BY <1>3, <2>1, <2>2, <2>3 DEF Fits
<1>7. /\ Tables' /\ pc' \in Rpc \cup {"disconnected"}
      /\ \A s \in Server : ServerInv(s)' /\ Waits(s)'
      /\ Waiting' => Made(req)
  <2>1. req.op \in Rpc \ {"reset"}
    BY <1>3 DEF Rpc
  <2> QED BY <1>1, <1>3, <1>6, <2>1, CallMakes
<1>8. sent \in Seq(Key) /\ Len(sent) = NReqs
  BY <1>5, LenProperties DEF IInv, LeaderTyped, SessionInv
<1>9. LeaderTyped'
  BY <1>1, <1>3, <1>7 DEF IInv, LeaderTyped
<1>10. Waiting' => SessionInv'
  <2> SUFFICES ASSUME Waiting' PROVE SessionInv'
    OBVIOUS
  <2>1. Made(req) /\ lost = {}
    BY <1>7 DEF Made
  <2>2. \A s \in Server : /\ Shape(server[s], tree[s])
                          /\ server[s].coll.keys = AliveKeys(sent)
                          /\ tree[s] = [phase |-> "pruned", level |-> l]
                          /\ Paths(server[s].coll.frontier) = Q
    BY <1>5, <2>1
  <2>3. UNCHANGED <<sent, left>>
    BY <1>1
  <2> QED BY <1>3, <1>4, <1>5, <1>8, <2>1, <2>2, <2>3, CrawlMakes
<1> QED BY <1>7, <1>9, <1>10 DEF IInv

LEMMA TreeInitReturnedKeeps ==
    ASSUME IInv, TreeInitReturned
    PROVE  IInv'
<1> USE DataLenAssumption
<1>1. /\ Returned("tree_init") /\ Crawl(0) /\ "tree_init" \in Rpc
      /\ UNCHANGED <<others, keys, left, start, vals, sent, verified>>
  BY DEF TreeInitReturned, Rpc
<1>2. /\ SessionInv /\ pc = "tree_init"
      /\ \A s \in Server : Settled(s) = server[s]
      /\ \A s \in Server \ lost : tree[s] = PlaceAt
  BY <1>1, AtReturn
<1>3. left = 0 /\ 0 \in 0..(DataLen - 1)
  BY <1>2 DEF SessionInv
<1>4. \A s \in Server \ lost : /\ tree[s] = [phase |-> "pruned", level |-> 0]
                               /\ Paths(server[s].coll.frontier) = << << >> >>
  BY <1>2 DEF SessionInv, PlaceAt
<1>5. Covers(<< << >> >>, 0)
  <2>1. << >> \in BitPath(0) /\ \A q \in BitPath(0) : q = << >>
    BY RootPath
  <2>2. << << >> >> \in Seq(BitPath(0)) /\ IsInjective(<< << >> >>)
    BY <2>1 DEF IsInjective
  <2>3. << >> \in Range(<< << >> >>)
    BY DEF Range
  <2> QED BY <2>1, <2>2, <2>3 DEF Covers
<1> QED BY <1>1, <1>3, <1>4, <1>5, CrawlStepKeeps

(* The level is pruned: the next one is crawled, or the counts are asked for. *)
LEMMA PruneReturnedKeeps ==
    ASSUME IInv, PruneReturned
    PROVE  IInv'
<1> USE SystemAssumption, DataLenAssumption
<1>1. /\ Returned("tree_prune") /\ "tree_prune" \in Rpc
      /\ UNCHANGED <<others, keys, left, start, vals, sent, verified>>
  BY DEF PruneReturned, Rpc
<1>2. /\ SessionInv /\ pc = "tree_prune" /\ level \in 0..(DataLen - 1) /\ left = 0
      /\ \A s \in Server : Settled(s) = server[s] /\ Shape(server[s], tree[s])
      /\ \A s \in Server \ lost : /\ tree[s] = PlaceAt
                                  /\ server[s].coll.keys = AliveKeys(sent)
  BY <1>1, AtReturn DEF IInv, LeaderTyped, SessionInv
<1>3. PICK P \in Seq(BitPath(level + 1)) : AtPaths(P)
  BY <1>2 DEF SessionInv, Searching
<1>4. \A s \in Server \ lost :
          /\ tree[s] = [phase |-> IF LastLevel THEN "done" ELSE "pruned", level |-> level + 1]
          /\ Paths(FrontierOf(server[s].coll, LastLevel)) = P
  BY <1>2, <1>3 DEF AtPaths, PlaceAt, Nodes
<1>5. CASE ~LastLevel
  <2>1. level + 1 \in 0..(DataLen - 1)
    BY <1>2, <1>5 DEF LastLevel
  <2>2. Covers(P, level + 1)
    BY <1>3 DEF AtPaths, Complete, Covers
  <2>3. \A s \in Server \ lost : /\ tree[s] = [phase |-> "pruned", level |-> level + 1]
                                 /\ Paths(server[s].coll.frontier) = P
    BY <1>4, <1>5 DEF FrontierOf
  <2>4. Crawl(level + 1)
    BY <1>5 DEF PruneReturned
  <2> QED BY <1>1, <1>2, <2>1, <2>2, <2>3, <2>4, CrawlStepKeeps
<1>6. CASE LastLevel
  <2>1. PICK req : req = [op |-> "final_shares", session |-> session]
    OBVIOUS
  <2>2. req.op = "final_shares" /\ req.session = session /\ Call(req) /\ level' = level
    BY <1>6, <2>1 DEF PruneReturned, CallNext
  <2>3. UNCHANGED others /\ UNCHANGED <<keys, left, level, start, vals, sent, verified, session, lost, crashes>>
    BY <1>1, <2>2 DEF others
  <2>4. /\ Tables' /\ pc' \in Rpc \cup {"disconnected"}
        /\ \A s \in Server : ServerInv(s)' /\ Waits(s)'
        /\ Waiting' => Made(req)
    <3>1. req.op \in Rpc \ {"reset"}
      BY <2>2 DEF Rpc
    <3>2. \A s \in Server \ lost : Fits(server[s], tree[s], req)
      BY <2>2 DEF Fits
    <3> QED BY <1>1, <2>2, <2>3, <3>1, <3>2, CallMakes
  <2>5. LeaderTyped'
    BY <2>3, <2>4 DEF IInv, LeaderTyped
  <2>6. ASSUME Waiting' PROVE SessionInv'
    <3>1. Made(req) /\ lost = {} /\ lost' = {} /\ pc' = "final_shares"
      BY <2>2, <2>4, <2>6 DEF Made
    <3>2. ASSUME NEW s \in Server
          PROVE  /\ Outcome(s)'.reply # << >> /\ Settled(s)' = server[s]
                 /\ Answer(s)' = FinalShares(server[s].coll) /\ Place(s)' = tree[s]
      <4>1. Outcome(s)' = [srv |-> server[s], reply |-> <<FinalShares(server[s].coll)>>]
        BY <1>2, <2>2, <3>1, FinalHandled DEF Made
      <4>2. Place(s)' = tree[s]
        BY <2>2, <3>1, PlaceAfter DEF Made
      <4> QED BY <4>1, <4>2 DEF Settled, Answer
    <3>3. ASSUME NEW s \in Server
          PROVE  /\ Nodes(s)' = Nodes(s) /\ Paths(Nodes(s)) = P
                 /\ DOMAIN Answer(s)' = 1..Len(P) /\ Paths(Answer(s)') = P
                 /\ Values(Answer(s)') = Values(Nodes(s))
      <4>1. PICK nodes : nodes = server[s].coll.frontierLast
        OBVIOUS
      <4>2. Nodes(s)' = nodes /\ Nodes(s) = nodes
        BY <1>2, <1>6, <2>3, <3>2, <4>1 DEF Nodes, FrontierOf, LastLevel
      <4>3. Paths(nodes) = P
        BY <1>3, <3>1, <4>2 DEF AtPaths
      <4>4. DOMAIN nodes = 1..Len(P)
        BY <4>3, LenProperties DEF Paths
      <4>5. PICK f : f = FinalShares(server[s].coll)
        OBVIOUS
      <4>6. f = [i \in DOMAIN nodes |-> [path |-> nodes[i].path, value |-> nodes[i].value]]
        BY <4>1, <4>5 DEF FinalShares
      <4>7. Paths(f) = Paths(nodes) /\ Values(f) = Values(nodes)
        BY <4>6 DEF Paths, Values
      <4> QED BY <3>2, <4>2, <4>3, <4>4, <4>5, <4>6, <4>7
    <3>4. SharesOf(Values(Nodes(0)), Values(Nodes(1)), P)
      BY <1>3, <3>1 DEF AtPaths
    <3>5. SentVotes' = SentVotes /\ (LastLevel' <=> LastLevel) /\ 0 \in Server /\ 1 \in Server
      BY <2>3 DEF SentVotes, LastLevel, Server
    <3>6. AtPaths(P)'
      <4>1. Complete(P)'
        BY <1>3, <2>3, <3>5 DEF AtPaths, Complete
      <4>2. SharesOf(Values(Nodes(0)), Values(Nodes(1)), P)'
        BY <3>3, <3>4, <3>5 DEF SharesOf
      <4>3. SharesOf(Values(Answer(0)), Values(Answer(1)), P)'
        BY <3>3, <3>4, <3>5 DEF SharesOf
      <4>4. \A i \in 1..Len(P) : Count(SentVotes', P[i]) >= Threshold
        BY <1>2, <1>3, <3>5 DEF AtPaths
      <4> QED BY <1>6, <3>1, <3>3, <3>5, <4>1, <4>2, <4>3, <4>4 DEF AtPaths
    <3>7. \E R \in Seq(BitPath(level' + 1)) : AtPaths(R)'
      BY <1>3, <2>3, <3>6
    <3>8. PlaceAt' = [phase |-> "done", level |-> level + 1]
      BY <1>6, <2>3, <3>1, <3>5 DEF PlaceAt
    <3>9. \A s \in Server : Place(s)' = PlaceAt'
      BY <1>4, <1>6, <3>1, <3>2, <3>8
    <3> QED BY <1>2, <2>3, <3>1, <3>2, <3>7, <3>9 DEF SessionInv, Searching
  <2> QED BY <2>4, <2>5, <2>6 DEF IInv
<1> QED BY <1>5, <1>6

\* Between the crawl of a level and its prune: the servers' frontiers are at
\* P, and v opens to the counts of P.  The batch from key st on comes next.
Between(P, v, st) ==
    /\ left = 0 /\ sent \in Seq(Key) /\ Len(sent) = NReqs /\ level \in 0..(DataLen - 1)
    /\ Complete(P) /\ SharesOf(v[0], v[1], P)
    /\ \A s \in Server \ lost :
          /\ server[s].coll.keys = AliveKeys(sent)
          /\ tree[s] = [phase |-> "crawled", level |-> level + 1]
          /\ Paths(FrontierOf(server[s].coll, LastLevel)) = P
    /\ lost = {} => SharesOf(Values(FrontierOf(server[0].coll, LastLevel)),
                             Values(FrontierOf(server[1].coll, LastLevel)), P)
    /\ st \in Nat

\* The leader's variables when it sends that request.
Sends(v, st) == /\ UNCHANGED others /\ UNCHANGED <<keys, left, level, sent>>
                /\ vals' = v /\ start' = st
                /\ verified' = [i \in 1..NReqs |-> IF i <= st THEN 1 ELSE 0]

LEMMA BatchEndType ==
    ASSUME NEW st \in Nat, st < NReqs
    PROVE  BatchEnd(st) \in Nat /\ st < BatchEnd(st) /\ BatchEnd(st) <= NReqs
<1> USE SystemAssumption
<1>1. PICK k \in Nat \ {0} : k = BatchSize
  BY DEF BatchSize
<1>2. PICK e \in Nat : e = st + k
  OBVIOUS
<1>3. BatchEnd(st) = Min({NReqs, e})
  BY <1>1, <1>2 DEF BatchEnd
<1> QED BY <1>2, <1>3, MinOfTwo

(* A batch of sketches: both servers hold the same states (run_level's loop). *)
LEMMA SketchStepKeeps ==
    ASSUME IInv, NEW op \in Rpc, Returned(op), NEW P, NEW v, NEW st, Between(P, v, st),
           Sends(v, st), st < NReqs, NEW req,
           req = [op |-> "tree_sketch_frontier", session |-> session, last |-> LastLevel,
                  level |-> level, start |-> st, end |-> BatchEnd(st)],
           Call(req)
    PROVE  IInv'
<1> USE SystemAssumption, DataLenAssumption
<1>1. /\ req.op = "tree_sketch_frontier" /\ req.session = session /\ req.last = LastLevel
      /\ req.level = level /\ req.start = st /\ req.end = BatchEnd(st)
  OBVIOUS
<1>2. /\ UNCHANGED others
      /\ UNCHANGED <<keys, left, level, sent, server, session, lost, crashes, tree>>
  BY DEF Sends, others
<1>3. /\ SessionInv /\ \A s \in Server : Shape(server[s], tree[s])
  BY AtReturn
<1>4. ASSUME NEW s \in Server \ lost PROVE Fits(server[s], tree[s], req)
  <2>1. tree[s].phase = "crawled" /\ tree[s].level = level + 1 /\ level \in 0..(DataLen - 1)
    BY DEF Between
  <2>2. level \in Nat /\ level = (level + 1) - 1 /\ (LastLevel <=> level + 1 = DataLen)
    BY <2>1 DEF LastLevel
  <2>3. req.last = (tree[s].level = DataLen)
    BY <1>1, <2>1, <2>2 DEF LastLevel
  <2>4. Len(server[s].coll.keys) = NReqs
    BY AliveLength DEF Between
  <2>5. BatchEnd(st) \in Nat /\ st < BatchEnd(st) /\ BatchEnd(st) <= NReqs /\ st \in Nat
    BY BatchEndType DEF Between
  <2> HIDE DEF BatchEnd
  <2> QED BY <1>1, <2>1, <2>2, <2>3, <2>4, <2>5 DEF Fits
<1>5. /\ Tables' /\ pc' \in Rpc \cup {"disconnected"}
      /\ \A s \in Server : ServerInv(s)' /\ Waits(s)'
      /\ Waiting' => Made(req)
  <2>1. req.op \in Rpc \ {"reset"}
    BY <1>1 DEF Rpc
  <2> QED BY <1>1, <1>2, <1>4, <2>1, CallMakes
<1>6. LeaderTyped'
  <2>1. verified' \in [1..NReqs -> Nat] /\ start' \in Nat
    BY DEF Sends, Between
  <2> QED BY <1>2, <1>5, <2>1 DEF IInv, LeaderTyped
<1>7. ASSUME Waiting' PROVE SessionInv'
  <2>1. Made(req) /\ lost = {} /\ lost' = {} /\ pc' = "tree_sketch_frontier"
    BY <1>1, <1>5, <1>7 DEF Made
  <2>2. PICK states : states = BatchStates(P)'
    OBVIOUS
  <2>3. states = [i \in 1..(BatchEnd(st) - st) |->
                    [sketch |-> [key |-> sent[st + i], paths |-> P],
                     level  |-> IF LastLevel THEN 0 ELSE level]]
    BY <1>2, <2>2 DEF BatchStates, Sends, BatchEnd, BatchSize, LastLevel
  <2>4. ASSUME NEW s \in Server PROVE StatesFor(server[s], req) = states
    <3>1. StatesFor(server[s], req)
            = [i \in 1..(BatchEnd(st) - st) |->
                 [sketch |-> [key |-> server[s].coll.keys[st + i].key, paths |-> P],
                  level  |-> IF LastLevel THEN 0 ELSE level]]
      BY <1>1, <2>1 DEF StatesFor, Between
    <3>2. PICK e \in Nat : e = BatchEnd(st)
      BY BatchEndType DEF Between
    <3>3. e <= NReqs /\ st \in Nat
      BY <3>2, BatchEndType DEF Between
    <3>4. ASSUME NEW i \in 1..(e - st)
          PROVE  server[s].coll.keys[st + i].key = sent[st + i]
      <4>1. st + i \in 1..NReqs
        BY <3>3
      <4>2. server[s].coll.keys = AliveKeys(sent) /\ DOMAIN sent = 1..NReqs
        BY <2>1, LenProperties DEF Between
      <4> QED BY <4>1, <4>2 DEF AliveKeys
    <3> HIDE DEF BatchEnd
    <3> QED BY <2>3, <3>1, <3>2, <3>4
  <2>5. ASSUME NEW s \in Server
        PROVE  /\ Outcome(s)'.reply # << >> /\ Settled(s)'.coll = server[s].coll
               /\ Answer(s)' = states /\ Place(s)' = tree[s]
               /\ Mul(Settled(s)', LastLevel) = states
    <3>1. PICK new : Sketched(s, server[s], tree[s], req, states, new)
      BY <1>1, <1>3, <1>4, <2>1, <2>4, SketchHandled
    <3>2. Outcome(s)' = [srv |-> new, reply |-> <<states>>]
      BY <2>1, <3>1 DEF Made, Sketched
    <3>3. Place(s)' = tree[s]
      BY <1>1, <2>1, PlaceAfter DEF Made
    <3> QED BY <1>1, <3>1, <3>2, <3>3 DEF Settled, Answer, Sketched
  <2>6. SentVotes' = SentVotes /\ LastLevel' = LastLevel /\ 0 \in Server /\ 1 \in Server
    BY <1>2 DEF SentVotes, LastLevel, Server
  <2>7. \A s \in Server : Nodes(s)' = FrontierOf(server[s].coll, LastLevel)
    BY <2>5, <2>6 DEF Nodes
  <2>8. AtPaths(P)'
    <3>1. Complete(P)'
      BY <1>2, <2>6 DEF Complete, Between
    <3>2. SharesOf(Values(Nodes(0)), Values(Nodes(1)), P)'
      BY <2>1, <2>6, <2>7 DEF SharesOf, Between
    <3>3. SharesOf(vals[0], vals[1], P)'
      BY <2>6 DEF SharesOf, Between, Sends
    <3>4. start' < NReqs /\ verified' = [i \in 1..NReqs |-> IF i <= start' THEN 1 ELSE 0]
      BY DEF Sends
    <3>5. \A s \in Server : /\ Answer(s)' = BatchStates(P)'
                            /\ Mul(Settled(s)', LastLevel') = BatchStates(P)'
      BY <2>2, <2>5, <2>6
    <3>6. \A s \in Server : Paths(Nodes(s)') = P
      BY <2>1, <2>7 DEF Between
    <3> QED BY <2>1, <3>1, <3>2, <3>3, <3>4, <3>5, <3>6 DEF AtPaths
  <2>9. \E R \in Seq(BitPath(level' + 1)) : AtPaths(R)'
    BY <1>2, <2>8 DEF Between, Complete
  <2>10. \A s \in Server : Settled(s)'.coll.keys = AliveKeys(sent') /\ Place(s)' = PlaceAt'
    BY <1>2, <2>1, <2>5 DEF Between, PlaceAt
  <2> QED BY <1>2, <2>1, <2>5, <2>9, <2>10 DEF SessionInv, Searching, Between
<1> QED BY <1>5, <1>6, <1>7 DEF IInv

(* The prune: exactly the prefixes that enough clients hold are kept, by both
   servers (keep_values and tree_prune). *)
LEMMA PruneStepKeeps ==
    ASSUME IInv, NEW op \in Rpc, Returned(op), NEW P, NEW v, NEW st, Between(P, v, st),
           Sends(v, st), ~(st < NReqs), NEW req,
           req = [op |-> "tree_prune", session |-> session, last |-> LastLevel,
                  keep |-> KeepValues(Threshold, v[0], v[1])],
           Call(req)
    PROVE  IInv'
<1> USE SystemAssumption, DataLenAssumption
<1>1. PICK keep : keep = KeepValues(Threshold, v[0], v[1])
  OBVIOUS
<1>2. /\ req.op = "tree_prune" /\ req.session = session /\ req.last = LastLevel
      /\ req.keep = keep
  BY <1>1
<1>3. /\ UNCHANGED others
      /\ UNCHANGED <<keys, left, level, sent, server, session, lost, crashes, tree>>
  BY DEF Sends, others
<1>4. /\ SessionInv /\ \A s \in Server : Shape(server[s], tree[s])
  BY AtReturn
<1>5. PICK n \in Nat : n = Len(P) /\ P \in Seq(BitPath(level + 1)) /\ level + 1 \in Nat
  BY LenProperties DEF Between, Complete
<1>6. SentVotes \in Seq(BitString) /\ Len(SentVotes) = NReqs
  BY SentStrings DEF Between
<1>7. /\ keep = [i \in 1..n |-> Reconstruct(v[0][i], v[1][i]) >= Threshold]
      /\ \A i \in 1..n : Reconstruct(v[0][i], v[1][i]) = Count(SentVotes, P[i])
  BY <1>1, <1>5 DEF KeepValues, Between, SharesOf
<1>8. /\ DOMAIN keep = 1..n /\ Len(keep) = n
      /\ \A i \in 1..n : keep[i] <=> Count(SentVotes, P[i]) >= Threshold
  <2>1. DOMAIN keep = 1..n
    BY <1>7
  <2>2. Len(keep) = n
    BY <1>7
  <2>3. ASSUME NEW i \in 1..n PROVE keep[i] <=> Count(SentVotes, P[i]) >= Threshold
    <3>1. keep[i] = (Reconstruct(v[0][i], v[1][i]) >= Threshold)
      BY <1>7
    <3>2. Reconstruct(v[0][i], v[1][i]) = Count(SentVotes, P[i])
      BY <1>7
    <3> QED BY <3>1, <3>2
  <2> QED BY <2>1, <2>2, <2>3
<1>9. ASSUME NEW s \in Server \ lost
      PROVE  /\ Fits(server[s], tree[s], req)
             /\ Len(FrontierOf(server[s].coll, LastLevel)) = n
  <2>1. tree[s].phase = "crawled" /\ tree[s].level = level + 1 /\ level \in 0..(DataLen - 1)
    BY DEF Between
  <2>2. LastLevel = (level + 1 = DataLen)
    BY <2>1 DEF LastLevel
  <2>3. req.last = (tree[s].level = DataLen)
    BY <1>2, <2>1, <2>2
  <2>4. PICK nodes : nodes = FrontierOf(server[s].coll, LastLevel)
    OBVIOUS
  <2>5. Paths(nodes) = P
    BY <2>4 DEF Between
  <2>6. DOMAIN nodes = 1..n /\ \A i \in 1..n : nodes[i].path = P[i]
    <3>1. DOMAIN P = 1..n
      BY <1>5, LenProperties
    <3> QED BY <2>5, <3>1 DEF Paths
  <2>7. nodes \in Seq(TreeNode)
    <3>1. nodes = FrontierOf(server[s].coll, tree[s].level = DataLen)
      BY <2>1, <2>2, <2>4
    <3>2. IsFrontier(nodes, Paths(nodes), Len(server[s].coll.keys))
      BY <1>4, <2>1, <3>1 DEF Shape
    <3> QED BY <3>2 DEF IsFrontier
  <2>8. Len(nodes) = n
    BY <1>5, <2>6, <2>7, LenProperties
  <2>9. VotesOf(server[s]) = SentVotes
    <3>1. server[s].coll.keys = AliveKeys(sent)
      BY DEF Between
    <3> QED BY <3>1 DEF VotesOf, AliveKeys, SentVotes
  <2>10. \A i \in 1..Len(nodes) :
            keep[i] <=> Count(VotesOf(server[s]), nodes[i].path) >= Threshold
    BY <1>8, <2>6, <2>8, <2>9
  <2>11. Len(keep) = Len(nodes) /\ DOMAIN keep = 1..Len(nodes)
    BY <1>8, <2>8
  <2> QED BY <1>2, <2>1, <2>3, <2>4, <2>8, <2>10, <2>11 DEF Fits
<1>10. /\ Tables' /\ pc' \in Rpc \cup {"disconnected"}
       /\ \A s \in Server : ServerInv(s)' /\ Waits(s)'
       /\ Waiting' => Made(req)
  <2>1. req.op \in Rpc \ {"reset"}
    BY <1>2 DEF Rpc
  <2> QED BY <1>2, <1>3, <1>9, <2>1, CallMakes
<1>11. LeaderTyped'
  <2>1. verified' \in [1..NReqs -> Nat] /\ start' \in Nat
    BY DEF Sends, Between
  <2> QED BY <1>3, <1>10, <2>1 DEF IInv, LeaderTyped
<1>12. ASSUME Waiting' PROVE SessionInv'
  <2>1. Made(req) /\ lost = {} /\ lost' = {} /\ pc' = "tree_prune"
    BY <1>2, <1>10, <1>12 DEF Made
  <2>2. PICK e : e = Kept(keep)
    OBVIOUS
  <2>3. PICK R : R = Picked(P, e)
    OBVIOUS
  <2>4. 0 \in Server /\ 1 \in Server /\ \A s \in Server : s \in Server \ lost
    BY <2>1 DEF Server
  <2>5. ASSUME NEW s \in Server
        PROVE  LET nodes == FrontierOf(server[s].coll, LastLevel)
               IN  /\ Outcome(s)'.reply # << >> /\ Settled(s)'.coll.keys = AliveKeys(sent)
                   /\ Place(s)' = [phase |-> IF LastLevel THEN "done" ELSE "pruned",
                                   level |-> level + 1]
                   /\ FrontierOf(Settled(s)'.coll, LastLevel) = Picked(nodes, e)
                   /\ Lists(e, keep, 0, n)
                   /\ IsFrontier(nodes, P, NReqs)
    <3>1. PICK nodes : nodes = FrontierOf(server[s].coll, LastLevel)
      OBVIOUS
    <3>2. nodes = FrontierOf(server[s].coll, req.last)
      BY <1>2, <3>1
    <3>3. PICK new : PrunedTo(s, server[s], tree[s], req, nodes, new)
      BY <1>2, <1>4, <1>9, <2>4, <3>2, PruneHandled
    <3>4. Outcome(s)' = [srv |-> new, reply |-> <<"Done">>]
      BY <2>1, <3>3 DEF Made, PrunedTo
    <3>5. Settled(s)' = new /\ Outcome(s)'.reply # << >>
      BY <3>4 DEF Settled
    <3>6. /\ server[s].coll.keys = AliveKeys(sent) /\ Paths(nodes) = P
          /\ tree[s] = [phase |-> "crawled", level |-> level + 1] /\ Len(nodes) = n
      BY <1>9, <2>4, <3>1 DEF Between
    <3>7. Place(s)' = [phase |-> IF LastLevel THEN "done" ELSE "pruned", level |-> level + 1]
      <4>1. TreeAfter(s, req) = [tree[s] EXCEPT !.phase = IF LastLevel THEN "done" ELSE "pruned"]
        BY <1>2, PlaceAfter
      <4> QED BY <2>1, <3>6, <4>1 DEF Made
    <3>8. new.coll.keys = AliveKeys(sent) /\ FrontierOf(new.coll, LastLevel) = Picked(nodes, e)
      BY <1>2, <2>2, <3>3, <3>6 DEF PrunedTo
    <3>9. Lists(e, keep, 0, n)
      BY <1>2, <2>2, <3>3, <3>6 DEF PrunedTo
    <3>10. IsFrontier(nodes, P, NReqs)
      <4>1. Len(server[s].coll.keys) = NReqs
        BY <3>6, AliveLength DEF Between
      <4> QED BY <3>3, <3>6, <4>1 DEF PrunedTo
    <3> QED BY <3>1, <3>5, <3>7, <3>8, <3>9, <3>10
  <2>6. Lists(e, keep, 0, n) /\ e \in Seq(1..n)
    BY <2>4, <2>5 DEF Lists
  <2>7. /\ R \in Seq(BitPath(level + 1)) /\ IsInjective(R)
        /\ Range(R) = {P[i] : i \in {j \in 1..n : keep[j]}}
    <3>1. IsInjective(P)
      BY DEF Between, Complete
    <3> QED BY <1>5, <2>3, <2>6, <3>1, PickedPaths
  <2>8. PICK k \in Nat : k = Len(R) /\ k = Len(e) /\ DOMAIN R = 1..k
    <3>1. Len(R) = Len(e)
      BY <1>5, <2>3, <2>4, <2>5, <2>6, PickedFrontier
    <3> QED BY <2>7, <3>1, LenProperties
  <2>9. \A j \in 1..k : e[j] \in 1..n /\ R[j] = P[e[j]] /\ keep[e[j]]
    <3>1. \A j \in 1..k : e[j] \in 1..n
      BY <2>6, <2>8, ElementOfSeq
    <3>2. \A j \in 1..k : R[j] = P[e[j]]
      BY <2>3, <2>8 DEF Picked
    <3>3. ASSUME NEW j \in 1..k PROVE keep[e[j]]
      <4>1. PICK i \in 1..n : i = e[j] /\ ~(i <= 0)
        BY <3>1
      <4>2. (i <= 0 \/ keep[i]) <=> \E x \in 1..Len(e) : e[x] = i
        BY <2>6 DEF Lists
      <4> QED BY <2>8, <4>1, <4>2
    <3> QED BY <3>1, <3>2, <3>3
  <2>10. SentVotes' = SentVotes /\ LastLevel' = LastLevel
    BY <1>3 DEF SentVotes, LastLevel
  <2>11. ASSUME NEW s \in Server
         PROVE  /\ Paths(Nodes(s)') = R
                /\ DOMAIN Values(Nodes(s)') = 1..k /\ Len(Values(Nodes(s)')) = k
                /\ \A j \in 1..k : Values(Nodes(s)')[j]
                      = Values(FrontierOf(server[s].coll, LastLevel))[e[j]]
    <3>1. PICK nodes : nodes = FrontierOf(server[s].coll, LastLevel)
      OBVIOUS
    <3>2. Nodes(s)' = Picked(nodes, e) /\ IsFrontier(nodes, P, NReqs)
      BY <2>5, <2>10, <3>1 DEF Nodes
    <3>3. PICK N : N = Picked(nodes, e)
      OBVIOUS
    <3>4. /\ IsFrontier(N, R, NReqs)
          /\ \A j \in 1..k : e[j] \in 1..n /\ N[j].value = nodes[e[j]].value
      BY <1>5, <2>3, <2>6, <2>8, <3>2, <3>3, PickedFrontier
    <3>5. /\ Paths(N) = R /\ DOMAIN Values(N) = 1..k /\ Len(Values(N)) = k
          /\ \A j \in 1..k : Values(N)[j] = N[j].value
      BY <2>7, <2>8, <3>4, FrontierParts
    <3>6. \A i \in 1..n : Values(nodes)[i] = nodes[i].value
      BY <1>5, <3>2, FrontierParts
    <3> QED BY <3>1, <3>2, <3>3, <3>4, <3>5, <3>6
  <2>12. Complete(R)'
    <3>1. ASSUME NEW q \in BitPath(level + 1), Count(SentVotes, q) >= Threshold
          PROVE  q \in Range(R)
      <4>1. PICK i \in 1..n : q = P[i]
        <5>1. q \in Range(P) /\ DOMAIN P = 1..n
          BY <1>5, <3>1, LenProperties DEF Between, Complete
        <5> QED BY <5>1 DEF Range
      <4>2. keep[i]
        BY <1>8, <3>1, <4>1
      <4> QED BY <2>7, <4>1, <4>2
    <3> QED BY <1>3, <2>7, <2>10, <3>1 DEF Complete
  <2>13. SharesOf(Values(Nodes(0)), Values(Nodes(1)), R)'
    <3>1. ASSUME NEW j \in 1..k
          PROVE  Reconstruct(Values(Nodes(0)')[j], Values(Nodes(1)')[j]) = Count(SentVotes, R[j])
      <4>1. PICK v0, v1 : /\ v0 = Values(FrontierOf(server[0].coll, LastLevel))
                          /\ v1 = Values(FrontierOf(server[1].coll, LastLevel))
        OBVIOUS
      <4>2. \A i \in 1..n : Reconstruct(v0[i], v1[i]) = Count(SentVotes, P[i])
        BY <1>5, <2>1, <4>1 DEF Between, SharesOf
      <4>3. Values(Nodes(0)')[j] = v0[e[j]] /\ Values(Nodes(1)')[j] = v1[e[j]]
        BY <2>4, <2>11, <4>1
      <4> QED BY <2>9, <4>2, <4>3
    <3>2. PICK w0, w1 : w0 = Values(Nodes(0)') /\ w1 = Values(Nodes(1)')
      OBVIOUS
    <3>3. /\ DOMAIN w0 = 1..k /\ DOMAIN w1 = 1..k /\ Len(w0) = k /\ Len(w1) = k
          /\ \A j \in 1..k : Reconstruct(w0[j], w1[j]) = Count(SentVotes, R[j])
      BY <2>4, <2>11, <3>1, <3>2
    <3>4. SharesOf(w0, w1, R)'
      BY <2>8, <2>10, <3>3 DEF SharesOf
    <3> QED BY <3>2, <3>4
  <2>14. verified' = [i \in 1..NReqs |-> 1]
    <3>1. \A i \in 1..NReqs : i <= st
      BY DEF Between
    <3> QED BY <3>1 DEF Sends
  <2>15. SumsBounded'
    <3>1. \A i \in 1..n : Reconstruct(v[0][i], v[1][i]) <= NReqs
      BY <1>6, <1>7, CountBounded
    <3> QED BY <1>5, <3>1 DEF SumsBounded, Sends, Between, SharesOf
  <2>16. \A j \in 1..Len(R) : Count(SentVotes', R[j]) >= Threshold
    BY <1>8, <2>8, <2>9, <2>10
  <2>17. AtPaths(R)'
    BY <2>1, <2>11, <2>12, <2>13, <2>14, <2>15, <2>16 DEF AtPaths
  <2>18. \E Q \in Seq(BitPath(level' + 1)) : AtPaths(Q)'
    BY <1>3, <2>7, <2>17
  <2>19. PlaceAt' = [phase |-> IF LastLevel THEN "done" ELSE "pruned", level |-> level + 1]
    BY <1>3, <2>1, <2>10 DEF PlaceAt
  <2>20. \A s \in Server : Settled(s)'.coll.keys = AliveKeys(sent') /\ Place(s)' = PlaceAt'
    BY <1>3, <2>5, <2>19
  <2> QED BY <1>3, <2>1, <2>5, <2>18, <2>20 DEF SessionInv, Searching, Between
<1> QED BY <1>10, <1>11, <1>12 DEF IInv

(* The rest of a level from key st on, whichever it is. *)
LEMMA NextBatchKeeps ==
    ASSUME IInv, NEW op \in Rpc, Returned(op), NEW P, NEW v, NEW st, Between(P, v, st),
           Sends(v, st), NextBatch(st, v)
    PROVE  IInv'
<1>1. CASE st < NReqs
  <2>1. PICK req : req = [op |-> "tree_sketch_frontier", session |-> session, last |-> LastLevel,
                          level |-> level, start |-> st, end |-> BatchEnd(st)]
    OBVIOUS
  <2>2. Call(req)
    BY <1>1, <2>1 DEF NextBatch, MoreBatches
  <2> QED BY <1>1, <2>1, <2>2, SketchStepKeeps
<1>2. CASE ~(st < NReqs)
  <2>1. PICK req : req = [op |-> "tree_prune", session |-> session, last |-> LastLevel,
                          keep |-> KeepValues(Threshold, v[0], v[1])]
    OBVIOUS
  <2>2. Len(v[0]) = Len(v[1])
    BY DEF Between, SharesOf
  <2>3. Call(req)
    BY <1>2, <2>1, <2>2 DEF NextBatch, MoreBatches
  <2> QED BY <1>2, <2>1, <2>3, PruneStepKeeps
<1> QED BY <1>1, <1>2

\* What is known while a level is sketched.
LEMMA BetweenBatches ==
    ASSUME IInv, NEW op \in {"tree_crawl", "tree_sketch_frontier", "tree_out_shares"}, Returned(op),
           NEW P, AtPaths(P), NEW v, SharesOf(v[0], v[1], P), NEW st \in Nat
    PROVE  Between(P, v, st)
<1>1. op \in Rpc
  BY DEF Rpc
<1>2. /\ SessionInv /\ pc = op
      /\ \A s \in Server : Settled(s) = server[s]
      /\ \A s \in Server \ lost : server[s].coll.keys = AliveKeys(sent) /\ tree[s] = PlaceAt
  BY <1>1, AtReturn
<1>3. PlaceAt = [phase |-> "crawled", level |-> level + 1]
  BY <1>2 DEF PlaceAt
<1>4. left = 0 /\ sent \in Seq(Key) /\ Len(sent) = NReqs /\ level \in 0..(DataLen - 1)
  BY <1>2, LenProperties DEF IInv, LeaderTyped, SessionInv
<1>5. \A s \in Server : Nodes(s) = FrontierOf(server[s].coll, LastLevel)
  BY <1>2 DEF Nodes
<1>6. 0 \in Server /\ 1 \in Server
  BY DEF Server
<1> QED BY <1>2, <1>3, <1>4, <1>5, <1>6 DEF Between, AtPaths

LEMMA CrawlReturnedKeeps ==
    ASSUME IInv, CrawlReturned
    PROVE  IInv'
<1>1. /\ Returned("tree_crawl") /\ vals' = [s \in Server |-> Reply(s)]
      /\ verified' = [i \in 1..NReqs |-> 0] /\ NextBatch(0, vals')
      /\ UNCHANGED <<others, keys, left, level, sent>> /\ "tree_crawl" \in Rpc
  BY DEF CrawlReturned, Rpc
<1>2. SessionInv /\ pc = "tree_crawl" /\ \A s \in Server : Answer(s) = Reply(s)
  BY <1>1, AtReturn
<1>3. PICK P : AtPaths(P)
  BY <1>2 DEF SessionInv, Searching
<1>4. PICK v : v = vals'
  OBVIOUS
<1>5. SharesOf(v[0], v[1], P)
  BY <1>1, <1>2, <1>3, <1>4 DEF AtPaths, Server
<1>6. Between(P, v, 0)
  BY <1>1, <1>3, <1>5, BetweenBatches
<1>7. Sends(v, 0)
  <2>1. start' = 0
    BY <1>1 DEF NextBatch
  <2>2. verified' = [i \in 1..NReqs |-> IF i <= 0 THEN 1 ELSE 0]
    <3>1. \A i \in 1..NReqs : ~(i <= 0)
      BY SystemAssumption
    <3> QED BY <1>1, <3>1
  <2> QED BY <1>1, <1>4, <2>1, <2>2 DEF Sends
<1> QED BY <1>1, <1>4, <1>6, <1>7, NextBatchKeeps

(* Both servers' correction shares are put together (cors). *)
LEMMA SketchReturnedKeeps ==
    ASSUME IInv, SketchReturned
    PROVE  IInv'
<1> USE SystemAssumption, DataLenAssumption
<1>1. /\ Returned("tree_sketch_frontier") /\ "tree_sketch_frontier" \in Rpc
      /\ UNCHANGED <<others, progress, verified>>
  BY DEF SketchReturned, Rpc
<1>2. /\ SessionInv /\ pc = "tree_sketch_frontier"
      /\ \A s \in Server : Settled(s) = server[s] /\ Answer(s) = Reply(s) /\ Shape(server[s], tree[s])
      /\ \A s \in Server \ lost : server[s].coll.keys = AliveKeys(sent) /\ tree[s] = PlaceAt
  BY <1>1, AtReturn
<1>3. UNCHANGED <<keys, left, level, start, vals, sent, verified, server, session, lost, crashes, tree>>
  BY <1>1 DEF others, progress
<1>4. PICK P \in Seq(BitPath(level + 1)) : AtPaths(P)
  BY <1>2 DEF SessionInv, Searching
<1>5. PICK states : states = BatchStates(P)
  OBVIOUS
<1>6. PICK n \in Nat : states \in [1..n -> {states[i] : i \in 1..n}] /\ Len(states) = n /\ DOMAIN states = 1..n
  <2>1. start \in Nat /\ start < NReqs
    BY <1>2, <1>4 DEF IInv, LeaderTyped, AtPaths
  <2>2. PICK e \in Nat : e = BatchEnd(start) /\ start < e
    BY <2>1, BatchEndType
  <2>3. PICK n \in Nat : n = e - start
    BY <2>1, <2>2
  <2>4. DOMAIN states = 1..n /\ states = [i \in 1..n |-> states[i]]
    BY <1>5, <2>2, <2>3 DEF BatchStates
  <2>5. Len(states) = n
    BY <2>4
  <2> QED BY <2>4, <2>5
<1>7. PICK cor : cor = Cors(Reply(0), Reply(1))
  OBVIOUS
<1>8. cor = [i \in 1..n |-> <<states[i], states[i]>>] /\ Len(cor) = n
  <2>1. Reply(0) = states /\ Reply(1) = states
    BY <1>2, <1>4, <1>5 DEF AtPaths, Server
  <2>2. cor = [i \in 1..n |-> <<states[i], states[i]>>]
    BY <1>6, <1>7, <2>1 DEF Cors
  <2> QED BY <2>2
<1>9. PICK req : req = [op |-> "tree_out_shares", session |-> session, last |-> LastLevel, cor |-> cor]
  OBVIOUS
<1>10. /\ req.op = "tree_out_shares" /\ req.session = session /\ req.last = LastLevel
       /\ req.cor = cor /\ Call(req)
  BY <1>7, <1>9 DEF SketchReturned
<1>11. ASSUME NEW s \in Server \ lost
       PROVE  Mul(server[s], LastLevel) = states /\ Fits(server[s], tree[s], req)
  <2>1. Mul(server[s], LastLevel) = states
    BY <1>2, <1>4, <1>5 DEF AtPaths
  <2>2. Len(req.cor) = Len(Mul(server[s], req.last))
    BY <1>6, <1>8, <1>10, <2>1
  <2> QED BY <1>10, <2>1, <2>2 DEF Fits
<1>12. /\ Tables' /\ pc' \in Rpc \cup {"disconnected"}
       /\ \A s \in Server : ServerInv(s)' /\ Waits(s)'
       /\ Waiting' => Made(req)
  <2>1. req.op \in Rpc \ {"reset"} /\ UNCHANGED others
    BY <1>1, <1>10 DEF Rpc
  <2> QED BY <1>1, <1>10, <1>11, <2>1, CallMakes
<1>13. LeaderTyped'
  BY <1>3, <1>12 DEF IInv, LeaderTyped
<1>14. ASSUME Waiting' PROVE SessionInv'
  <2>1. Made(req) /\ lost = {} /\ lost' = {} /\ pc' = "tree_out_shares"
    BY <1>10, <1>12, <1>14 DEF Made
  <2>2. PICK outs : outs = [i \in 1..n |-> [state |-> states[i], cor |-> <<states[i], states[i]>>]]
    OBVIOUS
  <2>3. ASSUME NEW s \in Server
        PROVE  /\ Outcome(s)'.reply # << >> /\ Settled(s)' = server[s]
               /\ Answer(s)' = outs /\ Place(s)' = tree[s]
    <3>1. Fits(server[s], tree[s], req) /\ Mul(server[s], req.last) = states
      BY <1>10, <1>11, <2>1
    <3>2. Handle(s, server[s], req) = [srv |-> server[s], reply |-> <<OutsOf(states, req.cor)>>]
      BY <1>2, <1>10, <3>1, OutSharesHandled
    <3>3. OutsOf(states, req.cor) = outs
      BY <1>6, <1>8, <1>10, <2>2 DEF OutsOf
    <3>4. Outcome(s)' = [srv |-> server[s], reply |-> <<outs>>]
      BY <2>1, <3>2, <3>3 DEF Made
    <3>5. Place(s)' = tree[s]
      BY <1>10, <2>1, PlaceAfter DEF Made
    <3> QED BY <3>4, <3>5 DEF Settled, Answer
  <2>4. SentVotes' = SentVotes /\ LastLevel' = LastLevel /\ 0 \in Server /\ 1 \in Server
    BY <1>3 DEF SentVotes, LastLevel, Server
  <2>5. \A s \in Server : Nodes(s)' = Nodes(s)
    BY <1>2, <2>3, <2>4 DEF Nodes
  <2>6. outs = BatchOuts(P)'
    <3>1. BatchStates(P)' = states
      BY <1>3, <1>5 DEF BatchStates, BatchEnd, BatchSize, LastLevel
    <3> QED BY <1>6, <2>2, <3>1 DEF BatchOuts
  <2>7. AtPaths(P)'
    <3>1. Complete(P)'
      BY <1>3, <1>4, <2>4 DEF AtPaths, Complete
    <3>2. SharesOf(Values(Nodes(0)), Values(Nodes(1)), P)'
      BY <1>4, <2>1, <2>4, <2>5 DEF SharesOf, AtPaths
    <3>3. SharesOf(vals[0], vals[1], P)'
      BY <1>2, <1>3, <1>4, <2>4 DEF SharesOf, AtPaths
    <3>4. start' < NReqs /\ verified' = [i \in 1..NReqs |-> IF i <= start' THEN 1 ELSE 0]
      BY <1>2, <1>3, <1>4 DEF AtPaths
    <3>5. \A s \in Server : Answer(s)' = BatchOuts(P)'
      BY <2>3, <2>6
    <3>6. \A s \in Server : Paths(Nodes(s)') = P
      BY <1>4, <2>1, <2>5 DEF AtPaths
    <3> QED BY <2>1, <3>1, <3>2, <3>3, <3>4, <3>5, <3>6 DEF AtPaths
  <2>8. \E R \in Seq(BitPath(level' + 1)) : AtPaths(R)'
    BY <1>3, <1>4, <2>7
  <2>9. \A s \in Server : Settled(s)'.coll.keys = AliveKeys(sent') /\ Place(s)' = PlaceAt'
    BY <1>2, <1>3, <2>1, <2>3 DEF PlaceAt, LastLevel
  <2> QED BY <1>2, <1>3, <2>1, <2>3, <2>8, <2>9 DEF SessionInv, Searching
<1> QED BY <1>12, <1>13, <1>14 DEF IInv

(* A string has one prefix of each length: among distinct paths of a level a
   key is at one node or at none, which is what the sketch asks for. *)
LEMMA HonestIsUnit ==
    ASSUME NEW n \in 0..DataLen, NEW P \in Seq(BitPath(n)), IsInjective(P), NEW key
    PROVE  IsUnit([key |-> key, paths |-> P])
<1>1. \A i, j \in DOMAIN P : Holds(key.bits, P[i]) /\ Holds(key.bits, P[j]) => i = j
  BY HeldOnce
<1> QED BY <1>1 DEF IsUnit

(* Both servers answer the check of a batch from the same states: every key of
   it passes (the leader's assert!(v)). *)
LEMMA BatchAccepted ==
    ASSUME LeaderTyped, start < NReqs, NEW P, Complete(P), NEW outs, outs = BatchOuts(P)
    PROVE  /\ Len(outs) <= Len(outs)
           /\ DOMAIN outs = 1..(BatchEnd(start) - start)
           /\ \A i \in DOMAIN outs : Verify(outs, outs)[i]
<1> USE SystemAssumption, DataLenAssumption
<1>1. level \in 0..(DataLen - 1) /\ start \in Nat
  BY DEF LeaderTyped
<1>2. PICK e \in Nat : e = BatchEnd(start) /\ start < e
  BY <1>1, BatchEndType
<1>3. PICK n \in Nat : n = e - start
  BY <1>1, <1>2
<1>4. PICK states : states = BatchStates(P)
  OBVIOUS
<1>5. DOMAIN states = 1..n
  BY <1>2, <1>3, <1>4 DEF BatchStates
<1>6. outs = [i \in 1..n |-> [state |-> states[i], cor |-> <<states[i], states[i]>>]]
  BY <1>4, <1>5 DEF BatchOuts
<1>7. Len(outs) = n
  BY <1>6
<1>8. ASSUME NEW i \in 1..n PROVE IsUnit(states[i].sketch)
  <2>1. states[i].sketch = [key |-> sent[start + i], paths |-> P]
    BY <1>2, <1>3, <1>4 DEF BatchStates
  <2>2. level + 1 \in 0..DataLen /\ P \in Seq(BitPath(level + 1)) /\ IsInjective(P)
    BY <1>1 DEF Complete
  <2>3. PICK l \in 0..DataLen : l = level + 1
    BY <2>2
  <2>4. \A key : IsUnit([key |-> key, paths |-> P])
    BY <2>2, <2>3, HonestIsUnit
  <2> QED BY <2>1, <2>4
<1>9. ASSUME NEW i \in 1..n PROVE Verify(outs, outs)[i]
  <2>1. outs[i].state = states[i] /\ outs[i].cor = <<states[i], states[i]>>
    BY <1>6
  <2>2. Accepts(outs[i], outs[i])
    BY <1>8, <2>1 DEF Accepts
  <2>3. Verify(outs, outs)[i] = Accepts(outs[i], outs[i])
    BY <1>6 DEF Verify
  <2> QED BY <2>2, <2>3
<1>10. DOMAIN outs = 1..n
  BY <1>6
<1> QED BY <1>2, <1>3, <1>7, <1>9, <1>10

LEMMA OutSharesReturnedKeeps ==
    ASSUME IInv, OutSharesReturned
    PROVE  IInv'
<1> USE SystemAssumption, DataLenAssumption
<1>1. Returned("tree_out_shares") /\ UNCHANGED <<others, keys, left, level, vals, sent>>
  BY DEF OutSharesReturned
<1>2. "tree_out_shares" \in Rpc /\ "tree_out_shares" \in {"tree_crawl", "tree_sketch_frontier", "tree_out_shares"}
  BY DEF Rpc
<1>3. SessionInv /\ pc = "tree_out_shares" /\ LeaderTyped /\ \A s \in Server : Answer(s) = Reply(s)
  BY <1>1, <1>2, AtReturn DEF IInv
<1>4. PICK P : AtPaths(P)
  BY <1>3 DEF SessionInv, Searching
<1>5. /\ Complete(P) /\ SharesOf(vals[0], vals[1], P) /\ start < NReqs /\ start \in Nat
      /\ verified = [i \in 1..NReqs |-> IF i <= start THEN 1 ELSE 0]
  BY <1>3, <1>4 DEF AtPaths, LeaderTyped
<1>6. PICK outs : outs = BatchOuts(P)
  OBVIOUS
<1>7. Reply(0) = outs /\ Reply(1) = outs
  BY <1>3, <1>4, <1>6 DEF AtPaths, Server
<1>8. /\ Len(outs) <= Len(outs) /\ DOMAIN outs = 1..(BatchEnd(start) - start)
      /\ \A i \in DOMAIN outs : Verify(outs, outs)[i]
  BY <1>3, <1>5, <1>6, BatchAccepted
<1>9. /\ NextBatch(start + BatchSize, vals)
      /\ verified' = [i \in 1..NReqs |->
                        IF i - start \in DOMAIN outs THEN verified[i] + 1 ELSE verified[i]]
  BY <1>7, <1>8 DEF OutSharesReturned
<1>10. PICK k \in Nat \ {0} : k = BatchSize
  BY DEF BatchSize
<1>11. PICK st \in Nat : st = start + k
  BY <1>5
<1>12. PICK e \in Nat : e = BatchEnd(start)
  BY <1>5, BatchEndType
<1>13. e <= st /\ (e = NReqs \/ e = st) /\ start < e /\ e <= NReqs
  <2>1. e = Min({NReqs, st})
    BY <1>10, <1>11, <1>12 DEF BatchEnd
  <2>2. start < e /\ e <= NReqs
    BY <1>5, <1>12, BatchEndType
  <2> QED BY <2>1, <2>2, MinOfTwo
<1>14. verified' = [i \in 1..NReqs |-> IF i <= st THEN 1 ELSE 0]
  <2>1. ASSUME NEW i \in 1..NReqs
        PROVE  (IF i - start \in 1..(e - start) THEN verified[i] + 1 ELSE verified[i])
                 = IF i <= st THEN 1 ELSE 0
    <3>1. verified[i] = IF i <= start THEN 1 ELSE 0
      BY <1>5
    <3>2. CASE i <= start
      <4>1. ~(i - start \in 1..(e - start)) /\ i <= st
        BY <1>5, <1>11, <3>2
      <4> QED BY <3>1, <3>2, <4>1
    <3>3. CASE ~(i <= start) /\ i <= e
      <4>1. i - start \in 1..(e - start) /\ i <= st
        BY <1>5, <1>13, <3>3
      <4> QED BY <3>1, <3>3, <4>1
    <3>4. CASE ~(i <= e)
      <4>1. ~(i - start \in 1..(e - start)) /\ ~(i <= st) /\ ~(i <= start)
        BY <1>5, <1>13, <3>4
      <4> QED BY <3>1, <4>1
    <3> QED BY <3>2, <3>3, <3>4
  <2>2. DOMAIN outs = 1..(e - start)
    BY <1>8, <1>12
  <2> QED BY <1>9, <2>1, <2>2
<1>15. NextBatch(st, vals)
  BY <1>9, <1>10, <1>11
<1>16. Between(P, vals, st)
  BY <1>1, <1>2, <1>4, <1>5, BetweenBatches
<1>17. Sends(vals, st)
  <2>1. start' = st
    BY <1>15 DEF NextBatch
  <2> QED BY <1>1, <1>14, <2>1 DEF Sends
<1>18. PICK v : v = vals
  OBVIOUS
<1> QED BY <1>1, <1>2, <1>15, <1>16, <1>17, <1>18, NextBatchKeeps

(* The leader has its answer (main, after final_shares). *)
LEMMA FinalReturnedKeeps ==
    ASSUME IInv, FinalReturned
    PROVE  IInv'
<1>1. /\ Returned("final_shares") /\ pc' = "done" /\ "final_shares" \in Rpc
      /\ UNCHANGED <<others, progress, net, replies, verified>>
  BY DEF FinalReturned, Rpc
<1>2. UNCHANGED <<keys, left, level, start, vals, sent, verified, server, session, lost, crashes,
                  tree, net, replies>>
  BY <1>1 DEF others, progress
<1>3. SessionInv /\ pc = "final_shares" /\ \A s \in Server : replies[s] # << >> /\ net[s] = {}
  BY <1>1, AtReturn
<1>4. LeaderTyped' /\ Tables'
  BY <1>1, <1>2 DEF IInv, LeaderTyped, Tables
<1>5. ASSUME NEW s \in Server
      PROVE  /\ ServerInv(s)' /\ Waits(s)'
             /\ Outcome(s)' = Outcome(s) /\ Place(s)' = Place(s)
  <2>1. ServerInv(s)'
    BY <1>2 DEF IInv, ServerInv, InOrder
  <2>2. Waits(s)'
    BY <1>2, <1>3 DEF IInv, Waits
  <2>3. Pending(s) = {} /\ Pending(s)' = {}
    BY <1>2, <1>3 DEF Pending
  <2>4. Outcome(s)' = Outcome(s) /\ Place(s)' = Place(s)
    BY <1>2, <2>3 DEF Outcome, Place
  <2> QED BY <2>1, <2>2, <2>4
<1>6. SessionInv'
  BY <1>1, <1>2, <1>3, <1>5, SessionKept
<1> QED BY <1>4, <1>5, <1>6 DEF IInv

(* Nothing happens. *)
LEMMA StutterKeeps ==
    ASSUME IInv, UNCHANGED vars
    PROVE  IInv'
<1>1. UNCHANGED <<keys, left, level, start, vals, sent, verified, server, session, lost, crashes,
                  tree, net, replies, pc>>
  BY DEF vars, leaderVars, progress
<1>2. LeaderTyped' /\ Tables'
  BY <1>1 DEF IInv, LeaderTyped, Tables
<1>3. ASSUME NEW s \in Server
      PROVE  /\ ServerInv(s)' /\ Waits(s)'
             /\ Outcome(s)' = Outcome(s) /\ Place(s)' = Place(s)
  BY <1>1, ServerKept DEF IInv
<1>4. Waiting' => SessionInv'
  <2> SUFFICES ASSUME Waiting' PROVE SessionInv'
    OBVIOUS
  <2>1. SessionInv
    BY <1>1 DEF IInv, Waiting
  <2> QED BY <1>1, <1>3, <2>1, SessionKept
<1> QED BY <1>2, <1>3, <1>4 DEF IInv

-----------------------------------------------------------------------------
(* The invariant. *)

LEMMA StepKeeps ==
    ASSUME ~LateDelivery, IInv, [Next]_vars
    PROVE  IInv'
<1>1. CASE LeaderStep
  <2>1. CASE KeysStep
    BY <2>1, KeysStepKeeps
  <2>2. CASE TreeInitReturned
    BY <2>2, TreeInitReturnedKeeps
  <2>3. CASE CrawlReturned
    BY <2>3, CrawlReturnedKeeps
  <2>4. CASE SketchReturned
    BY <2>4, SketchReturnedKeeps
  <2>5. CASE OutSharesReturned
    BY <2>5, OutSharesReturnedKeeps
  <2>6. CASE PruneReturned
    BY <2>6, PruneReturnedKeeps
  <2>7. CASE FinalReturned
    BY <2>7, FinalReturnedKeeps
  <2> QED BY <1>1, <2>1, <2>2, <2>3, <2>4, <2>5, <2>6, <2>7 DEF LeaderStep
<1>2. ASSUME NEW s \in Server, ServeSession(s) \/ ServeStale(s)
      PROVE  IInv'
  <2>1. PICK req \in net[s] : Serve(s, req)
    BY <1>2 DEF ServeSession, ServeStale, Stale
  <2> QED BY <2>1, ServeKeeps
<1>3. ASSUME NEW s \in Server, CloseConnection(s)
      PROVE  IInv'
  BY <1>3, CloseKeeps
<1>4. ASSUME NEW s \in Server, Crash(s)
      PROVE  IInv'
  BY <1>4, CrashKeeps
<1>5. CASE NewLeader
  BY <1>5, NewLeaderKeeps
<1>6. CASE Finished \/ UNCHANGED vars
  BY <1>6, StutterKeeps DEF Finished
<1> QED BY <1>1, <1>2, <1>3, <1>4, <1>5, <1>6 DEF Next

(* What a server keeps is always the search's state at its place in the tree,
   every request in flight is its next step, and what both servers will have
   answered is what the leader's step on it relies on. *)
THEOREM Inductive == ~LateDelivery => (Spec => []IInv)
<1>1. Init => IInv
  BY InitHolds
<1>2. ~LateDelivery /\ IInv /\ [Next]_vars => IInv'
  BY StepKeeps
<1> SUFFICES ASSUME ~LateDelivery PROVE Spec => []IInv
  OBVIOUS
<1> QED BY <1>1, <1>2, PTL DEF Spec

-----------------------------------------------------------------------------
(* What follows from it. *)

LEMMA TypeOKFromInv == IInv => TypeOK
<1> USE SystemAssumption, DataLenAssumption
<1> SUFFICES ASSUME IInv PROVE TypeOK
  OBVIOUS
<1>1. ASSUME NEW s \in Server
      PROVE  /\ \A k \in Range(server[s].coll.keys) : k.alive \in BOOLEAN /\ k.key \in Key
             /\ \A n \in Range(server[s].coll.frontier) \cup Range(server[s].coll.frontierLast) :
                   n.path \in Seq(BOOLEAN) /\ n.value \in 0..(Modulus - 1)
             /\ server[s].poisoned \subseteq Lock
             /\ \A r \in net[s] : r.op \in Rpc /\ r.session \in 1..session
             /\ Len(replies[s]) \in {0, 1}
  <2>1. PICK srv : srv = server[s] /\ srv \in ServerRecord
    BY DEF IInv, ServerInv, Shape
  <2>2. PICK c : c = srv.coll /\ c \in Collection /\ srv.poisoned = {}
    BY <2>1, RecordFields
  <2>3. /\ c.keys \in Seq(StoredKey) /\ c.frontier \in Seq(TreeNode)
        /\ c.frontierLast \in Seq(TreeNode)
    BY <2>2, CollectionFields
  <2>4. /\ \A k \in Range(c.keys) : k \in StoredKey
        /\ \A n \in Range(c.frontier) \cup Range(c.frontierLast) : n \in TreeNode
    BY <2>3 DEF Range
  <2>5. /\ \A k \in Range(c.keys) : k.alive \in BOOLEAN /\ k.key \in Key
        /\ \A n \in Range(c.frontier) \cup Range(c.frontierLast) :
              n.path \in Seq(BOOLEAN) /\ n.value \in 0..(Modulus - 1)
    BY <2>4 DEF StoredKey, TreeNode
  <2>6. /\ \A r \in net[s] : r.op \in Rpc /\ r.session \in 1..session
        /\ Len(replies[s]) \in {0, 1}
    BY DEF IInv, ServerInv, Waits
  <2> QED BY <2>1, <2>2, <2>5, <2>6
<1> QED BY <1>1 DEF IInv, LeaderTyped, TypeOK

(* A handler of a later request than the keys' leaves the keys as they are,
   and one that neither crawls nor prunes the frontiers. *)
LEMMA HandledKeeps ==
    ASSUME NEW s \in Server, NEW srv, NEW t, Shape(srv, t), NEW r, Fits(srv, t, r),
           r.op \in Rpc \ {"reset", "add_keys"}
    PROVE  /\ Handle(s, srv, r).srv.coll.keys = srv.coll.keys
           /\ r.op \in {"tree_sketch_frontier", "tree_out_shares", "final_shares"} =>
                 Handle(s, srv, r).srv.coll = srv.coll
<1>1. CASE r.op = "tree_init"
  <2>1. PICK new : TreeStarted(s, srv, t, r, new)
    BY <1>1, TreeInitHandled
  <2>2. Handle(s, srv, r) = [srv |-> new, reply |-> <<"Done">>] /\ new.coll.keys = srv.coll.keys
    BY <2>1, Zenon DEF TreeStarted
  <2> QED BY <1>1, <2>2
<1>2. CASE r.op = "tree_crawl"
  <2>1. PICK P : P = Paths(srv.coll.frontier)
    OBVIOUS
  <2>2. PICK new : Crawled(s, srv, t, r, P, new)
    BY <1>2, <2>1, CrawlHandled
  <2> QED BY <1>2, <2>2 DEF Crawled
<1>3. CASE r.op = "tree_sketch_frontier"
  <2>1. PICK st : st = StatesFor(srv, r)
    OBVIOUS
  <2>2. PICK new : Sketched(s, srv, t, r, st, new)
    BY <1>3, <2>1, SketchHandled
  <2> QED BY <2>2 DEF Sketched
<1>4. CASE r.op = "tree_out_shares"
  <2>1. PICK st : st = Mul(srv, r.last)
    OBVIOUS
  <2>2. Handle(s, srv, r) = [srv |-> srv, reply |-> <<OutsOf(st, r.cor)>>]
    BY <1>4, <2>1, OutSharesHandled
  <2> QED BY <2>2
<1>5. CASE r.op = "tree_prune"
  <2>1. PICK nodes : nodes = FrontierOf(srv.coll, r.last)
    OBVIOUS
  <2>2. PICK new : PrunedTo(s, srv, t, r, nodes, new)
    BY <1>5, <2>1, PruneHandled
  <2> QED BY <1>5, <2>2 DEF PrunedTo
<1>6. CASE r.op = "final_shares"
  <2>1. Handle(s, srv, r) = [srv |-> srv, reply |-> <<FinalShares(srv.coll)>>]
    BY <1>6, FinalHandled
  <2> QED BY <2>1
<1> QED BY <1>1, <1>2, <1>3, <1>4, <1>5, <1>6 DEF Rpc

(* What a server will hold when it has handled its request it holds already,
   when that request changes no keys, or no collection. *)
LEMMA SettledKeeps ==
    ASSUME IInv, Waiting, NEW s \in Server, pc \notin {"reset", "add_keys"}
    PROVE  /\ Settled(s).coll.keys = server[s].coll.keys
           /\ pc \in {"tree_sketch_frontier", "tree_out_shares", "final_shares", "done"} =>
                 Settled(s).coll = server[s].coll
<1>1. CASE Pending(s) = {}
  <2>1. Outcome(s) = [srv |-> server[s], reply |-> replies[s]]
    BY <1>1 DEF Outcome
  <2> QED BY <2>1 DEF Settled
<1>2. CASE Pending(s) # {}
  <2>1. replies[s] = << >>
    BY <1>2 DEF IInv, Waits, Pending
  <2>2. PICK r \in net[s] : Pending(s) = {r} /\ r.op = pc
    BY <2>1 DEF IInv, Waits
  <2>3. Request(s) = r
    BY <2>2 DEF Request
  <2>4. Settled(s) = Handle(s, server[s], r).srv
    BY <1>2, <2>3 DEF Settled, Outcome
  <2>5. Shape(server[s], tree[s]) /\ Fits(server[s], tree[s], r) /\ r.op \in Rpc
    BY <2>2 DEF IInv, ServerInv
  <2>6. r.op \in Rpc \ {"reset", "add_keys"} /\ pc # "done"
    BY <2>2, <2>5 DEF Rpc
  <2> QED BY <2>2, <2>4, <2>5, <2>6, HandledKeeps
<1> QED BY <1>1, <1>2

(* The keys that were sent, as they are stored. *)
LEMMA StoredKeysAre ==
    ASSUME NEW s, sent \in Seq(Key), server[s].coll.keys = AliveKeys(sent)
    PROVE  StoredKeys(s) = sent
<1>1. DOMAIN sent = 1..Len(sent) /\ sent = [i \in 1..Len(sent) |-> sent[i]]
  BY LenProperties
<1>2. StoredKeys(s) = [i \in 1..Len(sent) |-> sent[i]]
  BY <1>1 DEF StoredKeys, AliveKeys
<1> QED BY <1>1, <1>2

LEMMA KeysAlignedFromInv == IInv => KeysAligned
<1> USE SystemAssumption
<1> SUFFICES ASSUME IInv, pc \notin {"reset", "add_keys", "disconnected"}
             PROVE  Len(sent) = NReqs /\ \A s \in Server \ lost : StoredKeys(s) = sent
  BY DEF KeysAligned
<1>1. Waiting /\ SessionInv /\ sent \in Seq(Key)
  BY DEF IInv, LeaderTyped, Waiting
<1>2. Len(sent) + left = NReqs /\ left = 0 /\ Len(sent) \in Nat
  BY <1>1, LenProperties DEF SessionInv
<1>3. ASSUME NEW s \in Server \ lost PROVE StoredKeys(s) = sent
  <2>1. server[s].coll.keys = AliveKeys(sent)
    BY <1>1, SettledKeeps DEF SessionInv
  <2> QED BY <1>1, <2>1, StoredKeysAre
<1> QED BY <1>2, <1>3

LEMMA NoPoisonFromInv == IInv => NoPoison
<1> SUFFICES ASSUME IInv, NEW s \in Server PROVE server[s].poisoned = {}
  BY DEF NoPoison
<1>1. server[s] \in ServerRecord
  BY DEF IInv, ServerInv, Shape
<1> QED BY <1>1, RecordFields

LEMMA CheckedFromInv == IInv => HonestKeysPass /\ EveryKeyChecked /\ SumsBounded
<1> SUFFICES ASSUME IInv PROVE HonestKeysPass /\ EveryKeyChecked /\ SumsBounded
  OBVIOUS
<1>1. HonestKeysPass
  BY DEF IInv, LeaderTyped, Rpc, HonestKeysPass
<1>2. ASSUME pc = "tree_prune" PROVE EveryKeyChecked /\ SumsBounded
  <2>1. SessionInv /\ Searching
    BY <1>2 DEF IInv, Waiting, Rpc, Searching
  <2>2. PICK P : AtPaths(P)
    BY <2>1 DEF SessionInv
  <2>3. verified = [i \in 1..NReqs |-> 1] /\ SumsBounded
    BY <1>2, <2>2 DEF AtPaths
  <2> QED BY <2>3 DEF EveryKeyChecked
<1>3. ASSUME pc # "tree_prune" PROVE EveryKeyChecked /\ SumsBounded
  BY <1>3 DEF EveryKeyChecked, SumsBounded
<1> QED BY <1>1, <1>2, <1>3

LEMMA FrontiersAgreeFromInv == IInv => FrontiersAgree
<1> SUFFICES ASSUME IInv, lost = {},
                    pc \in {"tree_sketch_frontier", "tree_out_shares", "final_shares", "done"}
             PROVE  Paths(FrontierOf(server[0].coll, LastLevel))
                      = Paths(FrontierOf(server[1].coll, LastLevel))
  BY DEF FrontiersAgree
<1>1. Waiting /\ Searching /\ pc \notin {"reset", "add_keys"}
  BY DEF Waiting, Rpc, Searching
<1>2. PICK P : AtPaths(P)
  BY <1>1 DEF IInv, SessionInv
<1>3. ASSUME NEW s \in Server PROVE Paths(FrontierOf(server[s].coll, LastLevel)) = P
  <2>1. Nodes(s) = FrontierOf(server[s].coll, LastLevel)
    BY <1>1, SettledKeeps DEF Nodes
  <2> QED BY <1>2, <2>1 DEF AtPaths
<1> QED BY <1>3 DEF Server

(* The paths and counts that the leader's Result lists. *)
LEMMA ResultIs ==
    ASSUME IInv, pc = "done"
    PROVE  \E P \in Seq(BitString) :
              /\ IsInjective(P)
              /\ \A i \in 1..Len(P) : Count(SentVotes, P[i]) >= Threshold
              /\ \A q \in BitString : Count(SentVotes, q) >= Threshold => q \in Range(P)
              /\ DOMAIN Result = 1..Len(P) /\ DOMAIN P = 1..Len(P)
              /\ \A i \in 1..Len(P) :
                    Result[i] = [path |-> P[i], value |-> Count(SentVotes, P[i])]
<1> USE DataLenAssumption
<1>1. Waiting /\ Searching /\ level \in 0..(DataLen - 1)
  BY DEF Waiting, Rpc, Searching, IInv, LeaderTyped
<1>2. PICK P : AtPaths(P)
  BY <1>1 DEF IInv, SessionInv
<1>3. /\ Complete(P) /\ level + 1 = DataLen
      /\ \A i \in 1..Len(P) : Count(SentVotes, P[i]) >= Threshold
      /\ \A s \in Server : DOMAIN Answer(s) = 1..Len(P) /\ Paths(Answer(s)) = P
      /\ SharesOf(Values(Answer(0)), Values(Answer(1)), P)
  <2>1. LastLevel
    BY <1>2 DEF AtPaths
  <2>2. level + 1 = DataLen
    BY <1>1, <2>1 DEF LastLevel
  <2> QED BY <1>2, <2>2 DEF AtPaths
<1>4. ASSUME NEW s \in Server PROVE Answer(s) = Reply(s)
  <2>1. net[s] = {}
    BY <1>1 DEF IInv, Waits
  <2>2. Outcome(s) = [srv |-> server[s], reply |-> replies[s]]
    BY <2>1 DEF Outcome, Pending
  <2> QED BY <2>2 DEF Answer, Reply
<1>5. PICK a, b : a = Reply(0) /\ b = Reply(1)
  OBVIOUS
<1>6. /\ DOMAIN a = 1..Len(P) /\ DOMAIN b = 1..Len(P) /\ Paths(a) = P
      /\ SharesOf(Values(a), Values(b), P)
  BY <1>3, <1>4, <1>5 DEF Server
<1>7. ASSUME NEW i \in 1..Len(P)
      PROVE  a[i].path = P[i] /\ Reconstruct(a[i].value, b[i].value) = Count(SentVotes, P[i])
  <2>1. a[i].path = P[i]
    BY <1>6 DEF Paths
  <2>2. Values(a)[i] = a[i].value /\ Values(b)[i] = b[i].value
    BY <1>6 DEF Values
  <2> QED BY <1>6, <2>1, <2>2 DEF SharesOf
<1>8. Result = [i \in 1..Len(P) |->
                  [path |-> a[i].path, value |-> Reconstruct(a[i].value, b[i].value)]]
  BY <1>5, <1>6 DEF Result, FinalValues
<1>9. P \in Seq(BitString) /\ DOMAIN P = 1..Len(P)
  BY <1>3, LenProperties DEF Complete, BitString
<1>10. \A q \in BitString : Count(SentVotes, q) >= Threshold => q \in Range(P)
  BY <1>3 DEF Complete, BitString
<1>11. IsInjective(P)
  BY <1>3 DEF Complete
<1>12. /\ DOMAIN Result = 1..Len(P)
       /\ \A i \in 1..Len(P) : Result[i] = [path |-> P[i], value |-> Count(SentVotes, P[i])]
  BY <1>7, <1>8
<1> QED BY <1>3, <1>9, <1>10, <1>11, <1>12

LEMMA ResultFromInv == IInv => ResultExact
<1> SUFFICES ASSUME IInv, pc = "done"
             PROVE  /\ {<<r.path, r.value>> : r \in Range(Result)}
                         = {<<b, Count(SentVotes, b)>> :
                              b \in {x \in BitString : Count(SentVotes, x) >= Threshold}}
                    /\ IsInjective(Paths(Result))
  BY DEF ResultExact
<1>1. PICK P \in Seq(BitString) :
        /\ IsInjective(P)
        /\ \A i \in 1..Len(P) : Count(SentVotes, P[i]) >= Threshold
        /\ \A q \in BitString : Count(SentVotes, q) >= Threshold => q \in Range(P)
        /\ DOMAIN Result = 1..Len(P) /\ DOMAIN P = 1..Len(P)
        /\ \A i \in 1..Len(P) :
              Result[i] = [path |-> P[i], value |-> Count(SentVotes, P[i])]
  BY ResultIs
<1>2. PICK res : res = Result
  OBVIOUS
<1>3. /\ DOMAIN res = 1..Len(P)
      /\ \A i \in 1..Len(P) : res[i].path = P[i] /\ res[i].value = Count(SentVotes, P[i])
  BY <1>1, <1>2
<1>4. Paths(res) = P
  <2>1. Paths(res) = [i \in 1..Len(P) |-> P[i]]
    BY <1>3 DEF Paths
  <2>2. P = [i \in 1..Len(P) |-> P[i]]
    BY LenProperties
  <2> QED BY <2>1, <2>2
<1>5. \A i \in 1..Len(P) : P[i] \in BitString
  BY ElementOfSeq
<1>6. ASSUME NEW x
      PROVE  x \in {<<r.path, r.value>> : r \in Range(res)}
               <=> x \in {<<b, Count(SentVotes, b)>> :
                            b \in {q \in BitString : Count(SentVotes, q) >= Threshold}}
  <2>1. x \in {<<r.path, r.value>> : r \in Range(res)}
          <=> \E i \in 1..Len(P) : x = <<P[i], Count(SentVotes, P[i])>>
    BY <1>3 DEF Range
  <2>2. (\E i \in 1..Len(P) : x = <<P[i], Count(SentVotes, P[i])>>)
          <=> \E b \in {q \in BitString : Count(SentVotes, q) >= Threshold} :
                 x = <<b, Count(SentVotes, b)>>
    BY <1>1, <1>5 DEF Range
  <2> QED BY <2>1, <2>2
<1> QED BY <1>1, <1>2, <1>4, <1>6

LEMMA NothingInventedFromInv == IInv => NothingInvented
<1> SUFFICES ASSUME IInv, pc = "done", NEW r \in Range(Result)
             PROVE  \E i \in DOMAIN sent : sent[i].bits = r.path
  BY DEF NothingInvented
<1>1. PICK P \in Seq(BitString) :
        /\ \A i \in 1..Len(P) : Count(SentVotes, P[i]) >= Threshold
        /\ DOMAIN Result = 1..Len(P)
        /\ \A i \in 1..Len(P) :
              Result[i] = [path |-> P[i], value |-> Count(SentVotes, P[i])]
  BY ResultIs
<1>2. PICK i \in 1..Len(P) : r = Result[i]
  BY <1>1 DEF Range
<1>3. r.path = P[i] /\ Count(SentVotes, P[i]) >= 1 /\ P[i] \in BitString
  <2>1. sent \in Seq(Key)
    BY DEF IInv, LeaderTyped
  <2>2. PICK vs : vs = SentVotes /\ vs \in Seq(BitString)
    BY <2>1, SentStrings
  <2>3. P[i] \in BitString
    BY ElementOfSeq
  <2>4. Count(vs, P[i]) \in Nat
    BY <2>2, CountType
  <2>5. Count(vs, P[i]) >= Threshold
    BY <1>1, <2>2
  <2>6. Count(vs, P[i]) >= 1
    BY <2>4, <2>5, ThresholdType
  <2>7. r.path = P[i]
    BY <1>1, <1>2
  <2> QED BY <2>2, <2>3, <2>6, <2>7
<1>4. Holders(SentVotes, P[i]) # {}
  <2>1. Cardinality({}) = 0
    BY FS_EmptySet
  <2>2. Holders(SentVotes, P[i]) = {} => Count(SentVotes, P[i]) = 0
    BY <2>1, Zenon DEF Count
  <2> QED BY <1>3, <2>2
<1>5. PICK j \in DOMAIN SentVotes : \A x \in DOMAIN P[i] : SentVotes[j][x] = P[i][x]
  BY <1>4 DEF Holders
<1>6. j \in DOMAIN sent /\ SentVotes[j] = sent[j].bits
  BY <1>5 DEF SentVotes
<1>7. SentVotes[j] \in BitString
  <2>1. sent \in Seq(Key)
    BY DEF IInv, LeaderTyped
  <2>2. SentVotes \in Seq(BitString)
    BY <2>1, SentStrings
  <2> QED BY <1>5, <2>2
<1>8. SentVotes[j] = P[i]
  <2>1. ASSUME NEW x \in BitString, NEW y \in BitString, \A n \in DOMAIN y : x[n] = y[n]
        PROVE  x = y
    <3>1. DOMAIN y = 1..DataLen /\ \A n \in 1..DataLen : x[n] = y[n]
      BY <2>1 DEF BitString, BitPath
    <3>2. x = [n \in 1..DataLen |-> x[n]] /\ y = [n \in 1..DataLen |-> y[n]]
      BY DEF BitString, BitPath
    <3>3. [n \in 1..DataLen |-> x[n]] = [n \in 1..DataLen |-> y[n]]
      BY <3>1, Zenon
    <3> QED BY <3>2, <3>3, Zenon
  <2> QED BY <1>3, <1>5, <1>7, <2>1, Zenon
<1> QED BY <1>3, <1>6, <1>8

(* Records, requests and replies have the shape the handlers expect. *)
THEOREM TypeCorrect == ~LateDelivery => (Spec => []TypeOK)
BY Inductive, TypeOKFromInv, PTL

(* Both servers that the leader still talks to hold the keys it sent, in the
   order it sent them: the i-th of one is the other half of the i-th of the
   other (leader.rs main, server.rs add_keys and reset). *)
THEOREM KeysStayAligned == ~LateDelivery => (Spec => []KeysAligned)
BY Inductive, KeysAlignedFromInv, PTL

(* No index is ever out of bounds in a handler and no length assertion fails,
   so no lock is poisoned (collect.rs, mpc.rs). *)
THEOREM NothingPanics == ~LateDelivery => (Spec => []NoPoison)
BY Inductive, NoPoisonFromInv, PTL

(* Every key is checked once a level, honest keys pass, and the counts that
   keep_values opens are at most the number of clients (leader.rs run_level,
   server.rs arc_mul, collect.rs keep_values). *)
THEOREM LevelsChecked == ~LateDelivery => (Spec => [](HonestKeysPass /\ EveryKeyChecked /\ SumsBounded))
BY Inductive, CheckedFromInv, PTL

(* Values and keep are applied to the same nodes at both servers
   (collect.rs keep_values and tree_prune). *)
THEOREM FrontiersStayTogether == ~LateDelivery => (Spec => []FrontiersAgree)
BY Inductive, FrontiersAgreeFromInv, PTL

(* The answer is every heavy string, once, with its count, and nothing else,
   whatever servers and earlier leaders died on the way
   (collect.rs final_values, leader.rs run_level's threshold). *)
THEOREM AnswersExactly == ~LateDelivery => (Spec => [](ResultExact /\ NothingInvented))
BY Inductive, ResultFromInv, NothingInventedFromInv, PTL

-----------------------------------------------------------------------------
(* The refinement: each server's frontier on its own goes through PrefixTree's
   steps.  They are stated for a server s, so that one proof serves both. *)

\* A batch of at least one string, and no more than there are clients, joins v.
MoreVotes(v, w) == \E n \in 1..(NReqs - Len(v)) : \E b \in [1..n -> BitString] : w = v \o b

\* Both children of each of the prefixes A.
Extended(A) == {Append(p, b) : p \in A, b \in BOOLEAN}

Rests(s) == /\ StoredVotes(s)' = StoredVotes(s) /\ tree'[s] = tree[s]
            /\ FrontierPaths(s)' = FrontierPaths(s)

Resets(s) == /\ StoredVotes(s)' = << >> /\ tree'[s] = [phase |-> "collect", level |-> 0]
             /\ FrontierPaths(s)' = {}

Adds(s) == /\ tree[s].phase = "collect" /\ tree'[s] = tree[s]
           /\ MoreVotes(StoredVotes(s), StoredVotes(s)')
           /\ FrontierPaths(s)' = FrontierPaths(s)

Starts(s) == /\ tree[s].phase = "collect" /\ tree'[s] = [phase |-> "pruned", level |-> 0]
             /\ FrontierPaths(s)' = {<< >>}
             /\ StoredVotes(s)' = StoredVotes(s)

Crawls(s) == /\ tree[s].phase = "pruned" /\ tree[s].level < DataLen
             /\ tree'[s] = [phase |-> "crawled", level |-> tree[s].level + 1]
             /\ FrontierPaths(s)' = Extended(FrontierPaths(s))
             /\ StoredVotes(s)' = StoredVotes(s)

Prunes(s) == /\ tree[s].phase = "crawled"
             /\ tree'[s] = [phase |-> IF tree[s].level = DataLen THEN "done" ELSE "pruned",
                            level |-> tree[s].level]
             /\ FrontierPaths(s)' = {p \in FrontierPaths(s) : Count(StoredVotes(s), p) >= Threshold}
             /\ StoredVotes(s)' = StoredVotes(s)

Searches(s) == Rests(s) \/ Resets(s) \/ Adds(s) \/ Starts(s) \/ Crawls(s) \/ Prunes(s)

(* The abstract state that a server's record and place stand for. *)
VotesIn(srv) == [i \in DOMAIN srv.coll.keys |-> srv.coll.keys[i].key.bits]
PathsIn(srv, t) == Range(Paths(FrontierOf(srv.coll, t.level = DataLen)))

LEMMA AbstractState ==
    ASSUME NEW s
    PROVE  /\ StoredVotes(s) = VotesIn(server[s])
           /\ StoredVotes(s)' = VotesIn(server'[s])
           /\ FrontierPaths(s) = PathsIn(server[s], tree[s])
           /\ FrontierPaths(s)' = PathsIn(server'[s], tree'[s])
BY DEF StoredVotes, VotesIn, FrontierPaths, PathsIn

(* Before there is a tree a server has no prefixes. *)
LEMMA CollectingHasNone ==
    ASSUME NEW srv, NEW t, Shape(srv, t), t.phase = "collect"
    PROVE  PathsIn(srv, t) = {} /\ t = [phase |-> "collect", level |-> 0]
<1> USE DataLenAssumption
<1>1. t \in TreePlace /\ t.level = 0 /\ srv.coll.frontier = << >>
  BY DEF Shape
<1>2. FrontierOf(srv.coll, t.level = DataLen) = << >>
  BY <1>1 DEF FrontierOf
<1>3. Range(Paths(<< >>)) = {}
  BY DEF Range, Paths
<1>4. t = [phase |-> "collect", level |-> 0]
  BY <1>1 DEF TreePlace
<1> QED BY <1>2, <1>3, <1>4 DEF PathsIn

LEMMA FreshServerHas ==
    /\ VotesIn(NewServer) = << >>
    /\ PathsIn(NewServer, [phase |-> "collect", level |-> 0]) = {}
<1>1. VotesIn(NewServer) = << >>
  BY DEF VotesIn, NewServer, NewCollection
<1> QED BY <1>1, NewServerShape, CollectingHasNone

(* A batch of keys is a batch of strings. *)
LEMMA AddsVotes ==
    ASSUME NEW srv, NEW t, Shape(srv, t), NEW r, r.op = "add_keys", Fits(srv, t, r),
           NEW new, new.coll.keys = srv.coll.keys \o AliveKeys(r.keys)
    PROVE  MoreVotes(VotesIn(srv), VotesIn(new))
<1> USE SystemAssumption
<1>1. PICK ks : ks = srv.coll.keys /\ ks \in Seq(StoredKey)
  BY RecordFields, CollectionFields DEF Shape
<1>2. PICK m \in Nat : m = Len(ks) /\ DOMAIN ks = 1..m
  BY <1>1, LenProperties
<1>3. r.keys \in Seq(Key) /\ r.keys # << >> /\ Len(ks) + Len(r.keys) <= NReqs
  BY <1>1 DEF Fits
<1>4. PICK q : q = r.keys
  OBVIOUS
<1>5. PICK n \in Nat : n = Len(q) /\ DOMAIN q = 1..n
  BY <1>3, <1>4, LenProperties
<1>6. n \in 1..(NReqs - m)
  <2>1. n # 0
    BY <1>3, <1>4, <1>5, EmptySeq
  <2>2. m + n <= NReqs
    BY <1>2, <1>3, <1>4, <1>5
  <2> QED BY <2>1, <2>2
<1>7. PICK b : b = [i \in 1..n |-> q[i].bits]
  OBVIOUS
<1>8. b \in [1..n -> BitString]
  <2>1. \A i \in 1..n : q[i] \in Key
    BY <1>3, <1>4, <1>5, ElementOfSeq
  <2>2. \A i \in 1..n : q[i].bits \in BitString
    BY <2>1 DEF Key
  <2> QED BY <1>7, <2>2
<1>9. PICK more : more = AliveKeys(q)
  OBVIOUS
<1>10. more = [i \in 1..n |-> [alive |-> TRUE, key |-> q[i]]]
  BY <1>5, <1>9 DEF AliveKeys
<1>11. more \in Seq(StoredKey) /\ Len(more) = n
  <2>1. \A i \in 1..n : q[i] \in Key
    BY <1>3, <1>4, <1>5, ElementOfSeq
  <2>2. more \in [1..n -> StoredKey]
    BY <1>10, <2>1 DEF StoredKey
  <2> QED BY <1>10, <2>2
<1>12. PICK all : all = ks \o more
  OBVIOUS
<1>13. /\ all \in Seq(StoredKey) /\ Len(all) = m + n
       /\ \A i \in 1..(m + n) : all[i] = IF i <= m THEN ks[i] ELSE more[i - m]
  <2>1. ks \in Seq(StoredKey) /\ more \in Seq(StoredKey) /\ Len(ks) = m /\ Len(more) = n
    BY <1>1, <1>2, <1>11, Zenon
  <2> QED BY <1>12, <2>1, ConcatProperties
<1>14. PICK v : v = VotesIn(srv)
  OBVIOUS
<1>15. v = [i \in 1..m |-> ks[i].key.bits]
  BY <1>1, <1>2, <1>14 DEF VotesIn
<1>16. v \in Seq(BitString) /\ Len(v) = m
  <2>1. \A i \in 1..m : ks[i] \in StoredKey
    BY <1>1, <1>2, ElementOfSeq
  <2>2. \A i \in 1..m : ks[i].key.bits \in BitString
    BY <2>1 DEF StoredKey, Key
  <2>3. v \in [1..m -> BitString]
    BY <1>15, <2>2
  <2> QED BY <1>15, <2>3
<1>17. b \in Seq(BitString) /\ Len(b) = n
  BY <1>7, <1>8
<1>18. PICK c : c = v \o b
  OBVIOUS
<1>19. /\ c \in Seq(BitString) /\ Len(c) = m + n
       /\ \A i \in 1..(m + n) : c[i] = IF i <= m THEN v[i] ELSE b[i - m]
  BY <1>16, <1>17, <1>18, ConcatProperties
<1>20. PICK w : w = VotesIn(new)
  OBVIOUS
<1>21. w = [i \in 1..(m + n) |-> all[i].key.bits]
  <2>1. new.coll.keys = all
    BY <1>1, <1>4, <1>9, <1>12, Zenon
  <2>2. DOMAIN all = 1..(m + n)
    BY <1>13, LenProperties
  <2> QED BY <1>20, <2>1, <2>2 DEF VotesIn
<1>22. ASSUME NEW i \in 1..(m + n) PROVE c[i] = all[i].key.bits
  <2>1. CASE i <= m
    <3>1. i \in 1..m
      BY <2>1
    <3>2. v[i] = ks[i].key.bits
      BY <1>15, <3>1
    <3> QED BY <1>13, <1>19, <2>1, <3>2
  <2>2. CASE ~(i <= m)
    <3>1. i - m \in 1..n
      BY <2>2
    <3>2. more[i - m].key = q[i - m] /\ b[i - m] = q[i - m].bits
      BY <1>7, <1>10, <3>1
    <3> QED BY <1>13, <1>19, <2>2, <3>2
  <2> QED BY <2>1, <2>2
<1>23. c = [i \in 1..(m + n) |-> c[i]]
  BY <1>19, LenProperties
<1>24. w = c
  BY <1>21, <1>22, <1>23
<1>25. n \in 1..(NReqs - Len(VotesIn(srv)))
  BY <1>6, <1>14, <1>16
<1> QED BY <1>8, <1>14, <1>18, <1>20, <1>24, <1>25, Zenon DEF MoreVotes

(* The prefixes that a crawl goes to. *)
LEMMA ChildPathsExtend ==
    ASSUME NEW n \in Nat, NEW P \in Seq(BitPath(n))
    PROVE  Range(ChildPaths(P)) = Extended(Range(P))
<1>1. \A q \in Range(ChildPaths(P)) : \E p \in Range(P), b \in BOOLEAN : q = Append(p, b)
  BY ChildPathsAreChildren
<1>2. \A p \in Range(P), b \in BOOLEAN : Append(p, b) \in Range(ChildPaths(P))
  BY ChildPathsAreChildren
<1>3. ASSUME NEW q \in Range(ChildPaths(P)) PROVE q \in Extended(Range(P))
  <2>1. PICK p \in Range(P), b \in BOOLEAN : q = Append(p, b)
    BY <1>1, <1>3, Zenon
  <2> QED BY <2>1, SMT DEF Extended
<1>4. ASSUME NEW q \in Extended(Range(P)) PROVE q \in Range(ChildPaths(P))
  <2>1. PICK p \in Range(P), b \in BOOLEAN : q = Append(p, b)
    BY <1>4, SMT DEF Extended
  <2> QED BY <1>2, <2>1, Zenon
<1> QED BY <1>3, <1>4

(* One handler: what it does to a server is a step of the search. *)
LEMMA HandlerSearches ==
    ASSUME NEW s \in Server, NEW r, r.op \in Rpc, Shape(server[s], tree[s]),
           Fits(server[s], tree[s], r), server'[s] = Handle(s, server[s], r).srv,
           tree'[s] = TreeAfter(s, r)
    PROVE  Searches(s)
<1> USE SystemAssumption, DataLenAssumption
<1>1. PICK srv, t : srv = server[s] /\ t = tree[s]
  OBVIOUS
<1>2. Shape(srv, t) /\ Fits(srv, t, r) /\ srv \in ServerRecord /\ t \in TreePlace
  BY <1>1 DEF Shape
<1>3. /\ t = [phase |-> t.phase, level |-> t.level] /\ t.level \in 0..DataLen
      /\ t.phase \in {"collect", "pruned", "crawled", "done"}
  BY <1>2 DEF TreePlace
<1>4. /\ StoredVotes(s) = VotesIn(srv) /\ StoredVotes(s)' = VotesIn(server'[s])
      /\ FrontierPaths(s) = PathsIn(srv, t) /\ FrontierPaths(s)' = PathsIn(server'[s], tree'[s])
  BY <1>1, AbstractState
<1>5. CASE r.op = "reset"
  <2>1. server'[s] = NewServer
    BY <1>1, <1>2, <1>5, ResetHandled
  <2>2. tree'[s] = [phase |-> "collect", level |-> 0]
    BY <1>5, PlaceAfter
  <2> QED BY <1>4, <2>1, <2>2, FreshServerHas DEF Searches, Resets
<1>6. CASE r.op = "add_keys"
  <2>1. PICK new : KeysAdded(s, srv, t, r, new)
    BY <1>2, <1>6, AddKeysHandled
  <2>2. /\ server'[s] = new /\ new.coll.keys = srv.coll.keys \o AliveKeys(r.keys)
        /\ Shape(new, [phase |-> "collect", level |-> 0])
    <3>1. Handle(s, srv, r).srv = new
      <4>1. \A v : [srv |-> new, reply |-> <<v>>].srv = new
        OBVIOUS
      <4>2. PICK v : Handle(s, srv, r) = [srv |-> new, reply |-> <<v>>]
        BY <2>1, Zenon DEF KeysAdded
      <4> QED BY <4>1, <4>2
    <3>2. new.coll.keys = srv.coll.keys \o AliveKeys(r.keys)
      BY <2>1, Zenon DEF KeysAdded
    <3>3. Shape(new, [phase |-> "collect", level |-> 0])
      BY <2>1, Zenon DEF KeysAdded
    <3> QED BY <1>1, <3>1, <3>2, <3>3
  <2>3. t.phase = "collect"
    BY <1>2, <1>6 DEF Fits
  <2>4. tree'[s] = t /\ t = [phase |-> "collect", level |-> 0] /\ PathsIn(srv, t) = {}
    BY <1>2, <1>6, <2>3, PlaceAfter, CollectingHasNone
  <2>5. PathsIn(new, t) = {}
    BY <2>2, <2>3, <2>4, CollectingHasNone
  <2>6. MoreVotes(VotesIn(srv), VotesIn(new))
    BY <1>2, <1>6, <2>2, AddsVotes
  <2>7. Adds(s)
    BY <1>1, <1>4, <2>2, <2>3, <2>4, <2>5, <2>6, Zenon DEF Adds
  <2> QED BY <2>7 DEF Searches
<1>7. CASE r.op = "tree_init"
  <2>1. PICK new : TreeStarted(s, srv, t, r, new)
    BY <1>2, <1>7, TreeInitHandled
  <2>2. Handle(s, srv, r) = [srv |-> new, reply |-> <<"Done">>] /\ new.coll.keys = srv.coll.keys
    BY <2>1, Zenon DEF TreeStarted
  <2>3. Paths(new.coll.frontier) = << << >> >>
    BY <2>1, Zenon DEF TreeStarted
  <2>4. server'[s] = new /\ tree'[s] = [phase |-> "pruned", level |-> 0]
    BY <1>1, <1>7, <2>2, PlaceAfter
  <2>5. PathsIn(new, tree'[s]) = {<< >>}
    <3>1. PathsIn(new, tree'[s]) = Range(Paths(new.coll.frontier))
      BY <2>4 DEF PathsIn, FrontierOf
    <3>2. \A e : Range(<<e>>) = {e}
      BY DEF Range
    <3> QED BY <2>3, <3>1, <3>2, Zenon
  <2>6. VotesIn(new) = VotesIn(srv)
    BY <2>2 DEF VotesIn
  <2>7. t.phase = "collect"
    BY <1>2, <1>7 DEF Fits
  <2>8. Starts(s)
    BY <1>1, <1>4, <2>4, <2>5, <2>6, <2>7, Zenon DEF Starts
  <2> QED BY <2>8 DEF Searches
<1>8. CASE r.op = "tree_crawl"
  <2>1. PICK P : P = Paths(srv.coll.frontier)
    OBVIOUS
  <2>2. PICK new : Crawled(s, srv, t, r, P, new)
    BY <1>2, <1>8, <2>1, CrawlHandled
  <2>3. t.phase = "pruned" /\ t.level < DataLen /\ r.last = (t.level + 1 = DataLen)
    BY <1>2, <1>8 DEF Fits
  <2>4. /\ server'[s] = new /\ new.coll.keys = srv.coll.keys
        /\ tree'[s] = [phase |-> "crawled", level |-> t.level + 1]
    BY <1>1, <1>8, <2>2, PlaceAfter DEF Crawled
  <2>5. VotesIn(new) = VotesIn(srv)
    BY <2>4 DEF VotesIn
  <2>6. PathsIn(srv, t) = Range(P)
    BY <1>3, <2>1, <2>3 DEF PathsIn, FrontierOf
  <2>7. t.level \in Nat /\ P \in Seq(BitPath(t.level))
    BY <1>3, <2>2 DEF Crawled
  <2>8. PathsIn(new, tree'[s]) = Range(ChildPaths(P))
    <3>1. ChildPaths(P) \in Seq(BitPath(t.level + 1))
      BY <2>7, ChildPathsAreChildren
    <3>2. IsFrontier(FrontierOf(new.coll, r.last), ChildPaths(P), Len(srv.coll.keys))
      BY <2>2 DEF Crawled
    <3>3. Paths(FrontierOf(new.coll, r.last)) = ChildPaths(P)
      BY <3>1, <3>2, FrontierParts
    <3>4. (tree'[s].level = DataLen) = r.last
      BY <2>3, <2>4
    <3> QED BY <3>3, <3>4 DEF PathsIn
  <2>9. Range(ChildPaths(P)) = Extended(Range(P))
    BY <2>7, ChildPathsExtend
  <2>10. FrontierPaths(s)' = Extended(FrontierPaths(s)) /\ StoredVotes(s)' = StoredVotes(s)
    BY <1>4, <2>4, <2>5, <2>6, <2>8, <2>9, Zenon
  <2>11. /\ tree[s].phase = "pruned" /\ tree[s].level < DataLen
         /\ tree'[s] = [phase |-> "crawled", level |-> tree[s].level + 1]
    BY <1>1, <2>3, <2>4
  <2>12. Crawls(s)
    BY <2>10, <2>11, Zenon DEF Crawls
  <2> QED BY <2>12 DEF Searches
<1>9. CASE r.op = "tree_prune"
  <2>1. PICK nodes : nodes = FrontierOf(srv.coll, r.last)
    OBVIOUS
  <2>2. PICK new : PrunedTo(s, srv, t, r, nodes, new)
    BY <1>2, <1>9, <2>1, PruneHandled
  <2>3. /\ t.phase = "crawled" /\ r.last = (t.level = DataLen)
        /\ \A i \in 1..Len(nodes) : r.keep[i] <=> Count(VotesOf(srv), nodes[i].path) >= Threshold
    BY <1>2, <1>9, <2>1 DEF Fits
  <2>4. /\ server'[s] = new /\ new.coll.keys = srv.coll.keys
        /\ tree'[s] = [phase |-> IF t.level = DataLen THEN "done" ELSE "pruned", level |-> t.level]
    <3>1. server'[s] = new /\ new.coll.keys = srv.coll.keys
      BY <1>1, <2>2 DEF PrunedTo
    <3>2. tree'[s] = [t EXCEPT !.phase = IF r.last THEN "done" ELSE "pruned"]
      BY <1>1, <1>9, PlaceAfter
    <3> QED BY <1>3, <2>3, <3>1, <3>2
  <2>5. VotesIn(new) = VotesIn(srv) /\ VotesOf(srv) = VotesIn(srv)
    BY <2>4 DEF VotesIn, VotesOf
  <2>6. PICK e, n, P : e = Kept(r.keep) /\ n = Len(nodes) /\ P = Paths(nodes)
    OBVIOUS
  <2>7. /\ P \in Seq(BitPath(t.level)) /\ Len(P) = n /\ n \in Nat
        /\ Lists(e, r.keep, 0, n) /\ IsFrontier(nodes, P, Len(srv.coll.keys))
        /\ FrontierOf(new.coll, r.last) = Picked(nodes, e)
    BY <2>2, <2>6, LenProperties DEF PrunedTo
  <2>8. PathsIn(srv, t) = Range(P)
    BY <2>1, <2>3, <2>6 DEF PathsIn
  <2>9. PathsIn(new, tree'[s]) = {P[i] : i \in {j \in 1..n : r.keep[j]}}
    <3>1. e \in Seq(1..n)
      BY <2>7 DEF Lists
    <3>2. IsFrontier(Picked(nodes, e), Picked(P, e), Len(srv.coll.keys))
      BY <2>7, <3>1, PickedFrontier
    <3>3. /\ Picked(P, e) \in Seq(BitPath(t.level))
          /\ Range(Picked(P, e)) = {P[i] : i \in {j \in 1..n : r.keep[j]}}
      <4>1. PICK keep : keep = r.keep
        OBVIOUS
      <4>2. Lists(e, keep, 0, n) /\ P \in Seq(BitPath(t.level)) /\ Len(P) = n /\ n \in Nat
        BY <2>7, <4>1
      <4>3. /\ Picked(P, e) \in Seq(BitPath(t.level))
            /\ Range(Picked(P, e)) = {P[i] : i \in {j \in 1..n : keep[j]}}
        BY <4>2, PickedPaths
      <4> QED BY <4>1, <4>3
    <3>4. Paths(Picked(nodes, e)) = Picked(P, e)
      BY <3>2, <3>3, FrontierParts
    <3>5. (tree'[s].level = DataLen) = r.last
      BY <2>3, <2>4
    <3> QED BY <2>7, <3>3, <3>4, <3>5 DEF PathsIn
  <2>10. {P[i] : i \in {j \in 1..n : r.keep[j]}}
           = {p \in Range(P) : Count(VotesIn(srv), p) >= Threshold}
    <3>1. \A i \in 1..n : r.keep[i] <=> Count(VotesIn(srv), P[i]) >= Threshold
      <4>1. \A i \in 1..n : nodes[i].path = P[i]
        BY <2>7 DEF IsFrontier
      <4> QED BY <2>3, <2>5, <2>6, <4>1
    <3>2. DOMAIN P = 1..n
      BY <2>7, LenProperties
    <3>3. Range(P) = {P[i] : i \in 1..n}
      BY <3>2 DEF Range
    <3> QED BY <3>1, <3>3
  <2>11. Prunes(s)
    BY <1>1, <1>4, <2>3, <2>4, <2>5, <2>8, <2>9, <2>10, Zenon DEF Prunes
  <2> QED BY <2>11 DEF Searches
<1>10. CASE r.op \in {"tree_sketch_frontier", "tree_out_shares", "final_shares"}
  <2>1. server'[s].coll = srv.coll
    <3>1. r.op \in Rpc \ {"reset", "add_keys"}
      BY <1>10
    <3> QED BY <1>1, <1>2, <1>10, <3>1, HandledKeeps
  <2>2. tree'[s] = t
    BY <1>1, <1>10, PlaceAfter
  <2>3. VotesIn(server'[s]) = VotesIn(srv) /\ PathsIn(server'[s], t) = PathsIn(srv, t)
    BY <2>1 DEF VotesIn, PathsIn
  <2> QED BY <1>1, <1>4, <2>2, <2>3 DEF Searches, Rests
<1> QED BY <1>5, <1>6, <1>7, <1>8, <1>9, <1>10 DEF Rpc

(* A step of the system is at each server a step of the search or none. *)
LEMMA StepSearches ==
    ASSUME IInv, [Next]_vars, NEW s \in Server
    PROVE  Searches(s)
<1>1. ASSUME server'[s] = server[s], tree'[s] = tree[s] PROVE Searches(s)
  BY <1>1, AbstractState DEF Searches, Rests
<1>2. CASE LeaderStep \/ NewLeader \/ Finished \/ UNCHANGED vars
  <2>1. server' = server /\ tree' = tree
    BY <1>2 DEF LeaderStep, KeysStep, TreeInitReturned, CrawlReturned, SketchReturned,
                OutSharesReturned, PruneReturned, FinalReturned, NewLeader, Finished, vars, others
  <2> QED BY <1>1, <2>1
<1>3. ASSUME NEW u \in Server, CloseConnection(u) PROVE Searches(s)
  BY <1>1, <1>3 DEF CloseConnection
<1>4. ASSUME NEW u \in Server, Crash(u) PROVE Searches(s)
  <2>1. /\ server' = [server EXCEPT ![u] = NewServer]
        /\ tree' = [tree EXCEPT ![u] = [phase |-> "collect", level |-> 0]]
        /\ DOMAIN server = Server /\ DOMAIN tree = Server
    BY <1>4 DEF Crash, IInv, Tables
  <2>2. CASE u = s
    <3>1. server'[s] = NewServer /\ tree'[s] = [phase |-> "collect", level |-> 0]
      BY <2>1, <2>2
    <3> QED BY <3>1, AbstractState, FreshServerHas DEF Searches, Resets
  <2>3. CASE u # s
    <3>1. server'[s] = server[s] /\ tree'[s] = tree[s]
      BY <2>1, <2>3
    <3> QED BY <1>1, <3>1
  <2> QED BY <2>2, <2>3
<1>5. ASSUME NEW u \in Server, ServeSession(u) \/ ServeStale(u) PROVE Searches(s)
  <2>1. PICK req \in net[u] : Serve(u, req)
    BY <1>5 DEF ServeSession, ServeStale, Stale
  <2>2. Shape(server[u], tree[u]) /\ req.op \in Rpc /\ Fits(server[u], tree[u], req)
    BY <2>1 DEF IInv, ServerInv
  <2>3. PICK new, v : /\ Handle(u, server[u], req) = [srv |-> new, reply |-> <<v>>]
                      /\ Shape(new, TreeAfter(u, req))
    BY <2>2, Handled
  <2>4. /\ server' = [server EXCEPT ![u] = new] /\ tree' = [tree EXCEPT ![u] = TreeAfter(u, req)]
        /\ DOMAIN server = Server /\ DOMAIN tree = Server
    BY <2>1, <2>3 DEF Serve, IInv, Tables
  <2>5. CASE u = s
    <3>1. server'[s] = new /\ tree'[s] = TreeAfter(s, req)
      BY <2>4, <2>5
    <3>2. server'[s] = Handle(s, server[s], req).srv
      BY <2>3, <2>5, <3>1
    <3> QED BY <2>2, <2>5, <3>1, <3>2, HandlerSearches
  <2>6. CASE u # s
    <3>1. server'[s] = server[s] /\ tree'[s] = tree[s]
      BY <2>4, <2>6
    <3> QED BY <1>1, <3>1
  <2> QED BY <2>5, <2>6
<1> QED BY <1>2, <1>3, <1>4, <1>5 DEF Next

(* Seen at server 0, and at server 1, which may be a step ahead or behind, the
   joint search is PrefixTree's: exactly the light nodes are dropped, though
   neither server ever sees a count (tree_crawl, keep_values, tree_prune). *)
THEOREM SearchIsRefined == ~LateDelivery => (Spec => Server0Searches /\ Server1Searches)
<1> USE SystemAssumption, DataLenAssumption
<1>1. Init => Tree0!Init /\ Tree1!Init
  <2> SUFFICES ASSUME Init PROVE Tree0!Init /\ Tree1!Init
    OBVIOUS
  <2>1. ASSUME NEW s \in Server
        PROVE  /\ tree[s].phase = "collect" /\ tree[s].level = 0
               /\ StoredVotes(s) = << >> /\ FrontierPaths(s) = {}
    BY AbstractState, FreshServerHas DEF Init, Idle
  <2> QED BY <2>1 DEF Tree0!Init, Tree1!Init, Server
<1>2. IInv /\ [Next]_vars => [Tree0!Next]_(Tree0!vars) /\ [Tree1!Next]_(Tree1!vars)
  <2> SUFFICES ASSUME IInv, [Next]_vars
               PROVE  [Tree0!Next]_(Tree0!vars) /\ [Tree1!Next]_(Tree1!vars)
    OBVIOUS
  <2>1. Searches(0) /\ Searches(1)
    BY StepSearches DEF Server
  <2>2. [Tree0!Next]_(Tree0!vars)
    <3>1. CASE Rests(0)
      BY <3>1 DEF Rests, Tree0!vars
    <3>2. CASE Resets(0)
      <4>1. tree'[0].phase = "collect" /\ tree'[0].level = 0
        BY <3>2 DEF Resets
      <4> QED BY <3>2, <4>1, Zenon DEF Resets, Tree0!Reset, Tree0!Next
    <3>3. CASE Adds(0)
      <4>1. /\ tree[0].phase = "collect" /\ tree'[0].phase = tree[0].phase
            /\ tree'[0].level = tree[0].level
        BY <3>3, Zenon DEF Adds
      <4>2. MoreVotes(StoredVotes(0), StoredVotes(0)') /\ FrontierPaths(0)' = FrontierPaths(0)
        BY <3>3, Zenon DEF Adds
      <4>3. Tree0!AddKeys
        BY <4>1, <4>2, Zenon DEF MoreVotes, Tree0!AddKeys, Tree0!BitString, Tree0!BitPath, BitString, BitPath
      <4> QED BY <4>3, Zenon DEF Tree0!Next
    <3>4. CASE Starts(0)
      <4>1. /\ tree[0].phase = "collect"
            /\ tree'[0].phase = "pruned" /\ tree'[0].level = 0
        BY <3>4 DEF Starts
      <4> QED BY <3>4, <4>1, Zenon DEF Starts, Tree0!TreeInit, Tree0!Next
    <3>5. CASE Crawls(0)
      <4>1. /\ tree[0].phase = "pruned" /\ tree[0].level < DataLen
            /\ tree'[0].phase = "crawled" /\ tree'[0].level = tree[0].level + 1
        BY <3>5 DEF Crawls
      <4>2. Tree0!Crawl
        <5>1. Tree0!Children = Extended(FrontierPaths(0))
          BY DEF Tree0!Children, Extended
        <5>2. FrontierPaths(0)' = Extended(FrontierPaths(0)) /\ StoredVotes(0)' = StoredVotes(0)
          BY <3>5, Zenon DEF Crawls
        <5> QED BY <4>1, <5>1, <5>2 DEF Tree0!Crawl
      <4> QED BY <4>2, Zenon DEF Tree0!Next
    <3>6. CASE Prunes(0)
      <4>1. /\ tree[0].phase = "crawled" /\ tree'[0].level = tree[0].level
            /\ tree'[0].phase = IF tree[0].level = DataLen THEN "done" ELSE "pruned"
        BY <3>6 DEF Prunes
      <4>2. Tree0!Prune
        <5>1. \A vs, p : Tree0!Count(vs, p) = Count(vs, p)
          BY DEF Tree0!Count, Tree0!Holders, Tree0!Cardinality, Count, Holders, Cardinality
        <5>2. FrontierPaths(0)' = {p \in FrontierPaths(0) : Count(StoredVotes(0), p) >= Threshold}
          BY <3>6, Zenon DEF Prunes
        <5>3. Tree0!Survivors = {p \in FrontierPaths(0) : Count(StoredVotes(0), p) >= Threshold}
          BY <5>1 DEF Tree0!Survivors
        <5>4. StoredVotes(0)' = StoredVotes(0)
          BY <3>6, Zenon DEF Prunes
        <5> QED BY <4>1, <5>2, <5>3, <5>4 DEF Tree0!Prune
      <4> QED BY <4>2, Zenon DEF Tree0!Next
    <3> QED BY <2>1, <3>1, <3>2, <3>3, <3>4, <3>5, <3>6, Zenon DEF Searches
  <2>3. [Tree1!Next]_(Tree1!vars)
    <3>1. CASE Rests(1)
      BY <3>1 DEF Rests, Tree1!vars
    <3>2. CASE Resets(1)
      <4>1. tree'[1].phase = "collect" /\ tree'[1].level = 0
        BY <3>2 DEF Resets
      <4> QED BY <3>2, <4>1, Zenon DEF Resets, Tree1!Reset, Tree1!Next
    <3>3. CASE Adds(1)
      <4>1. /\ tree[1].phase = "collect" /\ tree'[1].phase = tree[1].phase
            /\ tree'[1].level = tree[1].level
        BY <3>3, Zenon DEF Adds
      <4>2. MoreVotes(StoredVotes(1), StoredVotes(1)') /\ FrontierPaths(1)' = FrontierPaths(1)
        BY <3>3, Zenon DEF Adds
      <4>3. Tree1!AddKeys
        BY <4>1, <4>2, Zenon DEF MoreVotes, Tree1!AddKeys, Tree1!BitString, Tree1!BitPath, BitString, BitPath
      <4> QED BY <4>3, Zenon DEF Tree1!Next
    <3>4. CASE Starts(1)
      <4>1. /\ tree[1].phase = "collect"
            /\ tree'[1].phase = "pruned" /\ tree'[1].level = 0
        BY <3>4 DEF Starts
      <4> QED BY <3>4, <4>1, Zenon DEF Starts, Tree1!TreeInit, Tree1!Next
    <3>5. CASE Crawls(1)
      <4>1. /\ tree[1].phase = "pruned" /\ tree[1].level < DataLen
            /\ tree'[1].phase = "crawled" /\ tree'[1].level = tree[1].level + 1
        BY <3>5 DEF Crawls
      <4>2. Tree1!Crawl
        <5>1. Tree1!Children = Extended(FrontierPaths(1))
          BY DEF Tree1!Children, Extended
        <5>2. FrontierPaths(1)' = Extended(FrontierPaths(1)) /\ StoredVotes(1)' = StoredVotes(1)
          BY <3>5, Zenon DEF Crawls
        <5> QED BY <4>1, <5>1, <5>2 DEF Tree1!Crawl
      <4> QED BY <4>2, Zenon DEF Tree1!Next
    <3>6. CASE Prunes(1)
      <4>1. /\ tree[1].phase = "crawled" /\ tree'[1].level = tree[1].level
            /\ tree'[1].phase = IF tree[1].level = DataLen THEN "done" ELSE "pruned"
        BY <3>6 DEF Prunes
      <4>2. Tree1!Prune
        <5>1. \A vs, p : Tree1!Count(vs, p) = Count(vs, p)
          BY DEF Tree1!Count, Tree1!Holders, Tree1!Cardinality, Count, Holders, Cardinality
        <5>2. FrontierPaths(1)' = {p \in FrontierPaths(1) : Count(StoredVotes(1), p) >= Threshold}
          BY <3>6, Zenon DEF Prunes
        <5>3. Tree1!Survivors = {p \in FrontierPaths(1) : Count(StoredVotes(1), p) >= Threshold}
          BY <5>1 DEF Tree1!Survivors
        <5>4. StoredVotes(1)' = StoredVotes(1)
          BY <3>6, Zenon DEF Prunes
        <5> QED BY <4>1, <5>2, <5>3, <5>4 DEF Tree1!Prune
      <4> QED BY <4>2, Zenon DEF Tree1!Next
    <3> QED BY <2>1, <3>1, <3>2, <3>3, <3>4, <3>5, <3>6, Zenon DEF Searches
  <2> QED BY <2>2, <2>3
<1> QED BY <1>1, <1>2, Inductive, PTL
        DEF Spec, Server0Searches, Server1Searches, Tree0!Spec, Tree1!Spec
=============================================================================
