--------------------------- MODULE CollectorSystem ---------------------------
(***************************************************************************)
(* The deployment: a leader (src/src/bin/leader.rs) that simulates the     *)
(* clients and drives the search, two servers, and the RPCs between them.  *)
(* Every leader step sends one request to both servers and waits for both  *)
(* replies (try_join!).  Each request is a task of its own at the server.  *)
(*                                                                         *)
(* A leader may die and be run again: the new session generates new keys   *)
(* and starts with reset, on servers that kept running.  What the old one  *)
(* left in flight is dropped when the server notices the closed            *)
(* connection.  LateDelivery says whether a later session can be served    *)
(* before that.                                                            *)
(*                                                                         *)
(* A server may die too and be run again, with nothing of what it kept.    *)
(* The leader never reconnects: the call it waits for fails, or its next   *)
(* one does, and it exits.                                                 *)
(***************************************************************************)
EXTENDS CollectorServer

CONSTANTS NReqs,                \* clients (-n)
          AddKeyBatchSize,      \* config addkey_batch_size
          SketchBatchSize,      \* config sketch_batch_size
          SketchBatchSizeLast,  \* config sketch_batch_size_last
          ThresholdNum,         \* config threshold, a fraction
          ThresholdDen,
          MaxSessions,          \* bound: leaders run one after another
          MaxCrashes,           \* bound: times a server dies
          LateDelivery          \* may an old session's request outlive it?

ASSUME SystemAssumption ==
    /\ NReqs \in Nat
    /\ Modulus > NReqs
    /\ {AddKeyBatchSize, SketchBatchSize, SketchBatchSizeLast} \subseteq Nat \ {0}
    /\ ThresholdNum \in Nat /\ ThresholdDen \in Nat \ {0}
    /\ MaxSessions \in Nat \ {0}
    /\ MaxCrashes \in Nat
    /\ LateDelivery \in BOOLEAN

VARIABLES server,    \* [Server -> the server's record]
          net,       \* [Server -> requests not handled yet]
          replies,   \* [Server -> << >>, or <<the reply>>], to the leader's request
          session,   \* which leader this is
          keys,      \* the key pairs it generated
          pc,        \* the RPC it waits for
          left,      \* left_to_go: clients not sent yet
          level,     \* level of the tree
          start,     \* first key of the sketch batch
          vals,      \* [Server -> values of the last crawl]
          lost,      \* the servers its connection to which is gone
          crashes,   \* how often a server has died
          sent,      \* history: the keys this session sent, in order
          verified,  \* history: [client -> its checks at this level]
          tree       \* history: [Server -> phase and level of its tree]

progress == <<keys, left, level, start, vals, sent>>
leaderVars == <<progress, session, pc, lost>>
vars == <<server, net, replies, leaderVars, verified, tree, crashes>>

Rpc == {"reset", "add_keys", "tree_init", "tree_crawl", "tree_sketch_frontier",
        "tree_out_shares", "tree_prune", "final_shares"}

\* MUTANT of Threshold: without the lower bound of one client.
ThresholdUnbounded == (ThresholdNum * NReqs) \div ThresholdDen

Threshold == Max({1, (ThresholdNum * NReqs) \div ThresholdDen})

LastLevel == level = DataLen - 1
BatchSize == IF LastLevel THEN SketchBatchSizeLast ELSE SketchBatchSize

\* One key pair per site, from a random string.
GeneratedKeys == {k \in [Site -> Key] : \A x \in Site : k[x].site = x}

Idle == [s \in Server |-> [phase |-> "collect", level |-> 0]]

Init == /\ server = [s \in Server |-> NewServer]
        /\ session = 1
        /\ keys \in GeneratedKeys
        /\ pc = "reset"
        /\ net = [s \in Server |-> {[op |-> "reset", session |-> 1]}]
        /\ replies = [s \in Server |-> << >>]
        /\ left = NReqs
        /\ level = 0
        /\ start = 0
        /\ vals = [s \in Server |-> << >>]
        /\ lost = {}
        /\ crashes = 0
        /\ sent = << >>
        /\ verified = [i \in 1..NReqs |-> 0]
        /\ tree = Idle

\* What no step of a leader touches.
others == <<server, session, lost, crashes, tree>>

-----------------------------------------------------------------------------
(* The leader.  Call sends a request to both servers.  Over a connection that
   is gone it fails, whether or not the other server gets it; the error is
   unwrapped. *)

\* MUTANT of Call: connects again to a server that has come back.
CallReconnects(req) == /\ pc' = req.op
                       /\ net' = [s \in Server |-> net[s] \cup {req}]
                       /\ replies' = [s \in Server |-> << >>]

Call(req) == /\ pc' = IF lost = {} THEN req.op ELSE "disconnected"
             /\ \E reached \in SUBSET (Server \ lost) :
                   /\ lost = {} => reached = Server
                   /\ net' = [s \in Server |-> IF s \in reached THEN net[s] \cup {req} ELSE net[s]]
             /\ replies' = [s \in Server |-> << >>]

\* MUTANT of Returned: goes on with the first reply (select, not try_join).
ReturnedAny(op) == pc = op /\ \E s \in Server : replies[s] # << >>

Returned(op) == pc = op /\ \A s \in Server : replies[s] # << >>
Reply(s) == replies[s][1]

CallNext(op) == Call([op |-> op, session |-> session])

\* MUTANT of ThisBatch: off by one.
ThisBatchShort == Min({left, AddKeyBatchSize}) - 1

ThisBatch == Min({left, AddKeyBatchSize})

\* main's loop over batches of add_keys.  The futures of up to 1000 batches
\* are built together but awaited one by one, and run only when awaited.
SendKeys == IF left = 0
            THEN CallNext("tree_init") /\ UNCHANGED <<left, sent>>
            ELSE \E b \in [1..ThisBatch -> Range(keys)] :
                    /\ Call([op |-> "add_keys", session |-> session, keys |-> b])
                    /\ left' = left - ThisBatch
                    /\ sent' = sent \o b

KeysStep == /\ Returned("reset") \/ Returned("add_keys")
            /\ SendKeys
            /\ UNCHANGED <<others, keys, level, start, vals, verified>>

\* run_level at level l, or run_level_last.
Crawl(l) == /\ level' = l
            /\ Call([op |-> "tree_crawl", session |-> session, last |-> l = DataLen - 1])

TreeInitReturned == /\ Returned("tree_init")
                    /\ Crawl(0)
                    /\ UNCHANGED <<others, keys, left, start, vals, sent, verified>>

\* MUTANT of MoreBatches: a last, smaller batch is left out.
MoreBatchesWhole(st) == st + BatchSize <= NReqs

MoreBatches(st) == st < NReqs

BatchEnd(st) == Min({NReqs, st + BatchSize})

\* The rest of a level from batch st on: sketches, or the prune after them.
NextBatch(st, v) ==
    /\ start' = st
    /\ IF MoreBatches(st)
       THEN Call([op |-> "tree_sketch_frontier", session |-> session, last |-> LastLevel,
                  level |-> level, start |-> st, end |-> BatchEnd(st)])
       ELSE IF Len(v[0]) # Len(v[1])
       THEN pc' = "panicked" /\ UNCHANGED <<net, replies>>
       ELSE Call([op |-> "tree_prune", session |-> session, last |-> LastLevel,
                  keep |-> KeepValues(Threshold, v[0], v[1])])

CrawlReturned == /\ Returned("tree_crawl")
                 /\ vals' = [s \in Server |-> Reply(s)]
                 /\ verified' = [i \in 1..NReqs |-> 0]
                 /\ NextBatch(0, vals')
                 /\ UNCHANGED <<others, keys, left, level, sent>>

SketchReturned == /\ Returned("tree_sketch_frontier")
                  /\ Call([op |-> "tree_out_shares", session |-> session, last |-> LastLevel,
                           cor |-> Cors(Reply(0), Reply(1))])
                  /\ UNCHANGED <<others, progress, verified>>

\* assert!(v) for every key of the batch.
OutSharesReturned ==
    /\ Returned("tree_out_shares")
    /\ IF /\ Len(Reply(0)) <= Len(Reply(1))
          /\ \A i \in DOMAIN Reply(0) : Verify(Reply(0), Reply(1))[i]
       THEN /\ NextBatch(start + BatchSize, vals)
            /\ verified' = [i \in 1..NReqs |->
                    IF i - start \in DOMAIN Reply(0) THEN verified[i] + 1 ELSE verified[i]]
       ELSE pc' = "panicked" /\ UNCHANGED <<net, replies, start, verified>>
    /\ UNCHANGED <<others, keys, left, level, vals, sent>>

PruneReturned == /\ Returned("tree_prune")
                 /\ IF LastLevel THEN CallNext("final_shares") /\ UNCHANGED level
                            ELSE Crawl(level + 1)
                 /\ UNCHANGED <<others, keys, left, start, vals, sent, verified>>

FinalReturned == /\ Returned("final_shares")
                 /\ pc' = "done"
                 /\ UNCHANGED <<others, progress, net, replies, verified>>

LeaderStep == \/ KeysStep \/ TreeInitReturned \/ CrawlReturned \/ SketchReturned
              \/ OutSharesReturned \/ PruneReturned \/ FinalReturned

-----------------------------------------------------------------------------
(* The servers. *)

TreeAfter(s, req) ==
    CASE req.op \in {"reset", "add_keys"} -> [phase |-> "collect", level |-> 0]
      [] req.op = "tree_init"             -> [phase |-> "pruned", level |-> 0]
      [] req.op = "tree_crawl"            -> [phase |-> "crawled", level |-> tree[s].level + 1]
      [] req.op = "tree_prune"            -> [tree[s] EXCEPT !.phase =
                                                IF req.last THEN "done" ELSE "pruned"]
      [] OTHER                            -> tree[s]

Stale(s) == {r \in net[s] : r.session # session}

\* What older leaders left, that must be gone before a request is served.
Overtaken(s, req) == IF LateDelivery THEN {} ELSE {r \in net[s] : r.session < req.session}

\* One request's task runs.  Only the living leader hears the reply.
Serve(s, req) ==
    LET out == Handle(s, server[s], req)
    IN  /\ Overtaken(s, req) = {}
        /\ server' = [server EXCEPT ![s] = out.srv]
        /\ net' = [net EXCEPT ![s] = @ \ {req}]
        /\ replies' = IF req.session = session THEN [replies EXCEPT ![s] = out.reply]
                                               ELSE replies
        /\ tree' = IF out.reply = << >> THEN tree ELSE [tree EXCEPT ![s] = TreeAfter(s, req)]
        /\ UNCHANGED <<leaderVars, verified, crashes>>

ServeSession(s) == \E req \in net[s] \ Stale(s) : Serve(s, req)
ServeStale(s) == \E req \in Stale(s) : Serve(s, req)

\* The closed connection of a dead leader is noticed; its requests go.
CloseConnection(s) == /\ Stale(s) # {}
                      /\ net' = [net EXCEPT ![s] = @ \ Stale(s)]
                      /\ UNCHANGED <<server, replies, leaderVars, verified, tree, crashes>>

\* The leader is killed, or exits, and the operator runs it again.
NewLeader == /\ session < MaxSessions
             /\ session' = session + 1
             /\ keys' \in GeneratedKeys
             /\ pc' = "reset"
             /\ net' = [s \in Server |-> net[s] \cup {[op |-> "reset", session |-> session + 1]}]
             /\ replies' = [s \in Server |-> << >>]
             /\ left' = NReqs
             /\ level' = 0
             /\ start' = 0
             /\ vals' = [s \in Server |-> << >>]
             /\ lost' = {}
             /\ sent' = << >>
             /\ verified' = [i \in 1..NReqs |-> 0]
             /\ UNCHANGED <<server, tree, crashes>>

\* A server is killed and run again.  Its connections go, with the requests on
\* them; a leader that waits for its reply gets an error instead.
Crash(s) == /\ crashes < MaxCrashes
            /\ crashes' = crashes + 1
            /\ server' = [server EXCEPT ![s] = NewServer]
            /\ net' = [net EXCEPT ![s] = {}]
            /\ lost' = lost \cup {s}
            /\ pc' = IF pc \in Rpc /\ replies[s] = << >> THEN "disconnected" ELSE pc
            /\ tree' = [tree EXCEPT ![s] = [phase |-> "collect", level |-> 0]]
            /\ UNCHANGED <<progress, session, replies, verified>>

\* The leader has exited; the servers wait for the next one.
Finished == pc \in {"done", "disconnected"} /\ UNCHANGED vars

Next == \/ LeaderStep
        \/ \E s \in Server : ServeSession(s) \/ ServeStale(s) \/ CloseConnection(s) \/ Crash(s)
        \/ NewLeader
        \/ Finished

\* A request's task, the leader's task and the end of a connection are all
\* scheduled by the runtimes; nothing makes a leader or server die.
Fairness == /\ WF_vars(LeaderStep)
            /\ \A s \in Server : WF_vars(ServeSession(s)) /\ WF_vars(CloseConnection(s))

Spec == Init /\ [][Next]_vars
FairSpec == Spec /\ Fairness

-----------------------------------------------------------------------------

TypeOK ==
    /\ \A s \in Server :
          /\ \A k \in Range(server[s].coll.keys) : k.alive \in BOOLEAN /\ k.key \in Key
          /\ \A n \in Range(server[s].coll.frontier) \cup Range(server[s].coll.frontierLast) :
                n.path \in Seq(BOOLEAN) /\ n.value \in 0..(Modulus - 1)
          /\ server[s].poisoned \subseteq Lock
          /\ \A r \in net[s] : r.op \in Rpc /\ r.session \in 1..session
          /\ Len(replies[s]) \in {0, 1}
    /\ session \in 1..MaxSessions
    /\ keys \in GeneratedKeys
    /\ pc \in Rpc \cup {"done", "panicked", "disconnected"}
    /\ lost \subseteq Server /\ crashes \in 0..MaxCrashes
    /\ left \in 0..NReqs
    /\ level \in 0..(DataLen - 1)
    /\ start \in Nat
    /\ sent \in Seq(Key)
    /\ verified \in [1..NReqs -> Nat]

StoredKeys(s) == [i \in DOMAIN server[s].coll.keys |-> server[s].coll.keys[i].key]
StoredVotes(s) == [i \in DOMAIN server[s].coll.keys |-> server[s].coll.keys[i].key.bits]
SentVotes == [i \in DOMAIN sent |-> sent[i].bits]

(* Once the keys are in, the i-th key at one server is the other half of the
   i-th key at the other, and both are the i-th client of this session: the
   values of the two trees are added, and the sketches combined, by index
   (leader.rs main's add_keys loop, server.rs add_keys and reset).  A server
   that came back without its keys is none the leader talks to. *)
KeysAligned == pc \notin {"reset", "add_keys", "disconnected"} =>
    /\ Len(sent) = NReqs
    /\ \A s \in Server \ lost : StoredKeys(s) = sent

(* No handler panics, so no lock is poisoned and every request is answered
   (the index and length assertions of collect.rs and mpc.rs). *)
NoPoison == \A s \in Server : server[s].poisoned = {}

(* At every level each client's key has been checked exactly once when the
   tree is pruned, whatever the batch size does or does not divide
   (leader.rs run_level's loop over start and end). *)
EveryKeyChecked == pc = "tree_prune" => \A i \in 1..NReqs : verified[i] = 1

(* Honestly generated keys never fail a check: the leader's asserts hold,
   and both servers answer tree_out_shares from the state whose correction
   shares were combined (server.rs arc_mul). *)
HonestKeysPass == pc # "panicked"

(* debug_assert!(v <= nclients), collect.rs keep_values: the values of a
   node add up to at most the number of clients. *)
SumsBounded == pc = "tree_prune" =>
    \A i \in DOMAIN vals[0] : Reconstruct(vals[0][i], vals[1][i]) <= NReqs

(* Between the crawl and the prune of a level, and again at the end, node i of
   one server's frontier is node i of the other's: values and keep are applied
   by index (collect.rs keep_values and tree_prune). *)
FrontiersAgree ==
    (pc \in {"tree_sketch_frontier", "tree_out_shares", "final_shares", "done"} /\ lost = {}) =>
        Paths(FrontierOf(server[0].coll, LastLevel)) = Paths(FrontierOf(server[1].coll, LastLevel))

Result == FinalValues(Reply(0), Reply(1))

(* What the two servers' final shares add up to is each heavy string once,
   with the number of clients that hold it (collect.rs final_values). *)
ResultExact == pc = "done" =>
    /\ {<<r.path, r.value>> : r \in Range(Result)}
         = {<<b, Count(SentVotes, b)>> : b \in {x \in BitString : Count(SentVotes, x) >= Threshold}}
    /\ IsInjective(Paths(Result))

(* A string no client holds is never published, whatever the threshold
   (the max(1, ..) of leader.rs run_level). *)
NothingInvented == pc = "done" =>
    \A r \in Range(Result) : \E i \in DOMAIN sent : sent[i].bits = r.path

\* Each server's frontier on its own goes through the ideal search.
FrontierPaths(s) == Range(Paths(FrontierOf(server[s].coll, tree[s].level = DataLen)))

Tree0 == INSTANCE PrefixTree WITH
    NClients <- NReqs, votes <- StoredVotes(0), phase <- tree[0].phase,
    level <- tree[0].level, frontier <- FrontierPaths(0)

Tree1 == INSTANCE PrefixTree WITH
    NClients <- NReqs, votes <- StoredVotes(1), phase <- tree[1].phase,
    level <- tree[1].level, frontier <- FrontierPaths(1)

(* The joint search, seen at server 0, implements PrefixTree: exactly the
   nodes that are light in the number of strings are dropped, though neither
   server ever sees a count (collect.rs tree_crawl, keep_values, tree_prune). *)
Server0Searches == Tree0!Spec

(* The same at server 1, which negates its shares and may be a step behind
   or ahead of server 0. *)
Server1Searches == Tree1!Spec

(* The README's words on the threshold: what is output is held by more than
   that fraction of the clients (README.md, "The config file"). *)
MoreThanThreshold == pc = "done" =>
    \A r \in Range(Result) : r.value * ThresholdDen > ThresholdNum * NReqs

(* The last leader that is run gets its answer; or an error that ends it, if a
   server died: it never waits for one that is gone (leader.rs' try_join! and
   unwrap of every call). *)
Concludes == <>[](pc = "done" \/ (pc = "disconnected" /\ lost # {}))
=============================================================================
