# A TLA+ model of the private heavy-hitters system

This directory models, checks and proves properties of the Rust program in
`src/`: an implementation of private heavy hitters with two servers that do not
collude. Clients hold strings of bits. A client splits its string into two keys
of an incremental distributed point function (DPF) and each server gets one.
Together, and without ever seeing a string, the servers search the prefix tree
for the strings that at least a threshold of the clients hold.

All paths below are relative to the repository (`src/src/...` is its `src/`
directory, `src/README.md` its README).

## 1. The system

| component | code | state | operations |
|---|---|---|---|
| leader | `bin/leader.rs` | generated keys, how many clients are left to send, tree level, sketch batch, values of the last crawl | reset, batches of `add_keys`, `tree_init`, per level: crawl, sketch batches, prune; `final_shares` |
| server | `bin/server.rs`, `rpc.rs` | a `KeyCollection` and two `ManyMulState`s, each in a `Mutex` shared by all connections | the eight RPC handlers |
| KeyCollection | `collect.rs` | client keys with a live flag, two frontiers of tree nodes (inner levels, last level) | `add_key`, `tree_init`, `tree_crawl(_last)`, `tree_sketch_frontier(_last)`, `apply_sketch_results`, `tree_prune(_last)`, `keep_values`, `final_shares`, `final_values` |
| DPF | `dpf.rs` | a root seed and bit, one correction word per bit | `gen`, `eval_init`, `eval_bit(_last)`, `eval` |
| sketch | `sketch.rs` | two DPF keys' worth of words, MAC key shares, Beaver triples | `gen`, `eval_*`, `sketch_at(_last)` |
| multiplication | `mpc.rs` | `MulState`, correction shares, output shares | `new`, `cor_share`, `cor`, `out_share`, `verify` and their `Many*` versions |
| local driver | `main.rs` | two collections in one process | the leader's loop without RPCs |
| fields | `fastfield.rs`, `field.rs` | a 64-bit word; a big integer | group and ring operations, conversion from random bytes |
| PRG | `prg.rs` | one AES-based fixed-key stream per thread: a counter and a buffer | `expand`, `expand_dir`, `convert`, `fill_bytes` |
| conversions, configuration | `lib.rs`, `config.rs` | none | bits and strings; JSON and the command line |

**How they interact.** The leader is a client of both servers over tarpc. Every
step of it is one request to both (`try_join!`), and it waits for both replies.
A server runs each request as a task of its own, and all connections share its
three mutexes. The leader adds the servers' values *by index* to decide which
nodes to keep, and combines their sketches *by index* to check each client's
key; nothing but the order of arrival says that index `i` means the same client
or node at both.

**What is hard.** Two servers that drift apart by one request at every step. A
leader killed at any point and run again on servers that kept everything; a
server killed and back with nothing. A panic with a guard alive, which poisons a mutex for ever. State one request
leaves and another one reads (`tree_sketch_frontier`, `tree_out_shares`).
Removal by position at two places. Boundaries: the last, smaller batch; the
threshold itself; the last level, which has types, triples and correction words
of its own. Signs and corrections that cancel only in the sum of two shares.
Numbers that are stored unreduced and must be reduced before they are compared.
A generator shared by all calls of a thread, from which two servers must draw
the same bytes although they ask for different parts of it.

**What makes each component correct.**

- Search: nothing heavy is lost at any level, a pruned frontier is bounded by the
  clients and the threshold, the answer is exactly the set of heavy strings.
- Leader and servers: keys and frontiers stay aligned, no handler panics, every
  key is checked exactly once per level, honest keys pass, the answer is exact
  and is reached.
- DPF: the two words add up to the value on the path and to zero off it.
- Sketch and multiplication: the joint check opens to the check in the clear,
  accepts honest keys, can refuse every malformed one, uses no triple twice.
- Fields: a stored word always stands for the exact element, nothing is cut off,
  and what is compared with the threshold or with zero is canonical.
- PRG: a seed's children and words depend on the seed alone.

`PROJECT.json` lists the hazards at their lines, with the properties that would
catch each one.

## 2. The modules

```
HeavyHitters   the promise: what is published is exactly the heavy strings
   ^ implemented by
PrefixTree     the joint search, secret sharing taken away
   ^ implemented, at each server, by
CollectorSystem = leader + two servers + RPCs + restarts
   CollectorServer   the RPC handlers, mutexes, multiplication states
   KeyCollection     collect.rs on one record
   Votes             bit strings and the ideal count
Dpf            justifies KeyCollection's EvalShare
DpfEval          the same keys walked down in one call
  PrgStream      justifies that Dpf's generator is a function of the seed
SketchCheck    justifies CollectorServer's Accepts
Fields         justifies that Dpf's and SketchCheck's groups are groups,
  FastField      as far as the program can tell; FE, the inner levels' field
LocalDriver    main.rs over KeyCollection and CollectorServer's check
```

### Votes, HeavyHitters, PrefixTree

`Votes` has the clients' strings and `Count(vs, p)`, the number of them that
start with `p`. `HeavyHitters` gathers strings in batches, publishes the set of
those with `Count >= Threshold`, and may start over.

`PrefixTree` has `votes`, `phase`, `level` and `frontier`. `AddKeys` is
`add_keys`; `TreeInit` the root; `Crawl` both children of every node; `Prune`
`keep_values` and `tree_prune`; `Reset` a new collection, at any time. It
implements `HeavyHitters` (`ImplementsHeavyHitters`, with `output <- Published`).

### KeyCollection, CollectorServer, CollectorSystem

`KeyCollection` is one record (`keys`, `frontier`, `frontierLast`) and one
operator per method of `collect.rs`. Each method that can panic (an index, an
`assert!`, an `unwrap`) has a predicate that says when. A tree node keeps its
path, its value, and `width`, the number of key states it was built with: that
is what a later index runs out of. Pruning removes from back to front by
position, as the code does, and is not written as a filter.

A key is its generated pair, `[site, bits]`. What a server computes for it at a
prefix is `EvalShare`: `Mask` at server 0, and the indicator of the prefix minus
`Mask` at server 1, modulo `Modulus`. This is the contract `Dpf` establishes.
`Mask` is a constant operator; the model's results do not depend on which.

`CollectorServer` has one operator per handler, returning the server it leaves
and its reply. A handler holds the collection's lock from its first line to its
last, so it is one step. A panic answers nothing and poisons the locks it holds.
`HandleReset` replaces the collection before it tries the other two locks, and
can panic half way; the order is kept. `tree_out_shares` does not take the
collection's lock and answers from whatever state was stored last. A sketch is
kept as what it is a function of (key, paths of the frontier), so two sketches
agree only if they were computed from the same key and the same frontier.
`Accepts` says when the field check passes.

`CollectorSystem` adds the leader and the network. `pc` is the RPC the leader
waits for, and each of its actions is what follows the replies of that RPC up to
the next one (`KeysStep` after `reset` and `add_keys`, `TreeInitReturned`,
`CrawlReturned`, `SketchReturned`, `OutSharesReturned`, `PruneReturned`,
`FinalReturned`). `ServeSession` runs a request of the living leader at a server,
`ServeStale` one that a dead leader left, `CloseConnection` is the server noticing
that the connection is gone, `NewLeader` is a leader killed (or finished) and run
again with new keys. `Crash` is a server killed and run again: it comes back as
`NewServer`, and its connections go with the requests on them. The leader never
reconnects, so a call that it waits for fails, or else the next one it makes
(`lost`); every error is unwrapped, and the leader exits (`"disconnected"`). Such
a call may still reach the other server. The `add_keys` futures are built up to 1000 at a time but
awaited one after another, and a Rust future does nothing until it is awaited; so
batches are sequential and the number 1000 has no effect.

### Dpf, DpfEval

`gen` one correction word per step (`GenCorWord`), then the servers walk down
any path (`EvalBit`), and may go back to the root (`EvalInit`). Seeds, their
xor, the generator (`ExpandSeed`, `ExpandBit`, `ConvertSeed`, `ConvertWord`) and
the group are constants with the laws the code relies on. Values are one per
prefix of `alpha`, as `gen` gets them. That `expand_dir` (`prg.rs:91-98`) clears
the two bits it is about to read, so that both its bits are always true, is one
value of `ExpandBit`: the results hold for it as for any other.

`DpfEval` adds `eval`, one call for a whole path. Its last bit is evaluated with
the last level's correction word wherever the path ends, so the last word of a
path that stops short means nothing, and the property leaves it out.

### PrgStream

One thread's `FixedKeyPrgStream`: `ctr`, `buf`, `have`, `buf_ptr`, and the call
that uses it as a sequence of requests. `ExpandDir` and `Convert` set the key;
`Refill` and `Copy` are the two halves of the loop in `fill_bytes`, `SkipSide` is
`skip_block`, and `WordDrawn` an iteration of `from_rng`, which may refuse the
draw. A byte is the counter it was encrypted from and its offset in the block:
AES is taken to be injective and is otherwise any function. The counter is the
upper 64-bit lane, incremented without a carry as `_mm_add_epi64` does, and the
two cleared bits are in the lower lane. Calls follow each other on the same
stream in any order. A draw of one unit is `next_u64`, four units a `FieldElm`;
eleven units are more than four blocks, which makes `fill_bytes` use `refill8`.
No type of this program asks for that much; the method is public and modelled.
`drawn` is a history variable, read by `ConversionFixed` and by no action: how
many draws the word has looked at.

### FastField, Fields

`FastField` is `FE`: `Fold` (`bit_reduce_once`), `reduce_by_p`, `value`, the
operations, `recip`'s square-and-multiply with the exponent's bits as the code
spells them out, and `from_u64_unbiased`. Two registers run any sequence of
operations next to ghost elements in exact arithmetic. `Word` wraps as a release
build does. Two bits are left above the field (`N_BITS = 62` of 64), and the
constants satisfy what the comments at the top of the file ask of them
(`WidthAssumption`, `PrimeAssumption`).

`Fields` is the trait `Group` for `FE`, `FieldElm`, `u64` and pairs, and the two
computations whose outcome is compared: a node's count (correction words made by
`gen_cor_word`, evaluated by both servers, added lazily over the clients,
reduced, added across servers, compared with the threshold) and the check of one
key (`MulState`'s three products, their triples and openings, `out_share` in lazy
operations, `verify` against zero). The sketch's `r_x` and `r2_x` and the MAC key
are any shares; the rest, which the code draws, is on a tape. A `FieldElm` is a big integer compared as it is, and not every operation
reduces it: `negate` of zero is the modulus itself and a sum of lazy additions
is as large as it gets. The model keeps these raw values. Its third phase is
`FastField`'s machine.

### SketchCheck

One client's key over an abstract commutative ring, level after level: `Gen`
(MAC key shares, the square that a client may get wrong by `MacErrors`, triples),
`SketchAt`, `MulState`, `CorShare`, `Cor`, `OutShare`, `Verify`. `TreeCrawl`
chooses the vector the key's words add up to on the level's frontier: any
vector, so malformed keys are covered. `rand_stream` is cut into pieces of one sketch's draws each. A server
sketches its keys in parallel, so this key may have another turn at each server
and level (`before`); what it draws is `DrawsAfter` that many others, and
`collect.rs:229`, which clones the stream for each, makes this the first piece. A
client's tape (`Coin`) and the stream range over given sets.

### LocalDriver

`main.rs`: load the keys, then per level crawl, sketch with
`apply_sketch_results`, prune with the values of the crawl.

### Abstractions common to the modules

- *A check that should fail is taken to fail* in `CollectorServer` and
  `LocalDriver`; the code fails all but about one in the field's order.
  `SketchCheck` has the exact arithmetic.
- *Release build.* The repository's README builds with `--release`;
  `debug_assert!`s are not panics of the model but claims to check
  (`SumsBounded`, `TriplesSuffice`).
- *One field.* The inner levels' type and the last level's are one field in
  `KeyCollection` and one group in `Dpf`.
- *Sites.* `sample_string` makes random alphanumeric strings: here any bit
  strings. The Zipf choice of a site is any choice.
- *Restarts.* A handler that has begun runs to its end. With `LateDelivery`
  FALSE, a server serves a new leader only after it noticed that the old
  connection is closed, and so after everything that older leaders left there was
  served or dropped (`Overtaken` guards each request); with TRUE it may be later.
  TCP and tarpc order nothing between connections; FALSE is the usual case of an
  operator who restarts a leader by hand, and the violation under TRUE is a finding.

## 3. What is checked

Each run ends within two minutes, most within half of one. The bounds are those of the `.cfg` files.

| run | instance | shows |
|---|---|---|
| `prefix_tree` | up to 4 strings of 3 bits, threshold 2 | the search is exact and implements the promise, with batches and resets anywhere |
| `system` | 3 clients, 2 sites, 3 bits, `add_keys` and sketch batches of 2 (and 1 at the last level), threshold of all clients, F_5 | every interleaving: alignment, each key checked once, exact result, server 1 implements `PrefixTree`; no deadlock, so no panic |
| `restart` | 2 clients, 2 sites, 2 bits, 2 leaders, a server crash, threshold 1/10, sketch batch larger than the number of clients, F_3 | a leader that dies and a server that dies, at any point: exact result, nothing invented, no poisoned lock, server 0 implements `PrefixTree`, every leader ends |
| `dpf` | 3 bits, 4 seeds, values in Z_3 | shares add up at every prefix, level by level and in one call, for every string, values, root seeds |
| `fields` | `FE` of order 59 in an 8-bit word; `FieldElm` and `u64` modulo 5; 2 clients, 3 tapes for the check | stored words are exact and nothing wraps; draws are unbiased; counts and checks are compared in canonical form |
| `prg_stream` | blocks of 2 units, 3 seeds, 16 counters, 5 shapes of words | children and words depend on the seed alone; every call returns |
| `sketch_check` | 2 inner levels and the last, frontiers of up to 2 nodes, Z_3, 2 tapes, 6 streams, up to one sketch before this key's, right and wrong squares | the check opens to its value in the clear, accepts and refuses what it should |
| `local` | 4 clients, 3 sites, 3 bits | the driver keeps honest keys and is exact at inner levels |
| `late_request` | 1 client, 2 leaders, late delivery | **violated**: `debug_assert!(v <= nclients)` of `collect.rs` |
| `readme_threshold` | 3 clients, threshold 1/2 | **violated**: "more than a threshold" of the README |
| `sketch_doc` | as `sketch_check` | **violated**: the `k^2` of the comment on `SketchOutput` |
| `local_triples` | 2 clients, 3 bits | **violated**: `mpc.rs`'s assertion that triples suffice |

**Why the bounds are enough.** Three bits give a root, an inner level that follows
another and a last level on both sides of every `if`; two bits an inner and a last
level, which have different calls. Three clients in batches of two make the last
batch smaller; sketch batches of one, two and three are below, at and above the
number of clients. With a threshold of all clients and two sites, `system` has
searches that end with nothing (an empty frontier goes through every later call)
and ones that keep a node of two; with a threshold of one, `restart` keeps several
nodes and drops others. Two leaders are enough for what one leaves to the next,
since a reset forgets everything (`NewServer` but for poisoned locks, and
`NoPoison` says that there are none). One crash at any point, before or after a
leader's death, puts an empty server next to a full one in every state of the
other; a second one would find it empty or start over. The modulus is above the
number of clients: at or below it counts wrap and the code counts wrongly too; the
real orders are far above. `SketchCheck`'s Z_3 has an element other than 0 and 1,
the smallest field that tells a square from its root.

In `fields`, 59 = 2^6 - 2^2 - 1 is the smallest instance that meets the assumptions and
has a prime order; the word is enumerated completely, for `new` and for draws.
The theorems of section 4 cover the real width. `FEDraws` are 0, 1 and the largest
element. Modulo 5, two clients and both servers make lazy sums of several moduli.
In `prg_stream`, one seed's counter is two below its wrap-around, two differ in
the cleared bits only, and draws that begin one block in four are refused.
Eleven units cross a refill of eight blocks and leave part of it behind.

`CHECK_DEADLOCK FALSE` appears in `LateRequest.cfg` only, where the leader may
stop in a panic. Everywhere else the end is an explicit self-loop (`Finished`,
`Stopped`) and any other stop is reported. In particular a leader that waits for
a server that panicked is a deadlock. `Dpf`, `PrefixTree` and `PrgStream` never stop.

**Fairness.** `FairSpec` has weak fairness of `LeaderStep`, and per server of
`ServeSession` and `CloseConnection`: tokio polls every task that is ready, the
mutexes are held for one handler at a time, and a closed socket is reported.
There is none for `NewLeader` and `Crash`, since nothing makes a leader or a server
die, nor for `ServeStale`: what a dead leader left may be dropped. Under it the
last leader run ends (`Concludes`): with its answer, or with an error if it lost
a server. No client or server timeout is modelled; the leader's RPC deadline is
1 000 000 seconds (`leader.rs:43`, whose comment says one hour). `PrgStream` has
weak fairness of `Step`: the thread that makes a call runs it. `CallsReturn` also
needs that not every draw of a seed is refused (`MCRejected` refuses some); the
chance that a run of draws is refused falls exponentially, and fairness is not
about chance.

**Findings.** Four, each with its run: a late request breaks the bound on sums
(it needs a task of the dead connection to run after the new leader's reset);
the README's "more than" is "at least", after rounding down; the comment on
`r_kx` has a `k^2` the code does not; the local driver loops one level too far
and cannot end normally. The last two are read together with `mpc.rs` and
`sketch.rs` as they are, and neither touches the leader and server binaries.

**Comments that differ from the code**, noticed on the way and without effect on
any property: `reduce_by_p` takes the order itself to 0, where `fastfield.rs:95`
would leave it (the code is right); `expand_dir` reads its two bits after clearing
them (`prg.rs:95-102`), so they are constant, which `Dpf` allows; `dpf.rs:255`
asserts one bit fewer than `sketch.rs:249`, and a debug build refuses whole strings
in `eval`; `field.rs:17` gives the modulus as 2^255 - 10, where its digits are
2^255 - 19; `fastfield.rs` asks for `OFFSET_BIT != 2`, where its loops need only that
bits 1 and `OFFSET_BIT` differ (`fields` runs with 2).

## 4. What is proved

TLAPS checks the following for every value of the constants that satisfies the
modules' `ASSUME`s.

**PrefixTreeProofs.** `TypeCorrect`, `SearchComplete` (`NoHeavyLost`),
`FrontierStaysSmall` (`FrontierBounded`) and `SearchImplementsPromise`
(`ImplementsHeavyHitters`), for every `DataLen > 0`, `NClients` and `Threshold > 0`. The invariant is
`TypeOK /\ NoHeavyLost /\ NoLightKept`: `NoHeavyLost` speaks of every phase of the
search and not of the published frontier only, which is what makes it inductive;
`NoLightKept`, which a prune establishes by itself, is kept for the bound.
A crawl must know that the parent of a heavy prefix was in the frontier, and that
is `NoHeavyLost` one level up, by `CountMonotone`: whoever holds a prefix holds
its parent, so a heavy child has a heavy parent. `TypeOK` ties the length of the
frontier's prefixes to `level`; it is what makes each child of the new frontier a
prefix of the next length and each such prefix some child (`SplitPath`).
The refinement maps `AddKeys` to
`Gather`, the last `Prune` to `Publish`, `Reset` to `Restart`, and the rest to
stutters; that the published frontier is `HeavyStrings` is `NoHeavyLost`
at the last level, before the prune that takes the light ones off (`AnswerExact`). `FrontierStaysSmall` says that
a pruned frontier times the threshold is at most the number of clients: two
prefixes of one length have no holder in common (`HoldersDisjoint`), each has at
least a threshold of them (`NoLightKept`), and the sets are disjoint parts of the
clients (`OwnersBounded`).

The facts about paths and counts open this module and, since two modules with
variables of their own cannot share them otherwise, `KeyCollectionProofs` as well.

**CollectorSystemProofs.** For any number of clients, bits, batch sizes, leaders
and crashes, any threshold, mask and modulus that the assumptions allow
(`SystemAssumption`, `ModulusAssumption`, `MaskAssumption`: a mask is an
integer), and without late delivery:

| theorem | properties |
|---|---|
| `TypeCorrect` | `TypeOK` |
| `KeysStayAligned` | `KeysAligned` |
| `NothingPanics` | `NoPoison` |
| `LevelsChecked` | `HonestKeysPass`, `EveryKeyChecked`, `SumsBounded` |
| `FrontiersStayTogether` | `FrontiersAgree` |
| `AnswersExactly` | `ResultExact`, `NothingInvented` |
| `SearchIsRefined` | `Server0Searches`, `Server1Searches` |

All follow from one invariant, `IInv` (`Inductive`). None of the properties is
inductive, because each speaks of a moment at which the leader has both replies, and
between two such moments the servers are apart by a request. Stating it for
every combination of handled and unhandled requests would multiply the cases. So
`IInv` speaks of what each server *will have, and will have answered, once it has
handled its request* (`Settled`, `Answer`, `Place`): a server that handles its
request changes none of this, in whatever order the two do so, and only the leader's
steps and deaths are left. It has two parts.

- *One server, whoever's requests it handles* (`ServerInv`). `Shape`: its record is
  what its place in the search asks for (a frontier whose nodes are as wide as there
  are keys, at paths of the right length, no lock poisoned). `Fits`: each request in
  flight can be handled there without a panic and is the search's next step.
  `InOrder`: of what dead leaders left, only the oldest request can be anything but a
  `reset`; without it a dead leader's crawl could meet another's fresh collection.
  This part survives every death, and rules out a panic.
- *The session, while its leader runs* (`SessionInv`, `Waits`). Each server
  has answered or has exactly the leader's current request; once settled, both hold the
  keys sent so far, in order, and stand at the same place with the same distinct
  paths; these miss no heavy prefix, and their values are shares of the counts; the
  batches so far covered each key once. `Waits` is also where a lost server enters.

The refinement uses the first part only: a server's own step is `PrefixTree`'s step,
because what it is asked to prune is right (`Fits`), and a crash or a reset is `Reset`.
It holds at each server on its own, also while the other is elsewhere.

**KeyCollectionProofs** is what the last two rest on: lemmas about `collect.rs`'s
methods, none about states. `CountsOpen`: two servers' values of a node, summed
over the keys and reduced, add up to the count (`SumsOpen`, an induction over the keys, and
`EvalSharesOpen`). `PrunedSelects`: removing positions from back to front leaves the
kept nodes in their order, which is what makes both servers keep the same
(`RemoveAtShifts`, `PruningStep`; the recursion is unfolded from its existence).
`NextFrontierIs`, `ChildPathsAreChildren`: a crawl's frontier is each path's two
children, in that order. `ChildrenOfHeavy`, `HeldOnce`: no heavy prefix is missed, and a
client is counted at one node of a level.

**LocalDriverProofs.** `ClientsStay` (`NobodyDropped`) and `LocalSearchCorrect`
(`LocalSearchExact`), for any number of clients below the field's order, any sites and bits
(`DriverAssumption`). `LocalInv` (`Inductive`): after the load both collections hold
the same keys, alive; both frontiers are at the same distinct paths, which miss no
heavy prefix; and before a prune the values of the *crawl* are shares of the counts.
That last part is why pruning with values older than the sketch's results is right
here: `apply_sketch_results` drops nobody, so they are not stale. With a key dropped
they would be; the leader's program has no such call.

**DpfProofs.** `DpfTypeCorrect`, `DpfCorrect` (`SharesAddUp`), `DpfStates`
(`StatesDiffer`) and `EvalCorrect` (`EvalSharesAddUp`), for every length, any seeds with an involutive xor, any
generator and any abelian group. The invariant has four parts: types; `Made`,
that each correction word so far is what `gen` computes from the states it
kept; `Evaluated`, that on `alpha`'s path the servers' states are the ones `gen`
kept, with different bits, and off it they are equal; and `SharesAddUp`. Why it
is needed: `gen` and the servers are two computations that never meet, and the
states `gen` saw are what connects them. The cases of the step are the path
still on `alpha`, leaving it now (the losing side, where the xor cancels) and
already off it (equal states stay equal and their words cancel). `eval`'s states are
a recursive function of the path; that both servers' are the ones `gen` kept, or equal,
at each of its prefixes is proved from the shortest prefix that would not be so.

**SketchCheckProofs.** `TypeCorrect`, `SharesOpenToCheck` (`OpensToCheck`),
`WellFormedKeysPass` (`WellFormedPasses`), `TriplesUsedOnce` (`TriplesFresh`) and
`MalformedKeysCaught` (`MalformedCaught`), for every commutative ring, number of inner levels, frontier width, set of tapes
and set of streams. The assumptions are the ring's laws (`RingAssumption`) and that tapes and streams yield elements
(`CoinAssumption`, `StreamsAssumption`). The argument: a server's words are shares
of the vector (`WordsOpen`); the sketch is linear, so the two sketches are shares
of the vector's sketch (`DotAdd`, `SketchOpens`), for which both servers must
use the same draws (`DrawsAgree`, whatever their turns); the opened differences and a triple whose `c` is `a*b` turn
shares of `x`, `y`, `z` into shares of `x*y + z` (`Beaver`, `OutOpens`). For
completeness, a sum over a vector with a single one is that node's draw
(`DotUnit`), so the sketch of the values squares to the sketch with the squared
draws, and the MACs scale (`DotScale`).

`MalformedKeysCaught` is soundness, as far as it can be said without probabilities:
each malformed key is refused by some draws. Only this theorem uses `FieldAssumption`, no
divisors of zero and `1 + 1 # 0`: in Z_2 every word is its own square and two ones on
a level go unnoticed. The draws are given case by case (`SomeDrawRefuses`): a wrong
square is shown by its own check; a word that is neither 0 nor 1, or a wrong MAC, by
draws that pick its node; two ones by draws that pick both, since the sum, 2, is not
its own square (`OwnSquare`, `TwoIsOther`).

The invariant `IInv` adds to `TypeOK` that the key's triples open to products
(`TriplesOpen`, from `GenTyped`), that what is stored between two requests is
what the current vector gives (`Sketched`), and that each spent triple is an
inner one below the current level's offset (`SpentSoFar`). Without `Sketched`
an output share could stem from another level's state; without `SpentSoFar` the
freshness of one level says nothing of the next.

The sums run over the frontier, and their properties need induction on its width.
The library's induction theorems take a predicate, which these provers cannot
instantiate; `SetInduction` says the same of a *set* of numbers and follows from
the least number outside it. `SumsExist` shows with it that the recursive function
`DotSums` is one, and every lemma on sums goes through it.

**FieldsProofs.** For `FE`: `RangeKept` (`TypeOK`), `NothingWraps` (`NeverWraps`),
`RingOperationsExact` (`ValueExact`) and `DrawsFair` (`DrawsUnbiased`), for every
width and offset with `4 * 2^(2*OFFSET_BIT) <= 2^N_BITS` (the comment's "less than
N_BITS/2", for an even `N_BITS`; 62 and 30 satisfy it with equality). The
exponentials are outside the provers' arithmetic, so `WidthAssumption` states the few
facts about them that are used, and TLC evaluates it. `TypeOK` is inductive by itself
once one knows what a fold does: it takes any word below `4 * 2^N_BITS` to a stored
value (`FoldOfWord`), a stored value to `N_BITS` bits (`FoldOfStored`), and a product
of two stored values, in two folds, to a word (`ProductBound`, `ProductFits`).
`recip` is a recursive function over the exponent's bits, so its range needs an
induction (`BitInduction`, from the least missing bit). For the values, the invariant
is that a register is congruent to its element modulo the prime: folding takes off
the prime as often as `2^N_BITS` goes into the number (`FoldCong`), each operation
respects congruence, and `value` yields the one representative below the prime
(`ValueIsElement`). `DrawsFair` exhibits the four words an element is drawn for, one
for each value of the two bits above the field that are thrown away. `RingSpec` leaves
out `FEDiv` and `FERem`, which nothing in the protocol calls: that `recip` inverts
is Fermat's little theorem, and is checked by `fields` only. Their range is covered
by `RangeKept` and `NothingWraps`. The latter is what `fastfield.rs`'s `debug_assert`s
on ranges claim; the one of `recip` against zero is not among them.

For the two jobs of `Fields`, with any of the three types: `RawStaysInRange`
(`RawInRange`) and `ComparisonsExact` (`CountCanonical`, `ZeroRecognized`), for any
number of clients, any tapes and any modulus of at least 2. `JobInv` (`JobsStand`) says at each
step of a job which exact element its words stand for (`Stands`): the two servers'
sums, with what the current client still has to add, are congruent to the count so
far, and the two output shares to the sum of the three products (`ProductStands`,
`AnswerStands`). `RawInRange` includes the differences that a check's openings and
triples are made of (`DifferencesStand`). There are three ranges of
words: what an operation that reduces returns (`Canonical`), what may be stored
(`Raw`, with the modulus itself) and what lazy operations return (`Loose`). A
comparison is right because its operand stands for the exact element *and* is
canonical, and the second is what `reduce` before it and `negate` nowhere after
it secure.

**PrgStreamProofs.** `ChildrenAreFixed` (`ChildrenFixed`) and
`ConversionsAreFixed` (`ConversionFixed`), for every size of a block and of the
counter, any seeds and shapes, any draws that are refused, and any calls made before on
the same stream (`BlockAssumption`, `SeedAssumption`, `ShapeAssumption`). Neither is
inductive: both speak of the end of a call, and what the buffer holds in between
is not in them. `IInv` (`Invariance`) says where a request is in its
key's stream: what it has got is the stream from `Start` on (`RequestAt`), the buffer's
unread bytes are the ones that follow, and they end at the block the counter is about to
encrypt (`GivesOn`). A refill is allowed only when nothing is unread, so the new
blocks go on exactly there (`GivesBlock`, and `GivesBlocks` for `refill8`, by
`AheadAhead`); a copy moves the place by what it takes (`GivesRest`,
`KeystreamGoesOn`); skipping a block instead of reading it is right only because a
side begins and ends on a block with nothing unread (`SideAt`, `SideOver`).
`SideAt` also says that a buffer filled by `refill8` never meets a
skip. That the accepted draws of one more draw are the old ones, or those and it
(`AcceptedStep`), goes through the existence of the recursive function, as above.

**Only model-checked.**
- Liveness: `Concludes` and `CallsReturn` rest on fairness.
- What late requests do: the theorems on `CollectorSystem` are under
  `~LateDelivery`, and `late_request` shows what is lost without it.
- The values of `FEDiv` and `FERem`, see above.
- The statements of a comment or a test that the code does not keep
  (`MoreThanThreshold`, `SquareInSketch`, `TriplesSuffice`), which runs refute.

## 5. What is not modelled

- `lib.rs`: the conversions between bits, integers and strings, pure functions of
  one argument with round-trip tests of their own. `string_to_bits` appears as any
  string of bits. Their inverses are used for printing only.
- AES, and `PrgStream` of `prg.rs` (`to_rng`), whose state is the `aes_ctr` crate's.
- `field.rs`: `Dummy`, which nothing uses, and `from_hex`, which parses one constant.
- `config.rs`: pure input; its values are constants, assumed positive
  (`SystemAssumption`).
- Timeouts and message size limits of tarpc.
- A client that lies: the leader and the local driver make all the keys.
  `SketchCheck` has the check that would catch one; that a key dropped by
  `apply_sketch_results` stays dropped is not exercised.
- Privacy: what a server could learn is a statement about distributions.

## 6. Plan

The order puts the system's main behaviour first.

1. Done: `Votes`, `HeavyHitters`, `PrefixTree`; `KeyCollection`, `CollectorServer`,
   `CollectorSystem` with restarts of leaders and servers; `Dpf`, `DpfEval`;
   `PrgStream`; `SketchCheck`; `FastField`, `Fields`; `LocalDriver`; and proofs of
   every safety property that a passing run checks, but for the values of
   `FEDiv` and `FERem`.
2. Next, a client that lies, in `CollectorSystem`: the leader's `assert!` stops the
   collection for everybody, where `apply_sketch_results` would drop one key.
