-------------------------------- MODULE PrgStream --------------------------------
(***************************************************************************)
(* The generator behind the DPF (src/src/prg.rs).  All expansions of a     *)
(* thread share one FixedKeyPrgStream: set_key moves its counter to the    *)
(* seed, and the bytes of the encrypted counters are handed out from a     *)
(* buffer that is refilled one or eight blocks at a time.  expand_dir      *)
(* skips the child that is not wanted; convert goes on drawing from the    *)
(* same stream until the word's draws are accepted.                        *)
(*                                                                         *)
(* A byte of the stream is the counter it comes from and its offset: AES   *)
(* is taken to tell them apart.  A call is made of requests (fill_bytes),  *)
(* and a request of refills and copies.                                    *)
(***************************************************************************)
EXTENDS Naturals, Sequences

CONSTANTS BLOCK,        \* AES_BLOCK_SIZE, in units of which next_u64 takes half a block
          TwoHi,        \* size of the counter's high lane, the one that is incremented
          Seeds,        \* [lo, hi] lanes of the seeds in use; lo's low two bits are bits 0, 1
          Shapes,       \* [draws, width] of the types that are converted to
          Rejected(_)   \* does from_rng refuse a draw that starts with this byte?

ASSUME BlockAssumption == BLOCK \in Nat \ {0} /\ TwoHi \in Nat \ {0}
ASSUME SeedAssumption == Seeds \subseteq [lo : Nat, hi : 0..(TwoHi - 1)]
ASSUME ShapeAssumption == Shapes \subseteq [draws : Nat \ {0}, width : Nat \ {0}]

Side == {"left", "right"}
NoByte == << >>
NoCall == [op |-> "none"]

VARIABLES ctr,      \* the next counter
          buf,      \* 8 blocks
          have,     \* bytes of buf that are valid
          buf_ptr,  \* bytes of them handed out
          call,     \* the call being made, or the last one
          stage,    \* its request, or "idle"
          want,     \* length of that request, 0 if it is to be skipped
          got,      \* bytes it has
          outs,     \* outputs of the call so far
          drawn     \* history: draws of the call's word, refused ones included

stream == <<ctr, buf, have, buf_ptr>>
vars == <<stream, call, stage, want, got, outs, drawn>>

Byte(c, off) == [lo |-> c.lo, hi |-> c.hi, off |-> off]

\* Adds one to the high lane, without a carry.
inc_be(c) == [c EXCEPT !.hi = (@ + 1) % TwoHi]

\* The i-th counter from c on, and the block it encrypts to.
Ahead(c, i) == [c EXCEPT !.hi = (@ + i) % TwoHi]
BlockOf(c) == [j \in 1..BLOCK |-> Byte(c, j - 1)]

\* key_short[0] &= 0xFC.
Cleared(seed) == [seed EXCEPT !.lo = 4 * (@ \div 4)]

\* The two bits expand_dir outputs, of the key it has cleared.
Bits(key) == <<key.lo % 2 = 0, (key.lo \div 2) % 2 = 0>>

-----------------------------------------------------------------------------
(* The stream. *)

\* MUTANT of set_key: what is left in the buffer stays.
set_keyKeeps(key) == ctr' = key /\ UNCHANGED <<buf, have, buf_ptr>>

set_key(key) == /\ ctr' = key
                /\ buf_ptr' = BLOCK
                /\ have' = BLOCK
                /\ UNCHANGED buf

\* MUTANT of skip_block: nothing is skipped.
skip_blockNot == UNCHANGED stream

skip_block == ctr' = inc_be(ctr) /\ UNCHANGED <<buf, have, buf_ptr>>

\* MUTANT of refill: the new block counts as handed out.
refillSpent == /\ have' = BLOCK
               /\ buf_ptr' = BLOCK
               /\ buf' = [j \in 1..(8 * BLOCK) |-> IF j <= BLOCK THEN BlockOf(ctr)[j] ELSE NoByte]
               /\ ctr' = inc_be(ctr)

\* The rest of the buffer is xored with itself.
refill == /\ have' = BLOCK
          /\ buf_ptr' = 0
          /\ buf' = [j \in 1..(8 * BLOCK) |-> IF j <= BLOCK THEN BlockOf(ctr)[j] ELSE NoByte]
          /\ ctr' = inc_be(ctr)

refill8 == /\ have' = 8 * BLOCK
           /\ buf_ptr' = 0
           /\ buf' = [j \in 1..(8 * BLOCK) |->
                         BlockOf(Ahead(ctr, (j - 1) \div BLOCK))[((j - 1) % BLOCK) + 1]]
           /\ ctr' = Ahead(ctr, 8)

-----------------------------------------------------------------------------

Init == /\ ctr = [lo |-> 0, hi |-> 0]
        /\ buf = [j \in 1..(8 * BLOCK) |-> NoByte]
        /\ have = BLOCK
        /\ buf_ptr = BLOCK
        /\ call = NoCall
        /\ stage = "idle"
        /\ want = 0
        /\ got = << >>
        /\ outs = << >>
        /\ drawn = 0

Request(st, n) == stage' = st /\ want' = n /\ got' = << >>
SideRequest(side, dirs) == Request(side, IF side \in dirs THEN BLOCK ELSE 0)

\* expand_dir, up to its first fill or skip; expand asks for both sides.
ExpandDir(seed, dirs) ==
    /\ stage = "idle"
    /\ set_key(Cleared(seed))
    /\ call' = [op |-> "expand", seed |-> seed, dirs |-> dirs, bits |-> Bits(Cleared(seed))]
    /\ outs' = << >>
    /\ drawn' = 0
    /\ SideRequest("left", dirs)

Convert(seed, shape) ==
    /\ stage = "idle"
    /\ set_key(seed)
    /\ call' = [op |-> "convert", seed |-> seed, shape |-> shape]
    /\ outs' = << >>
    /\ drawn' = 0
    /\ Request("seed", BLOCK)

\* fill_bytes: its loop's refill, and its loop's copy.
Missing == want - Len(got)

Refill == /\ Missing > 0 /\ buf_ptr = have
          /\ IF want > 4 * BLOCK THEN refill8 ELSE refill
          /\ UNCHANGED <<call, stage, want, got, outs, drawn>>

Copy == LET n == IF have - buf_ptr < Missing THEN have - buf_ptr ELSE Missing
        IN  /\ Missing > 0 /\ buf_ptr < have
            /\ got' = got \o SubSeq(buf, buf_ptr + 1, buf_ptr + n)
            /\ buf_ptr' = buf_ptr + n
            /\ UNCHANGED <<ctr, buf, have, call, stage, want, outs, drawn>>

AfterSide == IF stage = "left" THEN SideRequest("right", call.dirs) ELSE Request("idle", 0)

SkipSide == /\ stage \in Side /\ stage \notin call.dirs
            /\ skip_block
            /\ outs' = Append(outs, << >>)
            /\ AfterSide
            /\ UNCHANGED <<call, drawn>>

SideFilled == /\ stage \in Side /\ stage \in call.dirs /\ Missing = 0
              /\ outs' = Append(outs, got)
              /\ AfterSide
              /\ UNCHANGED <<stream, call, drawn>>

\* convert's seed is there; from_rng goes on with the stream.
SeedFilled == /\ stage = "seed" /\ Missing = 0
              /\ outs' = <<got>>
              /\ Request("word", call.shape.width)
              /\ UNCHANGED <<stream, call, drawn>>

\* from_rng's loop: the draw is taken, or made again.
WordDrawn ==
    /\ stage = "word" /\ Missing = 0
    /\ drawn' = drawn + 1
    /\ outs' = IF Rejected(got[1]) THEN outs ELSE Append(outs, got)
    /\ IF Len(outs') = 1 + call.shape.draws THEN Request("idle", 0)
                                            ELSE Request("word", call.shape.width)
    /\ UNCHANGED <<stream, call>>

Step == Refill \/ Copy \/ SkipSide \/ SideFilled \/ SeedFilled \/ WordDrawn

Next == \/ \E seed \in Seeds, dirs \in (SUBSET Side) \ {{}} : ExpandDir(seed, dirs)
        \/ \E seed \in Seeds, shape \in Shapes : Convert(seed, shape)
        \/ Step

Spec == Init /\ [][Next]_vars

\* The thread that made a call runs it.
FairSpec == Spec /\ WF_vars(Step)

-----------------------------------------------------------------------------

Idle == stage = "idle"

\* n bytes of a seed's stream from byte i on, by definition.
Keystream(seed, i, n) ==
    [j \in 1..n |-> Byte(Ahead(seed, (i + j - 1) \div BLOCK), (i + j - 1) % BLOCK)]

(* A child depends on its parent and its side only: not on whether the other
   side was wanted, nor on what earlier calls left in the thread's stream.
   gen expands both sides and eval_bit one (prg.rs expand_dir). *)
ChildrenFixed == Idle /\ call.op = "expand" =>
    \A i \in {1, 2} :
        outs[i] = IF (IF i = 1 THEN "left" ELSE "right") \in call.dirs
                  THEN Keystream(Cleared(call.seed), (i - 1) * BLOCK, BLOCK)
                  ELSE << >>

\* A shape's k-th draw from a seed's stream, and the accepted ones of the first m.
Draw(seed, shape, k) == Keystream(seed, BLOCK + (k - 1) * shape.width, shape.width)

Accepted(seed, shape, m) ==
    LET acc[k \in 0..m] ==
          IF k = 0 THEN << >>
          ELSE IF Rejected(Draw(seed, shape, k)[1]) THEN acc[k - 1]
          ELSE Append(acc[k - 1], Draw(seed, shape, k))
    IN  acc[m]

(* What a seed converts to is fixed: the first block, and then the first draws
   that are accepted, with no byte left out or used twice however the buffer
   was refilled (prg.rs convert, fill_bytes; field.rs from_rng).  Two servers
   that hold equal seeds get equal words, which then cancel. *)
ConversionFixed == Idle /\ call.op = "convert" =>
    /\ outs = <<Keystream(call.seed, 0, BLOCK)>> \o Accepted(call.seed, call.shape, drawn)
    /\ Len(outs) = 1 + call.shape.draws

(* Every call returns: no request waits for bytes for ever, and the draws of a
   word end, unless everything is refused (fill_bytes' and from_rng's loops). *)
CallsReturn == ~Idle ~> Idle
=============================================================================
