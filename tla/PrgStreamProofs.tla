---------------------------- MODULE PrgStreamProofs ----------------------------
(***************************************************************************)
(* What a seed expands and converts to depends on the seed alone, for      *)
(* every size of a block and of the counter, any seeds and shapes of       *)
(* words, any draws that are refused, and whatever calls used the thread's *)
(* stream before.                                                          *)
(*                                                                         *)
(* IInv is the inductive invariant.  During a call the buffer's unread     *)
(* bytes are the last ones of the stream before the counter, so that the   *)
(* next byte handed out is the one that follows what the call has got      *)
(* (BufferAt); and what it has got and put out are bytes of the stream at  *)
(* places that only the request decides (Start, Child, Accepted).          *)
(***************************************************************************)
EXTENDS PrgStream, Integers, SequenceTheorems, WellFoundedInduction, TLAPS

-----------------------------------------------------------------------------
(* The invariant. *)

Key == [lo : Nat, hi : 0..(TwoHi - 1)]
AnyByte == [lo : Nat, hi : 0..(TwoHi - 1), off : 0..(BLOCK - 1)]

\* The i-th byte of a key's stream.
StreamByte(key, i) == Byte(Ahead(key, i \div BLOCK), i % BLOCK)

Calls == [op : {"expand"}, seed : Seeds, dirs : SUBSET Side, bits : BOOLEAN \X BOOLEAN]
           \cup [op : {"convert"}, seed : Seeds, shape : Shapes]

\* What the call has set as key.
CallKey == IF call.op = "expand" THEN Cleared(call.seed) ELSE call.seed

\* What the buffer still has to give.
Unread == have - buf_ptr

Buffers == [1..(8 * BLOCK) -> AnyByte \cup {NoByte}]

BufferTyped == /\ buf \in Buffers
               /\ have \in 0..(8 * BLOCK) /\ buf_ptr \in 0..have

\* The next byte handed out is the one at pos: the buffer ends where the
\* counter goes on.
GivesOn(c, bf, p, u, key, pos) ==
    \E b \in Nat : /\ c = Ahead(key, b)
                   /\ pos + u = b * BLOCK
                   /\ \A j \in 1..u : bf[p + j] = StreamByte(key, pos + j - 1)

BufferAt(key, pos) == GivesOn(ctr, buf, buf_ptr, Unread, key, pos)

\* Where in the stream the request's bytes are.
Start == CASE stage = "right" -> BLOCK
           [] stage = "word"  -> BLOCK + drawn * call.shape.width
           [] OTHER           -> 0

RequestAt(n) == got = Keystream(CallKey, Start, n) /\ BufferAt(CallKey, Start + n)

\* A side is asked for as a whole, or not at all.
SideAt(n) == /\ call.op = "expand" /\ have = BLOCK
             /\ want = IF stage \in call.dirs THEN BLOCK ELSE 0
             /\ <<n, Unread>> \in {<<0, 0>>, <<0, want>>, <<want, 0>>}

Child(side) == IF side \in call.dirs
               THEN Keystream(CallKey, IF side = "left" THEN 0 ELSE BLOCK, BLOCK)
               ELSE << >>

Converted == outs = <<Keystream(call.seed, 0, BLOCK)>> \o Accepted(call.seed, call.shape, drawn)

Outputs ==
    /\ stage = "left" => outs = << >>
    /\ stage = "right" => outs = <<Child("left")>>
    /\ stage = "word" => Converted /\ Len(outs) < 1 + call.shape.draws
    /\ Idle /\ call.op = "expand" => outs = <<Child("left"), Child("right")>>
    /\ Idle /\ call.op = "convert" => Converted /\ Len(outs) = 1 + call.shape.draws

IInv ==
    /\ BufferTyped
    /\ stage \in Side \cup {"idle", "seed", "word"}
    /\ want \in Nat /\ drawn \in Nat
    /\ call \in Calls \cup {NoCall}
    /\ IF Idle THEN want = 0 /\ got = << >> ELSE call \in Calls
    /\ stage \in {"seed", "word"} => call.op = "convert"
    /\ stage = "seed" => want = BLOCK /\ drawn = 0
    /\ stage = "word" => want = call.shape.width
    /\ ~Idle => \E n \in 0..want : RequestAt(n) /\ (stage \in Side => SideAt(n))
    /\ Outputs

-----------------------------------------------------------------------------
(* Numbers. *)

(* A set of numbers with 0, and with n + 1 for each n in it, has them all. *)
LEMMA SetInduction ==
    ASSUME NEW S, 0 \in S, \A n \in Nat : n \in S => n + 1 \in S
    PROVE  \A n \in Nat : n \in S
<1> DEFINE T == Nat \ S
<1> SUFFICES ASSUME T # {} PROVE FALSE
  OBVIOUS
<1>1. T \subseteq Nat
  OBVIOUS
<1>2. PICK n \in T : \A m \in T : ~ (<<m, n>> \in OpToRel(<, Nat))
  <2> HIDE DEF T
  <2> QED BY <1>1, NatLessThanWellFounded, WFMin
<1>3. n \in Nat /\ n \notin S /\ n # 0 /\ n - 1 \in Nat /\ n - 1 < n
  OBVIOUS
<1>4. <<n - 1, n>> \in OpToRel(<, Nat)
  BY <1>3 DEF OpToRel
<1>5. n - 1 \in S
  BY <1>2, <1>3, <1>4
<1> QED BY <1>3, <1>5

LEMMA Quotients ==
    ASSUME NEW n \in Nat, 0 < n, NEW v \in Nat
    PROVE  /\ (v % n) \in 0..(n - 1) /\ (v \div n) \in Nat
           /\ v = n * (v \div n) + (v % n)
OBVIOUS

(* There is one way to write a number as a multiple and a rest. *)
LEMMA QuotientUnique ==
    ASSUME NEW n \in Nat, 0 < n, NEW q \in Nat, NEW r \in 0..(n - 1),
           NEW p \in Nat, NEW s \in 0..(n - 1), n * q + r = n * p + s
    PROVE  q = p /\ r = s
<1>1. ASSUME NEW a \in Nat, NEW b \in Nat, NEW x \in 0..(n - 1), NEW y \in 0..(n - 1),
             n * a + x = n * b + y, a < b
      PROVE  FALSE
  <2>1. PICK d \in Nat : b = a + 1 + d
    <3>1. b - (a + 1) \in Nat /\ b = a + 1 + (b - (a + 1))
      BY <1>1
    <3> QED BY <3>1
  <2>2. n * b = n * a + n + n * d /\ n * d \in Nat /\ n * a \in Nat
    BY <2>1
  <2> QED BY <1>1, <2>2
<1>2. ~(q < p) /\ ~(p < q)
  BY <1>1
<1>3. q = p
  BY <1>2
<1>4. n * q \in Nat /\ n * q = n * p
  BY <1>3
<1> QED BY <1>3, <1>4

LEMMA DivMod ==
    ASSUME NEW n \in Nat, 0 < n, NEW q \in Nat, NEW r \in 0..(n - 1),
           NEW v, v = n * q + r
    PROVE  (v \div n) = q /\ (v % n) = r
<1>1. n * q \in Nat
  OBVIOUS
<1>2. v \in Nat
  BY <1>1
<1>3. PICK p, s : p = (v \div n) /\ s = (v % n)
  OBVIOUS
<1>4. p \in Nat /\ s \in 0..(n - 1) /\ v = n * p + s
  BY <1>2, <1>3, Quotients
<1> QED BY <1>3, <1>4, QuotientUnique

(* A rest may be taken before or after an addition. *)
LEMMA RestOfSum ==
    ASSUME NEW n \in Nat, 0 < n, NEW v \in Nat, NEW w \in Nat
    PROVE  (((v % n) + w) % n) = ((v + w) % n)
<1>1. PICK q, r : q = (v \div n) /\ r = (v % n)
  OBVIOUS
<1>2. q \in Nat /\ r \in 0..(n - 1) /\ v = n * q + r
  BY <1>1, Quotients
<1>3. PICK u \in Nat : u = r + w
  BY <1>2
<1>4. PICK p, s : p = (u \div n) /\ s = (u % n)
  OBVIOUS
<1>5. p \in Nat /\ s \in 0..(n - 1) /\ u = n * p + s
  BY <1>4, Quotients
<1>6. v + w = n * q + (n * p + s) /\ n * q \in Nat /\ n * p \in Nat
  BY <1>2, <1>3, <1>5
<1>7. n * (q + p) = n * q + n * p /\ q + p \in Nat
  BY <1>2, <1>5
<1>8. v + w = n * (q + p) + s
  BY <1>5, <1>6, <1>7
<1>9. ((v + w) % n) = s
  <2>1. PICK t \in Nat : t = v + w
    OBVIOUS
  <2>1a. PICK e \in Nat : e = q + p
    BY <1>7
  <2>2. t = n * e + s
    BY <1>8, <2>1, <2>1a
  <2>3. (t % n) = s
    BY <1>5, <2>2, DivMod
  <2> QED BY <2>1, <2>3
<1> QED BY <1>1, <1>3, <1>4, <1>9

-----------------------------------------------------------------------------
(* Counters and bytes. *)

LEMMA Sizes == BLOCK \in Nat /\ 0 < BLOCK /\ TwoHi \in Nat /\ 0 < TwoHi
BY BlockAssumption

LEMMA AheadTyped ==
    ASSUME NEW k \in Key, NEW b \in Nat
    PROVE  Ahead(k, b) \in Key /\ Ahead(k, b) = [lo |-> k.lo, hi |-> ((k.hi + b) % TwoHi)]
<1>1. k = [lo |-> k.lo, hi |-> k.hi] /\ k.lo \in Nat /\ k.hi \in Nat
  BY Sizes DEF Key
<1>2. Ahead(k, b) = [lo |-> k.lo, hi |-> ((k.hi + b) % TwoHi)]
  BY <1>1 DEF Ahead
<1>3. ((k.hi + b) % TwoHi) \in 0..(TwoHi - 1)
  <2>1. PICK v \in Nat : v = k.hi + b
    BY <1>1
  <2>2. (v % TwoHi) \in 0..(TwoHi - 1)
    BY Sizes, Quotients
  <2> QED BY <2>1, <2>2
<1> QED BY <1>1, <1>2, <1>3 DEF Key

LEMMA AheadOfKey ==
    ASSUME NEW k \in Key
    PROVE  Ahead(k, 0) = k
<1>1. k = [lo |-> k.lo, hi |-> k.hi] /\ k.hi \in 0..(TwoHi - 1)
  BY DEF Key
<1>2. ((k.hi + 0) % TwoHi) = k.hi
  <2>1. PICK h \in 0..(TwoHi - 1), z \in Nat : h = k.hi /\ z = 0
    BY <1>1
  <2>2. h = TwoHi * z + h
    BY <2>1, Sizes
  <2>3. (h % TwoHi) = h
    BY <2>2, Sizes, DivMod
  <2>4. k.hi + 0 = h
    BY <2>1
  <2> QED BY <2>1, <2>3, <2>4
<1> QED BY <1>1, <1>2, AheadTyped

(* Counting on by b and by c is counting on by b + c. *)
LEMMA AheadAhead ==
    ASSUME NEW k \in Key, NEW b \in Nat, NEW c \in Nat
    PROVE  Ahead(Ahead(k, b), c) = Ahead(k, b + c)
<1>1. PICK m : m = Ahead(k, b)
  OBVIOUS
<1>2. m \in Key /\ m = [lo |-> k.lo, hi |-> ((k.hi + b) % TwoHi)] /\ k.hi \in Nat
  BY <1>1, AheadTyped, Sizes DEF Key
<1>3. Ahead(m, c) = [lo |-> m.lo, hi |-> ((m.hi + c) % TwoHi)]
  BY <1>2, AheadTyped
<1>4. Ahead(k, b + c) = [lo |-> k.lo, hi |-> ((k.hi + (b + c)) % TwoHi)]
  BY AheadTyped
<1>5. ((m.hi + c) % TwoHi) = ((k.hi + (b + c)) % TwoHi)
  <2>1. PICK v \in Nat : v = k.hi + b
    BY <1>2
  <2>2. m.hi = (v % TwoHi)
    BY <1>2, <2>1
  <2>3. (((v % TwoHi) + c) % TwoHi) = ((v + c) % TwoHi)
    BY Sizes, RestOfSum
  <2>4. v + c = k.hi + (b + c)
    BY <1>2, <2>1
  <2> QED BY <2>2, <2>3, <2>4
<1> QED BY <1>1, <1>2, <1>3, <1>4, <1>5

LEMMA IncIsAhead ==
    ASSUME NEW k \in Key, NEW b \in Nat
    PROVE  inc_be(Ahead(k, b)) = Ahead(k, b + 1)
<1>1. inc_be(Ahead(k, b)) = Ahead(Ahead(k, b), 1)
  BY DEF inc_be, Ahead
<1> QED BY <1>1, AheadAhead

(* Byte r of block b. *)
LEMMA ByteOfBlock ==
    ASSUME NEW k, NEW b \in Nat, NEW r \in 0..(BLOCK - 1), NEW i, i = b * BLOCK + r
    PROVE  StreamByte(k, i) = Byte(Ahead(k, b), r)
<1>1. i = BLOCK * b + r
  BY Sizes
<1>2. (i \div BLOCK) = b /\ (i % BLOCK) = r
  BY <1>1, Sizes, DivMod
<1> QED BY <1>2 DEF StreamByte

LEMMA StreamByteTyped ==
    ASSUME NEW k \in Key, NEW i \in Nat
    PROVE  StreamByte(k, i) \in AnyByte
<1>1. (i \div BLOCK) \in Nat /\ (i % BLOCK) \in 0..(BLOCK - 1)
  BY Sizes, Quotients
<1>2. PICK b \in Nat, r \in 0..(BLOCK - 1) : b = (i \div BLOCK) /\ r = (i % BLOCK)
  BY <1>1
<1>3. PICK c \in Key : c = Ahead(k, b)
  BY AheadTyped
<1>4. StreamByte(k, i) = [lo |-> c.lo, hi |-> c.hi, off |-> r]
  BY <1>2, <1>3 DEF StreamByte, Byte
<1> QED BY <1>4 DEF AnyByte, Key

LEMMA KeystreamBytes ==
    ASSUME NEW k \in Key, NEW i \in Nat, NEW n \in Nat
    PROVE  /\ Keystream(k, i, n) = [j \in 1..n |-> StreamByte(k, i + j - 1)]
           /\ Keystream(k, i, n) \in Seq(AnyByte)
           /\ Len(Keystream(k, i, n)) = n
           /\ \A j \in 1..n : Keystream(k, i, n)[j] = StreamByte(k, i + j - 1)
<1>1. Keystream(k, i, n) = [j \in 1..n |-> StreamByte(k, i + j - 1)]
  BY DEF Keystream, StreamByte
<1>2. \A j \in 1..n : StreamByte(k, i + j - 1) \in AnyByte
  <2> SUFFICES ASSUME NEW j \in 1..n PROVE StreamByte(k, i + j - 1) \in AnyByte
    OBVIOUS
  <2>1. PICK m \in Nat : m = i + j - 1
    OBVIOUS
  <2> QED BY <2>1, StreamByteTyped
<1>3. PICK f : f = [j \in 1..n |-> StreamByte(k, i + j - 1)]
  OBVIOUS
<1>4. f \in [1..n -> AnyByte]
  BY <1>2, <1>3
<1>5. f \in Seq(AnyByte) /\ Len(f) = n
  BY <1>4
<1>6. \A j \in 1..n : f[j] = StreamByte(k, i + j - 1)
  BY <1>3
<1> QED BY <1>1, <1>3, <1>5, <1>6

\* The provers cite a fact about an operator of ours, not of one on sequences.
Joined(s, t) == s \o t
Cut(s, p, q) == SubSeq(s, p + 1, q)

(* Bytes are read on where they were left. *)
LEMMA KeystreamGoesOn ==
    ASSUME NEW k \in Key, NEW i \in Nat, NEW n \in Nat, NEW m \in Nat,
           NEW i2 \in Nat, i2 = i + n, NEW l \in Nat, l = n + m
    PROVE  Joined(Keystream(k, i, n), Keystream(k, i2, m)) = Keystream(k, i, l)
<1>3. PICK s : s = Keystream(k, i2, m)
  OBVIOUS
<1>4. PICK a : a = Keystream(k, i, n)
  OBVIOUS
<1>5. PICK c : c = Keystream(k, i, l)
  OBVIOUS
<1>6. /\ a \in Seq(AnyByte) /\ Len(a) = n /\ \A j \in 1..n : a[j] = StreamByte(k, i + j - 1)
      /\ s \in Seq(AnyByte) /\ Len(s) = m /\ \A j \in 1..m : s[j] = StreamByte(k, i2 + j - 1)
      /\ c \in Seq(AnyByte) /\ Len(c) = n + m /\ \A j \in 1..(n + m) : c[j] = StreamByte(k, i + j - 1)
  <2>1. a \in Seq(AnyByte) /\ Len(a) = n /\ \A j \in 1..n : a[j] = StreamByte(k, i + j - 1)
    BY <1>4, KeystreamBytes
  <2>2. s \in Seq(AnyByte) /\ Len(s) = m /\ \A j \in 1..m : s[j] = StreamByte(k, i2 + j - 1)
    BY <1>3, KeystreamBytes
  <2>4. c \in Seq(AnyByte) /\ Len(c) = l /\ \A j \in 1..l : c[j] = StreamByte(k, i + j - 1)
    BY <1>5, KeystreamBytes
  <2> QED BY <2>1, <2>2, <2>4
<1>7. a \o s \in Seq(AnyByte) /\ Len(a \o s) = n + m
      /\ \A j \in 1..(n + m) : (a \o s)[j] = IF j <= n THEN a[j] ELSE s[j - n]
  <2>1. a \in Seq(AnyByte) /\ s \in Seq(AnyByte) /\ Len(a) = n /\ Len(s) = m
    BY <1>6
  <2>2. a \o s \in Seq(AnyByte)
    BY <2>1, ConcatProperties
  <2>3. Len(a \o s) = n + m
    BY <2>1, ConcatProperties
  <2>4. \A j \in 1..(Len(a) + Len(s)) : (a \o s)[j] = IF j <= Len(a) THEN a[j] ELSE s[j - Len(a)]
    BY <2>1, ConcatProperties
  <2>5. \A j \in 1..(n + m) : (a \o s)[j] = IF j <= n THEN a[j] ELSE s[j - n]
    BY <2>1, <2>4
  <2> QED BY <2>2, <2>3, <2>5
<1>8. \A j \in 1..(n + m) : (a \o s)[j] = c[j]
  <2> SUFFICES ASSUME NEW j \in 1..(n + m) PROVE (a \o s)[j] = c[j]
    OBVIOUS
  <2>1. CASE j <= n
    BY <1>6, <1>7, <2>1
  <2>2. CASE ~(j <= n)
    <3>1. j - n \in 1..m /\ i2 + (j - n) - 1 = i + j - 1
      BY <2>2
    <3> QED BY <1>6, <1>7, <2>2, <3>1
  <2> QED BY <2>1, <2>2
<1>9. a \o s = c
  <2>1. PICK e : e = a \o s
    OBVIOUS
  <2>2. e \in Seq(AnyByte) /\ c \in Seq(AnyByte) /\ Len(e) = Len(c) /\ \A j \in 1..Len(e) : e[j] = c[j]
    BY <1>6, <1>7, <1>8, <2>1
  <2> QED BY <2>1, <2>2, SeqEqual
<1>10. Joined(a, s) = c
  BY <1>9 DEF Joined
<1> QED BY <1>3, <1>4, <1>5, <1>10

-----------------------------------------------------------------------------
(* What the buffer holds. *)

(* After a refill of one block. *)
LEMMA GivesBlock ==
    ASSUME NEW k \in Key, NEW b \in Nat, NEW bf,
           bf = [j \in 1..(8 * BLOCK) |-> IF j <= BLOCK THEN BlockOf(Ahead(k, b))[j] ELSE NoByte]
    PROVE  bf \in Buffers /\ GivesOn(inc_be(Ahead(k, b)), bf, 0, BLOCK, k, b * BLOCK)
<1>1. ASSUME NEW j \in 1..BLOCK
      PROVE  bf[j] = StreamByte(k, b * BLOCK + j - 1) /\ bf[j] \in AnyByte
  <2>1. j \in 1..(8 * BLOCK) /\ bf[j] = Byte(Ahead(k, b), j - 1)
    BY Sizes DEF BlockOf
  <2>2. PICK r \in 0..(BLOCK - 1) : r = j - 1
    BY Sizes
  <2>3. PICK i \in Nat : i = b * BLOCK + r
    BY Sizes
  <2>4. StreamByte(k, i) = Byte(Ahead(k, b), r)
    BY <2>3, ByteOfBlock
  <2>5. i = b * BLOCK + j - 1
    BY <2>2, <2>3, Sizes
  <2> QED BY <2>1, <2>2, <2>4, <2>5, StreamByteTyped
<1>2. bf \in Buffers
  <2>1. \A j \in 1..(8 * BLOCK) : bf[j] \in AnyByte \cup {NoByte}
    <3> SUFFICES ASSUME NEW j \in 1..(8 * BLOCK) PROVE bf[j] \in AnyByte \cup {NoByte}
      OBVIOUS
    <3>1. CASE j <= BLOCK
      <4>1. j \in 1..BLOCK
        BY <3>1
      <4> QED BY <1>1, <4>1
    <3>2. CASE ~(j <= BLOCK)
      BY <3>2
    <3> QED BY <3>1, <3>2
  <2> QED BY <2>1 DEF Buffers
<1>3. inc_be(Ahead(k, b)) = Ahead(k, b + 1) /\ b + 1 \in Nat
  BY IncIsAhead
<1>4. b * BLOCK + BLOCK = (b + 1) * BLOCK
  BY Sizes
<1>5. \A j \in 1..BLOCK : bf[0 + j] = StreamByte(k, b * BLOCK + j - 1)
  <2>1. \A j \in 1..BLOCK : 0 + j = j
    BY Sizes
  <2> QED BY <1>1, <2>1
<1> QED BY <1>2, <1>3, <1>4, <1>5 DEF GivesOn

(* After a refill of eight. *)
LEMMA GivesBlocks ==
    ASSUME NEW k \in Key, NEW b \in Nat, NEW bf,
           bf = [j \in 1..(8 * BLOCK) |->
                    BlockOf(Ahead(Ahead(k, b), (j - 1) \div BLOCK))[((j - 1) % BLOCK) + 1]]
    PROVE  bf \in Buffers /\ GivesOn(Ahead(Ahead(k, b), 8), bf, 0, 8 * BLOCK, k, b * BLOCK)
<1>1. ASSUME NEW j \in 1..(8 * BLOCK)
      PROVE  bf[j] = StreamByte(k, b * BLOCK + j - 1) /\ bf[j] \in AnyByte
  <2>1. PICK v \in Nat : v = j - 1
    BY Sizes
  <2>2. PICK q, r : q = (v \div BLOCK) /\ r = (v % BLOCK)
    OBVIOUS
  <2>3. q \in Nat /\ r \in 0..(BLOCK - 1) /\ v = BLOCK * q + r
    BY <2>2, Sizes, Quotients
  <2>4. bf[j] = BlockOf(Ahead(Ahead(k, b), q))[r + 1]
    BY <2>1, <2>2
  <2>5. r + 1 \in 1..BLOCK /\ (r + 1) - 1 = r
    BY <2>3, Sizes
  <2>6. bf[j] = Byte(Ahead(Ahead(k, b), q), r)
    BY <2>4, <2>5 DEF BlockOf
  <2>7. PICK a \in Nat : a = b + q
    BY <2>3
  <2>8. bf[j] = Byte(Ahead(k, a), r)
    BY <2>3, <2>6, <2>7, AheadAhead
  <2>9. PICK i \in Nat : i = a * BLOCK + r
    <3>1. a * BLOCK \in Nat
      BY Sizes
    <3> QED BY <2>3, <3>1
  <2>10. StreamByte(k, i) = Byte(Ahead(k, a), r)
    BY <2>3, <2>9, ByteOfBlock
  <2>11. i = b * BLOCK + j - 1
    <3>1. a * BLOCK = b * BLOCK + BLOCK * q /\ b * BLOCK \in Nat /\ BLOCK * q \in Nat
      BY <2>3, <2>7, Sizes
    <3> QED BY <2>1, <2>3, <2>9, <3>1
  <2> QED BY <2>8, <2>10, <2>11, StreamByteTyped
<1>2. bf \in Buffers
  BY <1>1 DEF Buffers
<1>3. Ahead(Ahead(k, b), 8) = Ahead(k, b + 8) /\ b + 8 \in Nat
  <2>1. PICK e \in Nat : e = 8
    OBVIOUS
  <2> QED BY <2>1, AheadAhead
<1>4. b * BLOCK + 8 * BLOCK = (b + 8) * BLOCK
  BY Sizes
<1>5. \A j \in 1..(8 * BLOCK) : bf[0 + j] = StreamByte(k, b * BLOCK + j - 1)
  <2>1. \A j \in 1..(8 * BLOCK) : 0 + j = j
    BY Sizes
  <2> QED BY <1>1, <2>1
<1> QED BY <1>2, <1>3, <1>4, <1>5 DEF GivesOn

(* After bytes are handed out, and which ones these are. *)
LEMMA GivesRest ==
    ASSUME NEW k \in Key, NEW c, NEW bf \in Buffers, NEW p \in Nat, NEW u \in Nat,
           p + u <= 8 * BLOCK, NEW pos \in Nat, GivesOn(c, bf, p, u, k, pos),
           NEW n \in 0..u, NEW p2, p2 = p + n, NEW u2, u2 = u - n, NEW pos2, pos2 = pos + n
    PROVE  /\ GivesOn(c, bf, p2, u2, k, pos2)
           /\ Cut(bf, p, p2) = Keystream(k, pos, n)
<1>1. PICK b \in Nat : /\ c = Ahead(k, b)
                       /\ pos + u = b * BLOCK
                       /\ \A j \in 1..u : bf[p + j] = StreamByte(k, pos + j - 1)
  BY DEF GivesOn
<1>2. GivesOn(c, bf, p + n, u - n, k, pos + n)
  <2>1. (pos + n) + (u - n) = b * BLOCK
    BY <1>1, Sizes
  <2>2. ASSUME NEW j \in 1..(u - n)
        PROVE  bf[(p + n) + j] = StreamByte(k, (pos + n) + j - 1)
    <3>1. n + j \in 1..u /\ p + (n + j) = (p + n) + j /\ pos + (n + j) - 1 = (pos + n) + j - 1
      OBVIOUS
    <3>2. PICK i \in 1..u : i = n + j
      BY <3>1
    <3> QED BY <1>1, <3>1, <3>2
  <2> QED BY <1>1, <2>1, <2>2 DEF GivesOn
<1>3. SubSeq(bf, p + 1, p + n) = [j \in 1..n |-> StreamByte(k, pos + j - 1)]
  <2>1. SubSeq(bf, p + 1, p + n) = [j \in 1..((p + n) - (p + 1) + 1) |-> bf[(p + 1) + j - 1]]
    BY SMT
  <2>2. (p + n) - (p + 1) + 1 = n
    OBVIOUS
  <2>3. \A j \in 1..n : bf[(p + 1) + j - 1] = StreamByte(k, pos + j - 1)
    <3> SUFFICES ASSUME NEW j \in 1..n PROVE bf[(p + 1) + j - 1] = StreamByte(k, pos + j - 1)
      OBVIOUS
    <3>1. j \in 1..u /\ (p + 1) + j - 1 = p + j
      OBVIOUS
    <3> QED BY <1>1, <3>1
  <2> QED BY <2>1, <2>2, <2>3
<1>4. Keystream(k, pos, n) = [j \in 1..n |-> StreamByte(k, pos + j - 1)]
  <2>1. PICK l \in Nat : l = n
    OBVIOUS
  <2> QED BY <2>1, KeystreamBytes
<1> QED BY <1>2, <1>3, <1>4 DEF Cut

-----------------------------------------------------------------------------
(* The draws of a word. *)

Words == Seq(Seq(AnyByte))

\* The word after its k-th draw, x being what it was.
Redrawn(x, seed, shape, k) == IF Rejected(Draw(seed, shape, k)[1]) THEN x
                              ELSE Append(x, Draw(seed, shape, k))

AreAccepted(f, seed, shape, m) ==
    f = [k \in 0..m |-> IF k = 0 THEN << >>
                        ELSE IF Rejected(Draw(seed, shape, k)[1]) THEN f[k - 1]
                        ELSE Append(f[k - 1], Draw(seed, shape, k))]

LEMMA DrawTyped ==
    ASSUME NEW seed \in Key, NEW shape \in Shapes, NEW k \in Nat, 0 < k
    PROVE  Draw(seed, shape, k) \in Seq(AnyByte)
<1>1. shape.width \in Nat
  BY ShapeAssumption
<1>2. (k - 1) * shape.width \in Nat
  <2>1. k - 1 \in Nat
    OBVIOUS
  <2> QED BY <1>1, <2>1
<1>3. PICK i \in Nat, w \in Nat : i = BLOCK + (k - 1) * shape.width /\ w = shape.width
  BY <1>1, <1>2, Sizes
<1>4. Keystream(seed, i, w) \in Seq(AnyByte)
  BY KeystreamBytes
<1> QED BY <1>3, <1>4 DEF Draw

LEMMA RedrawnTyped ==
    ASSUME NEW seed \in Key, NEW shape \in Shapes, NEW k \in Nat, 0 < k, NEW x \in Words
    PROVE  Redrawn(x, seed, shape, k) \in Words
<1>1. PICK d \in Seq(AnyByte) : d = Draw(seed, shape, k)
  BY DrawTyped
<1>2. Append(x, d) \in Words
  BY DEF Words
<1> QED BY <1>1, <1>2 DEF Redrawn

(* There is a function as Accepted is defined by, of any length. *)
LEMMA AcceptedExist ==
    ASSUME NEW seed \in Key, NEW shape \in Shapes
    PROVE  \A m \in Nat : \E f \in [0..m -> Words] : AreAccepted(f, seed, shape, m)
<1> DEFINE S == {m \in Nat : \E f \in [0..m -> Words] : AreAccepted(f, seed, shape, m)}
<1>1. 0 \in S
  <2>1. PICK f : f = [k \in 0..0 |-> << >>]
    OBVIOUS
  <2>2. f \in [0..0 -> Words]
    BY <2>1 DEF Words
  <2>3. AreAccepted(f, seed, shape, 0)
    BY <2>1 DEF AreAccepted
  <2> QED BY <2>2, <2>3
<1>2. ASSUME NEW m \in Nat, m \in S PROVE m + 1 \in S
  <2>1. PICK f \in [0..m -> Words] : AreAccepted(f, seed, shape, m)
    BY <1>2
  <2>2. PICK x : x = Redrawn(f[m], seed, shape, m + 1)
    OBVIOUS
  <2>3. x \in Words
    <3>1. f[m] \in Words
      BY <2>1
    <3>2. PICK k \in Nat : k = m + 1 /\ 0 < k
      OBVIOUS
    <3> QED BY <2>2, <3>1, <3>2, RedrawnTyped
  <2>4. PICK g : g = [k \in 0..(m + 1) |-> IF k = m + 1 THEN x ELSE f[k]]
    OBVIOUS
  <2>5. g \in [0..(m + 1) -> Words]
    BY <2>1, <2>3, <2>4
  <2>6. ASSUME NEW k \in 0..(m + 1)
        PROVE  g[k] = IF k = 0 THEN << >>
                      ELSE IF Rejected(Draw(seed, shape, k)[1]) THEN g[k - 1]
                      ELSE Append(g[k - 1], Draw(seed, shape, k))
    <3>1. CASE k = m + 1
      <4>1. g[k] = x /\ k # 0 /\ g[k - 1] = f[m]
        BY <2>4, <3>1
      <4> QED BY <2>2, <3>1, <4>1, Zenon DEF Redrawn
    <3>2. CASE k # m + 1
      <4>1. k \in 0..m /\ g[k] = f[k] /\ (k # 0 => g[k - 1] = f[k - 1])
        BY <2>4, <3>2
      <4>2. f[k] = IF k = 0 THEN << >>
                   ELSE IF Rejected(Draw(seed, shape, k)[1]) THEN f[k - 1]
                   ELSE Append(f[k - 1], Draw(seed, shape, k))
        BY <2>1, <4>1 DEF AreAccepted
      <4> QED BY <4>1, <4>2, Zenon
    <3> QED BY <3>1, <3>2
  <2>7. AreAccepted(g, seed, shape, m + 1)
    BY <2>5, <2>6 DEF AreAccepted
  <2> QED BY <2>5, <2>7
<1>3. \A m \in Nat : m \in S
  <2> HIDE DEF S
  <2> QED BY <1>1, <1>2, SetInduction
<1> QED BY <1>3

(* They agree where both have a value. *)
LEMMA AcceptedAgree ==
    ASSUME NEW seed, NEW shape, NEW m \in Nat, NEW f, NEW g,
           AreAccepted(f, seed, shape, m), AreAccepted(g, seed, shape, m + 1)
    PROVE  f[m] = g[m]
<1> DEFINE S == {k \in Nat : k <= m => f[k] = g[k]}
<1>1. 0 \in S
  <2>1. f[0] = << >> /\ g[0] = << >>
    BY DEF AreAccepted
  <2> QED BY <2>1
<1>2. ASSUME NEW k \in Nat, k \in S PROVE k + 1 \in S
  <2> SUFFICES ASSUME k + 1 <= m PROVE f[k + 1] = g[k + 1]
    OBVIOUS
  <2>1. f[k] = g[k]
    BY <1>2
  <2>2. PICK l \in 1..m : l = k + 1 /\ l - 1 = k /\ l # 0 /\ l \in 0..m /\ l \in 0..(m + 1)
    OBVIOUS
  <2>3. f[l] = IF Rejected(Draw(seed, shape, l)[1]) THEN f[l - 1]
               ELSE Append(f[l - 1], Draw(seed, shape, l))
    BY <2>2, Zenon DEF AreAccepted
  <2>4. g[l] = IF Rejected(Draw(seed, shape, l)[1]) THEN g[l - 1]
               ELSE Append(g[l - 1], Draw(seed, shape, l))
    BY <2>2, Zenon DEF AreAccepted
  <2> QED BY <2>1, <2>2, <2>3, <2>4, Zenon
<1>3. m \in S
  <2> HIDE DEF S
  <2> QED BY <1>1, <1>2, SetInduction
<1> QED BY <1>3

LEMMA AcceptedFact ==
    ASSUME NEW seed \in Key, NEW shape \in Shapes, NEW m \in Nat
    PROVE  \E f \in [0..m -> Words] : /\ AreAccepted(f, seed, shape, m)
                                      /\ Accepted(seed, shape, m) = f[m]
<1>1. PICK h : h = CHOOSE f : AreAccepted(f, seed, shape, m)
  OBVIOUS
<1>2. AreAccepted(h, seed, shape, m)
  BY <1>1, AcceptedExist
<1>3. Accepted(seed, shape, m) = h[m]
  BY <1>1, Zenon DEF Accepted, AreAccepted
<1>4. h \in [0..m -> Words]
  <2> DEFINE S == {k \in Nat : k <= m => h[k] \in Words}
  <2>1. 0 \in S
    <3>1. h[0] = << >>
      BY <1>2 DEF AreAccepted
    <3>2. << >> \in Words
      BY DEF Words
    <3>3. h[0] \in Words
      BY <3>1, <3>2
    <3> QED BY <3>3
  <2>2. ASSUME NEW k \in Nat, k \in S PROVE k + 1 \in S
    <3> SUFFICES ASSUME k + 1 <= m PROVE h[k + 1] \in Words
      OBVIOUS
    <3>1. PICK l \in 1..m : l = k + 1 /\ l - 1 = k /\ l # 0 /\ l \in 0..m /\ l \in Nat /\ 0 < l
      OBVIOUS
    <3>2. h[l] = Redrawn(h[l - 1], seed, shape, l)
      BY <1>2, <3>1, Zenon DEF AreAccepted, Redrawn
    <3>3. h[l - 1] \in Words
      BY <2>2, <3>1
    <3> QED BY <3>1, <3>2, <3>3, RedrawnTyped
  <2>3. \A k \in Nat : k \in S
    <3> HIDE DEF S
    <3> QED BY <2>1, <2>2, SetInduction
  <2>4. \A k \in 0..m : h[k] \in Words
    BY <2>3
  <2>5. h = [k \in 0..m |-> h[k]]
    BY <1>2 DEF AreAccepted
  <2> QED BY <2>4, <2>5
<1> QED BY <1>2, <1>3, <1>4

(* One more draw. *)
LEMMA AcceptedStep ==
    ASSUME NEW seed \in Key, NEW shape \in Shapes, NEW m \in Nat
    PROVE  /\ Accepted(seed, shape, 0) = << >>
           /\ Accepted(seed, shape, m) \in Words
           /\ Accepted(seed, shape, m + 1) = Redrawn(Accepted(seed, shape, m), seed, shape, m + 1)
<1>1. Accepted(seed, shape, 0) = << >>
  <2>1. PICK z \in Nat : z = 0
    OBVIOUS
  <2>2. PICK f : AreAccepted(f, seed, shape, z) /\ Accepted(seed, shape, z) = f[z]
    BY AcceptedFact
  <2>3. f[z] = << >>
    BY <2>1, <2>2 DEF AreAccepted
  <2> QED BY <2>1, <2>2, <2>3
<1>2. PICK f \in [0..m -> Words] : AreAccepted(f, seed, shape, m) /\ Accepted(seed, shape, m) = f[m]
  BY AcceptedFact
<1>3. PICK l \in Nat : l = m + 1 /\ l - 1 = m /\ l # 0 /\ l \in 0..l
  OBVIOUS
<1>4. PICK g \in [0..l -> Words] : AreAccepted(g, seed, shape, l) /\ Accepted(seed, shape, l) = g[l]
  BY AcceptedFact
<1>5. g[m] = f[m]
  BY <1>2, <1>3, <1>4, AcceptedAgree
<1>6. g[l] = Redrawn(g[l - 1], seed, shape, l)
  BY <1>3, <1>4, Zenon DEF AreAccepted, Redrawn
<1>7. f[m] \in Words
  BY <1>2
<1> QED BY <1>1, <1>2, <1>3, <1>4, <1>5, <1>6, <1>7

-----------------------------------------------------------------------------
(* Every action preserves the invariant. *)

LEMMA KeyTyped ==
    ASSUME NEW seed \in Seeds
    PROVE  seed \in Key /\ Cleared(seed) \in Key
<1>1. seed \in Key
  BY SeedAssumption DEF Key
<1>2. 4 * (seed.lo \div 4) \in Nat
  <2>1. PICK l \in Nat, f \in Nat : l = seed.lo /\ f = 4
    BY <1>1 DEF Key
  <2>2. (l \div f) \in Nat
    BY <2>1, Quotients
  <2> QED BY <2>1, <2>2
<1>3. Cleared(seed) = [lo |-> 4 * (seed.lo \div 4), hi |-> seed.hi]
  BY <1>1 DEF Cleared, Key
<1> QED BY <1>1, <1>2, <1>3 DEF Key

LEMMA CallTyped ==
    ASSUME call \in Calls
    PROVE  /\ CallKey \in Key
           /\ call.op = "convert" => /\ call.seed \in Key /\ CallKey = call.seed
                                     /\ call.shape \in Shapes
                                     /\ call.shape.width \in Nat \ {0}
                                     /\ call.shape.draws \in Nat \ {0}
           /\ call.op = "expand" => /\ CallKey = Cleared(call.seed)
                                    /\ call.dirs \subseteq Side
<1>1. CASE call \in [op : {"expand"}, seed : Seeds, dirs : SUBSET Side, bits : BOOLEAN \X BOOLEAN]
  <2>1. call.op = "expand" /\ call.seed \in Seeds /\ call.dirs \subseteq Side
    BY <1>1
  <2> QED BY <2>1, KeyTyped DEF CallKey
<1>2. CASE call \in [op : {"convert"}, seed : Seeds, shape : Shapes]
  <2>1. call.op = "convert" /\ call.seed \in Seeds /\ call.shape \in Shapes
    BY <1>2
  <2> QED BY <2>1, KeyTyped, ShapeAssumption DEF CallKey
<1> QED BY <1>1, <1>2 DEF Calls

(* Where a request is, with names for its parts. *)
LEMMA Underway ==
    ASSUME IInv, ~Idle
    PROVE  \E key \in Key, n \in 0..want, pos \in Nat :
              /\ key = CallKey /\ Start \in Nat /\ pos = Start + n
              /\ got = Keystream(key, Start, n) /\ Len(got) = n
              /\ Missing = want - n
              /\ GivesOn(ctr, buf, buf_ptr, Unread, key, pos)
              /\ stage \in Side => SideAt(n)
<1>1. call \in Calls /\ want \in Nat /\ drawn \in Nat /\ stage \in Side \cup {"idle", "seed", "word"}
  BY DEF IInv
<1>2. PICK n \in 0..want : RequestAt(n) /\ (stage \in Side => SideAt(n))
  BY DEF IInv
<1>3. PICK key \in Key : key = CallKey
  BY <1>1, CallTyped
<1>4. Start \in Nat
  <2>1. CASE stage = "word"
    <3>1. call.op = "convert"
      BY <2>1 DEF IInv
    <3>2. call.shape.width \in Nat
      BY <1>1, <3>1, CallTyped
    <3>3. drawn * call.shape.width \in Nat
      BY <1>1, <3>2
    <3>4. Start = BLOCK + drawn * call.shape.width
      BY <2>1 DEF Start
    <3> QED BY <3>3, <3>4, Sizes
  <2>2. CASE stage # "word"
    BY <2>2, Sizes DEF Start
  <2> QED BY <2>1, <2>2
<1>5. PICK pos \in Nat : pos = Start + n
  BY <1>4
<1>6. got = Keystream(key, Start, n) /\ GivesOn(ctr, buf, buf_ptr, Unread, key, pos)
  BY <1>2, <1>3, <1>5 DEF RequestAt, BufferAt
<1>7. Len(got) = n
  <2>1. PICK i \in Nat, l \in Nat : i = Start /\ l = n
    BY <1>4
  <2> QED BY <1>6, <2>1, KeystreamBytes
<1> QED BY <1>2, <1>3, <1>4, <1>5, <1>6, <1>7 DEF Missing

LEMMA InitInv ==
    ASSUME Init
    PROVE  IInv
<1>1. buf \in Buffers /\ have \in 0..(8 * BLOCK) /\ buf_ptr \in 0..have
  BY Sizes DEF Init, Buffers
<1> QED BY <1>1 DEF Init, IInv, BufferTyped, Idle, Side, NoCall, Outputs

LEMMA StutterInv ==
    ASSUME IInv, UNCHANGED vars
    PROVE  IInv'
BY DEF vars, stream, IInv, BufferTyped, Buffers, Idle, Outputs, Converted, Child, CallKey, Start,
       RequestAt, BufferAt, SideAt, Unread

(* A call starts where its key's stream does. *)
LEMMA StartsAtKey ==
    ASSUME NEW k \in Key, NEW bf, NEW p
    PROVE  GivesOn(k, bf, p, 0, k, 0) /\ Keystream(k, 0, 0) = << >>
<1>1. Ahead(k, 0) = k
  BY AheadOfKey
<1>2. 0 + 0 = 0 * BLOCK
  BY Sizes
<1>3. GivesOn(k, bf, p, 0, k, 0)
  BY <1>1, <1>2 DEF GivesOn
<1> QED BY <1>3 DEF Keystream

LEMMA NothingYet ==
    ASSUME NEW k, NEW i
    PROVE  Keystream(k, i, 0) = << >>
BY DEF Keystream

LEMMA ExpandDirInv ==
    ASSUME IInv, NEW seed \in Seeds, NEW dirs \in (SUBSET Side) \ {{}}, ExpandDir(seed, dirs)
    PROVE  IInv'
<1>1. PICK key \in Key : key = Cleared(seed)
  BY KeyTyped
<1>2. /\ ctr' = key /\ buf' = buf /\ have' = BLOCK /\ buf_ptr' = BLOCK
      /\ call' = [op |-> "expand", seed |-> seed, dirs |-> dirs, bits |-> Bits(key)]
      /\ outs' = << >> /\ drawn' = 0 /\ stage' = "left" /\ got' = << >>
      /\ want' = IF "left" \in dirs THEN BLOCK ELSE 0
  BY <1>1 DEF ExpandDir, set_key, SideRequest, Request
<1>3. call' \in Calls /\ call'.op = "expand" /\ CallKey' = key /\ call'.dirs = dirs
  <2>1. Bits(key) \in BOOLEAN \X BOOLEAN
    BY DEF Bits
  <2> QED BY <1>1, <1>2, <2>1 DEF Calls, CallKey
<1>4. Start' = 0 /\ Unread' = 0
  BY <1>2, Sizes DEF Start, Unread
<1>5. RequestAt(0)'
  <2>1. 0 + 0 = 0
    OBVIOUS
  <2>2. GivesOn(ctr', buf', buf_ptr', Unread', key, 0) /\ got' = Keystream(key, 0, 0)
    BY <1>2, <1>4, StartsAtKey
  <2> QED BY <1>3, <1>4, <2>1, <2>2 DEF RequestAt, BufferAt
<1>6. SideAt(0)'
  BY <1>2, <1>3, <1>4 DEF SideAt
<1>7. want' \in Nat /\ 0 \in 0..want'
  BY <1>2, Sizes
<1>8. BufferTyped'
  BY <1>2, Sizes DEF IInv, BufferTyped, Buffers
<1>9. Outputs'
  BY <1>2 DEF Outputs, Idle
<1>10. stage' \in Side /\ stage' # "idle" /\ drawn' \in Nat
  BY <1>2 DEF Side
<1>11. (\E n \in 0..want : RequestAt(n) /\ (stage \in Side => SideAt(n)))'
  BY <1>5, <1>6, <1>7
<1> QED BY <1>2, <1>3, <1>7, <1>8, <1>9, <1>10, <1>11 DEF IInv, Idle

LEMMA ConvertInv ==
    ASSUME IInv, NEW seed \in Seeds, NEW shape \in Shapes, Convert(seed, shape)
    PROVE  IInv'
<1>1. PICK key \in Key : key = seed
  BY KeyTyped
<1>2. /\ ctr' = key /\ buf' = buf /\ have' = BLOCK /\ buf_ptr' = BLOCK
      /\ call' = [op |-> "convert", seed |-> seed, shape |-> shape]
      /\ outs' = << >> /\ drawn' = 0 /\ stage' = "seed" /\ got' = << >> /\ want' = BLOCK
  BY <1>1 DEF Convert, set_key, Request
<1>3. call' \in Calls /\ call'.op = "convert" /\ CallKey' = key
  BY <1>1, <1>2 DEF Calls, CallKey
<1>4. Start' = 0 /\ Unread' = 0
  BY <1>2, Sizes DEF Start, Unread
<1>5. RequestAt(0)'
  <2>1. 0 + 0 = 0
    OBVIOUS
  <2>2. GivesOn(ctr', buf', buf_ptr', Unread', key, 0) /\ got' = Keystream(key, 0, 0)
    BY <1>2, <1>4, StartsAtKey
  <2> QED BY <1>3, <1>4, <2>1, <2>2 DEF RequestAt, BufferAt
<1>6. want' \in Nat /\ 0 \in 0..want'
  BY <1>2, Sizes
<1>7. BufferTyped'
  BY <1>2, Sizes DEF IInv, BufferTyped, Buffers
<1>8. Outputs'
  BY <1>2 DEF Outputs, Idle
<1>9. stage' \notin Side /\ stage' # "idle" /\ drawn' \in Nat
  BY <1>2 DEF Side
<1>10. (\E n \in 0..want : RequestAt(n) /\ (stage \in Side => SideAt(n)))'
  BY <1>5, <1>6, <1>9
<1> QED BY <1>2, <1>3, <1>6, <1>7, <1>8, <1>9, <1>10 DEF IInv, Idle

(* A step of fill_bytes leaves all but the buffer and the bytes got alone. *)
LEMMA SameRequest ==
    ASSUME IInv, ~Idle, UNCHANGED <<call, stage, want, outs, drawn>>, BufferTyped',
           NEW n \in 0..want, RequestAt(n)', stage \in Side => SideAt(n)'
    PROVE  IInv'
<1>1. Outputs'
  BY DEF IInv, Outputs, Converted, Child, CallKey, Idle
<1>2. (\E m \in 0..want : RequestAt(m) /\ (stage \in Side => SideAt(m)))'
  OBVIOUS
<1> QED BY <1>1, <1>2 DEF IInv, Idle

LEMMA RefillInv ==
    ASSUME IInv, Refill
    PROVE  IInv'
<1>1. Missing > 0 /\ buf_ptr = have /\ UNCHANGED <<call, stage, want, got, outs, drawn>>
  BY DEF Refill
<1>2. ~Idle
  BY <1>1 DEF IInv, Missing
<1>3. PICK key \in Key, n \in 0..want, pos \in Nat :
              /\ key = CallKey /\ Start \in Nat /\ pos = Start + n
              /\ got = Keystream(key, Start, n) /\ Len(got) = n
              /\ Missing = want - n
              /\ GivesOn(ctr, buf, buf_ptr, Unread, key, pos)
              /\ stage \in Side => SideAt(n)
  BY <1>2, Underway
<1>4. want \in Nat /\ have \in Nat /\ buf_ptr \in Nat
  BY DEF IInv, BufferTyped
<1>5. Unread = 0
  BY <1>1, <1>4 DEF Unread
<1>6. PICK b \in Nat : ctr = Ahead(key, b) /\ pos = b * BLOCK
  <2>1. PICK b \in Nat : ctr = Ahead(key, b) /\ pos + 0 = b * BLOCK
    BY <1>3, <1>5 DEF GivesOn
  <2> QED BY <2>1
<1>7. /\ buf' \in Buffers /\ buf_ptr' = 0 /\ have' \in {BLOCK, 8 * BLOCK}
      /\ want <= 4 * BLOCK => have' = BLOCK
      /\ GivesOn(ctr', buf', 0, have', key, pos)
  <2>1. CASE want > 4 * BLOCK
    <3>1. /\ have' = 8 * BLOCK /\ buf_ptr' = 0 /\ ctr' = Ahead(Ahead(key, b), 8)
          /\ buf' = [j \in 1..(8 * BLOCK) |->
                       BlockOf(Ahead(Ahead(key, b), (j - 1) \div BLOCK))[((j - 1) % BLOCK) + 1]]
      BY <1>6, <2>1 DEF Refill, refill8
    <3>2. buf' \in Buffers /\ GivesOn(ctr', buf', 0, have', key, pos)
      BY <1>6, <3>1, GivesBlocks
    <3>3. ~(want <= 4 * BLOCK)
      BY <1>4, <2>1, Sizes
    <3> QED BY <3>1, <3>2, <3>3
  <2>2. CASE ~(want > 4 * BLOCK)
    <3>1. /\ have' = BLOCK /\ buf_ptr' = 0 /\ ctr' = inc_be(Ahead(key, b))
          /\ buf' = [j \in 1..(8 * BLOCK) |->
                       IF j <= BLOCK THEN BlockOf(Ahead(key, b))[j] ELSE NoByte]
      BY <1>6, <2>2 DEF Refill, refill
    <3>2. buf' \in Buffers /\ GivesOn(ctr', buf', 0, have', key, pos)
      BY <1>6, <3>1, GivesBlock
    <3> QED BY <3>1, <3>2
  <2> QED BY <2>1, <2>2
<1>8. BufferTyped'
  BY <1>7, Sizes DEF BufferTyped
<1>9. Unread' = have'
  <2>1. PICK h \in Nat : h = have'
    BY <1>7, Sizes
  <2>2. Unread' = h - 0
    BY <1>7, <2>1 DEF Unread
  <2>3. h - 0 = h
    OBVIOUS
  <2> QED BY <2>1, <2>2, <2>3
<1>10. CallKey' = key /\ Start' = Start
  BY <1>1, <1>3 DEF CallKey, Start
<1>11. RequestAt(n)'
  <2>1. Start' + n = pos /\ got' = Keystream(CallKey', Start', n)
    BY <1>1, <1>3, <1>10
  <2>2. GivesOn(ctr', buf', buf_ptr', Unread', CallKey', Start' + n)
    BY <1>7, <1>9, <1>10, <2>1
  <2> QED BY <2>1, <2>2 DEF RequestAt, BufferAt
<1>12. ASSUME stage \in Side PROVE SideAt(n)'
  <2>1. /\ call.op = "expand"
        /\ want = IF stage \in call.dirs THEN BLOCK ELSE 0
        /\ <<n, 0>> \in {<<0, 0>>, <<0, want>>, <<want, 0>>}
    BY <1>3, <1>5, <1>12 DEF SideAt
  <2>2. n # want /\ want # 0
    BY <1>1, <1>3, <1>4
  <2>3. want = BLOCK /\ n = 0
    BY <2>1, <2>2
  <2>4. have' = BLOCK
    BY <1>7, <2>3, Sizes
  <2>5. <<n, Unread'>> = <<0, want'>>
    BY <1>1, <1>9, <2>3, <2>4
  <2> QED BY <1>1, <2>1, <2>4, <2>5 DEF SideAt
<1> QED BY <1>1, <1>2, <1>8, <1>11, <1>12, SameRequest

LEMMA CopyInv ==
    ASSUME IInv, Copy
    PROVE  IInv'
<1>1. PICK n2 : /\ n2 = IF have - buf_ptr < Missing THEN have - buf_ptr ELSE Missing
                /\ Missing > 0 /\ buf_ptr < have
                /\ got' = Joined(got, Cut(buf, buf_ptr, buf_ptr + n2))
                /\ buf_ptr' = buf_ptr + n2
                /\ UNCHANGED <<ctr, buf, have, call, stage, want, outs, drawn>>
  BY DEF Copy, Joined, Cut
<1>2. ~Idle
  BY <1>1 DEF IInv, Missing
<1>3. PICK key \in Key, n \in 0..want, pos \in Nat :
              /\ key = CallKey /\ Start \in Nat /\ pos = Start + n
              /\ got = Keystream(key, Start, n) /\ Len(got) = n
              /\ Missing = want - n
              /\ GivesOn(ctr, buf, buf_ptr, Unread, key, pos)
              /\ stage \in Side => SideAt(n)
  BY <1>2, Underway
<1>4. want \in Nat /\ have \in 0..(8 * BLOCK) /\ buf_ptr \in 0..have /\ buf \in Buffers
  BY DEF IInv, BufferTyped
<1>5. PICK u \in Nat : u = Unread /\ u = have - buf_ptr /\ u > 0 /\ buf_ptr + u = have
  BY <1>1, <1>4, Sizes DEF Unread
<1>6. n2 \in 0..u /\ n + n2 \in 0..want /\ n2 \in Nat /\ n \in Nat
  BY <1>1, <1>3, <1>4, <1>5
<1>7. /\ GivesOn(ctr, buf, buf_ptr + n2, u - n2, key, pos + n2)
      /\ Cut(buf, buf_ptr, buf_ptr + n2) = Keystream(key, pos, n2)
  <2>1. PICK p \in Nat : p = buf_ptr
    BY <1>4, Sizes
  <2>2. p + u <= 8 * BLOCK
    BY <1>4, <1>5, <2>1, Sizes
  <2>3. GivesOn(ctr, buf, p, u, key, pos)
    BY <1>3, <1>5, <2>1
  <2>4. PICK bf \in Buffers : bf = buf
    BY <1>4
  <2>5. PICK c : c = ctr
    OBVIOUS
  <2>6. PICK m \in 0..u : m = n2
    BY <1>6
  <2>7. GivesOn(c, bf, p, u, key, pos)
    BY <2>3, <2>4, <2>5
  <2>8. PICK p2, u2, pos2 : p2 = p + m /\ u2 = u - m /\ pos2 = pos + m
    OBVIOUS
  <2>9. /\ GivesOn(c, bf, p2, u2, key, pos2)
        /\ Cut(bf, p, p2) = Keystream(key, pos, m)
    BY <2>2, <2>7, <2>8, GivesRest
  <2> QED BY <2>1, <2>4, <2>5, <2>6, <2>8, <2>9
<1>8. Joined(Keystream(key, Start, n), Keystream(key, pos, n2)) = Keystream(key, Start, n + n2)
  <2>1. PICK s \in Nat : s = Start
    BY <1>3
  <2>2. pos = s + n
    BY <1>3, <2>1
  <2>3. PICK l \in Nat : l = n
    BY <1>6
  <2>4. PICK m \in Nat : m = n2
    BY <1>6
  <2>6. PICK e \in Nat : e = l + m
    OBVIOUS
  <2>5. Joined(Keystream(key, s, l), Keystream(key, pos, m)) = Keystream(key, s, e)
    <3>1. pos = s + l
      BY <2>2, <2>3
    <3> QED BY <2>6, <3>1, KeystreamGoesOn
  <2> QED BY <2>1, <2>3, <2>4, <2>6, <2>5
<1>9. BufferTyped'
  BY <1>1, <1>4, <1>5, <1>6, Sizes DEF BufferTyped
<1>10. CallKey' = key /\ Start' = Start
  BY <1>1, <1>3 DEF CallKey, Start
<1>11. Unread' = u - n2
  BY <1>1, <1>4, <1>5, <1>6, Sizes DEF Unread
<1>12. RequestAt(n + n2)'
  <2>1. got' = Keystream(CallKey', Start', n + n2)
    BY <1>1, <1>3, <1>7, <1>8, <1>10
  <2>2. Start' + (n + n2) = pos + n2
    BY <1>3, <1>6, <1>10
  <2>3. GivesOn(ctr', buf', buf_ptr', Unread', CallKey', Start' + (n + n2))
    BY <1>1, <1>7, <1>10, <1>11, <2>2
  <2> QED BY <2>1, <2>3 DEF RequestAt, BufferAt
<1>13. ASSUME stage \in Side PROVE SideAt(n + n2)'
  <2>1. /\ call.op = "expand" /\ have = BLOCK
        /\ want = IF stage \in call.dirs THEN BLOCK ELSE 0
        /\ <<n, u>> \in {<<0, 0>>, <<0, want>>, <<want, 0>>}
    BY <1>3, <1>5, <1>13 DEF SideAt
  <2>2. n = 0 /\ u = want
    BY <1>5, <2>1
  <2>3. n2 = want
    BY <1>1, <1>3, <1>4, <1>5, <2>2
  <2>4. <<n + n2, Unread'>> = <<want', 0>>
    BY <1>1, <1>4, <1>11, <2>2, <2>3
  <2> QED BY <1>1, <2>1, <2>4 DEF SideAt
<1>14. PICK m \in 0..want : m = n + n2
  BY <1>6
<1> QED BY <1>1, <1>2, <1>9, <1>12, <1>13, <1>14, SameRequest

LEMMA AppendToOne ==
    ASSUME NEW x, NEW y
    PROVE  Append(<<x>>, y) = <<x, y>>
<1> DEFINE S == {x, y}
           a == <<x>>
           b == <<x, y>>
           c == Append(a, y)
<1>1. a \in Seq(S) /\ b \in Seq(S) /\ y \in S
  OBVIOUS
<1>2. Len(a) = 1 /\ a[1] = x /\ Len(b) = 2 /\ b[1] = x /\ b[2] = y
  OBVIOUS
<1>3. Append(a, y) \in Seq(S)
  <2> HIDE DEF a, S
  <2> QED BY <1>1, AppendProperties
<1>4. Len(Append(a, y)) = Len(a) + 1
  <2> HIDE DEF a, S
  <2> QED BY <1>1, AppendProperties
<1>5. \A i \in 1..Len(a) : Append(a, y)[i] = a[i]
  <2> HIDE DEF a, S
  <2> QED BY <1>1, AppendProperties
<1>6. Append(a, y)[Len(a) + 1] = y
  <2> HIDE DEF a, S
  <2> QED BY <1>1, AppendProperties
<1>7. Len(c) = 2 /\ c[1] = x /\ c[2] = y
  <2> HIDE DEF a, S
  <2> QED BY <1>2, <1>4, <1>5, <1>6
<1>8. c = b
  <2> HIDE DEF a, S, b
  <2>1. c \in Seq(S)
    BY <1>3
  <2> HIDE DEF c
  <2>2. \A i \in 1..Len(c) : c[i] = b[i]
    BY <1>2, <1>7
  <2> QED BY <1>1, <1>2, <1>7, <2>1, <2>2, SeqEqual
<1> QED BY <1>8

(* A side is dealt with: it was all there or skipped, and its block of the
   stream is the last one before the counter. *)
LEMMA SideOver ==
    ASSUME IInv, NEW side, stage = side, side \in Side, SkipSide \/ SideFilled
    PROVE  /\ ~Idle /\ call \in Calls /\ call.op = "expand"
           /\ outs' = Append(outs, Child(side))
           /\ UNCHANGED <<buf, have, buf_ptr, call, drawn>>
           /\ Unread = 0 /\ have = BLOCK
           /\ GivesOn(ctr', buf', buf_ptr', 0, CallKey, IF side = "left" THEN BLOCK ELSE 2 * BLOCK)
<1>1. ~Idle /\ stage \in Side
  BY DEF Side, Idle
<1>2. PICK key \in Key, n \in 0..want, pos \in Nat :
              /\ key = CallKey /\ Start \in Nat /\ pos = Start + n
              /\ got = Keystream(key, Start, n) /\ Len(got) = n
              /\ Missing = want - n
              /\ GivesOn(ctr, buf, buf_ptr, Unread, key, pos)
              /\ stage \in Side => SideAt(n)
  BY <1>1, Underway
<1>3. /\ call.op = "expand" /\ have = BLOCK /\ want = IF stage \in call.dirs THEN BLOCK ELSE 0
      /\ <<n, Unread>> \in {<<0, 0>>, <<0, want>>, <<want, 0>>}
  BY <1>1, <1>2 DEF SideAt
<1>4. call \in Calls /\ want \in Nat
  BY <1>1 DEF IInv
<1>5. Start = IF side = "left" THEN 0 ELSE BLOCK
  BY DEF Start, Side
<1>6. PICK q \in Nat : q = Start /\ q + BLOCK = IF side = "left" THEN BLOCK ELSE 2 * BLOCK
  BY <1>5, Sizes
<1>7. CASE SkipSide
  <2>1. /\ stage \notin call.dirs /\ ctr' = inc_be(ctr) /\ outs' = Append(outs, << >>)
        /\ UNCHANGED <<buf, have, buf_ptr, call, drawn>>
    BY <1>7 DEF SkipSide, skip_block
  <2>2. want = 0 /\ n = 0 /\ Unread = 0 /\ pos = q
    BY <1>2, <1>3, <1>6, <2>1
  <2>3. PICK b \in Nat : ctr = Ahead(key, b) /\ q = b * BLOCK
    <3>1. PICK b \in Nat : ctr = Ahead(key, b) /\ pos + 0 = b * BLOCK
      BY <1>2, <2>2 DEF GivesOn
    <3> QED BY <2>2, <3>1
  <2>4. ctr' = Ahead(key, b + 1) /\ b + 1 \in Nat
    <3>1. inc_be(Ahead(key, b)) = Ahead(key, b + 1)
      BY IncIsAhead
    <3>2. ctr' = inc_be(ctr) /\ ctr = Ahead(key, b)
      BY <2>1, <2>3
    <3> QED BY <3>1, <3>2
  <2>5. (q + BLOCK) + 0 = (b + 1) * BLOCK
    BY <2>3, Sizes
  <2>6. GivesOn(ctr', buf', buf_ptr', 0, key, q + BLOCK)
    BY <2>4, <2>5 DEF GivesOn
  <2>7. Child(side) = << >>
    BY <2>1 DEF Child
  <2> QED BY <1>1, <1>2, <1>3, <1>4, <1>6, <2>1, <2>2, <2>6, <2>7
<1>8. CASE SideFilled
  <2>1. /\ stage \in call.dirs /\ Missing = 0 /\ outs' = Append(outs, got)
        /\ UNCHANGED <<ctr, buf, have, buf_ptr, call, drawn>>
    BY <1>8 DEF SideFilled, stream
  <2>2. want = BLOCK /\ n = BLOCK /\ Unread = 0 /\ pos = q + BLOCK
    BY <1>2, <1>3, <1>4, <1>6, <2>1, Sizes
  <2>3. GivesOn(ctr', buf', buf_ptr', 0, key, q + BLOCK)
    BY <1>2, <2>1, <2>2
  <2>4. Child(side) = got
    BY <1>2, <1>5, <2>1, <2>2 DEF Child
  <2> QED BY <1>1, <1>2, <1>3, <1>4, <1>6, <2>1, <2>2, <2>3, <2>4
<1> QED BY <1>7, <1>8

LEMMA SideInv ==
    ASSUME IInv, SkipSide \/ SideFilled
    PROVE  IInv'
<1>1. PICK side \in Side : stage = side
  BY DEF SkipSide, SideFilled
<1>2. /\ ~Idle /\ call \in Calls /\ call.op = "expand"
      /\ outs' = Append(outs, Child(side))
      /\ UNCHANGED <<buf, have, buf_ptr, call, drawn>>
      /\ Unread = 0 /\ have = BLOCK
      /\ GivesOn(ctr', buf', buf_ptr', 0, CallKey, IF side = "left" THEN BLOCK ELSE 2 * BLOCK)
  BY <1>1, SideOver
<1>3. BufferTyped'
  BY <1>2 DEF IInv, BufferTyped
<1>4. CallKey' = CallKey /\ Unread' = 0
  BY <1>2 DEF CallKey, Unread
<1>5. CASE side = "left"
  <2>1. /\ stage' = "right" /\ got' = << >>
        /\ want' = IF "right" \in call.dirs THEN BLOCK ELSE 0
    BY <1>1, <1>5 DEF SkipSide, SideFilled, AfterSide, SideRequest, Request
  <2>2. Start' = BLOCK /\ BLOCK + 0 = BLOCK
    BY <2>1, Sizes DEF Start
  <2>3. RequestAt(0)'
    <3>1. got' = Keystream(CallKey', Start', 0)
      BY <2>1, NothingYet
    <3>2. GivesOn(ctr', buf', buf_ptr', Unread', CallKey', Start' + 0)
      BY <1>2, <1>4, <1>5, <2>2
    <3> QED BY <3>1, <3>2 DEF RequestAt, BufferAt
  <2>4. SideAt(0)'
    BY <1>2, <1>4, <2>1 DEF SideAt
  <2>5. outs' = <<Child("left")>> /\ Child("left")' = Child("left")
    <3>1. outs = << >>
      BY <1>1, <1>5 DEF IInv, Outputs
    <3> QED BY <1>2, <1>4, <1>5, <3>1 DEF Child
  <2>6. Outputs'
    BY <2>1, <2>5 DEF Outputs, Idle
  <2>7. want' \in Nat /\ 0 \in 0..want'
    BY <2>1, Sizes
  <2>8. (\E n \in 0..want : RequestAt(n) /\ (stage \in Side => SideAt(n)))'
    BY <2>3, <2>4, <2>7
  <2> QED BY <1>2, <1>3, <2>1, <2>6, <2>7, <2>8 DEF IInv, Idle, Side
<1>6. CASE side = "right"
  <2>1. stage' = "idle" /\ want' = 0 /\ got' = << >>
    BY <1>1, <1>6 DEF SkipSide, SideFilled, AfterSide, Request
  <2>2. outs = <<Child("left")>>
    BY <1>1, <1>6 DEF IInv, Outputs
  <2>3. outs' = <<Child("left"), Child("right")>>
    <3>1. PICK x, y : x = Child("left") /\ y = Child("right")
      OBVIOUS
    <3>2. outs = <<x>> /\ outs' = Append(outs, y)
      BY <1>2, <1>6, <2>2, <3>1
    <3>3. Append(<<x>>, y) = <<x, y>>
      BY AppendToOne
    <3> QED BY <3>1, <3>2, <3>3
  <2>4. Child("left")' = Child("left") /\ Child("right")' = Child("right")
    BY <1>2, <1>4 DEF Child
  <2>5. Outputs'
    BY <1>2, <2>1, <2>3, <2>4 DEF Outputs, Idle
  <2> QED BY <1>2, <1>3, <2>1, <2>5 DEF IInv, Idle
<1> QED BY <1>1, <1>5, <1>6 DEF Side

LEMMA SeedFilledInv ==
    ASSUME IInv, SeedFilled
    PROVE  IInv'
<1>1. /\ stage = "seed" /\ Missing = 0 /\ outs' = <<got>>
      /\ stage' = "word" /\ want' = call.shape.width /\ got' = << >>
      /\ UNCHANGED <<ctr, buf, have, buf_ptr, call, drawn>>
  BY DEF SeedFilled, Request, stream
<1>2. ~Idle /\ call.op = "convert" /\ call \in Calls /\ want = BLOCK /\ drawn = 0
  BY <1>1 DEF IInv, Idle
<1>3. PICK key \in Key, n \in 0..want, pos \in Nat :
              /\ key = CallKey /\ Start \in Nat /\ pos = Start + n
              /\ got = Keystream(key, Start, n) /\ Len(got) = n
              /\ Missing = want - n
              /\ GivesOn(ctr, buf, buf_ptr, Unread, key, pos)
              /\ stage \in Side => SideAt(n)
  BY <1>2, Underway
<1>4. /\ key = call.seed /\ call.shape \in Shapes
      /\ call.shape.width \in Nat \ {0} /\ call.shape.draws \in Nat \ {0}
  BY <1>2, <1>3, CallTyped
<1>5. n = BLOCK /\ Start = 0 /\ pos = BLOCK
  BY <1>1, <1>2, <1>3, Sizes DEF Start, Side
<1>6. BufferTyped'
  BY <1>1 DEF IInv, BufferTyped
<1>7. CallKey' = key /\ Unread' = Unread
  BY <1>1, <1>3 DEF CallKey, Unread
<1>8. Start' = BLOCK /\ BLOCK + 0 = BLOCK
  <2>1. Start' = BLOCK + drawn' * call'.shape.width
    BY <1>1 DEF Start
  <2>2. drawn' * call'.shape.width = 0
    BY <1>1, <1>2, <1>4
  <2> QED BY <2>1, <2>2, Sizes
<1>9. RequestAt(0)'
  <2>1. got' = Keystream(CallKey', Start', 0)
    BY <1>1, NothingYet
  <2>2. GivesOn(ctr', buf', buf_ptr', Unread', CallKey', Start' + 0)
    BY <1>1, <1>3, <1>5, <1>7, <1>8
  <2> QED BY <2>1, <2>2 DEF RequestAt, BufferAt
<1>10. Converted' /\ Len(outs') = 1
  <2>1. PICK h : h = got
    OBVIOUS
  <2>2. Accepted(key, call.shape, 0) = << >>
    <3>1. PICK z \in Nat : z = 0
      OBVIOUS
    <3> QED BY <1>4, <3>1, AcceptedStep
  <2>3. <<h>> \o << >> = <<h>> /\ Len(<<h>>) = 1
    OBVIOUS
  <2>4. Keystream(call'.seed, 0, BLOCK) = h
    BY <1>1, <1>3, <1>4, <1>5, <2>1
  <2>5. Accepted(call'.seed, call'.shape, drawn') = << >>
    BY <1>1, <1>2, <1>4, <2>2
  <2>6. outs' = <<h>>
    BY <1>1, <2>1
  <2> QED BY <2>3, <2>4, <2>5, <2>6, Zenon DEF Converted
<1>11. Outputs'
  <2>1. Len(outs') < 1 + call'.shape.draws
    BY <1>1, <1>4, <1>10
  <2> QED BY <1>1, <1>10, <2>1 DEF Outputs, Idle
<1>12. stage' \notin Side /\ stage' # "idle"
  BY <1>1 DEF Side
<1>13. want' \in Nat /\ 0 \in 0..want' /\ drawn' \in Nat
  BY <1>1, <1>2, <1>4
<1>14. (\E m \in 0..want : RequestAt(m) /\ (stage \in Side => SideAt(m)))'
  BY <1>9, <1>12, <1>13
<1> QED BY <1>1, <1>2, <1>6, <1>11, <1>12, <1>13, <1>14 DEF IInv, Idle

LEMMA JoinedAssociative ==
    ASSUME NEW T, NEW s \in Seq(T), NEW t \in Seq(T), NEW u \in Seq(T)
    PROVE  Joined(Joined(s, t), u) = Joined(s, Joined(t, u))
<1>1. (s \o t) \o u = s \o (t \o u)
  BY ConcatAssociative
<1> QED BY <1>1, Zenon DEF Joined

\* What a draw makes of the outputs.
Drawn(x, d) == IF Rejected(d[1]) THEN x ELSE Append(x, d)

Grown(x, y) == Len(x) \in Nat /\ (Len(y) = Len(x) \/ Len(y) = Len(x) + 1)

(* A draw of a word that has its seed and the draws before. *)
LEMMA WordGoesOn ==
    ASSUME NEW seed \in Key, NEW shape \in Shapes, NEW m \in Nat, NEW s \in Words,
           NEW l \in Nat, l = m + 1
    PROVE  /\ Drawn(Joined(s, Accepted(seed, shape, m)), Draw(seed, shape, l))
                 = Joined(s, Accepted(seed, shape, l))
           /\ Grown(Joined(s, Accepted(seed, shape, m)), Joined(s, Accepted(seed, shape, l)))
<1>0. PICK d, x, y : /\ d = Draw(seed, shape, l)
                     /\ x = Joined(s, Accepted(seed, shape, m))
                     /\ y = Drawn(x, d)
  OBVIOUS
<1> SUFFICES /\ y = Joined(s, Accepted(seed, shape, l))
             /\ Len(x) \in Nat
             /\ Len(y) = Len(x) \/ Len(y) = Len(x) + 1
  BY <1>0, Zenon DEF Grown
<1> DEFINE T == Seq(AnyByte)
<1>1. PICK a \in Seq(T) : a = Accepted(seed, shape, m)
  BY AcceptedStep DEF Words
<1>2. PICK b : b = Accepted(seed, shape, l)
  OBVIOUS
<1>3. b = IF Rejected(d[1]) THEN a ELSE Append(a, d)
  <2>1. Accepted(seed, shape, m + 1) = Redrawn(Accepted(seed, shape, m), seed, shape, m + 1)
    BY AcceptedStep
  <2>2. b = Redrawn(a, seed, shape, l)
    BY <1>1, <1>2, <2>1
  <2> QED BY <1>0, <2>2, Zenon DEF Redrawn
<1>4. d \in T
  BY <1>0, DrawTyped
<1> HIDE DEF T
<1>5. s \in Seq(T)
  BY DEF T, Words
<1>6. PICK e \in Seq(T) : e = <<d>>
  <2>1. <<d>> \in Seq(T)
    BY <1>4
  <2> QED BY <2>1
<1>7. x = s \o a
  BY <1>0, <1>1 DEF Joined
<1>8. x \in Seq(T)
  BY <1>5, <1>7, ConcatProperties
<1>9. Len(x) \in Nat
  BY <1>8
<1>10. CASE Rejected(d[1])
  <2>1. y = x /\ b = a
    BY <1>0, <1>3, <1>10 DEF Drawn
  <2> QED BY <1>0, <1>1, <1>2, <1>9, <2>1
<1>11. CASE ~Rejected(d[1])
  <2>1. y = Append(x, d) /\ b = Append(a, d)
    BY <1>0, <1>3, <1>11 DEF Drawn
  <2>2. Append(x, d) = Joined(x, e)
    BY <1>4, <1>6, <1>8, AppendIsConcat DEF Joined
  <2>3. Append(a, d) = Joined(a, e)
    BY <1>4, <1>6, AppendIsConcat DEF Joined
  <2>4. Joined(Joined(s, a), e) = Joined(s, Joined(a, e))
    BY <1>5, JoinedAssociative
  <2>5. x = Joined(s, a)
    BY <1>7 DEF Joined
  <2>6. y = Joined(s, Accepted(seed, shape, l))
    BY <1>2, <2>1, <2>2, <2>3, <2>4, <2>5, Zenon
  <2>7. Len(Append(x, d)) = Len(x) + 1
    BY <1>4, <1>8, AppendProperties
  <2> QED BY <1>9, <2>1, <2>6, <2>7
<1> QED BY <1>10, <1>11

LEMMA WordDrawnInv ==
    ASSUME IInv, WordDrawn
    PROVE  IInv'
<1>1. /\ stage = "word" /\ Missing = 0 /\ drawn' = drawn + 1
      /\ outs' = IF Rejected(got[1]) THEN outs ELSE Append(outs, got)
      /\ got' = << >>
      /\ IF Len(outs') = 1 + call.shape.draws THEN stage' = "idle" /\ want' = 0
                                             ELSE stage' = "word" /\ want' = call.shape.width
      /\ UNCHANGED <<ctr, buf, have, buf_ptr, call>>
  BY DEF WordDrawn, Request, stream
<1>2. /\ ~Idle /\ call.op = "convert" /\ call \in Calls /\ want = call.shape.width
      /\ drawn \in Nat /\ Converted /\ Len(outs) < 1 + call.shape.draws
  BY <1>1 DEF IInv, Idle, Outputs
<1>3. PICK key \in Key, n \in 0..want, pos \in Nat :
              /\ key = CallKey /\ Start \in Nat /\ pos = Start + n
              /\ got = Keystream(key, Start, n) /\ Len(got) = n
              /\ Missing = want - n
              /\ GivesOn(ctr, buf, buf_ptr, Unread, key, pos)
              /\ stage \in Side => SideAt(n)
  BY <1>2, Underway
<1>4. /\ key = call.seed /\ call.shape \in Shapes
      /\ call.shape.width \in Nat \ {0} /\ call.shape.draws \in Nat \ {0}
  BY <1>2, <1>3, CallTyped
<1>5. PICK w \in Nat, m \in Nat, l \in Nat :
         w = call.shape.width /\ m = drawn /\ l = m + 1 /\ l - 1 = m /\ l = drawn'
  BY <1>1, <1>2, <1>4
<1>6. PICK mw \in Nat : mw = m * w
  OBVIOUS
<1>7. n = w /\ Start = BLOCK + mw /\ pos = BLOCK + mw + w
  <2>1. n = w
    <3>1. want - n = 0 /\ want = w
      BY <1>1, <1>2, <1>3, <1>5
    <3> QED BY <3>1
  <2>2. Start = BLOCK + drawn * call.shape.width
    BY <1>1 DEF Start, Side
  <2>3. drawn * call.shape.width = mw
    BY <1>5, <1>6
  <2> QED BY <1>3, <2>1, <2>2, <2>3
<1>8. l * w = mw + w
  <2>1. (m + 1) * w = m * w + w
    OBVIOUS
  <2> QED BY <1>5, <1>6, <2>1
<1>9. BufferTyped'
  BY <1>1 DEF IInv, BufferTyped
<1>10. CallKey' = key /\ Unread' = Unread
  BY <1>1, <1>3 DEF CallKey, Unread
<1>11. got = Draw(key, call.shape, l)
  <2>1. BLOCK + (l - 1) * call.shape.width = BLOCK + mw
    BY <1>5, <1>6
  <2> QED BY <1>3, <1>5, <1>7, <2>1 DEF Draw
<1>12. Converted' /\ Len(outs) \in Nat /\ (Len(outs') = Len(outs) \/ Len(outs') = Len(outs) + 1)
  <2>1. PICK h \in Seq(AnyByte) : h = Keystream(key, 0, BLOCK)
    <3>1. PICK z \in Nat : z = 0
      OBVIOUS
    <3> QED BY <3>1, Sizes, KeystreamBytes
  <2>2. PICK shape \in Shapes : shape = call.shape
    BY <1>4
  <2>3. PICK d, x, y : d = got /\ x = outs /\ y = outs'
    OBVIOUS
  <2>8. PICK s \in Words : s = <<h>>
    <3>1. <<h>> \in Words
      BY DEF Words
    <3> QED BY <3>1
  <2>4. x = Joined(s, Accepted(key, shape, m))
    <3>1. outs = Joined(<<Keystream(call.seed, 0, BLOCK)>>, Accepted(call.seed, call.shape, drawn))
      BY <1>2, Zenon DEF Converted, Joined
    <3> QED BY <1>4, <1>5, <2>1, <2>2, <2>3, <2>8, <3>1
  <2>5. d = Draw(key, shape, l) /\ y = Drawn(x, d)
    BY <1>1, <1>11, <2>2, <2>3, Zenon DEF Drawn
  <2>6. /\ y = Joined(s, Accepted(key, shape, l))
        /\ Len(x) \in Nat
        /\ Len(y) = Len(x) \/ Len(y) = Len(x) + 1
    <3>1. /\ Drawn(Joined(s, Accepted(key, shape, m)), Draw(key, shape, l))
                = Joined(s, Accepted(key, shape, l))
          /\ Grown(Joined(s, Accepted(key, shape, m)), Joined(s, Accepted(key, shape, l)))
      <4>1. l = m + 1
        BY <1>5
      <4> QED BY <4>1, WordGoesOn
    <3> QED BY <2>4, <2>5, <3>1, Zenon DEF Grown
  <2>7. outs' = Joined(<<Keystream(call'.seed, 0, BLOCK)>>, Accepted(call'.seed, call'.shape, drawn'))
    BY <1>1, <1>4, <1>5, <2>1, <2>2, <2>3, <2>6, <2>8
  <2> QED BY <2>3, <2>6, <2>7, Zenon DEF Converted, Joined
<1>13. drawn' \in Nat /\ call' = call
  BY <1>1, <1>5
<1>14. CASE Len(outs') = 1 + call.shape.draws
  <2>1. stage' = "idle" /\ want' = 0 /\ got' = << >>
    BY <1>1, <1>14
  <2>2. Outputs'
    BY <1>2, <1>12, <1>13, <1>14, <2>1 DEF Outputs, Idle
  <2> QED BY <1>2, <1>9, <1>13, <2>1, <2>2 DEF IInv, Idle, Side
<1>15. CASE Len(outs') # 1 + call.shape.draws
  <2>1. stage' = "word" /\ want' = call.shape.width /\ got' = << >>
    BY <1>1, <1>15
  <2>2. Len(outs') < 1 + call'.shape.draws
    BY <1>2, <1>4, <1>12, <1>13, <1>15
  <2>3. Outputs'
    BY <1>12, <2>1, <2>2 DEF Outputs, Idle
  <2>4. Start' = BLOCK + l * w
    BY <1>1, <1>5, <2>1 DEF Start, Side
  <2>5. Start' = pos /\ pos + 0 = pos
    BY <1>7, <1>8, <2>4, Sizes
  <2>6. RequestAt(0)'
    <3>1. got' = Keystream(CallKey', Start', 0)
      BY <2>1, NothingYet
    <3>2. GivesOn(ctr', buf', buf_ptr', Unread', CallKey', Start' + 0)
      BY <1>1, <1>3, <1>10, <2>5
    <3> QED BY <3>1, <3>2 DEF RequestAt, BufferAt
  <2>7. want' \in Nat /\ 0 \in 0..want' /\ stage' \notin Side /\ stage' # "idle"
    BY <1>4, <2>1 DEF Side
  <2>8. (\E i \in 0..want : RequestAt(i) /\ (stage \in Side => SideAt(i)))'
    BY <2>6, <2>7
  <2> QED BY <1>2, <1>9, <1>13, <2>1, <2>3, <2>7, <2>8 DEF IInv, Idle
<1> QED BY <1>14, <1>15

LEMMA StepInv ==
    ASSUME IInv, [Next]_vars
    PROVE  IInv'
<1>1. CASE \E seed \in Seeds, dirs \in (SUBSET Side) \ {{}} : ExpandDir(seed, dirs)
  BY <1>1, ExpandDirInv
<1>2. CASE \E seed \in Seeds, shape \in Shapes : Convert(seed, shape)
  BY <1>2, ConvertInv
<1>3. CASE Refill
  BY <1>3, RefillInv
<1>4. CASE Copy
  BY <1>4, CopyInv
<1>5. CASE SkipSide \/ SideFilled
  BY <1>5, SideInv
<1>6. CASE SeedFilled
  BY <1>6, SeedFilledInv
<1>7. CASE WordDrawn
  BY <1>7, WordDrawnInv
<1>8. CASE UNCHANGED vars
  BY <1>8, StutterInv
<1> QED BY <1>1, <1>2, <1>3, <1>4, <1>5, <1>6, <1>7, <1>8 DEF Next, Step

(* The inductive invariant, in every state. *)
THEOREM Invariance == Spec => []IInv
<1>1. Init => IInv
  BY InitInv
<1>2. IInv /\ [Next]_vars => IInv'
  BY StepInv
<1> QED BY <1>1, <1>2, PTL DEF Spec

(* A child depends on its parent and its side only, for every sequence of
   calls on the thread's stream (prg.rs expand_dir). *)
THEOREM ChildrenAreFixed == Spec => []ChildrenFixed
<1>1. IInv => ChildrenFixed
  <2> SUFFICES ASSUME IInv, Idle, call.op = "expand" PROVE
        \A i \in {1, 2} :
            outs[i] = IF (IF i = 1 THEN "left" ELSE "right") \in call.dirs
                      THEN Keystream(Cleared(call.seed), (i - 1) * BLOCK, BLOCK)
                      ELSE << >>
    BY DEF ChildrenFixed
  <2>1. PICK x, y : x = Child("left") /\ y = Child("right")
    OBVIOUS
  <2>2. outs = <<x, y>>
    BY <2>1 DEF IInv, Outputs
  <2>3. outs[1] = x /\ outs[2] = y
    BY <2>2
  <2>4. CallKey = Cleared(call.seed)
    BY DEF CallKey
  <2>5. (1 - 1) * BLOCK = 0 /\ (2 - 1) * BLOCK = BLOCK
    BY Sizes
  <2>6. x = IF "left" \in call.dirs THEN Keystream(Cleared(call.seed), 0, BLOCK) ELSE << >>
    BY <2>1, <2>4 DEF Child
  <2>7. y = IF "right" \in call.dirs THEN Keystream(Cleared(call.seed), BLOCK, BLOCK) ELSE << >>
    BY <2>1, <2>4 DEF Child
  <2> QED BY <2>3, <2>5, <2>6, <2>7
<1> QED BY <1>1, Invariance, PTL

(* A seed converts to the first block of its stream and the first draws that
   are accepted, whatever the buffer held (prg.rs convert, fill_bytes). *)
THEOREM ConversionsAreFixed == Spec => []ConversionFixed
<1>1. IInv => ConversionFixed
  BY DEF IInv, Outputs, Converted, ConversionFixed
<1> QED BY <1>1, Invariance, PTL
=============================================================================
