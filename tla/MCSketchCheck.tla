---------------------------- MODULE MCSketchCheck ----------------------------
(* A small instance of SketchCheck: the integers modulo 3. *)
EXTENDS SketchCheck

MCAdd(x, y) == (x + y) % 3
MCNeg(x) == (3 - x) % 3
MCMul(x, y) == (x * y) % 3

\* Some element for each tape and use of it.
MCCoin(n, what, last, i) ==
    LET use == CASE what = "mac" -> 1 [] what = "mac2" -> 2 [] what = "x" -> 2 [] what = "kx" -> 4
                 [] what = "a0" -> 2 [] what = "a1" -> 5 [] what = "b0" -> 4 [] what = "b1" -> 3
                 [] what = "c" -> 7
    IN  (n * use + use * i * i + (IF last THEN i ELSE 1)) % 3

SomeDraws == {d \in AllDraws : d.rand \in {<<1, 2, 1>>, <<0, 1, 2>>}
                               /\ d.r \in {<<1, 2>>, <<2, 1>>, <<1, 1>>}}

\* Draws for two sketches, the second's in the other order.
MCStreams == {st \in [0..OtherSketches -> SomeDraws] :
                 /\ st[0].rand # st[1].rand
                 /\ \A j \in 1..Width : st[1].r[j] = st[0].r[Width + 1 - j]}
=============================================================================
