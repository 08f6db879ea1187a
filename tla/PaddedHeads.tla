---------------------------- MODULE PaddedHeads ----------------------------
(***************************************************************************)
(* Attention heads widened to whole sticks: where each lane of the         *)
(* checkpoint goes in the padded projections, and what the rotation makes  *)
(* of it there.                                                            *)
(*                                                                         *)
(* A tensor is a function on its output rows (or input columns); a row is  *)
(* known by the lane <<head, i>> of the checkpoint it holds, or is Zero.   *)
(***************************************************************************)
EXTENDS Integers, FiniteSets

CONSTANTS
    Stick,
    Zero       \* what padding holds

ASSUME StickAssumption == Stick \in Nat \ {0} /\ Stick % 2 = 0

ASSUME ZeroAssumption == Zero \notin Int /\ Zero \notin Nat \X Nat

RoundUp(n, k) == ((n + k - 1) \div k) * k

Rows(w) == Cardinality(DOMAIN w)
Native(n, d) == [r \in 0 .. n * d - 1 |-> <<r \div d, r % d>>]
Cat(a, b) == [r \in 0 .. Rows(a) + Rows(b) - 1 |-> IF r < Rows(a) THEN a[r] ELSE b[r - Rows(a)]]
\* What a parameter of n rows takes of a tensor: the loader narrows without a word.
Narrow(w, first, n) == [r \in 0 .. n - 1 |-> w[first + r]]

\* [first half | zeros | second half | zeros] of each head.
_pad_qk_interleaved(w, n, orig, padded) ==
    [r \in 0 .. n * padded - 1 |->
        LET h == (r \div padded) * orig
            lane == r % padded
            second == lane - padded \div 2
        IN IF lane < orig \div 2 THEN w[h + lane]
           ELSE IF second \in 0 .. orig \div 2 - 1 THEN w[h + orig \div 2 + second]
           ELSE Zero]

pad_output_end(w, n, orig, padded) ==
    [r \in 0 .. n * padded - 1 |->
        IF r % padded < orig THEN w[(r \div padded) * orig + (r % padded)] ELSE Zero]

\* A plausible bug: a fused tensor taken for one of n equal heads.
FusedAsOne(w, n, kv, orig, padded) == _pad_qk_interleaved(w, n + 2 * kv, orig, padded)

\* A fused checkpoint tensor [q | k | v].
_pad_fused_qkv(w, n, kv, orig, padded) ==
    Cat(Cat(_pad_qk_interleaved(Narrow(w, 0, n * orig), n, orig, padded),
            _pad_qk_interleaved(Narrow(w, n * orig, kv * orig), kv, orig, padded)),
        pad_output_end(Narrow(w, (n + kv) * orig, kv * orig), kv, orig, padded))

-----------------------------------------------------------------------------
(* Rotation: for each lane of a head, the terms it is the sum of *)

Term(sign, trig, freq, source) == [sign |-> sign, trig |-> trig, freq |-> freq, lane |-> source]

\* Frequency i of a head of d lanes, which is theta^(-2i/d).
Frequency(i, d) == [index |-> i, of |-> d]

\* Rows of [[cos, -sin], [sin, cos]] over a view of the head as two halves; past the injected
\* frequencies the cache is zero, or the identity for the Transformers backend.
_rotate_neox_2x2(width, of, identity) ==
    [lane \in 0 .. width - 1 |->
        LET half == width \div 2  i == lane % half  f == Frequency(i, of)
        IN IF 2 * i >= of THEN (IF identity THEN {Term(1, "one", Frequency(0, of), lane)} ELSE {})
           ELSE IF lane < half THEN {Term(1, "cos", f, lane), Term(-1, "sin", f, lane + half)}
           ELSE {Term(1, "sin", f, lane - half), Term(1, "cos", f, lane)}]

\* x @ R == cat(-x[half:], x[:half])
_rotate_half_matrix(width) ==
    [lane \in 0 .. width - 1 |->
        LET half == width \div 2
        IN IF lane < half THEN [sign |-> -1, lane |-> lane + half] ELSE [sign |-> 1, lane |-> lane - half]]

\* x * cos + rotate_half(x) * sin with the cache [cos | cos | sin | sin].
_rotate_neox_split_free(width, of) ==
    [lane \in 0 .. width - 1 |->
        LET i == lane % (width \div 2)  f == Frequency(i, of)  r == _rotate_half_matrix(width)[lane]
        IN IF 2 * i >= of THEN {}
           ELSE {Term(1, "cos", f, lane), Term(r.sign, "sin", f, r.lane)}]

\* By the padded width; the Transformers backend has the first form only.
Rotation(width, of, hf) ==
    IF hf \/ (width \div 2) % Stick = 0 THEN _rotate_neox_2x2(width, of, hf)
    ELSE _rotate_neox_split_free(width, of)

\* What a head becomes: its rows' lanes under the rotation, terms of Zero rows gone.
Rotated(w, h, width, of, hf) ==
    [lane \in 0 .. width - 1 |->
        {[t EXCEPT !.lane = w[h * width + t.lane]] :
            t \in {t \in Rotation(width, of, hf)[lane] : w[h * width + t.lane] # Zero}}]

\* The published rotation of a head of d lanes.
Rotary(h, d) ==
    [i \in 0 .. d - 1 |->
        IF i < d \div 2
        THEN {Term(1, "cos", Frequency(i, d), <<h, i>>),
              Term(-1, "sin", Frequency(i, d), <<h, i + d \div 2>>)}
        ELSE {Term(1, "cos", Frequency(i - d \div 2, d), <<h, i>>),
              Term(1, "sin", Frequency(i - d \div 2, d), <<h, i - d \div 2>>)}]

\* Scores are sums over lanes: those of q and k at a place must be the same lane, each native
\* lane must be in one place and rotated as published, and the rest must be nothing.
SameHead(q, k, hq, hk, width, d, of, hf) ==
    LET rq == Rotated(q, hq, width, of, hf)  rk == Rotated(k, hk, width, of, hf)
        place == [i \in 0 .. d - 1 |-> {l \in 0 .. width - 1 : q[hq * width + l] = <<hq, i>>}]
    IN /\ \A i \in 0 .. d - 1 :
             \E l \in 0 .. width - 1 :
                /\ place[i] = {l} /\ k[hk * width + l] = <<hk, i>>
                /\ rq[l] = Rotary(hq, d)[i] /\ rk[l] = Rotary(hk, d)[i]
       /\ \A l \in (0 .. width - 1) \ UNION {place[i] : i \in 0 .. d - 1} : rq[l] = {} /\ rk[l] = {}

\* Values and the output projection's columns meet lane by lane.
SameValues(v, o, hv, ho, width, d) ==
    \A l \in 0 .. width - 1 :
        IF l < d THEN v[hv * width + l] = <<hv, l>> /\ o[ho * width + l] = <<ho, l>>
        ELSE v[hv * width + l] = Zero /\ o[ho * width + l] = Zero
=============================================================================
