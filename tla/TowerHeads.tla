---------------------------- MODULE TowerHeads ----------------------------
(***************************************************************************)
(* Attention heads of the vision towers: how each tower's checkpoint is    *)
(* laid out for the card after loading, and its rotation as one matmul.    *)
(*                                                                         *)
(* A rotated lane is a set of terms [sign, trig, axis, index, lane]: a     *)
(* lane of the checkpoint times the sine or cosine of a position on an     *)
(* axis times a frequency.  Terms of padding lanes are left out.           *)
(***************************************************************************)
EXTENDS PaddedHeads

AxisTerm(sign, trig, axis, i, lane) ==
    [sign |-> sign, trig |-> trig, axis |-> axis, index |-> i, lane |-> lane]

\* What a table holds at a lane: nothing, one, or a signed sine or cosine.
Nothing == [sign |-> 0, trig |-> "zero", axis |-> "x", index |-> 0]
One == [Nothing EXCEPT !.sign = 1, !.trig = "one"]
Angle(sign, trig, axis, i) == [sign |-> sign, trig |-> trig, axis |-> axis, index |-> i]

\* rope_perm_matrix: x @ M, the lane that M brings to a lane.
rope_perm_matrix(kind, width) ==
    [l \in 0..width - 1 |->
        IF kind = "half" THEN (l + width \div 2) % width
        ELSE IF l % 2 = 0 THEN l + 1 ELSE l - 1]

\* rope_rotate_matmul: x * cos + (x @ M) * sin, lane by lane.
rope_rotate_matmul(lanes, cos, sin, m) ==
    [l \in DOMAIN lanes |->
        {AxisTerm(t.sign, t.trig, t.axis, t.index, lanes[l]) :
            t \in {t \in {cos[l]} : t # Nothing /\ lanes[l] # Zero}}
        \cup {AxisTerm(t.sign, t.trig, t.axis, t.index, lanes[m[l]]) :
            t \in {t \in {sin[l]} : t # Nothing /\ lanes[m[l]] # Zero}}]

(***************************************************************************)
(* Gemma 4: each axis rotates a half of the head, in two quarters.         *)
(***************************************************************************)
_padded_head_dim(d) == RoundUp(d, 2 * Stick)

\* [X0, X1, Y0, Y1] -> [X0, Y0, fill | X1, Y1, fill], and the mutant that end-pads.
EndPadded(x, d, width, fill) == [l \in 0..width - 1 |-> IF l < d THEN x[l] ELSE fill]

_two_axis_layout(x, d, width, fill) ==
    LET quarter == d \div 4 IN
    [l \in 0..width - 1 |->
        LET half == l \div (width \div 2)  at == l % (width \div 2) IN
        IF at < quarter THEN x[half * quarter + at]
        ELSE IF at < 2 * quarter THEN x[2 * quarter + half * quarter + (at - quarter)]
        ELSE fill]

\* gemma4_rope_tables: a patch sums the x table's row and the y table's, which are never
\* both set at a lane.
gemma4_rope_tables(d, width) ==
    LET quarter == d \div 4
        axis(l) == IF l < 2 * quarter THEN "x" ELSE "y"
        first(l) == l % (2 * quarter) < quarter
        cos == [l \in 0..d - 1 |-> Angle(1, "cos", axis(l), l % quarter)]
        sin == [l \in 0..d - 1 |-> Angle(IF first(l) THEN -1 ELSE 1, "sin", axis(l), l % quarter)]
    IN [cos |-> _two_axis_layout(cos, d, width, One),
        sin |-> _two_axis_layout(sin, d, width, Nothing)]

Gemma(d) ==
    LET width == _padded_head_dim(d)
        lanes == _two_axis_layout([l \in 0..d - 1 |-> l], d, width, Zero)
        tables == gemma4_rope_tables(d, width) IN
    [lanes |-> lanes,
     rotated |-> rope_rotate_matmul(lanes, tables.cos, tables.sin, rope_perm_matrix("half", width))]

\* The model's own rotation: rotate_half on each axis's half of the head.
GemmaStock(d) ==
    LET quarter == d \div 4 IN
    [l \in 0..d - 1 |->
        LET axis == IF l < 2 * quarter THEN "x" ELSE "y"  i == l % quarter IN
        IF l % (2 * quarter) < quarter
        THEN {AxisTerm(1, "cos", axis, i, l), AxisTerm(-1, "sin", axis, i, l + quarter)}
        ELSE {AxisTerm(1, "cos", axis, i, l), AxisTerm(1, "sin", axis, i, l - quarter)}]

(***************************************************************************)
(* Pixtral: complex pairs, the frequencies alternating between the axes.   *)
(***************************************************************************)
PairAxis(k) == IF k % 2 = 0 THEN "y" ELSE "x"

pixtral_rope_tables(d) ==
    [cos |-> [l \in 0..d - 1 |-> Angle(1, "cos", PairAxis(l \div 2), l \div 2)],
     sin |-> [l \in 0..d - 1 |->
                 Angle(IF l % 2 = 0 THEN -1 ELSE 1, "sin", PairAxis(l \div 2), l \div 2)]]

Pixtral(d) ==
    LET lanes == [l \in 0..d - 1 |-> l]  tables == pixtral_rope_tables(d) IN
    [lanes |-> lanes,
     rotated |-> rope_rotate_matmul(lanes, tables.cos, tables.sin, rope_perm_matrix("pair", d))]

\* (re + i im) * (cos + i sin)
PixtralStock(d) ==
    [l \in 0..d - 1 |->
        LET k == l \div 2  re == 2 * k  im == 2 * k + 1 IN
        IF l = re THEN {AxisTerm(1, "cos", PairAxis(k), k, re), AxisTerm(-1, "sin", PairAxis(k), k, im)}
        ELSE {AxisTerm(1, "sin", PairAxis(k), k, re), AxisTerm(1, "cos", PairAxis(k), k, im)}]

(***************************************************************************)
(* SigLIP (Granite 4 Vision): no rotation; the fused columns are padded as *)
(* 3n heads, the output projection's rows as n.                            *)
(***************************************************************************)
pad_siglip_heads(n, d) ==
    LET width == RoundUp(d, Stick)
        qkv == [r \in 0..3 * n * d - 1 |->
                   [part |-> r \div (n * d), head |-> (r \div d) % n, lane |-> r % d]]
        out == [r \in 0..n * d - 1 |-> [part |-> 2, head |-> r \div d, lane |-> r % d]] IN
    [width |-> width,
     qkv |-> IF width = d THEN qkv ELSE pad_output_end(qkv, 3 * n, d, width),
     out |-> IF width = d THEN out ELSE pad_output_end(out, n, d, width)]

SiglipMeets(n, d) ==
    LET p == pad_siglip_heads(n, d) IN
    \A h \in 0..n - 1, l \in 0..p.width - 1 :
        LET q == p.qkv[h * p.width + l]
            k == p.qkv[(n + h) * p.width + l]
            v == p.qkv[(2 * n + h) * p.width + l]
            o == p.out[h * p.width + l] IN
        IF l < d
        THEN /\ q = [part |-> 0, head |-> h, lane |-> l]
             /\ k = [q EXCEPT !.part = 1] /\ v = [q EXCEPT !.part = 2] /\ o = v
        ELSE q = Zero /\ k = Zero /\ v = Zero /\ o = Zero

\* Every lane of the checkpoint is at one place and rotated there as the model means it;
\* what pads a head stays zero.
RotatesAs(head, stock) ==
    /\ \A l \in DOMAIN head.lanes :
          head.rotated[l] = IF head.lanes[l] = Zero THEN {} ELSE stock[head.lanes[l]]
    /\ \A s \in DOMAIN stock : \E l \in DOMAIN head.lanes :
          head.lanes[l] = s /\ \A m \in DOMAIN head.lanes : head.lanes[m] = s => m = l
=============================================================================
