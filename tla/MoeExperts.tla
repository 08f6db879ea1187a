----------------------------- MODULE MoeExperts -----------------------------
(***************************************************************************)
(* Routed experts as the Spyre backend lays them out and computes them.    *)
(*                                                                         *)
(* The kernels come in a gathered form, for few tokens, which reads chunks *)
(* of the experts a token selects through aliases of the weight pools, and *)
(* in a persistent one, which runs over whole experts.  The aliases only   *)
(* reinterpret the device's memory, so both are modelled down to it: the   *)
(* pools of a rank are functions on flat addresses.                        *)
(*                                                                         *)
(* A layer l is [experts, hidden, inter, topk, tp, interleaved, biased];   *)
(* inter is the width of one rank's shard.  A weight is known by its place *)
(* in the checkpoint.                                                      *)
(***************************************************************************)
EXTENDS WeightShards

CONSTANTS
    Cores,              \* cores a kernel may be split over
    GatheredMaxTokens   \* SPYRE_MOE_GATHERED_MAX_TOKENS

ASSUME MoeAssumption ==
    Cores \in Nat \ {0} /\ GatheredMaxTokens \in Nat /\ Zero \notin Nat \X Nat \X Nat

GreatestOf(S) == CHOOSE n \in S : \A m \in S : m <= n
LeastOf(S)    == CHOOSE n \in S : \A m \in S : n <= m

\* The fewest chunks of whole sticks that spread the gathered entries over the most cores.
_derive_moe_chunks(hidden, topk) ==
    LET sticks == hidden \div Stick
        Used(c) == GreatestOf({s \in 1 .. (IF topk * c < Cores THEN topk * c ELSE Cores) : (topk * c) % s = 0})
        legal == {c \in 1 .. sticks : sticks % c = 0}
    IN LeastOf({c \in legal : \A d \in legal : Used(d) <= Used(c)})

-----------------------------------------------------------------------------
(* The checkpoint's stacks, as a rank's loader fills them *)

\* Row r of an expert's w13: [gate | up], or gate and up in turn.
W13(l, r) ==
    IF l.interleaved THEN [of |-> IF r % 2 = 0 THEN "gate" ELSE "up", lane |-> r \div 2]
    ELSE [of |-> IF r < l.inter THEN "gate" ELSE "up", lane |-> r % l.inter]

\* As [gate | up] halves.
deinterleave_gate_up(l, r) ==
    IF l.interleaved THEN W13(l, IF r < l.inter THEN 2 * r ELSE 2 * (r - l.inter) + 1) ELSE W13(l, r)

Wide(l) == RoundUp(l.inter, Stick)

\* Entry [e, h, m] of the gate or up pool and [e, m, h] of the down pool, transposed and padded.
GatePool(l, half) ==
    [i \in (0 .. l.experts - 1) \X (0 .. l.hidden - 1) \X (0 .. Wide(l) - 1) |->
        IF i[3] >= l.inter THEN Zero
        ELSE <<i[1], i[2], deinterleave_gate_up(l, half * l.inter + i[3])>>]
DownPool(l) ==
    [i \in (0 .. l.experts - 1) \X (0 .. Wide(l) - 1) \X (0 .. l.hidden - 1) |->
        IF i[2] >= l.inter THEN Zero ELSE <<i[1], i[3], i[2]>>]

-----------------------------------------------------------------------------
(* Device memory *)

\* [E, C, F // stick, stick]: contract axis outside the sticks of the free one.
RowMajor(contract, free, i) == (i[1] * contract + i[2]) * free + i[3]

\* [E, F // stick, C, stick]: sticks of the free axis outside the contract one.
_expert_kernel_layout(contract, free, i) ==
    ((i[1] * (free \div Stick) + (i[3] \div Stick)) * contract + i[2]) * Stick + (i[3] % Stick)

\* Entry of the aliases [E * chunks, H / chunks, M] and [E * chunks, M, H / chunks]: the pool
\* entry at the same address.
_chunk_pool_alias(l, chunks, i) ==
    LET a == RowMajor(l.hidden \div chunks, Wide(l), i)
    IN <<a \div (l.hidden * Wide(l)), (a \div Wide(l)) % l.hidden, a % Wide(l)>>

\* A plausible bug: the down pool is taken to be laid out as the others.
DownAliasRowMajor(l, chunks, i) ==
    LET a == RowMajor(Wide(l), l.hidden \div chunks, i)
        stick == a \div (Wide(l) * Stick)
        sticks == l.hidden \div Stick
    IN <<stick \div sticks, (a \div Stick) % Wide(l), (stick % sticks) * Stick + (a % Stick)>>

_down_chunk_pool_alias(l, chunks, i) ==
    LET a == _expert_kernel_layout(Wide(l), l.hidden \div chunks, i)
        stick == a \div (Wide(l) * Stick)
        sticks == l.hidden \div Stick
    IN <<stick \div sticks, (a \div Stick) % Wide(l), (stick % sticks) * Stick + (a % Stick)>>

-----------------------------------------------------------------------------
(* The kernels: output column h of a token, as the products it sums *)

\* Expert e's activation lane m: which inputs meet which gate and up weights.
Gathered(l, chunks, half, e, m) ==
    UNION {{<<c * (l.hidden \div chunks) + r,
              GatePool(l, half)[_chunk_pool_alias(l, chunks, <<e * chunks + c, r, m>>)]>> :
                 r \in 0 .. l.hidden \div chunks - 1} : c \in 0 .. chunks - 1}
Whole(l, half, e, m) == {<<h, GatePool(l, half)[<<e, h, m>>]>> : h \in 0 .. l.hidden - 1}

Product(gate, up, down) == [gate |-> gate, up |-> up, down |-> down]
Live(products) == {p \in products : p.down # Zero}

_moe_gathered(l, chunks, selected, h) ==
    LET slice == l.hidden \div chunks  c == h \div slice
    IN [e \in selected |->
          Live({Product(Gathered(l, chunks, 0, e, m), Gathered(l, chunks, 1, e, m),
                        DownPool(l)[_down_chunk_pool_alias(l, chunks, <<e * chunks + c, m, h % slice>>)]) :
                   m \in 0 .. Wide(l) - 1})]

_moe_persistent(l, selected, h) ==
    [e \in selected |->
        Live({Product(Whole(l, 0, e, m), Whole(l, 1, e, m), DownPool(l)[<<e, m, h>>]) :
                 m \in 0 .. Wide(l) - 1})]

\* What an expert's published layer computes: each lane's own weights.
Expert(l, e, h) ==
    {Product({<<i, <<e, i, [of |-> "gate", lane |-> m]>>>> : i \in 0 .. l.hidden - 1},
             {<<i, <<e, i, [of |-> "up", lane |-> m]>>>> : i \in 0 .. l.hidden - 1},
             <<e, h, m>>) : m \in 0 .. l.inter - 1}

\* Chunk entry of the down bias a gathered part adds, as [expert, column].
down_chunks(l, chunks, e, h) ==
    LET slice == l.hidden \div chunks  a == (e * chunks + h \div slice) * slice + (h % slice)
    IN <<a \div l.hidden, a % l.hidden>>

\* Which kernel a batch runs: aligned batches within the block's graph, few tokens gathered
\* (rows one by one, if their offsets can be baked in), the rest persistent.
apply_monolithic(tokens, compiled, addressable) ==
    IF compiled /\ tokens % Stick = 0 THEN "in_graph"
    ELSE IF tokens = 1 THEN "gathered"
    ELSE IF tokens <= GatheredMaxTokens /\ addressable THEN "gathered_batch"
    ELSE "experts"

Computed(l, form, e, h) ==
    IF form \in {"gathered", "gathered_batch"}
    THEN _moe_gathered(l, _derive_moe_chunks(l.hidden, l.topk), {e}, h)[e]
    ELSE _moe_persistent(l, {e}, h)[e]

\* Whatever form a batch runs in, an expert's output is the published one, and the gathered one
\* adds each column its own down bias.
MoeAnswersAgree(l) ==
    LET forms == {apply_monolithic(tokens, compiled, addressable) :
                     tokens \in 1 .. 2 * Stick, compiled \in BOOLEAN, addressable \in BOOLEAN}
    IN \A e \in 0 .. l.experts - 1, h \in 0 .. l.hidden - 1 :
          /\ \A form \in forms : Computed(l, form, e, h) = Expert(l, e, h)
          /\ down_chunks(l, _derive_moe_chunks(l.hidden, l.topk), e, h) = <<e, h>>
=============================================================================
