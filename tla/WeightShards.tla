---------------------------- MODULE WeightShards ----------------------------
(***************************************************************************)
(* Weights sharded over the ranks of a tensor-parallel group and padded    *)
(* for the device: gated MLPs, the vocabulary tables, the logits' gather.  *)
(* Ranks, rows and columns count from 0; a row holds the checkpoint's row  *)
(* it comes from, or is Zero.                                              *)
(***************************************************************************)
EXTENDS PaddedHeads

CONSTANTS
    RowAlign,     \* rows of a projection to the vocabulary
    PadRows       \* of a short block of tokens

ASSUME RowAlignAssumption == RowAlign \in Nat \ {0} /\ PadRows \in Nat

Lanes(n) == [i \in 0 .. n - 1 |-> i]
PadEnd(w, n) == [r \in 0 .. n - 1 |-> IF r < Rows(w) THEN w[r] ELSE Zero]
Ranks(tp) == 0 .. tp - 1
Shard(w, rank, tp) == Narrow(w, rank * (Rows(w) \div tp), Rows(w) \div tp)

-----------------------------------------------------------------------------
(* Gated MLPs *)

\* Widths the model builds that a tensor of so many equal parts has.
Fits(w, parts, orig, multipliers) == {m \in multipliers : Rows(w) = parts * m * orig}

\* A plausible bug: a fused tensor is padded behind both its halves.
FusedPaddedBehind(fused, w, orig, padded, multipliers) ==
    LET parts == IF fused THEN 2 ELSE 1  fits == Fits(w, parts, orig, multipliers)
    IN IF fits = {} THEN w ELSE PadEnd(w, parts * (CHOOSE m \in fits : TRUE) * padded)

\* A gate, up or fused gate_up tensor, or the columns of down.
_pad_weight(fused, w, orig, padded, multipliers) ==
    LET Wide(parts) == (CHOOSE m \in Fits(w, parts, orig, multipliers) : TRUE) * padded
        half == Rows(w) \div 2
    IN IF fused /\ Fits(w, 2, orig, multipliers) # {}
       THEN Cat(PadEnd(Narrow(w, 0, half), Wide(2)), PadEnd(Narrow(w, half, half), Wide(2)))
       ELSE IF Fits(w, 1, orig, multipliers) # {} THEN PadEnd(w, Wide(1))
       ELSE w

\* gate and up shards of a rank and its columns of down: the same lanes in the same places, and
\* over all ranks each lane of the checkpoint once.
SameLanes(gate, up, down, ranks, n) ==
    /\ gate = up /\ up = down
    /\ \A i \in 0 .. n - 1 :
          Cardinality({p \in ranks \X DOMAIN gate[0] : gate[p[1]][p[2]] = i}) = 1

-----------------------------------------------------------------------------
(* The vocabulary *)

\* Both tables of a tied model agree on it.
PaddingSize(tp) == Stick * tp

\* The rows of a table of v words, as every rank's loader fills them.
Table(v, tp) == PadEnd(Lanes(v), RoundUp(v, PaddingSize(tp)))

OwnWords(v, rank, tp) ==
    LET n == Rows(Table(v, tp)) \div tp IN {w \in 0 .. v - 1 : w \div n = rank}

\* What a rank looks up for a word, and whether it keeps it.
reindex_table(v, rank, tp) ==
    [w \in 0 .. v - 1 |-> IF w \in OwnWords(v, rank, tp) THEN w % (Rows(Table(v, tp)) \div tp) ELSE 0]
keep_table(v, rank, tp) == [w \in 0 .. v - 1 |-> w \in OwnWords(v, rank, tp)]

\* All ranks' contributions to the embedding of a word.
Embedded(w, v, tp) ==
    {<<rank, Shard(Table(v, tp), rank, tp)[reindex_table(v, rank, tp)[w]]>> :
        rank \in {r \in Ranks(tp) : keep_table(v, r, tp)[w]}}

\* The projection to a rank's words: padded for the product, sliced from the end.
ProjectedHead(w) ==
    LET padded == PadEnd(w, RoundUp(Rows(w), RowAlign))  padding == Rows(padded) - Rows(w)
    IN IF padding > 0 THEN Narrow(padded, 0, Rows(padded) - padding) ELSE padded

\* The device moves whole chunks: of any other part the tail goes and later ranks are shifted.
DeviceGather(parts) ==
    LET n == Rows(parts[0])  whole == (n \div Stick) * Stick
    IN [i \in 0 .. Cardinality(DOMAIN parts) * n - 1 |->
           IF n = whole THEN parts[i \div n][i % n]
           ELSE IF i \div whole \in DOMAIN parts THEN parts[i \div whole][i % whole]
           ELSE Zero]

\* Eager: parts of any size, padded for the transfer and stripped of it.
all_gather(parts) ==
    LET n == Rows(parts[0])  pad == RoundUp(n, Stick)
        gathered == DeviceGather([r \in DOMAIN parts |-> PadEnd(parts[r], pad)])
    IN [i \in 0 .. Cardinality(DOMAIN parts) * n - 1 |-> gathered[(i \div n) * pad + (i % n)]]

\* The collective's output: ranks one after another, each its tokens' rows.
Flat(parts, tokens) ==
    LET n == Rows(parts[0])
    IN [i \in 0 .. Cardinality(DOMAIN parts) * tokens * n - 1 |->
           <<(i % (tokens * n)) \div n, parts[i \div (tokens * n)][i % n]>>]

\* A plausible bug: the ranks' axis is not moved to the gathered one.
GatheredUnfolded(parts, tokens) ==
    LET n == Rows(parts[0])
    IN [e \in (0 .. tokens - 1) \X (0 .. Cardinality(DOMAIN parts) * n - 1) |->
           Flat(parts, tokens)[e[1] * Cardinality(DOMAIN parts) * n + e[2]]]

\* Compiled: folded out to the columns of the tokens' rows.
_all_gather_compiled(parts, tokens) ==
    LET n == Rows(parts[0])
    IN [e \in (0 .. tokens - 1) \X (0 .. Cardinality(DOMAIN parts) * n - 1) |->
           Flat(parts, tokens)[(e[2] \div n) * tokens * n + e[1] * n + (e[2] % n)]]

\* Rows of the product when short blocks are padded: those of the tokens come back.
spyre_linear_t(tokens, pads) ==
    LET x == IF pads /\ tokens \in 1 .. PadRows - 1 THEN PadEnd(Lanes(tokens), PadRows) ELSE Lanes(tokens)
    IN IF Rows(x) # tokens THEN Narrow(x, 0, tokens) ELSE x
=============================================================================
