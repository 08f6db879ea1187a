--------------------------- MODULE MCAttnServing ---------------------------
(* AttnServing on a four-sequence engine of 16 pages of context and four    *)
(* cores, small enough that long and short decodes part into groups.        *)
EXTENDS AttnServing

MCQueryBuckets  == {1, 4, 8}
MCBlocksBuckets == {1, 2, 4, 8, 16}
MCSeqsBuckets   == {1, 2, 4}
MCDenseBuckets  == {1, 2, 3, 4, 5, 6, 8, 9, 10, 12, 16}

Decode(kv)     == [q |-> 1, kv |-> kv, prefilling |-> FALSE]
LastToken(kv)  == [q |-> 1, kv |-> kv, prefilling |-> TRUE]
Prefill(q, kv) == [q |-> q, kv |-> kv, prefilling |-> TRUE]

DecodeLens == {1, 5, 19, 32}
Prompts    == {LastToken(7), Prefill(2, 2), Prefill(5, 5), Prefill(5, 31)}

DecodeOnly == UNION {[1..n -> {Decode(kv) : kv \in DecodeLens}] : n \in 1..4}
Mixed      == {Append(b, p) : b \in {<<>>} \cup {c \in DecodeOnly : Len(c) < 4}, p \in Prompts}
MCBatches  == DecodeOnly \cup Mixed
============================================================================
