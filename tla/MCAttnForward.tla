--------------------------- MODULE MCAttnForward ---------------------------
(* AttnForward on up to eight decodes and two prompts, split into groups.   *)
(* With nine staging rows, max_num_batched_tokens = max_num_seqs = 8, the   *)
(* padding of a group of five fits above five decodes but not above eight.  *)
EXTENDS AttnForward, FiniteSets

MCSeqsBuckets  == {1, 2, 4, 8}
MCTokenBuckets == {1, 3, 6, 8}

\* decodes one-token sequences, then the prompts.
Batch(decodes, prompts) ==
    [num_seqs |-> decodes + Len(prompts), num_decode_seqs |-> decodes,
     query_start_loc |-> [s \in 0..(decodes + Len(prompts)) |->
        IF s <= decodes THEN s
        ELSE decodes + prompts[1] + (IF s = decodes + 2 THEN prompts[2] ELSE 0)]]

MCBatches ==
    {b \in {Batch(d, p) : d \in {0, 1, 2, 3, 5, 6, 8}, p \in {<<>>, <<2>>, <<1, 1>>}} :
        NumTokens(b) \in 1..8}

\* The rows of a split in two groups: which of d rows go first, in either order.
Sorted(S) ==
    [k \in 1..Cardinality(S) |-> CHOOSE x \in S : Cardinality({y \in S : y < x}) = k - 1]

SplitsOf(sizes) ==
    {<<Sorted(g), Sorted((0..(d - 1)) \ g)>> :
        <<d, g>> \in {<<d, g>> \in sizes \X SUBSET (0..7) :
                        g # {} /\ g \subseteq 0..(d - 1) /\ g # 0..(d - 1)}}

MCGroupings == SplitsOf({2, 3, 5, 6, 8})
============================================================================
