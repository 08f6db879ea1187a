-------------------------- MODULE MCPagedAttention --------------------------
(* Blocks of two tokens, contexts of up to four blocks, seven blocks beside  *)
(* the null block for three requests; layers of one and two heads, of both   *)
(* layouts, with and without a window, batched or not.                       *)
EXTENDS PagedAttention

Layer(heads, window, headMajor) ==
    [heads |-> heads, window |-> window, causal |-> TRUE, headMajor |-> headMajor,
     tiled |-> headMajor, batched |-> TRUE, compiled |-> TRUE]

MCLayers ==
    {Layer(2, 0, FALSE), Layer(2, 4, FALSE), Layer(2, 0, TRUE), Layer(1, 3, TRUE),
     [Layer(2, 2, TRUE) EXCEPT !.batched = FALSE],
     [Layer(1, 3, FALSE) EXCEPT !.causal = FALSE, !.compiled = FALSE]}

MCPrompt == <<5, 2, 1>>
MCLength == <<7, 4, 3>>
MCQueryBuckets == {1, 4, 6}
MCBlocksBuckets == {1, 2, 4}
MCSeqsBuckets == {1, 2, 4}
MCBodySizes == {6}
MCChunkSizes == {2, 5}
============================================================================
