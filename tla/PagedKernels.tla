---------------------------- MODULE PagedKernels ----------------------------
(***************************************************************************)
(* What an attention kernel reads and what it is told to hide, down to the *)
(* flat memory of the paged cache: the two layouts and their store index,  *)
(* the mask tiles and page tables the metadata builder makes, and the      *)
(* three kernels (one sequence, one sequence over a folded cache, batched  *)
(* decode).                                                                *)
(*                                                                         *)
(* A layer l is [heads, window, causal, headMajor, tiled, batched,         *)
(* compiled]: KV heads, sliding window (0: none), whether its group is     *)
(* causal, the layout, SPYRE_ATTN_FOR_EACH_TILE, SPYRE_BATCHED_DECODE and  *)
(* STOCK_TORCH_COMPILE.  A sequence s of a step is [q, kv, row, start]:    *)
(* its query tokens, its KV tokens with them, its row of the block table   *)
(* (whatever its columns hold) and its first row in the batch.             *)
(*                                                                         *)
(* A mask adds 0, the least number ("min") or -inf.  Softmax keeps the     *)
(* places at 0; with none it averages those at "min"; with none of these   *)
(* either it is not a number.                                              *)
(***************************************************************************)
EXTENDS Integers, FiniteSets, Sequences

CONSTANTS
    BlockSize, NumBlocks,   \* of the cache; block 0 is the null block
    MaxModelLen,
    StagingRows,            \* max_num_batched_tokens + 1
    CoreCount,              \* _SPYRE_CORE_COUNT
    QueryBuckets, BlocksBuckets, SeqsBuckets

None == 0
LeastOf(S)    == CHOOSE n \in S : \A m \in S : n <= m
GreatestOf(S) == CHOOSE n \in S : \A m \in S : m <= n
Smaller(a, b) == IF a <= b THEN a ELSE b
Larger(a, b)  == IF a <= b THEN b ELSE a
CeilDiv(a, b) == (a + b - 1) \div b

ASSUME KernelAssumption ==
    /\ BlockSize \in Nat \ {0} /\ NumBlocks \in Nat \ {0} /\ MaxModelLen \in Nat \ {0}
    /\ StagingRows \in Nat \ {0} /\ CoreCount \in Nat \ {0}
    /\ QueryBuckets \subseteq Nat \ {0} /\ BlocksBuckets \subseteq Nat \ {0}
    /\ SeqsBuckets \subseteq Nat \ {0}
    /\ \E n \in BlocksBuckets : MaxModelLen <= n * BlockSize

Offsets == 0..(BlockSize - 1)
Width   == CeilDiv(MaxModelLen, BlockSize)    \* of a block table

RoundUp(n, buckets) ==
    LET fit == {b \in buckets : n <= b} IN IF fit = {} THEN None ELSE LeastOf(fit)

-----------------------------------------------------------------------------
(* Memory: where head h of the token in place o of block b lies. *)

Token_major(l, b, h, o) == (b * BlockSize + o) * l.heads + h
Head_major(l, b, h, o)  == (b * l.heads + h) * BlockSize + o
LiesAt(l, b, h, o)      == IF l.headMajor THEN Head_major(l, b, h, o) ELSE Token_major(l, b, h, o)

\* The slot views have a row per token, or per (block, head, token).
kv_write_index(l, slot, h) ==
    IF l.headMajor
    THEN (slot \div BlockSize) * l.heads * BlockSize + (slot % BlockSize) + h * BlockSize
    ELSE slot * l.heads + h

Addresses(l) == 0..(NumBlocks * BlockSize * l.heads - 1)

\* One index_copy_ per head or one for all of them: of the tokens stored to one
\* place any may stay.
reshape_and_cache(l, memory, slots, keys) ==
    [a \in Addresses(l) |->
        LET stored == {e \in (DOMAIN slots) \X (0..(l.heads - 1)) :
                          kv_write_index(l, slots[e[1]], e[2]) = a}
        IN  IF stored = {} THEN memory[a] ELSE {Append(keys[e[1]], e[2]) : e \in stored}]

\* A row of the pool names a page's rows of the cache folded to
\* [blocks * heads, block_size].
kv_row_pool(l, b, h) == b * l.heads + h
Folded(row, o) == row * BlockSize + o

-----------------------------------------------------------------------------
(* SpyreAttentionMetadataBuilder: sizes. *)

\* With one head on one page the head-major kernel would not compile.
NumBlocksBuckets(l) ==
    IF l.headMajor /\ l.heads = 1 THEN {Larger(2, n) : n \in BlocksBuckets} ELSE BlocksBuckets

aligned_query_len(q) == IF q <= 1 THEN 1 ELSE RoundUp(q, QueryBuckets)

pad_num_blocks(l, n) == IF n = 0 THEN 0 ELSE RoundUp(n, NumBlocksBuckets(l))

max_active_blocks(l, blocks, aligned) ==
    IF blocks = 0 THEN 0
    ELSE Smaller(blocks, CeilDiv(l.window + aligned - 1, BlockSize) + 1)

-----------------------------------------------------------------------------
(* Mask tiles: the <<query row, offset>> at 0; the rest is at "min".  A      *)
(* padded row repeats the last real one.                                     *)

Cells(aligned) == (0..(aligned - 1)) \X Offsets
Place(s, i)    == s.kv - s.q + Smaller(i, Larger(s.q - 1, 0))

build_attention_mask(s, b, causal, aligned) ==
    {c \in Cells(aligned) :
        LET pos == b * BlockSize + c[2]
        IN  pos < s.kv /\ (causal => pos <= Place(s, c[1]))}

build_single_tile(l, s, b, causal, aligned) ==
    {c \in build_attention_mask(s, b, causal, aligned) :
        b * BlockSize + c[2] >= Larger(0, Place(s, c[1]) - l.window + 1)}

zero_tile(aligned) == Cells(aligned)
masked_tile        == {}

\* A plausible bug: the last query's window decides which blocks are dropped.
first_active_of_last(l, s) == Larger(0, s.kv - l.window) \div BlockSize

first_active(l, s) == Larger(0, s.kv - s.q - l.window + 1) \div BlockSize

\* Inside every query's window, below every query's causal limit, and full.
is_interior(l, s, b, causal) ==
    /\ b > Larger(0, s.kv - l.window) \div BlockSize
    /\ b < CeilDiv(s.kv, BlockSize) - 1
    /\ causal => b <= (s.kv - s.q + 1) \div BlockSize - 1

active_tiles(l, s, causal, aligned) ==
    LET n == CeilDiv(s.kv, BlockSize) - first_active(l, s)
    IN  [i \in 1..n |->
            LET b == first_active(l, s) + i - 1
            IN  [block |-> b,
                 shown |-> IF is_interior(l, s, b, causal) THEN zero_tile(aligned)
                           ELSE build_single_tile(l, s, b, causal, aligned)]]

\* Padding repeats the last active block under a tile that hides all of it.
pad_tiles(tiles, n, aligned) ==
    tiles \o [i \in 1..(n - Len(tiles)) |->
                 [block |-> tiles[Len(tiles)].block, shown |-> masked_tile]]

\* attention_mask_stacks, each tile with the page the index table gives it.  A
\* table one column wide is broadcast over a stack of two.
mask_stack(l, s, causal) ==
    LET aligned == aligned_query_len(s.q)
        blocks  == pad_num_blocks(l, CeilDiv(s.kv, BlockSize))
        tiles   ==
            IF l.window = 0
            THEN [i \in 1..blocks |->
                     [block |-> IF Width = 1 THEN 0 ELSE i - 1,
                      shown |-> build_attention_mask(s, i - 1, causal /\ aligned > 1, aligned)]]
            ELSE pad_tiles(active_tiles(l, s, causal /\ aligned > 1, aligned),
                           max_active_blocks(l, blocks, aligned), aligned)
    IN  [i \in DOMAIN tiles |-> [page |-> s.row[tiles[i].block], shown |-> tiles[i].shown]]

-----------------------------------------------------------------------------
(* Softmax over a walk: what a query row of a head attended to, and how many *)
(* places that took.                                                         *)

Result(h, query, places, memory) ==
    [head |-> h, query |-> query, seen |-> {memory[p[2]] : p \in places},
     count |-> Cardinality(places)]

NotANumber(h, query) == [head |-> h, query |-> query, seen |-> {}, count |-> -1]

\* The slots of a stack that a query row is shown.
ShownSlots(stack, i) == {p \in (DOMAIN stack) \X Offsets : <<i, p[2]>> \in stack[p[1]].shown}

WalkedSlots(stack, i) ==
    IF ShownSlots(stack, i) = {} THEN (DOMAIN stack) \X Offsets ELSE ShownSlots(stack, i)

\* The row a query row stores: a padded one that of the last real one.
StoredRow(s, i) == s.start + Smaller(i, Larger(s.q - 1, 0))

\* One sequence's kernel, given what it reads at slots of its stack: <<row,
\* result>> for every row stored.
PageWalk(l, s, stack, query, memory, Read(_, _, _, _)) ==
    {<<StoredRow(s, i),
       Result(h, query[StoredRow(s, i)], Read(l, stack, h, WalkedSlots(stack, i)), memory)>>
        : i \in 0..(aligned_query_len(s.q) - 1), h \in 0..(l.heads - 1)}

by_token(l, stack, h, S) == {<<p, Token_major(l, stack[p[1]].page, h, p[2])>> : p \in S}
by_head(l, stack, h, S)  == {<<p, Head_major(l, stack[p[1]].page, h, p[2])>> : p \in S}
by_folded_row(l, stack, h, S) == {<<p, Folded(kv_row_pool(l, stack[p[1]].page, h), p[2])>> : p \in S}

page_attn_kernel(l, s, stack, query, memory) ==
    PageWalk(l, s, stack, query, memory, by_token)

page_attn_head_major_prefill_kernel(l, s, stack, query, memory) ==
    PageWalk(l, s, stack, query, memory, by_head)

page_attn_head_major_decode_kernel(l, s, stack, query, memory) ==
    PageWalk(l, s, stack, query, memory, by_folded_row)

_run_page_attn(l, s, stack, query, memory) ==
    IF ~l.headMajor THEN page_attn_kernel(l, s, stack, query, memory)
    ELSE IF aligned_query_len(s.q) > 1
         THEN page_attn_head_major_prefill_kernel(l, s, stack, query, memory)
         ELSE page_attn_head_major_decode_kernel(l, s, stack, query, memory)

-----------------------------------------------------------------------------
(* Batched decode of the leading n sequences. *)

blocks_of(l, s) == IF l.window = 0 THEN CeilDiv(s.kv, BlockSize) ELSE Len(mask_stack(l, s, FALSE))

batched_sizes(l, seqs, n) ==
    LET padded == RoundUp(n, SeqsBuckets)
        blocks == RoundUp(GreatestOf({blocks_of(l, seqs[s]) : s \in 1..n}), NumBlocksBuckets(l))
        chunk  == Larger(1, Smaller(CoreCount \div padded, blocks))
    IN  [seqs |-> padded, blocks |-> blocks, chunk |-> chunk,
         rows |-> CeilDiv(blocks, chunk) * chunk]

\* One extent of whole tiles on both walks; the token-major walk has no tiled form.
batched_decode_supported(l) == l.batched /\ (l.tiled => l.headMajor) /\ l.compiled

batched_preconditions(l, seqs, n) ==
    /\ batched_decode_supported(l)
    /\ n > 0 /\ RoundUp(n, SeqsBuckets) # None
    /\ LET z == batched_sizes(l, seqs, n) IN z.blocks # None /\ z.seqs * z.chunk < NumBlocks

padding_mask(b) == IF b = 1 THEN "min" ELSE "inf"

\* Entry (b, s): the page gathered, and what hides each of its places.
batched_entry(l, seqs, n, z, b, s) ==
    IF s > n THEN [page |-> 0, shown |-> {}, hidden |-> padding_mask(b)]
    ELSE LET stack == mask_stack(l, seqs[s], FALSE)
             used  == Smaller(blocks_of(l, seqs[s]), z.blocks)
         IN  IF b > used THEN [page |-> 0, shown |-> {}, hidden |-> "inf"]
             ELSE [page |-> stack[b].page, hidden |-> "min",
                   shown |-> {o \in Offsets : <<0, o>> \in stack[b].shown}]

Slots(z)        == (1..z.rows) \X Offsets
At(entry, S, l, h) == {<<p, LiesAt(l, entry[p[1]].page, h, p[2])>> : p \in S}
Lit(entry, z)   == {p \in Slots(z) : p[2] \in entry[p[1]].shown}
Low(entry, z)   == {p \in Slots(z) : entry[p[1]].hidden = "min"}

\* Chunk by chunk with a running maximum, which the first chunk must make finite.
batched_decode_kernel(l, entry, z, h, query, memory) ==
    LET lit   == Lit(entry, z)
        low   == Low(entry, z)
    IN  IF {p \in lit \cup low : p[1] <= z.chunk} = {} THEN NotANumber(h, query)
        ELSE Result(h, query, At(entry, IF lit # {} THEN lit ELSE low, l, h), memory)

\* With several chunks, a maximum per slot, raised to "min".
_entry_local_update(entry, z) ==
    LET lit == Lit(entry, z) IN IF lit # {} THEN lit ELSE Slots(z)

batched_decode_head_major_kernel(l, entry, z, h, query, memory) ==
    IF z.rows > z.chunk
    THEN Result(h, query, At(entry, _entry_local_update(entry, z), l, h), memory)
    ELSE batched_decode_kernel(l, entry, z, h, query, memory)

_run_batched_decode(l, seqs, n, z, s, h, query, memory) ==
    LET entry == [b \in 1..z.rows |-> batched_entry(l, seqs, n, z, b, s)]
    IN  IF l.headMajor THEN batched_decode_head_major_kernel(l, entry, z, h, query, memory)
        ELSE batched_decode_kernel(l, entry, z, h, query, memory)

\* The kernel stores all its rows, or returns them and the real ones are copied.
batched_decode(l, seqs, n, query, memory) ==
    LET z == batched_sizes(l, seqs, n)
    IN  {<<s - 1, _run_batched_decode(l, seqs, n, z, s, h, query[IF s <= n THEN seqs[s].start ELSE 0], memory)>>
            : s \in 1..(IF z.seqs <= StagingRows THEN z.seqs ELSE n), h \in 0..(l.heads - 1)}
============================================================================
