---------------------------- MODULE AttnServing ----------------------------
(***************************************************************************)
(* Attention kernels: what warmup records and what serving dispatches.     *)
(*                                                                         *)
(* torch.compile specialises an attention kernel on a few integers (its    *)
(* key) and compiles on the first call with a new key.  Warmup runs one    *)
(* recording per variant the bucketer lists; afterwards every step builds  *)
(* its metadata, picks a path (one batched call per length group, one      *)
(* batched call, or one call per sequence) and reaches some keys.  A key   *)
(* that warmup did not record compiles inside a request.                   *)
(*                                                                         *)
(* SpyreAttnBucketer gives the buckets, SpyreAttentionMetadataBuilder the  *)
(* padded sizes and the groups, SpyreAttentionImpl the recorder and the    *)
(* dispatch.  Sorted lists of buckets are sets; `None' is 0.               *)
(***************************************************************************)
EXTENDS Integers, FiniteSets, Sequences

CONSTANTS
    BlockSize,       \* tokens per KV page
    NumPages,        \* pages of the allocated KV cache
    CoreCount,       \* _SPYRE_CORE_COUNT
    GroupCost,       \* _GROUP_DISPATCH_CHUNKS
    Window,          \* sliding window of the layer, 0 if it has none
    BatchedDecode,   \* _batched_decode_supported()
    JaggedDecode,    \* SPYRE_JAGGED_DECODE
    QueryBuckets,    \* _query_buckets
    BlocksBuckets,   \* _num_blocks_buckets
    SeqsBuckets,     \* _num_seqs_buckets
    DenseBuckets,    \* _large_batch_blocks_buckets
    DenseMinSeqs,    \* SPYRE_ATTN_LARGE_BATCH_MIN_SEQS
    MaxModelLen, MaxNumBatchedTokens, MaxNumSeqs,
    Batches,         \* the batches the scheduler may send
    MaxFailures      \* bound: recordings that raise

None == 0
MaxOf(S) == CHOOSE m \in S : \A x \in S : x <= m
MinOf(S) == CHOOSE m \in S : \A x \in S : m <= x
Larger(a, b) == IF a >= b THEN a ELSE b
Smaller(a, b) == IF a <= b THEN a ELSE b
CeilDiv(a, b) == (a + b - 1) \div b

(* A request of a batch: query tokens, KV tokens with them, still in its prompt. *)
Requests == [q : Nat \ {0}, kv : Nat \ {0}, prefilling : BOOLEAN]

Buckets == SUBSET (Nat \ {0})

\* The buckets cover the engine's limits, and the scheduler keeps to them.
ASSUME ServingAssumption ==
    /\ BlockSize \in Nat \ {0} /\ NumPages \in Nat /\ CoreCount \in Nat \ {0}
    /\ GroupCost \in Nat /\ Window \in Nat /\ DenseMinSeqs \in Nat /\ MaxFailures \in Nat
    /\ MaxModelLen \in Nat /\ MaxNumBatchedTokens \in Nat /\ MaxNumSeqs \in Nat
    /\ BatchedDecode \in BOOLEAN /\ JaggedDecode \in BOOLEAN
    /\ QueryBuckets \in Buckets /\ BlocksBuckets \in Buckets
    /\ SeqsBuckets \in Buckets /\ DenseBuckets \in Buckets
    /\ BlocksBuckets \subseteq DenseBuckets
    /\ \E n \in QueryBuckets : MaxNumBatchedTokens <= n
    /\ \E n \in BlocksBuckets : MaxModelLen <= n * BlockSize
    /\ \E n \in SeqsBuckets : MaxNumSeqs <= n

\* A batch is never empty.  Its tokens together stay within MaxNumBatchedTokens;
\* only what that says of each request is needed.
ASSUME BatchAssumption ==
    /\ Batches \subseteq Seq(Requests)
    /\ \A b \in Batches :
          /\ Len(b) \in 1..MaxNumSeqs
          /\ \A s \in DOMAIN b :
                b[s].q <= b[s].kv /\ b[s].q <= MaxNumBatchedTokens /\ b[s].kv <= MaxModelLen

(***************************************************************************)
(* SpyreAttnBucketer.                                                      *)
(***************************************************************************)
RoundUp(n, buckets) ==
    LET fit == {b \in buckets : n <= b} IN IF fit = {} THEN None ELSE MinOf(fit)

\* Mutant: the bound on the bucket instead of on the smallest length it serves.
BucketItself(padded) == padded

\* The smallest query length that rounds up onto a bucket.
MinRealQueryLen(padded) ==
    IF \E b \in QueryBuckets : b < padded
    THEN MaxOf({b \in QueryBuckets : b < padded}) + 1 ELSE 1

Variants ==
    {v \in [num_blocks : BlocksBuckets, query : QueryBuckets] :
        MinRealQueryLen(v.query) <= v.num_blocks * BlockSize}

BatchedBlocksBuckets(seqs) ==
    IF seqs >= DenseMinSeqs THEN DenseBuckets ELSE BlocksBuckets

BatchedVariants ==
    IF BatchedDecode
    THEN {v \in [num_seqs : SeqsBuckets, num_blocks : DenseBuckets] :
             v.num_blocks \in BatchedBlocksBuckets(v.num_seqs)}
    ELSE {}

BlocksPerChunk(seqs, blocks) == Larger(1, Smaller(CoreCount \div seqs, blocks))

(***************************************************************************)
(* SpyreAttentionMetadataBuilder: padded sizes of one sequence.            *)
(***************************************************************************)
AlignedQuery(q) == IF q <= 1 THEN 1 ELSE RoundUp(q, QueryBuckets)

RealBlocks(kv) == CeilDiv(kv, BlockSize)
PadBlocks(n) == RoundUp(n, BlocksBuckets)

MaxActiveBlocks(blocks, aligned) ==
    Smaller(blocks, CeilDiv(Window + aligned - 1, BlockSize) + 1)

\* The block count the per-sequence kernel is called with.
KernelBlocks(kv, aligned) ==
    IF Window = 0 THEN PadBlocks(RealBlocks(kv))
    ELSE MaxActiveBlocks(PadBlocks(RealBlocks(kv)), aligned)

\* blocks_per_seq: what batched decode rounds up.
DecodeBlocks(kv) == IF Window = 0 THEN RealBlocks(kv) ELSE KernelBlocks(kv, 1)

(***************************************************************************)
(* Kernel keys.                                                            *)
(***************************************************************************)
PageKey(blocks, aligned) == [kernel |-> "page", num_blocks |-> blocks, query |-> aligned]

BatchedKey(seqs, blocks) ==
    LET bpc == BlocksPerChunk(seqs, blocks)
    IN  [kernel |-> "batched", num_seqs |-> seqs, blocks_per_chunk |-> bpc,
         num_chunks |-> CeilDiv(blocks, bpc)]

ScatterKey(seqs) == [kernel |-> "scatter", num_seqs |-> seqs]

\* A gather of the whole cache faults the device, so both sides keep below it.
FitsCache(key) == key.num_seqs * key.blocks_per_chunk < NumPages

SequenceKey(r) == PageKey(KernelBlocks(r.kv, AlignedQuery(r.q)), AlignedQuery(r.q))

(***************************************************************************)
(* SpyreAttentionMetadataBuilder.build: the decode prefix and its groups.  *)
(* A group is a set of positions of the batch b.                           *)
(***************************************************************************)

\* split_decodes_and_prefills: the leading one-token requests past their prompt.
DecodePrefix(b) ==
    {s \in DOMAIN b : \A t \in 1..s : b[t].q = 1 /\ ~b[t].prefilling}

MaxBlocks(b, rows) == MaxOf({DecodeBlocks(b[s].kv) : s \in rows})

SeqsFor(rows) == RoundUp(Cardinality(rows), SeqsBuckets)

SingleBlocks(b, rows) == RoundUp(MaxBlocks(b, rows), BatchedBlocksBuckets(SeqsFor(rows)))
SingleKey(b, rows) == BatchedKey(SeqsFor(rows), SingleBlocks(b, rows))

GroupBlocks(b, rows) == PadBlocks(MaxBlocks(b, rows))
GroupKey(b, rows) == BatchedKey(SeqsFor(rows), GroupBlocks(b, rows))

\* by_bucket, widest bucket first.
RowsByBucket(b, rows) ==
    LET bucket(s) == PadBlocks(DecodeBlocks(b[s].kv))
        used == {bucket(s) : s \in rows}
        rank(n) == Cardinality({m \in used : m >= n})
    IN  [i \in 1..Cardinality(used) |-> {s \in rows : rank(bucket(s)) = i}]

WorthMerging(b, g, h) ==
    GroupKey(b, g \cup h).num_chunks
      <= GroupKey(b, g).num_chunks + GroupKey(b, h).num_chunks + GroupCost

\* Neighbouring groups worth merging, by the position of the first.
MergeablePairs(b, groups) ==
    {i \in 1..(Len(groups) - 1) : WorthMerging(b, groups[i], groups[i + 1])}

\* Mutant: the union replaces the first of the pair and the second stays.
KeepSecondHalf(b, groups) ==
    LET pairs == MergeablePairs(b, groups)
    IN  IF pairs = {} THEN groups
        ELSE LET i == CHOOSE i \in pairs : \A j \in pairs : i <= j
             IN  [groups EXCEPT ![i] = groups[i] \cup groups[i + 1]]

\* One pass of the merge loop.
MergePass(b, groups) ==
    LET pairs == MergeablePairs(b, groups)
    IN  IF pairs = {} THEN groups
        ELSE LET i == CHOOSE i \in pairs : \A j \in pairs : i <= j
             IN  SubSeq(groups, 1, i - 1) \o <<groups[i] \cup groups[i + 1]>>
                   \o SubSeq(groups, i + 2, Len(groups))

\* The loop ends after at most one merge per initial group.
DecodeGroups(b, rows) ==
    LET first == RowsByBucket(b, rows)
        pass[k \in 0..Len(first)] ==
          IF k = 0 THEN first ELSE LET last == pass[k - 1] IN MergePass(b, last)
    IN  pass[Len(first)]

Uniform(b, rows) ==
    \A s, t \in rows : DecodeBlocks(b[s].kv) = DecodeBlocks(b[t].kv)

\* The groups build() attaches; it declines them if a size has no bucket.
GroupsOrNone(b, rows) ==
    IF ~JaggedDecode \/ Uniform(b, rows) THEN <<>>
    ELSE LET groups == DecodeGroups(b, rows)
         IN  IF /\ Len(groups) > 1
                /\ \A i \in DOMAIN groups :
                      SeqsFor(groups[i]) # None /\ GroupBlocks(b, groups[i]) # None
             THEN groups ELSE <<>>

(***************************************************************************)
(* SpyreAttentionImpl: the path a step takes, and the keys it reaches.     *)
(***************************************************************************)
NoPlan == [path |-> "none", groups |-> <<>>, loop |-> {}, keys |-> {}]

LoopKeys(b, rows) == {SequenceKey(b[s]) : s \in rows}

GroupKeys(b, groups) ==
    UNION {{GroupKey(b, groups[i]), ScatterKey(SeqsFor(groups[i]))} : i \in DOMAIN groups}

\* build() attaches the batched tensors only for a decode prefix that has buckets.
Eligible(b, rows) ==
    BatchedDecode /\ rows # {} /\ SeqsFor(rows) # None /\ SingleBlocks(b, rows) # None

Plan(b) ==
    LET rows   == DecodePrefix(b)
        rest   == DOMAIN b \ rows
        groups == IF Eligible(b, rows) THEN GroupsOrNone(b, rows) ELSE <<>>
    IN  IF groups # <<>> /\ \A i \in DOMAIN groups : FitsCache(GroupKey(b, groups[i]))
        THEN [path |-> "grouped", groups |-> groups, loop |-> rest,
              keys |-> GroupKeys(b, groups) \cup LoopKeys(b, rest)]
        ELSE IF Eligible(b, rows) /\ FitsCache(SingleKey(b, rows))
        THEN [path |-> "batched", groups |-> <<rows>>, loop |-> rest,
              keys |-> {SingleKey(b, rows)} \cup LoopKeys(b, rest)]
        ELSE [path |-> "loop", groups |-> <<>>, loop |-> DOMAIN b,
              keys |-> LoopKeys(b, DOMAIN b)]

(***************************************************************************)
(* Recording, then serving.                                                *)
(***************************************************************************)
VARIABLES
    phase,      \* "pages" | "batched" | "serve"
    todo,       \* variants of this phase not visited yet
    compiled,   \* keys that have a kernel
    lost,       \* keys whose recording raised
    late,       \* keys compiled inside a request
    batch,      \* the batch of this step
    plan        \* and how

vars == <<phase, todo, compiled, lost, late, batch, plan>>

Init ==
    /\ phase = "pages" /\ todo = Variants
    /\ compiled = {} /\ lost = {} /\ late = {}
    /\ batch = <<>> /\ plan = NoPlan

\* A recording compiles its key, or raises, is logged and skipped.
Record(key) ==
    \/ key \in compiled /\ UNCHANGED <<compiled, lost>>
    \/ key \notin compiled /\ compiled' = compiled \cup {key} /\ UNCHANGED lost
    \/ /\ key \notin compiled /\ Cardinality(lost) < MaxFailures
       /\ lost' = lost \cup {key} /\ UNCHANGED compiled

\* Mutant: the variant's own block count, not what the window leaves of it.
BlocksOfVariant(v) == PageKey(v.num_blocks, v.query)

\* The key build() realises for one sequence that fills num_blocks blocks.
VariantKey(v) == PageKey(KernelBlocks(v.num_blocks * BlockSize, v.query), v.query)

\* Largest first: more blocks, then the wider of the second axis.
Precedes(v, w, axis) ==
    \/ v.num_blocks > w.num_blocks
    \/ v.num_blocks = w.num_blocks /\ v[axis] >= w[axis]

RecordPages(v) ==
    /\ phase = "pages" /\ v \in todo /\ \A w \in todo : Precedes(v, w, "query")
    /\ IF v.num_blocks > NumPages THEN UNCHANGED <<compiled, lost>>
       ELSE Record(VariantKey(v))
    /\ todo' = todo \ {v}
    /\ UNCHANGED <<phase, late, batch, plan>>

PagesDone ==
    /\ phase = "pages" /\ todo = {}
    /\ phase' = "batched" /\ todo' = BatchedVariants
    /\ UNCHANGED <<compiled, lost, late, batch, plan>>

\* The key build() realises for num_seqs sequences that fill num_blocks blocks each.
RealizedKey(v) ==
    BatchedKey(v.num_seqs,
               RoundUp(DecodeBlocks(v.num_blocks * BlockSize), BatchedBlocksBuckets(v.num_seqs)))

RecordBatched(v) ==
    /\ phase = "batched" /\ v \in todo /\ \A w \in todo : Precedes(v, w, "num_seqs")
    /\ IF FitsCache(RealizedKey(v)) THEN Record(RealizedKey(v)) ELSE UNCHANGED <<compiled, lost>>
    /\ todo' = todo \ {v}
    /\ UNCHANGED <<phase, late, batch, plan>>

\* _record_group_scatter, and the end of warmup.
BatchedDone ==
    /\ phase = "batched" /\ todo = {}
    /\ phase' = "serve"
    /\ compiled' = IF BatchedDecode /\ JaggedDecode
                   THEN compiled \cup {ScatterKey(n) : n \in SeqsBuckets} ELSE compiled
    /\ UNCHANGED <<todo, lost, late, batch, plan>>

\* One engine step: its metadata, its dispatch, and the compiles on first use.
Serve(b) ==
    LET chosen == Plan(b)
    IN  /\ phase = "serve" /\ plan = NoPlan
        /\ batch' = b /\ plan' = chosen
        /\ late' = late \cup (chosen.keys \ compiled)
        /\ compiled' = compiled \cup chosen.keys
        /\ UNCHANGED <<phase, todo, lost>>

StepDone ==
    /\ phase = "serve" /\ plan # NoPlan
    /\ batch' = <<>> /\ plan' = NoPlan
    /\ UNCHANGED <<phase, todo, compiled, lost, late>>

Next ==
    \/ \E v \in todo : RecordPages(v) \/ RecordBatched(v)
    \/ PagesDone \/ BatchedDone
    \/ (\E b \in Batches : Serve(b)) \/ StepDone

Spec == Init /\ [][Next]_vars

(***************************************************************************)
(* Properties.                                                             *)
(***************************************************************************)
\* The worklist holds variants of the recorder that runs, and a plan names rows of its batch
\* (the theorem TypeCorrect).
TypeOK ==
    /\ phase \in {"pages", "batched", "serve"}
    /\ phase = "pages" => todo \subseteq Variants
    /\ phase = "batched" => todo \subseteq BatchedVariants
    /\ phase = "serve" => todo = {}
    /\ late \subseteq compiled
    /\ batch \in Batches \cup {<<>>}
    /\ batch = <<>> <=> plan = NoPlan
    /\ plan.loop \subseteq DOMAIN batch

\* Skipped by the recorder because the cache has fewer pages than blocks.
Oversize == {VariantKey(v) : v \in {w \in Variants : w.num_blocks > NumPages}}

\* A single token is never padded, and a list of query buckets given by
\* SPYRE_ATTN_QUERY_BUCKETS need not hold 1; see NoRequestCompiles.
UnlistedDecode(key) == 1 \notin QueryBuckets /\ key.kernel = "page" /\ key.query = 1

\* Length groups of a windowed layer round onto the base buckets while the
\* recorder realised only the dense ones; see NoRequestCompiles.
DenseWindowGroup(key) ==
    Window # 0 /\ JaggedDecode /\ DenseBuckets # BlocksBuckets /\ key.kernel = "batched"

\* A request compiles an attention kernel only where warmup tried and failed,
\* where the cache is too small to record it, or in one of the two cases above:
\* everywhere else the buckets the recorder enumerates and the sizes build()
\* computes meet in the same keys.
LateOnlyIfLost ==
    \A key \in late :
        key \in lost \cup Oversize \/ UnlistedDecode(key) \/ DenseWindowGroup(key)

\* "pre-compile every attention variant the run can need during warmup, so no
\* request pays an Inductor compile mid-serving" (envs.py, SPYRE_ATTN_RECORD).
NoRequestCompiles == late = {}

\* Every sequence of the batch is attended to once: by one group or by the loop.
EveryRowServedOnce ==
    /\ (UNION {plan.groups[i] : i \in DOMAIN plan.groups}) \cup plan.loop = DOMAIN batch
    /\ \A i \in DOMAIN plan.groups :
          /\ plan.groups[i] \cap plan.loop = {}
          /\ \A j \in DOMAIN plan.groups : i # j => plan.groups[i] \cap plan.groups[j] = {}
============================================================================
