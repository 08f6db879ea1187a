--------------------------- MODULE PagedAttention ---------------------------
(***************************************************************************)
(* One attention layer over the life of its paged cache: engine steps that *)
(* extend some requests, preemptions and finished requests whose blocks    *)
(* others get, and dummy runs in between.                                  *)
(*                                                                         *)
(* A step is: metadata (mask tiles, page tables, published slots), the     *)
(* store of the step's keys and values, the pass of the kernels.  A token  *)
(* is <<request, place>>; a cache cell holds the set of what its last      *)
(* store may have left, <<request, place, head>>, or Junk.  Scheduler,     *)
(* block pool and block table rows are vLLM's: rows are reused as they     *)
(* are, so that columns past a request's blocks name another's.            *)
(***************************************************************************)
EXTENDS PagedKernels, SequencesExt

CONSTANTS
    Layers,       \* what the layer may be
    Prompt, Length, \* tokens of each request's prompt, and with its answer
    MaxNumSeqs, Budget,
    BodySizes,    \* rows a step's batch is padded to
    ChunkSizes,   \* bound: most tokens of a prompt in a step
    MaxPreempt    \* bound: preemptions

Requests == DOMAIN Prompt

ASSUME LayerAssumption ==
    Layers \subseteq [heads : Nat \ {0}, window : Nat, causal : BOOLEAN, headMajor : BOOLEAN,
                      tiled : BOOLEAN, batched : BOOLEAN, compiled : BOOLEAN]

ASSUME StepAssumption ==
    /\ IsFiniteSet(Requests) /\ Prompt \in [Requests -> Nat \ {0}] /\ Length \in [Requests -> Nat]
    /\ \A r \in Requests : Prompt[r] < Length[r] /\ Length[r] <= MaxModelLen
    /\ StagingRows = Budget + 1 /\ \E b \in QueryBuckets : Budget <= b
    /\ Budget \in BodySizes /\ BodySizes \subseteq Nat \ {0}
    /\ ChunkSizes \subseteq Nat \ {0} /\ MaxNumSeqs \in Nat /\ MaxPreempt \in Nat

VARIABLES
    layer,
    row,        \* each request's row of the block table; 0 while it waits
    table,      \* block table
    blocks,     \* each request's blocks
    free,       \* the pool's queue of free blocks
    computed, known, \* tokens computed, tokens there are
    preempted,  \* how often the scheduler took blocks back
    scheduled,  \* tokens each request gets in the step
    left,       \* what is left of the step's budget
    memory,     \* the paged cache
    slots,      \* published slots
    phase,      \* idle, built, stored or attended
    seqs, decodes, causal, \* metadata
    query,      \* q_staging
    out         \* stores of the pass to out_staging

vars == <<layer, row, table, blocks, free, computed, known, preempted, scheduled, left, memory,
          slots, phase, seqs, decodes, causal, query, out>>
step == <<seqs, decodes, causal>>
pool == <<row, table, blocks, free>>
request == <<computed, known, preempted>>
plan == <<scheduled, left>>

Junk   == <<>>
PAD_ID == -1
_NULL_SLOT == 0
Rows   == 1..MaxNumSeqs

Init ==
    /\ layer \in Layers
    /\ row = [r \in Requests |-> 0] /\ blocks = [r \in Requests |-> <<>>]
    /\ table = [i \in Rows |-> [c \in 0..(Width - 1) |-> 0]]
    /\ free = [i \in 1..(NumBlocks - 1) |-> i]
    /\ computed = [r \in Requests |-> 0] /\ known = Prompt /\ preempted = 0
    /\ scheduled = [r \in Requests |-> 0] /\ left = Budget
    /\ memory = [a \in Addresses(layer) |-> {Junk}]
    /\ slots = <<>> /\ phase = "idle"
    /\ seqs = <<>> /\ decodes = 0 /\ causal = FALSE /\ query = <<>> /\ out = <<>>

-----------------------------------------------------------------------------
(* The scheduler plans a step request by request. *)

Unfinished == {r \in Requests : computed[r] < Length[r] - 1}
Running    == {r \in Requests : row[r] # 0}
Batch      == {r \in Requests : scheduled[r] > 0}

Chunks(r) == {Smaller(Smaller(n, known[r] - computed[r]), left) : n \in ChunkSizes} \ {0}

\* Blocks are taken from the head of the queue.
Lacks(r, n) == Larger(0, CeilDiv(computed[r] + n, BlockSize) - Len(blocks[r]))

MayHave(r, i) ==
    IF r \in Running THEN i = row[r]
    ELSE /\ \A p \in Requests : row[p] # i
         /\ \A j \in Rows : j < i => \E p \in Requests : row[p] = j

\* The requests that run come first.  A request's row of the block table is
\* written where its blocks are, and nowhere else.
Schedule(r) ==
    /\ phase = "idle" /\ r \in Unfinished \ Batch /\ Running \subseteq Unfinished
    /\ r \in Running \/ Running \subseteq Batch
    /\ \E n \in Chunks(r), i \in Rows :
          /\ Lacks(r, n) <= Len(free) /\ MayHave(r, i)
          /\ LET mine == blocks[r] \o SubSeq(free, 1, Lacks(r, n))
             IN  /\ blocks' = [blocks EXCEPT ![r] = mine]
                 /\ table' = [table EXCEPT ![i] =
                        [c \in 0..(Width - 1) |-> IF c < Len(mine) THEN mine[c + 1] ELSE @[c]]]
          /\ free' = SubSeq(free, Lacks(r, n) + 1, Len(free))
          /\ row' = [row EXCEPT ![r] = i]
          /\ scheduled' = [scheduled EXCEPT ![r] = n] /\ left' = left - n
    /\ UNCHANGED <<layer, request, memory, slots, phase, step, query, out>>

\* The scheduler takes back the blocks of a request that has no tokens yet.
Preempt(r) ==
    /\ phase = "idle" /\ r \in (Running \cap Unfinished) \ Batch /\ preempted < MaxPreempt
    /\ preempted' = preempted + 1
    /\ row' = [row EXCEPT ![r] = 0] /\ blocks' = [blocks EXCEPT ![r] = <<>>]
    /\ free' = free \o Reverse(blocks[r])
    /\ computed' = [computed EXCEPT ![r] = 0]
    /\ UNCHANGED <<layer, table, known, plan, memory, slots, phase, step, query, out>>

-----------------------------------------------------------------------------
(* What the step is given. *)

IsDecode(r) == scheduled[r] = 1 /\ computed[r] >= Prompt[r]

\* reorder_batch_threshold: decodes go first where decodes may be batched.
Precedes(a, b) ==
    IF layer.batched /\ IsDecode(a) # IsDecode(b) THEN IsDecode(a) ELSE row[a] < row[b]

Orders ==
    {order \in [1..Cardinality(Batch) -> Batch] :
        /\ \A r \in Batch : \E i \in DOMAIN order : order[i] = r
        /\ \A i, j \in DOMAIN order : i < j => Precedes(order[i], order[j])}

\* The tokens of the sequences before the i-th.
Start(order, i) ==
    Cardinality({t \in (1..(i - 1)) \X (1..Budget) : t[2] <= scheduled[order[t[1]]]})

\* split_decodes_and_prefills
Decodes(order) ==
    Cardinality({i \in DOMAIN order : \A j \in 1..i : IsDecode(order[j])})

\* The request and place of each token of the batch.
Tokens(order) ==
    [t \in 1..Start(order, Len(order) + 1) |->
        LET i == CHOOSE i \in DOMAIN order : Start(order, i) < t /\ t <= Start(order, i + 1)
        IN  <<order[i], computed[order[i]] + t - Start(order, i) - 1>>]

-----------------------------------------------------------------------------
(* Metadata *)

compute_slot_mapping(tokens, padded) ==
    [i \in 1..padded |->
        IF i > Len(tokens) THEN PAD_ID
        ELSE table[row[tokens[i][1]]][tokens[i][2] \div BlockSize] * BlockSize
                 + (tokens[i][2] % BlockSize)]

\* SlotMapping.publish
Published(mapping) == [i \in DOMAIN mapping |-> Larger(mapping[i], _NULL_SLOT)]

\* A running request is left out only where the budget is spent.
Build ==
    /\ phase = "idle" /\ Batch # {} /\ (Running \subseteq Batch \/ left = 0)
    /\ \E order \in Orders : \E tokens \in {Tokens(order)} :
          /\ seqs' = [i \in DOMAIN order |->
                         [q |-> scheduled[order[i]], kv |-> computed[order[i]] + scheduled[order[i]],
                          row |-> table[row[order[i]]], start |-> Start(order, i),
                          of |-> order[i]]]
          /\ decodes' = Decodes(order)
          /\ causal' = (layer.causal /\ \E r \in Requests : scheduled[r] > 1)
          /\ slots' = Published(compute_slot_mapping(tokens, RoundUp(Len(tokens), BodySizes)))
          /\ query' = [i \in 0..(StagingRows - 1) |->
                          IF i < Len(tokens) THEN tokens[i + 1] ELSE Junk]
    /\ phase' = "built"
    /\ UNCHANGED <<layer, pool, request, plan, memory, out>>

-----------------------------------------------------------------------------
(* The forward pass: the store is traced, and the kernels depend on it. *)

Keys == [i \in DOMAIN slots |-> query[i - 1]]

StoreKv ==
    /\ phase = "built"
    /\ memory' = reshape_and_cache(layer, memory, slots, Keys)
    /\ phase' = "stored"
    /\ UNCHANGED <<layer, pool, request, plan, slots, step, query, out>>

\* The batched kernel's stores, and those of the loop over the other sequences.
Pass ==
    LET batched == batched_preconditions(layer, seqs, decodes)
        rest    == (IF batched THEN decodes + 1 ELSE 1)..Len(seqs)
    IN  [batch |-> IF batched THEN batched_decode(layer, seqs, decodes, query, memory) ELSE {},
         loop  |-> UNION {_run_page_attn(layer, seqs[i], mask_stack(layer, seqs[i], causal), query, memory)
                            : i \in rest}]

StoredTo(stores, i) == {e[2] : e \in {e \in stores : e[1] = i}}

\* The loop comes after the batched kernel and replaces what that padded.
forward ==
    /\ phase = "stored"
    /\ \E pass \in {Pass} :
          out' = [i \in 0..(StagingRows - 1) |->
                     LET later == StoredTo(pass.loop, i)
                     IN  IF later # {} THEN later ELSE StoredTo(pass.batch, i)]
    /\ phase' = "attended"
    /\ UNCHANGED <<layer, pool, request, plan, memory, slots, step, query>>

\* The scheduler hears of the step.
Return ==
    /\ phase = "attended"
    /\ computed' = [r \in Requests |-> computed[r] + scheduled[r]]
    /\ known' = [r \in Requests |-> Larger(known[r], Smaller(computed'[r] + 1, Length[r]))]
    /\ scheduled' = [r \in Requests |-> 0] /\ left' = Budget
    /\ phase' = "idle"
    /\ seqs' = <<>> /\ decodes' = 0 /\ causal' = FALSE /\ query' = <<>> /\ out' = <<>>
    /\ UNCHANGED <<layer, pool, preempted, memory, slots>>

\* A request with its whole answer leaves before the next step is planned.
Finish(r) ==
    /\ phase = "idle" /\ r \in Running \ Unfinished
    /\ row' = [row EXCEPT ![r] = 0] /\ blocks' = [blocks EXCEPT ![r] = <<>>]
    /\ free' = free \o Reverse(blocks[r])
    /\ UNCHANGED <<layer, table, request, plan, memory, slots, phase, step, query, out>>

\* A plausible bug: a dummy run leaves the slots of the last step in place.
keep_slots(n) == slots

publish_null(n) == [i \in 1..n |-> _NULL_SLOT]

\* A run without metadata: attention does nothing, the store is in the graph.
DummyRun(n) ==
    /\ phase = "idle" /\ Batch = {}
    /\ slots' = publish_null(n)
    /\ memory' = reshape_and_cache(layer, memory, slots', [i \in DOMAIN slots' |-> Junk])
    /\ UNCHANGED <<layer, pool, request, plan, phase, step, query, out>>

Next ==
    \/ \E r \in Requests : Schedule(r) \/ Preempt(r) \/ Finish(r)
    \/ Build \/ StoreKv \/ forward \/ Return
    \/ \E n \in BodySizes : DummyRun(n)

Spec == Init /\ [][Next]_vars

-----------------------------------------------------------------------------
Held(r, p, h) ==
    memory[IF layer.headMajor THEN Head_major(layer, blocks[r][p \div BlockSize + 1], h, p % BlockSize)
           ELSE Token_major(layer, blocks[r][p \div BlockSize + 1], h, p % BlockSize)]

\* Whatever blocks a request was given and whatever others, padding and dummy
\* runs have stored since, every place it has computed holds its own key and
\* value, head by head, in either layout (attn_layer.py:86, kv_write_index).
CacheHoldsItsTokens ==
    phase = "idle" =>
        \A r \in Requests : row[r] # 0 =>
            \A p \in 0..(computed[r] - 1), h \in 0..(layer.heads - 1) :
                Held(r, p, h) = {<<r, p, h>>}

\* What the model lets row i of a sequence see, and the attention of a head of
\* that row over some places, each counted once.
Visible(l, s, i) ==
    {p \in 0..(s.kv - 1) :
        /\ l.causal => p <= s.kv - s.q + i
        /\ l.window > 0 => p > s.kv - s.q + i - l.window}

Attention(s, i, h, places) ==
    [head |-> h, query |-> <<s.of, s.kv - s.q + i>>,
     seen |-> {{<<s.of, p, h>>} : p \in places}, count |-> Cardinality(places)]

\* What the pass leaves in a request's rows is attention of that row's token
\* over exactly the places the model lets it see, each counted once: no page
\* skipped by the window, repeated by padding, left over in the block table or
\* stored by another request adds to it or is missing (build, the tiles, the
\* page tables and the kernels together). No kernel stores a result that is not a
\* number, not even in rows it pads with: "rows past the batch are don't-care and
\* kept finite by the builder" (batched_decode.py:148).
AttendsItsOwnContext ==
    phase = "attended" =>
        /\ \A n \in DOMAIN seqs : \A i \in 0..(seqs[n].q - 1) :
              out[seqs[n].start + i] =
                 {Attention(seqs[n], i, h, Visible(layer, seqs[n], i)) : h \in 0..(layer.heads - 1)}
        /\ \A i \in DOMAIN out : \A e \in out[i] : e.count >= 0
============================================================================
