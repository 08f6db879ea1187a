---------------------------- MODULE EngineWarmup ----------------------------
(***************************************************************************)
(* What a generative engine compiles before it serves, and what its steps  *)
(* reach, on either model runner.                                          *)
(*                                                                         *)
(* Every graph is compiled for one number of rows (dynamic=False).  A key  *)
(* names a graph and its rows: the body's blocks, the head on the sampled  *)
(* rows, the input embedding with and without image rows, and with DFlash  *)
(* the draft's context store and its block.  Warm-up runs dummies on the   *)
(* sizes the configuration settled on; a step pads to them.  (Attention is *)
(* AttnServing's, pooling EncoderServing's.)                               *)
(***************************************************************************)
EXTENDS EngineStart

CONSTANTS
    DummyTokens,    \* tokens of the one dummy of an engine without sizes
    ChunkRows,      \* PROMPT_LOGPROBS_CHUNK_SIZE (vLLM)
    StepTokens      \* bound: token counts of the steps looked at

ASSUME WarmupAssumption ==
    /\ DummyTokens \in Nat \ {0} /\ ChunkRows \in Nat \ {0} /\ StepTokens \subseteq Nat \ {0}
    /\ \E k \in 0..(MaxDoublings + 4) : MaxDraftBatch <= 2^k \* CeilPow2 reaches every batch

VARIABLES
    todo,   \* sizes not warmed yet
    warm,   \* keys compiled by warm-up
    late    \* keys the last step had to compile

vars == <<startVars, todo, warm, late>>

Sizes == cfg.compile_sizes
V2 == cfg.worker_cls = "v2"

(* SpyreShapeBucketer.for_config: none for an eager engine or an empty list. *)
Bucketed == ~cfg.eager /\ Sizes # {}

\* find_bucket, and the raw count where there is no bucket.
PaddedTokens(n) == IF ~Bucketed \/ RoundUp(n, Sizes) = None THEN n ELSE RoundUp(n, Sizes)

(***************************************************************************)
(* The widths of the head.                                                 *)
(***************************************************************************)
RowCap(c) == c.max_num_seqs * (c.drafts + 1)

RowBuckets ==
    IF ~Bucketed THEN {}
    ELSE {Min({s, RowCap(cfg)}) : s \in Sizes}
           \cup (IF V2 /\ user.logprobs THEN {Min({ChunkRows, cfg.max_num_batched_tokens})} ELSE {})

\* compute_logits: rows past every bucket are projected as they are.
PaddedLogits(n) == IF RoundUp(n, RowBuckets) = None THEN n ELSE RoundUp(n, RowBuckets)

\* Rows of the widest dummy: a verification reads every position's hidden state.
\* Mutant: the sampled rows are taken with drafts, too.
SampledRows(c) == Min({Max(c.compile_sizes), c.max_num_seqs})

DummyRows(c) ==
    IF c.drafts > 0 THEN Max(c.compile_sizes) ELSE Min({Max(c.compile_sizes), c.max_num_seqs})

\* V2 projects a width no batch samples without the sampler, on rows of its own.
HeadKeys ==
    {<<"head", PaddedLogits(IF V2 THEN r ELSE Min({r, DummyRows(cfg)}))>> : r \in RowBuckets}

(***************************************************************************)
(* The input embedding of a multimodal model.                              *)
(***************************************************************************)
HasVision == "image" \in cfg.features

\* embed_input_ids: an image step stages at least two rows.
StagedRows(n, image) == IF image THEN Max({n, 2}) ELSE n

\* Where no bucket holds them, the tokens are embedded as they are.
EmbedKey(n, image) ==
    LET staged == StagedRows(n, image) IN
    <<IF image THEN "merge" ELSE "embed",
      IF Bucketed /\ RoundUp(staged, Sizes) = None THEN n ELSE PaddedTokens(staged)>>

EmbedKeys(n) == IF HasVision THEN {EmbedKey(n, FALSE)} ELSE {}

(***************************************************************************)
(* SpyreDFlashProposer.dummy_run and propose_spyre.                        *)
(***************************************************************************)
DraftBatches(c) == {b \in {2^k : k \in 0..(MaxDoublings + 4)} : b <= CeilPow2(c.max_num_seqs)}

DraftKeys(n) ==
    IF cfg.drafts = 0 THEN {}
    ELSE {<<"context", n>>} \cup {<<"draft", b>> : b \in DraftBatches(cfg)}

(***************************************************************************)
(* Warm-up.                                                                *)
(***************************************************************************)
SizesToWarm ==
    IF Bucketed THEN Sizes
    ELSE {Min({Max({DummyTokens, cfg.max_num_seqs}), cfg.max_num_batched_tokens})}

\* _record_vision_graphs: a size below two is never reached.  V1 needs its bucketer.
MergeKeys ==
    IF HasVision /\ (Bucketed \/ V2)
    THEN {EmbedKey(s, TRUE) : s \in {s \in SizesToWarm : s >= 2}} ELSE {}

\* compile_for_spyre: an eager model has no graphs of its own.
Graphs(keys) == IF cfg.mode = "stock" THEN keys ELSE {}

Plan ==
    /\ at = "warm" /\ ~cfg.pooling /\ cfg.mode \in {"none", "stock"}
    /\ todo = {} /\ warm = {}
    /\ todo' = SizesToWarm /\ at' = "dummies"
    /\ UNCHANGED <<user, env, cfg, settled, recorded, front, engine, worker, warm, late>>

\* The largest first.  On V1 an engine without sizes warms no head and no merge.
WarmSize ==
    /\ at = "dummies" /\ todo # {}
    /\ LET n == Max(todo) IN
         /\ todo' = todo \ {n}
         /\ warm' = warm \cup Graphs({<<"body", n>>} \cup EmbedKeys(n) \cup DraftKeys(n))
    /\ UNCHANGED <<startVars, late>>

WarmHead ==
    /\ at = "dummies" /\ todo = {} /\ at' = "serve"
    /\ warm' = warm \cup Graphs(HeadKeys \cup MergeKeys)
    /\ UNCHANGED <<user, env, cfg, settled, recorded, front, engine, worker, todo, late>>

(***************************************************************************)
(* A step of n tokens for r requests that samples a number of rows, may    *)
(* carry images, may return log-probabilities of a chunk of its prompts,   *)
(* and drafts for some of the requests.  A graph compiled late is          *)
(* forgotten: whichever step comes first pays for it.                      *)
(***************************************************************************)
Sampled(n, r) ==
    IF cfg.drafts = 0 THEN {r}
    ELSE LET most == Min({n, r * (cfg.drafts + 1)}) IN {most} \cup (StepTokens \cap r..most)

PromptRows(n) ==
    IF ~user.logprobs THEN {0} ELSE {0} \cup {p \in StepTokens : p <= (IF V2 THEN Min({n, ChunkRows}) ELSE n)}

StepKeys(n, rows, image, prompt, drafting) ==
    {<<"body", PaddedTokens(n)>>, <<"head", PaddedLogits(rows)>>}
      \cup (IF HasVision THEN {EmbedKey(n, image)} ELSE {})
      \cup (IF prompt > 0 THEN {<<"head", PaddedLogits(prompt)>>} ELSE {})
      \cup (IF cfg.drafts > 0 THEN {<<"context", PaddedTokens(n)>>} ELSE {})
      \cup (IF drafting > 0 THEN {<<"draft", CeilPow2(drafting)>>} ELSE {})

Step ==
    /\ at = "serve"
    /\ \E n \in {t \in StepTokens : t <= cfg.max_num_batched_tokens} :
         \E r \in {r \in StepTokens : r <= Min({n, cfg.max_num_seqs})} :
           \E rows \in Sampled(n, r), image \in {FALSE, HasVision}, prompt \in PromptRows(n),
              drafting \in IF cfg.drafts = 0 THEN {0} ELSE 0..r :
                late' = Graphs(StepKeys(n, rows, image, prompt, drafting)) \ warm
    /\ UNCHANGED <<startVars, todo, warm>>

Init == StartInit /\ todo = {} /\ warm = {} /\ late = {}

Next == (Start /\ UNCHANGED <<todo, warm, late>>) \/ Plan \/ WarmSize \/ WarmHead \/ Step

Spec == Init /\ [][Next]_vars

(***************************************************************************)
(* Property.                                                               *)
(***************************************************************************)
\* With sizes to pad to, no step compiles a graph, whatever it mixes; but for the V1
\* runner's head on prompt rows, which nothing warms past the sampled widths.
NoStepCompiles ==
    at = "serve" /\ Bucketed => late \subseteq {k \in {"head"} \X StepTokens : ~V2 /\ k[2] > Max(RowBuckets)}
=============================================================================
