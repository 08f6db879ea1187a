# Formal model of spyre-inference

`spyre_inference` is a vLLM platform plugin that serves models on IBM Spyre. Spyre compiles a kernel for every
distinct set of integer arguments it meets, a compile takes long, tensors must be whole sticks wide, and a gather of a
whole tensor faults the device. Much of the plugin therefore exists to make the *set* of shapes a run meets small and
known in advance (buckets), to compile all of them before the first request (warm-up and recording), to move data
through buffers whose shape never changes (staging), and to widen models without changing what they compute (padding).
What these must keep true is a relation between pieces of code that run at different times (recorder and dispatcher,
writer and reader, front process and engine, loader and forward pass), which a unit test of either side hardly covers.

This directory holds TLA+ models of those parts, TLC configurations that check them on small instances, and proofs
checked by TLAPS. `PROJECT.json` lists, for every definition, the source lines it models.

1. [Components](#1-components) 2. [Modules](#2-modules) 3. [Runs](#3-runs) 4. [Proofs](#4-proofs)
5. [Disagreements](#5-disagreements) 6. [Fairness](#6-fairness) 7. [Plan](#7-plan) 8. [Not modelled](#8-not-modelled)

## 1. Components

| component | state | operations | what must hold | module |
|---|---|---|---|---|
| platform hooks (`platform.py`, `threading_config.py`) | `VllmConfig`, environment, class attributes of each process | `pre_register_and_update`, `apply_config_platform_defaults`, `check_and_update_config` | processes agree on what was settled; every admitted length fits | EngineStart |
| KV bucket ladders (`v1/attention/spyre_attn_bucketer.py`) | sorted bucket lists fixed at start-up | presets, overrides, rounding | every length has a bucket | KvLadders, EngineStart |
| model runners (`v1/worker/spyre_model_runner.py`, `v1/worker/spyre/`) | compile sizes, graphs, step state | warm-up, execute, dummy run, proposals | no step compiles; step state does not outlive its step | EngineWarmup, DecoderStep |
| model loading, padding (`v1/worker/model_load.py`, `custom_ops/`) | what outlives a model in its process | widen, load, restore, refuse | a served model computes what its checkpoint says | ModelLoad and the modules it extends |
| experts (`moe.py`) | weight pools and their aliases | gathered and persistent kernels | both compute the published experts | MoeExperts |
| metadata builder, recorder, dispatch (`v1/attention/backends/spyre_attn.py`) | per step: padded sizes, groups; compiled kernels | `build`, `record_graphs`, `forward` | what is recorded covers what is dispatched; each sequence is served once | AttnServing |
| staging buffers (`spyre_attn.py`, `attn_layer.py`) | `q`, `out`, group staging, shared by all steps | batched dispatch, group scatter, loop, copy-back | a row of the caller gets its own result of this step | AttnForward |
| kernels, masks, paged cache (`v1/attention/ops/`, `spyre_head_major_attn.py`, `attn_layer.py`) | the cache, block tables, published slots | store, mask tiles, three kernels in two layouts | a place holds its own key; a row sees its own context | PagedKernels, PagedAttention |
| admission and speculation (`v1/core/scheduler.py`, `v1/spec_decode/`, `v1/sample/`) | admission cap, drafts, the draft model's cache, generators | schedule, verify, propose | answers are the target's own; every request ends | DecoderStep, TargetDecode |
| compile guard (`v1/worker/compile_guard.py`) | registry, level, callback, per-thread suppression | `watch`, `arm`, `disarm`, `reset`, `allow_compile` | an armed guard reports a watched compile; a suppressed thread is silent | CompileGuard |
| encoder grid, bucketer, encoder attention, pooling (`spyre_shape_bucketer.py`, `encoder_grid.py`, `spyre_encoder_attn.py`, `v1/pool/`) | shape tables; plan, grid and mask of a step | tables, warm-up, plan, layout, attention, pooling | tables hold every shape; a request is pooled from its own tokens | EncoderTables, EncoderServing, PoolerSetup |
| vision encoders (`models/_vision_encoder.py`, `v1/worker/spyre_encoder_graph.py`, towers) | token limits, budgets, kept host buffers | validate, capture, pack, run | an image's tokens are made of its own patches; nothing runs without a budget | VisionLayout, TowerHeads, VisionServing |
| CI caches (`.github/scripts/nfs_uv_cache.py`, `nfs_compile_cache.py`) | tar files on a file server shared by all runners | restore, save, collect, clean up | readers see whole tars; scopes stay apart; keys in use stay | NfsUvCache, NfsCompileCache |

**How they interact.** The front process builds the configuration through the platform's hooks and spawns the engine,
which runs them again. The worker loads and pads the model, allocates the KV cache, lets the runner warm up its graphs,
lets every attention layer record (asking the builder for one synthetic batch per variant the ladders list) and arms the
compile guard. Then, step by step, the scheduler admits requests, the runner pads the batch, the builder publishes
metadata and slots, every layer writes its keys and values through the slots, stages its query, dispatches, and copies
its output back; the sampler verifies drafts, and the draft model extends its own cache and proposes.

**What is hard.** Recorder and dispatcher must agree on integers computed along different paths. Buffers, grids, masks
and slots survive the step that filled them. Class attributes, environment variables and vLLM's caches survive the model
or the configuration that set them. Recordings and deltas fail one by one. Preemption takes pages from a request whose
draft context is half built. Compiles start on several threads while the guard is re-armed. Several CI runners write
one directory tree without locks and may be killed anywhere.

## 2. Modules

| module | kind |
|---|---|
| KvLadders | operators; extended by EngineStart |
| EngineStart, EngineWarmup | state machine of a start, and of warm-up and steps |
| AttnServing | state machine |
| AttnStep, AttnForward | abstract step, and the pass that refines it |
| PagedKernels, PagedAttention | operators, and a state machine over them |
| TargetDecode, DecoderStep | abstract decoder, and the engine step that refines it |
| CompileGuard | state machine |
| EncoderTables, EncoderServing | operators, and a state machine over them |
| PaddedHeads, WeightShards, MoeExperts, PoolerSetup, ModelLoad | operators on tensors, and the state machine of loading |
| TowerHeads, VisionLayout, VisionServing | operators, and a state machine over them |
| NfsUvCache, NfsCompileCache | state machines of concurrent CI jobs |
| AttnServingProofs (NfsUvCache's too), ForwardProofs (AttnForward's, EncoderServing's), DecoderStepProofs, EngineStartProofs (CompileGuard's too), ModelLoadProofs, VisionServingProofs, NfsCompileCacheProofs, PagedAttentionProofs | theorems |
| MC... | instances for TLC |

Definitions whose comment begins with "Mutant" or "A plausible bug" are not part of a model. They are broken variants
of the definition below them; putting one in the other's place must make a property fail.

**KvLadders.** A sorted Python list of buckets is a set; `bisect_left` is the least element that is not smaller.

**EngineStart.** `at` walks through the import of vLLM, the first pass of the hooks (`Configure`), `Spawn`, the second
pass in the engine (`Reconfigure`) and `StartWorker`. `Hooks` is one pass: defaults, refusals, and what it assigns, in
the code's order. `front`, `engine` and `worker` are what a process has fixed at import: the cached runner, whether vLLM
sees Triton, its thread pools. `SetRunner` is a script that changes the environment between import and configuration.
vLLM's own part (default limits, the rewrite of the mode on the way to the engine, slots a draft needs) is external.

**EngineWarmup.** A graph is known by its kind and its number of rows. `Plan`, `WarmSize` and `WarmHead` are warm-up's
dummy runs on either runner; `Step` is a step of any token count, batch, sampled rows, images, prompt log-probabilities
and drafts. A graph a step compiled is forgotten, so that every step is compared with warm-up alone.

**AttnServing.** `phase` walks through `_record_all`, `_record_batched_all` and serving. `todo` holds the variants not yet
visited, in the code's order; `compiled` the keys with a kernel; `lost` those whose recording raised, which the code
logs and skips; `late` the keys a request had to compile. `Serve(b)` is one engine step: `build` computes sizes and
groups, `forward` picks grouped, batched or per-sequence dispatch, and the keys follow. A *key* is the tuple of integers
Dynamo specialises on.

**AttnForward.** A buffer cell holds the row whose result of this pass it contains, or `Junk`. Every store of the code is
an action (`RunGroup`, `ScatterGroup`, `CopyPrefix`, `RunSingle`, `RunSequence`, `CopyBack`, `Return`). Two stores to one row
in one `index_copy_` may land in either order. The split into groups is any split, not just those the merge loop makes.

**PagedKernels and PagedAttention.** The cache is flat memory; `Token_major` and `Head_major` are the addresses of the two
layouts, `kv_write_index` those of a store. Mask tiles, page tables and windows are built as in `build`, and a kernel
returns which cells it read with a mask that lets them through. The scheduler plans a step request by request (`Schedule`:
a chunk within the budget, blocks from the head of the queue, a row of the block table), takes blocks back (`Preempt`) and
lets requests go (`Finish`); the step then is `Build`, `StoreKv`, `forward`, `Return`, and dummy runs write through the null
slot in between. Block-table rows are reused as they are, so that columns past a request's blocks name another's. A result records what was seen and
how often, so a key counted twice, one hidden by a wrong mask and one of another request all show.

**DecoderStep and TargetDecode.** One engine step in the order of the code: `Begin` lowers the cap, `ScheduleRunning`,
`Preempt` and `Admit` are vLLM's loop inside it (external), `EndSchedule` restores the cap; `Execute` publishes slots,
scatters, attends, verifies and settles generators; `propose_spyre` writes the draft model's context and its block;
`Update` hands out tokens. `DummyRun` and `Abort` come between steps. A token is TRUE when it is the target's own choice at
its place, so a draft that is rejected, and an attention that reads a page of someone else, both show as values.
TargetDecode says what a client is promised: every answer is the target's continuation, in any portions.

**CompileGuard.** A critical section of the guard's lock is one step; what the code reads or writes outside it is a step of
its own. A compile is four steps: the callback checks suppression and classifies the frame, records it, then reads the
level and raises or warns; a graph break starts a resume frame, whose kernel the guard finds by file and name. Dynamo is
external: its callbacks run only for a compile that begins with none in flight, and `torch._dynamo.reset()` empties their
list without telling anyone.

**EncoderTables and EncoderServing.** An engine is a record of limits; `Tables` is derived from it once, as the code memoises
it. `DummyBody`, `WarmRectangle` and `WarmRagged` are warm-up's dummy runs, each with the keys its forward, its pooler and
its gathers compile. A step is four actions because its state crosses four functions: `Build` writes the plan, the grid and
the published mask, `LayOut` and `Pool` read the grid, `Attend` reads the mask (layers traced into the graph) or the plan
(the opaque operator). `Finish` leaves grid and mask behind, as the runner does. An input row has a token, a position and
a segment, each moved by code of its own; a hidden state is the *set* of values its stores may leave. The second runner
has its own plan, width caps and row cap.

**PaddedHeads, WeightShards, MoeExperts, PoolerSetup, ModelLoad.** A tensor is a function from rows to the checkpoint's
lane they hold. PaddedHeads says where padding puts lanes and what a rotation makes of them there; WeightShards the MLP
and vocabulary shards and their gather; MoeExperts the expert pools down to device addresses, which the two kernels read
through different aliases; PoolerSetup which pooler, head and classifier run where. ModelLoad loads one model after
another in one process: `Configure`, `install_pad_loaders`, `initialize_model`, `load_weights`, `load_drafter`,
`fix_padded_model`, `configure_pooling`. What outlives a model is kept: the property left on its attention classes, the
patch of BERT's construction, vLLM's dictionary of rotary embeddings.

**VisionLayout, TowerHeads, VisionServing.** A patch is `<<item, tile, row, column>>`; VisionLayout packs patches into
buffers with segments, attends and merges windows; TowerHeads checks each tower's rotated heads against stock ones.
VisionServing goes from the limit in the front process to a request's image tokens: `ConfigureLimits`, `StartEngine`, `Warm`
(buffers per budget), `Arrive` (validation), `Schedule`, `Execute` (packing, refilled buffers, or a late uncompiled run),
`EmbedEagerly`; `ConfigureAnother` is a second engine of the same front process.

**NfsUvCache.** A cache is the set of lockfile keys it serves and the contexts that built it. A job is killed at any program
counter. Each look at the shelf is one step; `listing` is the result of a directory listing and may be stale when it is
used. Writing is a temporary file, a re-check, and an `os.replace`. Clock values are the order in which tars are finished.

**NfsCompileCache.** A delta is known by the job that writes it; its content maps graphs to who compiled them. A job
restores delta after delta from the scopes it reads (`_restore_delta`, `SkipDelta`), compiles what it lacks, and ships
exactly that (`StartTar`, `FinishTar`, `Replace`). The nightly `cmd_cleanup` ranks keys one look at a time, removes a
directory's listed files, then tries the directory, all beside running jobs; `_sweep_pr_scopes` removes old deltas of pull
requests. `due`, `warm` and `lapsed` (keys whose last delta was set aside after the cleanup looked) are history variables
for the properties.

## 3. Runs

| run | shows | instance |
|---|---|---|
| attn_serving | with groups, a dense ladder, one failed recording and a cache too small for the widest batched gathers: a late compile is a failed recording; a plan serves each row once | four sequences, contexts of 1 to 16 pages of 2, batches of up to four with prompts on, short of and off a bucket |
| attn_serving_doc | **violation**: window, dense ladder and groups reach a key nobody recorded | the same with window 8 |
| attn_forward | a pass refines one atomic step, and a stored row is lost to the padding of its own or a later group only | `max_num_batched_tokens = max_num_seqs = 8`, so that padding reaches decodes of a full batch, though not of the shorter ones here; up to eight decodes in two groups (every split), up to two prompts, caller buffers narrower than a sequence bucket |
| paged_attention | every computed place holds its own keys; a pass sees exactly the places its row may see, each once, and is finite in its padding | six layers (both layouts, one and two heads, windows 0, 2, 3 and 4, batched or not, causal or not), three requests of 5, 2 and 1 prompt tokens, chunks of 2 or 5, seven blocks of 2 beside the null block, one preemption |
| compile_guard | registered while armed; suppression ends with its blocks; a fatal compile stops; only watched frames raise, and resume frames of a namesake | two threads, a kernel that may be watched and one with its file and name that never is, resume frames one deep, two open blocks per thread; 3.9 million states |
| uv_cache | hits are complete, tars whole, pull requests apart | three jobs, three keys, main, a dispatch and a pull request, `--keep 1`; a million states |
| compile_cache | restores are unions, deltas a job's own; every scope comes down to what it keeps, with as many keys the cleanup can count on | two jobs (main or a pull request) beside an earlier delta of main, two keys, two graphs, `--keep-keys 1`; deltas are set aside before, while and after their key is ranked; 2.8 million states |
| encoder_serving | requests are pooled from their own tokens, positions and segments; only undeclared shapes compile late; the longest prompt fits | twenty-three engines of both runners, sticks of 2, fast body 8, contexts up to 16, batches of up to four prompts on and off the extents |
| decoder_step | answers refine the target decoding alone; the draft context is the committed one; generators follow samples; every request ends | three requests, seven pages of 3 (two requests fit only until they grow), two drafts, two sequences, one partial prefill, budget 8, `max_model_len` 15; 86 000 states |
| model_load | what is served attends, activates, routes, projects and pools as the checkpoint does; refusals do not depend on earlier models, but for one of the same classes and width | any two of 39 models in one process, five of which meet another, or themselves, in a width or a scale by chance; a stick of 4 |
| engine_start | both passes agree, every length fits, processes agree on runner and threads, no step with sizes compiles | about a thousand command lines that differ from two typical ones in a field or a pair, environments changed in between; 27 000 states |
| vision | image tokens are made of their own patches; a late run only where another engine replaced the limit; admitted images fit; towers attend as stock ones | ten engines of three towers, two of five prompts of one to four images; 300 000 states |

**Why the bounds are enough.** Each is chosen so that the case a property is about happens, not just small. In
decoder_step the pool holds two requests only until they grow, so preemption hits a request in every phase of its draft
context; the longest request ends at `max_model_len` and needs two chunks. In paged_attention blocks of preempted and
ended requests are reused with other offsets, and a window starts inside a block. In attn_serving merges happen and are
declined. In attn_forward the same splits are taken with room for their padding and without. In model_load a padded model precedes and follows models of its file with other widths; one load of each alone
would not meet the state that is left. In compile_cache the cleanup meets a job in every phase of saving and restoring.
For every property, a plausible bug put into the model violates it under the run's own configuration.

**Exceptions written into properties**, each a fact about the code a reader should know:

* SecondPassAgrees: a pooling engine whose user gave sizes is narrowed once more by the engine's own pass.
* NoStepCompiles: on the first runner, the head on prompt-logprob rows is warmed for the sampled widths only
  (`spyre_model_runner.py:411`); the second runner warms it (`spyre/load.py:107`).
* LateOnlyWhereTablesAreSilent: a larger body misses group extents for short prompts beside long ones
  (`spyre_shape_bucketer.py:164`); a V2 multimodal pooling engine without declared groups compiles width-1 groups late; the
  first runner warms the gather of CLIP's embeddings only if the pooler is on Spyre (`spyre_model_runner.py:1394`), but
  takes it either way (line 1435); and a ladder the user made coarse may leave a body no groups and prompts that miss
  its rectangles (section 5).
* LateOnlyIfBorrowed: a second engine configured in one front process overwrites the first's image limit (`platform.py:744`).
* LateOnlyIfLost: two kinds of kernels in section 5 (`UnlistedDecode`, `DenseWindowGroup`), and what neither recorder nor
  dispatch gathers because the cache is smaller (`Oversize`). The run has the last; the first two are the theorem's.
* LostOnlyAtTheTop, AnswersEveryRow: decode rows that the padding of their own or a later group reaches (`PadsReach`,
  section 5). The run has such rows, and without the exception both are violated.
* OnlyWatchedFramesRaise: a resume frame of a function with a watched one's file and name (`NamesakeResumed`, section 5).
* CleanupKeepsWarmKeys: a key whose last delta a job sets aside after the cleanup saw it counts as left (`lapsed`).
* RefusedForCause, OthersUntouched, AttendsAsNative: the coincidences of widths and scales in section 5 (`TextLeft`,
  `TowerLeft`, `SharesWidened`, `TakenForDerived`). These, too, are met by their runs and needed there.
* TailsAgree: a classifier held only by a dispatcher's heads, under another name than `classifier`, stays on Spyre when the
  rest of the tail falls back to the host (`Stranded`); a head that is not cast, and a classifier that is not fetched
  (`Uncast`, `Unfetched`, section 5).

## 4. Proofs

`tlapm` checks the following for every value of the constants that satisfies the named assumptions.

* **AttnServingProofs.** *WarmupCoversServing*: `Spec => []LateOnlyIfLost`, for any buckets, windows and cache. The
  invariant `RecordInv` says that a variant the recorder has visited is compiled, lost or too large, phase by phase;
  `LateOnlyIfLost` alone does not say what `compiled` holds when serving starts. The arithmetic core is that a length that
  rounds onto a bucket has the kernel key of the full bucket. *RowsServedOnce*: however a batch is split, the groups that
  are merged and the rest name every row of the step once. *TypeCorrect*: `Spec => []TypeOK`.
* **ForwardProofs, the attention pass.** *GroupsKeepTheirRows*: `Spec => []LostOnlyAtTheTop`, for any staging buffer: a scatter
  takes a stored row away only if its padding reaches it. *ForwardAnswersEveryRow*: the pass refines AttnStep, whose
  `exposed` rows, given up when it begins, are those that padding will reach (`Exposed`). The invariant follows any other
  row from `group_out` through `out_staging` to the caller's buffer.
* **ForwardProofs, pooling.** *LongestPromptFits*: `PoolingSpec => []LongestPromptIsSchedulable`. The platform's hook
  runs twice on its own output; after the second pass the budget is a whole number of longest prompts, and the bodies
  derived from it end in it (`SettledIsSound`). *AnswersAreTheirOwn*: `PoolingSpec => []AnswersAreOwn`, for any engine,
  warm-up and sequence of batches. The property speaks of the last stage only; `StepInv` says what each stage before it has
  made of the batch: the plan and the grid are those of these prompts and no others (the grid outlives a step, so this is
  where a stale one would show), rows are laid out (`RowsLaid`), and every cell holds exactly one value, its own request's
  (`RowsAttended`). Beneath it: a rectangle has room for its batch and covers its body (`RectangleHolds`); groups partition the requests, every
  extent is long enough and `Chunks` neither drops nor repeats one (`ChunksCover`); a row's lane and column are quotient and
  remainder of its extent; in a group the places past a request's end store its last row's own value again, so the set of
  values a row may hold has one element in any order of stores; and unpadding is the inverse of the layout.
  *WarmupCoversSteps*: `PoolingSpec => []LateOnlyWhereTablesAreSilent`. `WarmInv` says after each of warm-up's phases which
  keys of which bodies are still to come; `LateInv`, that the plan of a step is the dispatcher's own until the step ends
  and that every key it missed is one of the named exceptions. The arithmetic between them: the second pass of the platform leaves every
  request of the largest batch a stick of the largest body (`SettledIsRoomy`), so a pooler's padded count is a warmed
  width (`PaddedIsWarm`); chunks are cut to declared widths (`GroupsAreDeclared`); and on the default ladder a body that
  declares no groups has a rectangle for every batch it takes (`LadderReaches`).
* **EngineStartProofs, the compile guard.** The four safety properties for any threads, kernels and bounds. The invariant ties `armed`,
  `level` and `callback` together, counts the callback in Dynamo's list, bounds a thread's depth by its open blocks, and
  says what each program counter knows of the frame it classified.
* **AttnServingProofs, the uv cache.** For any jobs, keys, pull requests and `--keep`. The properties speak of hits and tars; the invariant
  also of what is on its way: the shelf, a restoring directory, what was built into it, its temporary file.
* **NfsCompileCacheProofs.** For any jobs, keys and contexts, main and its queue included. *DeltasAreTheirJobsOwn*: what a
  job ships is what was not in its manifest, and the manifest is what it restored. *RestoresAreUnions*: a delta due at the
  start is restored, still listed, or gone. *CleanupSpares*: `DirsInv` (a delta has its directory), `RankInv` (a key that had
  something to restore when the scope was entered has a positive birth) and `EvictInv` (all such keys, or as many as are
  to be kept, are spared) together survive saves, set-asides and evictions in any order.
* **DecoderStepProofs.** *DraftContexts*, *Generators* and *TargetAlone*, the refinement of TargetDecode, for any requests,
  pages, limits and number of drafts. The invariant: a page belongs to one place of one request (`PagesInv`, hence no two rows
  share a slot), both caches hold each live request's computed tokens (`CacheInv`), what is booked fits its pages (`BatchInv`),
  and what is sampled is right with its accepted rows in the cache (`SampledInv`). The key argument is on the rows of a
  verification: take the first draft that is wrong; every row up to it attends to its own context, so it is rejected there,
  and what is accepted is the target's.
* **PagedAttentionProofs.** *CacheKept*: `Spec => []CacheHoldsItsTokens`, for any requests, pool, batch sizes and layer of
  either layout. The property speaks of the cache between steps; what keeps it is the pool. The invariant: a block is in one
  place of one request, or free once (`BlocksInv`); a row of the block table is one running request's and names its blocks
  (`RowsInv`), which have room for the tokens of the step (`RoomInv`); these are within the budget (`BudgetInv`); each
  published slot is the place of one of them or null, and each of them has a slot (`SlotsInv`); and what was computed or
  stored is in its cell (`CacheInv`). The lemmas beneath say that `kv_write_index` of a slot is the cell the kernels look at,
  that no two blocks, offsets or heads share a cell, and that `query_start_loc` lists every token of the batch once.
  *ContextAttended*: `Spec => []AttendsItsOwnContext`, for any buckets, windows and kernels. `StepInv` joins the invariant:
  until the step is over, each sequence has its request's tokens and block-table row, its rows hold its own queries and no
  other sequence's, decodes lead with row n - 1, and a mask without a causal limit is only for steps of one token each.
  The argument then is about multiplicity. Every slot of a stack of tiles stands for one place of the context and no two
  for the same (`PlacesOfSlots`), a slot is shown to a row exactly when the row may see its place (`Stacks`, for whole
  contexts and for windows with dropped and padded tiles), so slots shown and places seen are in bijection and counted
  alike (`ShownIsSeen`, `EachOnce`). A walk of such a stack over a cache that holds its tokens is the answer (`WalkAnswers`);
  a batch's entries show what the stacks of its sequences show (`EntriesShow`), and an entry that pads the batch still
  finds a number (`PaddedRowIsFinite`). Last, `forward`: a row stored by the loop belongs to one sequence (`RowsAreApart`),
  and rows of the batch are those of the decodes.
* **EngineStartProofs, the engine's start.** *RunnersAgree* and *WorkersShareTheMachine* for any command line, and *HooksSettleOnce*
  (SecondPassAgrees). Runner and threads travel by ways of their own, so the invariant says
  after each step what environment, configuration and process know. The third rests on two lemmas: the first pass leaves
  a configuration from which nothing is left to decide (`Rests`), and a pass over one that rests, whose mode vLLM rewrote,
  gives it back. That a pooling engine's limits rest is arithmetic (`RowsRest`): rows cut to whole longest prompts stay
  whole when the batch is cut to their sticks, and a budget past the fast body is one longest prompt. *LengthsFit* (EveryLengthFits): presets, user's sizes and the default size of the cache reach what the
  engine admits, and no further than they must. *WarmupSuffices* (NoStepCompiles): every graph of a step is one of the
  warm-up's, under `RoomyFor`, which is about vision engines alone: the budget and one of their sizes have room for two
  rows, since an image step stages no fewer (`embed_input_ids`).
* **VisionServingProofs.** *NothingRunsLate* and *AdmittedImagesFit*, for any engines, prompts and packing. The invariant says what
  the front process's limit, the scheduler's budget and the manager's budgets were derived from, and that admitted images
  are within the limit while it is the engine's own. Then: an image has no more tokens than placeholders; the largest
  budget covers the limit, rounded up to whole patches; Gemma 4's cap leaves a budget for everything below it.
  *TowersAttendAsStock*, for heads of any width: the two-axis layout puts each quarter's partner where the rotation matmul
  looks for it (`QuartersOf`), and three times n padded heads are the fused columns of n (`SiglipHeadsMeet`).
  *TokensKept*: `VisionSpec => []TokensAreOwn`. `TokensInv` adds what outlives a call: every kept buffer has its budget's
  shape, whatever it holds (`StagingInv`), and what was given out is right (`OwnOutputs`). Both packers' orders, smallest
  first and as they came, list each image of a call once (`OrderExists`), so an image's segment or tiles begin where those
  before it end and fit the call, and the call fits the budget (`PacksAreCalls`). Then a place of a refilled buffer is told
  apart by division: it belongs to one image or to padding (`GridLaid`, `TileLaid`), rows and columns of a raster
  or of a window-major tile are quotients and remainders, and the extent a token attends over is its own image's
  or tile's exactly: `OwnTokens`.
* **ModelLoadProofs.** *LoadRefusesForCause* (RefusedForCause): `LoadInv` says of what outlives a model only who left
  it (a property on a file's classes is some padded model's of that file; BERT's patch changes no width that needs none),
  and of the model being loaded what each stage knows: widths as configured, parts as wide as the configuration and the
  classes made them, no tower that was widened by accident after its weights were taken. *LoadLeavesOthers* and
  *ServedAttendsAsNative* join `AttnInv`: weights, scale, norms and rotary embeddings of every part, stage by stage.
  Two things carry it. A rank's narrow of a projection and the ranks' shares put together are inverse (`SharesJoin`),
  so lanes are those of the stream the hooks feed the loader, whose padding is computed for separate, fused and
  half-rotated projections (`StreamLanes`). And no two entries of the dictionary share an instance: the pass that narrows
  the text part's frequencies first takes that instance out (`RopesInv`), which is why a later model cannot be handed it.
  *ServedLanesMeet* needs `MlpInv`: the shards are cut from one padded stream, ranks divide its width (`RankShare`), and a
  lane's share and place are quotient and remainder (`LaneOnce`).
  *ServedVocabulary* needs of the state only the model, and is about sizes: a padded table's rows divide into whole sticks per
  rank (`TableIs`), and the eager and the compiled gather are both the ranks one after another (`EagerGather`,
  `CompiledGather`), so a row's rank and place are again quotient and remainder, and slices take away only padding.
  *ServedExperts*: an alias's address, read digit by digit by the gathered kernel, names the entry of the pool it stands for
  (`ThreeDigits`, `AliasIs`, `DownAliasIs`), each half of the product is live where the other is (`LiveIs`), and the chunks are
  the fewest that keep the most cores busy (`ChunksAre`).
  *ServedTails* (TailsAgree) is a case analysis over all the tails `VllmBuilds` admits. `OnItsWay` says what
  replacing the methods and converting the classifiers leave: which fields no step touches, what each head casts to, and
  that a step that is skipped had nothing to convert (`PatchedTail`, `ConvertedTail`). A tail with a pooler the code does
  not know, or with float32 left in a registered head, then moves and computes on the host from end to end (`HostTail`);
  any other multiplies in float16 where its weights are (`SpyreTail`).

Assumptions are the `ASSUME`s of the modules: limits are positive, buckets reach the engine's limits, the dense ladder
contains the base one, the query buckets a step's token budget, an engine's pages hold one longest request,
`validate_dflash_config`'s bound on the budget. TLC evaluates each of them on the runs' instances. The sizes a user lists
are a sorted list that ends (`StartAssumption`, `UsersAssumption`), as a command line's are, a pooling user's lengths are within the
tables' bound (`PoolingAssumption`), and a prompt has at least one token. What is loaded is what vLLM builds
(`ModelsAssumption`): ranks divide heads, key-value heads and intermediate sizes, a rotated head is made of pairs, a mixture's hidden states
are whole sticks, as `_derive_moe_chunks` asks. A stick is a power of two tokens
(`TablesAssumption`), as its 64 are. A tile's side is whole windows and a window is its queries merged, as
`granite4_vision.py:136` demands. A pooling model's tail is one vLLM builds
(`TailsAssumption`): a projector and its head share a dtype, and so do a classifier and the heads that hold it.
Where the code leaves a case open, the property names it (section 3) and the theorem holds with it. One premise the code
does not enforce is left, and the theorem's statement has it: `RoomyFor` of *WarmupSuffices*. One assumption is about
vLLM: that its page reservation covers a request's draft block.

**Recursive definitions.** The merge of groups, the doubling of bucket sizes and the sorted orders are recursive functions
or choices. What they compute is proved where needed by a least counterexample (`NatLessThanWellFounded` with `WFMin`, or a
set of numbers and its least element), since the library's induction theorems take an operator as a parameter and the
installed provers cannot instantiate them.

**Only model-checked:** liveness (EveryRequestEnds, EventuallyBounded) and ENABLED, which are outside the prover. Every
invariant of a passing run is proved.

## 5. Disagreements

**Shown by a run.** *A length group of a windowed layer can compile in serving* (attn_serving_doc). `_batched_decode_groups`
rounds block counts on the base ladder, the recorder realises them on the dense one; `envs.py` promises no request pays a
compile.

**Met while modelling.** The first five are exceptions that a property names, each needed: without it the property
fails.

* *A single token can compile in serving.* A list given by `SPYRE_ATTN_QUERY_BUCKETS` is taken as it is
  (`spyre_attn_bucketer.py:299`); where it lacks 1, the loop serves a single token with a kernel no variant has
  (`UnlistedDecode` of LateOnlyIfLost).
* *Group padding reaches rows of the batch.* It goes downwards from the last staging row (`spyre_attn.py:2003`), which the
  comment above says "no batch reaches". With `max_num_batched_tokens` near `max_num_seqs` decodes are there: eight of
  them in groups of five and three pad the five to eight and overwrite rows 6 and 7 (`PadsReach` of LostOnlyAtTheTop).
* *A resume frame of an unwatched function can raise.* Its parent is looked up by file and unqualified name
  (`compile_guard.py:333`), so a namesake of a watched function in the same file is fatal at error level
  (`NamesakeResumed` of OnlyWatchedFramesRaise).
* *A tower or a draft model can rotate with narrowed frequencies.* If it asks for the widened width with its padded
  target's rotary parameters it was handed the target's instance, whose frequencies are replaced in place
  (`head_pad.py:475`, `spyre_model_runner.py:678`; `SharesWidened` of OthersUntouched), though `head_pad.py:456` says a
  tower keeps its own.
* *A scale of the model's own can be replaced.* The pass tells a derived scale by its value (`head_pad.py:367`), and one
  that equals the widened head's default is taken for it (`TakenForDerived` of AttendsAsNative).
* Two savers of one uv key: re-check and rename are two steps, so the second overwrites the first. The contents serve the
  same key.
* A delta set aside as bad leaves its key looking newer to the cleanup, or without a birth (`nfs_compile_cache.py:109`). If
  it was the key's last and the cleanup has ranked the key already, the key is kept for a delta that is gone, and an older
  one with deltas to restore is removed (`nfs_compile_cache.py:208`).
* A body without groups can run ragged. `_encoder_groups` (`spyre_shape_bucketer.py:258`) declares none when every batch is
  narrow enough for the body's longest rectangle, and its docstring, as the runner's warm-up (`spyre_model_runner.py:1321`),
  takes that to mean "the rectangular path cannot miss". With coarse `SPYRE_ATTN_QUERY_BUCKETS` a body may hold prompts
  longer than its longest rectangle: lengths 128 and 8192 leave the 2048-row body rectangles of extent 128 alone. Such a
  step runs ragged, and with inlined attention its whole body graph compiles inside the request. The default ladder has
  every power of two and does not miss.
* A body above the fast one declares only extents whose fullest batch overflows the body below, while a ragged batch mixes
  extents; the docstring (`spyre_shape_bucketer.py:116`) says the pairs are every group shape.
* `configure_pooling_for_spyre` looks for a classifier or a token pooler before it takes the heads' dtype down
  (`spyre_pooler.py:834`). A classify head in float32 without any classifier keeps its cast, and makes it on the device; a
  classifier in float16 that only a dispatcher's heads hold, and that is no Linear, is left on the host where `to()` never
  reached it. `Uncast` and `Unfetched` say which tasks that are.
* RoBERTa's docstring asks the largest declared extent to fit the usable positions; nothing checks it. It is the premise
  of the position part of AnswersAreOwn.
* The property left on a file's attention classes stays when the next model of that file is not padded (`head_pad.py:203`
  returns early), and widens its heads, or its tower's, if they have the earlier model's native width (`TextLeft`,
  `TowerLeft`). Loading then fails on a shape, so nothing is silently wrong.

## 6. Fairness

* `WF(Step)` in DecoderStep: the engine loop runs while there are requests. Aborts and dummy runs are free to happen and
  owe nothing. EveryRequestEnds then says that neither the lowered cap nor preemption keeps a request from ending.
* `WF(cmd_cleanup)` in NfsCompileCache: the cleanup is a nightly cron job and goes on once it runs. Jobs owe nothing: they
  may stop or be killed anywhere, and a model has finitely many, so EventuallyBounded is about what they leave behind.
* The other specifications assume none. A start, a load, warm-up and an attention pass are sequential code that ends by
  itself. Where a blocked queue would be the consequence of a wrong size, it is a safety property of the sizes
  (LongestPromptIsSchedulable, EveryAdmittedItemFits, EveryLengthFits).

## 7. Plan

The order was: what a wrong answer would be silent in comes first.

1. Attention: serving keys, one pass, kernels over the paged cache, with their proofs where the prover reaches (done).
2. Compile guard and the CI caches, with proofs (done).
3. Encoder tables and serving, pooling (done).
4. The decoder's step with drafts, its refinement and proofs (done).
5. Loading, experts, vision, and the start of an engine, with proofs of the start (done).
6. Left: two attention implementations over one step's metadata; the serving keys of the head-major backend;
   the draft network's own attention; Granite's deepstack buffers.
7. Loading and pooling, with their proofs (done).

## 8. Not modelled

* **Floating-point results**: arithmetic of kernels, sampling and normalisation, attention sinks, fp8 scales, soft cap,
  quantised checkpoints. Models know which values meet, not what they add up to. Rejection of *sampled* drafts is
  distributional and left out; greedy verification is modelled.
* **The device**: its blocked layout, memory, transfers, and the collectives.
* **The attention warm-up driver**: a loop without state that chooses the layers AttnServing's recorder runs for.
* **vLLM**: scheduler, block pool, block tables, encoder cache and Dynamo are modelled only as `src/` uses them and marked
  external. The vision scheduler's packing order and `compute_mm_encoder_budget` are upstream's.
* **Within modelled parts**: exceptions inside the vision encoder; a dummy loader; the second runner's profile run; weight
  reload (its dummy runs are in DecoderStep).
  Two premises of ModelLoad: the loader zeroes a row-parallel bias off rank 0, a pooling head casts to float32 unless told otherwise.
* **Tools**: benchmarks, result upload, release locking, build. Sequential, and nothing in the engine depends on them.
  An orphaned temporary file of a killed uv save has no property: the code promises nothing about it.
