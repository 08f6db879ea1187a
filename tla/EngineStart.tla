---------------------------- MODULE EngineStart ----------------------------
(***************************************************************************)
(* How a configuration becomes a running engine.                           *)
(*                                                                         *)
(* The front process imports vLLM (which registers the platform), builds   *)
(* the engine's configuration through the platform's hooks and spawns the  *)
(* engine, which imports vLLM anew, runs the same hooks again on the       *)
(* configuration it was sent, and starts a worker: in the same process     *)
(* (the uni executor) or in one more.  Without multiprocessing the front   *)
(* process is the engine.  What a process knows of its own (the environ-   *)
(* ment as cached at import, the gate on Triton, the platform's class      *)
(* attributes, its thread pools) does not travel with the configuration.   *)
(*                                                                         *)
(* A number that no user gave is 0 (None); a list that none gave is Unset. *)
(***************************************************************************)
EXTENDS KvLadders, EncoderTables

CONSTANTS
    Users,          \* command lines (see UsersTypes)
    Runners,        \* values of SPYRE_MODEL_RUNNER the environment may take
    PrefillBucket,  \* _DEFAULT_PREFILL_BUCKET
    DefaultSeqs,    \* _DEFAULT_MAX_NUM_SEQS
    DerivedLen,     \* _DEFAULT_DERIVED_MAX_MODEL_LEN
    BlockMultiple, DefaultBlock, \* _BLOCK_SIZE_MULTIPLE, _DEFAULT_BLOCK_SIZE
    VllmBudget, VllmSeqs, \* vLLM's defaults for the two scheduler limits
    MaxDraftBatch   \* MAX_DFLASH_BATCH_SIZE

Features == {"dp", "pp", "alibi", "fly", "bfloat16", "quantized", "hisparse", "watermark",
             "aux_output", "sharded", "mm_cudagraph", "pcp", "future", "image"}
AllRunners == {"v1", "v2"}

\* direct: the configuration is built without EngineArgs.  cpus: what each source of
\* get_cpu_count reports.  drafts: draft tokens of DFlash, 0 without speculation.
UsersTypes ==
    [eager : BOOLEAN, pooling : BOOLEAN, direct : BOOLEAN, model_len : Nat \ {0}, len : Nat,
     budget : Nat, seqs : Nat, sizes : SUBSET Nat, block : Nat, blocks : Nat,
     world : Nat \ {0}, backend : {"none", "uni", "mp"}, multiprocessing : BOOLEAN,
     machine : {"x86", "x86_triton", "power"}, omp : Nat, update : BOOLEAN,
     cpus : [given : Nat, quota : Nat, cores : Nat], features : SUBSET Features, drafts : Nat,
     logprobs : BOOLEAN, ladder : LadderNames, kv_buckets : SUBSET Nat]

ASSUME StartAssumption ==
    /\ Users \subseteq UsersTypes /\ Runners \subseteq AllRunners
    /\ {PrefillBucket, DefaultSeqs, DerivedLen, BlockMultiple, DefaultBlock, VllmBudget,
        VllmSeqs, MaxDraftBatch} \subseteq Nat \ {0}
    /\ DefaultBlock % BlockMultiple = 0
    /\ \A u \in Users : \E m \in u.sizes \cup {0} : \A s \in u.sizes : s <= m \* a list ends

\* bound: the tables reach every length a pooling user may ask for.
ASSUME PoolingAssumption ==
    \A u \in Users : u.pooling => {u.len, u.model_len} \subseteq 0..(Stick * 2^MaxDoublings)

VARIABLES
    user,       \* what was asked for
    env,        \* os.environ, which children inherit
    at,         \* the step that comes next, or "refused"
    cfg,        \* VllmConfig
    settled,    \* VllmConfig when the front process was done with it
    recorded,   \* _user_max_num_batched_tokens of the process that runs the hooks
    front, engine, worker \* what each process knows: cached env, HAS_TRITON, threads

startVars == <<user, env, at, cfg, settled, recorded, front, engine, worker>>

NoConfig == [worker_cls |-> "none"]
NoProcess == [runner |-> "none", triton |-> FALSE, threads |-> 0]

(***************************************************************************)
(* Importing vLLM: register() caches the runner, pins it, and lets vLLM    *)
(* see Triton or hides it.  Thread pools are sized when torch is imported. *)
(***************************************************************************)
HasTritonCpu == user.machine = "x86_triton"

Imported == [runner |-> env.runner, triton |-> env.runner = "v2" /\ HasTritonCpu,
             threads |-> env.omp]

Pinned(runner) == [env EXCEPT !.pinned = runner]

ImportFront ==
    /\ at = "import" /\ at' = "configure"
    /\ front' = Imported /\ env' = Pinned(env.runner)
    /\ UNCHANGED <<user, cfg, settled, recorded, engine, worker>>

\* A script may still set the variable before it builds its engine.
SetRunner ==
    /\ at \in {"import", "configure"}
    /\ \E r \in Runners : env' = [env EXCEPT !.runner = r]
    /\ UNCHANGED <<user, at, cfg, settled, recorded, front, engine, worker>>

(***************************************************************************)
(* EngineArgs, with _set_default_max_num_seqs_and_batched_tokens_args and  *)
(* create_model_config as patched by pre_register_and_update.              *)
(***************************************************************************)
ModelLen == IF user.len # None THEN user.len ELSE Min({user.model_len, DerivedLen})

SeqsOr(default) == IF user.seqs # None THEN user.seqs ELSE default

Arguments ==
    [eager |-> user.eager, mode |-> "vllm", pooling |-> user.pooling,
     max_model_len |-> ModelLen,
     max_num_batched_tokens |-> IF user.budget # None THEN user.budget ELSE VllmBudget,
     max_num_seqs |-> SeqsOr(IF user.direct THEN VllmSeqs ELSE Min({VllmSeqs, DefaultSeqs})),
     query_buckets |-> {}, compile_sizes |-> user.sizes,
     block_size |-> user.block, user_block |-> user.block # None, blocks |-> user.blocks,
     \* normalize_speculative_config: no prefix caching with DFlash, unless asked for
     prefix |-> user.direct \/ user.drafts = 0,
     backend |-> IF user.backend # "none" THEN user.backend
                 ELSE IF user.world = 1 THEN "uni" ELSE "mp",
     world |-> user.world, features |-> user.features, drafts |-> user.drafts,
     worker_cls |-> "auto"]

\* The budget as the command line gave it, once EngineArgs has been through the patch.
RecordedBudget == IF user.direct THEN recorded ELSE user.budget

(***************************************************************************)
(* apply_config_platform_defaults.                                         *)
(***************************************************************************)
LargestSize(c, given) ==
    IF given # None /\ c.max_num_batched_tokens = given THEN given
    ELSE Min({c.max_num_batched_tokens, PrefillBucket})

DefaultSizes(c, given) ==
    LET largest == LargestSize(c, given)
        seqs == Min({c.max_num_seqs, largest}) IN
    {largest, seqs} \cup (IF largest > PrefillBucket THEN {PrefillBucket} ELSE {})
      \cup {s \in {2^k : k \in 0..LadderBits} : s < seqs}

\* Mutant: the sizes are derived on every pass.
DerivedAgain(c, given) ==
    IF c.pooling THEN ShapeDefaults(c)
    ELSE [c EXCEPT !.compile_sizes = DefaultSizes(c, given)]

WithSizes(c, given) ==
    IF c.pooling THEN ShapeDefaults(c)
    ELSE IF c.compile_sizes # Unset THEN c
    ELSE [c EXCEPT !.compile_sizes = DefaultSizes(c, given)]

PlatformDefaults(c, given) ==
    IF c.eager THEN [c EXCEPT !.mode = "none"]
    ELSE KeepsToSizes(WithSizes([c EXCEPT !.mode = "stock"], given))

\* post_init_cudagraph_sizes (vLLM) makes an empty list of None.
SizesSettled(c) == IF c.compile_sizes = Unset THEN [c EXCEPT !.compile_sizes = {}] ELSE c

(***************************************************************************)
(* check_and_update_config.                                                *)
(***************************************************************************)
Forced == {"watermark", "future"} \* config fields that outrank the pin

\* vLLM: use_v2_model_runner.
UseV2(c, pinned) == pinned = "v2" \/ c.features \cap Forced # {}

\* Mutant: the runner as cached at import.
CachedRunner(process) == process.runner

RunnerNow(process) == env.runner

GateHolds(runner, process) ==
    /\ process.triton = (runner = "v2" /\ HasTritonCpu)
    /\ runner = "v2" => process.triton \/ user.machine = "power"

\* bfloat16 is refused with ranks and with quantized weights.
Unsupported(c, runner) ==
    {"dp", "pp", "alibi", "fly"}
    \cup (IF c.world > 1 \/ "quantized" \in c.features THEN {"bfloat16"} ELSE {})
    \cup (IF runner = "v1" THEN {"hisparse", "watermark", "aux_output"}
          ELSE {"sharded", "mm_cudagraph", "pcp"})

AlignUpTo(n, multiple) == CeilDiv(n, multiple) * multiple

AlignedBlock(c) == IF c.user_block THEN AlignUpTo(c.block_size, BlockMultiple) ELSE DefaultBlock

PowerOfTwo(n) == n \in {2^k : k \in 0..LadderBits}

(* configure_threading. *)
Detected == IF user.cpus.given > 0 THEN user.cpus.given
            ELSE IF user.cpus.quota > 0 THEN user.cpus.quota ELSE user.cpus.cores

PerWorker(c) == CeilDiv(Detected, c.world)

OmpThreads(c) == IF user.update THEN PerWorker(c) ELSE env.omp

Accepted(c, runner, process) ==
    /\ c.features \cap Unsupported(c, runner) = {}
    /\ runner = "v2" => c.drafts = 0
    /\ user.update => Detected > 0
    /\ GateHolds(runner, process)
    /\ UseV2(c, runner) <=> runner = "v2"
    /\ PowerOfTwo(AlignedBlock(c))

\* CpuPlatform turns "uni" into "mp"; _maybe_uniproc turns it back for one worker.
Backend(c) == IF c.world = 1 /\ c.backend = "uni" THEN "uni" ELSE "mp"

BlocksFor(c) == c.max_num_seqs * CeilDiv(c.max_model_len, c.block_size) + 1

WithBlocks(c) == IF c.blocks # None \/ c.pooling THEN c ELSE [c EXCEPT !.blocks = BlocksFor(c)]

\* Mutant: the pages are counted before the block is aligned.
CountThenAlign(c, runner) ==
    LET d == WithBlocks([c EXCEPT !.block_size = IF @ = None THEN DefaultBlock ELSE @]) IN
    [d EXCEPT !.worker_cls = IF @ = "auto" THEN runner ELSE @,
              !.backend = Backend(d), !.block_size = AlignedBlock(c),
              !.prefix = @ /\ ~c.pooling]

Updated(c, runner) ==
    WithBlocks([c EXCEPT !.worker_cls = IF @ = "auto" THEN runner ELSE @,
                         !.backend = Backend(c), !.block_size = AlignedBlock(c),
                         !.prefix = @ /\ ~c.pooling])

\* One pass of the hooks in a process.
Hooks(c, given, process) ==
    LET d == SizesSettled(PlatformDefaults(c, given))
        runner == RunnerNow(process) IN
    IF Accepted(d, runner, process)
    THEN /\ cfg' = Updated(d, runner)
         /\ env' = [Pinned(runner) EXCEPT !.omp = OmpThreads(d)]
    ELSE cfg' = NoConfig /\ UNCHANGED env

Then(next) == at' = IF cfg' = NoConfig THEN "refused" ELSE next

Configure ==
    /\ at = "configure"
    /\ recorded' = RecordedBudget
    /\ Hooks(Arguments, RecordedBudget, front)
    /\ Then("spawn") /\ settled' = cfg'
    /\ UNCHANGED <<user, front, engine, worker>>

(***************************************************************************)
(* The engine's process.  vLLM rewrites the compilation mode on its way.   *)
(***************************************************************************)
Spawn ==
    /\ at = "spawn"
    /\ IF user.multiprocessing
       THEN /\ at' = "reconfigure" /\ engine' = Imported /\ env' = Pinned(env.runner)
            /\ recorded' = None
            /\ \E m \in {"none", "stock", "vllm"} : cfg' = [cfg EXCEPT !.mode = m]
       ELSE at' = "load" /\ engine' = front /\ UNCHANGED <<env, recorded, cfg>>
    /\ UNCHANGED <<user, settled, front, worker>>

Reconfigure ==
    /\ at = "reconfigure"
    /\ Hooks(cfg, recorded, engine)
    /\ Then("load")
    /\ UNCHANGED <<user, settled, recorded, front, engine, worker>>

\* apply_in_process_threading.
\* Mutant: the worker keeps the pools of its process.
AsImported(process) == process

InProcess(process) ==
    IF user.multiprocessing \/ cfg.backend # "uni" \/ env.omp = 0 THEN process
    ELSE [process EXCEPT !.threads = env.omp]

\* vLLM: the slots a drafting request needs beside its block.
DraftSlots == cfg.drafts

\* validate_dflash_config, in the model runner's constructor.
DraftsServed ==
    cfg.drafts > 0 =>
        /\ ~cfg.eager /\ cfg.world = 1 /\ cfg.max_num_seqs <= MaxDraftBatch
        /\ ~cfg.prefix /\ "image" \notin cfg.features
        /\ cfg.max_num_batched_tokens >= cfg.max_num_seqs * (cfg.drafts + 1 + DraftSlots)

StartWorker ==
    /\ at = "load"
    /\ at' = IF DraftsServed THEN "warm" ELSE "refused"
    /\ worker' = InProcess(IF cfg.backend = "mp" THEN Imported ELSE engine)
    /\ UNCHANGED <<user, env, cfg, settled, recorded, front, engine>>

StartInit ==
    /\ user \in Users
    /\ \E r \in Runners : env = [runner |-> r, pinned |-> "none", omp |-> user.omp]
    /\ at = "import" /\ cfg = NoConfig /\ settled = NoConfig /\ recorded = None
    /\ front = NoProcess /\ engine = NoProcess /\ worker = NoProcess

Start == ImportFront \/ SetRunner \/ Configure \/ Spawn \/ Reconfigure \/ StartWorker

(***************************************************************************)
(* Properties.                                                             *)
(***************************************************************************)
Running == at \in {"warm", "dummies", "serve"}

\* The hooks run twice on one configuration, in processes that know different things;
\* the engine serves what the front process settled.  (The one exception: a pooling
\* engine with its own sizes is narrowed again.)
SecondPassAgrees ==
    at = "load" \/ Running =>
        \/ cfg = settled
        \/ cfg.pooling /\ user.sizes \notin {Unset, {}}

\* Every length the engine may schedule has a bucket on the block size the hooks
\* settled on, in tokens and, converted to pages, in blocks (_pad_num_blocks asserts it).
EveryLengthHasABucket ==
    Running /\ ~cfg.pooling =>
        LET buckets == Configured(user.ladder, cfg.block_size, user.kv_buckets, cfg.max_model_len)
            pages == {CeilDiv(b, cfg.block_size) : b \in buckets} IN
        \A n \in 1..CeilDiv(cfg.max_model_len, cfg.block_size) :
            /\ RoundUp(n, pages) # None
            /\ RoundUp(Min({n * cfg.block_size, cfg.max_model_len}), buckets) # None

\* Unless the user sized the cache, every sequence of the batch may reach the longest
\* context at once, besides the null page, on pages of the size the worker allocates.
BlocksFillTheBatch ==
    Running /\ ~cfg.pooling /\ user.blocks = None =>
        /\ \A n \in {1, cfg.max_model_len - 1, cfg.max_model_len} :
              cfg.max_num_seqs * CeilDiv(n, cfg.block_size) <= cfg.blocks - 1
        /\ (cfg.blocks - 1) * cfg.block_size
              < cfg.max_num_seqs * (cfg.max_model_len + cfg.block_size)

\* The configuration the engine serves with has room and a bucket for every length it
\* admits: the two conditions above, of the block size, the block count and the ladder
\* that different hooks settle one after the other.
EveryLengthFits == EveryLengthHasABucket /\ BlocksFillTheBatch

\* Whatever the script did to the environment and when: in the process that runs the
\* model, the worker's class, vLLM's own choice of runner and Triton agree.
RunnerAgrees ==
    Running =>
        /\ (cfg.worker_cls = "v2") = UseV2(cfg, env.pinned)
        /\ worker.triton = (cfg.worker_cls = "v2" /\ HasTritonCpu)
        /\ cfg.features \cap Unsupported(cfg, cfg.worker_cls) = {}

\* The process that runs the model has the thread pools of its share of the CPUs,
\* by whichever of the ways there is from the front process to it.
WorkersKeepToBudget ==
    Running /\ user.update =>
        /\ worker.threads * cfg.world >= Detected
        /\ (worker.threads - 1) * cfg.world < Detected

=============================================================================
