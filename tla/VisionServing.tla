--------------------------- MODULE VisionServing ---------------------------
(***************************************************************************)
(* A multimodal engine with a compiled vision encoder, from its limits to  *)
(* the image tokens of its prompts.                                        *)
(*                                                                         *)
(* The platform's hook, in the front process, settles how large an image a *)
(* request may carry and keeps it in a class attribute; prompts are        *)
(* checked there against it.  The engine compiles its encoder at each      *)
(* token budget during warm-up, and a step packs the images it scheduled   *)
(* into budgets: host buffers kept from the warm-up are refilled, and the  *)
(* budget's graph runs on them.  An image no budget fits runs the encoder  *)
(* uncompiled, which compiles in the middle of a request.                  *)
(*                                                                         *)
(* Sizes count image tokens.  An engine e is a tower's shape               *)
(* (VisionLayout) and limits:                                              *)
(*   eager                                                                 *)
(*   own      the largest item at the engine's own processor settings, in  *)
(*            placeholders, and pinpoints, the tile grids of a "tiles" one *)
(*   users    encoder_cudagraph_token_budgets, {} if not given             *)
(*   batched  max_num_batched_tokens; chunked, the absence of              *)
(*            --disable-chunked-mm-input                                   *)
(*   packs    Gemma 4's cap on packing                                     *)
(*   head     its attention heads' width, and heads their number           *)
(***************************************************************************)
EXTENDS VisionLayout, TowerHeads

CONSTANTS
    Engines,
    Prompts,     \* sequences of items
    MaxPrompts,  \* bound: prompts that arrive
    OtherLimits, \* what a second engine of the front process may leave in the attribute
    NoLimit

ASSUME EnginesAssumption ==
    \A e \in Engines :
        /\ e.kind \in {"grid", "tiles"} /\ e.merge \in Nat \ {0}
        /\ e.own \in Nat \ {0} /\ e.batched \in Nat \ {0}
        /\ IsFiniteSet(e.users) /\ e.users \subseteq Nat \ {0}
        /\ e.eager \in BOOLEAN /\ e.packs \in BOOLEAN
        /\ e.head \in Nat \ {0} /\ e.heads \in Nat \ {0}
        /\ IF e.kind = "grid" THEN e.head % (IF e.packs THEN 4 ELSE 2) = 0
           ELSE /\ {e.side, e.window, e.query} \subseteq Nat \ {0} /\ ~e.packs
                /\ e.window = e.query * e.merge /\ e.side % e.window = 0
                /\ e.pinpoints # {} /\ IsFiniteSet(e.pinpoints)
                /\ \A p \in e.pinpoints : p.h \in Nat \ {0} /\ p.w \in Nat \ {0}

ASSUME VisionAssumption ==
    /\ \A prompt \in Prompts : prompt \in Seq([h : Nat \ {0}, w : Nat \ {0}])
    /\ MaxPrompts \in Nat /\ OtherLimits \subseteq Nat \cup {NoLimit} /\ NoLimit \notin Nat

VARIABLES
    engine,    \* the engine's configuration
    at,        \* the step that comes next, or "refused"
    limit,     \* SpyrePlatform._vision_token_limits, the same for every modality
    compute,   \* max_num_encoder_input_tokens and encoder_cache_size
    prompts,   \* how many have arrived
    items,     \* the items of admitted prompts, in order, and their state
    manager,   \* its token_budgets, _pack_budgets and max_batch_size
    staging,   \* the host buffers of each compiled budget
    outputs,   \* what the latest encoder call gave each of its items
    borrowed   \* a second engine has replaced the limit

visionVars == <<engine, at, limit, compute, prompts, items, manager, staging, outputs, borrowed>>

Largest(S) == CHOOSE m \in S : \A x \in S : x <= m
Smallest(S) == CHOOSE m \in S : \A x \in S : m <= x
Larger(a, b) == IF a >= b THEN a ELSE b

(***************************************************************************)
(* Placeholders of an item in the prompt.  A tiled image's are its tiles'  *)
(* rows with a newline each, and the base tile.                            *)
(***************************************************************************)
Placeholders(e, item) ==
    IF e.kind = "grid" THEN Tokens(e, item)
    ELSE LET width == e.side \div e.merge IN
         (item.h * width) * (item.w * width + 1) + TokensPerTile(e)

(***************************************************************************)
(* _set_vision_token_limit.                                                *)
(***************************************************************************)
LimitOf(e) ==
    IF e.eager THEN NoLimit ELSE IF e.users # {} THEN Largest(e.users) ELSE e.own

\* Mutant: upstream's budgets stay as they are.
OwnBudget(e) == e.batched

\* compute_mm_encoder_budget, which upstream calls with the engine's own largest item and
\* the platform with the limit.
ComputeFor(e) ==
    Larger(Larger(e.batched, e.own), IF LimitOf(e) = NoLimit THEN 0 ELSE LimitOf(e))

ConfigureLimits ==
    /\ at = "configure"
    /\ limit' = LimitOf(engine) /\ compute' = ComputeFor(engine)
    /\ at' = IF ~engine.chunked /\ compute' > engine.batched THEN "refused" ELSE "start"
    /\ UNCHANGED <<engine, prompts, items, manager, staging, outputs, borrowed>>

\* Another engine is configured in the same front process.
ConfigureAnother ==
    /\ at = "serve" /\ ~borrowed
    /\ limit' \in OtherLimits /\ borrowed' = TRUE
    /\ UNCHANGED <<engine, at, compute, prompts, items, manager, staging, outputs>>

(***************************************************************************)
(* SpyreEncoderGraphManager's limits.                                      *)
(***************************************************************************)
MaxTiles(e) == Largest({Tiles(p) : p \in e.pinpoints})
PowerOfTwoFrom(n) == Smallest({p \in {2^k : k \in 0..n} : n <= p})

\* The processor tiles an image by one of the pinpoints: what is no larger than the largest of
\* them has no more tiles.
ASSUME TilesAssumption ==
    \A e \in Engines, prompt \in Prompts : \A n \in DOMAIN prompt :
        e.kind = "tiles" /\ Placeholders(e, prompt[n]) <= e.own => Tiles(prompt[n]) <= MaxTiles(e)

get_encoder_cudagraph_budget_range(e) ==
    IF e.kind = "grid" THEN <<PatchMultiple(e) \div PatchesPerToken(e), e.own>>
    ELSE <<TokensPerTile(e), PowerOfTwoFrom(MaxTiles(e)) * TokensPerTile(e)>>

\* Upstream: the user's, or powers of two of the smallest up to the largest.
GeneratedBudgets(range) ==
    {range[2]} \cup {b \in {range[1] * 2^k : k \in 0..range[2] \div range[1]} : b < range[2]}

\* Rounded up so that a budget's patches are a whole vision_patch_multiple.
AlignedBudgets(e, budgets) ==
    {RoundUp(b, PatchMultiple(e) \div PatchesPerToken(e)) : b \in budgets}

token_budgets(e) ==
    AlignedBudgets(e, IF e.users # {} THEN e.users
                      ELSE GeneratedBudgets(get_encoder_cudagraph_budget_range(e)))

\* vision_max_items_per_call; 0 for none.
CallCap(e) == IF e.kind = "grid" THEN SegmentItems ELSE 0

max_batch_size(e) ==
    LET range == get_encoder_cudagraph_budget_range(e)  upstream == range[2] \div range[1] IN
    IF CallCap(e) # 0 /\ CallCap(e) < upstream THEN CallCap(e) ELSE upstream

Fitting(tokens, budgets) == {b \in budgets : tokens <= b}

pack_budgets(e) ==
    LET all == token_budgets(e)  fit == Fitting(e.own, all) IN
    IF fit = {} THEN all ELSE {b \in all : b <= Smallest(fit)}

BudgetsCoverItems(e) ==
    get_encoder_cudagraph_budget_range(e)[2] <= Largest(token_budgets(e))

StartEngine ==
    /\ at = "start"
    /\ at' = IF engine.eager THEN "serve"
             ELSE IF BudgetsCoverItems(engine) THEN "warm" ELSE "refused"
    /\ manager' = [budgets |-> token_budgets(engine), pack |-> pack_budgets(engine),
                   most |-> max_batch_size(engine)]
    /\ UNCHANGED <<engine, limit, compute, prompts, items, staging, outputs, borrowed>>

\* capture: every budget's graph, and its buffers of padding.
Warm ==
    /\ at = "warm" /\ at' = "serve"
    /\ staging' = [b \in manager.budgets |-> Blank(b * PatchesPerToken(engine))]
    /\ UNCHANGED <<engine, limit, compute, prompts, items, manager, outputs, borrowed>>

(***************************************************************************)
(* validate_request, in the front process.                                 *)
(***************************************************************************)
Admitted(prompt) ==
    limit # NoLimit => \A n \in DOMAIN prompt : Placeholders(engine, prompt[n]) <= limit

Arrive(prompt) ==
    /\ at = "serve" /\ prompts < MaxPrompts
    /\ prompts' = prompts + 1
    /\ items' = IF Admitted(prompt)
                THEN items \o [n \in DOMAIN prompt |->
                        [id |-> Len(items) + n, h |-> prompt[n].h, w |-> prompt[n].w,
                         state |-> "waiting"]]
                ELSE items
    /\ UNCHANGED <<engine, at, limit, compute, manager, staging, outputs, borrowed>>

In(state) == {n \in DOMAIN items : items[n].state = state}

Moved(S, state) ==
    [n \in DOMAIN items |-> IF n \in S THEN [items[n] EXCEPT !.state = state] ELSE items[n]]

\* vLLM: the oldest waiting items that the step's encoder budget has room for.
Schedule ==
    /\ at = "serve" /\ In("running") = {}
    /\ \E last \in In("waiting") :
          LET batch == {n \in In("waiting") : n <= last}
              sum[n \in 0..last] ==
                  IF n = 0 THEN 0
                  ELSE sum[n - 1] + IF n \in batch THEN Placeholders(engine, items[n]) ELSE 0
          IN
          /\ sum[last] <= compute
          /\ items' = Moved(batch, "running")
    /\ UNCHANGED <<engine, at, limit, compute, prompts, manager, staging, outputs, borrowed>>

(***************************************************************************)
(* _execute_local.  Items above the cap on packing run alone, after the    *)
(* others, which see only the budgets up to the cap's.                     *)
(***************************************************************************)
Size(item) == Tokens(engine, item)
SizeOf(group) == LET start == Starts(engine, group) IN start[Len(start)]

Small == {n \in In("running") : engine.packs => Size(items[n]) <= engine.own}

\* Mutant: the packed group's budgets stay in force.
PackedThroughout == IF engine.packs THEN manager.pack ELSE manager.budgets

Visible == IF engine.packs /\ Small # {} THEN manager.pack ELSE manager.budgets

\* Upstream packs the smallest first, as many as the item limit and the largest visible
\* budget allow; an item that fits none is alone.
Before(a, b) == Size(a) < Size(b) \/ (Size(a) = Size(b) /\ a.id < b.id)
SmallestFirst(S) ==
    CHOOSE order \in SetToSeqs({items[n] : n \in S}) :
        \A i, j \in DOMAIN order : i < j => Before(order[i], order[j])

Packs ==
    LET pool == IF Small # {} THEN Small ELSE In("running")
        most == IF Small # {} THEN Larger(manager.most, 1) ELSE 1 IN
    {S \in (SUBSET pool) \ {{}} :
        /\ Cardinality(S) <= most
        /\ Cardinality(S) = 1 \/ SizeOf(SmallestFirst(S)) <= Largest(Visible)}

Encoded(group, buffer) ==
    LET chunks == postprocess_encoder_output(engine, vision_project(engine, buffer), group) IN
    [id \in {group[i].id : i \in DOMAIN group} |->
        chunks[CHOOSE i \in DOMAIN group : group[i].id = id]]

\* _run_budget_graph: the smallest budget's buffers are refilled and its graph runs on them.
RunBudget(group, S) ==
    \E budget \in Fitting(SizeOf(group), Visible) :
        /\ \A b \in Fitting(SizeOf(group), Visible) : budget <= b
        /\ \E buffer \in {_pad_groups(staging[budget], vision_inputs(engine, group),
                                     PadGroupCount(engine))} :
              /\ staging' = [staging EXCEPT ![budget] = buffer]
              /\ outputs' = Encoded(group, buffer)
        /\ items' = Moved(S, "done")

\* encoder_eager_forward: a buffer of its own, a whole vision_patch_multiple.
RunEagerly(group) ==
    LET inputs == vision_inputs(engine, group)
        blank == Blank(RoundUp(Len(inputs), PatchMultiple(engine))) IN
    \E buffer \in {_pad_groups(blank, inputs, PadGroupCount(engine))} :
        outputs' = Encoded(group, buffer)

RunLate(group, S) ==
    /\ Fitting(SizeOf(group), Visible) = {}
    /\ RunEagerly(group)
    /\ items' = Moved(S, "late")
    /\ UNCHANGED staging

Execute ==
    /\ at = "serve" /\ ~engine.eager
    /\ \E S \in Packs : RunBudget(SmallestFirst(S), S) \/ RunLate(SmallestFirst(S), S)
    /\ UNCHANGED <<engine, at, limit, compute, prompts, manager, borrowed>>

\* As they came.
InOrder(S) ==
    CHOOSE order \in SetToSeqs({items[n] : n \in S}) :
        \A i, j \in DOMAIN order : i < j => order[i].id < order[j].id

(***************************************************************************)
(* embed_multimodal, without the manager: the items in order, as many at a *)
(* time as a call may carry.                                               *)
(***************************************************************************)
EmbedEagerly ==
    /\ at = "serve" /\ engine.eager /\ In("running") # {}
    /\ LET first(n) == Cardinality({m \in In("running") : m < n})
           S == {n \in In("running") : CallCap(engine) = 0 \/ first(n) < CallCap(engine)} IN
       /\ RunEagerly(InOrder(S))
       /\ items' = Moved(S, "done")
    /\ UNCHANGED <<engine, at, limit, compute, prompts, manager, staging, borrowed>>

VisionInit ==
    /\ engine \in Engines /\ at = "configure" /\ limit = NoLimit /\ compute = 0 /\ prompts = 0
    /\ items = <<>> /\ manager = <<>> /\ staging = <<>> /\ outputs = <<>> /\ borrowed = FALSE

VisionNext ==
    \/ ConfigureLimits \/ ConfigureAnother \/ StartEngine \/ Warm
    \/ \E prompt \in Prompts : Arrive(prompt)
    \/ Schedule \/ Execute \/ EmbedEagerly

VisionSpec == VisionInit /\ [][VisionNext]_visionVars

(***************************************************************************)
(* Properties.                                                             *)
(***************************************************************************)
\* Whatever was packed with an image, on whatever buffers and after whatever calls: the
\* tokens at its placeholders are the merge windows of that image, in its raster order, and
\* were encoded with its own patches (its own tile's) and no others, padding included.
TokensAreOwn ==
    \A n \in DOMAIN outputs : outputs[n] = OwnTokens(engine, items[n])

\* Once compiled, the encoder is not run without a budget, unless a second engine of the
\* process has replaced the limit that requests are checked against.
LateOnlyIfBorrowed == In("late") # {} => borrowed

\* An image that a compiled engine admitted fits the scheduler's encoder budget and cache by
\* itself: it does not wait at the head of the line for ever.
EveryAdmittedItemFits ==
    \A n \in In("waiting") :
        engine.eager \/ borrowed \/ Placeholders(engine, items[n]) <= compute

\* The heads as laid out after loading rotate and meet as the checkpoint's do.
TowerAttendsAsStock ==
    at = "serve" /\ prompts = 0 =>
        IF engine.kind = "tiles" THEN SiglipMeets(engine.heads, engine.head)
        ELSE IF engine.packs THEN RotatesAs(Gemma(engine.head), GemmaStock(engine.head))
        ELSE RotatesAs(Pixtral(engine.head), PixtralStock(engine.head))
=============================================================================
