--------------------------- MODULE EncoderServing ---------------------------
(***************************************************************************)
(* Pooling requests through an encoder: warmup, then steps.                *)
(*                                                                         *)
(* A step pads its batch to a body, chooses a rectangle or groups (the     *)
(* plan), lays the tokens out, attends, and pools rows into answers.  The  *)
(* layout of a rectangle (`grid') is written while the metadata is built   *)
(* and read twice later, by _preprocess and _pool; it outlives the step.   *)
(* The mask of a rectangle is published besides, for layers traced into    *)
(* the model's graph (mode "inline"), which never see the plan.            *)
(*                                                                         *)
(* Every shape met for the first time compiles.  `warm' is what warmup     *)
(* compiled and `late' what the current step compiles that warmup did not. *)
(* What a step compiled is not remembered: each step is compared with      *)
(* warmup alone.                                                           *)
(*                                                                         *)
(* A row of the model's input has three parts, each moved by code of its   *)
(* own: a token, a position and a segment.  A row of hidden states is the  *)
(* set of values the stores to it may leave; a value says which input row  *)
(* it belongs to and which it attended.                                    *)
(*                                                                         *)
(* The second runner (engine.v2) keeps its own plan in the model's state   *)
(* (SpyreEncoderOnlyModelState): the same steps in the same order, with    *)
(* other width caps, and no rectangle for a multimodal model.              *)
(***************************************************************************)
EXTENDS EncoderTables, Sequences

CONSTANTS
    Users,         \* configurations a user may start with
    PromptBatches, \* prompt lengths of the batches the scheduler may form
    EagerDummy,    \* tokens of the one dummy run of an eager engine
    Offset         \* pad_token_id + 1 of a RoBERTa, added to its positions

VARIABLES
    engine,    \* the limits the platform settled on
    tables,    \* encoder_shape_tables of those limits
    phase,     \* "bodies", "rects", "ragged" (warmup) or "serving"
    todo,      \* bodies or rectangles still to be warmed in this phase
    warm,      \* keys compiled by warmup
    warmedRows,\* _warmed_rows: bodies whose attention kernels are traced
    late,      \* keys this step compiles
    stage,     \* "idle", "planned", "laid", "attended" or "answered"
    prompts,   \* lengths of the step's requests
    input,     \* the requests that are images, and whether the step has segments
    buffer_rows, \* _encoder_buffer_rows
    plan,      \* encoder_plan on the metadata
    grid,      \* _encoder_grid
    published, \* EncoderGrid.mask
    segments,  \* spyre_token_type_ids, reused by every step
    mm,        \* _spyre_mm_token_mask and _spyre_has_text_tokens of CLIP
    hidden,    \* rows of the step: input rows when laid, values once attended
    answers    \* pooled output and task of each request

pooling_vars == <<engine, tables, phase, todo, warm, warmedRows, late, stage, prompts, input,
                  buffer_rows, plan, grid, published, segments, mm, hidden, answers>>
start == <<engine, tables, phase, todo, warm, warmedRows>>
step == <<late, stage, prompts, input, buffer_rows, plan, grid, published, segments, mm, hidden,
          answers>>

Modes == {"eager", "opaque", "inline"}
\* One segment, two (a cross-encoder), or text and images.
Models == {"text", "pair", "clip"}
\* Where the pooler's heads run: FP32 linear heads keep it on the host.
Tails == {"spyre", "host"}
SeqPools == {"CLS", "LAST", "MEAN"}
Tasks == {"embed", "token_embed"}

\* Sizes are those the bounded powers of two can express; a prompt has tokens.
ASSUME UsersAssumption ==
    /\ Offset \in Nat /\ EagerDummy \in Nat \ {0}
    /\ PromptBatches \subseteq Seq(Nat \ {0})
    /\ \A user \in Users : IsFiniteSet(user.compile_sizes)
    /\ Users \subseteq
         [max_model_len : 1..(Stick * 2^MaxDoublings), max_num_batched_tokens : Nat \ {0},
          max_num_seqs : 1..2^(MaxDoublings + 4), query_buckets : SUBSET (1..(Stick * 2^MaxDoublings)),
          compile_sizes : SUBSET Nat, mode : Modes, pool : SeqPools, causal : BOOLEAN,
          v2 : BOOLEAN, model : Models, tail : Tails, positions : Nat]

Count(b) == Len(b)
\* Packed row of the first token of request i, or, one past the last request, all tokens.
Start(b, i) ==
    LET sum[k \in 0..Len(b)] == IF k = 0 THEN 0 ELSE sum[k - 1] + b[k] IN sum[i - 1]
Total(b) == Start(b, Len(b) + 1)
Longest(b) == GreatestOf({b[i] : i \in DOMAIN b})

\* What vLLM's scheduler may send: whole prompts within the engine's limits.
Schedulable(e) ==
    {b \in PromptBatches : /\ Count(b) \in 1..e.max_num_seqs
                     /\ Total(b) <= e.max_num_batched_tokens
                     /\ Longest(b) <= e.max_model_len}

NoGrid == [extent |-> 0, width |-> 0, lens |-> <<>>]
\* Groups of a body no table lists: none.
GroupsAt(r) == IF r \in tables.bodies THEN tables.groups[r] ELSE {}

\* A RoBERTa's positions are offset into a table of e.positions rows (0: no such table).
cap_max_model_len_for_position_offset(e) ==
    LET usable == e.positions - Offset IN
    IF e.positions = 0 \/ usable < 1 \/ e.max_model_len <= usable THEN e
    ELSE [e EXCEPT !.max_model_len = usable]

Compiled == engine.mode # "eager"

(***************************************************************************)
(* SpyreShapeBucketer: a step pads to the smallest compile size that holds *)
(* it, and to nothing if none does.                                        *)
(***************************************************************************)
PaddedRows(tokens) ==
    IF \E s \in engine.compile_sizes : tokens <= s
    THEN LeastOf({s \in engine.compile_sizes : tokens <= s}) ELSE tokens

(***************************************************************************)
(* build_encoder_plan: a rectangle of this body for the shortest length    *)
(* that holds every request, if the batch is not too wide for it; groups   *)
(* of equal extent otherwise, cut into declared widths.                    *)
(***************************************************************************)
Grid(x, lens) == [extent |-> x.extent, width |-> x.width, lens |-> lens]

\* SpyreEncoderOnlyModelState: multimodal batches stay packed.
Offered == IF engine.v2 /\ engine.model = "clip" THEN {} ELSE tables.rectangles

RectanglesFor(b, r) ==
    {x \in Offered : x.extent * x.width = r /\ Longest(b) <= x.extent}

RectangleFor(b, r) ==
    IF RectanglesFor(b, r) = {} THEN NoGrid
    ELSE LET x == CHOOSE x \in RectanglesFor(b, r) :
                     \A y \in RectanglesFor(b, r) : x.extent <= y.extent IN
         IF Count(b) <= x.width THEN Grid(x, b) ELSE NoGrid

\* Requests `from', `from' + 1, ... of members cut into powers of two up to cap.
Chunks(members, cap) ==
    LET cut[k \in 0..Len(members)] ==
            IF k = 0 THEN {}
            ELSE LET size == Lesser(FloorPow2(k), cap)
                     from == Len(members) - k + 1 IN
                 {SubSeq(members, from, from + size - 1)} \cup cut[k - size]
    IN cut[Len(members)]

\* The requests of one extent, in their order.
MembersOf(b, extent) ==
    LET among[k \in 0..Len(b)] ==
            IF k = 0 THEN <<>>
            ELSE IF AlignUpPow2(b[k]) = extent THEN Append(among[k - 1], k) ELSE among[k - 1]
    IN among[Len(b)]

\* Rows that are no body have no groups, or in the second runner those of the body
\* that would hold them.
_width_caps_for(r) ==
    IF ~engine.v2 \/ r \in tables.bodies THEN GroupsAt(r)
    ELSE IF \E body \in tables.bodies : r <= body
    THEN GroupsAt(LeastOf({body \in tables.bodies : r <= body}))
    ELSE GroupsAt(GreatestOf(tables.bodies))

GroupsFor(b, r) ==
    UNION {{[extent |-> x, members |-> m] :
               m \in Chunks(MembersOf(b, x), IF Compiled THEN WidthCap(_width_caps_for(r), x) ELSE 1)}
           : x \in {AlignUpPow2(b[i]) : i \in DOMAIN b}}

\* forceRagged and forced are warmup's.
PlanFor(b, r, forced, forceRagged) ==
    LET rect == IF forced # NoGrid THEN forced
                ELSE IF forceRagged THEN NoGrid ELSE RectangleFor(b, r) IN
    [rect |-> rect, groups |-> IF rect = NoGrid THEN GroupsFor(b, r) ELSE {}]

NoInput == [images |-> {}, typed |-> FALSE]
NoPlan == [rect |-> NoGrid, groups |-> {}]

(***************************************************************************)
(* Keys.  In mode "inline" a rectangle is part of the model's graph, which *)
(* then is one graph per rectangle; the ragged path goes through the       *)
(* opaque operator, as everything does in mode "opaque".                   *)
(***************************************************************************)
Key(kind, r, a, b) == [kind |-> kind, rows |-> r, a |-> a, b |-> b]
RectKey(kind, r, x) == Key(kind, r, x.extent, x.width)

\* warm_kernels: every declared shape of this body, once.
KernelKeys(r) ==
    IF r \in warmedRows \/ r \notin tables.bodies THEN {}
    ELSE {Key("group", r, g.extent, g.width) : g \in GroupsAt(r)}
         \cup (IF engine.mode = "inline" THEN {}
               ELSE {RectKey("rect", r, x) : x \in {x \in tables.rectangles : x.extent * x.width = r}})

\* Attention goes to the traced rectangle, or to SpyreEncoderAttentionImpl.forward.
Traced(mask) == engine.mode = "inline" /\ mask # NoGrid

ForwardKeys(p, mask, r) ==
    IF ~Compiled THEN {}
    ELSE IF Traced(mask) THEN {RectKey("block", r, mask)}
    ELSE {Key("body", r, 0, 0)} \cup KernelKeys(r)
         \cup (IF p.rect # NoGrid THEN {RectKey("rect", r, p.rect)}
               ELSE {Key("group", r, g.extent, Len(g.members)) : g \in p.groups})

\* pad_row_count_to_bucket
Padded(n) == CeilPow2(n)

OneTask(tasks) == \A i, j \in DOMAIN tasks : tasks[i] = tasks[j]

\* rect_pooling_method: CLS and MEAN read the rectangle as it is.
GridDirect(tasks, g) ==
    /\ g # NoGrid /\ engine.tail = "spyre"
    /\ OneTask(tasks) /\ tasks[1] = "embed" /\ engine.pool \in {"CLS", "MEAN"}

\* A batch of several tasks is sliced by its real lengths: one key for all those gathers.
PoolKeys(b, tasks, r, g) ==
    LET direct == GridDirect(tasks, g)
        lanes == IF direct /\ engine.pool = "MEAN" THEN Lesser(Padded(Len(b)), r \div g.extent)
                 ELSE Padded(Len(b)) IN
    IF ~Compiled \/ engine.tail = "host" THEN {}
    ELSE (IF g # NoGrid /\ ~direct /\ Total(b) # r THEN {Key("gather", r, r, 0)} ELSE {})
         \cup (IF ~OneTask(tasks) THEN {Key("slices", r, 0, 0)}
               ELSE IF tasks[1] = "token_embed"
               THEN {Key("gather", r, NextBucket(b[i], tables.lengths), 0) : i \in DOMAIN b}
               ELSE {Key("head", 0, lanes, 0)}
                    \cup (IF engine.pool # "MEAN" THEN {Key("gather", r, Padded(Len(b)), 0)}
                          ELSE IF direct THEN {Key("mean", r, g.extent, lanes)} ELSE {}))

(***************************************************************************)
(* Warmup.  Upstream's dummy batch splits its tokens evenly and gives the  *)
(* last request the rest.                                                  *)
(***************************************************************************)
DummyBatch(size) ==
    LET n == Lesser(size, engine.max_num_seqs) IN
    [i \in 1..n |-> (size \div n) + (IF i = n THEN size % n ELSE 0)]

\* warm_pooler_row_widths, and _warm_encoder_unpack's one gather.
\* Mutant: widths up to the limit on requests, which need not be a power of two.
WidthsBelowLimit(r) == {w \in {2^k : k \in 0..MaxDoublings + 4} : w <= engine.max_num_seqs /\ w <= r}

RowWidths(r) ==
    {w \in {2^k : k \in 0..MaxDoublings + 4} : w <= Padded(engine.max_num_seqs) /\ w <= r}

PoolerKeys(r) ==
    LET shapes == IF engine.pool # "MEAN" THEN {}
                  ELSE UNION {{[extent |-> x.extent, lanes |-> Lesser(w, x.width)] :
                                  w \in RowWidths(r)}
                              : x \in {x \in tables.rectangles : x.extent * x.width = r}}
        widths == RowWidths(r) \cup {s.lanes : s \in shapes} IN
    IF ~Compiled \/ engine.tail = "host" THEN {} ELSE
    {Key("gather", r, w, 0) : w \in widths} \cup {Key("head", 0, w, 0) : w \in widths}
    \cup {Key("mean", r, s.extent, s.lanes) : s \in shapes}
    \cup {Key("gather", r, x, 0) : x \in {x \in tables.lengths : x <= r}}
    \cup (IF tables.rectangles = {} THEN {} ELSE {Key("gather", r, r, 0)})
    \cup UNION {PoolKeys(DummyBatch(r), [i \in DOMAIN DummyBatch(r) |-> task], r, NoGrid) :
                   task \in Tasks}

\* _dummy_run on `size' tokens: a plan, its layout and mask, and the keys it reaches.
DummyRun(size, forced, forceRagged, extra) ==
    LET p == PlanFor(DummyBatch(size), size, forced, forceRagged) IN
    /\ buffer_rows' = size /\ grid' = p.rect /\ published' = p.rect
    /\ warm' = warm \cup ForwardKeys(p, p.rect, size) \cup extra
    /\ warmedRows' = IF Compiled /\ ~Traced(p.rect) /\ size \in tables.bodies
                     THEN warmedRows \cup {size} ELSE warmedRows
    /\ UNCHANGED <<engine, tables, late, stage, prompts, input, plan, segments, mm, hidden, answers>>

\* Sizes of the dummy calls.  Without compile sizes there is no bucketer: the first runner
\* then makes no call, the second one.
FirstPhase(e) == IF e.mode = "eager" \/ (e.v2 /\ e.compile_sizes = {})
                 THEN {Lesser(Greater(EagerDummy, e.max_num_seqs), e.max_num_batched_tokens)}
                 ELSE e.compile_sizes

\* Bodies whose paths are warmed: the bucketer's, or those of the dummy calls.
WarmedBodies == IF engine.v2 THEN FirstPhase(engine) ELSE engine.compile_sizes
TracedRectangles == {x \in Offered : x.extent * x.width \in WarmedBodies}
RaggedBodies == {r \in tables.bodies \cap WarmedBodies : GroupsAt(r) # {}}

DummyBody ==
    /\ phase = "bodies" /\ todo # {}
    /\ DummyRun(GreatestOf(todo), NoGrid, FALSE, PoolerKeys(GreatestOf(todo)))
    /\ todo' = todo \ {GreatestOf(todo)} /\ UNCHANGED phase

EmbedKey(r) == Key("embeds", r, r, 0)

\* The gather that lays a multimodal model's embeddings out, one per body.
_warm_encoder_embed_gather ==
    IF Compiled /\ ~engine.v2 /\ engine.model = "clip" /\ engine.tail = "spyre"
    THEN {EmbedKey(r) : r \in engine.compile_sizes} ELSE {}

\* _warm_encoder_inline_paths runs only where attention is traced.
BodiesDone ==
    /\ phase = "bodies" /\ todo = {}
    /\ IF engine.mode = "inline" /\ tables.rectangles # {} /\ engine.compile_sizes # {}
       THEN phase' = "rects" /\ todo' = TracedRectangles
       ELSE phase' = "serving" /\ todo' = {}
    /\ warm' = warm \cup _warm_encoder_embed_gather
    /\ UNCHANGED <<engine, tables, warmedRows, step>>

\* sorted(rectangles, reverse=True): longest first, then widest.
NextRectangle ==
    CHOOSE x \in todo : \A y \in todo :
        x.extent > y.extent \/ (x.extent = y.extent /\ x.width >= y.width)

WarmRectangle ==
    /\ phase = "rects" /\ todo # {}
    /\ LET x == NextRectangle IN
       /\ DummyRun(x.extent * x.width, Grid(x, [i \in 1..x.width |-> x.extent]), FALSE, {})
       /\ todo' = todo \ {x}
    /\ UNCHANGED phase

RectanglesDone ==
    /\ phase = "rects" /\ todo = {}
    /\ phase' = "ragged" /\ todo' = RaggedBodies
    /\ UNCHANGED <<engine, tables, warm, warmedRows, step>>

WarmRagged ==
    /\ phase = "ragged" /\ todo # {}
    /\ DummyRun(LeastOf(todo), NoGrid, TRUE, {})
    /\ todo' = todo \ {LeastOf(todo)} /\ UNCHANGED phase

RaggedDone ==
    /\ phase = "ragged" /\ todo = {}
    /\ phase' = "serving" /\ UNCHANGED <<engine, tables, todo, warm, warmedRows, step>>

(***************************************************************************)
(* A step.  Build is _determine_batch_execution_and_padding and            *)
(* _build_attention_metadata, LayOut _preprocess, Attend the model; the    *)
(* second runner's names are prepare_attn, prepare_inputs and pool.        *)
(***************************************************************************)
\* Images beside texts, and segments, where the model takes them.
Inputs(b) ==
    [images : IF engine.model = "clip" THEN SUBSET DOMAIN b ELSE {{}},
     typed : IF engine.model = "pair" THEN BOOLEAN ELSE {FALSE}]

\* Mutant: the layout of the last rectangle stays when a step runs ragged.
KeepOldGrid(p) == IF p.rect = NoGrid THEN grid ELSE p.rect

GridOf(p) == p.rect

Planned(b) ==
    /\ phase = "serving" /\ stage = "idle"
    /\ LET r == PaddedRows(Total(b))
           p == PlanFor(b, r, NoGrid, FALSE) IN
       buffer_rows' = r /\ plan' = p /\ grid' = GridOf(p) /\ published' = p.rect
    /\ prompts' = b /\ stage' = "planned"
    /\ input' \in Inputs(b)
    /\ UNCHANGED <<start, late, segments, mm, hidden, answers>>

\* The first runner plans where it builds the metadata, the second in its model state.
Build(b) == ~engine.v2 /\ Planned(b)
prepare_attn(b) == engine.v2 /\ Planned(b)

Token(i, pos) == [req |-> i, pos |-> pos]
Pad == Token(0, 0)

\* Row p of the packed batch, or padding past its end.
PackedToken(b, p) ==
    IF p >= Total(b) THEN Pad
    ELSE LET i == CHOOSE i \in DOMAIN b : Start(b, i) <= p /\ p < Start(b, i + 1) IN
         Token(i, p - Start(b, i))

\* A grid lays request i from row (i - 1) * extent on, and fills up its lane.
GridRows(g) == 0..(g.extent * g.width - 1)
IsReal(g, r) == LET lane == (r \div g.extent) + 1 IN
                lane <= Len(g.lens) /\ r % g.extent < g.lens[lane]
encoder_dense_row_indices(g) == {r \in GridRows(g) : IsReal(g, r)}
SourceRow(g, r) == Start(g.lens, (r \div g.extent) + 1) + (r % g.extent)

\* expand_packed_to_encoder_grid: tokens, and positions that go on in the padding.
Expand(b, g) == [r \in GridRows(g) |-> IF IsReal(g, r) THEN PackedToken(b, SourceRow(g, r)) ELSE Pad]

roberta_position_delta == IF engine.positions = 0 THEN 0 ELSE Offset

ExpandPositions(b, g) ==
    [r \in GridRows(g) |-> roberta_position_delta +
        (IF IsReal(g, r) THEN PackedToken(b, SourceRow(g, r)).pos ELSE r % g.extent)]

offset_host_positions(positions) ==
    [p \in DOMAIN positions |-> positions[p] + roberta_position_delta]

\* _offset_preprocess_positions
OffsetPacked(b, r) == offset_host_positions([p \in 0..(r - 1) |-> PackedToken(b, p).pos])

\* CLIP's rows are embeddings already; padding repeats the first one.
encoder_grid_source_rows(g) ==
    [r \in GridRows(g) |-> IF IsReal(g, r) THEN SourceRow(g, r) ELSE 0]

expand_body_to_grid(b, g) ==
    IF engine.model = "clip"
    THEN [r \in GridRows(g) |-> PackedToken(b, encoder_grid_source_rows(g)[r])]
    ELSE Expand(b, g)

\* Segment ids of a step that has any, in the layout of its tokens; padding is segment 0.
expand_packed_token_types(b, g) ==
    [r \in GridRows(g) |-> IF IsReal(g, r) THEN PackedToken(b, SourceRow(g, r)) ELSE Pad]

StepTypes(b, g) ==
    IF g # NoGrid THEN expand_packed_token_types(b, g)
    ELSE [p \in 0..(Total(b) - 1) |-> PackedToken(b, p)]

\* The buffer takes the shape of the step's rows; without segment ids it is zeroed, if
\* there is one at all.
set_spyre_token_type_ids(types, r) ==
    IF types # <<>> THEN [p \in 0..(r - 1) |-> IF p \in DOMAIN types THEN types[p] ELSE Pad]
    ELSE IF segments = <<>> THEN <<>> ELSE [p \in 0..(r - 1) |-> Pad]

\* A buffer of another shape, or none, reads as segment 0.
spyre_token_type_ids_for(buffer, r) ==
    IF DOMAIN buffer = 0..(r - 1) THEN buffer ELSE [p \in 0..(r - 1) |-> Pad]

\* embed_input_ids of CLIP: the rows of images, and whether there is any other.
NoMask == [masked |-> FALSE, rows |-> {}, text |-> TRUE]
embed_input_ids(b, images, r) ==
    IF images = {} THEN NoMask
    ELSE LET marked == {p \in 0..(Total(b) - 1) : PackedToken(b, p).req \in images} IN
         [masked |-> TRUE, rows |-> marked, text |-> marked # 0..(r - 1)]

\* spyre_align_token_mask: padding is not text, and the mask follows the rows.
spyre_align_token_mask(m, b, g) ==
    IF ~m.masked THEN m
    ELSE [m EXCEPT !.text = @ /\ m.rows # 0..(Total(b) - 1),
                   !.rows = IF g = NoGrid THEN @
                            ELSE {r \in encoder_dense_row_indices(g) : SourceRow(g, r) \in @}]

InputRows(tokens, positions, types) ==
    [r \in DOMAIN tokens |-> [tok |-> tokens[r], pos |-> positions[r], seg |-> types[r]]]

LaidOut ==
    /\ stage = "planned"
    /\ \E tokens \in {IF grid # NoGrid THEN expand_body_to_grid(prompts, grid)
                      ELSE [p \in 0..(buffer_rows - 1) |-> PackedToken(prompts, p)]},
          positions \in {IF grid # NoGrid THEN ExpandPositions(prompts, grid)
                         ELSE OffsetPacked(prompts, buffer_rows)},
          buffer \in {set_spyre_token_type_ids(IF input.typed THEN StepTypes(prompts, grid)
                                               ELSE <<>>, buffer_rows)} :
          /\ segments' = buffer
          /\ hidden' = InputRows(tokens, positions, spyre_token_type_ids_for(buffer, buffer_rows))
    /\ mm' = spyre_align_token_mask(embed_input_ids(prompts, input.images, buffer_rows), prompts, grid)
    /\ late' = IF Compiled /\ engine.model = "clip" /\ grid # NoGrid
               THEN {EmbedKey(buffer_rows)} \ warm ELSE {}
    /\ stage' = "laid"
    /\ UNCHANGED <<start, prompts, input, buffer_rows, plan, grid, published, answers>>

\* The layout, with the model's embedding behind it.
LayOut == ~engine.v2 /\ LaidOut
prepare_inputs == engine.v2 /\ LaidOut

Value(row, keys) == [row |-> row, keys |-> keys]

\* CLIP's text tower says that it is causal, whatever the metadata says.
Causal == engine.causal \/ engine.model = "clip"

\* Columns a row at place `col' of its lane attends: real keys, up to its own if causal.
Attended(len, col) == {c \in 0..(len - 1) : Causal => c <= col}

Cell(h, r) == IF r \in DOMAIN h THEN h[r] ELSE Pad

\* _encoder_rect_kernel: lanes of one extent; a lane of padding attends one key.
RectAttention(h, g) ==
    [r \in DOMAIN h |->
        LET lane == r \div g.extent
            col == r % g.extent
            len == IF lane < Len(g.lens) THEN g.lens[lane + 1] ELSE 1 IN
        {Value(h[r], {Cell(h, lane * g.extent + c) : c \in Attended(len, col)})}]

\* encoder_row_table: row of place p of a request, clamped to its last real row.
RowTable(b, i, p) == Start(b, i) + Lesser(p, b[i] - 1)

\* _encoder_fused_kernel for every group: gather, attend, and store at the same rows.
\* Places past a request's end store to its last row again.
GroupAttention(h, b, groups) ==
    LET lanes == UNION {{<<i, p>> : i \in {g.members[m] : m \in DOMAIN g.members},
                                    p \in 0..(g.extent - 1)} : g \in groups}
        value(i, p) == Value(Cell(h, RowTable(b, i, p)),
                             {Cell(h, RowTable(b, i, c)) : c \in Attended(b[i], p)}) IN
    [r \in DOMAIN h |-> {value(l[1], l[2]) : l \in {l \in lanes : RowTable(b, l[1], l[2]) = r}}]

\* merge_text_and_vision: an image row keeps its embedding, which attended nothing.
merge_text_and_vision(text, embeds) ==
    [r \in DOMAIN text |-> IF r \in mm.rows THEN {Value(embeds[r], {})} ELSE text[r]]

\* A step of images alone skips the text tower and all it would compile.
Attend ==
    /\ stage = "laid"
    /\ IF mm.text
       THEN /\ \E text \in {IF Traced(published) THEN RectAttention(hidden, published)
                            ELSE IF plan.rect # NoGrid THEN RectAttention(hidden, plan.rect)
                            ELSE GroupAttention(hidden, prompts, plan.groups)} :
                  hidden' = merge_text_and_vision(text, hidden)
            /\ late' = late \cup (ForwardKeys(plan, published, buffer_rows) \ warm)
       ELSE hidden' = [r \in DOMAIN hidden |-> {Value(hidden[r], {})}] /\ UNCHANGED late
    /\ stage' = "attended"
    /\ UNCHANGED <<start, prompts, input, buffer_rows, plan, grid, published, segments, mm, answers>>

(***************************************************************************)
(* _pool.  Answer of a request: the rows that make it up, and the number   *)
(* they are divided by.                                                    *)
(***************************************************************************)
At(h, r) == IF r \in DOMAIN h THEN h[r] ELSE {}

\* unpad_encoder_grid: back to packed order; the rest of the buffer repeats row 0.
Unpadded(h, g) ==
    IF g = NoGrid THEN h
    ELSE [p \in DOMAIN h |->
             IF p >= Total(g.lens) THEN At(h, 0)
             ELSE LET i == CHOOSE i \in DOMAIN g.lens :
                              Start(g.lens, i) <= p /\ p < Start(g.lens, i + 1) IN
                  At(h, (i - 1) * g.extent + p - Start(g.lens, i))]

\* The padded row index repeats its last entry; the head's rows past the batch are dropped.
PaddedIndex(first) ==
    [i \in 1..Padded(Len(first)) |-> first[Lesser(i, Len(first))]]

\* CLS and MEAN on the rectangle: lane i belongs to request i.
DirectAnswer(h, g, i) ==
    IF engine.pool = "CLS"
    THEN [cells |-> <<At(h, PaddedIndex([j \in DOMAIN prompts |-> (j - 1) * g.extent])[i])>>,
          over |-> 1]
    ELSE [cells |-> [c \in 1..prompts[i] |-> At(h, (i - 1) * g.extent + c - 1)], over |-> prompts[i]]

PackedRow(b, i, last) == IF last THEN Start(b, i + 1) - 1 ELSE Start(b, i)

PackedAnswer(h, i, task) ==
    IF task = "token_embed"
    THEN [cells |-> [c \in 1..prompts[i] |-> At(h, Start(prompts, i) + Lesser(c, prompts[i]) - 1)],
          over |-> 1]
    ELSE IF engine.pool = "MEAN"
    THEN [cells |-> [c \in 1..prompts[i] |-> At(h, Start(prompts, i) + c - 1)], over |-> prompts[i]]
    ELSE [cells |-> <<At(h, PaddedIndex([j \in DOMAIN prompts |->
                                PackedRow(prompts, j, engine.pool = "LAST")])[i])>>,
          over |-> 1]

Pooled(tasks) ==
    /\ stage = "attended"
    /\ LET packed == Unpadded(hidden, grid) IN
       answers' = [i \in DOMAIN prompts |->
                     [task |-> tasks[i],
                      pooled |-> IF GridDirect(tasks, grid) THEN DirectAnswer(hidden, grid, i)
                                 ELSE PackedAnswer(packed, i, tasks[i])]]
    /\ late' = late \cup (PoolKeys(prompts, tasks, buffer_rows, grid) \ warm)
    /\ stage' = "answered"
    /\ UNCHANGED <<start, prompts, input, buffer_rows, plan, grid, published, segments, mm, hidden>>

Pool(tasks) == ~engine.v2 /\ Pooled(tasks)
pool(tasks) == engine.v2 /\ Pooled(tasks)

\* The output leaves; layout, mask, segments and row count stay behind.  The next step's
\* embedding overwrites CLIP's mask before anything reads it.
Finish ==
    /\ stage = "answered"
    /\ stage' = "idle" /\ prompts' = <<>> /\ plan' = NoPlan /\ hidden' = <<>>
    /\ answers' = <<>> /\ late' = {} /\ input' = NoInput /\ mm' = NoMask
    /\ UNCHANGED <<start, buffer_rows, grid, published, segments>>

PoolingInit ==
    /\ \E user \in Users : engine = Engine(cap_max_model_len_for_position_offset(user))
    /\ tables = Tables(engine)
    /\ phase = "bodies" /\ todo = FirstPhase(engine) /\ warm = {} /\ warmedRows = {}
    /\ late = {} /\ stage = "idle" /\ prompts = <<>> /\ buffer_rows = 0 /\ plan = NoPlan
    /\ grid = NoGrid /\ published = NoGrid /\ hidden = <<>> /\ answers = <<>>
    /\ input = NoInput /\ segments = <<>> /\ mm = NoMask

PoolingNext ==
    \/ DummyBody \/ BodiesDone \/ WarmRectangle \/ RectanglesDone \/ WarmRagged \/ RaggedDone
    \/ \E b \in Schedulable(engine) : Build(b) \/ prepare_attn(b)
    \/ LayOut \/ prepare_inputs
    \/ Attend
    \/ \E tasks \in [DOMAIN prompts -> Tasks] : Pool(tasks) \/ pool(tasks)
    \/ Finish

PoolingSpec == PoolingInit /\ [][PoolingNext]_pooling_vars

(***************************************************************************)
(* Properties.                                                             *)
(***************************************************************************)
\* The rows of request i as the model owes them: its tokens at their positions and with
\* their segments, each having attended the request's own (those up to itself, if the
\* layers are causal) and no others; the embeddings themselves, if it is an image.
OwnRow(i, c) ==
    [tok |-> Token(i, c), pos |-> c + roberta_position_delta,
     seg |-> IF input.typed THEN Token(i, c) ELSE Pad]
Own(i, c) ==
    {Value(OwnRow(i, c), IF i \in input.images THEN {}
                         ELSE {OwnRow(i, d) : d \in 0..(IF Causal THEN c ELSE prompts[i] - 1)})}

Owed(i, task) ==
    LET all == [c \in 1..prompts[i] |-> Own(i, c - 1)] IN
    IF task = "token_embed" THEN [cells |-> all, over |-> 1]
    ELSE IF engine.pool = "MEAN" THEN [cells |-> all, over |-> prompts[i]]
    ELSE [cells |-> <<all[IF engine.pool = "CLS" THEN 1 ELSE prompts[i]]>>, over |-> 1]

\* A table whose usable part is an extent, as all the known ones (512 of 514), is long
\* enough for every rectangle: the padding of a lane reads it too.
PositionsInTable ==
    stage = "laid" /\ engine.positions - Offset \in Extents =>
        \A r \in DOMAIN hidden : hidden[r].pos < engine.positions

\* Whatever path a step takes and whatever the step before it left behind, every
\* request is pooled from its own tokens, with their own positions and segments, each
\* of which attended exactly that request; an image keeps its embedding (encoder_grid.py,
\* spyre_encoder_attn.py, _token_type.py, clip.py, roberta.py, _preprocess and _pool,
\* encoder_only.py).
AnswersAreOwn ==
    /\ PositionsInTable
    /\ stage = "answered" =>
          \A i \in DOMAIN prompts : answers[i].pooled = Owed(i, answers[i].task)

\* Where a step may compile after warmup: on rows no declared body has, in a batch of
\* several tasks, in a gather longer than the body, in the gather of embeddings a pooler
\* on the host did not warm, in a group of one request of an extent the body does not
\* declare, or where a body that declares no group runs ragged all the same: the second
\* runner never takes a multimodal batch to a rectangle, and under a ladder the user made
\* coarse a prompt may be longer than every rectangle of its body.
LateOnlyWhereTablesAreSilent ==
    \A k \in late :
        \/ buffer_rows \notin tables.bodies \cap engine.compile_sizes
        \/ k.kind = "slices"
        \/ k.kind = "embeds" /\ engine.tail = "host"
        \/ k.kind = "gather" /\ (k.a > k.rows \/ ~OneTask([i \in DOMAIN answers |-> answers[i].task]))
        \/ k.kind = "group" /\ k.b = 1 /\ k.a \notin Usable(engine, k.rows)
        \/ /\ (k.kind = "group" /\ k.b = 1) \/ (k.kind = "body" /\ engine.mode = "inline")
           /\ GroupsAt(k.rows) = {} /\ (Offered = {} \/ engine.query_buckets # {})

\* Unless the user listed the sizes, one prompt of the model's full length is within
\* the scheduler's budget (it cannot be chunked, and would block the queue for ever),
\* and the budget is a body, so that every batch the scheduler forms has one.
LongestPromptIsSchedulable ==
    Compiled /\ engine.compile_sizes = tables.bodies =>
        /\ engine.max_model_len <= engine.max_num_batched_tokens
        /\ engine.max_num_batched_tokens = GreatestOf(tables.bodies)
=============================================================================
