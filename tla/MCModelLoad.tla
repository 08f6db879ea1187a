---------------------------- MODULE MCModelLoad ----------------------------
EXTENDS ModelLoad

\* Head 6 of sticks of 4 is 96 of 64: half a padded head is a whole stick.  Head 2 is 16 of 64,
\* whose half is not, and the Transformers backend widens 4 to 8 as it does 64 to 128.
Plain == [file |-> "llama", width |-> 6, heads |-> 2, kv |-> 1, rope |-> "r", partial |-> FALSE,
          pooling |-> FALSE, hf |-> FALSE, reads |-> "config", fused |-> FALSE, norm |-> "none",
          scale |-> None, tower |-> None, isolatable |-> TRUE, draft |-> None, streams |-> TRUE,
          tp |-> 1, mlp |-> None, moe |-> None, vocab |-> None, pool |-> None]

Gated == [inter |-> 6, fused |-> FALSE, double |-> FALSE, reads |-> TRUE, gated |-> TRUE,
          supported |-> TRUE, experts |-> "none"]

Moe == [experts |-> 2, hidden |-> 16, inter |-> 3, topk |-> 2, interleaved |-> FALSE]
Vision == [width |-> 6, rope |-> "v", shared |-> FALSE]

Served == {
    [Plain EXCEPT !.tp = 2, !.kv = 2, !.mlp = [Gated EXCEPT !.double = TRUE], !.vocab = 5],
    [Plain EXCEPT !.width = 8, !.vocab = 9],
    [Plain EXCEPT !.width = 2, !.reads = "derived", !.norm = "rms", !.mlp = [Gated EXCEPT !.fused = TRUE, !.double = TRUE]],
    [Plain EXCEPT !.fused = TRUE, !.scale = 3, !.moe = Moe,
                  !.mlp = [Gated EXCEPT !.experts = "intermediate"]],
    [Plain EXCEPT !.width = 4, !.hf = TRUE, !.file = "hf", !.norm = "rms"],
    [Plain EXCEPT !.tower = Vision, !.moe = [Moe EXCEPT !.hidden = 8, !.topk = 1, !.interleaved = TRUE]],
    [Plain EXCEPT !.tower = [Vision EXCEPT !.width = 8], !.norm = "gemma", !.width = 8, !.isolatable = FALSE],
    [Plain EXCEPT !.tower = [Vision EXCEPT !.width = 8, !.shared = TRUE]],
    [Plain EXCEPT !.draft = [width |-> 8, rope |-> "d"]],
    [Plain EXCEPT !.width = 2, !.rope = "none", !.pooling = TRUE, !.reads = "bert", !.file = "bert", !.kv = 2],
    [Plain EXCEPT !.rope = "none", !.file = "opt"]}

\* Who shares with a widened text part its rotary embedding, who has its scale by chance, and
\* whose classes an earlier model has left a property on.
Coincident == {
    [Plain EXCEPT !.tower = [Vision EXCEPT !.width = 8, !.rope = "r"]],
    [Plain EXCEPT !.draft = [width |-> 8, rope |-> "r"]],
    [Plain EXCEPT !.scale = 8],
    [Plain EXCEPT !.rope = "none"],
    [Plain EXCEPT !.width = 8, !.tower = [Vision EXCEPT !.shared = TRUE]]}

Refused == {
    [Plain EXCEPT !.partial = TRUE], [Plain EXCEPT !.width = 8, !.partial = TRUE],
    [Plain EXCEPT !.reads = "private"], [Plain EXCEPT !.streams = FALSE],
    [Plain EXCEPT !.width = 2, !.norm = "gemma"], [Plain EXCEPT !.tower = Vision, !.isolatable = FALSE],
    [Plain EXCEPT !.tower = [Vision EXCEPT !.shared = TRUE], !.file = "mm"],
    [Plain EXCEPT !.width = 8, !.mlp = [Gated EXCEPT !.gated = FALSE, !.reads = FALSE]],
    [Plain EXCEPT !.width = 8, !.mlp = [Gated EXCEPT !.reads = FALSE]],
    [Plain EXCEPT !.width = 8, !.mlp = Gated, !.streams = FALSE]}

Pools  == [Plain EXCEPT !.width = 8, !.rope = "none", !.pooling = TRUE, !.file = "bert"]
Embed  == [kind |-> "seq", exact |-> TRUE, pooling |-> "CLS", head |-> "embed", projector |-> FALSE,
           normalize |-> TRUE, dtype |-> "fp32"]
Class  == [Embed EXCEPT !.head = "classify", !.normalize = FALSE]
Tokens == [Class EXCEPT !.kind = "tok", !.pooling = "ALL"]
Linear == [linear |-> TRUE, dtype |-> "fp32", attr |-> "classifier", holders |-> {}]
Stage  == [dispatch |-> TRUE, modelDtype |-> None, classifier |-> None, poolers |-> [embed |-> Embed]]

Tails == {
    [Stage EXCEPT !.dispatch = FALSE, !.poolers = [embed |-> [Embed EXCEPT !.projector = TRUE], classify |-> Class],
                 !.classifier = Linear, !.modelDtype = "fp32"],
    [Stage EXCEPT !.dispatch = FALSE, !.poolers.embed.exact = FALSE],
    [Stage EXCEPT !.dispatch = FALSE, !.poolers.embed.projector = TRUE],
    [Stage EXCEPT !.poolers = [embed |-> [Embed EXCEPT !.projector = TRUE], classify |-> Class],
                 !.classifier = [Linear EXCEPT !.holders = {"classify"}]],
    [Stage EXCEPT !.dispatch = FALSE, !.poolers = [token_classify |-> Tokens],
                 !.classifier = Linear, !.modelDtype = "fp32"],
    [Stage EXCEPT !.poolers = [token_classify |-> [Tokens EXCEPT !.pooling = "STEP"], embed |-> Embed],
                 !.classifier = Linear, !.modelDtype = "fp32"],
    [Stage EXCEPT !.dispatch = FALSE, !.poolers = [classify |-> [Class EXCEPT !.pooling = "other"]],
                 !.classifier = [Linear EXCEPT !.holders = {"classify"}, !.attr = None]],
    [Stage EXCEPT !.poolers = [classify |-> Class, token_classify |-> [Tokens EXCEPT !.pooling = "STEP"]],
                 !.classifier = [Linear EXCEPT !.holders = {"classify", "token_classify"}]],
    [Stage EXCEPT !.poolers = [classify |-> [Class EXCEPT !.pooling = "LAST", !.dtype = "fp16"]],
                 !.classifier = [Linear EXCEPT !.holders = {"classify"}, !.attr = None, !.dtype = "fp16"]],
    [Stage EXCEPT !.poolers = [classify |-> [Class EXCEPT !.pooling = "MEAN"], token_classify |-> Tokens],
                 !.classifier = [Linear EXCEPT !.holders = {"classify", "token_classify"},
                                               !.attr = "score", !.linear = FALSE]],
    [Stage EXCEPT !.poolers = [classify |-> Class, token_classify |-> [Tokens EXCEPT !.pooling = "STEP"]],
                 !.classifier = [Linear EXCEPT !.holders = {"classify", "token_classify"},
                                               !.attr = "score", !.linear = FALSE]],
    [Stage EXCEPT !.poolers = [classify |-> Class]],
    [Stage EXCEPT !.poolers = [classify |-> [Class EXCEPT !.dtype = "fp16"]],
                 !.classifier = [Linear EXCEPT !.holders = {"classify"}, !.attr = None,
                                               !.linear = FALSE, !.dtype = "fp16"]]}

Either == Served \union Refused \union Coincident \union {[Pools EXCEPT !.pool = t] : t \in Tails}
=============================================================================
