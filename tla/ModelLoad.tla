----------------------------- MODULE ModelLoad -----------------------------
(***************************************************************************)
(* One process loading models one after another.  The platform widens the  *)
(* configuration to whole sticks, hooks make the modules come out at that  *)
(* width and the checkpoint's tensors fit them, and passes over the loaded *)
(* model undo what the widening did to frequencies, scales and norms or    *)
(* refuse the model.  What outlives a model in the process: the property   *)
(* left on its attention classes, the construction patch of BERT, and      *)
(* vLLM's dictionary of rotary embeddings.                                 *)
(***************************************************************************)
EXTENDS MoeExperts, PoolerSetup, Sequences

CONSTANTS
    Models,    \* what may be loaded; the fields are explained where they are read
    Loads      \* how many loads a process sees (bound)

ASSUME LoadsAssumption == Loads \in Nat

\* A dictionary with an entry set.
Put(f, key, value) == [k \in DOMAIN f \cup {key} |-> IF k = key THEN value ELSE f[k]]

VARIABLES
    stage,     \* of the load: idle, configured, hooked, built, loaded, fitted, serving or refused
    loads,
    m,         \* the model being loaded
    config,    \* head and inter as configured, and their originals if padded
    shims,     \* of a modeling file's attention classes: the widths it replaces
    patched,   \* BertSelfAttention
    ropes,     \* [dict, of]: _ROPE_DICT, and the width each instance's frequencies are of
    attn,      \* the parts' attention: text, tower and draft
    mlp,       \* the text part's MLPs
    tail       \* a pooling model's pooler and classifier

vars == <<stage, loads, m, config, shims, patched, ropes, attn, mlp, tail>>

-----------------------------------------------------------------------------
(* Configuration *)

\* m.width is the native head, m.rope its rotary parameters, m.hf the Transformers backend.
HeadMultiple(x) ==
    IF x.rope # "none" THEN (IF x.hf THEN 2 * Stick ELSE Stick) ELSE IF x.pooling THEN Stick ELSE 1

PadsHead(x) == x.width % HeadMultiple(x) # 0

\* m.mlp.experts: what a mixture sizes its experts from.
PadsInter(x) ==
    /\ x.mlp # None
    /\ x.mlp.inter % (Stick * x.tp) # 0
    /\ x.mlp.supported
    /\ x.mlp.experts # "intermediate"

\* What vLLM builds: ranks share heads evenly, a rotated head is made of pairs, the Transformers
\* backend has its width from the configuration, BERT has no rotation, only its heads are
\* widened without one, and a mixture of hidden states that are no whole sticks is rejected.
ASSUME ModelsAssumption ==
    \A x \in Models :
        /\ x.width \in Nat \ {0} /\ x.heads \in Nat \ {0} /\ x.kv \in Nat \ {0} /\ x.tp \in Nat \ {0}
        /\ x.heads % x.kv = 0 /\ x.heads % x.tp = 0 /\ x.kv % x.tp = 0
        /\ {x.partial, x.pooling, x.hf, x.fused, x.isolatable, x.streams} \subseteq BOOLEAN
        /\ x.reads \in {"config", "derived", "private", "bert"} /\ x.norm \in {"none", "rms", "gemma"}
        /\ x.rope # "none" => x.width % 2 = 0
        /\ x.hf => x.reads = "config"
        /\ x.reads = "bert" => x.pooling /\ x.rope = "none" /\ ~x.fused
        /\ PadsHead(x) => x.rope # "none" \/ x.reads = "bert"
        /\ x.tower # None => x.tower.width \in Nat \ {0} /\ x.tower.shared \in BOOLEAN
        /\ x.draft # None => x.draft.width \in Nat \ {0}
        /\ x.mlp # None =>
              /\ x.mlp.inter \in Nat \ {0} /\ x.mlp.inter % x.tp = 0
              /\ {x.mlp.fused, x.mlp.double, x.mlp.reads, x.mlp.gated, x.mlp.supported} \subseteq BOOLEAN
        /\ x.vocab # None => x.vocab \in Nat \ {0}
        /\ x.moe # None =>
              /\ {x.moe.experts, x.moe.hidden, x.moe.inter, x.moe.topk} \subseteq Nat \ {0}
              /\ x.moe.hidden % Stick = 0 /\ x.moe.interleaved \in BOOLEAN

\* The tails are of the shapes vLLM builds.
ASSUME TailsAssumption == \A x \in Models : x.pool # None => VllmBuilds(x.pool)

_maybe_pad_head_dim(x) ==
    [head |-> RoundUp(x.width, HeadMultiple(x)), headOf |-> IF PadsHead(x) THEN x.width ELSE None]
_maybe_pad_intermediate_size(x) ==
    [inter |-> IF x.mlp = None THEN None
               ELSE IF PadsInter(x) THEN RoundUp(x.mlp.inter, Stick * x.tp) ELSE x.mlp.inter,
     interOf |-> IF PadsInter(x) THEN x.mlp.inter ELSE None]
Configured(x) ==
    LET head == _maybe_pad_head_dim(x)  inter == _maybe_pad_intermediate_size(x) IN
    [head |-> head.head, headOf |-> head.headOf, inter |-> inter.inter, interOf |-> inter.interOf]

\* The engine's configuration of the next model, on the platform's hook.
Configure ==
    /\ stage \in {"idle", "serving", "refused"} /\ loads < Loads
    /\ loads' = loads + 1
    /\ \E x \in Models :
          /\ m' = x
          /\ IF PadsHead(x) /\ x.partial
             THEN stage' = "refused" /\ UNCHANGED config
             ELSE /\ stage' = "configured"
                  /\ config' = Configured(x)
    /\ attn' = <<>> /\ mlp' = <<>> /\ tail' = None
    /\ UNCHANGED <<shims, patched, ropes>>

-----------------------------------------------------------------------------
(* Hooks before the model is built *)

HeadPadded  == config.headOf # None
InterPadded == config.interOf # None

\* A plausible bug: an earlier model's property is taken for one the class defines.
ShimKept(files) ==
    IF m.file \in DOMAIN files THEN files
    ELSE Put(files, m.file, [orig |-> config.headOf, padded |-> config.head])

install_padded_head_dim(files) ==
    IF ~HeadPadded \/ m.hf THEN files
    ELSE Put(files, m.file, [orig |-> config.headOf, padded |-> config.head])

\* m.streams: the loader has get_all_weights to wrap.
install_pad_loaders ==
    /\ stage = "configured"
    /\ shims' = install_padded_head_dim(shims)
    /\ patched' = (patched \/ (HeadPadded /\ m.pooling))
    /\ stage' = IF InterPadded /\ ~m.streams THEN "refused" ELSE "hooked"
    /\ UNCHANGED <<loads, m, config, ropes, attn, mlp, tail>>

-----------------------------------------------------------------------------
(* Construction, by vLLM's classes *)

\* The setter left on a class.
Shimmed(width) ==
    IF m.file \in DOMAIN shims /\ shims[m.file].orig = width THEN shims[m.file].padded ELSE width

\* m.reads: where the text part's attention has its width from: the configuration, the hidden
\* size, the hidden size under a name of its own, or BERT's construction.
HeadWidth ==
    CASE m.reads = "config"  -> IF m.hf THEN config.head ELSE Shimmed(config.head)
      [] m.reads = "derived" -> Shimmed(m.width)
      [] m.reads = "private" -> m.width
      [] m.reads = "bert"    -> IF patched THEN RoundUp(m.width, Stick) ELSE m.width

\* The shared instance for a width and rotary parameters.
get_rope(d, width, params) ==
    IF <<width, params>> \in DOMAIN d.dict THEN d
    ELSE [dict |-> Put(d.dict, <<width, params>>, Len(d.of) + 1), of |-> Append(d.of, width)]

\* m.scale: the scale if it does not come from the head's width.  A scale is known by the
\* width it is the inverse root of.
Attention(width, rope, scale, norm) ==
    [width |-> width, rope |-> rope, impl |-> scale, module |-> scale,
     norm |-> [kind |-> norm, folded |-> FALSE, eps |-> <<1, 1>>], weights |-> <<>>]

Ropeless(params) == params = "none"

BuildText(d) == IF Ropeless(m.rope) \/ m.hf THEN d ELSE get_rope(d, HeadWidth, m.rope)
\* m.tower.shared: the tower's attention is a class of the same file.
TowerWidth    == IF m.tower.shared THEN Shimmed(m.tower.width) ELSE m.tower.width
BuildTower(d) == IF m.tower = None THEN d ELSE get_rope(d, TowerWidth, m.tower.rope)

TargetParts == IF m.tower = None THEN {"text"} ELSE {"text", "tower"}

\* m.mlp.reads: the MLPs' width is the configuration's; double: some are twice as wide.
Multipliers == IF m.mlp # None /\ m.mlp.double THEN {1, 2} ELSE {1}
InterWidth  == IF m.mlp.reads THEN config.inter ELSE m.mlp.inter

initialize_model ==
    LET textual == BuildText(ropes)  built == BuildTower(textual)
        scale == IF m.scale # None THEN m.scale ELSE IF m.reads = "bert" THEN m.width ELSE HeadWidth
    IN /\ stage = "hooked"
       /\ IF ~Ropeless(m.rope) /\ ~m.hf /\ m.partial
          THEN stage' = "refused" /\ UNCHANGED <<ropes, attn, mlp>>
          ELSE /\ stage' = "built"
               /\ ropes' = built
               /\ attn' = [p \in TargetParts |->
                     IF p = "text"
                     THEN Attention(HeadWidth, IF Ropeless(m.rope) \/ m.hf THEN None
                                               ELSE textual.dict[<<HeadWidth, m.rope>>], scale, m.norm)
                     ELSE Attention(TowerWidth, built.dict[<<TowerWidth, m.tower.rope>>], TowerWidth, "none")]
               /\ mlp' = IF m.mlp = None THEN <<>>
                         ELSE [k \in Multipliers |-> [width |-> k * InterWidth, weights |-> <<>>]]
       /\ UNCHANGED <<loads, m, config, shims, patched, tail>>

-----------------------------------------------------------------------------
(* Weights *)

\* The composite's language backbone is the one padded.
is_text_weight(part) == part = "text"

\* The checkpoint's tensors of a part, as they leave the wrapped loader.
Streams(part, heads, kv, width) ==
    LET orig == config.headOf  padded == config.head
        pads == HeadPadded /\ m.streams /\ is_text_weight(part)
        Rotated2(n) == IF m.reads = "bert" THEN pad_output_end(Native(n, width), n, orig, padded)
                       ELSE _pad_qk_interleaved(Native(n, width), n, orig, padded)
        tensors == [q |-> Native(heads, width), k |-> Native(kv, width), v |-> Native(kv, width)]
        out == IF pads THEN pad_output_end(Native(heads, width), heads, orig, padded) ELSE Native(heads, width)
    IN IF ~pads THEN [q |-> tensors.q, k |-> tensors.k, v |-> tensors.v, o |-> out]
       ELSE IF m.fused
       THEN LET w == _pad_fused_qkv(Cat(Cat(tensors.q, tensors.k), tensors.v), heads, kv, orig, padded)
            IN [q |-> Narrow(w, 0, heads * padded),
                k |-> Narrow(w, heads * padded, kv * padded),
                v |-> Narrow(w, (heads + kv) * padded, kv * padded), o |-> out]
       ELSE [q |-> Rotated2(heads), k |-> Rotated2(kv),
             v |-> pad_output_end(tensors.v, kv, orig, padded), o |-> out]

\* What the ranks' parameters take: a tensor that is too long is cut without a word.
Taken(part, width, heads, kv) ==
    LET t == Streams(part, heads, kv, IF part = "text" THEN m.width ELSE width)
        n == [q |-> heads, k |-> kv, v |-> kv, o |-> heads]
    IN [rank \in Ranks(m.tp) |->
           [p \in DOMAIN t |->
               LET rows == (n[p] \div m.tp) * attn[part].width IN Narrow(t[p], rank * rows, rows)]]

\* A parameter longer than its tensor is an error.
TooShort(part, width, heads) ==
    Rows(Streams(part, heads, heads, IF part = "text" THEN m.width ELSE width).q) < heads * attn[part].width

GateStream(k) ==
    LET native == Lanes(k * m.mlp.inter)
        pads == InterPadded /\ m.streams /\ m.mlp.gated
        padded == _pad_weight(m.mlp.fused, IF m.mlp.fused THEN Cat(native, native) ELSE native,
                              config.interOf, config.inter, Multipliers)
        all == IF ~pads THEN IF m.mlp.fused THEN Cat(native, native) ELSE native ELSE padded
        half == Rows(all) \div 2
    IN IF m.mlp.fused THEN [gate |-> Narrow(all, 0, half), up |-> Narrow(all, half, half)]
       ELSE [gate |-> all, up |-> all]
DownStream(k) ==
    LET native == Lanes(k * m.mlp.inter)
    IN IF InterPadded /\ m.streams /\ m.mlp.gated
       THEN _pad_weight(FALSE, native, config.interOf, config.inter, Multipliers) ELSE native

MlpTaken(k) ==
    LET n == mlp[k].width \div m.tp
        t == [gate |-> GateStream(k).gate, up |-> GateStream(k).up, down |-> DownStream(k)]
    IN [p \in DOMAIN t |-> [rank \in Ranks(m.tp) |-> Narrow(t[p], rank * n, n)]]
MlpTooShort(k) ==
    \E w \in {GateStream(k).gate, GateStream(k).up, DownStream(k)} : Rows(w) < mlp[k].width

load_weights ==
    /\ stage = "built"
    /\ IF \/ TooShort("text", m.width, m.heads)
          \/ m.tower # None /\ TooShort("tower", m.tower.width, m.heads)
          \/ \E k \in DOMAIN mlp : MlpTooShort(k)
       THEN stage' = "refused" /\ UNCHANGED <<attn, mlp>>
       ELSE /\ stage' = "loaded"
            /\ attn' = [p \in DOMAIN attn |->
                  [attn[p] EXCEPT !.weights = Taken(p, attn[p].width, m.heads, IF p = "text" THEN m.kv ELSE m.heads),
                                  !.norm.folded = HeadPadded /\ m.streams /\ p = "text" /\ m.norm # "none"]]
            /\ mlp' = [k \in DOMAIN mlp |-> [mlp[k] EXCEPT !.weights = MlpTaken(k)]]
    /\ UNCHANGED <<loads, m, config, shims, patched, ropes, tail>>

\* A draft model is built and loaded before the target's passes run.
load_drafter ==
    /\ stage = "loaded" /\ m.draft # None /\ "draft" \notin DOMAIN attn
    /\ ropes' = get_rope(ropes, m.draft.width, m.draft.rope)
    /\ attn' = Put(attn, "draft", Attention(m.draft.width, ropes'.dict[<<m.draft.width, m.draft.rope>>],
                                            m.draft.width, "rms"))
    /\ UNCHANGED <<stage, loads, m, config, shims, patched, mlp, tail>>

-----------------------------------------------------------------------------
(* Passes over the loaded model *)

\* The parts of the target a pass may touch of those it matches.
text_modules(parts) == parts \cap {"text"}

\* m.isolatable: a composite model tells its language backbone apart.
Ambiguous(parts) == m.tower # None /\ ~m.isolatable /\ parts # {}

Built == DOMAIN attn \ {"draft"}

unpadded == {p \in Built : attn[p].width # config.head}
verify_padded_head_dim == ~Ambiguous(unpadded) /\ text_modules(unpadded) = {}

_padded_qk_norms == {p \in Built : attn[p].norm.kind # "none" /\ attn[p].width = config.head}
verify_padded_qk_norm_weights ==
    /\ ~Ambiguous(_padded_qk_norms)
    /\ \A p \in text_modules(_padded_qk_norms) : attn[p].norm.kind # "gemma"

\* m.mlp.gated: it has a down_proj.
verify_padded_intermediate_size ==
    /\ ~Ambiguous({"text"})
    /\ m.mlp.gated
    /\ \A k \in DOMAIN mlp : mlp[k].width \in {j * config.inter : j \in Multipliers}

is_spyre_rope == {p \in Built : attn[p].rope # None}

\* A plausible bug: the instance stays in the dictionary.
StaysShared(d) ==
    LET ref == get_rope(d, config.headOf, m.rope)
        touched == {attn[p].rope : p \in text_modules(is_spyre_rope)}
    IN [ref EXCEPT !.of = [i \in DOMAIN ref.of |->
           IF i \in touched THEN ref.of[ref.dict[<<config.headOf, m.rope>>]] ELSE ref.of[i]]]

\* The frequencies of the native width, in an instance nobody is handed from now on.
fix_padded_rope(d) ==
    IF text_modules(is_spyre_rope) = {} THEN d
    ELSE LET ref == get_rope(d, config.headOf, m.rope)
             touched == {attn[p].rope : p \in text_modules(is_spyre_rope)}
         IN [dict |-> [key \in {key \in DOMAIN ref.dict : ref.dict[key] \notin touched} |-> ref.dict[key]],
             of |-> [i \in DOMAIN ref.of |->
                        IF i \in touched THEN ref.of[ref.dict[<<config.headOf, m.rope>>]] ELSE ref.of[i]]]

has_padded_scale == {p \in Built : attn[p].impl = config.head \/ attn[p].module = config.head}

fix_padded_attention_scale(p) ==
    [attn[p] EXCEPT !.impl   = IF p \in text_modules(has_padded_scale) /\ @ = config.head THEN config.headOf ELSE @,
                    !.module = IF p \in text_modules(has_padded_scale) /\ @ = config.head THEN config.headOf ELSE @]

fix_padded_qk_norm_eps(p, a) ==
    IF p \in text_modules(_padded_qk_norms) THEN [a EXCEPT !.norm.eps = <<config.headOf, config.head>>] ELSE a

fix_padded_model ==
    /\ stage = "loaded" /\ (m.draft # None => "draft" \in DOMAIN attn)
    /\ IF \/ HeadPadded /\ ~(verify_padded_head_dim /\ verify_padded_qk_norm_weights)
          \/ InterPadded /\ ~verify_padded_intermediate_size
          \/ HeadPadded /\ (Ambiguous(is_spyre_rope) \/ Ambiguous(has_padded_scale))
       THEN stage' = "refused" /\ UNCHANGED <<ropes, attn>>
       ELSE /\ stage' = "fitted"
            /\ ropes' = IF HeadPadded THEN fix_padded_rope(ropes) ELSE ropes
            /\ attn' = IF HeadPadded
                       THEN [p \in DOMAIN attn |-> fix_padded_qk_norm_eps(p, fix_padded_attention_scale(p))]
                       ELSE attn
    /\ UNCHANGED <<loads, m, config, shims, patched, mlp, tail>>

\* m.pool: a pooling model's tail, once move_model_to_spyre has moved the model.
configure_pooling ==
    /\ stage = "fitted" /\ stage' = "serving"
    /\ tail' = IF m.pool = None THEN None ELSE configure_pooling_for_spyre(Loaded(m.pool))
    /\ UNCHANGED <<loads, m, config, shims, patched, ropes, attn, mlp>>

-----------------------------------------------------------------------------

Init ==
    /\ stage = "idle" /\ loads = 0 /\ m = None
    /\ config = [head |-> None, headOf |-> None, inter |-> None, interOf |-> None]
    /\ shims = <<>> /\ patched = FALSE
    /\ ropes = [dict |-> <<>>, of |-> <<>>]
    /\ attn = <<>> /\ mlp = <<>> /\ tail = None

Done == stage \in {"serving", "refused"} /\ loads = Loads /\ UNCHANGED vars

\* In the order of the runner's load_model.
LoadModel ==
    \/ install_pad_loaders \/ initialize_model \/ load_weights
    \/ load_drafter \/ fix_padded_model \/ configure_pooling

Next == Configure \/ LoadModel \/ Done

Spec == Init /\ [][Next]_vars
-----------------------------------------------------------------------------
(* Properties *)

Serving == stage = "serving"

\* All ranks' rows of a projection, in order.
AllRows(w) ==
    LET n == Rows(w[0]) IN [i \in 0 .. m.tp * n - 1 |-> w[i \div n][i % n]]

\* The width the text part's frequencies are of; the Transformers backend rebuilds its own.
_patch_rope == IF HeadPadded THEN config.headOf ELSE config.head
Frequencies == IF m.hf THEN _patch_rope ELSE ropes.of[attn["text"].rope]

\* The scale forward uses: the HF module's is copied over the layer's.
ScaleUsed == IF m.hf THEN attn["text"].module ELSE attn["text"].impl

\* The pass knows a scale derived from the head by its value alone, though a model's own "must
\* be left untouched" (is_padded_default).
TakenForDerived(scale) == HeadPadded /\ scale = config.head

\* A served model attends as published: at every place of a head q and k hold one lane of the
\* checkpoint and each is rotated by the frequency of the native width, values meet the columns
\* that read them, and a norm over a wider head is exact.  The scale is the native one, or the
\* model's own where that is not by chance the widened head's.  What is at stake is silent:
\* the loader cuts tensors, and a wrong width is plausible text.
AttendsAsNative ==
    Serving =>
        LET a == attn["text"]  w == a.weights
            All == [p \in {"q", "k", "v", "o"} |-> AllRows([r \in Ranks(m.tp) |-> w[r][p]])]
            Kv(h) == h \div (m.heads \div m.kv)
        IN /\ \A h \in 0 .. m.heads - 1 :
                 /\ IF m.rope = "none"
                    THEN \A l \in 0 .. a.width - 1 :
                            /\ All["q"][h * a.width + l] = IF l < m.width THEN <<h, l>> ELSE Zero
                            /\ All["k"][Kv(h) * a.width + l] = IF l < m.width THEN <<Kv(h), l>> ELSE Zero
                    ELSE SameHead(All["q"], All["k"], h, Kv(h), a.width, m.width, Frequencies, m.hf)
                 /\ SameValues(All["v"], All["o"], Kv(h), h, a.width, m.width)
           /\ ScaleUsed = IF m.scale = None \/ TakenForDerived(m.scale) THEN m.width ELSE m.scale
           /\ m.norm # "none" =>
                 IF a.norm.folded THEN a.norm.eps = <<m.width, a.width>> /\ a.norm.kind = "rms"
                 ELSE a.norm.eps = <<1, 1>> /\ a.width = m.width

\* A served model's gate, up and down shards hold one lane of the checkpoint at one place, over
\* the ranks each lane once, and no rank's half of the fused tensor begins inside a stick if
\* the model is one the padding knows.
LanesMeet ==
    Serving =>
        \A k \in DOMAIN mlp :
            LET w == mlp[k].weights
            IN /\ SameLanes(w.gate, w.up, w.down, Ranks(m.tp), k * m.mlp.inter)
               /\ (m.mlp.supported /\ m.mlp.experts # "intermediate") => (mlp[k].width \div m.tp) % Stick = 0

\* "A tower's RoPE keeps its own frequencies" (fix_padded_rope), but the instance the text part
\* was built with is also another part's, who asked for the width the text part was widened to,
\* at its parameters.
SharesWidened(part) == HeadPadded /\ ~m.hf /\ <<part.width, part.rope>> = <<config.head, m.rope>>

\* Loading leaves everything else as it was: a tower has its own lanes and scale, it and a
\* draft model have their own frequencies unless their instance is the widened text part's, and
\* whoever is next handed a rotary embedding from the dictionary gets the one it asks for.
OthersUntouched ==
    /\ \A key \in DOMAIN ropes.dict : ropes.of[ropes.dict[key]] = key[1]
    /\ (Serving /\ m.tower # None) =>
          LET a == attn["tower"]  native == Native(m.heads, m.tower.width)
          IN /\ \A p \in {"q", "k", "v", "o"} :
                   AllRows([r \in Ranks(m.tp) |-> a.weights[r][p]]) = native
             /\ a.impl = m.tower.width /\ a.module = m.tower.width
             /\ ropes.of[a.rope] = m.tower.width \/ SharesWidened(m.tower)
    /\ (Serving /\ m.draft # None) => ropes.of[attn["draft"].rope] = m.draft.width \/ SharesWidened(m.draft)

\* An earlier model's property is still on the file's classes, for heads of this width: the
\* model being loaded puts none of its own there.
LeftFor(width) ==
    m.file \in DOMAIN shims /\ shims[m.file].orig = width /\ (m.hf \/ ~HeadPadded)
TextLeft  == LeftFor(m.width) /\ ~m.hf /\ m.reads \in {"config", "derived"}
TowerLeft == m.tower # None /\ m.tower.shared /\ LeftFor(m.tower.width)

\* A model is refused for what it is, and for what the process loaded before it only if it pads
\* no heads itself and has classes and a width in common with one that did.
RefusedForCause ==
    stage = "refused" =>
        \/ PadsHead(m) /\ (m.partial \/ ~m.streams \/ m.reads = "private" \/ m.norm = "gemma")
        \/ (PadsHead(m) \/ PadsInter(m)) /\ m.tower # None /\ ~m.isolatable
        \/ PadsHead(m) /\ m.tower # None /\ m.tower.shared /\ m.tower.width = m.width
        \/ PadsInter(m) /\ (~m.streams \/ ~m.mlp.gated \/ ~m.mlp.reads)
        \/ m.rope # "none" /\ m.partial
        \/ TextLeft \/ TowerLeft

\* Every kernel computes the published experts, out of pools that are aliases of each other, and
\* no other number of chunks of whole sticks would keep more cores busy.
ExpertsAgree ==
    (Serving /\ m.moe # None) =>
        LET chunks == _derive_moe_chunks(m.moe.hidden, m.moe.topk)
            Busy(c) == GreatestOf({s \in 1 .. Cores : (m.moe.topk * c) % s = 0})
        IN /\ MoeAnswersAgree(m.moe)
           /\ m.moe.hidden % (chunks * Stick) = 0
           /\ \A c \in 1 .. m.moe.hidden \div Stick :
                 m.moe.hidden % (c * Stick) = 0 => Busy(c) < Busy(chunks) \/ (Busy(c) = Busy(chunks) /\ chunks <= c)

\* Over all ranks a word's embedding is its own row, once, and its logit is at its own place
\* of every token's row, eagerly and compiled, whatever rows the padding of tables and of short
\* batches adds and the slices take away.
VocabularyServed ==
    (Serving /\ m.vocab # None) =>
        /\ \A n \in 1 .. m.vocab :
              all_gather([r \in Ranks(m.tp) |-> Shard(Lanes(n * m.tp), r, m.tp)]) = Lanes(n * m.tp)
        /\ LET tables == [r \in Ranks(m.tp) |-> ProjectedHead(Shard(Table(m.vocab, m.tp), r, m.tp))]
               whole == all_gather(tables)
               compiled == _all_gather_compiled(tables, 2)
           IN /\ Rows(tables[0]) % Stick = 0
              /\ \A w \in 0 .. m.vocab - 1 :
                    /\ \E r \in Ranks(m.tp) : Embedded(w, m.vocab, m.tp) = {<<r, w>>}
                    /\ whole[w] = w
                    /\ \A t \in 0 .. 1 : compiled[<<t, w>>] = <<t, w>>
                    /\ \A pads \in BOOLEAN : spyre_linear_t(w, pads) = Lanes(w)

\* Every task of a served pooling model is answered: no stage casts on the device, multiplies in
\* float32 there or takes operands from two places, and rows padded for the head are trimmed
\* once, whether the walk finds a head, a projector or the classifier in a dictionary or not.
\* Excepted are the three tails spyre_pooler.py leaves half settled.
TailsAgree ==
    (Serving /\ m.pool # None) =>
        \/ Stranded(tail)
        \/ \A k \in DOMAIN tail.poolers : Sound(tail, k) \/ Uncast(tail, k) \/ Unfetched(tail, k)
=============================================================================
