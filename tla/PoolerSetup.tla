---------------------------- MODULE PoolerSetup ----------------------------
(***************************************************************************)
(* What becomes of a pooling model's tail when it is loaded: the pooling   *)
(* methods, heads and classifier that turn hidden states into answers.     *)
(* They stay on Spyre, each replaced by one that works there, or all move  *)
(* to the host.  The device has no float32 product and garbles a cast.     *)
(*                                                                         *)
(* A tail t has, by task, poolers p: p.kind ("seq", "tok" or another) and  *)
(* p.exact (the class itself, no subclass), p.pooling and p.head ("embed", *)
(* "classify" or None) with p.projector and p.dtype, what it casts to.     *)
(* t.dispatch: the poolers are in a dispatcher's dictionary, which neither *)
(* modules() nor parameters() nor to() sees.  t.classifier.holders are the *)
(* tasks whose heads hold it, and t.classifier.attr the name the model has *)
(* it under: "classifier", another, or None.                               *)
(***************************************************************************)
EXTENDS Integers

CONSTANT None

Dtypes == {"fp16", "fp32"}
PoolerTypes ==
    [kind : STRING, exact : BOOLEAN, pooling : STRING, head : {"embed", "classify", None},
     projector : BOOLEAN, normalize : BOOLEAN, dtype : Dtypes \cup {None}]
ClassifierTypes ==
    [linear : BOOLEAN, dtype : Dtypes, attr : STRING \cup {None}, holders : SUBSET STRING]
LoadedTypes ==
    [linear : BOOLEAN, dtype : Dtypes, attr : STRING \cup {None}, holders : SUBSET STRING,
     place : [dev : {"spyre", "host"}, dtype : Dtypes], transposed : BOOLEAN]

ASSUME NoneAssumption ==
    None \notin Nat \cup LoadedTypes \cup Dtypes \cup {"classifier", "embed", "classify"}

\* What vLLM builds.  A projector and its head share a dtype, and so do a classifier and the heads
\* that hold it or, held by none, the model that applies it.
VllmBuilds(t) ==
    LET c == t.classifier IN
    /\ t.dispatch \in BOOLEAN /\ t.modelDtype \in Dtypes \cup {None}
    /\ c \in ClassifierTypes \cup {None}
    /\ \A k \in DOMAIN t.poolers :
          /\ t.poolers[k] \in PoolerTypes
          /\ t.poolers[k].projector => t.poolers[k].dtype = "fp32"
    /\ c # None =>
          /\ c.holders \subseteq {k \in DOMAIN t.poolers : t.poolers[k].head = "classify"}
          /\ \A k \in c.holders : t.poolers[k].dtype = c.dtype
          /\ c.holders = {} => c.attr = "classifier" /\ t.modelDtype = c.dtype

\* Places a tensor is at: a device and a dtype.
At(dev, dtype) == [dev |-> dev, dtype |-> dtype]
OnHost(place) == [place EXCEPT !.dev = "host"]
Garbage == At("nowhere", "none")

\* What modules() of the pooler sees.
Registered(t) == IF t.dispatch THEN {} ELSE DOMAIN t.poolers

LoadedPooler(p, place) ==
    [kind |-> p.kind, exact |-> p.exact, pooling |-> p.pooling, head |-> p.head, projector |-> p.projector,
     normalize |-> p.normalize, dtype |-> p.dtype, spyre |-> FALSE, defers |-> FALSE, trims |-> FALSE,
     spyreHead |-> FALSE, spyreNorm |-> FALSE, weight |-> place]
LoadedClassifier(c, dev) ==
    [linear |-> c.linear, dtype |-> c.dtype, attr |-> c.attr, holders |-> c.holders,
     place |-> At(dev, c.dtype), transposed |-> FALSE]

\* The classifier as model and heads share it, and each projector, where move_model_to_spyre
\* left them; nothing is replaced yet.
Loaded(t) ==
    [dispatch |-> t.dispatch, trimsToReal |-> t.dispatch, modelDtype |-> t.modelDtype, wrapped |-> FALSE,
     stays |-> TRUE,
     classifier |-> IF t.classifier = None THEN None
                    ELSE LoadedClassifier(t.classifier,
                            IF t.classifier.attr # None \/ t.classifier.holders \cap Registered(t) # {}
                            THEN "spyre" ELSE "host"),
     poolers |-> [k \in DOMAIN t.poolers |->
        LoadedPooler(t.poolers[k], At(IF k \in Registered(t) THEN "spyre" ELSE "host", "fp32"))]]

\* A plausible bug: modules() for the walk.
OnlyRegistered(t) == Registered(t)

\* Unlike modules(), the walk goes through the dictionary.
_iter_modules(t) == DOMAIN t.poolers

Recognised(p) ==
    \/ p.kind = "seq" /\ p.pooling \in {"CLS", "LAST", "MEAN"}
    \/ p.kind = "tok" /\ p.pooling = "ALL"
unsupported(t) == {k \in DOMAIN t.poolers : ~Recognised(t.poolers[k])}

\* Bucketed rows only where something trims them after the head.
patch_pooler_for_spyre(t) ==
    [t EXCEPT !.poolers = [k \in DOMAIN @ |->
        IF ~Recognised(@[k]) THEN @[k]
        ELSE [@[k] EXCEPT !.spyre = TRUE, !.defers = t.poolers[k].exact, !.trims = t.poolers[k].exact]]]

token_level(t) == \E k \in Registered(t) : t.poolers[k].kind = "tok" /\ t.poolers[k].spyre
_classifier_roots(t) ==
    t.classifier # None /\ (t.classifier.attr = "classifier" \/ t.classifier.holders \cap _iter_modules(t) # {})

_set_classifier_head_dtype(t) ==
    [k \in DOMAIN t.poolers |->
        IF k \in _iter_modules(t) /\ t.poolers[k].head = "classify" /\ t.poolers[k].dtype # None
        THEN [t.poolers[k] EXCEPT !.dtype = "fp16"] ELSE t.poolers[k]]

Downcast(c) == [c EXCEPT !.place = IF @.dtype = "fp32" THEN At("spyre", "fp16") ELSE @]

prepare_fp32_head_for_spyre(t) ==
    [t EXCEPT !.poolers = _set_classifier_head_dtype(t),
              !.classifier = IF _classifier_roots(t) THEN Downcast(@) ELSE @,
              !.modelDtype = IF @ = None THEN None ELSE "fp16"]

\* Every nn.Linear of the classifier; its other modules do for themselves.
patch_classifier_linears_for_spyre(t) ==
    IF _classifier_roots(t) THEN [t EXCEPT !.classifier.transposed = @ \/ t.classifier.linear] ELSE t

\* The pooler and what it registers, and the model's `classifier'.  Unless a registered head
\* holds that one the model applies it, through a wrapper.
run_pooling_tail_on_cpu(t) ==
    LET named == t.classifier # None /\ t.classifier.attr = "classifier"
        owned == t.classifier # None /\ t.classifier.holders \cap Registered(t) # {}
    IN [t EXCEPT !.stays = FALSE,
                 !.poolers = [k \in DOMAIN @ |->
                     IF k \in Registered(t) THEN [@[k] EXCEPT !.weight = OnHost(t.poolers[k].weight)] ELSE @[k]],
                 !.classifier = IF named \/ owned THEN [@ EXCEPT !.place = OnHost(t.classifier.place)] ELSE @,
                 !.wrapped = named /\ ~owned,
                 !.modelDtype = IF named /\ ~owned /\ @ # None THEN "fp16" ELSE @]

\* Left over in float32 after the downcast.
fp32_head(t) == \E k \in Registered(t) : t.poolers[k].head = "embed" /\ t.poolers[k].projector

patch_heads(t) ==
    [t EXCEPT !.trimsToReal = FALSE,
              !.poolers = [k \in DOMAIN @ |->
                  IF k \in _iter_modules(t)
                  THEN [@[k] EXCEPT !.spyreNorm = t.poolers[k].normalize, !.spyreHead = t.poolers[k].head = "embed"]
                  ELSE @[k]]]

configure_pooling_for_spyre(loaded) ==
    LET patched  == patch_pooler_for_spyre(loaded)
        prepared == IF token_level(patched) \/ _classifier_roots(patched)
                    THEN patch_classifier_linears_for_spyre(prepare_fp32_head_for_spyre(patched)) ELSE patched
    IN IF unsupported(loaded) # {} THEN run_pooling_tail_on_cpu(patched)
       ELSE IF fp32_head(prepared) THEN run_pooling_tail_on_cpu(prepared)
       ELSE patch_heads(prepared)

-----------------------------------------------------------------------------
(* What a step computes with the tail: x is where its rows are. *)

Cast(x, dtype) ==
    IF dtype \in {None, x.dtype} \/ x = Garbage THEN x
    ELSE IF x.dev = "spyre" THEN Garbage ELSE [x EXCEPT !.dtype = dtype]

\* Both operands at one place, and on Spyre neither in float32.
MatMul(x, w) == IF x = w /\ x # At("spyre", "fp32") THEN x ELSE Garbage

\* A converted Linear fetches its rows to its weight.
_match_weight(x, w) == IF x = Garbage THEN x ELSE w

\* On Spyre nn.Linear would be a float32 product; it has to be converted there.
Classify(c, x) ==
    IF c.transposed THEN MatMul(_match_weight(x, c.place), c.place)
    ELSE IF c.linear /\ c.place.dev = "spyre" THEN Garbage ELSE MatMul(x, c.place)

_cpu_cast_if_needed(p, x) ==
    IF p.spyreHead /\ x.dev = "spyre" /\ p.dtype \notin {None, x.dtype} THEN At("host", p.dtype) ELSE x

EmbedHead(p, x) ==
    LET cast == Cast(_cpu_cast_if_needed(p, x), p.dtype)
        projected == IF p.projector THEN MatMul(cast, p.weight) ELSE cast
    IN IF p.normalize /\ projected.dev = "spyre" /\ ~p.spyreNorm THEN Garbage ELSE projected

\* The model's own classifier comes first; a tail on the host is handed rows brought there.
Rows0(t) ==
    LET x == Cast(At("spyre", "fp16"), t.modelDtype)
        y == IF t.classifier = None \/ t.classifier.holders # {} THEN At("spyre", "fp16")
             ELSE IF x = Garbage THEN x
             ELSE IF t.wrapped THEN MatMul(At("host", t.classifier.place.dtype), t.classifier.place)
             ELSE Classify(t.classifier, x)
    IN IF t.stays \/ y = Garbage THEN y ELSE OnHost(y)

Holds(t, k) == t.classifier # None /\ k \in t.classifier.holders

Pooled(t, k) ==
    LET p == t.poolers[k]  x == Rows0(t)
        gathered == IF x.dev = "spyre" /\ ~p.spyre THEN Garbage ELSE x
    IN CASE p.head = "embed" -> EmbedHead(p, gathered)
         [] p.head = "classify" ->
              LET cast == Cast(gathered, p.dtype)
              IN IF Holds(t, k) THEN Classify(t.classifier, cast) ELSE cast
         [] OTHER -> gathered

\* A task's answers are computed at one place at a time, and are the batch's rows and no others.
Sound(t, k) ==
    /\ Pooled(t, k) # Garbage
    /\ t.poolers[k].defers <=> t.poolers[k].trims
    /\ t.stays => ~t.trimsToReal /\ t.poolers[k].spyre

\* The classifier only a dictionary's heads and another name of the model hold stays on Spyre
\* when the tail moves: nothing sees it.
Stranded(t) ==
    /\ ~t.stays /\ t.dispatch /\ t.classifier # None
    /\ t.classifier.attr \notin {"classifier", None}

\* The heads' dtype is settled with the classifiers', so of a tail without one it stays float32.
Uncast(t, k) ==
    t.stays /\ t.classifier = None /\ t.poolers[k].head = "classify" /\ t.poolers[k].dtype = "fp32"

\* A float16 classifier that is no Linear is neither cast nor converted: held only by the heads of
\* a dictionary it is still on the host, and rows are not brought to it.
Unfetched(t, k) ==
    t.stays /\ Holds(t, k) /\ ~t.classifier.linear /\ t.classifier.place.dev = "host"
=============================================================================
