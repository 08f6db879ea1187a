----------------------------- MODULE DecoderStep -----------------------------
(***************************************************************************)
(* The engine step of a decoder with draft proposals: admission, slots,    *)
(* the target pass and its scatter into the paged cache, verification of   *)
(* drafts, generators, and the draft model's own cache.                    *)
(*                                                                         *)
(* The scheduler, its page pool and the order of a step are vLLM's, as     *)
(* this plugin relies on them.  A token is TRUE when it is the target      *)
(* model's greedy choice at its place, so a prompt is all TRUE; a draft    *)
(* may be either.  A cache cell knows whose token it holds, at which       *)
(* place.  A row attends to what its request's pages hold when it runs:    *)
(* if that is not the request's own context, the result is not TRUE.       *)
(***************************************************************************)
EXTENDS Integers, FiniteSets, FiniteSetsExt, Sequences, SequencesExt

CONSTANTS
    Arrivals,     \* requests in order of arrival
    Prompt,       \* tokens of each one's prompt
    MaxTokens,    \* most tokens of each one's answer
    MaxLen,       \* max_model_len
    NumPages, PageSize,
    Budget,       \* max_num_batched_tokens
    MaxSeqs,      \* max_num_seqs
    MaxPartial,   \* SPYRE_MAX_NUM_PARTIAL_PREFILLS
    NumSpec       \* num_speculative_tokens; 0 for none

Requests == ToSet(Arrivals)
Limit    == [r \in Requests |-> Min({MaxTokens[r], MaxLen - Prompt[r]})]
Block    == IF NumSpec = 0 THEN 0 ELSE NumSpec + 1

ASSUME StepAssumption ==
    /\ Arrivals \in Seq(Requests) /\ IsInjective(Arrivals) /\ MaxLen \in Nat /\ NumPages \in Nat
    /\ Prompt \in [Requests -> 1..(MaxLen - 1)] /\ MaxTokens \in [Requests -> Nat \ {0}]
    /\ PageSize \in Nat \ {0} /\ NumPages * PageSize >= MaxLen
    /\ Budget \in Nat \ {0} /\ MaxSeqs \in Nat \ {0}
    /\ MaxPartial \in Nat /\ NumSpec \in Nat
    /\ NumSpec > 0 => Budget >= MaxSeqs * (Block + NumSpec - 1)   \* validate_dflash_config

Pages == 1..NumPages       \* page 0 is the null page; nothing is read from it
Slots == [page : Pages, off : 0..(PageSize - 1)]
Junk  == <<>>
Cell(r, p, tok) == <<r, p, tok>>

VARIABLES
    tokens,       \* prompt and answer so far
    computed,     \* num_computed_tokens
    drafts,       \* spec_token_ids
    running, waiting, finished,
    table,        \* each request's pages
    cap,          \* max_num_active_reqs
    saved,        \* the cap to be put back
    phase, at,    \* place in the step, and in the running list
    budget,
    preempted,    \* the step has preempted
    batch,        \* tokens scheduled for each request
    published,    \* slots the layers' holders name, the null page left out
    kv, dkv,      \* paged cache of the target and of the draft model
    sampled,      \* sampled_token_ids of the step
    context,      \* context_end of each request the draft model ran for
    gen,          \* draws taken from each request's generator
    draws         \* history: draws whose token the request has got

sched == <<running, waiting, finished, table, cap, saved, at, budget, preempted, batch>>
vars  == <<tokens, computed, drafts, sched, phase, published, kv, dkv, sampled, context, gen, draws>>

None == [r \in {} |-> 0]

\* The element of a set of numbers that k others precede, and a sequence without some elements.
Nth(S, k)     == CHOOSE n \in S : Cardinality({m \in S : m < n}) = k
Without(s, S) ==
    LET kept == {i \in DOMAIN s : s[i] \notin S}
    IN  [k \in 1..Cardinality(kept) |-> s[Nth(kept, k - 1)]]

Init ==
    /\ tokens = [r \in Requests |-> [p \in 1..Prompt[r] |-> TRUE]]
    /\ computed = [r \in Requests |-> 0] /\ drafts = [r \in Requests |-> <<>>]
    /\ running = <<>> /\ waiting = Arrivals /\ finished = {}
    /\ table = [r \in Requests |-> <<>>]
    /\ cap = MaxSeqs /\ saved = MaxSeqs
    /\ phase = "idle" /\ at = 0 /\ budget = 0 /\ preempted = FALSE /\ batch = None
    /\ published = {}
    /\ kv = [s \in Slots |-> Junk] /\ dkv = [s \in Slots |-> Junk]
    /\ sampled = None /\ context = None
    /\ gen = [r \in Requests |-> 0] /\ draws = [r \in Requests |-> 0]

Slot(r, p) == [page |-> table[r][p \div PageSize + 1], off |-> p % PageSize]

-----------------------------------------------------------------------------
(* schedule(): the cap is lowered around vLLM's scheduler *)

Prefilling == {r \in ToSet(running) : computed[r] < Prompt[r]}

\* A plausible bug: every request that has its prompt before it counts, the waiting ones too.
free_slots_of_all ==
    Max({MaxPartial - Cardinality({r \in Requests \ finished : computed[r] < Prompt[r]}), 0})

free_slots == Max({MaxPartial - Cardinality(Prefilling), 0})

Begin ==
    /\ phase = "idle" /\ (running # <<>> \/ waiting # <<>>)
    /\ saved' = cap
    /\ cap' = IF MaxPartial = 0 THEN cap ELSE Min({cap, Len(running) + free_slots})
    /\ phase' = "running" /\ at' = 1 /\ budget' = Budget /\ preempted' = FALSE /\ batch' = None
    /\ sampled' = None /\ context' = None
    /\ UNCHANGED <<tokens, computed, drafts, running, waiting, finished, table,
                   published, kv, dkv, gen, draws>>

\* Tokens of r the step computes next: what is left, drafts included, within the limits.
Wanted(r) == Min({Len(tokens[r]) + Len(drafts[r]) - computed[r], budget, MaxLen - 1 - computed[r]})

Used     == UNION {ToSet(table[r]) : r \in Requests}
Lacks(r) ==
    LET reach == Min({computed[r] + Wanted(r) + Block, MaxLen})
    IN Max({(reach + PageSize - 1) \div PageSize - Len(table[r]), 0})
Fits(r)  == Lacks(r) <= NumPages - Cardinality(Used)

\* The pool hands out its pages in some fixed order.
Take(r) ==
    table' = [table EXCEPT ![r] =
        @ \o [i \in 1..Lacks(r) |-> Nth(Pages \ Used, i - 1)]]

\* Drafts that were not scheduled are dropped.
Book(r) ==
    /\ batch' = [q \in DOMAIN batch \cup {r} |-> IF q = r THEN Wanted(r) ELSE batch[q]]
    /\ drafts' = [drafts EXCEPT ![r] =
          SubSeq(@, 1, Max({computed[r] + Wanted(r) - Len(tokens[r]), 0}))]
    /\ budget' = budget - Wanted(r)

RunningOver == at > Len(running) \/ budget = 0

ScheduleRunning ==
    /\ phase = "running" /\ ~RunningOver
    /\ Fits(running[at])
    /\ Take(running[at]) /\ Book(running[at])
    /\ at' = at + 1
    /\ UNCHANGED <<tokens, computed, running, waiting, finished, cap, saved, phase, preempted,
                   published, kv, dkv, sampled, context, gen, draws>>

\* The youngest running request gives its pages back and starts over.
Preempt ==
    /\ phase = "running" /\ ~RunningOver
    /\ ~Fits(running[at])
    /\ LET r == Last(running)
       IN /\ waiting' = <<r>> \o waiting
          /\ table' = [table EXCEPT ![r] = <<>>]
          /\ computed' = [computed EXCEPT ![r] = 0]
          /\ drafts' = [drafts EXCEPT ![r] = <<>>]
    /\ running' = Front(running) /\ preempted' = TRUE
    /\ UNCHANGED <<tokens, finished, cap, saved, phase, at, budget, batch,
                   published, kv, dkv, sampled, context, gen, draws>>

Admissible ==
    /\ ~preempted /\ budget > 0 /\ waiting # <<>> /\ Len(running) < cap
    /\ Fits(Head(waiting))

Admit ==
    /\ phase = "running" /\ RunningOver /\ Admissible
    /\ Take(Head(waiting)) /\ Book(Head(waiting))
    /\ running' = Append(running, Head(waiting)) /\ waiting' = Tail(waiting)
    /\ at' = at + 1
    /\ UNCHANGED <<tokens, computed, finished, cap, saved, phase, preempted,
                   published, kv, dkv, sampled, context, gen, draws>>

EndSchedule ==
    /\ phase = "running" /\ RunningOver /\ ~Admissible
    /\ cap' = saved
    /\ phase' = (IF batch = None THEN "idle" ELSE "execute")
    /\ UNCHANGED <<tokens, computed, drafts, running, waiting, finished, table, saved, at, budget,
                   preempted, batch, published, kv, dkv, sampled, context, gen, draws>>

-----------------------------------------------------------------------------
(* The target pass *)

Rows  == UNION {{r} \X (computed[r]..(computed[r] + batch[r] - 1)) : r \in DOMAIN batch}
Token(r, p) == (tokens[r] \o drafts[r])[p + 1]

\* block_numbers * block_size + block_offsets, from the request's own row of the block table.
compute_slot(r, p) == Slot(r, p)

\* The traced write: every row's key and value go to its published slot; the rest of the
\* rows, padding, go to the null page.
Scattered ==
    [s \in Slots |->
        LET rows == {row \in Rows : compute_slot(row[1], row[2]) = s}
        IN IF rows = {} THEN kv[s]
           ELSE LET row == CHOOSE row \in rows : TRUE
                IN Cell(row[1], row[2], Token(row[1], row[2]))]

\* Row p is the target's own choice if it attends to nothing but r's context: `dep` orders the
\* scatter before the read.
Right(cache, r, p) == \A q \in 0..p : cache[Slot(r, q)] = Cell(r, q, TRUE)

Discarded(r) == computed[r] + batch[r] < Len(tokens[r])

\* rejection_greedy_sample: drafts are compared in order; the first that differs is replaced
\* and ends the row, or else a bonus token follows them.
Verified(r, cache) ==
    LET n      == Len(drafts[r])
        target == [i \in 1..(n + 1) |-> Right(cache, r, Len(tokens[r]) + i - 2)]
        agree  == {i \in 0..n : \A j \in 1..i : drafts[r][j] = target[j]}
    IN SubSeq(target, 1, Max(agree) + 1)

\* A plausible bug: generators of discarded samples are not put back.
Drawn(r) == 1

\* _sample: a draw whose sample is discarded is undone; bookkeeping must not undo it again.
KeptDraw(r) == IF Discarded(r) THEN 0 ELSE 1

Execute ==
    /\ phase = "execute"
    /\ published' = {compute_slot(row[1], row[2]) : row \in Rows}
    /\ LET cache == Scattered
       IN /\ kv' = cache
          /\ sampled' = [r \in DOMAIN batch |-> IF Discarded(r) THEN <<>> ELSE Verified(r, cache)]
    /\ gen' = [r \in Requests |-> gen[r] + (IF r \in DOMAIN batch THEN KeptDraw(r) ELSE 0)]
    /\ draws' = [r \in Requests |->
                    draws[r] + (IF r \in DOMAIN batch /\ sampled'[r] # <<>> THEN 1 ELSE 0)]
    /\ phase' = "propose"
    /\ UNCHANGED <<tokens, computed, drafts, sched, dkv, context>>

-----------------------------------------------------------------------------
(* Draft proposals *)

\* Committed target rows, without the correction or bonus token.
accepted_context_length(scheduled, n, got) ==
    IF n = 0 THEN scheduled ELSE scheduled - n + got - 1

Accepted(r) == accepted_context_length(batch[r], Len(drafts[r]), Len(sampled[r]))
Answered(r) == Len(tokens[r]) - Prompt[r]
AtLimit(r)  == Answered(r) + Len(sampled[r]) >= MaxTokens[r]

\* A plausible bug: context is committed for the requests that draft only.
CommittedIfActive(active) ==
    UNION {{r} \X (computed[r]..(computed[r] + Accepted(r) - 1)) : r \in active}

\* Every request commits the rows that were accepted, drafting or not.
Committed(active) ==
    UNION {{r} \X (computed[r]..(computed[r] + Accepted(r) - 1)) : r \in DOMAIN batch}

Drafting ==
    {r \in DOMAIN batch : /\ sampled[r] # <<>> /\ ~AtLimit(r)
                          /\ computed[r] + Accepted(r) + Block <= MaxLen}

\* Context first, then the draft block of each active request after it; the block's cells are
\* drafts, and rejected or padded rows go to the null page.
DraftCache(active) ==
    LET ends   == [r \in active |-> computed[r] + Accepted(r)]
        blocks == UNION {{r} \X (ends[r]..(ends[r] + Block - 1)) : r \in active}
    IN [s \in Slots |->
           IF \E row \in blocks : Slot(row[1], row[2]) = s THEN Junk
           ELSE LET rows == {row \in Committed(active) : Slot(row[1], row[2]) = s}
                IN IF rows = {} THEN dkv[s]
                   ELSE LET row == CHOOSE row \in rows : TRUE
                        IN Cell(row[1], row[2], Token(row[1], row[2]))]

propose_spyre ==
    /\ phase = "propose"
    /\ IF NumSpec = 0 THEN UNCHANGED <<dkv, context>>
       ELSE /\ dkv' = DraftCache(Drafting)
            /\ context' = [r \in Drafting |-> computed[r] + Accepted(r)]
    /\ phase' = "update"
    /\ UNCHANGED <<tokens, computed, drafts, sched, published, kv, sampled, gen, draws>>

-----------------------------------------------------------------------------
(* The scheduler takes the results *)

\* What a request gets; anything past its limit is cut off.
Gets(r) == SubSeq(sampled[r], 1, Min({Len(sampled[r]), Limit[r] - Answered(r)}))
Done(r) == Answered(r) + Len(Gets(r)) = Limit[r]

Update ==
    /\ phase = "update"
    /\ LET over == {r \in DOMAIN batch : Done(r)}
       IN /\ tokens' = [r \in Requests |-> IF r \in DOMAIN batch THEN tokens[r] \o Gets(r) ELSE tokens[r]]
          /\ finished' = finished \cup over
          /\ running' = Without(running, over)
          /\ table' = [r \in Requests |-> IF r \in over THEN <<>> ELSE table[r]]
    /\ computed' = [r \in Requests |->
          IF r \in DOMAIN batch THEN computed[r] + Accepted(r) ELSE computed[r]]
    /\ \E proposal \in [DOMAIN context -> [1..NumSpec -> BOOLEAN]] :
          drafts' = [r \in Requests |-> IF r \in DOMAIN context THEN proposal[r] ELSE
                                        IF r \in DOMAIN batch THEN <<>> ELSE drafts[r]]
    /\ phase' = "idle" /\ batch' = None /\ sampled' = None /\ context' = None
    /\ UNCHANGED <<waiting, cap, saved, at, budget, preempted, published, kv, dkv, gen, draws>>

\* A plausible bug: the holders keep the last step's slots.
DummyRunStale ==
    /\ phase = "idle" /\ published # {}
    /\ kv' = [s \in Slots |-> IF s \in published THEN Junk ELSE kv[s]]
    /\ published' = {}
    /\ UNCHANGED <<tokens, computed, drafts, sched, phase, dkv, sampled, context, gen, draws>>

\* A run without metadata (warmup again after a reload of the weights) writes through the
\* holders, too; all of them name the null page by then.
DummyRun ==
    /\ phase = "idle" /\ published # {}
    /\ published' = {}
    /\ kv' = [s \in Slots |-> IF s \in published' THEN Junk ELSE kv[s]]
    /\ UNCHANGED <<tokens, computed, drafts, sched, phase, dkv, sampled, context, gen, draws>>

\* A client goes away.
Abort(r) ==
    /\ phase = "idle" /\ r \notin finished
    /\ finished' = finished \cup {r}
    /\ running' = Without(running, {r})
    /\ waiting' = Without(waiting, {r})
    /\ table' = [table EXCEPT ![r] = <<>>]
    /\ UNCHANGED <<tokens, computed, drafts, cap, saved, at, budget, preempted, batch, phase,
                   published, kv, dkv, sampled, context, gen, draws>>

Step ==
    \/ Begin \/ ScheduleRunning \/ Preempt \/ Admit \/ EndSchedule
    \/ Execute \/ propose_spyre \/ Update

Next == Step \/ DummyRun \/ \E r \in Requests : Abort(r)

\* The engine loop runs while there are requests.
Spec == Init /\ [][Next]_vars /\ WF_vars(Step)

-----------------------------------------------------------------------------
(* Properties *)

\* The draft model's context of a request it runs for is that request's committed tokens at
\* every place: no rejected draft, no row of another request that had the page before, none
\* left out because the request did not draft in an earlier step or was preempted.
DraftContextIsCommitted ==
    \A r \in DOMAIN context : \A p \in 0..(context[r] - 1) :
        dkv[Slot(r, p)] = Cell(r, p, (tokens[r] \o sampled[r])[p + 1])

\* A request's generator has moved once for each sample the request got, however its prompt
\* was cut into chunks and however often it was preempted.
GeneratorsFollowSamples == \A r \in Requests : gen[r] = draws[r]

Answer == [r \in Requests |-> SubSeq(tokens[r], Prompt[r] + 1, Len(tokens[r]))]

\* Drafts, rejections, preemptions, reused pages and dummy runs never show: every answer is
\* the one the target model alone would give.
Alone == INSTANCE TargetDecode WITH answer <- Answer
AnswersAsTargetAlone == Alone!Spec

\* Nobody is left waiting: every request is answered in full or goes away.
EveryRequestEnds == \A r \in Requests : <>(r \in finished)
=============================================================================
