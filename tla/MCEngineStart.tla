--------------------------- MODULE MCEngineStart ---------------------------
(* Command lines that differ from two typical ones in a field or a pair.   *)
EXTENDS EngineWarmup

Cpus(given, quota, cores) == [given |-> given, quota |-> quota, cores |-> cores]

Server == [eager |-> FALSE, pooling |-> FALSE, direct |-> FALSE, model_len |-> 4096, len |-> 0,
           budget |-> 0, seqs |-> 0, sizes |-> Unset, block |-> 0, blocks |-> 0, world |-> 1,
           backend |-> "none", multiprocessing |-> TRUE, machine |-> "x86", omp |-> 8,
           update |-> TRUE, cpus |-> Cpus(0, 0, 6), features |-> {}, drafts |-> 0,
           logprobs |-> FALSE, ladder |-> "pow2", kv_buckets |-> {}]

Offline == [Server EXCEPT !.multiprocessing = FALSE, !.seqs = 6, !.len = 500]

\* Processes, threads and runners.
Hosts ==
    {[u EXCEPT !.machine = m, !.features = f] :
        u \in {Server}, m \in {"x86", "x86_triton", "power"},
        f \in {{}, {"watermark"}, {"future"}, {"hisparse"}, {"sharded"}, {"dp"},
              {"aux_output"}, {"mm_cudagraph"}, {"bfloat16", "quantized"}}}
    \cup {[Server EXCEPT !.world = w, !.features = {"bfloat16"}] : w \in {1, 4}}
    \cup {[u EXCEPT !.world = w, !.backend = b, !.cpus = c, !.update = up] :
        u \in {Server, Offline}, w \in {1, 4}, b \in {"none", "uni", "mp"},
        c \in {Cpus(0, 0, 6), Cpus(3, 2, 8), Cpus(0, 2, 8), Cpus(0, 0, 0)}, up \in BOOLEAN}

\* Budgets, batches and sizes.
Limits ==
    {[u EXCEPT !.budget = b, !.seqs = n, !.sizes = s, !.direct = d, !.logprobs = l,
               !.features = f, !.machine = "x86_triton"] :
        u \in {Server}, b \in {0, 96, 1024}, n \in {0, 7, 600}, s \in {Unset, {}, {1, 5, 40}},
        d \in BOOLEAN, l \in BOOLEAN, f \in {{}, {"image"}}}
    \cup {[u EXCEPT !.eager = TRUE, !.pooling = p] : u \in {Server, Offline}, p \in BOOLEAN}
    \cup {[u EXCEPT !.pooling = TRUE, !.sizes = s, !.seqs = n, !.len = k] :
        u \in {Server}, s \in {Unset, {256}}, n \in {0, 64}, k \in {512, 4096}}

\* Speculation.
Drafts ==
    {[Offline EXCEPT !.drafts = 7, !.direct = d, !.seqs = 2] : d \in BOOLEAN}
    \cup {[u EXCEPT !.drafts = 7, !.seqs = n, !.budget = b, !.direct = d] :
        u \in {Server}, n \in {0, 1, 3, 5}, b \in {0, 40, 64}, d \in {FALSE}}

\* Pages and ladders.
Pages ==
    {[u EXCEPT !.block = k, !.len = n, !.seqs = q, !.ladder = l, !.kv_buckets = r] :
        u \in {Server}, k \in {0, 16, 100, 130, 256}, n \in {1000, 1024, 2500}, q \in {3},
        l \in LadderNames, r \in {{}, {64, 1024, 16384}}}

MCUsers == Hosts \cup Limits \cup Drafts \cup Pages
MCStepTokens == {1, 2, 3, 7, 33, 90, 513, 1000}
=============================================================================
