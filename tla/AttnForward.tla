---------------------------- MODULE AttnForward ----------------------------
(***************************************************************************)
(* One forward pass of a paged attention layer, buffer by buffer.          *)
(*                                                                         *)
(* The kernels cannot take the caller's tensors, so results travel through *)
(* buffers allocated once for the run: group_out, which a batched call on  *)
(* one length group fills, and out_staging, where group results are        *)
(* scattered and where the per-sequence kernels store.  A layer that       *)
(* attn_layer.py splits hands out_staging in as the output ("pre-staged"). *)
(*                                                                         *)
(* A buffer cell holds the batch row whose result of THIS pass it has, or  *)
(* Junk: left from an earlier pass, never written, or of a padding row.    *)
(***************************************************************************)
EXTENDS Integers, Sequences

CONSTANTS
    StagingRows,     \* staging_rows, max_num_batched_tokens + 1
    SeqsBuckets,     \* num_seqs buckets
    TokenBuckets,    \* row counts of the caller's tensors
    Batches,         \* [query_start_loc, num_decode_seqs]
    Groupings        \* the splits of a decode prefix into length groups

Junk == -1

NumTokens(b) == b.query_start_loc[b.num_seqs]

\* A decode has one row, so the rows of the decode prefix are the prefix itself
\* (build() asserts it); every batch fits a bucket, every bucket the buffers.
ASSUME BatchAssumption ==
    \A b \in Batches :
        /\ b.num_seqs \in Nat \ {0} /\ b.num_decode_seqs \in 0..b.num_seqs
        /\ b.query_start_loc \in [0..b.num_seqs -> Nat]
        /\ \A s, t \in 0..b.num_seqs : s < t => b.query_start_loc[s] < b.query_start_loc[t]
        /\ \A s \in 0..b.num_decode_seqs : b.query_start_loc[s] = s
        /\ \E n \in TokenBuckets : NumTokens(b) <= n
        /\ \E n \in SeqsBuckets : b.num_decode_seqs <= n

ASSUME BufferAssumption ==
    /\ StagingRows \in Nat \ {0}
    /\ TokenBuckets \subseteq 1..(StagingRows - 1)
    /\ SeqsBuckets \subseteq 1..StagingRows

\* A group lists rows of the decode prefix and has a bucket (else build() attaches no
\* groups); a split has each row once.
ASSUME GroupAssumption ==
    \A split \in Groupings :
        /\ split \in Seq(Seq(Nat))
        /\ \A i \in DOMAIN split :
              /\ split[i] # <<>> /\ \E m \in SeqsBuckets : Len(split[i]) <= m
              /\ \A k, l \in DOMAIN split[i] : split[i][k] = split[i][l] => k = l
              /\ \A j \in DOMAIN split : i # j =>
                    \A k \in DOMAIN split[i], l \in DOMAIN split[j] : split[i][k] # split[j][l]

Splits(split, b) ==
    UNION {{split[i][k] : k \in DOMAIN split[i]} : i \in DOMAIN split}
      = 0..(b.num_decode_seqs - 1)

PaddedSeqs(n) == CHOOSE m \in SeqsBuckets : n <= m /\ \A k \in SeqsBuckets : n <= k => m <= k

VARIABLES
    pc,            \* what runs next
    batch,         \* this pass's metadata
    rows,          \* rows of the caller's query and output
    compile_attn,  \* kernels are compiled, and store into out_staging themselves
    pre_staged,    \* the caller staged the query; out_staging is the output
    groups,        \* decode_groups
    batched_done,  \* a batched path served the decode prefix
    at,            \* next group, or next sequence of the loop
    group_out, out_staging, output

vars == <<pc, batch, rows, compile_attn, pre_staged, groups, batched_done, at,
          group_out, out_staging, output>>

pass == <<batch, rows, compile_attn, pre_staged>>

JunkBuffer == [row \in 0..(StagingRows - 1) |-> Junk]
NoBatch == [num_seqs |-> 0, num_decode_seqs |-> 0, query_start_loc |-> [s \in {0} |-> 0]]

Init ==
    /\ pc = "idle" /\ batch = NoBatch /\ rows = 0
    /\ compile_attn = FALSE /\ pre_staged = FALSE
    /\ groups = <<>> /\ batched_done = FALSE /\ at = 0
    /\ group_out = JunkBuffer /\ out_staging = JunkBuffer /\ output = JunkBuffer

(***************************************************************************)
(* The pass begins; nothing the buffers hold is of this pass.              *)
(***************************************************************************)
Begin(b, path, split) ==
    /\ pc = "idle"
    /\ compile_attn' \in BOOLEAN /\ pre_staged' \in BOOLEAN
    /\ path = "group" => compile_attn' /\ Splits(split, b) /\ split # <<>>
    /\ path = "single" => compile_attn' /\ b.num_decode_seqs > 0
    /\ path # "group" => split = <<>>
    /\ batch' = b /\ groups' = split /\ pc' = path
    /\ rows' \in {n \in TokenBuckets :
                    NumTokens(b) <= n /\ \A m \in TokenBuckets : NumTokens(b) <= m => n <= m}
    /\ at' = IF path = "group" THEN 1 ELSE 0
    /\ batched_done' = FALSE
    /\ group_out' = JunkBuffer /\ out_staging' = JunkBuffer /\ output' = JunkBuffer

(***************************************************************************)
(* _run_batched_decode_dispatch on n members padded to a bucket.  Fused,   *)
(* the kernel stores all padded rows; else the first n are copied.         *)
(***************************************************************************)
QueryRows == IF pre_staged THEN StagingRows ELSE rows

Dispatched(buffer, members) ==
    LET n == Len(members)
        b == PaddedSeqs(n)
    IN  [row \in DOMAIN buffer |->
            IF row < n THEN members[row + 1]
            ELSE IF b <= QueryRows /\ row < b THEN Junk ELSE buffer[row]]

RunGroup ==
    /\ pc = "group"
    /\ group_out' = Dispatched(group_out, groups[at])
    /\ pc' = "scatter"
    /\ UNCHANGED <<pass, groups, batched_done, at, out_staging, output>>

\* Mutant: padding counted up from the members instead of down from the top.
PadAfterMembers(n, k) == n + k

\* _group_store_rows: where padding row k of a group of n is stored.
PadRow(n, k) == StagingRows - 1 - k

Pads(n) == 0..(PaddedSeqs(n) - n - 1)

\* _scatter_rows_kernel.  index_copy_ leaves open which of two stores to one row wins.
Scattered(members, padWins) ==
    LET n == Len(members)
        real(row) == {k \in 1..n : members[k] = row}
        pad(row) == {k \in Pads(n) : PadRow(n, k) = row}
    IN  [row \in DOMAIN out_staging |->
            IF pad(row) # {} /\ (padWins \/ real(row) = {})
            THEN group_out[n + CHOOSE k \in pad(row) : TRUE]
            ELSE IF real(row) # {} THEN group_out[(CHOOSE k \in real(row) : TRUE) - 1]
            ELSE out_staging[row]]

ScatterGroup ==
    /\ pc = "scatter"
    /\ \E padWins \in BOOLEAN : out_staging' = Scattered(groups[at], padWins)
    /\ at' = at + 1
    /\ pc' = IF at < Len(groups) THEN "group" ELSE "prefix"
    /\ UNCHANGED <<pass, groups, batched_done, group_out, output>>

\* After a batched path: a pure-decode batch is finished, another one has its
\* prompts left, which start behind the prefix.
AfterPrefix ==
    /\ pc' = IF batch.num_decode_seqs = batch.num_seqs THEN "return" ELSE "loop"
    /\ batched_done' = TRUE
    /\ at' = batch.num_decode_seqs
    /\ UNCHANGED <<pass, groups, group_out>>

Overlay(below, above, range) ==
    [row \in DOMAIN below |-> IF row \in range THEN above[row] ELSE below[row]]

\* The groups were scattered into out_staging; a caller that did not stage reads output.
CopyPrefix ==
    /\ pc = "prefix"
    /\ output' = IF pre_staged THEN output
                 ELSE Overlay(output, out_staging, 0..(batch.num_decode_seqs - 1))
    /\ UNCHANGED out_staging
    /\ AfterPrefix

Prefix(b) == [k \in 1..b.num_decode_seqs |-> k - 1]

\* One batched call for the whole prefix, straight into the output.
RunSingle ==
    /\ pc = "single"
    /\ IF pre_staged
       THEN out_staging' = Dispatched(out_staging, Prefix(batch)) /\ UNCHANGED output
       ELSE output' = Dispatched(output, Prefix(batch)) /\ UNCHANGED out_staging
    /\ AfterPrefix

(***************************************************************************)
(* The per-sequence loop, and the copy back from what it stored.           *)
(***************************************************************************)
SeqRows(b, s) == b.query_start_loc[s]..(b.query_start_loc[s + 1] - 1)

RunSequence ==
    LET stored(buffer) ==
          [row \in DOMAIN buffer |-> IF row \in SeqRows(batch, at) THEN row ELSE buffer[row]]
    IN  /\ pc = "loop" /\ at < batch.num_seqs
        /\ IF compile_attn \/ pre_staged
           THEN out_staging' = stored(out_staging) /\ UNCHANGED output
           ELSE output' = stored(output) /\ UNCHANGED out_staging
        /\ at' = at + 1
        /\ UNCHANGED <<pc, pass, groups, batched_done, group_out>>

\* Mutant: the whole batch is copied back, over decode rows already in the output.
CopyAllBack ==
    /\ pc = "loop" /\ at = batch.num_seqs
    /\ output' = IF compile_attn /\ ~pre_staged
                 THEN Overlay(output, out_staging, 0..(rows - 1)) ELSE output
    /\ pc' = "return"
    /\ UNCHANGED <<pass, groups, batched_done, at, group_out, out_staging>>

\* Only the rows behind the prefix if a batched path has put the prefix in the output.
CopyBack ==
    /\ pc = "loop" /\ at = batch.num_seqs
    /\ output' = IF compile_attn /\ ~pre_staged
                 THEN Overlay(output, out_staging,
                              (IF batched_done THEN batch.num_decode_seqs ELSE 0)..(rows - 1))
                 ELSE output
    /\ pc' = "return"
    /\ UNCHANGED <<pass, groups, batched_done, at, group_out, out_staging>>

\* attn_layer.py copies a staged output back to its own.
Return ==
    /\ pc = "return"
    /\ output' = IF pre_staged THEN Overlay(output, out_staging, 0..(rows - 1)) ELSE output
    /\ pc' = "done"
    /\ UNCHANGED <<pass, groups, batched_done, at, group_out, out_staging>>

NextPass ==
    /\ pc = "done"
    /\ pc' = "idle" /\ at' = 0 /\ groups' = <<>>
    /\ UNCHANGED <<pass, batched_done, group_out, out_staging, output>>

Next ==
    \/ \E b \in Batches : Begin(b, "single", <<>>) \/ Begin(b, "loop", <<>>)
    \/ \E b \in Batches, split \in Groupings : Begin(b, "group", split)
    \/ RunGroup \/ ScatterGroup \/ CopyPrefix \/ RunSingle
    \/ RunSequence \/ CopyBack \/ Return \/ NextPass

Spec == Init /\ [][Next]_vars

(***************************************************************************)
(* Properties.                                                             *)
(***************************************************************************)
\* _group_store_rows says of the rows padding is stored on that "no batch reaches" them; when
\* max_num_batched_tokens is near max_num_seqs, one does: the padding of one of groups i to last.
PadsReach(row, i, last) ==
    \E j \in i..last : row >= StagingRows - (PaddedSeqs(Len(groups[j])) - Len(groups[j]))

\* What the buffers give a row (_group_store_rows, _scatter_rows_kernel): stored groups keep
\* their results, whatever was stored before or since and in whatever order, but for rows that
\* the padding of their own group or of a later one reaches.
LostOnlyAtTheTop ==
    pc \in {"group", "scatter", "prefix"} =>
        \A i \in 1..(at - 1) : \A k \in DOMAIN groups[i] :
            out_staging[groups[i][k]] = groups[i][k] \/ PadsReach(groups[i][k], i, at - 1)

Exposed ==
    {row \in 0..(batch.num_decode_seqs - 1) :
        \E i \in DOMAIN groups :
            (\E k \in DOMAIN groups[i] : groups[i][k] = row) /\ PadsReach(row, i, Len(groups))}

\* To its caller the pass (_online_softmax_attention, and the copies around it) is one step
\* that answers each row with its own result, the exposed rows excepted.
Answered ==
    IF pc = "done" THEN [row \in 0..(NumTokens(batch) - 1) |-> output[row]] ELSE <<>>

Abstract == INSTANCE AttnStep WITH
    asked <- IF pc = "idle" THEN 0 ELSE NumTokens(batch),
    exposed <- Exposed,
    answer <- Answered

AnswersEveryRow == Abstract!Spec
============================================================================
