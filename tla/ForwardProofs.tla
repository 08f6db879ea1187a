--------------------------- MODULE ForwardProofs ---------------------------
(***************************************************************************)
(* What a forward pass gives, through buffers that outlive it.             *)
(*                                                                         *)
(* A decoder's attention: for every batch, split and bucket set, a pass    *)
(* refines AttnStep; the rows it gives up are those that padding reaches.  *)
(*                                                                         *)
(* An encoder's step: for any limits and prompts, on rectangles or in      *)
(* groups, each request is pooled from its own rows.                       *)
(***************************************************************************)
EXTENDS AttnForward, EncoderServing, FiniteSetTheorems, SequenceTheorems, WellFoundedInduction, TLAPS

(***************************************************************************)
(* The inductive invariant.                                                *)
(***************************************************************************)
Domains ==
    /\ DOMAIN group_out = 0..(StagingRows - 1)
    /\ DOMAIN out_staging = 0..(StagingRows - 1)
    /\ DOMAIN output = 0..(StagingRows - 1)

Grouped == {"group", "scatter", "prefix"}
Underway == Grouped \cup {"single", "loop", "return", "done"}

BatchFits ==
    pc \in Underway =>
        /\ batch \in Batches /\ rows \in TokenBuckets /\ NumTokens(batch) <= rows

GroupsLeft ==
    pc \in Grouped =>
        /\ groups \in Groupings /\ Splits(groups, batch)
        /\ at \in Nat \ {0} /\ at <= Len(groups) + 1
        /\ pc = "prefix" <=> at = Len(groups) + 1

Gathered ==
    pc = "scatter" => \A k \in 1..Len(groups[at]) : group_out[k - 1] = groups[at][k]

\* The buffer the caller reads in the end, and the one the loop stores to.
Final(row) == IF pre_staged THEN out_staging[row] ELSE output[row]
Stored(row) == IF compile_attn \/ pre_staged THEN out_staging[row] ELSE output[row]

LoopInv ==
    pc = "loop" =>
        /\ at \in 0..batch.num_seqs
        /\ batched_done => batch.num_decode_seqs <= at
        /\ batched_done => \A row \in 0..(batch.num_decode_seqs - 1) \ Exposed : Final(row) = row
        /\ batched_done => compile_attn
        /\ \A row \in 0..(batch.query_start_loc[at] - 1) :
              (batched_done => batch.num_decode_seqs <= row) => Stored(row) = row

ReturnInv ==
    /\ pc = "return" => \A row \in 0..(NumTokens(batch) - 1) \ Exposed : Final(row) = row
    /\ pc = "done" => \A row \in 0..(NumTokens(batch) - 1) \ Exposed : output[row] = row

Inv ==
    /\ pc \in {"idle"} \cup Underway
    /\ Domains /\ BatchFits /\ GroupsLeft /\ Gathered /\ LostOnlyAtTheTop
    /\ pc \in Grouped \cup {"single"} => compile_attn
    /\ LoopInv /\ ReturnInv

\* Which rows a pass gives up is settled when it begins.
LEMMA ExposedStays ==
    ASSUME UNCHANGED <<batch, groups>>
    PROVE  Exposed' = Exposed
  BY DEF Exposed, PadsReach

LEMMA NoneExposed ==
    ASSUME groups = <<>>
    PROVE  Exposed = {}
  BY DEF Exposed

\* A non-empty set of naturals has a least element.
LEMMA LeastExists ==
    ASSUME NEW S \in SUBSET Nat, S # {}
    PROVE  \E c \in S : \A x \in S : c <= x
<1> DEFINE Below == {ss \in Nat \X Nat : ss[1] < ss[2]}
<1>1. IsWellFoundedOn(Below, Nat)
  BY NatLessThanWellFounded, Zenon DEF OpToRel
<1> HIDE DEF Below
<1>2. PICK c \in S : \A x \in S : ~(<<x, c>> \in Below)
  BY <1>1, WFMin, Zenon
<1>3. ASSUME NEW x \in S PROVE c <= x
  <2>1. ~(<<x, c>> \in Below)
    BY <1>2
  <2> QED
    BY <2>1 DEF Below
<1> QED
  BY <1>3

(***************************************************************************)
(* What one store leaves in the buffers.                                   *)
(***************************************************************************)
\* Members of a group are decode rows, and have rows in the buffers.
LEMMA MembersAreDecodes ==
    ASSUME NEW b \in Batches, NEW split \in Groupings, Splits(split, b),
           NEW i \in DOMAIN split, NEW k \in DOMAIN split[i]
    PROVE  split[i][k] \in 0..(b.num_decode_seqs - 1)
  BY DEF Splits

LEMMA DecodesHaveRows ==
    ASSUME NEW b \in Batches
    PROVE  /\ b.num_decode_seqs \in Nat /\ b.num_decode_seqs <= NumTokens(b)
           /\ NumTokens(b) \in Nat \ {0}
<1>1. b.num_seqs \in Nat \ {0} /\ b.num_decode_seqs \in 0..b.num_seqs
  BY BatchAssumption
<1>2. b.query_start_loc[b.num_decode_seqs] = b.num_decode_seqs /\ b.query_start_loc[0] = 0
  BY <1>1, BatchAssumption
<1>3. b.query_start_loc[b.num_seqs] \in Nat
  BY <1>1, BatchAssumption
<1>4. b.num_decode_seqs <= b.query_start_loc[b.num_seqs] /\ 0 < b.query_start_loc[b.num_seqs]
  BY <1>1, <1>2, <1>3, BatchAssumption
<1> QED
  BY <1>1, <1>3, <1>4 DEF NumTokens

LEMMA PaddedIs ==
    ASSUME NEW split \in Groupings, NEW i \in DOMAIN split
    PROVE  Len(split[i]) \in Nat /\ PaddedSeqs(Len(split[i])) \in Nat
<1>1. PICK n \in Nat : n = Len(split[i])
  BY GroupAssumption
<1>2. PICK w \in SeqsBuckets : n <= w
  BY <1>1, GroupAssumption
<1>3. SeqsBuckets \in SUBSET Nat
  BY BufferAssumption
<1>4. PICK m \in {v \in SeqsBuckets : n <= v} : \A k \in {v \in SeqsBuckets : n <= v} : m <= k
  BY <1>2, <1>3, LeastExists
<1>5. \E v \in SeqsBuckets : n <= v /\ \A k \in SeqsBuckets : n <= k => v <= k
  BY <1>4
<1>6. PaddedSeqs(n) \in SeqsBuckets
  BY <1>5 DEF PaddedSeqs
<1> QED
  BY <1>1, <1>3, <1>6

\* What a group's store leaves in a row of a group stored before, or of its own.
LEMMA GroupStored ==
    ASSUME NEW split \in Groupings, NEW i \in DOMAIN split,
           NEW padWins \in BOOLEAN, NEW j \in DOMAIN split, NEW k \in DOMAIN split[j],
           split[j][k] \in DOMAIN out_staging, split[j][k] \in Nat,
           \A m \in 1..Len(split[i]) : group_out[m - 1] = split[i][m],
           i # j => out_staging[split[j][k]] = split[j][k]
    PROVE  \/ Scattered(split[i], padWins)[split[j][k]] = split[j][k]
           \/ split[j][k] >= StagingRows - (PaddedSeqs(Len(split[i])) - Len(split[i]))
<1> DEFINE row == split[j][k]
           n == Len(split[i])
           real == {m \in 1..n : split[i][m] = row}
           pad == {p \in Pads(n) : PadRow(n, p) = row}
<1>0. n \in Nat /\ PaddedSeqs(n) \in Nat /\ StagingRows \in Nat
  BY PaddedIs, BufferAssumption
<1>1. CASE pad # {}
  <2>1. PICK p \in 0..(PaddedSeqs(n) - n - 1) : row = StagingRows - 1 - p
    BY <1>1 DEF Pads, PadRow
  <2> QED
    BY <1>0, <2>1
<1>2. CASE pad = {}
  <2>1. Scattered(split[i], padWins)[row] =
          IF real # {} THEN group_out[(CHOOSE m \in real : TRUE) - 1] ELSE out_staging[row]
    BY <1>2 DEF Scattered
  <2>2. CASE real # {}
    <3>1. (CHOOSE m \in real : TRUE) \in real
      BY <2>2
    <3> QED
      BY <2>1, <2>2, <3>1
  <2>3. CASE real = {}
    <3>1. i # j
      <4>1. split[i] \in Seq(Nat)
        BY GroupAssumption
      <4> QED
        BY <2>3, <4>1
    <3> QED
      BY <2>1, <2>3, <3>1
  <2> QED
    BY <2>2, <2>3
<1> QED
  BY <1>1, <1>2

(***************************************************************************)
(* Init and every action.                                                  *)
(***************************************************************************)
LEMMA InvInit == Init => Inv
  BY BufferAssumption DEF Init, Inv, Domains, JunkBuffer, BatchFits, GroupsLeft, Gathered,
     LostOnlyAtTheTop, LoopInv, ReturnInv, Grouped, Underway

LEMMA BeginInv ==
    ASSUME Inv, NEW b \in Batches, NEW path \in {"group", "single", "loop"}, NEW split,
           path = "group" => split \in Groupings, Begin(b, path, split)
    PROVE  Inv'
<1>1. /\ pc' = path /\ batch' = b /\ groups' = split /\ at' = IF path = "group" THEN 1 ELSE 0
      /\ batched_done' = FALSE /\ rows' \in TokenBuckets /\ NumTokens(b) <= rows'
      /\ path = "group" => Splits(split, b) /\ split # <<>>
      /\ path \in {"group", "single"} => compile_attn'
  BY DEF Begin
<1>2. Domains'
  BY DEF Begin, JunkBuffer, Domains
<1>3. BatchFits'
  BY <1>1 DEF BatchFits, NumTokens
<1>4. GroupsLeft'
  <2>1. path = "group" => Len(split) \in Nat \ {0}
    BY <1>1, GroupAssumption
  <2> QED
    BY <1>1, <2>1 DEF GroupsLeft, Grouped, Splits
<1>5. LoopInv'
  <2>1. b.query_start_loc[0] = 0 /\ b.num_seqs \in Nat
    BY BatchAssumption
  <2> QED
    BY <1>1, <2>1 DEF LoopInv
<1>6. LostOnlyAtTheTop' /\ Gathered' /\ ReturnInv'
  BY <1>1 DEF LostOnlyAtTheTop, Gathered, ReturnInv
<1> QED
  BY <1>1, <1>2, <1>3, <1>4, <1>5, <1>6 DEF Inv, Grouped, Underway

LEMMA RunGroupInv ==
    ASSUME Inv, RunGroup
    PROVE  Inv'
<1>1. /\ pc = "group" /\ pc' = "scatter" /\ at \in DOMAIN groups /\ groups \in Groupings
      /\ UNCHANGED <<pass, groups, batched_done, at, out_staging, output>>
      /\ group_out' = Dispatched(group_out, groups[at])
  BY GroupAssumption DEF Inv, RunGroup, GroupsLeft, Grouped
<1>2. Domains'
  BY <1>1 DEF Domains, Inv, Dispatched
<1>3. Gathered'
  <2>1. groups[at] \in Seq(Nat) /\ Len(groups[at]) <= StagingRows
    BY <1>1, GroupAssumption, BufferAssumption
  <2>2. DOMAIN group_out = 0..(StagingRows - 1)
    BY DEF Inv, Domains
  <2>3. ASSUME NEW k \in 1..Len(groups[at]) PROVE group_out'[k - 1] = groups[at][k]
    <3>1. k \in Int /\ k - 1 \in DOMAIN group_out /\ k - 1 < Len(groups[at])
      BY <2>1, <2>2, BufferAssumption
    <3>2. group_out'[k - 1] = groups[at][(k - 1) + 1]
      BY <1>1, <3>1 DEF Dispatched
    <3> QED
      BY <3>1, <3>2
  <2> QED
    BY <1>1, <2>3 DEF Gathered
<1> QED
  BY <1>1, <1>2, <1>3 DEF Inv, BatchFits, GroupsLeft, LostOnlyAtTheTop, LoopInv, ReturnInv,
     Grouped, Underway, pass, NumTokens, Splits, PadsReach

LEMMA ScatterGroupInv ==
    ASSUME Inv, ScatterGroup
    PROVE  Inv'
<1>1. PICK padWins \in BOOLEAN : out_staging' = Scattered(groups[at], padWins)
  BY DEF ScatterGroup
<1>2. /\ pc = "scatter" /\ at' = at + 1
      /\ pc' = IF at < Len(groups) THEN "group" ELSE "prefix"
      /\ UNCHANGED <<pass, groups, batched_done, group_out, output>>
  BY DEF ScatterGroup
<1>3. /\ groups \in Groupings /\ Splits(groups, batch) /\ at \in 1..Len(groups) /\ Len(groups) \in Nat
      /\ DOMAIN groups = 1..Len(groups)
  <2>1. groups \in Groupings /\ Splits(groups, batch) /\ at \in Nat \ {0}
        /\ at <= Len(groups) + 1 /\ at # Len(groups) + 1
    BY <1>2 DEF Inv, GroupsLeft, Grouped
  <2>2. groups \in Seq(Seq(Nat))
    BY <2>1, GroupAssumption
  <2> QED
    BY <2>1, <2>2
<1>4. batch \in Batches /\ rows \in TokenBuckets /\ NumTokens(batch) <= rows
  BY <1>2 DEF Inv, BatchFits, Grouped, Underway
<1>5. Domains'
  BY <1>1, <1>2 DEF Inv, Domains, Scattered
<1>6. GroupsLeft'
  BY <1>2, <1>3 DEF GroupsLeft, Grouped, pass, Splits
<1>7. LostOnlyAtTheTop'
  <2> DEFINE Top(j) == StagingRows - (PaddedSeqs(Len(groups[j])) - Len(groups[j]))
  <2>1. ASSUME NEW j \in 1..at, NEW k \in DOMAIN groups[j]
        PROVE  \/ out_staging'[groups[j][k]] = groups[j][k]
               \/ \E l \in j..at : groups[j][k] >= Top(l)
    <3>1. groups[j][k] \in DOMAIN out_staging /\ groups[j][k] \in Nat
      <4>1. groups[j][k] \in 0..(batch.num_decode_seqs - 1)
        BY <1>3, <1>4, MembersAreDecodes
      <4>2. rows \in 1..(StagingRows - 1) /\ StagingRows \in Nat
        BY <1>4, BufferAssumption
      <4> QED
        BY <1>4, <4>1, <4>2, DecodesHaveRows DEF Inv, Domains
    <3>2. CASE at # j => out_staging[groups[j][k]] = groups[j][k]
      <4>1. \A m \in 1..Len(groups[at]) : group_out[m - 1] = groups[at][m]
        BY <1>2 DEF Inv, Gathered
      <4>2. out_staging'[groups[j][k]] = groups[j][k] \/ groups[j][k] >= Top(at)
        BY <1>1, <1>3, <3>1, <3>2, <4>1, GroupStored
      <4> QED
        BY <1>3, <4>2
    <3>3. CASE at # j /\ out_staging[groups[j][k]] # groups[j][k]
      <4>1. j \in 1..(at - 1)
        BY <1>3, <3>3
      <4>2. \E l \in j..(at - 1) : groups[j][k] >= Top(l)
        BY <1>2, <3>3, <4>1 DEF Inv, LostOnlyAtTheTop, PadsReach
      <4> QED
        BY <1>3, <4>2
    <3> QED
      BY <3>2, <3>3
  <2> QED
    BY <1>2, <1>3, <2>1 DEF LostOnlyAtTheTop, PadsReach
<1> QED
  BY <1>2, <1>5, <1>6, <1>7 DEF Inv, BatchFits, Gathered, LoopInv, ReturnInv,
     Grouped, Underway, pass, NumTokens

\* What both batched paths leave behind.
LEMMA AfterPrefixInv ==
    ASSUME Inv, pc \in {"prefix", "single"}, AfterPrefix, Domains',
           \A row \in 0..(batch.num_decode_seqs - 1) \ Exposed : Final(row)' = row
    PROVE  Inv'
<1>1. /\ pc' = IF batch.num_decode_seqs = batch.num_seqs THEN "return" ELSE "loop"
      /\ batched_done' = TRUE /\ at' = batch.num_decode_seqs /\ compile_attn /\ compile_attn' = compile_attn
      /\ UNCHANGED <<batch, rows, pre_staged>> /\ Exposed' = Exposed
  BY ExposedStays DEF AfterPrefix, pass, Inv, Grouped
<1>2. batch \in Batches /\ rows \in TokenBuckets /\ NumTokens(batch) <= rows
  BY DEF Inv, BatchFits, Grouped, Underway
<1>3. /\ batch.num_seqs \in Nat /\ batch.num_decode_seqs \in 0..batch.num_seqs
      /\ batch.query_start_loc[batch.num_decode_seqs] = batch.num_decode_seqs
  BY <1>2, BatchAssumption
<1>4. LoopInv'
  BY <1>1, <1>3 DEF LoopInv
<1>5. ReturnInv'
  BY <1>1, <1>3 DEF ReturnInv, NumTokens
<1> QED
  BY <1>1, <1>2, <1>4, <1>5 DEF Inv, BatchFits, GroupsLeft, Gathered, LostOnlyAtTheTop,
     Grouped, Underway, NumTokens

LEMMA CopyPrefixInv ==
    ASSUME Inv, CopyPrefix
    PROVE  Inv'
<1>1. /\ pc = "prefix" /\ AfterPrefix /\ out_staging' = out_staging
      /\ output' = IF pre_staged THEN output
                   ELSE Overlay(output, out_staging, 0..(batch.num_decode_seqs - 1))
      /\ UNCHANGED <<batch, rows, pre_staged, group_out>>
  BY DEF CopyPrefix, AfterPrefix, pass
<1>2. /\ batch \in Batches /\ groups \in Groupings /\ Splits(groups, batch)
      /\ at = Len(groups) + 1 /\ rows \in TokenBuckets /\ NumTokens(batch) <= rows
  BY <1>1 DEF Inv, GroupsLeft, BatchFits, Grouped, Underway
<1>3. ASSUME NEW row \in 0..(batch.num_decode_seqs - 1) \ Exposed PROVE out_staging[row] = row
  <2>1. PICK i \in DOMAIN groups : \E k \in DOMAIN groups[i] : groups[i][k] = row
    BY <1>2 DEF Splits
  <2>2. i \in 1..(at - 1) /\ at - 1 = Len(groups)
    BY <1>2, GroupAssumption
  <2>3. ~PadsReach(row, i, at - 1)
    BY <1>3, <2>1, <2>2 DEF Exposed
  <2> QED
    BY <1>1, <2>1, <2>2, <2>3 DEF Inv, LostOnlyAtTheTop
<1>4. ASSUME NEW row \in 0..(batch.num_decode_seqs - 1) \ Exposed PROVE Final(row)' = row
  <2>1. row \in DOMAIN output
    BY <1>2, DecodesHaveRows, BufferAssumption DEF Inv, Domains
  <2> QED
    BY <1>1, <1>3, <1>4, <2>1 DEF Final, Overlay
<1>5. Domains'
  BY <1>1 DEF Inv, Domains, Overlay
<1> QED
  BY <1>1, <1>4, <1>5, AfterPrefixInv

LEMMA RunSingleInv ==
    ASSUME Inv, RunSingle
    PROVE  Inv'
<1>1. /\ pc = "single" /\ AfterPrefix /\ UNCHANGED <<batch, rows, pre_staged, group_out>>
      /\ out_staging' = IF pre_staged THEN Dispatched(out_staging, Prefix(batch)) ELSE out_staging
      /\ output' = IF pre_staged THEN output ELSE Dispatched(output, Prefix(batch))
  BY DEF RunSingle, AfterPrefix, pass
<1>2. batch \in Batches /\ rows \in TokenBuckets /\ NumTokens(batch) <= rows
  BY <1>1 DEF Inv, BatchFits, Grouped, Underway
<1>3. Domains'
  BY <1>1 DEF Inv, Domains, Dispatched
<1>4. Len(Prefix(batch)) = batch.num_decode_seqs
  BY <1>2, DecodesHaveRows DEF Prefix
<1>5. ASSUME NEW row \in 0..(batch.num_decode_seqs - 1) PROVE Final(row)' = row
  <2>1. row \in DOMAIN output /\ row \in DOMAIN out_staging /\ row < Len(Prefix(batch))
    BY <1>2, <1>4, DecodesHaveRows, BufferAssumption DEF Inv, Domains
  <2>2. Prefix(batch)[row + 1] = row
    BY <1>2, DecodesHaveRows DEF Prefix
  <2> QED
    BY <1>1, <2>1, <2>2 DEF Final, Dispatched
<1> QED
  BY <1>1, <1>3, <1>5, AfterPrefixInv

LEMMA RunSequenceInv ==
    ASSUME Inv, RunSequence
    PROVE  Inv'
<1> DEFINE stored(buffer) ==
      [row \in DOMAIN buffer |-> IF row \in SeqRows(batch, at) THEN row ELSE buffer[row]]
<1>1. /\ pc = "loop" /\ pc' = "loop" /\ at < batch.num_seqs /\ at' = at + 1
      /\ UNCHANGED <<batch, rows, compile_attn, pre_staged, groups, batched_done, group_out>>
      /\ Exposed' = Exposed
      /\ out_staging' = IF compile_attn \/ pre_staged THEN stored(out_staging) ELSE out_staging
      /\ output' = IF compile_attn \/ pre_staged THEN output ELSE stored(output)
  BY ExposedStays DEF RunSequence, pass
<1>2. batch \in Batches /\ rows \in TokenBuckets /\ NumTokens(batch) <= rows
  BY <1>1 DEF Inv, BatchFits, Underway
<1>3. /\ batch.num_seqs \in Nat /\ batch.num_decode_seqs \in 0..batch.num_seqs
      /\ at \in 0..batch.num_seqs /\ at + 1 \in 0..batch.num_seqs
  BY <1>1, <1>2, BatchAssumption DEF Inv, LoopInv
<1>4. /\ batch.query_start_loc[at] \in Nat /\ batch.query_start_loc[at + 1] \in Nat
      /\ batch.query_start_loc[at + 1] <= NumTokens(batch)
  <2>1. batch.query_start_loc[at] \in Nat /\ batch.query_start_loc[at + 1] \in Nat
    BY <1>2, <1>3, BatchAssumption
  <2>2. at + 1 < batch.num_seqs \/ at + 1 = batch.num_seqs
    BY <1>3
  <2>3. at + 1 < batch.num_seqs =>
          batch.query_start_loc[at + 1] < batch.query_start_loc[batch.num_seqs]
    BY <1>2, <1>3, BatchAssumption
  <2> QED
    BY <1>2, <2>1, <2>2, <2>3, DecodesHaveRows DEF NumTokens
<1>5. Domains'
  BY <1>1 DEF Inv, Domains
<1>6. ASSUME NEW row \in 0..(batch.query_start_loc[at + 1] - 1),
             batched_done => batch.num_decode_seqs <= row
      PROVE  Stored(row)' = row
  <2>1. row \in DOMAIN out_staging /\ row \in DOMAIN output
    BY <1>2, <1>4, DecodesHaveRows, BufferAssumption DEF Inv, Domains
  <2>2. CASE row \in SeqRows(batch, at)
    BY <1>1, <2>1, <2>2 DEF Stored
  <2>3. CASE row \notin SeqRows(batch, at)
    <3>1. row \in 0..(batch.query_start_loc[at] - 1)
      BY <1>4, <2>3 DEF SeqRows
    <3>2. Stored(row) = row
      BY <1>1, <1>6, <3>1 DEF Inv, LoopInv
    <3> QED
      BY <1>1, <2>1, <2>3, <3>2 DEF Stored
  <2> QED
    BY <2>2, <2>3
<1>7. ASSUME batched_done, NEW row \in 0..(batch.num_decode_seqs - 1) \ Exposed PROVE Final(row)' = row
  <2>1. Final(row) = row
    BY <1>1, <1>7 DEF Inv, LoopInv
  <2>2. row \in DOMAIN out_staging /\ row \in DOMAIN output
    BY <1>2, DecodesHaveRows, BufferAssumption DEF Inv, Domains
  <2> QED
    BY <1>1, <2>1, <2>2 DEF Final
<1>8. LoopInv'
  BY <1>1, <1>3, <1>6, <1>7 DEF Inv, LoopInv
<1> QED
  BY <1>1, <1>2, <1>5, <1>8 DEF Inv, BatchFits, GroupsLeft, Gathered, LostOnlyAtTheTop,
     ReturnInv, Grouped, Underway, NumTokens

LEMMA CopyBackInv ==
    ASSUME Inv, CopyBack
    PROVE  Inv'
<1>1. /\ pc = "loop" /\ pc' = "return" /\ at = batch.num_seqs
      /\ UNCHANGED <<batch, rows, compile_attn, pre_staged, groups, batched_done, group_out, out_staging>>
      /\ Exposed' = Exposed
      /\ output' = IF compile_attn /\ ~pre_staged
                   THEN Overlay(output, out_staging,
                                (IF batched_done THEN batch.num_decode_seqs ELSE 0)..(rows - 1))
                   ELSE output
  BY ExposedStays DEF CopyBack, pass
<1>2. /\ batch \in Batches /\ rows \in TokenBuckets /\ NumTokens(batch) <= rows
      /\ rows \in 1..(StagingRows - 1) /\ StagingRows \in Nat
  BY <1>1, BufferAssumption DEF Inv, BatchFits, Underway
<1>3. Domains'
  BY <1>1 DEF Inv, Domains, Overlay
<1>4. ASSUME NEW row \in 0..(NumTokens(batch) - 1) \ Exposed PROVE Final(row)' = row
  <2>1. /\ row \in DOMAIN output /\ row \in 0..(rows - 1) /\ NumTokens(batch) \in Nat
        /\ batch.num_decode_seqs \in Nat
    BY <1>2, DecodesHaveRows DEF Inv, Domains
  <2>2. CASE batched_done /\ row < batch.num_decode_seqs
    <3>1. Final(row) = row
      BY <1>1, <1>4, <2>1, <2>2 DEF Inv, LoopInv
    <3> QED
      BY <1>1, <2>1, <2>2, <3>1 DEF Final, Overlay
  <2>3. CASE ~(batched_done /\ row < batch.num_decode_seqs)
    <3>1. Stored(row) = row
      BY <1>1, <2>1, <2>3 DEF Inv, LoopInv, NumTokens
    <3> QED
      BY <1>1, <2>1, <2>3, <3>1 DEF Final, Stored, Overlay
  <2> QED
    BY <2>2, <2>3
<1>5. ReturnInv'
  BY <1>1, <1>4 DEF ReturnInv, NumTokens
<1> QED
  BY <1>1, <1>2, <1>3, <1>5 DEF Inv, BatchFits, GroupsLeft, Gathered, LostOnlyAtTheTop,
     LoopInv, Grouped, Underway, NumTokens

LEMMA ReturnKeepsInv ==
    ASSUME Inv, Return
    PROVE  Inv'
<1>1. /\ pc = "return" /\ pc' = "done"
      /\ UNCHANGED <<batch, rows, compile_attn, pre_staged, groups, batched_done, at, group_out, out_staging>>
      /\ Exposed' = Exposed
      /\ output' = IF pre_staged THEN Overlay(output, out_staging, 0..(rows - 1)) ELSE output
  BY ExposedStays DEF Return, pass
<1>2. /\ batch \in Batches /\ rows \in TokenBuckets /\ NumTokens(batch) <= rows
      /\ rows \in 1..(StagingRows - 1) /\ StagingRows \in Nat
  BY <1>1, BufferAssumption DEF Inv, BatchFits, Underway
<1>3. Domains'
  BY <1>1 DEF Inv, Domains, Overlay
<1>4. ASSUME NEW row \in 0..(NumTokens(batch) - 1) \ Exposed PROVE output'[row] = row
  <2>1. row \in DOMAIN output /\ row \in 0..(rows - 1)
    BY <1>2, DecodesHaveRows DEF Inv, Domains
  <2>2. Final(row) = row
    BY <1>1, <1>4 DEF Inv, ReturnInv
  <2> QED
    BY <1>1, <2>1, <2>2 DEF Final, Overlay
<1>5. ReturnInv'
  BY <1>1, <1>4 DEF ReturnInv, NumTokens
<1> QED
  BY <1>1, <1>2, <1>3, <1>5 DEF Inv, BatchFits, GroupsLeft, Gathered, LostOnlyAtTheTop,
     LoopInv, Grouped, Underway, NumTokens

LEMMA NextPassInv ==
    ASSUME Inv, NextPass
    PROVE  Inv'
  BY DEF NextPass, pass, Inv, Domains, BatchFits, GroupsLeft, Gathered, LostOnlyAtTheTop,
     LoopInv, ReturnInv, Grouped, Underway

LEMMA InvNext ==
    ASSUME Inv, [Next]_vars
    PROVE  Inv'
<1>1. CASE Next
  <2>1. ASSUME NEW b \in Batches, NEW path \in {"single", "loop"}, Begin(b, path, <<>>) PROVE Inv'
    BY <2>1, BeginInv
  <2>2. ASSUME NEW b \in Batches, NEW split \in Groupings, Begin(b, "group", split) PROVE Inv'
    BY <2>2, BeginInv
  <2> QED
    BY <1>1, <2>1, <2>2, RunGroupInv, ScatterGroupInv, CopyPrefixInv, RunSingleInv,
       RunSequenceInv, CopyBackInv, ReturnKeepsInv, NextPassInv DEF Next
<1>2. CASE UNCHANGED vars
  <2>1. Exposed' = Exposed
    BY <1>2, ExposedStays DEF vars
  <2>2. (LoopInv /\ ReturnInv)'
    BY <1>2, <2>1 DEF vars, Inv, LoopInv, ReturnInv, Final, Stored, NumTokens
  <2>3. LostOnlyAtTheTop'
    BY <1>2 DEF vars, Inv, LostOnlyAtTheTop, PadsReach
  <2> QED
    BY <1>2, <2>2, <2>3 DEF vars, Inv, Domains, BatchFits, GroupsLeft, Gathered,
       Grouped, Underway, NumTokens, Splits
<1> QED
  BY <1>1, <1>2

\* For all batches, splits and bucket sets, whether or not the padding fits: the stores of a
\* pass leave every stored group its results, but for rows as near the top of the buffer as
\* the padding of their own group or of a later one.
THEOREM GroupsKeepTheirRows == Spec => []LostOnlyAtTheTop
<1>1. Inv => LostOnlyAtTheTop
  BY DEF Inv
<1> QED
  BY <1>1, InvInit, InvNext, PTL DEF Spec

(***************************************************************************)
(* Refinement: Begin is Ask, Return is Answer, NextPass is Done.           *)
(***************************************************************************)
LEMMA RefineInit == Init => Abstract!Init
  BY NoneExposed DEF Init, Abstract!Init, Abstract!NoAnswer, Answered

LEMMA RefineNext ==
    ASSUME Inv, [Next]_vars
    PROVE  [Abstract!Next]_(Abstract!vars)
<1> USE DEF Abstract!vars, Abstract!NoAnswer, Answered
<1>1. ASSUME NEW b \in Batches, NEW path, NEW split, Begin(b, path, split), path # "idle", path # "done"
      PROVE  Abstract!Ask
  <2>1. pc = "idle" /\ pc' = path /\ batch' = b
    BY <1>1 DEF Begin
  <2>2. NumTokens(b) \in Nat \ {0}
    BY DecodesHaveRows
  <2>3. Exposed' \subseteq 0..(NumTokens(b) - 1)
    <3>1. Exposed' \subseteq 0..(b.num_decode_seqs - 1)
      BY <2>1 DEF Exposed
    <3>2. b.num_decode_seqs \in Nat /\ NumTokens(b) \in Nat /\ b.num_decode_seqs <= NumTokens(b)
      BY DecodesHaveRows
    <3> QED
      BY <3>1, <3>2
  <2> QED
    BY <1>1, <2>1, <2>2, <2>3 DEF Abstract!Ask, NumTokens
<1>2. CASE Return
  <2>1. pc = "return" /\ pc' = "done" /\ batch' = batch
    BY <1>2 DEF Return, pass
  <2>2. NumTokens(batch) \in Nat \ {0}
    BY <2>1, DecodesHaveRows DEF Inv, BatchFits, Underway
  <2>3. Exposed' = Exposed
    BY <1>2, ExposedStays DEF Return, pass
  <2>4. \A row \in 0..(NumTokens(batch) - 1) : output'[row] = row \/ row \in Exposed
    BY <1>2, <2>1, <2>3, ReturnKeepsInv DEF Inv, ReturnInv, NumTokens
  <2> QED
    BY <2>1, <2>2, <2>3, <2>4 DEF Abstract!Next, Abstract!Answer, NumTokens
<1>3. CASE NextPass
  <2>1. pc = "done" /\ pc' = "idle" /\ batch' = batch
    BY <1>3 DEF NextPass, pass
  <2>2. NumTokens(batch) \in Nat \ {0}
    BY <2>1, DecodesHaveRows DEF Inv, BatchFits, Underway
  <2>3. [row \in 0..(NumTokens(batch) - 1) |-> output[row]] # <<>>
    BY <2>2
  <2>4. Exposed' = {}
    <3>1. DOMAIN groups' = {}
      BY <1>3 DEF NextPass
    <3> QED
      BY <3>1 DEF Exposed
  <2> QED
    BY <2>1, <2>3, <2>4 DEF Abstract!Next, Abstract!Done
<1>4. CASE RunGroup \/ ScatterGroup \/ CopyPrefix \/ RunSingle \/ RunSequence \/ CopyBack
  <2>1. pc \notin {"idle", "done"} /\ pc' \notin {"idle", "done"} /\ batch' = batch /\ groups' = groups
    BY <1>4 DEF RunGroup, ScatterGroup, CopyPrefix, RunSingle, RunSequence, CopyBack, AfterPrefix, pass
  <2> QED
    BY <2>1, ExposedStays DEF NumTokens
<1>5. CASE UNCHANGED vars
  BY <1>5, ExposedStays DEF vars, NumTokens
<1> QED
  BY <1>1, <1>2, <1>3, <1>4, <1>5 DEF Next, Abstract!Next

\* For all batches, splits and bucket sets: a pass through the shared buffers is, to its
\* caller, one step that answers each row with its own result, but for the rows that the
\* padding of their own group or of a later one reaches.
THEOREM ForwardAnswersEveryRow == Spec => AnswersEveryRow
  BY InvInit, InvNext, RefineInit, RefineNext, PTL DEF Spec, AnswersEveryRow, Abstract!Spec

(***************************************************************************)
(* An encoder's step: numbers and sets.                                    *)
(***************************************************************************)
LEMMA NextMultiple ==
    ASSUME NEW a \in Nat, NEW b \in Nat, NEW n \in Nat, a < b
    PROVE  a * n + n <= b * n
<1>1. PICK d \in Nat : b = a + 1 + d
  <2>1. b - a - 1 \in Nat /\ b = a + 1 + (b - a - 1)
    OBVIOUS
  <2> QED
    BY <2>1
<1>2. b * n = a * n + n + d * n /\ d * n \in Nat /\ a * n \in Nat
  BY <1>1
<1> QED
  BY <1>2

\* A number has one quotient and one remainder.
LEMMA PartsAreUnique ==
    ASSUME NEW n \in Nat, NEW a \in Nat, NEW b \in Nat, NEW i \in 0..(n - 1), NEW j \in 0..(n - 1),
           a * n + i = b * n + j
    PROVE  a = b /\ i = j
<1>1. a * n \in Nat /\ b * n \in Nat
  OBVIOUS
<1>2. ~(a < b)
  <2> SUFFICES ASSUME a < b PROVE FALSE
    OBVIOUS
  <2>1. a * n + n <= b * n
    BY NextMultiple
  <2> QED
    BY <2>1, <1>1
<1>3. ~(b < a)
  <2> SUFFICES ASSUME b < a PROVE FALSE
    OBVIOUS
  <2>1. b * n + n <= a * n
    BY NextMultiple
  <2> QED
    BY <2>1, <1>1
<1> QED
  BY <1>1, <1>2, <1>3

\* A number is its quotient and its remainder.
LEMMA Parts ==
    ASSUME NEW n \in Nat \ {0}, NEW x \in Nat
    PROVE  /\ x \div n \in Nat /\ x % n \in 0..(n - 1) /\ x = (x \div n) * n + (x % n)
  OBVIOUS

\* A multiple and a remainder are recovered from their sum.
LEMMA PartsOfSum ==
    ASSUME NEW n \in Nat \ {0}, NEW a \in Nat, NEW i \in 0..(n - 1)
    PROVE  (a * n + i) \div n = a /\ (a * n + i) % n = i
<1> DEFINE x == a * n + i
<1>1. x \in Nat
  OBVIOUS
<1>2. x \div n \in Nat /\ x % n \in 0..(n - 1) /\ x = (x \div n) * n + (x % n)
  BY <1>1, Parts
<1> QED
  BY <1>2, PartsAreUnique

\* A place in one of c blocks of n.
LEMMA SumWithin ==
    ASSUME NEW n \in Nat, NEW c \in Nat, NEW a \in 0..(c - 1), NEW i \in 0..(n - 1)
    PROVE  a * n + i \in 0..(c * n - 1)
<1>1. a * n + n <= c * n /\ a * n \in Nat /\ c * n \in Nat
  BY NextMultiple
<1> QED
  BY <1>1

\* What is below a multiple has its quotient below the factor.
LEMMA QuotientBelow ==
    ASSUME NEW n \in Nat \ {0}, NEW c \in Nat, NEW x \in Nat, x < c * n
    PROVE  x \div n \in 0..(c - 1)
<1>1. x \div n \in Nat /\ x % n \in 0..(n - 1) /\ x = (x \div n) * n + (x % n)
  BY Parts
<1>2. ~(c <= x \div n)
  <2> SUFFICES ASSUME c <= x \div n PROVE FALSE
    OBVIOUS
  <2>1. c * n <= (x \div n) * n
    <3>1. CASE c = x \div n
      BY <3>1, <1>1
    <3>2. CASE c < x \div n
      BY <3>2, <1>1, NextMultiple
    <3> QED
      BY <3>1, <3>2, <1>1
  <2>2. (x \div n) * n \in Nat /\ c * n \in Nat
    BY <1>1
  <2> QED
    BY <2>1, <2>2, <1>1
<1> QED
  BY <1>1, <1>2

\* A finite set of naturals has an upper bound: a set without one of least cardinality would
\* be left by taking an element away from it.
LEMMA FiniteIsBounded ==
    ASSUME NEW S \in SUBSET Nat, IsFiniteSet(S)
    PROVE  \E u \in Nat : \A x \in S : x <= u
<1> DEFINE Free(T) == \A u \in Nat : \E x \in T : ~(x <= u)
           Sizes == {Cardinality(T) : T \in {T \in SUBSET S : Free(T)}}
<1> SUFFICES ASSUME Free(S) PROVE FALSE
  OBVIOUS
<1>1. Sizes \in SUBSET Nat /\ Sizes # {}
  <2>1. \A T \in SUBSET S : Cardinality(T) \in Nat
    BY FS_Subset, FS_CardinalityType
  <2> QED
    BY <2>1
<1>2. PICK n \in Sizes : \A k \in Sizes : n <= k
  <2> HIDE DEF Sizes
  <2> QED
    BY <1>1, LeastExists
<1>3. PICK T \in SUBSET S : Free(T) /\ n = Cardinality(T)
  BY <1>2
<1>4. PICK t \in T : t \in Nat
  <2>1. 0 \in Nat
    OBVIOUS
  <2> QED
    BY <1>3, <2>1
<1>5. IsFiniteSet(T) /\ Cardinality(T) \in Nat
  BY FS_Subset, FS_CardinalityType
<1>6. Cardinality(T \ {t}) = Cardinality(T) - 1
  BY <1>4, <1>5, FS_RemoveElement
<1>7. ~Free(T \ {t})
  <2> SUFFICES ASSUME Free(T \ {t}) PROVE FALSE
    OBVIOUS
  <2>1. T \ {t} \in SUBSET S
    OBVIOUS
  <2>2. Cardinality(T \ {t}) \in Sizes
    BY <2>1
  <2> HIDE DEF Sizes, Free
  <2>3. n <= Cardinality(T \ {t})
    BY <1>2, <2>2
  <2> QED
    BY <2>3, <1>3, <1>5, <1>6
<1>8. PICK u \in Nat : \A x \in T \ {t} : x <= u
  BY <1>7
<1>9. \A x \in T : x <= u + t
  <2> SUFFICES ASSUME NEW x \in T PROVE x <= u + t
    OBVIOUS
  <2>1. CASE x = t
    BY <2>1, <1>4, <1>8
  <2>2. CASE x # t
    <3>1. x <= u /\ x \in Nat
      BY <2>2, <1>8
    <3> QED
      BY <3>1, <1>4, <1>8
  <2> QED
    BY <2>1, <2>2
<1>10. u + t \in Nat
  BY <1>4, <1>8
<1> QED
  BY <1>3, <1>9, <1>10

\* A power of two counts the subsets of a set, of which there is at least one.
LEMMA PowersOfTwo == 2^0 = 1 /\ \A n \in Nat : 2^n \in Nat \ {0}
<1>1. 2^0 = 1
  <2>1. Cardinality(SUBSET {}) = 2^Cardinality({}) /\ Cardinality({}) = 0
    BY FS_EmptySet, FS_SUBSET
  <2>2. Cardinality({{}}) = 1
    BY FS_Singleton, FS_EmptySet
  <2>3. SUBSET {} = {{}}
    OBVIOUS
  <2> QED
    BY <2>1, <2>2, <2>3
<1>2. ASSUME NEW n \in Nat PROVE 2^n \in Nat \ {0}
  <2> DEFINE S == 1..n  T == SUBSET S
  <2>1. IsFiniteSet(S) /\ Cardinality(S) = n
    <3>1. 1 \in Int /\ n \in Int
      OBVIOUS
    <3>2. IsFiniteSet(1..n) /\ Cardinality(1..n) = IF 1 > n THEN 0 ELSE n - 1 + 1
      BY <3>1, FS_Interval, Zenon
    <3> QED
      BY <3>2
  <2>2. IsFiniteSet(T) /\ Cardinality(T) = 2^n
    BY <2>1, FS_SUBSET
  <2>3. T # {}
    OBVIOUS
  <2> HIDE DEF T
  <2>4. Cardinality(T) \in Nat /\ Cardinality(T) # 0
    BY <2>2, <2>3, FS_CardinalityType, FS_EmptySet
  <2> QED
    BY <2>2, <2>4
<1> QED
  BY <1>1, <1>2

LEMMA LeastIs ==
    ASSUME NEW S \in SUBSET Nat, S # {}
    PROVE  LeastOf(S) \in S /\ \A x \in S : LeastOf(S) <= x
<1>1. \E c \in S : \A x \in S : c <= x
  BY LeastExists
<1> QED
  BY <1>1, Zenon DEF LeastOf

LEMMA GreatestIs ==
    ASSUME NEW S \in SUBSET Nat, S # {}, NEW u \in Nat, \A x \in S : x <= u
    PROVE  GreatestOf(S) \in S /\ \A x \in S : x <= GreatestOf(S)
<1> DEFINE T == {u - x : x \in S}
<1>1. T \in SUBSET Nat /\ T # {}
  <2>1. \A x \in S : u - x \in Nat
    OBVIOUS
  <2> QED
    BY <2>1
<1>2. PICK t \in T : \A y \in T : t <= y
  <2> HIDE DEF T
  <2> QED
    BY <1>1, LeastExists
<1>3. PICK c \in S : t = u - c
  OBVIOUS
<1>4. \A x \in S : x <= c
  <2> SUFFICES ASSUME NEW x \in S PROVE x <= c
    OBVIOUS
  <2>1. u - x \in T
    OBVIOUS
  <2>2. u - c <= u - x /\ x \in Nat /\ c \in Nat
    BY <1>2, <1>3, <2>1
  <2> QED
    BY <2>2
<1>5. \E m \in S : \A x \in S : x <= m
  BY <1>4
<1> QED
  BY <1>5, Zenon DEF GreatestOf

LEMMA SticksAre ==
    /\ Stick \in Nat \ {0} /\ MaxDoublings \in Nat
    /\ Extents \in SUBSET (Nat \ {0}) /\ Stick * 2^MaxDoublings \in Extents
<1>1. Stick \in Nat \ {0} /\ MaxDoublings \in Nat
  BY TablesAssumption
<1>2. ASSUME NEW k \in 0..MaxDoublings PROVE Stick * 2^k \in Nat \ {0}
  <2> DEFINE p == 2^k
  <2>1. p \in Nat \ {0}
    BY <1>1, PowersOfTwo
  <2> HIDE DEF p
  <2>2. Stick * p \in Nat \ {0}
    BY <1>1, <2>1
  <2> QED
    BY <2>2 DEF p
<1>3. MaxDoublings \in 0..MaxDoublings
  BY <1>1
<1> QED
  BY <1>1, <1>2, <1>3 DEF Extents

\* A length rounds up to the least extent that holds it.
LEMMA RoundsUp ==
    ASSUME NEW n \in 1..(Stick * 2^MaxDoublings)
    PROVE  /\ AlignUpPow2(n) \in Extents /\ AlignUpPow2(n) \in Nat \ {0} /\ n <= AlignUpPow2(n)
           /\ \A x \in Extents : n <= x => AlignUpPow2(n) <= x
<1> DEFINE Fit == {x \in Extents : n <= x}
<1>1. Fit \in SUBSET Nat /\ Fit # {}
  <2>1. \A x \in Extents : x \in Nat
    BY SticksAre
  <2>2. Stick * 2^MaxDoublings \in Fit
    BY SticksAre
  <2> QED
    BY <2>1, <2>2
<1>2. AlignUpPow2(n) = LeastOf(Fit)
  BY DEF AlignUpPow2
<1>3. LeastOf(Fit) \in Fit /\ \A x \in Fit : LeastOf(Fit) <= x
  <2> HIDE DEF Fit
  <2> QED
    BY <1>1, LeastIs
<1> QED
  BY <1>2, <1>3, SticksAre

LEMMA CeilIs ==
    ASSUME NEW n \in 1..2^(MaxDoublings + 4)
    PROVE  CeilPow2(n) \in Nat /\ n <= CeilPow2(n)
<1> DEFINE Powers == {2^k : k \in 0..MaxDoublings + 4}
           Fit == {p \in Powers : n <= p}
<1>1. Powers \in SUBSET Nat /\ 2^(MaxDoublings + 4) \in Powers
  <2>1. \A k \in 0..MaxDoublings + 4 : 2^k \in Nat
    BY SticksAre, PowersOfTwo
  <2>2. MaxDoublings + 4 \in 0..MaxDoublings + 4
    BY SticksAre
  <2> QED
    BY <2>1, <2>2
<1> HIDE DEF Powers
<1>2. Fit \in SUBSET Nat /\ Fit # {}
  <2>1. \A p \in Powers : p \in Nat
    BY <1>1
  <2>2. 2^(MaxDoublings + 4) \in Fit
    BY <1>1
  <2> QED
    BY <2>1, <2>2
<1>3. CeilPow2(n) = LeastOf(Fit)
  BY DEF CeilPow2, Powers
<1>4. LeastOf(Fit) \in Fit
  <2> HIDE DEF Fit
  <2> QED
    BY <1>2, LeastIs
<1> QED
  BY <1>1, <1>3, <1>4

LEMMA FloorIs ==
    ASSUME NEW n \in Int
    PROVE  FloorPow2(n) \in Nat \ {0} /\ FloorPow2(n) <= Greater(1, n)
<1> DEFINE Powers == {2^k : k \in 0..MaxDoublings}
           u == Greater(1, n)
           Below == {p \in Powers : p <= u}
<1>1. Powers \in SUBSET (Nat \ {0}) /\ 1 \in Powers
  <2>1. \A k \in 0..MaxDoublings : 2^k \in Nat \ {0}
    BY SticksAre, PowersOfTwo
  <2>2. 0 \in 0..MaxDoublings /\ 2^0 = 1
    BY SticksAre, PowersOfTwo
  <2> QED
    BY <2>1, <2>2
<1>2. u \in Nat \ {0}
  BY DEF Greater
<1> HIDE DEF Powers, u
<1>3. Below \in SUBSET Nat /\ 1 \in Below /\ \A x \in Below : x <= u
  <2>1. \A p \in Powers : p \in Nat
    BY <1>1
  <2>2. 1 \in Below
    BY <1>1, <1>2
  <2> QED
    BY <2>1, <2>2
<1>4. FloorPow2(n) = GreatestOf(Below)
  BY DEF FloorPow2, Powers, u
<1>5. GreatestOf(Below) \in Below
  <2> HIDE DEF Below
  <2> QED
    BY <1>2, <1>3, GreatestIs
<1> QED
  BY <1>1, <1>4, <1>5 DEF u

LEMMA FloorBelow == ASSUME NEW n \in Nat \ {0} PROVE FloorPow2(n) \in 1..n
<1>1. FloorPow2(n) \in Nat \ {0} /\ FloorPow2(n) <= Greater(1, n)
  BY FloorIs
<1>2. Greater(1, n) = n
  BY DEF Greater
<1> QED
  BY <1>1, <1>2

(***************************************************************************)
(* The limits an engine settles on.                                        *)
(***************************************************************************)
Limits ==
    [max_model_len : 1..(Stick * 2^MaxDoublings), max_num_batched_tokens : Nat,
     max_num_seqs : 1..2^(MaxDoublings + 4), query_buckets : SUBSET (1..(Stick * 2^MaxDoublings)),
     compile_sizes : SUBSET Nat, mode : Modes, pool : SeqPools, causal : BOOLEAN,
     v2 : BOOLEAN, model : Models, tail : Tails, positions : Nat]

\* Where a table of positions holds whole extents, the longest prompt's places are in it.
PositionsFit(e) == e.positions - Offset \in Extents => e.max_model_len <= e.positions - Offset

Sound(e) == e \in Limits /\ IsFiniteSet(e.compile_sizes) /\ PositionsFit(e)

LEMMA CapKeeps == ASSUME NEW user \in Users PROVE Sound(cap_max_model_len_for_position_offset(user))
<1> DEFINE e == cap_max_model_len_for_position_offset(user)
           usable == user.positions - Offset
           bound == Stick * 2^MaxDoublings
<1>1. user \in Limits /\ IsFiniteSet(user.compile_sizes) /\ Offset \in Nat
  BY UsersAssumption DEF Limits
<1>2. bound \in Nat
  BY SticksAre
<1> HIDE DEF bound
<1>3. usable \in Int /\ user.positions \in Nat /\ user.max_model_len \in 1..bound
  BY <1>1 DEF Limits, bound
<1>4. CASE user.positions = 0 \/ usable < 1 \/ user.max_model_len <= usable
  <2>1. e = user
    BY <1>4 DEF cap_max_model_len_for_position_offset
  <2>2. usable \in Extents => user.max_model_len <= usable
    <3> SUFFICES ASSUME usable \in Extents PROVE user.max_model_len <= usable
      OBVIOUS
    <3>1. usable \in Nat \ {0}
      BY SticksAre
    <3>2. user.positions # 0
      BY <3>1, <1>1
    <3> QED
      BY <1>4, <3>1, <3>2
  <2> QED
    BY <1>1, <2>1, <2>2 DEF Sound, PositionsFit
<1>5. CASE ~(user.positions = 0 \/ usable < 1 \/ user.max_model_len <= usable)
  <2>1. e = [user EXCEPT !.max_model_len = usable]
    BY <1>5 DEF cap_max_model_len_for_position_offset
  <2>2. usable \in 1..bound
    BY <1>2, <1>3, <1>5
  <2> HIDE DEF usable
  <2>3. e \in Limits /\ e.max_model_len = usable /\ e.positions = user.positions
        /\ e.compile_sizes = user.compile_sizes
    BY <1>1, <2>1, <2>2 DEF Limits, bound
  <2>4. PositionsFit(e)
    BY <1>3, <2>3 DEF PositionsFit, usable
  <2> QED
    BY <1>1, <2>3, <2>4 DEF Sound
<1> QED
  BY <1>4, <1>5

\* A step has rows for one prompt of full length.
LEMMA BudgetIs ==
    ASSUME NEW n \in 1..(Stick * 2^MaxDoublings), NEW tokens \in Nat, NEW seqs \in Nat
    PROVE  BudgetRows(n, tokens, seqs) \in Nat \ {0} /\ AlignUpPow2(n) <= BudgetRows(n, tokens, seqs)
<1> DEFINE longest == AlignUpPow2(n)
           most == Greater(1, seqs) * longest
           fit == Lesser(tokens, most)
           whole == (fit \div longest) * longest
<1>1. longest \in Nat \ {0}
  BY RoundsUp
<1> HIDE DEF longest
<1>2. most \in Nat
  <2>1. Greater(1, seqs) \in Nat
    BY DEF Greater
  <2> QED
    BY <1>1, <2>1
<1> HIDE DEF most
<1>3. fit \in Nat
  BY <1>2 DEF Lesser
<1> HIDE DEF fit
<1>4. whole \in Nat
  <2>1. fit \div longest \in Nat
    BY <1>1, <1>3, Parts
  <2> QED
    BY <1>1, <2>1
<1>5. BudgetRows(n, tokens, seqs) = Greater(longest, whole)
  BY DEF BudgetRows, longest, most, fit
<1> HIDE DEF whole
<1> QED
  BY <1>1, <1>4, <1>5 DEF Greater, longest

\* The widest body holds every other, and a prompt of full length.
LEMMA BodiesAre ==
    ASSUME NEW e \in Limits
    PROVE  /\ Bodies(e) \in SUBSET (Nat \ {0}) /\ IsFiniteSet(Bodies(e)) /\ Bodies(e) # {}
           /\ GreatestOf(Bodies(e)) \in Nat /\ e.max_model_len <= GreatestOf(Bodies(e))
<1> DEFINE longest == AlignUpPow2(e.max_model_len)
           most == BudgetRows(e.max_model_len, e.max_num_batched_tokens, e.max_num_seqs)
           full == IF most > longest THEN Greater(longest, Lesser(most, FastBody)) ELSE most
           Between == {x \in Extents : FastBody <= x /\ x < full}
<1>1. /\ e.max_model_len \in 1..(Stick * 2^MaxDoublings) /\ e.max_num_batched_tokens \in Nat
      /\ e.max_num_seqs \in 1..2^(MaxDoublings + 4)
  BY DEF Limits
<1>2. e.max_num_seqs \in Nat /\ e.max_model_len \in Nat
  BY <1>1, SticksAre, PowersOfTwo
<1>3. longest \in Nat \ {0} /\ e.max_model_len <= longest
  BY <1>1, RoundsUp
<1>4. most \in Nat \ {0} /\ longest <= most
  BY <1>1, <1>2, BudgetIs
<1>5. FastBody \in Nat
  <2>1. \A k \in 0..MaxDoublings : Stick * 2^k \in Extents
    BY DEF Extents
  <2> QED
    BY <2>1, TablesAssumption, SticksAre
<1>6. Bodies(e) = IF full <= FastBody THEN {full} ELSE Between \cup {full}
  BY DEF Bodies
<1> HIDE DEF longest, most
<1>7. full \in Nat \ {0} /\ longest <= full
  BY <1>3, <1>4, <1>5 DEF Greater, Lesser
<1> HIDE DEF full
<1>8. ASSUME NEW x \in Bodies(e) PROVE x \in Nat \ {0} /\ x <= full
  <2>1. CASE x = full
    BY <1>7, <2>1
  <2>2. CASE x \in Between
    BY <1>7, <2>2, SticksAre
  <2> QED
    BY <1>6, <2>1, <2>2
<1>9. full \in Bodies(e)
  BY <1>6
<1>10. IsFiniteSet(Bodies(e))
  <2>1. IsFiniteSet(0..full)
    <3>1. 0 \in Int /\ full \in Int
      BY <1>7
    <3> QED
      BY <3>1, FS_Interval
  <2>2. Bodies(e) \in SUBSET (0..full)
    <3> SUFFICES ASSUME NEW x \in Bodies(e) PROVE x \in 0..full
      OBVIOUS
    <3> QED
      BY <1>7, <1>8
  <2> QED
    BY <2>1, <2>2, FS_Subset
<1>11. GreatestOf(Bodies(e)) \in Bodies(e) /\ \A x \in Bodies(e) : x <= GreatestOf(Bodies(e))
  <2>1. Bodies(e) \in SUBSET Nat /\ Bodies(e) # {}
    BY <1>8, <1>9
  <2> QED
    BY <1>7, <1>8, <2>1, GreatestIs
<1>12. Bodies(e) \in SUBSET (Nat \ {0})
  BY <1>8
<1> DEFINE top == GreatestOf(Bodies(e))
<1>13. top \in Nat /\ full <= top
  BY <1>8, <1>9, <1>11
<1> HIDE DEF top
<1>14. e.max_model_len <= top
  BY <1>2, <1>3, <1>7, <1>13
<1> QED
  BY <1>9, <1>10, <1>12, <1>13, <1>14 DEF top

LEMMA DefaultsKeepSound ==
    ASSUME NEW e, Sound(e)
    PROVE  Sound(ShapeDefaults(e)) /\ ShapeDefaults(e).mode = e.mode
<1> DEFINE tokens == Lesser(e.max_num_batched_tokens, FastBody)
           full == BudgetRows(e.max_model_len, tokens, e.max_num_seqs)
           seqs == Lesser(e.max_num_seqs, Greater(1, full \div Stick))
           limits == [e EXCEPT !.max_num_batched_tokens = full, !.max_num_seqs = seqs]
           d == ShapeDefaults(e)
<1>1. e \in Limits /\ IsFiniteSet(e.compile_sizes) /\ PositionsFit(e)
  BY DEF Sound
<1>2. /\ e.max_model_len \in 1..(Stick * 2^MaxDoublings) /\ e.max_num_batched_tokens \in Nat
      /\ e.max_num_seqs \in 1..2^(MaxDoublings + 4)
  BY <1>1 DEF Limits
<1>3. FastBody \in Nat
  <2>1. \A k \in 0..MaxDoublings : Stick * 2^k \in Extents
    BY DEF Extents
  <2> QED
    BY <2>1, TablesAssumption, SticksAre
<1>4. tokens \in Nat
  BY <1>2, <1>3 DEF Lesser
<1> HIDE DEF tokens
<1>5. full \in Nat
  <2>1. e.max_num_seqs \in Nat
    BY <1>2, SticksAre, PowersOfTwo
  <2> QED
    BY <1>2, <1>4, <2>1, BudgetIs
<1> HIDE DEF full
<1>6. seqs \in 1..2^(MaxDoublings + 4)
  <2> DEFINE share == full \div Stick
             top == 2^(MaxDoublings + 4)
  <2>1. share \in Nat
    BY <1>5, SticksAre, Parts
  <2>2. top \in Nat
    BY SticksAre, PowersOfTwo
  <2> HIDE DEF share, top
  <2>3. Greater(1, share) \in Nat \ {0}
    BY <2>1 DEF Greater
  <2>4. e.max_num_seqs \in 1..top
    BY <1>2 DEF top
  <2> QED
    BY <2>2, <2>3, <2>4 DEF Lesser, share, top
<1> HIDE DEF seqs
<1>7. limits \in Limits /\ limits.compile_sizes = e.compile_sizes /\ limits.mode = e.mode
      /\ limits.max_model_len = e.max_model_len /\ limits.positions = e.positions
  BY <1>1, <1>5, <1>6 DEF Limits
<1>8. d = IF e.compile_sizes = Unset THEN [limits EXCEPT !.compile_sizes = Bodies(limits)] ELSE limits
  BY DEF ShapeDefaults, tokens, full, seqs
<1> HIDE DEF limits
<1>9. CASE e.compile_sizes = Unset
  <2>1. Bodies(limits) \in SUBSET Nat /\ IsFiniteSet(Bodies(limits))
    BY <1>7, BodiesAre
  <2>2. d = [limits EXCEPT !.compile_sizes = Bodies(limits)]
    BY <1>8, <1>9
  <2> HIDE DEF d
  <2>3. d \in Limits /\ d.compile_sizes = Bodies(limits) /\ d.mode = e.mode
        /\ d.max_model_len = e.max_model_len /\ d.positions = e.positions
    BY <1>7, <2>1, <2>2 DEF Limits
  <2> QED
    BY <1>1, <2>1, <2>3 DEF Sound, PositionsFit, d
<1>10. CASE e.compile_sizes # Unset
  BY <1>1, <1>7, <1>8, <1>10 DEF Sound, PositionsFit
<1> QED
  BY <1>9, <1>10

\* A bucketer's largest size is what the scheduler may send.
KeptToSizes(e) == e.compile_sizes # {} => e.max_num_batched_tokens = GreatestOf(e.compile_sizes)

LEMMA SizesKeepSound ==
    ASSUME NEW e, Sound(e)
    PROVE  Sound(KeepsToSizes(e)) /\ KeptToSizes(KeepsToSizes(e)) /\ KeepsToSizes(e).mode = e.mode
<1> DEFINE k == KeepsToSizes(e)  top == GreatestOf(e.compile_sizes)
<1>1. e \in Limits /\ IsFiniteSet(e.compile_sizes) /\ PositionsFit(e) /\ e.compile_sizes \in SUBSET Nat
  BY DEF Sound, Limits
<1>2. CASE e.compile_sizes = {}
  BY <1>1, <1>2 DEF KeepsToSizes, KeptToSizes, Sound
<1>3. CASE e.compile_sizes # {}
  <2>1. PICK u \in Nat : \A x \in e.compile_sizes : x <= u
    BY <1>1, FiniteIsBounded
  <2>2. top \in Nat
    BY <1>1, <1>3, <2>1, GreatestIs
  <2>3. k = [e EXCEPT !.max_num_batched_tokens = top]
    BY <1>3 DEF KeepsToSizes
  <2> HIDE DEF top, k
  <2>4. k \in Limits /\ k.compile_sizes = e.compile_sizes /\ k.max_num_batched_tokens = top
        /\ k.mode = e.mode /\ k.max_model_len = e.max_model_len /\ k.positions = e.positions
    BY <1>1, <2>2, <2>3 DEF Limits
  <2> QED
    BY <1>1, <2>4 DEF Sound, PositionsFit, KeptToSizes, k, top
<1> QED
  BY <1>2, <1>3

LEMMA SettledIsSound ==
    ASSUME NEW user, Sound(user)
    PROVE  /\ Sound(Engine(user))
           /\ Engine(user).mode # "eager" => KeptToSizes(Engine(user))
<1> DEFINE Pass(e) == KeepsToSizes(ShapeDefaults(e))
<1>1. ASSUME NEW e, Sound(e) PROVE Sound(Pass(e)) /\ KeptToSizes(Pass(e)) /\ Pass(e).mode = e.mode
  <2> DEFINE d == ShapeDefaults(e)
  <2>1. Sound(d) /\ d.mode = e.mode
    BY <1>1, DefaultsKeepSound
  <2> HIDE DEF d
  <2>2. Sound(KeepsToSizes(d)) /\ KeptToSizes(KeepsToSizes(d)) /\ KeepsToSizes(d).mode = d.mode
    BY <2>1, SizesKeepSound
  <2> QED
    BY <2>1, <2>2 DEF d
<1>2. CASE user.mode = "eager"
  <2> DEFINE e == [user EXCEPT !.compile_sizes = IF @ = Unset THEN {} ELSE @]
  <2>1. Engine(user) = e
    BY <1>2 DEF Engine
  <2>2. user \in Limits /\ IsFiniteSet(user.compile_sizes) /\ PositionsFit(user)
    BY DEF Sound
  <2>3. e \in Limits /\ e.mode = "eager" /\ e.max_model_len = user.max_model_len /\ e.positions = user.positions
        /\ e.compile_sizes \in {{}, user.compile_sizes}
    BY <1>2, <2>2 DEF Limits
  <2>4. IsFiniteSet(e.compile_sizes)
    BY <2>2, <2>3, FS_EmptySet
  <2> HIDE DEF e
  <2> QED
    BY <2>1, <2>2, <2>3, <2>4 DEF Sound, PositionsFit
<1>3. CASE user.mode # "eager"
  <2>1. Engine(user) = Pass(Pass(user))
    BY <1>3 DEF Engine
  <2>2. Sound(Pass(user))
    BY <1>1
  <2> HIDE DEF Pass
  <2>3. Sound(Pass(Pass(user))) /\ KeptToSizes(Pass(Pass(user)))
    BY <1>1, <2>2
  <2> QED
    BY <2>1, <2>3
<1> QED
  BY <1>2, <1>3

(***************************************************************************)
(* An engine's limits and tables are settled once.                         *)
(***************************************************************************)
EngineInv ==
    /\ Sound(engine) /\ tables = Tables(engine)
    /\ Compiled => KeptToSizes(engine)

LEMMA EngineStarts == PoolingInit => EngineInv
<1> SUFFICES ASSUME PoolingInit PROVE EngineInv
  OBVIOUS
<1>1. PICK user \in Users : engine = Engine(cap_max_model_len_for_position_offset(user))
  BY DEF PoolingInit
<1>2. Sound(cap_max_model_len_for_position_offset(user))
  BY CapKeeps
<1>3. Sound(engine) /\ (engine.mode # "eager" => KeptToSizes(engine))
  BY <1>1, <1>2, SettledIsSound
<1> QED
  BY <1>3 DEF PoolingInit, EngineInv, Compiled

LEMMA EngineStays == [PoolingNext]_pooling_vars => UNCHANGED <<engine, tables>>
<1> SUFFICES ASSUME [PoolingNext]_pooling_vars PROVE UNCHANGED <<engine, tables>>
  OBVIOUS
<1> USE DEF start
<1>1. CASE DummyBody
  BY <1>1 DEF DummyBody, DummyRun
<1>2. CASE BodiesDone
  BY <1>2 DEF BodiesDone
<1>3. CASE WarmRectangle
  BY <1>3 DEF WarmRectangle, DummyRun
<1>4. CASE RectanglesDone
  BY <1>4 DEF RectanglesDone
<1>5. CASE WarmRagged
  BY <1>5 DEF WarmRagged, DummyRun
<1>6. CASE RaggedDone
  BY <1>6 DEF RaggedDone
<1>7. ASSUME NEW b \in Schedulable(engine), Build(b) \/ prepare_attn(b) PROVE UNCHANGED <<engine, tables>>
  BY <1>7 DEF Build, prepare_attn, Planned
<1>8. CASE LayOut \/ prepare_inputs
  BY <1>8 DEF LayOut, prepare_inputs, LaidOut
<1>9. CASE Attend
  BY <1>9 DEF Attend
<1>10. ASSUME NEW tasks \in [DOMAIN prompts -> Tasks], Pool(tasks) \/ pool(tasks) PROVE UNCHANGED <<engine, tables>>
  BY <1>10 DEF Pool, pool, Pooled
<1>11. CASE Finish
  BY <1>11 DEF Finish
<1>12. CASE UNCHANGED pooling_vars
  BY <1>12 DEF pooling_vars
<1> QED
  BY <1>1, <1>2, <1>3, <1>4, <1>5, <1>6, <1>7, <1>8, <1>9, <1>10, <1>11, <1>12 DEF PoolingNext

LEMMA EngineStep == EngineInv /\ [PoolingNext]_pooling_vars => EngineInv'
  BY EngineStays DEF EngineInv, Compiled

LEMMA EngineHolds == PoolingSpec => []EngineInv
<1> QED
  BY EngineStarts, EngineStep, PTL DEF PoolingSpec

\* For any limits a user asks for: unless the user listed the sizes, a prompt of the model's
\* full length fits the scheduler's budget, and the budget is the widest body.
THEOREM LongestPromptFits == PoolingSpec => []LongestPromptIsSchedulable
<1>1. EngineInv => LongestPromptIsSchedulable
  <2> SUFFICES ASSUME EngineInv, Compiled, engine.compile_sizes = tables.bodies
               PROVE  /\ engine.max_model_len <= engine.max_num_batched_tokens
                      /\ engine.max_num_batched_tokens = GreatestOf(tables.bodies)
    BY DEF LongestPromptIsSchedulable
  <2>1. engine \in Limits /\ KeptToSizes(engine) /\ tables.bodies = Bodies(engine)
    BY DEF EngineInv, Sound, Tables
  <2>2. Bodies(engine) # {} /\ engine.max_model_len <= GreatestOf(Bodies(engine))
    BY <2>1, BodiesAre
  <2> QED
    BY <2>1, <2>2 DEF KeptToSizes
<1> QED
  BY <1>1, EngineHolds, PTL

(***************************************************************************)
(* Where the requests of a packed batch begin.                             *)
(***************************************************************************)
SumRule(b, f) == f = [k \in 0..Len(b) |-> IF k = 0 THEN 0 ELSE f[k - 1] + b[k]]

UpTo(b, n, f) == f = [k \in 0..n |-> IF k = 0 THEN 0 ELSE f[k - 1] + b[k]]

\* The sums exist, up to any request.
LEMMA SumsExist == ASSUME NEW b, NEW n \in Nat PROVE \E f : UpTo(b, n, f)
<1> DEFINE Bad == {j \in Nat : ~\E f : UpTo(b, j, f)}
<1> SUFFICES ASSUME Bad # {} PROVE FALSE
  OBVIOUS
<1>1. PICK j \in Bad : \A i \in Bad : j <= i
  <2>1. Bad \in SUBSET Nat
    OBVIOUS
  <2> HIDE DEF Bad
  <2> QED
    BY <2>1, LeastExists
<1>2. j # 0
  <2> SUFFICES ASSUME j = 0 PROVE FALSE
    OBVIOUS
  <2> DEFINE f == [k \in 0..0 |-> 0]
  <2>1. f = [k \in 0..0 |-> IF k = 0 THEN 0 ELSE f[k - 1] + b[k]]
    OBVIOUS
  <2> QED
    BY <1>1, <2>1 DEF UpTo
<1>3. j - 1 \in Nat /\ j - 1 \notin Bad /\ j \in Nat
  <2>1. j \in Nat
    OBVIOUS
  <2>2. j - 1 \in Nat /\ ~(j <= j - 1)
    BY <1>2, <2>1
  <2> QED
    BY <1>1, <2>1, <2>2
<1>4. PICK f : f = [k \in 0..(j - 1) |-> IF k = 0 THEN 0 ELSE f[k - 1] + b[k]]
  BY <1>3 DEF UpTo
<1> DEFINE h == [k \in 0..j |-> IF k = j THEN f[j - 1] + b[j] ELSE f[k]]
<1>5. \A k \in 0..j : h[k] = IF k = 0 THEN 0 ELSE h[k - 1] + b[k]
  <2> SUFFICES ASSUME NEW k \in 0..j PROVE h[k] = IF k = 0 THEN 0 ELSE h[k - 1] + b[k]
    OBVIOUS
  <2>1. CASE k = j
    <3>1. k # 0 /\ j - 1 \in 0..j /\ j - 1 # j
      BY <2>1, <1>2, <1>3
    <3> QED
      BY <2>1, <3>1
  <2>2. CASE k # j
    <3>1. k \in 0..(j - 1)
      BY <2>2, <1>3
    <3>2. f[k] = IF k = 0 THEN 0 ELSE f[k - 1] + b[k]
      BY <1>4, <3>1
    <3>3. k # 0 => k - 1 \in 0..j /\ k - 1 # j
      BY <1>3, <3>1
    <3> QED
      BY <2>2, <3>2, <3>3
  <2> QED
    BY <2>1, <2>2
<1>6. h = [k \in 0..j |-> IF k = 0 THEN 0 ELSE h[k - 1] + b[k]]
  <2>1. h = [k \in 0..j |-> h[k]]
    OBVIOUS
  <2> HIDE DEF h
  <2> QED
    BY <1>5, <2>1
<1> HIDE DEF h
<1> QED
  BY <1>1, <1>6 DEF UpTo

\* A batch is one of the scheduler's: prompts of at least one token each.
Batch(b) == b \in Seq(Nat \ {0})

\* Each request begins where the one before it ends.
RunsOn(b) ==
    /\ Start(b, 1) = 0
    /\ \A i \in 1..Len(b) + 1 : Start(b, i) \in Nat
    /\ \A i \in 1..Len(b) : Start(b, i + 1) = Start(b, i) + b[i]

LEMMA StartsAre == ASSUME NEW b, Batch(b) PROVE RunsOn(b)
<1> DEFINE n == Len(b)
           f == CHOOSE f : SumRule(b, f)
<1>1. n \in Nat /\ \A i \in 1..n : b[i] \in Nat
  BY DEF Batch
<1>2. SumRule(b, f)
  <2>1. \E h : SumRule(b, h)
    BY <1>1, SumsExist DEF SumRule, UpTo
  <2> QED
    BY <2>1, Zenon
<1>3. \A i : Start(b, i) = f[i - 1]
  BY Zenon DEF Start, SumRule
<1> HIDE DEF f, n
<1>4. \A k \in 0..n : f[k] = IF k = 0 THEN 0 ELSE f[k - 1] + b[k]
  BY <1>2 DEF SumRule, n
<1>5. \A k \in 0..n : f[k] \in Nat
  <2> DEFINE Bad == {k \in 0..n : f[k] \notin Nat}
  <2> SUFFICES ASSUME Bad # {} PROVE FALSE
    OBVIOUS
  <2>1. PICK k \in Bad : \A i \in Bad : k <= i
    <3>1. Bad \in SUBSET Nat
      BY <1>1
    <3> HIDE DEF Bad
    <3> QED
      BY <3>1, LeastExists
  <2>2. k \in 0..n /\ f[k] \notin Nat /\ k # 0
    BY <1>4, <2>1
  <2>3. k - 1 \in 0..n /\ k - 1 \notin Bad /\ k \in 1..n
    <3>1. k \in Nat /\ ~(k <= k - 1)
      BY <1>1, <2>2
    <3> QED
      BY <1>1, <2>1, <2>2, <3>1
  <2>4. f[k] = f[k - 1] + b[k] /\ f[k - 1] \in Nat /\ b[k] \in Nat
    BY <1>1, <1>4, <2>2, <2>3
  <2> QED
    BY <2>2, <2>4
<1>6. Start(b, 1) = 0
  <2>1. 0 \in 0..n /\ 1 - 1 = 0
    BY <1>1
  <2> QED
    BY <1>3, <1>4, <2>1
<1>7. \A i \in 1..n + 1 : Start(b, i) \in Nat
  <2> SUFFICES ASSUME NEW i \in 1..n + 1 PROVE Start(b, i) \in Nat
    OBVIOUS
  <2>1. i - 1 \in 0..n
    BY <1>1
  <2> QED
    BY <1>3, <1>5, <2>1
<1>8. \A i \in 1..n : Start(b, i + 1) = Start(b, i) + b[i]
  <2> SUFFICES ASSUME NEW i \in 1..n PROVE Start(b, i + 1) = Start(b, i) + b[i]
    OBVIOUS
  <2>1. i \in 0..n /\ i # 0 /\ (i + 1) - 1 = i
    BY <1>1
  <2> QED
    BY <1>3, <1>4, <2>1
<1> QED
  BY <1>6, <1>7, <1>8 DEF RunsOn, n

\* Requests do not overlap.
LEMMA StartsGrow ==
    ASSUME NEW b, Batch(b), NEW i \in 1..Len(b), NEW j \in 1..Len(b) + 1, i < j
    PROVE  Start(b, i) + b[i] <= Start(b, j)
<1>1. RunsOn(b) /\ Len(b) \in Nat /\ \A k \in 1..Len(b) : b[k] \in Nat
  BY StartsAre DEF Batch
<1> DEFINE Bad == {k \in (i + 1)..Len(b) + 1 : ~(Start(b, i) + b[i] <= Start(b, k))}
<1> SUFFICES ASSUME Bad # {} PROVE FALSE
  <2>1. j \in (i + 1)..Len(b) + 1
    BY <1>1
  <2> QED
    BY <2>1
<1>2. PICK k \in Bad : \A x \in Bad : k <= x
  <2>1. Bad \in SUBSET Nat
    BY <1>1
  <2> HIDE DEF Bad
  <2> QED
    BY <2>1, LeastExists
<1>3. k \in (i + 1)..Len(b) + 1 /\ ~(Start(b, i) + b[i] <= Start(b, k))
  BY <1>2
<1>4. k # i + 1
  <2>1. Start(b, i + 1) = Start(b, i) + b[i] /\ Start(b, i) \in Nat /\ b[i] \in Nat
    BY <1>1 DEF RunsOn
  <2> QED
    BY <1>3, <2>1
<1>5. k - 1 \in (i + 1)..Len(b) + 1 /\ k - 1 \in 1..Len(b) /\ ~(k <= k - 1) /\ (k - 1) + 1 = k
  BY <1>1, <1>3, <1>4
<1>6. Start(b, i) + b[i] <= Start(b, k - 1)
  BY <1>2, <1>5
<1>7. Start(b, k) = Start(b, k - 1) + b[k - 1]
  <2> DEFINE l == k - 1
  <2>1. l \in 1..Len(b) /\ l + 1 = k
    BY <1>5
  <2> HIDE DEF l
  <2>2. Start(b, l + 1) = Start(b, l) + b[l]
    BY <1>1, <2>1 DEF RunsOn
  <2> QED
    BY <2>1, <2>2 DEF l
<1>8. Start(b, k - 1) \in Nat /\ b[k - 1] \in Nat /\ Start(b, i) \in Nat /\ b[i] \in Nat
  BY <1>1, <1>5 DEF RunsOn
<1> QED
  BY <1>3, <1>6, <1>7, <1>8

\* The place of a request's token in the packed batch, and the token there.
LEMMA PackedIs ==
    ASSUME NEW b, Batch(b), NEW i \in 1..Len(b), NEW c \in 0..(b[i] - 1)
    PROVE  /\ Start(b, i) \in Nat /\ Start(b, i) + c \in Nat /\ Start(b, i) + c < Total(b) /\ Total(b) \in Nat
           /\ (CHOOSE j \in DOMAIN b : Start(b, j) <= Start(b, i) + c /\ Start(b, i) + c < Start(b, j + 1)) = i
           /\ PackedToken(b, Start(b, i) + c) = Token(i, c)
<1>1. RunsOn(b) /\ Len(b) \in Nat /\ DOMAIN b = 1..Len(b) /\ \A k \in 1..Len(b) : b[k] \in Nat \ {0}
  BY StartsAre DEF Batch
<1> DEFINE p == Start(b, i) + c
           Here(j) == Start(b, j) <= p /\ p < Start(b, j + 1)
<1>2. Start(b, i) \in Nat /\ b[i] \in Nat /\ c \in Nat /\ c < b[i] /\ Start(b, i + 1) = Start(b, i) + b[i]
  BY <1>1 DEF RunsOn
<1>3. Total(b) \in Nat /\ Start(b, i) + b[i] <= Total(b)
  <2>1. Len(b) + 1 \in 1..Len(b) + 1 /\ i < Len(b) + 1
    BY <1>1
  <2> QED
    BY <1>1, <2>1, StartsGrow DEF RunsOn, Total
<1>4. p \in Nat /\ p < Total(b) /\ Here(i)
  BY <1>2, <1>3
<1>5. ASSUME NEW j \in 1..Len(b), Here(j) PROVE j = i
  <2>1. Start(b, j) \in Nat /\ b[j] \in Nat /\ Start(b, j + 1) = Start(b, j) + b[j]
    BY <1>1 DEF RunsOn
  <2>2. ~(j < i)
    <3> SUFFICES ASSUME j < i PROVE FALSE
      OBVIOUS
    <3>1. i \in 1..Len(b) + 1
      BY <1>1
    <3>2. Start(b, j) + b[j] <= Start(b, i)
      BY <3>1, StartsGrow
    <3> QED
      BY <1>2, <1>5, <2>1, <3>2
  <2>3. ~(i < j)
    <3> SUFFICES ASSUME i < j PROVE FALSE
      OBVIOUS
    <3>1. j \in 1..Len(b) + 1
      BY <1>1
    <3>2. Start(b, i) + b[i] <= Start(b, j)
      BY <3>1, StartsGrow
    <3> QED
      BY <1>2, <1>5, <2>1, <3>2
  <2> QED
    BY <1>1, <2>2, <2>3
<1> HIDE DEF p
<1>6. (CHOOSE j \in DOMAIN b : Here(j)) = i
  BY <1>1, <1>4, <1>5
<1>7. PackedToken(b, p) = Token(i, p - Start(b, i))
  <2>1. ~(p >= Total(b))
    BY <1>3, <1>4
  <2> DEFINE j == CHOOSE j \in DOMAIN b : Here(j)
  <2>2. PackedToken(b, p) = Token(j, p - Start(b, j))
    BY <2>1 DEF PackedToken
  <2> HIDE DEF j
  <2>3. j = i
    BY <1>6 DEF j
  <2> QED
    BY <2>2, <2>3
<1>8. p - Start(b, i) = c
  BY <1>2 DEF p
<1> QED
  BY <1>2, <1>3, <1>4, <1>6, <1>7, <1>8 DEF p

(***************************************************************************)
(* The shapes a batch may run in.                                          *)
(***************************************************************************)
\* What the scheduler sends.
Request(b) ==
    /\ Batch(b) /\ Len(b) \in 1..engine.max_num_seqs
    /\ \A i \in 1..Len(b) : b[i] <= engine.max_model_len

LEMMA LongestIs ==
    ASSUME NEW b, Batch(b), Len(b) # 0
    PROVE  Longest(b) \in Nat /\ \A i \in 1..Len(b) : b[i] <= Longest(b)
<1> DEFINE S == {b[i] : i \in DOMAIN b}
<1>1. Len(b) \in Nat /\ DOMAIN b = 1..Len(b) /\ \A i \in 1..Len(b) : b[i] \in Nat
  BY DEF Batch
<1>2. RunsOn(b) /\ Total(b) \in Nat
  BY <1>1, StartsAre DEF RunsOn, Total
<1>3. ASSUME NEW i \in 1..Len(b) PROVE b[i] <= Total(b)
  <2>1. Len(b) + 1 \in 1..Len(b) + 1 /\ i < Len(b) + 1 /\ i \in 1..Len(b) + 1
    BY <1>1
  <2>2. Start(b, i) + b[i] <= Start(b, Len(b) + 1) /\ Start(b, i) \in Nat
    BY <1>2, <2>1, StartsGrow DEF RunsOn
  <2> QED
    BY <1>1, <1>2, <2>2 DEF Total
<1>4. S \in SUBSET Nat /\ S # {} /\ \A x \in S : x <= Total(b)
  <2>1. 1 \in DOMAIN b
    BY <1>1
  <2> QED
    BY <1>1, <1>3, <2>1
<1>5. \A i \in 1..Len(b) : b[i] \in S
  BY <1>1
<1>6. Longest(b) = GreatestOf(S)
  BY DEF Longest
<1> HIDE DEF S
<1>7. GreatestOf(S) \in S /\ \A x \in S : x <= GreatestOf(S)
  BY <1>2, <1>4, GreatestIs
<1> QED
  BY <1>4, <1>5, <1>6, <1>7

LEMMA SchedulableIs ==
    ASSUME EngineInv, NEW b \in Schedulable(engine)
    PROVE  Request(b)
<1>1. b \in PromptBatches /\ Len(b) \in 1..engine.max_num_seqs /\ Longest(b) <= engine.max_model_len
  BY DEF Schedulable, Count
<1>2. Batch(b)
  BY <1>1, UsersAssumption DEF Batch
<1>3. engine.max_model_len \in Nat
  BY SticksAre DEF EngineInv, Sound, Limits
<1>4. Len(b) # 0 /\ \A i \in 1..Len(b) : b[i] \in Nat
  BY <1>1, <1>2 DEF Batch
<1>5. Longest(b) \in Nat /\ \A i \in 1..Len(b) : b[i] <= Longest(b)
  BY <1>2, <1>4, LongestIs
<1>6. \A i \in 1..Len(b) : b[i] <= engine.max_model_len
  BY <1>1, <1>3, <1>4, <1>5
<1> QED
  BY <1>1, <1>2, <1>6 DEF Request

\* Rectangles that were declared.
LEMMA RectanglesAre ==
    ASSUME EngineInv, NEW x \in tables.rectangles
    PROVE  x.extent \in Extents /\ x.width \in Nat /\ x.extent <= AlignUpPow2(engine.max_model_len)
<1>1. engine \in Limits /\ tables.rectangles = Rectangles(engine)
  BY DEF EngineInv, Sound, Tables
<1>2. PICK body \in Bodies(engine) : \E y \in Usable(engine, body) : x = [extent |-> y, width |-> body \div y]
  BY <1>1 DEF Rectangles
<1>3. PICK y \in Usable(engine, body) : x = [extent |-> y, width |-> body \div y]
  BY <1>2
<1> DEFINE limit == AlignUpPow2(engine.max_model_len)
<1>4. engine.max_model_len \in 1..(Stick * 2^MaxDoublings)
      /\ engine.query_buckets \in SUBSET (1..(Stick * 2^MaxDoublings))
  BY <1>1 DEF Limits
<1>5. limit \in Extents /\ limit \in Nat
  BY <1>4, RoundsUp
<1>6. y \in Lengths(engine)
  BY DEF Usable
<1>7. Lengths(engine) = IF engine.query_buckets = {} THEN {z \in Extents : z <= limit}
                        ELSE {z \in {AlignUpPow2(v) : v \in engine.query_buckets} : z <= limit} \cup {limit}
  BY DEF Lengths
<1>8. \A v \in engine.query_buckets : AlignUpPow2(v) \in Extents
  BY <1>4, RoundsUp
<1> HIDE DEF limit
<1>9. y \in Extents /\ y <= limit
  BY <1>5, <1>6, <1>7, <1>8
<1>10. body \div y \in Nat
  BY <1>1, <1>9, BodiesAre, SticksAre, Parts
<1> QED
  BY <1>3, <1>9, <1>10 DEF limit

\* Groups are cut no wider than the engine has requests.
LEMMA CapIs ==
    ASSUME EngineInv, NEW r, NEW x
    PROVE  WidthCap(_width_caps_for(r), x) \in Nat \ {0}
<1> DEFINE declared == _width_caps_for(r)
           W == {1} \cup {g.width : g \in {g \in declared : g.extent = x}}
<1>1. engine \in Limits /\ tables.bodies = Bodies(engine)
      /\ tables.groups = [body \in Bodies(engine) |-> Groups(engine, body)]
  BY DEF EngineInv, Sound, Tables
<1>2. engine.max_num_seqs \in Nat \ {0}
  BY <1>1, SticksAre, PowersOfTwo DEF Limits
<1>3. ASSUME NEW y, NEW g \in GroupsAt(y) PROVE g.width \in Nat /\ g.width <= engine.max_num_seqs
  <2>1. y \in Bodies(engine) /\ g \in Groups(engine, y)
    BY <1>1, <1>3 DEF GroupsAt
  <2>2. /\ g.extent \in Usable(engine, y) /\ g.width \in {2^k : k \in 0..MaxDoublings}
        /\ g.width <= FloorPow2(Lesser(engine.max_num_seqs, y \div g.extent))
    BY <2>1 DEF Groups
  <2>3. g.width \in Nat
    <3>1. \A k \in 0..MaxDoublings : 2^k \in Nat
      BY SticksAre, PowersOfTwo
    <3> QED
      BY <2>2, <3>1
  <2>4. y \in Nat /\ g.extent \in Nat \ {0}
    <3>1. g.extent \in Lengths(engine) /\ engine.query_buckets \in SUBSET (1..(Stick * 2^MaxDoublings))
          /\ engine.max_model_len \in 1..(Stick * 2^MaxDoublings)
      BY <1>1, <2>2 DEF Usable, Limits
    <3>2. g.extent \in Extents
      BY <3>1, RoundsUp DEF Lengths
    <3> QED
      BY <1>1, <2>1, <3>2, BodiesAre, SticksAre
  <2> DEFINE share == y \div g.extent
             fit == Lesser(engine.max_num_seqs, share)
  <2>5. share \in Nat
    BY <2>4, Parts
  <2> HIDE DEF share
  <2>6. fit \in Nat /\ fit <= engine.max_num_seqs
    BY <1>2, <2>5 DEF Lesser
  <2> HIDE DEF fit
  <2>7. FloorPow2(fit) \in Nat /\ FloorPow2(fit) <= Greater(1, fit)
    BY <2>6, FloorIs
  <2>8. Greater(1, fit) \in Nat /\ Greater(1, fit) <= engine.max_num_seqs
    BY <1>2, <2>6 DEF Greater
  <2>9. g.width <= FloorPow2(fit)
    BY <2>2 DEF fit, share
  <2> QED
    BY <1>2, <2>3, <2>7, <2>8, <2>9
<1>4. \A g \in declared : g.width \in Nat /\ g.width <= engine.max_num_seqs
  BY <1>3 DEF _width_caps_for
<1> HIDE DEF declared
<1>5. W \in SUBSET Nat /\ 1 \in W /\ \A y \in W : y <= engine.max_num_seqs
  BY <1>2, <1>4
<1>6. WidthCap(_width_caps_for(r), x) = GreatestOf(W)
  BY DEF WidthCap, declared
<1> HIDE DEF W
<1>7. GreatestOf(W) \in W /\ \A y \in W : y <= GreatestOf(W)
  BY <1>2, <1>5, GreatestIs
<1>8. GreatestOf(W) \in Nat /\ 1 <= GreatestOf(W)
  BY <1>5, <1>7
<1> QED
  BY <1>6, <1>8

\* A grid whose lanes hold the batch's requests, one each.
Holding(g, b, r) ==
    /\ g.extent \in Nat \ {0} /\ g.width \in Nat /\ g.lens = b /\ g.extent * g.width = r
    /\ Len(b) <= g.width /\ (\A i \in 1..Len(b) : b[i] <= g.extent)
    /\ g.extent \in Extents /\ g.extent <= AlignUpPow2(engine.max_model_len)

LEMMA RectangleHolds ==
    ASSUME EngineInv, NEW b, Request(b), NEW r
    PROVE  LET g == RectangleFor(b, r) IN g # NoGrid => Holding(g, b, r)
<1> DEFINE S == RectanglesFor(b, r)
           x == CHOOSE x \in S : \A y \in S : x.extent <= y.extent
           g == RectangleFor(b, r)
<1> SUFFICES ASSUME g # NoGrid PROVE Holding(g, b, r)
  OBVIOUS
<1>1. Batch(b) /\ Len(b) # 0 /\ Len(b) \in Nat
  BY DEF Request, Batch
<1>2. S # {} /\ Len(b) <= x.width /\ g = Grid(x, b)
  BY DEF RectangleFor, Count
<1>3. \A y \in S : y \in tables.rectangles /\ y.extent * y.width = r /\ Longest(b) <= y.extent
  BY DEF RectanglesFor, Offered
<1>4. x \in S
  <2> DEFINE E == {y.extent : y \in S}
  <2>1. E \in SUBSET Nat /\ E # {}
    <3>1. \A y \in S : y.extent \in Nat
      BY <1>3, RectanglesAre, SticksAre
    <3> QED
      BY <1>2, <3>1
  <2>2. PICK m \in E : \A z \in E : m <= z
    <3> HIDE DEF E
    <3> QED
      BY <2>1, LeastExists
  <2>3. \E y \in S : \A z \in S : y.extent <= z.extent
    BY <2>2
  <2> QED
    BY <2>3, Zenon
<1> HIDE DEF x, S
<1>5. x \in tables.rectangles /\ x.extent * x.width = r /\ Longest(b) <= x.extent
  BY <1>3, <1>4
<1>6. x.extent \in Extents /\ x.extent \in Nat \ {0} /\ x.width \in Nat /\ x.extent <= AlignUpPow2(engine.max_model_len)
  BY <1>5, RectanglesAre, SticksAre
<1>7. Longest(b) \in Nat /\ \A i \in 1..Len(b) : b[i] <= Longest(b) /\ b[i] \in Nat
  BY <1>1, LongestIs DEF Batch
<1>8. \A i \in 1..Len(b) : b[i] <= x.extent
  BY <1>5, <1>6, <1>7
<1>9. g.extent = x.extent /\ g.width = x.width /\ g.lens = b
  BY <1>2 DEF Grid
<1> QED
  BY <1>2, <1>5, <1>6, <1>8, <1>9 DEF Holding

(***************************************************************************)
(* Groups: every request is a member of one, and its members are requests. *)
(***************************************************************************)
AmongRule(b, extent, n, f) ==
    f = [k \in 0..n |-> IF k = 0 THEN <<>>
                        ELSE IF AlignUpPow2(b[k]) = extent THEN Append(f[k - 1], k) ELSE f[k - 1]]

LEMMA AmongExists == ASSUME NEW b, NEW extent, NEW n \in Nat PROVE \E f : AmongRule(b, extent, n, f)
<1> DEFINE Of(h, k) == IF AlignUpPow2(b[k]) = extent THEN Append(h, k) ELSE h
           Bad == {j \in Nat : ~\E f : AmongRule(b, extent, j, f)}
<1> SUFFICES ASSUME Bad # {} PROVE FALSE
  OBVIOUS
<1>0. \A f, j : AmongRule(b, extent, j, f) <=> f = [k \in 0..j |-> IF k = 0 THEN <<>> ELSE Of(f[k - 1], k)]
  BY DEF AmongRule
<1> HIDE DEF Of
<1>1. PICK j \in Bad : \A i \in Bad : j <= i
  <2>1. Bad \in SUBSET Nat
    OBVIOUS
  <2> HIDE DEF Bad
  <2> QED
    BY <2>1, LeastExists
<1>2. j # 0
  <2> SUFFICES ASSUME j = 0 PROVE FALSE
    OBVIOUS
  <2> DEFINE f == [k \in 0..0 |-> <<>>]
  <2>1. f = [k \in 0..0 |-> IF k = 0 THEN <<>> ELSE Of(f[k - 1], k)]
    OBVIOUS
  <2> QED
    BY <1>0, <1>1, <2>1
<1>3. j - 1 \in Nat /\ j - 1 \notin Bad /\ j \in Nat
  <2>1. j \in Nat
    OBVIOUS
  <2>2. j - 1 \in Nat /\ ~(j <= j - 1)
    BY <1>2, <2>1
  <2> QED
    BY <1>1, <2>1, <2>2
<1>4. PICK f : f = [k \in 0..(j - 1) |-> IF k = 0 THEN <<>> ELSE Of(f[k - 1], k)]
  BY <1>0, <1>3
<1> DEFINE h == [k \in 0..j |-> IF k = j THEN Of(f[j - 1], j) ELSE f[k]]
<1>5. \A k \in 0..j : h[k] = IF k = 0 THEN <<>> ELSE Of(h[k - 1], k)
  <2> SUFFICES ASSUME NEW k \in 0..j PROVE h[k] = IF k = 0 THEN <<>> ELSE Of(h[k - 1], k)
    OBVIOUS
  <2>1. CASE k = j
    <3>1. k # 0 /\ j - 1 \in 0..j /\ j - 1 # j
      BY <2>1, <1>2, <1>3
    <3>2. h[k] = Of(f[j - 1], j) /\ h[k - 1] = f[j - 1]
      BY <2>1, <3>1
    <3> QED
      BY <2>1, <3>1, <3>2
  <2>2. CASE k # j
    <3>1. k \in 0..(j - 1)
      BY <2>2, <1>3
    <3>2. f[k] = IF k = 0 THEN <<>> ELSE Of(f[k - 1], k)
      BY <1>4, <3>1
    <3>3. h[k] = f[k]
      BY <2>2
    <3>4. k # 0 => h[k - 1] = f[k - 1]
      <4>1. k # 0 => k - 1 \in 0..j /\ k - 1 # j
        BY <1>3, <3>1
      <4> QED
        BY <4>1
    <3> QED
      BY <3>2, <3>3, <3>4
  <2> QED
    BY <2>1, <2>2
<1>6. h = [k \in 0..j |-> IF k = 0 THEN <<>> ELSE Of(h[k - 1], k)]
  <2>1. h = [k \in 0..j |-> h[k]]
    OBVIOUS
  <2> HIDE DEF h
  <2> QED
    BY <1>5, <2>1
<1> HIDE DEF h
<1> QED
  BY <1>0, <1>1, <1>6

\* A list of some of the batch's requests, with all that have an extent.
ListOf(s, b, extent, n) ==
    /\ s \in Seq(1..Len(b))
    /\ \A i \in 1..n : AlignUpPow2(b[i]) = extent => \E t \in 1..Len(s) : s[t] = i

LEMMA MembersAre ==
    ASSUME NEW b, Batch(b), NEW extent
    PROVE  ListOf(MembersOf(b, extent), b, extent, Len(b))
<1> DEFINE n == Len(b)
           f == CHOOSE f : AmongRule(b, extent, Len(b), f)
<1>1. n \in Nat
  BY DEF Batch
<1>2. AmongRule(b, extent, n, f)
  <2>1. \E h : AmongRule(b, extent, n, h)
    BY <1>1, AmongExists
  <2> QED
    BY <2>1, Zenon
<1>3. MembersOf(b, extent) = f[n]
  BY Zenon DEF MembersOf, AmongRule
<1> HIDE DEF f, n
<1>4. \A k \in 0..n : f[k] = IF k = 0 THEN <<>>
                             ELSE IF AlignUpPow2(b[k]) = extent THEN Append(f[k - 1], k) ELSE f[k - 1]
  BY <1>2 DEF AmongRule
<1> DEFINE Bad == {k \in 0..n : ~ListOf(f[k], b, extent, k)}
<1>5. Bad = {}
  <2> SUFFICES ASSUME Bad # {} PROVE FALSE
    OBVIOUS
  <2>1. PICK k \in Bad : \A i \in Bad : k <= i
    <3>1. Bad \in SUBSET Nat
      BY <1>1
    <3> HIDE DEF Bad
    <3> QED
      BY <3>1, LeastExists
  <2>2. k \in 0..n /\ ~ListOf(f[k], b, extent, k)
    BY <2>1
  <2>3. k # 0
    <3> SUFFICES ASSUME k = 0 PROVE FALSE
      OBVIOUS
    <3>1. f[0] = <<>>
      BY <1>1, <1>4
    <3> QED
      BY <2>2, <3>1 DEF ListOf
  <2>4. k - 1 \in 0..n /\ k - 1 \notin Bad /\ k \in 1..n
    <3>1. k \in Nat /\ ~(k <= k - 1)
      BY <1>1, <2>2
    <3> QED
      BY <1>1, <2>1, <2>2, <2>3, <3>1
  <2> DEFINE s == f[k - 1]
  <2>5. s \in Seq(1..n) /\ \A i \in 1..(k - 1) : AlignUpPow2(b[i]) = extent => \E t \in 1..Len(s) : s[t] = i
    BY <2>4 DEF ListOf, n
  <2>6. f[k] = IF AlignUpPow2(b[k]) = extent THEN Append(s, k) ELSE s
    BY <1>4, <2>2, <2>3
  <2> HIDE DEF s, Bad
  <2>7. CASE AlignUpPow2(b[k]) # extent
    <3>1. f[k] = s
      BY <2>6, <2>7
    <3>2. \A i \in 1..k : i = k \/ i \in 1..(k - 1)
      BY <2>4
    <3>3. \A i \in 1..k : AlignUpPow2(b[i]) = extent => \E t \in 1..Len(s) : s[t] = i
      BY <2>5, <2>7, <3>2
    <3> QED
      BY <2>2, <2>5, <3>1, <3>3 DEF ListOf, n
  <2>8. CASE AlignUpPow2(b[k]) = extent
    <3> DEFINE q == Append(s, k)
    <3>1. q \in Seq(1..n) /\ Len(q) = Len(s) + 1 /\ q[Len(s) + 1] = k /\ \A t \in 1..Len(s) : q[t] = s[t]
      BY <2>4, <2>5
    <3>2. Len(s) \in Nat
      BY <2>5
    <3> HIDE DEF q
    <3>3. ASSUME NEW i \in 1..k, AlignUpPow2(b[i]) = extent PROVE \E t \in 1..Len(q) : q[t] = i
      <4>1. CASE i = k
        <5>1. Len(s) + 1 \in 1..Len(q)
          BY <3>1, <3>2
        <5> QED
          BY <3>1, <4>1, <5>1
      <4>2. CASE i # k
        <5>1. i \in 1..(k - 1)
          BY <2>4, <4>2
        <5>2. PICK t \in 1..Len(s) : s[t] = i
          BY <2>5, <3>3, <5>1
        <5>3. t \in 1..Len(q)
          BY <3>1, <3>2
        <5> QED
          BY <3>1, <5>2, <5>3
      <4> QED
        BY <4>1, <4>2
    <3>4. f[k] = q
      BY <2>6, <2>8 DEF q
    <3> QED
      BY <2>2, <3>1, <3>3, <3>4 DEF ListOf, n
  <2> QED
    BY <2>7, <2>8
<1>6. n \in 0..n
  BY <1>1
<1> QED
  BY <1>3, <1>5, <1>6 DEF n

\* A chunk of what is left of the members, k of them.
ChunkAt(members, cap, k) ==
    LET size == Lesser(FloorPow2(k), cap)
        from == Len(members) - k + 1 IN
    SubSeq(members, from, from + size - 1)

CutRule(members, cap, n, f) ==
    f = [k \in 0..n |-> IF k = 0 THEN {}
                        ELSE {ChunkAt(members, cap, k)} \cup f[k - Lesser(FloorPow2(k), cap)]]

LEMMA SizeIs ==
    ASSUME NEW k \in Nat \ {0}, NEW cap \in Nat \ {0}
    PROVE  Lesser(FloorPow2(k), cap) \in 1..k
<1>1. FloorPow2(k) \in 1..k
  BY FloorBelow
<1> QED
  BY <1>1 DEF Lesser

LEMMA CutExists ==
    ASSUME NEW members, NEW cap \in Nat \ {0}, NEW n \in Nat
    PROVE  \E f : CutRule(members, cap, n, f)
<1> DEFINE Size(k) == Lesser(FloorPow2(k), cap)
           Of(h, k) == {ChunkAt(members, cap, k)} \cup h[k - Size(k)]
           Bad == {j \in Nat : ~\E f : CutRule(members, cap, j, f)}
<1> SUFFICES ASSUME Bad # {} PROVE FALSE
  OBVIOUS
<1>0. \A f, j : CutRule(members, cap, j, f) <=> f = [k \in 0..j |-> IF k = 0 THEN {} ELSE Of(f, k)]
  BY DEF CutRule
<1>1. PICK j \in Bad : \A i \in Bad : j <= i
  <2>1. Bad \in SUBSET Nat
    OBVIOUS
  <2> HIDE DEF Bad
  <2> QED
    BY <2>1, LeastExists
<1>2. j # 0
  <2> SUFFICES ASSUME j = 0 PROVE FALSE
    OBVIOUS
  <2> DEFINE f == [k \in 0..0 |-> {}]
  <2> HIDE DEF Of
  <2>1. f = [k \in 0..0 |-> IF k = 0 THEN {} ELSE Of(f, k)]
    OBVIOUS
  <2> QED
    BY <1>0, <1>1, <2>1
<1>3. j - 1 \in Nat /\ j - 1 \notin Bad /\ j \in Nat
  <2>1. j \in Nat
    OBVIOUS
  <2>2. j - 1 \in Nat /\ ~(j <= j - 1)
    BY <1>2, <2>1
  <2> QED
    BY <1>1, <2>1, <2>2
<1>4. PICK f : f = [k \in 0..(j - 1) |-> IF k = 0 THEN {} ELSE Of(f, k)]
  BY <1>0, <1>3
<1>5. ASSUME NEW k \in 1..j PROVE k - Size(k) \in 0..(k - 1)
  <2>0. k \in Nat \ {0}
    BY <1>3
  <2>1. Size(k) \in 1..k /\ k \in Nat
    BY <2>0, SizeIs
  <2> HIDE DEF Size
  <2> QED
    BY <2>1
<1> DEFINE h == [k \in 0..j |-> IF k = j THEN Of(f, j) ELSE f[k]]
<1>6. \A k \in 1..j : h[k - Size(k)] = f[k - Size(k)]
  <2> SUFFICES ASSUME NEW k \in 1..j PROVE h[k - Size(k)] = f[k - Size(k)]
    OBVIOUS
  <2>1. k - Size(k) \in 0..(k - 1)
    BY <1>5
  <2> DEFINE i == k - Size(k)
  <2>2. i \in 0..(k - 1)
    BY <2>1
  <2> HIDE DEF i, Of
  <2>3. i \in 0..j /\ i # j
    BY <1>3, <2>2
  <2>4. h[i] = f[i]
    BY <2>3
  <2> QED
    BY <2>4 DEF i
<1>7. \A k \in 1..j : Of(h, k) = Of(f, k)
  <2> HIDE DEF h, Size
  <2> QED
    BY <1>6
<1> HIDE DEF Of
<1>8. \A k \in 0..j : h[k] = IF k = 0 THEN {} ELSE Of(h, k)
  <2> SUFFICES ASSUME NEW k \in 0..j PROVE h[k] = IF k = 0 THEN {} ELSE Of(h, k)
    OBVIOUS
  <2>1. CASE k = j
    <3>1. k # 0 /\ k \in 1..j
      BY <2>1, <1>2, <1>3
    <3>2. h[k] = Of(f, j)
      BY <2>1
    <3> HIDE DEF h
    <3> QED
      BY <1>7, <2>1, <3>1, <3>2
  <2>2. CASE k # j
    <3>1. k \in 0..(j - 1)
      BY <2>2, <1>3
    <3>2. f[k] = IF k = 0 THEN {} ELSE Of(f, k)
      BY <1>4, <3>1
    <3>3. h[k] = f[k]
      BY <2>2
    <3> HIDE DEF h
    <3>4. k # 0 => k \in 1..j
      BY <1>3
    <3> QED
      BY <1>7, <3>2, <3>3, <3>4
  <2> QED
    BY <2>1, <2>2
<1>9. h = [k \in 0..j |-> IF k = 0 THEN {} ELSE Of(h, k)]
  <2>1. h = [k \in 0..j |-> h[k]]
    OBVIOUS
  <2> HIDE DEF h
  <2> QED
    BY <1>8, <2>1
<1> HIDE DEF h
<1> QED
  BY <1>0, <1>1, <1>9

\* Every member is in a chunk; what is in a chunk is a member.
Covers(cut, members, k) ==
    /\ \A m \in cut : \A l \in DOMAIN m : \E t \in 1..Len(members) : m[l] = members[t]
    /\ \A t \in 1..Len(members) : Len(members) < t + k => \E m \in cut : \E l \in DOMAIN m : m[l] = members[t]

LEMMA ChunksCover ==
    ASSUME NEW T, NEW members \in Seq(T), NEW cap \in Nat \ {0}
    PROVE  Covers(Chunks(members, cap), members, Len(members))
<1> DEFINE n == Len(members)
           f == CHOOSE f : CutRule(members, cap, n, f)
           Size(k) == Lesser(FloorPow2(k), cap)
<1>1. n \in Nat
  OBVIOUS
<1>2. CutRule(members, cap, n, f)
  <2>1. \E h : CutRule(members, cap, n, h)
    BY <1>1, CutExists
  <2> QED
    BY <2>1, Zenon
<1>3. Chunks(members, cap) = f[n]
  BY Zenon DEF Chunks, CutRule, ChunkAt
<1> HIDE DEF f
<1>4. \A k \in 0..n : f[k] = IF k = 0 THEN {} ELSE {ChunkAt(members, cap, k)} \cup f[k - Size(k)]
  BY <1>2 DEF CutRule
<1>5. ASSUME NEW k \in 1..n
      PROVE  LET m == ChunkAt(members, cap, k) IN
             /\ Size(k) \in 1..k /\ DOMAIN m = 1..Size(k)
             /\ \A l \in 1..Size(k) : m[l] = members[n - k + l] /\ n - k + l \in 1..n
  <2> DEFINE m == ChunkAt(members, cap, k)  from == n - k + 1
  <2>0. k \in Nat \ {0}
    BY <1>1
  <2>1. Size(k) \in 1..k /\ k \in Nat
    BY <2>0, SizeIs
  <2>2. m = SubSeq(members, from, from + Size(k) - 1)
    BY DEF ChunkAt
  <2> HIDE DEF Size, m
  <2> DEFINE s == Size(k)
  <2>3. s \in 1..k
    BY <2>1
  <2>4. m = SubSeq(members, from, from + s - 1)
    BY <2>2
  <2> HIDE DEF s
  <2>5. from \in 1..n /\ from + s - 1 \in 1..n /\ from <= from + s - 1
    BY <1>1, <2>3
  <2>6. Len(m) = s /\ m \in Seq(T) /\ \A l \in 1..s : m[l] = members[from + l - 1]
    BY <2>3, <2>4, <2>5
  <2>7. \A l \in 1..s : from + l - 1 = n - k + l /\ n - k + l \in 1..n
    BY <1>1, <2>3
  <2>8. DOMAIN m = 1..s
    BY <2>6
  <2> QED
    BY <2>3, <2>6, <2>7, <2>8 DEF s, m
<1> HIDE DEF n
<1> DEFINE Bad == {k \in 0..n : ~Covers(f[k], members, k)}
<1>6. Bad = {}
  <2> SUFFICES ASSUME Bad # {} PROVE FALSE
    OBVIOUS
  <2>1. PICK k \in Bad : \A i \in Bad : k <= i
    <3>1. Bad \in SUBSET Nat
      BY <1>1
    <3> HIDE DEF Bad
    <3> QED
      BY <3>1, LeastExists
  <2>2. k \in 0..n /\ ~Covers(f[k], members, k)
    BY <2>1
  <2>3. k # 0
    <3> SUFFICES ASSUME k = 0 PROVE FALSE
      OBVIOUS
    <3>1. f[0] = {}
      BY <1>1, <1>4
    <3>2. \A t \in 1..n : ~(n < t + 0)
      BY <1>1
    <3> QED
      BY <2>2, <3>1, <3>2 DEF Covers, n
  <2>4. k \in 1..n /\ k \in Nat
    BY <1>1, <2>2, <2>3
  <2> DEFINE m == ChunkAt(members, cap, k)  s == Size(k)  rest == f[k - s]
  <2>5. s \in 1..k /\ DOMAIN m = 1..s /\ \A l \in 1..s : m[l] = members[n - k + l] /\ n - k + l \in 1..n
    BY <1>5, <2>4
  <2>6. f[k] = {m} \cup rest
    BY <1>4, <2>2, <2>3
  <2> HIDE DEF m, s, rest, Bad
  <2>7. Covers(rest, members, k - s)
    <3>1. k - s \in 0..n /\ ~(k <= k - s)
      BY <1>1, <2>4, <2>5
    <3> QED
      BY <2>1, <3>1 DEF Bad, rest
  <2>8. \A x \in f[k] : \A l \in DOMAIN x : \E t \in 1..n : x[l] = members[t]
    <3>1. \A l \in DOMAIN m : \E t \in 1..n : m[l] = members[t]
      BY <2>5
    <3>2. \A x \in rest : \A l \in DOMAIN x : \E t \in 1..n : x[l] = members[t]
      BY <2>7 DEF Covers, n
    <3> QED
      BY <2>6, <3>1, <3>2
  <2>9. ASSUME NEW t \in 1..n, n < t + k PROVE \E x \in f[k] : \E l \in DOMAIN x : x[l] = members[t]
    <3>1. CASE n < t + (k - s)
      <4>1. \E x \in rest : \E l \in DOMAIN x : x[l] = members[t]
        BY <2>7, <3>1 DEF Covers, n
      <4> QED
        BY <2>6, <4>1
    <3>2. CASE ~(n < t + (k - s))
      <4> DEFINE l == t + k - n
      <4>1. l \in 1..s /\ n - k + l = t
        BY <1>1, <2>4, <2>5, <2>9, <3>2
      <4> HIDE DEF l
      <4>2. m[l] = members[t] /\ l \in DOMAIN m
        BY <2>5, <4>1
      <4> QED
        BY <2>6, <4>2
    <3> QED
      BY <3>1, <3>2
  <2> QED
    BY <2>2, <2>8, <2>9 DEF Covers, n
<1>7. n \in 0..n
  BY <1>1
<1> QED
  BY <1>3, <1>6, <1>7 DEF n

\* Groups that serve a batch.
Serving(groups_, b) ==
    /\ \A i \in 1..Len(b) : \E g \in groups_ : g.extent \in Nat /\ b[i] <= g.extent
                                             /\ \E l \in DOMAIN g.members : g.members[l] = i
    /\ \A g \in groups_ : g.extent \in Nat /\ \A l \in DOMAIN g.members : g.members[l] \in 1..Len(b)

LEMMA GroupsServe ==
    ASSUME EngineInv, NEW b, Request(b), NEW r
    PROVE  Serving(GroupsFor(b, r), b)
<1> DEFINE cap(x) == IF Compiled THEN WidthCap(_width_caps_for(r), x) ELSE 1
           Cut(x) == Chunks(MembersOf(b, x), cap(x))
           E == {AlignUpPow2(b[i]) : i \in DOMAIN b}
           G == GroupsFor(b, r)
<1>1. Batch(b) /\ Len(b) \in Nat /\ DOMAIN b = 1..Len(b) /\ engine \in Limits
  BY DEF Request, Batch, EngineInv, Sound
<1>2. \A x : cap(x) \in Nat \ {0}
  BY CapIs
<1>3. \A x : ListOf(MembersOf(b, x), b, x, Len(b))
  BY <1>1, MembersAre
<1>4. \A x : Covers(Cut(x), MembersOf(b, x), Len(MembersOf(b, x)))
  <2> SUFFICES ASSUME NEW x PROVE Covers(Cut(x), MembersOf(b, x), Len(MembersOf(b, x)))
    OBVIOUS
  <2>1. MembersOf(b, x) \in Seq(1..Len(b)) /\ cap(x) \in Nat \ {0}
    BY <1>2, <1>3 DEF ListOf
  <2> HIDE DEF cap
  <2> QED
    BY <2>1, ChunksCover
<1>5. G = UNION {{[extent |-> x, members |-> m] : m \in Cut(x)} : x \in E}
  BY DEF GroupsFor
<1> HIDE DEF cap, Cut, G
<1>6. ASSUME NEW i \in 1..Len(b) PROVE AlignUpPow2(b[i]) \in Nat /\ b[i] <= AlignUpPow2(b[i])
  <2>1. b[i] \in Nat \ {0} /\ b[i] <= engine.max_model_len
    BY <1>1 DEF Request, Batch
  <2>2. engine.max_model_len \in 1..(Stick * 2^MaxDoublings) /\ Stick * 2^MaxDoublings \in Nat
    BY <1>1, SticksAre DEF Limits
  <2> DEFINE top == Stick * 2^MaxDoublings
  <2> HIDE DEF top
  <2>3. b[i] \in 1..top
    BY <2>1, <2>2 DEF top
  <2> QED
    BY <2>3, RoundsUp DEF top
<1>7. ASSUME NEW i \in 1..Len(b)
      PROVE  \E g \in G : g.extent \in Nat /\ b[i] <= g.extent /\ \E l \in DOMAIN g.members : g.members[l] = i
  <2> DEFINE x == AlignUpPow2(b[i])  s == MembersOf(b, x)
  <2>1. s \in Seq(1..Len(b)) /\ \E t \in 1..Len(s) : s[t] = i
    BY <1>3 DEF ListOf
  <2>2. PICK t \in 1..Len(s) : s[t] = i
    BY <2>1
  <2>3. Len(s) < t + Len(s)
    BY <2>1
  <2>4. Covers(Cut(x), s, Len(s))
    BY <1>4
  <2>5. x \in E /\ x \in Nat /\ b[i] <= x
    BY <1>1, <1>6
  <2> HIDE DEF x, s
  <2>6. PICK m \in Cut(x) : \E l \in DOMAIN m : m[l] = i
    BY <2>2, <2>3, <2>4 DEF Covers
  <2> DEFINE g == [extent |-> x, members |-> m]
  <2>7. g \in G
    BY <1>5, <2>5
  <2> QED
    BY <2>5, <2>6, <2>7
<1>8. ASSUME NEW g \in G PROVE g.extent \in Nat /\ \A l \in DOMAIN g.members : g.members[l] \in 1..Len(b)
  <2>1. PICK x \in E : \E m \in Cut(x) : g = [extent |-> x, members |-> m]
    BY <1>5
  <2>2. PICK m \in Cut(x) : g = [extent |-> x, members |-> m]
    BY <2>1
  <2>3. x \in Nat
    BY <1>1, <1>6
  <2>4. \A l \in DOMAIN m : m[l] \in 1..Len(b)
    <3>1. MembersOf(b, x) \in Seq(1..Len(b)) /\ Covers(Cut(x), MembersOf(b, x), Len(MembersOf(b, x)))
      BY <1>3, <1>4 DEF ListOf
    <3> QED
      BY <3>1 DEF Covers
  <2> QED
    BY <2>2, <2>3, <2>4
<1> QED
  BY <1>7, <1>8 DEF Serving, G

(***************************************************************************)
(* A step that is under way has its layout, and the plan, the layout and   *)
(* the published mask are of one rectangle or of none.                     *)
(***************************************************************************)
Ready ==
    /\ Request(prompts) /\ input \in Inputs(prompts)
    /\ buffer_rows \in Nat \ {0} /\ Total(prompts) \in Nat /\ Total(prompts) <= buffer_rows
    /\ plan.rect = grid /\ published = grid
    /\ grid # NoGrid => Holding(grid, prompts, buffer_rows)
    /\ grid = NoGrid => Serving(plan.groups, prompts)

\* Row of a request's token in the layout of the step.
Row(i, c) == IF grid = NoGrid THEN Start(prompts, i) + c ELSE (i - 1) * grid.extent + c

\* A batch has a token, and not fewer than any of its requests.
LEMMA TotalIs ==
    ASSUME NEW b, Batch(b), Len(b) # 0
    PROVE  Total(b) \in Nat \ {0}
<1>1. 1 \in 1..Len(b) /\ b[1] \in Nat \ {0}
  BY DEF Batch
<1>2. 0 \in 0..(b[1] - 1)
  BY <1>1
<1>3. Start(b, 1) + 0 \in Nat /\ Start(b, 1) + 0 < Total(b) /\ Total(b) \in Nat
  BY <1>1, <1>2, PackedIs
<1> QED
  BY <1>3

\* A body holds the step's tokens.
LEMMA PaddedHolds ==
    ASSUME EngineInv, NEW n \in Nat \ {0}
    PROVE  PaddedRows(n) \in Nat /\ n <= PaddedRows(n)
<1> DEFINE S == {s \in engine.compile_sizes : n <= s}
<1>1. S \in SUBSET Nat
  BY DEF EngineInv, Sound, Limits
<1>2. CASE S = {}
  <2>1. PaddedRows(n) = n
    BY <1>2 DEF PaddedRows
  <2> QED
    BY <2>1
<1>3. CASE S # {}
  <2>1. PaddedRows(n) = LeastOf(S)
    BY <1>3 DEF PaddedRows
  <2>2. LeastOf(S) \in S
    <3> HIDE DEF S
    <3> QED
      BY <1>1, <1>3, LeastIs
  <2> QED
    BY <1>1, <2>1, <2>2
<1> QED
  BY <1>2, <1>3

LEMMA PlannedReady ==
    ASSUME EngineInv, NEW b \in Schedulable(engine), Planned(b)
    PROVE  Ready'
<1> DEFINE r == PaddedRows(Total(b))
           g == RectangleFor(b, r)
<1>1. Request(b)
  BY SchedulableIs
<1>2. Total(b) \in Nat \ {0}
  <2>1. Batch(b) /\ Len(b) # 0
    BY <1>1 DEF Request, Batch
  <2> QED
    BY <2>1, TotalIs
<1>3. r \in Nat \ {0} /\ Total(b) <= r
  BY <1>2, PaddedHolds
<1>4. /\ prompts' = b /\ input' \in Inputs(b) /\ UNCHANGED <<engine, tables>>
      /\ buffer_rows' = r /\ plan' = PlanFor(b, r, NoGrid, FALSE)
      /\ grid' = plan'.rect /\ published' = plan'.rect
  BY DEF Planned, GridOf, start
<1> HIDE DEF r
<1>5. plan'.rect = g /\ plan'.groups = IF g = NoGrid THEN GroupsFor(b, r) ELSE {}
  BY <1>4 DEF PlanFor
<1>6. g # NoGrid => Holding(g, b, r)
  BY <1>1, RectangleHolds
<1>7. Serving(GroupsFor(b, r), b)
  BY <1>1, GroupsServe
<1> HIDE DEF g
<1>8. Request(prompts)' /\ Inputs(prompts)' = Inputs(b)
  BY <1>1, <1>4 DEF Request, Inputs
<1>9. (grid # NoGrid => Holding(grid, prompts, buffer_rows))'
  BY <1>4, <1>5, <1>6 DEF Holding
<1>10. (grid = NoGrid => Serving(plan.groups, prompts))'
  BY <1>4, <1>5, <1>7 DEF Serving
<1> QED
  BY <1>2, <1>3, <1>4, <1>8, <1>9, <1>10 DEF Ready

\* Where a grid lays a request's token, and what it takes it to be.
GridRowOf(g, b, i, c) ==
    LET row == (i - 1) * g.extent + c IN
    /\ row \in Nat /\ row \in GridRows(g)
    /\ row \div g.extent = i - 1 /\ row % g.extent = c
    /\ IsReal(g, row) /\ SourceRow(g, row) = Start(b, i) + c

LEMMA GridRowIs ==
    ASSUME NEW g, NEW b, NEW r, Batch(b), Holding(g, b, r), NEW i \in 1..Len(b), NEW c \in 0..(b[i] - 1)
    PROVE  GridRowOf(g, b, i, c)
<1> DEFINE x == g.extent
           a == i - 1
           row == a * x + c
<1>1. x \in Nat \ {0} /\ g.width \in Nat /\ g.lens = b /\ Len(b) <= g.width /\ b[i] <= x
  BY DEF Holding
<1>2. Len(b) \in Nat /\ b[i] \in Nat
  BY DEF Batch
<1>3. a \in 0..(g.width - 1) /\ a \in Nat /\ c \in 0..(x - 1) /\ a + 1 = i
  BY <1>1, <1>2
<1> HIDE DEF a, x
<1>4. row \in 0..(g.width * x - 1)
  BY <1>1, <1>3, SumWithin
<1>5. row \div x = a /\ row % x = c
  BY <1>1, <1>3, PartsOfSum
<1>6. row \in Nat /\ row \in GridRows(g)
  <2>1. g.width * x = g.extent * g.width
    BY <1>1 DEF x
  <2> HIDE DEF row
  <2> QED
    BY <1>4, <2>1 DEF GridRows
<1> HIDE DEF row
<1>7. IsReal(g, row) /\ SourceRow(g, row) = Start(b, i) + c
  <2>1. (row \div g.extent) + 1 = i /\ row % g.extent = c
    BY <1>3, <1>5 DEF x
  <2>2. IsReal(g, row)
    BY <1>1, <1>2, <2>1 DEF IsReal
  <2>3. SourceRow(g, row) = Start(b, i) + c
    BY <1>1, <2>1 DEF SourceRow
  <2> QED
    BY <2>2, <2>3
<1>8. GridRowOf(g, b, i, c) <=>
        /\ row \in Nat /\ row \in GridRows(g) /\ row \div g.extent = i - 1 /\ row % g.extent = c
        /\ IsReal(g, row) /\ SourceRow(g, row) = Start(b, i) + c
  BY DEF GridRowOf, row, a, x
<1> QED
  BY <1>5, <1>6, <1>7, <1>8 DEF x, a

\* Rows of the step's tokens are rows of its body.
LEMMA RowWithin ==
    ASSUME Ready, NEW i \in 1..Len(prompts), NEW c \in 0..(prompts[i] - 1)
    PROVE  Row(i, c) \in 0..(buffer_rows - 1)
<1>1. Batch(prompts) /\ buffer_rows \in Nat /\ Total(prompts) \in Nat /\ Total(prompts) <= buffer_rows
  BY DEF Ready, Request
<1>2. CASE grid = NoGrid
  <2>1. Start(prompts, i) + c \in Nat /\ Start(prompts, i) + c < Total(prompts)
    BY <1>1, PackedIs
  <2> QED
    BY <1>1, <1>2, <2>1 DEF Row
<1>3. CASE grid # NoGrid
  <2>1. Holding(grid, prompts, buffer_rows)
    BY <1>3 DEF Ready
  <2>2. GridRowOf(grid, prompts, i, c)
    BY <1>1, <2>1, GridRowIs
  <2>3. Row(i, c) \in GridRows(grid)
    BY <1>3, <2>2 DEF GridRowOf, Row
  <2> QED
    BY <2>1, <2>3 DEF GridRows, Holding
<1> QED
  BY <1>2, <1>3

(***************************************************************************)
(* The layout: tokens, positions and segments of the rows.                 *)
(***************************************************************************)
\* Each row of a request is the request's: its token, at its position, with its segment.
RowsLaid(h) ==
    /\ DOMAIN h = 0..(buffer_rows - 1)
    /\ \A i \in 1..Len(prompts) : \A c \in 0..(prompts[i] - 1) : h[Row(i, c)] = OwnRow(i, c)

\* The mask of a step with images marks their rows; a step said to have no text has none.
ImagesKnown(m) ==
    /\ \A i \in 1..Len(prompts) : \A c \in 0..(prompts[i] - 1) : Row(i, c) \in m.rows <=> i \in input.images
    /\ ~m.text => \A i \in 1..Len(prompts) : i \in input.images

LaidTokens ==
    IF grid # NoGrid THEN expand_body_to_grid(prompts, grid)
    ELSE [p \in 0..(buffer_rows - 1) |-> PackedToken(prompts, p)]

LaidPositions ==
    IF grid # NoGrid THEN ExpandPositions(prompts, grid) ELSE OffsetPacked(prompts, buffer_rows)

LaidBuffer ==
    set_spyre_token_type_ids(IF input.typed THEN StepTypes(prompts, grid) ELSE <<>>, buffer_rows)

LEMMA GridIs ==
    ASSUME Ready, grid # NoGrid
    PROVE  Holding(grid, prompts, buffer_rows) /\ Batch(prompts) /\ GridRows(grid) = 0..(buffer_rows - 1)
  BY DEF Ready, Request, Holding, GridRows

LEMMA TokensAre ==
    ASSUME Ready
    PROVE  /\ DOMAIN LaidTokens = 0..(buffer_rows - 1)
           /\ \A i \in 1..Len(prompts) : \A c \in 0..(prompts[i] - 1) : LaidTokens[Row(i, c)] = Token(i, c)
<1>1. Batch(prompts)
  BY DEF Ready, Request
<1>2. CASE grid = NoGrid
  <2>1. LaidTokens = [p \in 0..(buffer_rows - 1) |-> PackedToken(prompts, p)]
    BY <1>2 DEF LaidTokens
  <2>2. ASSUME NEW i \in 1..Len(prompts), NEW c \in 0..(prompts[i] - 1)
        PROVE  LaidTokens[Row(i, c)] = Token(i, c)
    <3>1. Row(i, c) \in 0..(buffer_rows - 1)
      BY RowWithin
    <3>2. PackedToken(prompts, Row(i, c)) = Token(i, c)
      BY <1>1, <1>2, PackedIs DEF Row
    <3> QED
      BY <2>1, <3>1, <3>2
  <2> QED
    BY <2>1, <2>2
<1>3. CASE grid # NoGrid
  <2>1. Holding(grid, prompts, buffer_rows) /\ GridRows(grid) = 0..(buffer_rows - 1)
    BY <1>3, GridIs
  <2>2. DOMAIN LaidTokens = GridRows(grid)
    BY <1>3 DEF LaidTokens, expand_body_to_grid, Expand
  <2>3. ASSUME NEW r \in GridRows(grid), IsReal(grid, r)
        PROVE  LaidTokens[r] = PackedToken(prompts, SourceRow(grid, r))
    BY <1>3, <2>3 DEF LaidTokens, expand_body_to_grid, Expand, encoder_grid_source_rows
  <2>4. ASSUME NEW i \in 1..Len(prompts), NEW c \in 0..(prompts[i] - 1)
        PROVE  LaidTokens[Row(i, c)] = Token(i, c)
    <3>0. GridRowOf(grid, prompts, i, c) /\ Row(i, c) = (i - 1) * grid.extent + c
      BY <1>1, <1>3, <2>1, GridRowIs DEF Row
    <3>1. Row(i, c) \in GridRows(grid) /\ IsReal(grid, Row(i, c)) /\ SourceRow(grid, Row(i, c)) = Start(prompts, i) + c
      BY <3>0 DEF GridRowOf
    <3>2. PackedToken(prompts, Start(prompts, i) + c) = Token(i, c)
      BY <1>1, PackedIs
    <3> QED
      BY <2>3, <3>1, <3>2
  <2> QED
    BY <2>1, <2>2, <2>4
<1> QED
  BY <1>2, <1>3

\* A step's segments are its tokens' own; a step without any is of one segment, whatever the
\* step before left in the buffer.
LEMMA SegmentsAre ==
    ASSUME Ready, NEW i \in 1..Len(prompts), NEW c \in 0..(prompts[i] - 1)
    PROVE  spyre_token_type_ids_for(LaidBuffer, buffer_rows)[Row(i, c)] = IF input.typed THEN Token(i, c) ELSE Pad
<1> DEFINE row == Row(i, c)
           types == StepTypes(prompts, grid)
           cleared == [p \in 0..(buffer_rows - 1) |-> Pad]
<1>1. Batch(prompts) /\ buffer_rows \in Nat \ {0} /\ Total(prompts) \in Nat \ {0} /\ Total(prompts) <= buffer_rows
  <2>1. Batch(prompts) /\ Len(prompts) # 0
    BY DEF Ready, Request, Batch
  <2> QED
    BY <2>1, TotalIs DEF Ready
<1>2. row \in 0..(buffer_rows - 1)
  BY RowWithin
<1>3. DOMAIN <<>> = {} /\ 0 \in 0..(buffer_rows - 1)
  BY <1>1
<1>4. CASE ~input.typed
  <2>1. LaidBuffer = set_spyre_token_type_ids(<<>>, buffer_rows)
    BY <1>4 DEF LaidBuffer
  <2>2. LaidBuffer = <<>> \/ LaidBuffer = cleared
    BY <2>1 DEF set_spyre_token_type_ids
  <2>3. spyre_token_type_ids_for(LaidBuffer, buffer_rows) = cleared
    BY <1>3, <2>2 DEF spyre_token_type_ids_for
  <2> HIDE DEF row
  <2>4. cleared[row] = Pad
    BY <1>2
  <2> QED
    BY <1>4, <2>3, <2>4 DEF row
<1>5. CASE input.typed
  <2>1. row \in DOMAIN types /\ types[row] = Token(i, c)
    <3>1. CASE grid = NoGrid
      <4>1. Start(prompts, i) + c \in Nat /\ Start(prompts, i) + c < Total(prompts) /\ row = Start(prompts, i) + c
            /\ PackedToken(prompts, Start(prompts, i) + c) = Token(i, c)
        BY <1>1, <3>1, PackedIs DEF Row
      <4>2. types = [p \in 0..(Total(prompts) - 1) |-> PackedToken(prompts, p)]
        BY <3>1 DEF StepTypes
      <4> HIDE DEF types, row
      <4>3. row \in 0..(Total(prompts) - 1)
        BY <1>1, <4>1
      <4> QED
        BY <4>1, <4>2, <4>3
    <3>2. CASE grid # NoGrid
      <4>1. Holding(grid, prompts, buffer_rows)
        BY <3>2, GridIs
      <4>0. GridRowOf(grid, prompts, i, c) /\ row = (i - 1) * grid.extent + c
        BY <1>1, <3>2, <4>1, GridRowIs DEF Row
      <4>2. row \in GridRows(grid) /\ IsReal(grid, row) /\ SourceRow(grid, row) = Start(prompts, i) + c
        BY <4>0 DEF GridRowOf
      <4>3. PackedToken(prompts, Start(prompts, i) + c) = Token(i, c)
        BY <1>1, PackedIs
      <4>4. types = [r \in GridRows(grid) |-> IF IsReal(grid, r) THEN PackedToken(prompts, SourceRow(grid, r)) ELSE Pad]
        BY <3>2 DEF StepTypes, expand_packed_token_types
      <4> HIDE DEF types, row
      <4> QED
        BY <4>2, <4>3, <4>4
    <3> QED
      BY <3>1, <3>2
  <2> HIDE DEF types, row
  <2>2. types # <<>>
    BY <1>3, <2>1
  <2>3. LaidBuffer = [p \in 0..(buffer_rows - 1) |-> IF p \in DOMAIN types THEN types[p] ELSE Pad]
    BY <1>5, <2>2 DEF LaidBuffer, types, set_spyre_token_type_ids
  <2>4. spyre_token_type_ids_for(LaidBuffer, buffer_rows) = LaidBuffer
    BY <2>3 DEF spyre_token_type_ids_for
  <2>5. LaidBuffer[row] = Token(i, c)
    BY <1>2, <2>1, <2>3
  <2> QED
    BY <1>5, <2>4, <2>5 DEF row
<1> QED
  BY <1>4, <1>5

\* Every row of a packed batch is a place of one of its requests.
LEMMA PlaceOf ==
    ASSUME NEW b, Batch(b), NEW p \in Nat, p < Total(b)
    PROVE  \E i \in 1..Len(b) : \E c \in 0..(b[i] - 1) : p = Start(b, i) + c
<1>1. RunsOn(b) /\ Len(b) \in Nat /\ \A k \in 1..Len(b) : b[k] \in Nat
  BY StartsAre DEF Batch
<1> DEFINE Past == {j \in 1..Len(b) + 1 : p < Start(b, j)}
<1>2. Len(b) + 1 \in Past /\ Past \in SUBSET Nat
  BY <1>1 DEF Total
<1>3. PICK j \in Past : \A k \in Past : j <= k
  <2> HIDE DEF Past
  <2> QED
    BY <1>2, LeastExists
<1>4. j \in 1..Len(b) + 1 /\ p < Start(b, j) /\ j # 1
  BY <1>1, <1>3 DEF RunsOn
<1> DEFINE i == j - 1
<1>5. i \in 1..Len(b) /\ i + 1 = j /\ i \in 1..Len(b) + 1 /\ ~(j <= i)
  BY <1>1, <1>4
<1>6. ~(p < Start(b, i))
  BY <1>3, <1>5
<1> HIDE DEF i
<1>7. Start(b, i) \in Nat /\ b[i] \in Nat /\ Start(b, j) = Start(b, i) + b[i]
  <2>1. Start(b, i + 1) = Start(b, i) + b[i]
    BY <1>1, <1>5 DEF RunsOn
  <2> QED
    BY <1>1, <1>5, <2>1 DEF RunsOn
<1> DEFINE c == p - Start(b, i)
<1>8. c \in 0..(b[i] - 1) /\ p = Start(b, i) + c
  BY <1>4, <1>6, <1>7
<1> QED
  BY <1>5, <1>8

\* A real row of a grid is the place of its column in the request of its lane.
LEMMA RealRowIs ==
    ASSUME Ready, grid # NoGrid, NEW r \in GridRows(grid)
    PROVE  /\ r % grid.extent \in 0..(grid.extent - 1)
           /\ IsReal(grid, r) => PackedToken(prompts, SourceRow(grid, r)).pos = r % grid.extent
<1>1. Holding(grid, prompts, buffer_rows) /\ Batch(prompts)
  BY GridIs
<1>2. grid.extent \in Nat \ {0} /\ grid.width \in Nat /\ grid.lens = prompts /\ r \in Nat
  BY <1>1 DEF Holding, GridRows
<1>3. r \div grid.extent \in Nat /\ r % grid.extent \in 0..(grid.extent - 1)
  BY <1>2, Parts
<1> DEFINE i == (r \div grid.extent) + 1
           c == r % grid.extent
<1>4. ASSUME IsReal(grid, r) PROVE PackedToken(prompts, SourceRow(grid, r)).pos = c
  <2>1. i <= Len(prompts) /\ c < prompts[i] /\ SourceRow(grid, r) = Start(prompts, i) + c
    BY <1>2, <1>4 DEF IsReal, SourceRow
  <2>2. Len(prompts) \in Nat /\ \A k \in 1..Len(prompts) : prompts[k] \in Nat
    BY <1>1 DEF Batch
  <2>3. i \in 1..Len(prompts) /\ c \in Nat
    BY <1>3, <2>1, <2>2
  <2> HIDE DEF i, c
  <2>4. c \in 0..(prompts[i] - 1)
    BY <2>1, <2>2, <2>3
  <2>5. PackedToken(prompts, SourceRow(grid, r)) = Token(i, c)
    BY <1>1, <2>1, <2>3, <2>4, PackedIs
  <2> QED
    BY <2>5 DEF Token
<1> QED
  BY <1>3, <1>4

LEMMA PositionsAre ==
    ASSUME EngineInv, Ready
    PROVE  /\ DOMAIN LaidPositions = 0..(buffer_rows - 1)
           /\ \A i \in 1..Len(prompts) : \A c \in 0..(prompts[i] - 1) :
                LaidPositions[Row(i, c)] = c + roberta_position_delta
           /\ engine.positions - Offset \in Extents =>
                \A r \in 0..(buffer_rows - 1) : LaidPositions[r] < engine.positions
<1>1. Batch(prompts) /\ buffer_rows \in Nat /\ Total(prompts) \in Nat /\ Total(prompts) <= buffer_rows
  BY DEF Ready, Request
<1>2. /\ engine.positions \in Nat /\ Offset \in Nat /\ engine.max_model_len \in 1..(Stick * 2^MaxDoublings)
      /\ PositionsFit(engine)
  BY UsersAssumption DEF EngineInv, Sound, Limits
<1> DEFINE delta == roberta_position_delta
<1>3. delta \in Nat
  BY <1>2 DEF roberta_position_delta
<1>4. ASSUME engine.positions - Offset \in Extents
      PROVE  /\ engine.max_model_len <= engine.positions - Offset /\ delta = Offset
             /\ AlignUpPow2(engine.max_model_len) <= engine.positions - Offset
             /\ engine.positions - Offset \in Nat \ {0}
  <2>1. engine.positions - Offset \in Nat \ {0} /\ engine.max_model_len <= engine.positions - Offset
    BY <1>2, <1>4, SticksAre DEF PositionsFit
  <2>2. engine.positions # 0
    BY <1>2, <2>1
  <2>3. AlignUpPow2(engine.max_model_len) <= engine.positions - Offset
    BY <1>2, <1>4, <2>1, RoundsUp
  <2> QED
    BY <2>1, <2>2, <2>3 DEF roberta_position_delta
<1> HIDE DEF delta
<1>5. CASE grid = NoGrid
  <2>1. LaidPositions = [p \in 0..(buffer_rows - 1) |-> PackedToken(prompts, p).pos + delta]
    BY <1>5 DEF LaidPositions, OffsetPacked, offset_host_positions, delta
  <2>2. ASSUME NEW i \in 1..Len(prompts), NEW c \in 0..(prompts[i] - 1)
        PROVE  LaidPositions[Row(i, c)] = c + delta
    <3>1. Row(i, c) \in 0..(buffer_rows - 1)
      BY RowWithin
    <3>2. PackedToken(prompts, Row(i, c)) = Token(i, c)
      BY <1>1, <1>5, PackedIs DEF Row
    <3> QED
      BY <2>1, <3>1, <3>2 DEF Token
  <2>3. ASSUME engine.positions - Offset \in Extents, NEW r \in 0..(buffer_rows - 1)
        PROVE  LaidPositions[r] < engine.positions
    <3>1. PackedToken(prompts, r).pos \in 0..(engine.max_model_len - 1)
      <4>1. CASE r >= Total(prompts)
        <5>1. PackedToken(prompts, r).pos = 0
          BY <4>1 DEF PackedToken, Pad, Token
        <5> QED
          BY <1>2, <5>1
      <4>2. CASE ~(r >= Total(prompts))
        <5>1. PICK i \in 1..Len(prompts) : \E c \in 0..(prompts[i] - 1) : r = Start(prompts, i) + c
          BY <1>1, <4>2, PlaceOf
        <5>2. PICK c \in 0..(prompts[i] - 1) : r = Start(prompts, i) + c
          BY <5>1
        <5>3. PackedToken(prompts, r) = Token(i, c)
          BY <1>1, <5>2, PackedIs
        <5>4. prompts[i] \in Nat /\ prompts[i] <= engine.max_model_len
          BY DEF Ready, Request, Batch
        <5>5. c \in 0..(engine.max_model_len - 1)
          BY <1>2, <5>4
        <5> QED
          BY <5>3, <5>5 DEF Token
      <4> QED
        BY <4>1, <4>2
    <3>2. LaidPositions[r] = PackedToken(prompts, r).pos + delta
      BY <2>1
    <3> QED
      BY <1>2, <1>4, <2>3, <3>1, <3>2
  <2> QED
    BY <2>1, <2>2, <2>3 DEF delta
<1>6. CASE grid # NoGrid
  <2>1. Holding(grid, prompts, buffer_rows) /\ GridRows(grid) = 0..(buffer_rows - 1)
    BY <1>6, GridIs
  <2>2. DOMAIN LaidPositions = GridRows(grid)
    BY <1>6 DEF LaidPositions, ExpandPositions
  <2>3. ASSUME NEW r \in GridRows(grid)
        PROVE  LaidPositions[r] = delta + (r % grid.extent) /\ r % grid.extent \in 0..(grid.extent - 1)
    <3>1. LaidPositions[r] = delta + (IF IsReal(grid, r) THEN PackedToken(prompts, SourceRow(grid, r)).pos
                                      ELSE r % grid.extent)
      BY <1>6 DEF LaidPositions, ExpandPositions, delta
    <3> DEFINE c == r % grid.extent
    <3>2. c \in 0..(grid.extent - 1) /\ (IsReal(grid, r) => PackedToken(prompts, SourceRow(grid, r)).pos = c)
      BY <1>6, RealRowIs
    <3>3. LaidPositions[r] = delta + (IF IsReal(grid, r) THEN PackedToken(prompts, SourceRow(grid, r)).pos ELSE c)
      BY <3>1
    <3> HIDE DEF c
    <3>4. LaidPositions[r] = delta + c
      BY <3>2, <3>3
    <3> QED
      BY <3>2, <3>4 DEF c
  <2>4. ASSUME NEW i \in 1..Len(prompts), NEW c \in 0..(prompts[i] - 1)
        PROVE  LaidPositions[Row(i, c)] = c + delta
    <3>1. GridRowOf(grid, prompts, i, c) /\ Row(i, c) = (i - 1) * grid.extent + c
      BY <1>1, <1>6, <2>1, GridRowIs DEF Row
    <3>2. Row(i, c) \in GridRows(grid) /\ Row(i, c) % grid.extent = c
      BY <3>1 DEF GridRowOf
    <3>3. LaidPositions[Row(i, c)] = delta + (Row(i, c) % grid.extent)
      BY <2>3, <3>2
    <3>4. LaidPositions[Row(i, c)] = delta + c
      BY <3>2, <3>3
    <3> QED
      BY <1>3, <3>4
  <2>5. ASSUME engine.positions - Offset \in Extents, NEW r \in 0..(buffer_rows - 1)
        PROVE  LaidPositions[r] < engine.positions
    <3>1. LaidPositions[r] = delta + (r % grid.extent) /\ r % grid.extent \in 0..(grid.extent - 1)
      BY <2>1, <2>3
    <3>2. grid.extent \in Nat /\ grid.extent <= AlignUpPow2(engine.max_model_len)
      BY <2>1 DEF Holding
    <3>3. AlignUpPow2(engine.max_model_len) \in Nat
      BY <1>2, RoundsUp
    <3> QED
      BY <1>2, <1>4, <2>5, <3>1, <3>2, <3>3
  <2> QED
    BY <2>1, <2>2, <2>4, <2>5 DEF delta
<1> QED
  BY <1>5, <1>6

\* The mask of a step with images follows its rows into the layout.
LEMMA MaskIs ==
    ASSUME Ready
    PROVE  ImagesKnown(spyre_align_token_mask(embed_input_ids(prompts, input.images, buffer_rows), prompts, grid))
<1> DEFINE m == embed_input_ids(prompts, input.images, buffer_rows)
           a == spyre_align_token_mask(m, prompts, grid)
           marked == {p \in 0..(Total(prompts) - 1) : PackedToken(prompts, p).req \in input.images}
<1>1. /\ Batch(prompts) /\ buffer_rows \in Nat /\ Total(prompts) \in Nat /\ Total(prompts) <= buffer_rows
      /\ \A i \in 1..Len(prompts) : prompts[i] \in Nat \ {0}
  BY DEF Ready, Request, Batch
<1>2. CASE input.images = {}
  <2>1. m = NoMask
    BY <1>2 DEF embed_input_ids
  <2>2. a = NoMask
    BY <2>1 DEF spyre_align_token_mask, NoMask
  <2> QED
    BY <1>2, <2>2 DEF ImagesKnown, NoMask
<1>3. CASE input.images # {}
  <2>1. m = [masked |-> TRUE, rows |-> marked, text |-> marked # 0..(buffer_rows - 1)]
    BY <1>3 DEF embed_input_ids
  <2> HIDE DEF m
  <2>2. /\ a.text <=> marked # 0..(buffer_rows - 1) /\ marked # 0..(Total(prompts) - 1)
        /\ a.rows = IF grid = NoGrid THEN marked
                    ELSE {r \in encoder_dense_row_indices(grid) : SourceRow(grid, r) \in marked}
    <3> HIDE DEF marked
    <3> QED
      BY <2>1 DEF spyre_align_token_mask
  <2>3. ASSUME NEW i \in 1..Len(prompts), NEW c \in 0..(prompts[i] - 1)
        PROVE  /\ Start(prompts, i) + c \in 0..(Total(prompts) - 1) /\ Start(prompts, i) + c \in 0..(buffer_rows - 1)
               /\ Start(prompts, i) + c \in marked <=> i \in input.images
    <3>1. /\ Start(prompts, i) + c \in Nat /\ Start(prompts, i) + c < Total(prompts)
          /\ PackedToken(prompts, Start(prompts, i) + c) = Token(i, c)
      BY <1>1, PackedIs
    <3>2. Start(prompts, i) + c \in 0..(Total(prompts) - 1) /\ Start(prompts, i) + c \in 0..(buffer_rows - 1)
      BY <1>1, <3>1
    <3> QED
      BY <3>1, <3>2 DEF Token
  <2> HIDE DEF marked, a
  <2>4. ASSUME NEW i \in 1..Len(prompts), NEW c \in 0..(prompts[i] - 1)
        PROVE  Row(i, c) \in a.rows <=> i \in input.images
    <3>1. CASE grid = NoGrid
      BY <2>2, <2>3, <3>1 DEF Row
    <3>2. CASE grid # NoGrid
      <4>1. Holding(grid, prompts, buffer_rows)
        BY <3>2, GridIs
      <4>2. GridRowOf(grid, prompts, i, c) /\ Row(i, c) = (i - 1) * grid.extent + c
        BY <1>1, <3>2, <4>1, GridRowIs DEF Row
      <4>3. Row(i, c) \in encoder_dense_row_indices(grid) /\ SourceRow(grid, Row(i, c)) = Start(prompts, i) + c
        BY <4>2 DEF GridRowOf, encoder_dense_row_indices
      <4> QED
        BY <2>2, <2>3, <3>2, <4>3
    <3> QED
      BY <3>1, <3>2
  <2>5. ASSUME ~a.text, NEW i \in 1..Len(prompts) PROVE i \in input.images
    <3>1. 0 \in 0..(prompts[i] - 1)
      BY <1>1
    <3>2. Start(prompts, i) + 0 \in marked
      BY <2>2, <2>3, <2>5, <3>1
    <3> QED
      BY <2>3, <3>1, <3>2
  <2> QED
    BY <2>4, <2>5 DEF ImagesKnown, a, m
<1> QED
  BY <1>2, <1>3

LEMMA LaidOutIs ==
    ASSUME EngineInv, Ready, LaidOut
    PROVE  RowsLaid(hidden)' /\ ImagesKnown(mm)' /\ PositionsInTable'
<1>1. /\ UNCHANGED <<engine, prompts, input, buffer_rows, plan, grid>>
      /\ hidden' = InputRows(LaidTokens, LaidPositions, spyre_token_type_ids_for(LaidBuffer, buffer_rows))
      /\ mm' = spyre_align_token_mask(embed_input_ids(prompts, input.images, buffer_rows), prompts, grid)
  BY Zenon DEF LaidOut, LaidTokens, LaidPositions, LaidBuffer, start
<1> DEFINE types == spyre_token_type_ids_for(LaidBuffer, buffer_rows)
<1>2. DOMAIN LaidTokens = 0..(buffer_rows - 1)
  BY TokensAre
<1>3. \A r \in 0..(buffer_rows - 1) : hidden'[r] = [tok |-> LaidTokens[r], pos |-> LaidPositions[r], seg |-> types[r]]
  BY <1>1, <1>2 DEF InputRows
<1>4. DOMAIN hidden' = 0..(buffer_rows - 1)
  BY <1>1, <1>2 DEF InputRows
<1>5. ASSUME NEW i \in 1..Len(prompts), NEW c \in 0..(prompts[i] - 1)
      PROVE  hidden'[Row(i, c)] = OwnRow(i, c)
  <2>1. Row(i, c) \in 0..(buffer_rows - 1)
    BY RowWithin
  <2>2. LaidTokens[Row(i, c)] = Token(i, c)
    BY TokensAre
  <2>3. LaidPositions[Row(i, c)] = c + roberta_position_delta
    BY PositionsAre
  <2>4. types[Row(i, c)] = IF input.typed THEN Token(i, c) ELSE Pad
    BY SegmentsAre
  <2> HIDE DEF types
  <2> QED
    BY <1>3, <2>1, <2>2, <2>3, <2>4 DEF OwnRow
<1>6. RowsLaid(hidden')
  BY <1>4, <1>5 DEF RowsLaid
<1>7. RowsLaid(hidden)'
  BY <1>1, <1>6 DEF RowsLaid, Row, OwnRow, roberta_position_delta
<1>8. ImagesKnown(mm')
  BY <1>1, MaskIs
<1>9. ImagesKnown(mm)'
  BY <1>1, <1>8 DEF ImagesKnown, Row
<1>10. PositionsInTable'
  <2>1. engine'.positions - Offset \in Extents => \A r \in 0..(buffer_rows - 1) : LaidPositions[r] < engine'.positions
    BY <1>1, PositionsAre
  <2>2. ASSUME NEW r \in 0..(buffer_rows - 1) PROVE hidden'[r].pos = LaidPositions[r]
    <3> DEFINE t == LaidTokens[r]  q == LaidPositions[r]  s == types[r]
    <3>1. hidden'[r] = [tok |-> t, pos |-> q, seg |-> s]
      BY <1>3
    <3> HIDE DEF t, q, s
    <3>2. hidden'[r].pos = q
      BY <3>1
    <3> QED
      BY <3>2 DEF q
  <2> QED
    BY <1>4, <2>1, <2>2 DEF PositionsInTable
<1> QED
  BY <1>7, <1>9, <1>10

(***************************************************************************)
(* Attention: a row of a request attends the request's own rows.           *)
(***************************************************************************)
\* Each row of a request holds what the model owes it.
RowsAttended(h) ==
    /\ DOMAIN h = 0..(buffer_rows - 1)
    /\ \A i \in 1..Len(prompts) : \A c \in 0..(prompts[i] - 1) : h[Row(i, c)] = Own(i, c)

\* What a row of text attends.
OwnKeys(i, c) == {OwnRow(i, d) : d \in 0..(IF Causal THEN c ELSE prompts[i] - 1)}

RowsOfText(h) ==
    /\ DOMAIN h = 0..(buffer_rows - 1)
    /\ \A i \in 1..Len(prompts) : \A c \in 0..(prompts[i] - 1) :
          h[Row(i, c)] = {Value(OwnRow(i, c), OwnKeys(i, c))}

LEMMA AttendedIs ==
    ASSUME NEW n \in Nat, NEW c \in 0..(n - 1), NEW p \in Nat, c <= p, p # c => c = n - 1
    PROVE  Attended(n, p) = 0..(IF Causal THEN c ELSE n - 1)
  BY DEF Attended

LEMMA CellIs ==
    ASSUME Ready, RowsLaid(hidden), NEW i \in 1..Len(prompts), NEW c \in 0..(prompts[i] - 1)
    PROVE  Cell(hidden, Row(i, c)) = OwnRow(i, c)
  BY RowWithin DEF Cell, RowsLaid

LEMMA RectIs ==
    ASSUME Ready, RowsLaid(hidden), grid # NoGrid
    PROVE  RowsOfText(RectAttention(hidden, grid))
<1> DEFINE h == RectAttention(hidden, grid)
<1>1. Holding(grid, prompts, buffer_rows) /\ Batch(prompts)
  BY GridIs
<1>2. DOMAIN h = DOMAIN hidden /\ DOMAIN hidden = 0..(buffer_rows - 1)
  BY DEF RectAttention, RowsLaid
<1>3. ASSUME NEW i \in 1..Len(prompts), NEW c \in 0..(prompts[i] - 1)
      PROVE  h[Row(i, c)] = {Value(OwnRow(i, c), OwnKeys(i, c))}
  <2> DEFINE row == Row(i, c)
             lane == i - 1
             n == prompts[i]
             last == IF Causal THEN c ELSE prompts[i] - 1
  <2>1. GridRowOf(grid, prompts, i, c) /\ row = (i - 1) * grid.extent + c
    BY <1>1, <1>3, GridRowIs DEF Row
  <2>2. row \in DOMAIN hidden /\ row \div grid.extent = lane /\ row % grid.extent = c
    BY <1>2, <2>1, RowWithin DEF GridRowOf
  <2>3. n \in Nat /\ c \in Nat /\ lane < Len(grid.lens) /\ grid.lens[lane + 1] = n /\ Len(prompts) \in Nat
    <3>1. grid.lens = prompts /\ Len(prompts) \in Nat /\ n \in Nat
      BY <1>1 DEF Holding, Batch
    <3>2. lane < Len(prompts) /\ lane + 1 = i
      BY <3>1
    <3> QED
      BY <3>1, <3>2
  <2>4. hidden[row] = OwnRow(i, c)
    BY DEF RowsLaid
  <2> HIDE DEF row
  <2> DEFINE K(l, col, len) == {Value(hidden[row], {Cell(hidden, l * grid.extent + d) : d \in Attended(len, col)})}
  <2>5. h[row] = K(row \div grid.extent, row % grid.extent,
                   IF row \div grid.extent < Len(grid.lens) THEN grid.lens[(row \div grid.extent) + 1] ELSE 1)
    BY <2>2 DEF RectAttention
  <2>6. h[row] = {Value(OwnRow(i, c), {Cell(hidden, lane * grid.extent + d) : d \in Attended(n, c)})}
    <3>1. K(lane, c, n) = {Value(OwnRow(i, c), {Cell(hidden, lane * grid.extent + d) : d \in Attended(n, c)})}
      BY <2>4
    <3> HIDE DEF h, lane, n, K
    <3>2. h[row] = K(lane, c, n)
      BY <2>2, <2>3, <2>5
    <3> QED
      BY <3>1, <3>2
  <2>7. Attended(n, c) = 0..last
    BY <2>3, AttendedIs
  <2>8. last \in Nat /\ last <= n - 1
    BY <2>3
  <2>9. ASSUME NEW d \in 0..last PROVE Cell(hidden, lane * grid.extent + d) = OwnRow(i, d)
    <3>1. d \in 0..(n - 1)
      BY <2>3, <2>8
    <3>2. Row(i, d) = lane * grid.extent + d
      BY <1>3 DEF Row
    <3>3. Cell(hidden, Row(i, d)) = OwnRow(i, d)
      BY <3>1, CellIs
    <3> QED
      BY <3>2, <3>3
  <2> DEFINE lies(d) == Cell(hidden, lane * grid.extent + d)
  <2>10. {lies(d) : d \in Attended(n, c)} = OwnKeys(i, c)
    <3>1. OwnKeys(i, c) = {OwnRow(i, d) : d \in 0..last}
      BY DEF OwnKeys
    <3>2. \A d \in 0..last : lies(d) = OwnRow(i, d)
      BY <2>9
    <3> HIDE DEF lies, last
    <3> QED
      BY <2>7, <3>1, <3>2
  <2> QED
    BY <2>6, <2>10 DEF row
<1> QED
  BY <1>2, <1>3 DEF RowsOfText

\* A row of a packed batch is the place of one request.
LEMMA OnePlace ==
    ASSUME NEW b, Batch(b), NEW i \in 1..Len(b), NEW c \in 0..(b[i] - 1),
           NEW j \in 1..Len(b), NEW d \in 0..(b[j] - 1), Start(b, i) + c = Start(b, j) + d
    PROVE  i = j /\ c = d
<1>1. PackedToken(b, Start(b, i) + c) = Token(i, c)
  BY PackedIs
<1>2. PackedToken(b, Start(b, j) + d) = Token(j, d)
  BY PackedIs
<1>3. Token(i, c) = Token(j, d)
  BY <1>1, <1>2
<1>4. Token(i, c).req = i /\ Token(i, c).pos = c /\ Token(j, d).req = j /\ Token(j, d).pos = d
  BY DEF Token
<1> QED
  BY <1>3, <1>4

\* A place past the end of a request is its last.
LEMMA RowTableIs ==
    ASSUME NEW b, Batch(b), NEW i \in 1..Len(b), NEW p \in Nat
    PROVE  \E c \in 0..(b[i] - 1) : RowTable(b, i, p) = Start(b, i) + c /\ c <= p /\ (p # c => c = b[i] - 1)
<1>1. b[i] \in Nat \ {0}
  BY DEF Batch
<1> DEFINE c == Lesser(p, b[i] - 1)
<1>2. c \in 0..(b[i] - 1) /\ c <= p /\ (p # c => c = b[i] - 1)
  BY <1>1 DEF Lesser
<1>3. RowTable(b, i, p) = Start(b, i) + c
  BY DEF RowTable
<1> HIDE DEF c
<1> QED
  BY <1>2, <1>3

\* The places the groups gather.
LanesOf(groups_) ==
    UNION {{<<i, p>> : i \in {g.members[m] : m \in DOMAIN g.members}, p \in 0..(g.extent - 1)} : g \in groups_}

LEMMA LanesAre ==
    ASSUME Ready, grid = NoGrid
    PROVE  LET lanes == LanesOf(plan.groups) IN
           /\ \A l \in lanes : l[1] \in 1..Len(prompts) /\ l[2] \in Nat
           /\ \A i \in 1..Len(prompts) : \A c \in 0..(prompts[i] - 1) : <<i, c>> \in lanes
<1> DEFINE lanes == LanesOf(plan.groups)
<1>0. lanes = UNION {{<<i, p>> : i \in {g.members[m] : m \in DOMAIN g.members}, p \in 0..(g.extent - 1)}
                     : g \in plan.groups}
  BY DEF LanesOf
<1> HIDE DEF lanes
<1>1. Serving(plan.groups, prompts) /\ Len(prompts) \in Nat /\ \A i \in 1..Len(prompts) : prompts[i] \in Nat
  BY DEF Ready, Request, Batch
<1>2. ASSUME NEW l \in lanes PROVE l[1] \in 1..Len(prompts) /\ l[2] \in Nat
  <2>1. PICK g \in plan.groups : l \in {<<i, p>> : i \in {g.members[m] : m \in DOMAIN g.members}, p \in 0..(g.extent - 1)}
    BY <1>0
  <2>2. PICK m \in DOMAIN g.members, p \in 0..(g.extent - 1) : l = <<g.members[m], p>>
    BY <2>1
  <2>3. g.extent \in Nat /\ g.members[m] \in 1..Len(prompts)
    BY <1>1 DEF Serving
  <2> QED
    BY <2>2, <2>3
<1>3. ASSUME NEW i \in 1..Len(prompts), NEW c \in 0..(prompts[i] - 1) PROVE <<i, c>> \in lanes
  <2>1. PICK g \in plan.groups : g.extent \in Nat /\ prompts[i] <= g.extent /\ \E l \in DOMAIN g.members : g.members[l] = i
    BY <1>1 DEF Serving
  <2>2. PICK m \in DOMAIN g.members : g.members[m] = i
    BY <2>1
  <2>3. c \in 0..(g.extent - 1)
    BY <1>1, <2>1
  <2>4. i \in {g.members[k] : k \in DOMAIN g.members}
    BY <2>2
  <2> QED
    BY <1>0, <2>3, <2>4
<1> QED
  BY <1>2, <1>3 DEF lanes

LEMMA GroupIs ==
    ASSUME Ready, RowsLaid(hidden), grid = NoGrid
    PROVE  RowsOfText(GroupAttention(hidden, prompts, plan.groups))
<1> DEFINE h == GroupAttention(hidden, prompts, plan.groups)
           lanes == LanesOf(plan.groups)
           value(i, p) == Value(Cell(hidden, RowTable(prompts, i, p)),
                                {Cell(hidden, RowTable(prompts, i, c)) : c \in Attended(prompts[i], p)})
<1>1. Batch(prompts) /\ \A i \in 1..Len(prompts) : prompts[i] \in Nat \ {0}
  BY DEF Ready, Request, Batch
<1>2. h = [r \in DOMAIN hidden |-> {value(l[1], l[2]) : l \in {l \in lanes : RowTable(prompts, l[1], l[2]) = r}}]
  BY DEF GroupAttention, LanesOf
<1>3. /\ \A l \in lanes : l[1] \in 1..Len(prompts) /\ l[2] \in Nat
      /\ \A i \in 1..Len(prompts) : \A c \in 0..(prompts[i] - 1) : <<i, c>> \in lanes
  BY LanesAre
<1> HIDE DEF lanes, h
<1>4. ASSUME NEW i \in 1..Len(prompts), NEW c \in 0..(prompts[i] - 1), NEW p \in Nat,
             RowTable(prompts, i, p) = Start(prompts, i) + c, c <= p, p # c => c = prompts[i] - 1
      PROVE  value(i, p) = Value(OwnRow(i, c), OwnKeys(i, c))
  <2> DEFINE last == IF Causal THEN c ELSE prompts[i] - 1
  <2>1. prompts[i] \in Nat /\ c \in Nat
    BY <1>1
  <2>2. Attended(prompts[i], p) = 0..last
    BY <1>4, <2>1, AttendedIs
  <2>3. last \in Nat /\ last <= prompts[i] - 1
    BY <2>1
  <2>4. ASSUME NEW d \in 0..(prompts[i] - 1) PROVE Cell(hidden, Start(prompts, i) + d) = OwnRow(i, d)
    <3>1. Cell(hidden, Row(i, d)) = OwnRow(i, d)
      BY CellIs
    <3> QED
      BY <3>1 DEF Row
  <2>5. ASSUME NEW d \in 0..last PROVE Cell(hidden, RowTable(prompts, i, d)) = OwnRow(i, d)
    <3>1. d \in Nat /\ d <= prompts[i] - 1 /\ d \in 0..(prompts[i] - 1)
      BY <2>1, <2>3
    <3>2. RowTable(prompts, i, d) = Start(prompts, i) + d
      BY <3>1 DEF RowTable, Lesser
    <3> QED
      BY <2>4, <3>1, <3>2
  <2>6. Cell(hidden, RowTable(prompts, i, p)) = OwnRow(i, c)
    BY <1>4, <2>4
  <2> DEFINE lies(d) == Cell(hidden, RowTable(prompts, i, d))
  <2>7. {lies(d) : d \in Attended(prompts[i], p)} = OwnKeys(i, c)
    <3>1. OwnKeys(i, c) = {OwnRow(i, d) : d \in 0..last}
      BY DEF OwnKeys
    <3>2. \A d \in 0..last : lies(d) = OwnRow(i, d)
      BY <2>5
    <3> HIDE DEF lies, last
    <3> QED
      BY <2>2, <3>1, <3>2
  <2> QED
    BY <2>6, <2>7
<1> HIDE DEF value
<1>5. ASSUME NEW i \in 1..Len(prompts), NEW c \in 0..(prompts[i] - 1)
      PROVE  h[Row(i, c)] = {Value(OwnRow(i, c), OwnKeys(i, c))}
  <2> DEFINE row == Start(prompts, i) + c
             own == Value(OwnRow(i, c), OwnKeys(i, c))
             L == {l \in lanes : RowTable(prompts, l[1], l[2]) = row}
  <2>1. Row(i, c) = row /\ row \in DOMAIN hidden
    <3>1. Row(i, c) \in 0..(buffer_rows - 1)
      BY RowWithin
    <3> QED
      BY <3>1 DEF Row, RowsLaid
  <2>2. h[row] = {value(l[1], l[2]) : l \in L}
    BY <1>2, <2>1
  <2>3. ASSUME NEW l \in L PROVE value(l[1], l[2]) = own
    <3> DEFINE j == l[1]  p == l[2]
    <3>1. j \in 1..Len(prompts) /\ p \in Nat /\ RowTable(prompts, j, p) = row
      BY <1>3
    <3> HIDE DEF j, p
    <3>2. PICK d \in 0..(prompts[j] - 1) :
            RowTable(prompts, j, p) = Start(prompts, j) + d /\ d <= p /\ (p # d => d = prompts[j] - 1)
      BY <1>1, <3>1, RowTableIs
    <3>3. i = j /\ c = d
      BY <1>1, <3>1, <3>2, OnePlace
    <3>4. value(i, p) = own
      BY <1>4, <3>1, <3>2, <3>3
    <3> QED
      BY <3>3, <3>4 DEF j, p
  <2>4. <<i, c>> \in L
    <3>1. c \in Nat /\ c <= prompts[i] - 1
      BY <1>1
    <3>2. RowTable(prompts, i, c) = row
      BY <3>1 DEF RowTable, Lesser
    <3> QED
      BY <1>3, <3>2
  <2> HIDE DEF L, own, row
  <2>5. h[row] = {own}
    BY <2>2, <2>3, <2>4
  <2> QED
    BY <2>1, <2>5 DEF own
<1>6. DOMAIN h = 0..(buffer_rows - 1)
  BY <1>2 DEF RowsLaid
<1> QED
  BY <1>5, <1>6 DEF RowsOfText, h

\* An image keeps its embedding, which attended nothing.
LEMMA MergedIs ==
    ASSUME Ready, RowsLaid(hidden), ImagesKnown(mm), NEW text, RowsOfText(text)
    PROVE  RowsAttended(merge_text_and_vision(text, hidden))
<1> DEFINE h == merge_text_and_vision(text, hidden)
<1>1. DOMAIN h = 0..(buffer_rows - 1) /\ DOMAIN text = 0..(buffer_rows - 1)
  BY DEF merge_text_and_vision, RowsOfText
<1>2. ASSUME NEW i \in 1..Len(prompts), NEW c \in 0..(prompts[i] - 1)
      PROVE  h[Row(i, c)] = Own(i, c)
  <2>1. Row(i, c) \in DOMAIN text
    BY <1>1, RowWithin
  <2>2. h[Row(i, c)] = IF Row(i, c) \in mm.rows THEN {Value(hidden[Row(i, c)], {})} ELSE text[Row(i, c)]
    BY <2>1 DEF merge_text_and_vision
  <2>3. Row(i, c) \in mm.rows <=> i \in input.images
    BY DEF ImagesKnown
  <2>4. hidden[Row(i, c)] = OwnRow(i, c) /\ text[Row(i, c)] = {Value(OwnRow(i, c), OwnKeys(i, c))}
    BY DEF RowsLaid, RowsOfText
  <2>5. Own(i, c) = {Value(OwnRow(i, c), IF i \in input.images THEN {} ELSE OwnKeys(i, c))}
    BY DEF Own, OwnKeys
  <2> HIDE DEF h
  <2> QED
    BY <2>2, <2>3, <2>4, <2>5
<1> QED
  BY <1>1, <1>2 DEF RowsAttended

LEMMA AttendIs ==
    ASSUME Ready, RowsLaid(hidden), ImagesKnown(mm), Attend
    PROVE  RowsAttended(hidden)'
<1>1. UNCHANGED <<engine, prompts, input, buffer_rows, grid>>
  BY DEF Attend, start
<1>2. RowsAttended(hidden')
  <2>1. CASE mm.text
    <3>1. \E text \in {IF Traced(published) THEN RectAttention(hidden, published)
                       ELSE IF plan.rect # NoGrid THEN RectAttention(hidden, plan.rect)
                       ELSE GroupAttention(hidden, prompts, plan.groups)} :
             hidden' = merge_text_and_vision(text, hidden)
      BY <2>1, Zenon DEF Attend
    <3>2. PICK text : /\ hidden' = merge_text_and_vision(text, hidden)
                      /\ text = IF Traced(published) THEN RectAttention(hidden, published)
                                ELSE IF plan.rect # NoGrid THEN RectAttention(hidden, plan.rect)
                                ELSE GroupAttention(hidden, prompts, plan.groups)
      BY <3>1, Zenon
    <3>3. plan.rect = grid /\ published = grid /\ (Traced(published) => grid # NoGrid)
      BY DEF Ready, Traced
    <3>4. text = IF grid # NoGrid THEN RectAttention(hidden, grid) ELSE GroupAttention(hidden, prompts, plan.groups)
      BY <3>2, <3>3
    <3>5. RowsOfText(text)
      BY <3>4, RectIs, GroupIs
    <3> QED
      BY <3>2, <3>5, MergedIs
  <2>2. CASE ~mm.text
    <3>1. hidden' = [r \in DOMAIN hidden |-> {Value(hidden[r], {})}]
      BY <2>2 DEF Attend
    <3>2. DOMAIN hidden = 0..(buffer_rows - 1) /\ DOMAIN hidden' = 0..(buffer_rows - 1)
      BY <3>1 DEF RowsLaid
    <3>3. ASSUME NEW i \in 1..Len(prompts), NEW c \in 0..(prompts[i] - 1)
          PROVE  hidden'[Row(i, c)] = Own(i, c)
      <4>1. Row(i, c) \in DOMAIN hidden
        BY <3>2, RowWithin
      <4>2. i \in input.images
        BY <2>2 DEF ImagesKnown
      <4>3. hidden[Row(i, c)] = OwnRow(i, c)
        BY DEF RowsLaid
      <4> QED
        BY <3>1, <4>1, <4>2, <4>3 DEF Own
    <3> QED
      BY <3>2, <3>3 DEF RowsAttended
  <2> QED
    BY <2>1, <2>2
<1>3. \A i, c : Own(i, c)' = Own(i, c) /\ Row(i, c)' = Row(i, c)
  <2>1. \A i, c : OwnRow(i, c)' = OwnRow(i, c) /\ Row(i, c)' = Row(i, c)
    BY <1>1 DEF Row, OwnRow, roberta_position_delta
  <2>2. UNCHANGED Causal
    BY <1>1 DEF Causal
  <2> HIDE DEF OwnRow
  <2> QED
    BY <1>1, <2>1, <2>2 DEF Own
<1> QED
  BY <1>1, <1>2, <1>3 DEF RowsAttended

(***************************************************************************)
(* Pooling: the rows of a request, wherever its tokens lie.                *)
(***************************************************************************)
LEMMA ListIs ==
    ASSUME NEW n \in Nat, NEW f, f = [i \in 1..n |-> f[i]]
    PROVE  Len(f) = n
<1> DEFINE S == {f[i] : i \in 1..n}
<1>1. f \in [1..n -> S]
  OBVIOUS
<1> HIDE DEF S
<1>2. f \in Seq(S)
  BY <1>1, SeqDef
<1>3. Len(f) \in Nat /\ DOMAIN f = 1..Len(f) /\ DOMAIN f = 1..n
  BY <1>1, <1>2, LenProperties
<1> QED
  BY <1>3

\* The index past the batch is padding: a request's entry is its own.
LEMMA PaddedIndexIs ==
    ASSUME NEW n \in 1..2^(MaxDoublings + 4), NEW f, f = [i \in 1..n |-> f[i]], NEW i \in 1..n
    PROVE  PaddedIndex(f)[i] = f[i]
<1>0. 2^(MaxDoublings + 4) \in Nat
  BY SticksAre, PowersOfTwo
<1>1. n \in Nat
  BY <1>0
<1>2. Len(f) = n
  BY <1>1, ListIs
<1>3. Padded(n) \in Nat /\ n <= Padded(n)
  BY CeilIs DEF Padded
<1>4. i \in 1..Padded(n) /\ Lesser(i, n) = i
  BY <1>1, <1>3 DEF Lesser
<1>5. PaddedIndex(f) = [k \in 1..Padded(n) |-> f[Lesser(k, n)]]
  BY <1>2 DEF PaddedIndex
<1> QED
  BY <1>4, <1>5

LEMMA CountIs ==
    ASSUME EngineInv, Ready
    PROVE  /\ Len(prompts) \in 1..2^(MaxDoublings + 4) /\ DOMAIN prompts = 1..Len(prompts) /\ Batch(prompts)
           /\ \A i \in 1..Len(prompts) : prompts[i] \in Nat \ {0} /\ Start(prompts, i) \in Nat
                                         /\ Start(prompts, i + 1) = Start(prompts, i) + prompts[i]
<1>1. Batch(prompts) /\ Len(prompts) \in 1..engine.max_num_seqs
  BY DEF Ready, Request
<1>2. engine.max_num_seqs \in 1..2^(MaxDoublings + 4) /\ 2^(MaxDoublings + 4) \in Nat
  BY SticksAre, PowersOfTwo DEF EngineInv, Sound, Limits
<1>3. RunsOn(prompts)
  BY <1>1, StartsAre
<1>4. Len(prompts) \in 1..2^(MaxDoublings + 4)
  <2> DEFINE top == 2^(MaxDoublings + 4)
  <2> HIDE DEF top
  <2>1. Len(prompts) \in 1..top
    BY <1>1, <1>2 DEF top
  <2> QED
    BY <2>1 DEF top
<1>5. DOMAIN prompts = 1..Len(prompts) /\ \A i \in 1..Len(prompts) : prompts[i] \in Nat \ {0}
  BY <1>1 DEF Batch
<1>6. Len(prompts) \in Nat
  BY <1>1 DEF Batch
<1> QED
  BY <1>1, <1>3, <1>4, <1>5, <1>6 DEF RunsOn

\* Back in packed order every token of a request has the request's row.
LEMMA PackedRowsAre ==
    ASSUME EngineInv, Ready, RowsAttended(hidden), NEW i \in 1..Len(prompts), NEW c \in 0..(prompts[i] - 1)
    PROVE  At(Unpadded(hidden, grid), Start(prompts, i) + c) = Own(i, c) /\ At(hidden, Row(i, c)) = Own(i, c)
<1>1. Batch(prompts) /\ Total(prompts) \in Nat /\ Total(prompts) <= buffer_rows /\ buffer_rows \in Nat
  BY DEF Ready, Request
<1>2. Row(i, c) \in DOMAIN hidden /\ hidden[Row(i, c)] = Own(i, c) /\ DOMAIN hidden = 0..(buffer_rows - 1)
  BY RowWithin DEF RowsAttended
<1>3. At(hidden, Row(i, c)) = Own(i, c)
  BY <1>2 DEF At
<1>4. CASE grid = NoGrid
  <2>1. Unpadded(hidden, grid) = hidden /\ Row(i, c) = Start(prompts, i) + c
    BY <1>4 DEF Unpadded, Row
  <2> QED
    BY <1>3, <2>1
<1>5. CASE grid # NoGrid
  <2> DEFINE p == Start(prompts, i) + c
             g == grid
             Of(q) == CHOOSE j \in DOMAIN g.lens : Start(g.lens, j) <= q /\ q < Start(g.lens, j + 1)
             Back(q) == IF q >= Total(g.lens) THEN At(hidden, 0)
                        ELSE At(hidden, (Of(q) - 1) * g.extent + q - Start(g.lens, Of(q)))
  <2>1. g.lens = prompts /\ g.extent \in Nat
    BY <1>5, GridIs DEF Holding
  <2>2. p \in Nat /\ p < Total(prompts) /\ Start(prompts, i) \in Nat
        /\ (CHOOSE j \in DOMAIN prompts : Start(prompts, j) <= p /\ p < Start(prompts, j + 1)) = i
    BY <1>1, PackedIs
  <2>3. p \in DOMAIN hidden /\ ~(p >= Total(g.lens))
    BY <1>1, <1>2, <2>1, <2>2
  <2>4. Of(p) = i
    BY <2>1, <2>2
  <2>5. Unpadded(hidden, g) = [q \in DOMAIN hidden |-> Back(q)]
    BY <1>5 DEF Unpadded
  <2>6. Back(p) = At(hidden, (i - 1) * g.extent + p - Start(prompts, i))
    <3> HIDE DEF Of, p
    <3> QED
      BY <2>1, <2>3, <2>4
  <2> DEFINE base == (i - 1) * g.extent
  <2>7. base \in Int
    BY <2>1
  <2>8. base + p - Start(prompts, i) = base + c
    <3> HIDE DEF base
    <3> QED
      BY <2>2, <2>7
  <2>9. Back(p) = At(hidden, Row(i, c))
    BY <1>5, <2>6, <2>8 DEF Row
  <2> HIDE DEF Back, p
  <2>10. At(Unpadded(hidden, g), p) = Back(p)
    BY <2>3, <2>5 DEF At
  <2> QED
    BY <1>3, <2>9, <2>10 DEF p
<1> QED
  BY <1>4, <1>5, <1>3

\* The rows of a request, in their order.
OwedCells(i) == [c \in 1..prompts[i] |-> Own(i, c - 1)]

LEMMA PackedAnswerIs ==
    ASSUME EngineInv, Ready, RowsAttended(hidden), NEW i \in 1..Len(prompts), NEW task
    PROVE  PackedAnswer(Unpadded(hidden, grid), i, task) = Owed(i, task)
<1> DEFINE h == Unpadded(hidden, grid)
           n == prompts[i]
           s == Start(prompts, i)
           all == OwedCells(i)
<1>1. n \in Nat \ {0} /\ s \in Nat /\ Start(prompts, i + 1) = s + n
      /\ Len(prompts) \in 1..2^(MaxDoublings + 4) /\ DOMAIN prompts = 1..Len(prompts)
  BY CountIs
<1>2. \A c \in 0..(n - 1) : At(h, s + c) = Own(i, c)
  BY PackedRowsAre
<1>3. engine.pool \in SeqPools
  BY DEF EngineInv, Sound, Limits
<1> HIDE DEF h, n, s
<1>4. ASSUME NEW c \in 1..n PROVE At(h, s + (c - 1)) = all[c] /\ Lesser(c, n) = c
  <2>1. c - 1 \in 0..(n - 1) /\ Lesser(c, n) = c
    BY <1>1 DEF Lesser
  <2>2. all[c] = Own(i, c - 1)
    BY DEF OwedCells, n
  <2> QED
    BY <1>2, <2>1, <2>2
<1>5. CASE task = "token_embed"
  <2> DEFINE cells == [c \in 1..n |-> At(h, s + Lesser(c, n) - 1)]
  <2>1. PackedAnswer(h, i, task) = [cells |-> cells, over |-> 1] /\ Owed(i, task) = [cells |-> all, over |-> 1]
    BY <1>5 DEF PackedAnswer, Owed, OwedCells, n, s
  <2>2. ASSUME NEW c \in 1..n PROVE cells[c] = all[c]
    <3>1. cells[c] = At(h, s + Lesser(c, n) - 1)
      OBVIOUS
    <3>2. s + Lesser(c, n) - 1 = s + (c - 1)
      BY <1>1, <1>4
    <3> QED
      BY <1>4, <3>1, <3>2
  <2>3. all = [c \in 1..n |-> all[c]]
    BY DEF OwedCells, n
  <2>4. cells = all
    BY <2>2, <2>3
  <2> QED
    BY <2>1, <2>4 DEF h
<1>6. CASE task # "token_embed" /\ engine.pool = "MEAN"
  <2> DEFINE cells == [c \in 1..n |-> At(h, s + c - 1)]
  <2>1. PackedAnswer(h, i, task) = [cells |-> cells, over |-> n] /\ Owed(i, task) = [cells |-> all, over |-> n]
    BY <1>6 DEF PackedAnswer, Owed, OwedCells, n, s
  <2>2. ASSUME NEW c \in 1..n PROVE cells[c] = all[c]
    <3>1. cells[c] = At(h, s + c - 1)
      OBVIOUS
    <3>2. s + c - 1 = s + (c - 1)
      BY <1>1
    <3> QED
      BY <1>4, <3>1, <3>2
  <2>3. all = [c \in 1..n |-> all[c]]
    BY DEF OwedCells, n
  <2>4. cells = all
    BY <2>2, <2>3
  <2> QED
    BY <2>1, <2>4 DEF h
<1>7. CASE task # "token_embed" /\ engine.pool # "MEAN"
  <2> DEFINE first == [j \in DOMAIN prompts |-> PackedRow(prompts, j, engine.pool = "LAST")]
             own == all[IF engine.pool = "CLS" THEN 1 ELSE n]
  <2>1. PackedAnswer(h, i, task) = [cells |-> <<At(h, PaddedIndex(first)[i])>>, over |-> 1]
    BY <1>7 DEF PackedAnswer
  <2>2. Owed(i, task) = [cells |-> <<own>>, over |-> 1]
    BY <1>7 DEF Owed, OwedCells, n
  <2>3. first = [j \in 1..Len(prompts) |-> first[j]] /\ first[i] = PackedRow(prompts, i, engine.pool = "LAST")
    BY <1>1
  <2> HIDE DEF first
  <2>4. PaddedIndex(first)[i] = PackedRow(prompts, i, engine.pool = "LAST")
    BY <1>1, <2>3, PaddedIndexIs
  <2>5. At(h, PackedRow(prompts, i, engine.pool = "LAST")) = own
    <3>1. CASE engine.pool = "CLS"
      <4>1. PackedRow(prompts, i, engine.pool = "LAST") = s /\ s = s + (1 - 1) /\ 1 \in 1..n
        BY <1>1, <3>1 DEF PackedRow, s
      <4> QED
        BY <1>4, <3>1, <4>1
    <3>2. CASE engine.pool # "CLS"
      <4>1. engine.pool = "LAST"
        BY <1>3, <1>7, <3>2 DEF SeqPools
      <4>2. PackedRow(prompts, i, engine.pool = "LAST") = s + (n - 1) /\ n \in 1..n
        BY <1>1, <4>1 DEF PackedRow
      <4> QED
        BY <1>4, <3>2, <4>2
    <3> QED
      BY <3>1, <3>2
  <2> QED
    BY <2>1, <2>2, <2>4, <2>5 DEF h
<1> QED
  BY <1>5, <1>6, <1>7

LEMMA DirectAnswerIs ==
    ASSUME EngineInv, Ready, RowsAttended(hidden), NEW i \in 1..Len(prompts), grid # NoGrid,
           engine.pool \in {"CLS", "MEAN"}
    PROVE  DirectAnswer(hidden, grid, i) = Owed(i, "embed")
<1> DEFINE n == prompts[i]
           base == (i - 1) * grid.extent
           all == OwedCells(i)
<1>1. n \in Nat \ {0} /\ Len(prompts) \in 1..2^(MaxDoublings + 4) /\ DOMAIN prompts = 1..Len(prompts)
  BY CountIs
<1>2. \A c \in 0..(n - 1) : At(hidden, base + c) = Own(i, c)
  BY PackedRowsAre DEF Row
<1>3. base \in Int
  BY GridIs DEF Holding
<1> HIDE DEF n
<1>4. ASSUME NEW c \in 1..n PROVE At(hidden, base + (c - 1)) = all[c]
  <2>1. c - 1 \in 0..(n - 1)
    BY <1>1
  <2>2. all[c] = Own(i, c - 1)
    BY DEF OwedCells, n
  <2> QED
    BY <1>2, <2>1, <2>2
<1>5. CASE engine.pool = "CLS"
  <2> DEFINE first == [j \in DOMAIN prompts |-> (j - 1) * grid.extent]
  <2>1. DirectAnswer(hidden, grid, i) = [cells |-> <<At(hidden, PaddedIndex(first)[i])>>, over |-> 1]
    BY <1>5 DEF DirectAnswer
  <2>2. Owed(i, "embed") = [cells |-> <<all[1]>>, over |-> 1]
    BY <1>5 DEF Owed, OwedCells
  <2>3. first = [j \in 1..Len(prompts) |-> first[j]] /\ first[i] = base
    BY <1>1
  <2> HIDE DEF first, base
  <2>4. PaddedIndex(first)[i] = base
    BY <1>1, <2>3, PaddedIndexIs
  <2>5. base = base + (1 - 1) /\ 1 \in 1..n
    BY <1>1, <1>3
  <2>6. At(hidden, base) = all[1]
    BY <1>4, <2>5
  <2> QED
    BY <2>1, <2>2, <2>4, <2>6
<1>6. CASE engine.pool = "MEAN"
  <2> DEFINE cells == [c \in 1..n |-> At(hidden, base + c - 1)]
  <2>1. DirectAnswer(hidden, grid, i) = [cells |-> cells, over |-> n] /\ Owed(i, "embed") = [cells |-> all, over |-> n]
    BY <1>6 DEF DirectAnswer, Owed, OwedCells, n
  <2>2. ASSUME NEW c \in 1..n PROVE cells[c] = all[c]
    <3>1. cells[c] = At(hidden, base + c - 1)
      OBVIOUS
    <3> HIDE DEF base
    <3>2. base + c - 1 = base + (c - 1)
      BY <1>1, <1>3
    <3> QED
      BY <1>4, <3>1, <3>2
  <2>3. all = [c \in 1..n |-> all[c]]
    BY DEF OwedCells, n
  <2>4. cells = all
    BY <2>2, <2>3
  <2> QED
    BY <2>1, <2>4
<1> QED
  BY <1>5, <1>6

AnswersRight == \A i \in DOMAIN prompts : answers[i].pooled = Owed(i, answers[i].task)

LEMMA PooledIs ==
    ASSUME EngineInv, Ready, RowsAttended(hidden), NEW tasks \in [DOMAIN prompts -> Tasks], Pooled(tasks)
    PROVE  AnswersRight'
<1> DEFINE pooled(i) == IF GridDirect(tasks, grid) THEN DirectAnswer(hidden, grid, i)
                        ELSE PackedAnswer(Unpadded(hidden, grid), i, tasks[i])
<1>1. /\ answers' = [i \in DOMAIN prompts |-> [task |-> tasks[i], pooled |-> pooled(i)]]
      /\ UNCHANGED <<engine, prompts, input, grid>>
  BY DEF Pooled, start
<1>2. DOMAIN prompts = 1..Len(prompts) /\ Len(prompts) \in 1..2^(MaxDoublings + 4)
  BY CountIs
<1>3. ASSUME NEW i \in DOMAIN prompts PROVE pooled(i) = Owed(i, tasks[i])
  <2>1. CASE GridDirect(tasks, grid)
    <3>1. grid # NoGrid /\ engine.pool \in {"CLS", "MEAN"} /\ OneTask(tasks) /\ tasks[1] = "embed"
      BY <2>1 DEF GridDirect
    <3>2. 1 \in DOMAIN tasks /\ i \in DOMAIN tasks
      <4>1. DOMAIN tasks = 1..Len(prompts) /\ 2^(MaxDoublings + 4) \in Nat
        BY <1>2, SticksAre, PowersOfTwo
      <4>2. Len(prompts) \in Nat \ {0}
        BY <1>2, <4>1
      <4> QED
        BY <1>2, <4>1, <4>2
    <3>3. tasks[i] = "embed"
      BY <3>1, <3>2 DEF OneTask
    <3>4. DirectAnswer(hidden, grid, i) = Owed(i, "embed")
      BY <1>2, <3>1, DirectAnswerIs
    <3> QED
      BY <2>1, <3>3, <3>4
  <2>2. CASE ~GridDirect(tasks, grid)
    <3>1. PackedAnswer(Unpadded(hidden, grid), i, tasks[i]) = Owed(i, tasks[i])
      BY <1>2, PackedAnswerIs
    <3> QED
      BY <2>2, <3>1
  <2> QED
    BY <2>1, <2>2
<1> HIDE DEF pooled
<1>4. \A i \in DOMAIN prompts : answers'[i].pooled = Owed(i, answers'[i].task)
  BY <1>1, <1>3
<1>5. \A i, task : Owed(i, task)' = Owed(i, task)
  <2>1. \A i, c : OwnRow(i, c)' = OwnRow(i, c)
    BY <1>1 DEF OwnRow, roberta_position_delta
  <2>2. UNCHANGED Causal
    BY <1>1 DEF Causal
  <2>3. \A i, c : Own(i, c)' = Own(i, c)
    <3> HIDE DEF OwnRow
    <3> QED
      BY <1>1, <2>1, <2>2 DEF Own
  <2> QED
    BY <1>1, <2>3 DEF Owed
<1> QED
  BY <1>1, <1>4, <1>5 DEF AnswersRight

(***************************************************************************)
(* Inductive: what each stage of a step has made of its batch.             *)
(***************************************************************************)
StepInv ==
    /\ phase # "serving" => stage = "idle"
    /\ stage # "idle" => Ready
    /\ stage = "laid" => RowsLaid(hidden) /\ ImagesKnown(mm) /\ PositionsInTable
    /\ stage = "attended" => RowsAttended(hidden)
    /\ stage = "answered" => AnswersRight

LEMMA StepStarts == PoolingInit => StepInv
  BY DEF PoolingInit, StepInv

\* Warmup builds layouts and masks, but no step is under way.
LEMMA WarmupIdles ==
    ASSUME StepInv, phase # "serving", stage' = stage
    PROVE  StepInv'
  BY DEF StepInv

LEMMA ReadyStays ==
    ASSUME Ready, UNCHANGED <<engine, prompts, input, buffer_rows, plan, grid, published>>
    PROVE  Ready'
<1>1. UNCHANGED Request(prompts)
  BY DEF Request
<1>2. UNCHANGED Inputs(prompts)
  BY DEF Inputs
<1>3. (grid # NoGrid => Holding(grid, prompts, buffer_rows))'
  BY DEF Ready, Holding
<1>4. (grid = NoGrid => Serving(plan.groups, prompts))'
  BY DEF Ready, Serving
<1> QED
  BY <1>1, <1>2, <1>3, <1>4 DEF Ready

LEMMA StepStays ==
    ASSUME StepInv, UNCHANGED pooling_vars
    PROVE  StepInv'
<1>1. UNCHANGED <<engine, phase, stage, prompts, input, buffer_rows, plan, grid, published, mm, hidden, answers>>
  BY DEF pooling_vars
<1>2. stage # "idle" => Ready'
  BY <1>1, ReadyStays DEF StepInv
<1>3. \A i, c : OwnRow(i, c)' = OwnRow(i, c) /\ Row(i, c)' = Row(i, c)
  BY <1>1 DEF OwnRow, Row, roberta_position_delta
<1>4. UNCHANGED Causal
  BY <1>1 DEF Causal
<1>5. \A i, c : Own(i, c)' = Own(i, c)
  <2> HIDE DEF OwnRow
  <2> QED
    BY <1>1, <1>3, <1>4 DEF Own
<1>6. \A i, task : Owed(i, task)' = Owed(i, task)
  BY <1>1, <1>5 DEF Owed
<1>7. UNCHANGED RowsLaid(hidden)
  BY <1>1, <1>3 DEF RowsLaid
<1>8. UNCHANGED ImagesKnown(mm)
  BY <1>1, <1>3 DEF ImagesKnown
<1>9. UNCHANGED PositionsInTable
  BY <1>1 DEF PositionsInTable
<1>10. UNCHANGED RowsAttended(hidden)
  BY <1>1, <1>3, <1>5 DEF RowsAttended
<1>11. UNCHANGED AnswersRight
  BY <1>1, <1>6 DEF AnswersRight
<1> QED
  BY <1>1, <1>2, <1>7, <1>8, <1>9, <1>10, <1>11 DEF StepInv

LEMMA StepKeeps == EngineInv /\ StepInv /\ [PoolingNext]_pooling_vars => StepInv'
<1> SUFFICES ASSUME EngineInv, StepInv, [PoolingNext]_pooling_vars PROVE StepInv'
  OBVIOUS
<1>1. CASE DummyBody \/ BodiesDone \/ WarmRectangle \/ RectanglesDone \/ WarmRagged \/ RaggedDone
  <2>1. phase # "serving" /\ stage' = stage
    BY <1>1 DEF DummyBody, BodiesDone, WarmRectangle, RectanglesDone, WarmRagged, RaggedDone, DummyRun, step
  <2> QED
    BY <2>1, WarmupIdles
<1>2. ASSUME NEW b \in Schedulable(engine), Build(b) \/ prepare_attn(b) PROVE StepInv'
  <2>1. Planned(b)
    BY <1>2 DEF Build, prepare_attn
  <2>2. Ready'
    BY <2>1, PlannedReady
  <2>3. phase' = "serving" /\ stage' = "planned"
    BY <2>1 DEF Planned, start
  <2> QED
    BY <2>2, <2>3 DEF StepInv
<1>3. CASE LayOut \/ prepare_inputs
  <2>1. LaidOut
    BY <1>3 DEF LayOut, prepare_inputs
  <2>2. /\ stage = "planned" /\ stage' = "laid"
        /\ UNCHANGED <<engine, phase, prompts, input, buffer_rows, plan, grid, published>>
    BY <2>1 DEF LaidOut, start
  <2>3. Ready /\ phase = "serving"
    BY <2>2 DEF StepInv
  <2>4. Ready'
    BY <2>2, <2>3, ReadyStays
  <2>5. RowsLaid(hidden)' /\ ImagesKnown(mm)' /\ PositionsInTable'
    BY <2>1, <2>3, LaidOutIs
  <2> QED
    BY <2>2, <2>3, <2>4, <2>5 DEF StepInv
<1>4. CASE Attend
  <2>1. /\ stage = "laid" /\ stage' = "attended"
        /\ UNCHANGED <<engine, phase, prompts, input, buffer_rows, plan, grid, published>>
    BY <1>4 DEF Attend, start
  <2>2. Ready /\ RowsLaid(hidden) /\ ImagesKnown(mm) /\ phase = "serving"
    BY <2>1 DEF StepInv
  <2>3. Ready' /\ RowsAttended(hidden)'
    BY <1>4, <2>1, <2>2, ReadyStays, AttendIs
  <2> QED
    BY <2>1, <2>2, <2>3 DEF StepInv
<1>5. ASSUME NEW tasks \in [DOMAIN prompts -> Tasks], Pool(tasks) \/ pool(tasks) PROVE StepInv'
  <2>1. Pooled(tasks)
    BY <1>5 DEF Pool, pool
  <2>2. /\ stage = "attended" /\ stage' = "answered"
        /\ UNCHANGED <<engine, phase, prompts, input, buffer_rows, plan, grid, published>>
    BY <2>1 DEF Pooled, start
  <2>3. Ready /\ RowsAttended(hidden) /\ phase = "serving"
    BY <2>2 DEF StepInv
  <2>4. Ready' /\ AnswersRight'
    BY <2>1, <2>2, <2>3, ReadyStays, PooledIs
  <2> QED
    BY <2>2, <2>3, <2>4 DEF StepInv
<1>6. CASE Finish
  <2>1. phase' = phase /\ stage' = "idle"
    BY <1>6 DEF Finish, start
  <2> QED
    BY <2>1 DEF StepInv
<1>7. CASE UNCHANGED pooling_vars
  BY <1>7, StepStays
<1> QED
  BY <1>1, <1>2, <1>3, <1>4, <1>5, <1>6, <1>7 DEF PoolingNext

\* For any batches, limits and path: every request is pooled from its own tokens, with their own
\* positions and segments, each having attended that request alone, whatever the step before it
\* left in the grid, the mask and the segment buffer.
THEOREM AnswersAreTheirOwn == PoolingSpec => []AnswersAreOwn
<1>1. StepInv => AnswersAreOwn
  BY DEF StepInv, AnswersRight, AnswersAreOwn, PositionsInTable
<1>2. PoolingInit => EngineInv /\ StepInv
  BY EngineStarts, StepStarts
<1>3. EngineInv /\ StepInv /\ [PoolingNext]_pooling_vars => (EngineInv /\ StepInv)'
  BY EngineStep, StepKeeps
<1> QED
  BY <1>1, <1>2, <1>3, PTL DEF PoolingSpec

(***************************************************************************)
(* Powers of two.                                                          *)
(***************************************************************************)
\* One more element: as many subsets with it as without.
LEMMA OneMore ==
    ASSUME NEW S, IsFiniteSet(S), NEW m, m \notin S
    PROVE  Cardinality(SUBSET (S \cup {m})) = 2 * Cardinality(SUBSET S)
<1> DEFINE A == SUBSET S  W == SUBSET (S \cup {m})  B == W \ A
           f == [T \in A |-> T \cup {m}]
<1>1. IsFiniteSet(A) /\ IsFiniteSet(W)
  BY FS_SUBSET, FS_AddElement
<1>2. IsFiniteSet(B)
  BY <1>1, FS_Subset
<1>3. Cardinality(B) = Cardinality(A)
  <2>1. ASSUME NEW T \in A PROVE T \cup {m} \in B
    <3>1. T \cup {m} \in W
      OBVIOUS
    <3>2. T \cup {m} \notin A
      <4>1. m \in T \cup {m}
        OBVIOUS
      <4> QED
        BY <4>1
    <3> HIDE DEF W, A
    <3> QED
      BY <3>1, <3>2
  <2>2. ASSUME NEW T \in A, NEW U \in A, T \cup {m} = U \cup {m} PROVE T = U
    <3>1. \A x : x \in T <=> x \in U
      <4> SUFFICES ASSUME NEW x PROVE x \in T <=> x \in U
        OBVIOUS
      <4>1. x = m => x \notin T /\ x \notin U
        OBVIOUS
      <4>2. x \in T \cup {m} <=> x \in U \cup {m}
        BY <2>2
      <4> QED
        BY <4>1, <4>2
    <3> QED
      BY <3>1
  <2>3. ASSUME NEW R \in B PROVE \E T \in A : T \cup {m} = R
    <3>0. R \in W /\ R \notin A
      <4> HIDE DEF W, A
      <4> QED
        OBVIOUS
    <3>1. PICK x \in R : x \notin S
      BY <3>0
    <3>3. \A y \in R : y \in S \/ y = m
      BY <3>0
    <3>2. x = m
      BY <3>1, <3>3
    <3>4. R \ {m} \in A /\ m \in R
      BY <3>0, <3>1, <3>2, <3>3
    <3>5. (R \ {m}) \cup {m} = R
      BY <3>4
    <3> QED
      BY <3>4, <3>5
  <2> HIDE DEF A, B
  <2>4. f \in [A -> B] /\ \A T \in A : f[T] = T \cup {m}
    BY <2>1
  <2> HIDE DEF f
  <2>5. (\A T, U \in A : f[T] = f[U] => T = U) /\ \A R \in B : \E T \in A : f[T] = R
    <3>1. ASSUME NEW T \in A, NEW U \in A, f[T] = f[U] PROVE T = U
      BY <2>2, <2>4, <3>1
    <3>2. ASSUME NEW R \in B PROVE \E T \in A : f[T] = R
      BY <2>3, <2>4
    <3> QED
      BY <3>1, <3>2
  <2>6. f \in Bijection(A, B)
    BY <2>4, <2>5 DEF Bijection, Injection, Surjection, IsInjective
  <2>7. ExistsBijection(A, B)
    BY <2>6 DEF ExistsBijection
  <2> QED
    BY <1>1, <2>7, FS_Bijection
<1>4. W = A \cup B /\ A \cap B = {}
  <2>1. A \in SUBSET W
    OBVIOUS
  <2> HIDE DEF A, W
  <2> QED
    BY <2>1
<1> HIDE DEF A, B, W
<1>5. Cardinality(A \cup B) = Cardinality(A) + Cardinality(B) - Cardinality(A \cap B)
  BY <1>1, <1>2, FS_Union
<1>6. Cardinality(A) \in Nat /\ Cardinality(A \cap B) = 0
  BY <1>1, <1>4, FS_CardinalityType, FS_EmptySet
<1>7. Cardinality(A \cup B) = 2 * Cardinality(A)
  BY <1>3, <1>5, <1>6
<1> QED
  BY <1>4, <1>7 DEF A, W

LEMMA Doubling == ASSUME NEW n \in Nat PROVE 2^(n + 1) = 2 * 2^n
<1>1. ASSUME NEW k \in Nat PROVE IsFiniteSet(1..k) /\ Cardinality(1..k) = k
  <2>1. 1 \in Int /\ k \in Int
    OBVIOUS
  <2>2. IsFiniteSet(1..k) /\ Cardinality(1..k) = IF 1 > k THEN 0 ELSE k - 1 + 1
    BY <2>1, FS_Interval, Zenon
  <2> QED
    BY <2>2
<1> DEFINE m == n + 1
<1>2. m \in Nat /\ m \notin 1..n /\ 1..m = (1..n) \cup {m}
  OBVIOUS
<1> HIDE DEF m
<1>3. Cardinality(SUBSET (1..m)) = 2^m /\ Cardinality(SUBSET (1..n)) = 2^n
  BY <1>1, <1>2, FS_SUBSET
<1> QED
  BY <1>1, <1>2, <1>3, OneMore DEF m

LEMMA PowersGrow == ASSUME NEW i \in Nat, NEW j \in Nat, i <= j PROVE 2^i <= 2^j
<1> DEFINE Bad == {d \in Nat : ~(2^i <= 2^(i + d))}
<1> SUFFICES ASSUME Bad # {} PROVE FALSE
  <2>1. j - i \in Nat /\ i + (j - i) = j
    OBVIOUS
  <2> QED
    BY <2>1
<1>1. PICK d \in Bad : \A e \in Bad : d <= e
  <2>1. Bad \in SUBSET Nat
    OBVIOUS
  <2> HIDE DEF Bad
  <2> QED
    BY <2>1, LeastExists
<1>2. d \in Nat /\ ~(2^i <= 2^(i + d)) /\ 2^i \in Nat /\ 2^(i + d) \in Nat
  BY <1>1, PowersOfTwo
<1>3. d # 0
  BY <1>2
<1> DEFINE e == d - 1
<1>4. e \in Nat /\ ~(d <= e) /\ i + d = (i + e) + 1 /\ i + e \in Nat
  BY <1>2, <1>3
<1> HIDE DEF e
<1>5. 2^i <= 2^(i + e)
  BY <1>1, <1>4
<1>6. 2^((i + e) + 1) = 2 * 2^(i + e) /\ 2^(i + e) \in Nat
  BY <1>4, Doubling, PowersOfTwo
<1> QED
  BY <1>2, <1>4, <1>5, <1>6

LEMMA PowersAdd == ASSUME NEW i \in Nat, NEW j \in Nat PROVE 2^(i + j) = 2^i * 2^j
<1> DEFINE Right(k) == 2^(i + k) = 2^i * 2^k
           Bad == {k \in Nat : ~Right(k)}
<1>1. Bad = {}
  <2> SUFFICES ASSUME Bad # {} PROVE FALSE
    OBVIOUS
  <2>1. PICK k \in Bad : \A e \in Bad : k <= e
    <3>1. Bad \in SUBSET Nat
      OBVIOUS
    <3> HIDE DEF Bad
    <3> QED
      BY <3>1, LeastExists
  <2>2. k \in Nat /\ ~Right(k)
    BY <2>1
  <2>3. k # 0
    <3>1. i + 0 = i /\ 2^0 = 1 /\ 2^i \in Nat
      BY PowersOfTwo
    <3>2. 2^i * 1 = 2^i
      BY <3>1
    <3>3. Right(0)
      BY <3>1, <3>2
    <3> HIDE DEF Right
    <3> QED
      BY <2>2, <3>3
  <2> DEFINE e == k - 1  p == 2^e  q == 2^i
  <2>4. e \in Nat /\ ~(k <= e) /\ k = e + 1 /\ i + k = (i + e) + 1 /\ i + e \in Nat
    BY <2>2, <2>3
  <2> HIDE DEF e
  <2>5. Right(e)
    <3>1. ~Right(e) => e \in Bad
      BY <2>4
    <3> HIDE DEF Right, Bad
    <3> QED
      BY <2>1, <2>4, <3>1
  <2>6. 2^k = 2 * p /\ 2^(i + k) = 2 * 2^(i + e) /\ p \in Nat /\ q \in Nat
    BY <2>4, Doubling, PowersOfTwo
  <2>7. 2^(i + e) = q * p
    BY <2>5
  <2> HIDE DEF p, q
  <2>8. 2 * (q * p) = q * (2 * p)
    BY <2>6
  <2>9. 2^(i + k) = q * 2^k
    BY <2>6, <2>7, <2>8
  <2>10. Right(k)
    BY <2>9 DEF q
  <2> HIDE DEF Right
  <2> QED
    BY <2>2, <2>10
<1>2. ~Right(j) => j \in Bad
  OBVIOUS
<1>3. Right(j)
  BY <1>1, <1>2
<1> QED
  BY <1>3

\* Sticks, extents and rows of the smaller bodies are powers of two.
Powers == {2^k : k \in Nat}

LEMMA ExtentsArePowers == Stick \in Powers /\ Stick >= 2 /\ Extents \in SUBSET Powers
<1>1. PICK s \in 1..Stick : Stick = 2^s
  BY TablesAssumption
<1>2. s \in Nat /\ s >= 1 /\ Stick \in Nat
  BY SticksAre
<1>3. Stick >= 2
  <2>1. s - 1 \in Nat /\ (s - 1) + 1 = s
    BY <1>2
  <2>2. 2^s = 2 * 2^(s - 1) /\ 2^(s - 1) \in Nat \ {0}
    BY <2>1, Doubling, PowersOfTwo
  <2> QED
    BY <1>1, <2>2
<1>5. ASSUME NEW k \in 0..MaxDoublings PROVE Stick * 2^k = 2^(s + k) /\ s + k \in Nat
  <2>1. k \in Nat /\ s + k \in Nat
    BY <1>2, SticksAre
  <2> QED
    BY <1>1, <1>2, <2>1, PowersAdd
<1>6. Extents \in SUBSET Powers
  BY <1>5 DEF Extents, Powers
<1> QED
  BY <1>1, <1>2, <1>3, <1>6 DEF Powers

\* The padded count is less than twice the count, and within any power of two that holds it.
LEMMA CeilWithin ==
    ASSUME NEW n \in 1..2^(MaxDoublings + 4)
    PROVE  /\ CeilPow2(n) \in {2^k : k \in 0..MaxDoublings + 4} /\ CeilPow2(n) \in Nat /\ n <= CeilPow2(n)
           /\ CeilPow2(n) < 2 * n
           /\ \A r \in Powers : n <= r => CeilPow2(n) <= r
<1> DEFINE M == MaxDoublings + 4
           P == {2^k : k \in 0..M}
           Fit == {p \in P : n <= p}
           c == CeilPow2(n)
<1>1. M \in Nat /\ \A k \in 0..M : 2^k \in Nat
  BY SticksAre, PowersOfTwo
<1>2. n \in Nat /\ n >= 1 /\ 2^M \in Fit
  BY <1>1
<1>3. Fit \in SUBSET Nat /\ Fit # {}
  BY <1>1, <1>2
<1>4. c = LeastOf(Fit)
  BY DEF CeilPow2
<1>5. c \in Fit /\ \A x \in Fit : c <= x
  <2> HIDE DEF Fit, c
  <2> QED
    BY <1>3, <1>4, LeastIs
<1> HIDE DEF c, M
<1>6. PICK i \in 0..M : c = 2^i
  BY <1>5
<1>7. i \in Nat /\ c \in Nat /\ n <= c
  BY <1>1, <1>5, <1>6
<1>8. c < 2 * n
  <2>1. CASE i = 0
    BY <1>2, <1>6, <2>1, PowersOfTwo
  <2>2. CASE i # 0
    <3> DEFINE j == i - 1
    <3>1. j \in Nat /\ j + 1 = i /\ j \in 0..M
      BY <1>1, <1>6, <2>2
    <3> HIDE DEF j
    <3>2. c = 2 * 2^j /\ 2^j \in Nat \ {0}
      BY <1>6, <3>1, Doubling, PowersOfTwo
    <3>3. ~(n <= 2^j)
      <4> SUFFICES ASSUME n <= 2^j PROVE FALSE
        OBVIOUS
      <4>1. 2^j \in Fit
        BY <3>1
      <4>2. c <= 2^j
        BY <1>5, <4>1
      <4> QED
        BY <3>2, <4>2
    <3> QED
      BY <1>2, <3>2, <3>3
  <2> QED
    BY <2>1, <2>2
<1>9. ASSUME NEW r \in Powers, n <= r PROVE c <= r
  <2>1. PICK j \in Nat : r = 2^j
    BY DEF Powers
  <2>2. CASE j \in 0..M
    <3>1. r \in Fit
      BY <1>9, <2>1, <2>2
    <3> QED
      BY <1>5, <3>1
  <2>3. CASE j \notin 0..M
    <3>1. i <= j
      BY <1>1, <1>6, <2>1, <2>3
    <3> QED
      BY <1>6, <1>7, <2>1, <3>1, PowersGrow
  <2> QED
    BY <2>2, <2>3
<1> QED
  BY <1>5, <1>7, <1>8, <1>9 DEF c, M

\* Of two powers of two the lesser divides the greater.
LEMMA PowersDivide ==
    ASSUME NEW p \in Powers, NEW q \in Powers, p <= q
    PROVE  \E m \in Nat \ {0} : q = m * p
<1>1. PICK i \in Nat, j \in Nat : p = 2^i /\ q = 2^j
  BY DEF Powers
<1>2. p \in Nat \ {0} /\ q \in Nat \ {0}
  BY <1>1, PowersOfTwo
<1>3. CASE i <= j
  <2>1. j - i \in Nat /\ (j - i) + i = j
    BY <1>1, <1>3
  <2>2. 2^j = 2^(j - i) * 2^i /\ 2^(j - i) \in Nat \ {0}
    BY <1>1, <2>1, PowersAdd, PowersOfTwo
  <2> QED
    BY <1>1, <2>2
<1>4. CASE ~(i <= j)
  <2>1. q <= p
    BY <1>1, <1>4, PowersGrow
  <2>2. q = 1 * p
    BY <1>2, <2>1
  <2> QED
    BY <2>2
<1> QED
  BY <1>3, <1>4
(***************************************************************************)
(* An engine's requests have a stick of the largest body each: the         *)
(* platform's second pass caps them on the rows the first one settled.     *)
(***************************************************************************)
\* Rows of a budget: whole longest prompts, as many as tokens and requests allow.
RowsOf(most, longest, tokens, seqs) ==
    /\ most \in Nat \ {0} /\ longest <= most /\ most <= seqs * longest
    /\ most = longest \/ most <= tokens
    /\ \E m \in Nat \ {0} : most = m * longest
    /\ \A m \in 1..seqs : m * longest <= tokens => m * longest <= most

LEMMA RowsAre ==
    ASSUME NEW n \in 1..(Stick * 2^MaxDoublings), NEW tokens \in Nat, NEW seqs \in Nat \ {0}
    PROVE  RowsOf(BudgetRows(n, tokens, seqs), AlignUpPow2(n), tokens, seqs)
<1> DEFINE longest == AlignUpPow2(n)
           all == seqs * longest
           fit == Lesser(tokens, all)
           q == fit \div longest
           whole == q * longest
           most == BudgetRows(n, tokens, seqs)
<1>1. longest \in Nat \ {0}
  BY RoundsUp
<1> HIDE DEF longest
<1>2. all \in Nat /\ longest <= all
  <2>1. 0 * longest + longest <= seqs * longest /\ 0 * longest = 0
    BY <1>1, NextMultiple
  <2> QED
    BY <1>1, <2>1
<1>3. Greater(1, seqs) = seqs
  BY DEF Greater
<1>4. most = Greater(longest, whole)
  BY <1>3 DEF BudgetRows, longest
<1>5. fit \in Nat /\ fit <= tokens /\ fit <= all /\ (fit = tokens \/ fit = all)
  BY <1>2 DEF Lesser
<1> HIDE DEF fit
<1>6. q \in Nat /\ whole \in Nat /\ whole <= fit /\ fit < whole + longest
  <2>1. q \in Nat /\ fit % longest \in 0..(longest - 1) /\ fit = whole + (fit % longest)
    BY <1>1, <1>5, Parts
  <2>2. whole \in Nat
    BY <1>1, <2>1
  <2> HIDE DEF q, whole
  <2> QED
    BY <1>1, <2>1, <2>2
<1> HIDE DEF q, most
<1>7. ASSUME NEW m \in 1..seqs, m * longest <= tokens PROVE m * longest <= whole
  <2>1. m * longest \in Nat /\ m * longest <= all
    <3>1. CASE m = seqs
      BY <1>1, <3>1
    <3>2. CASE m # seqs
      <4>1. m * longest + longest <= seqs * longest /\ m * longest \in Nat
        BY <1>1, <3>2, NextMultiple
      <4> QED
        BY <1>1, <4>1
    <3> QED
      BY <3>1, <3>2
  <2>2. m * longest <= fit
    BY <1>5, <1>7, <2>1
  <2>3. ~(q < m)
    <3> SUFFICES ASSUME q < m PROVE FALSE
      OBVIOUS
    <3>1. q * longest + longest <= m * longest
      BY <1>1, <1>6, NextMultiple
    <3> HIDE DEF whole, all
    <3>2. whole + longest <= m * longest
      BY <3>1 DEF whole
    <3> QED
      BY <1>1, <1>5, <1>6, <2>1, <2>2, <3>2
  <2>4. CASE m = q
    BY <1>1, <2>4, <2>1
  <2>5. CASE m # q
    <3>1. m * longest + longest <= q * longest
      BY <1>1, <1>6, <2>3, <2>5, NextMultiple
    <3> HIDE DEF all
    <3> QED
      BY <1>1, <1>6, <2>1, <3>1
  <2> QED
    BY <2>4, <2>5
<1>8. \E m \in Nat \ {0} : most = m * longest
  <2>1. CASE most = longest
    <3>1. most = 1 * longest
      BY <1>1, <2>1
    <3> QED
      BY <3>1
  <2>2. CASE most # longest
    <3>1. most = whole /\ longest < whole
      BY <1>1, <1>4, <1>6, <2>2 DEF Greater
    <3>2. q # 0
      BY <1>1, <3>1
    <3> QED
      BY <1>6, <3>1, <3>2
  <2> QED
    BY <2>1, <2>2
<1> HIDE DEF whole, all
<1>9. /\ most \in Nat \ {0} /\ longest <= most /\ whole <= most /\ most <= all
      /\ most = longest \/ most <= tokens
  BY <1>1, <1>2, <1>4, <1>5, <1>6 DEF Greater
<1>10. ASSUME NEW m \in 1..seqs, m * longest <= tokens PROVE m * longest <= most
  <2>1. m * longest \in Nat
    BY <1>1
  <2> DEFINE p == m * longest
  <2>2. p \in Nat /\ p <= whole
    BY <1>7, <1>10, <2>1
  <2> HIDE DEF p
  <2>3. p <= most
    BY <1>6, <1>9, <2>2
  <2> QED
    BY <2>3 DEF p
<1> QED
  BY <1>8, <1>9, <1>10 DEF RowsOf, all, longest, most

\* The largest body, and what the others are.
TopOf(e) == GreatestOf(Bodies(e))

LEMMA TopIs ==
    ASSUME NEW e \in Limits
    PROVE  LET longest == AlignUpPow2(e.max_model_len)
               most == BudgetRows(e.max_model_len, e.max_num_batched_tokens, e.max_num_seqs) IN
           /\ TopOf(e) \in Nat \ {0} /\ longest <= TopOf(e) /\ TopOf(e) <= e.max_num_seqs * longest
           /\ \E m \in Nat \ {0} : TopOf(e) = m * longest
           /\ \A x \in Nat : x <= most /\ x <= FastBody => x <= TopOf(e)
           /\ \A r \in Bodies(e) : r = TopOf(e) \/ (r \in Extents /\ r < TopOf(e))
<1> DEFINE longest == AlignUpPow2(e.max_model_len)
           seqs == e.max_num_seqs
           all == seqs * longest
           most == BudgetRows(e.max_model_len, e.max_num_batched_tokens, e.max_num_seqs)
           full == IF most > longest THEN Greater(longest, Lesser(most, FastBody)) ELSE most
           Between == {x \in Extents : FastBody <= x /\ x < full}
           top == TopOf(e)
<1>1. /\ e.max_model_len \in 1..(Stick * 2^MaxDoublings) /\ e.max_num_batched_tokens \in Nat
      /\ seqs \in Nat \ {0}
  <2>1. e.max_num_seqs \in 1..2^(MaxDoublings + 4) /\ 2^(MaxDoublings + 4) \in Nat
    BY SticksAre, PowersOfTwo DEF Limits
  <2> QED
    BY <2>1 DEF Limits
<1>2. longest \in Nat \ {0} /\ longest \in Extents
  BY <1>1, RoundsUp
<1>3. RowsOf(most, longest, e.max_num_batched_tokens, seqs)
  BY <1>1, RowsAre
<1>4. FastBody \in Extents /\ FastBody \in Nat \ {0}
  <2>1. FastBody \in Extents
    BY TablesAssumption DEF Extents
  <2> QED
    BY <2>1, SticksAre
<1>5. Bodies(e) = IF full <= FastBody THEN {full} ELSE Between \cup {full}
  BY DEF Bodies
<1>6. all \in Nat
  BY <1>1, <1>2
<1> HIDE DEF longest, most, all, seqs
<1>7. most \in Nat \ {0} /\ longest <= most /\ most <= all
  BY <1>3 DEF RowsOf, all
<1>8. /\ full \in Nat \ {0} /\ longest <= full /\ full <= most
      /\ full = longest \/ full = most \/ (full = FastBody /\ longest < FastBody)
      /\ \A x \in Nat : x <= most /\ x <= FastBody => x <= full
  BY <1>2, <1>4, <1>7 DEF Greater, Lesser
<1> HIDE DEF full
<1>9. \A r \in Bodies(e) : r = full \/ (r \in Extents /\ r < full)
  BY <1>5
<1>10. full \in Bodies(e)
  BY <1>5
<1>11. top = full
  <2>1. ASSUME NEW r \in Bodies(e) PROVE r \in Nat /\ r <= full
    <3>1. r = full \/ (r \in Nat /\ r < full)
      BY <1>9, SticksAre
    <3> QED
      BY <1>8, <3>1
  <2>2. top \in Bodies(e) /\ \A r \in Bodies(e) : r <= top
    <3>1. Bodies(e) \in SUBSET Nat /\ Bodies(e) # {}
      BY <1>10, <2>1
    <3> QED
      BY <1>8, <2>1, <3>1, GreatestIs DEF TopOf
  <2> HIDE DEF top
  <2>3. top \in Nat /\ top <= full /\ full <= top
    BY <1>10, <2>1, <2>2
  <2> QED
    BY <1>8, <2>3
<1>12. \E m \in Nat \ {0} : full = m * longest
  <2>1. CASE full = longest
    <3>1. full = 1 * longest
      BY <1>2, <2>1
    <3> QED
      BY <3>1
  <2>2. CASE full = most
    BY <1>3, <2>2 DEF RowsOf
  <2>3. CASE full = FastBody /\ longest < FastBody
    <3>1. longest \in Powers /\ FastBody \in Powers /\ longest <= FastBody
      BY <1>2, <1>4, <2>3, ExtentsArePowers
    <3> QED
      BY <2>3, <3>1, PowersDivide
  <2> QED
    BY <1>8, <2>1, <2>2, <2>3
<1> HIDE DEF top
<1>13. top \in Nat \ {0} /\ longest <= top /\ top <= all
  BY <1>6, <1>7, <1>8, <1>11
<1> QED
  BY <1>8, <1>9, <1>11, <1>12, <1>13 DEF top, longest, most, all, seqs

Roomy(e) == e.max_num_seqs * Stick <= TopOf(e)

LEMMA SecondPassIsRoomy ==
    ASSUME NEW e, Sound(e), KeptToSizes(e), e.compile_sizes # Unset
    PROVE  Roomy(KeepsToSizes(ShapeDefaults(e)))
<1> DEFINE longest == AlignUpPow2(e.max_model_len)
           tokens == Lesser(e.max_num_batched_tokens, FastBody)
           full == BudgetRows(e.max_model_len, tokens, e.max_num_seqs)
           share == full \div Stick
           seqs == Lesser(e.max_num_seqs, Greater(1, share))
           d == ShapeDefaults(e)
           k == KeepsToSizes(d)
           most == BudgetRows(e.max_model_len, k.max_num_batched_tokens, seqs)
<1>1. /\ e \in Limits /\ e.max_model_len \in 1..(Stick * 2^MaxDoublings)
      /\ e.max_num_batched_tokens \in Nat /\ e.max_num_seqs \in Nat \ {0}
  <2>1. e \in Limits
    BY DEF Sound
  <2>2. e.max_num_seqs \in 1..2^(MaxDoublings + 4) /\ 2^(MaxDoublings + 4) \in Nat
    BY <2>1, SticksAre, PowersOfTwo DEF Limits
  <2> QED
    BY <2>1, <2>2 DEF Limits
<1>2. FastBody \in Nat \ {0}
  <2>1. FastBody \in Extents
    BY TablesAssumption DEF Extents
  <2> QED
    BY <2>1, SticksAre
<1>3. tokens \in Nat /\ tokens <= e.max_num_batched_tokens /\ tokens <= FastBody
  BY <1>1, <1>2 DEF Lesser
<1> HIDE DEF tokens
<1>4. RowsOf(full, longest, tokens, e.max_num_seqs)
  BY <1>1, <1>3, RowsAre
<1>5. d = [e EXCEPT !.max_num_batched_tokens = full, !.max_num_seqs = seqs]
  BY DEF ShapeDefaults, tokens
<1> HIDE DEF full
<1>6. full \in Nat \ {0} /\ Stick \in Nat \ {0} /\ longest \in Nat \ {0} /\ Stick <= longest
  <2>1. longest \in Extents /\ longest \in Nat \ {0}
    BY <1>1, RoundsUp
  <2>2. \A x \in Extents : Stick <= x
    <3> SUFFICES ASSUME NEW i \in 0..MaxDoublings PROVE Stick <= Stick * 2^i
      BY DEF Extents
    <3>1. Stick \in Nat \ {0} /\ 2^i \in Nat \ {0}
      BY SticksAre, PowersOfTwo
    <3> DEFINE p == 2^i
    <3> HIDE DEF p
    <3>2. Stick * p = Stick * (p - 1) + Stick /\ Stick * (p - 1) \in Nat
      BY <3>1 DEF p
    <3>3. Stick <= Stick * p
      BY <3>1, <3>2
    <3> QED
      BY <3>3 DEF p
  <2> QED
    BY <1>4, <2>1, <2>2, SticksAre DEF RowsOf
<1> HIDE DEF longest
<1>7. share \in Nat /\ share * Stick <= full /\ full < share * Stick + Stick
  <2>1. share \in Nat /\ full % Stick \in 0..(Stick - 1) /\ full = share * Stick + (full % Stick)
    BY <1>6, Parts
  <2> HIDE DEF share
  <2> QED
    BY <1>6, <2>1
<1> HIDE DEF share
<1>8. seqs \in Nat \ {0} /\ seqs <= e.max_num_seqs /\ (seqs = e.max_num_seqs \/ seqs = 1 \/ seqs = share)
      /\ (seqs = 1 \/ seqs <= share) /\ (seqs = e.max_num_seqs \/ share <= seqs)
  BY <1>1, <1>7 DEF Lesser, Greater
<1> HIDE DEF seqs
<1>9. /\ d.compile_sizes = e.compile_sizes /\ d.max_num_batched_tokens = full /\ d.max_num_seqs = seqs
      /\ d.max_model_len = e.max_model_len
  BY <1>1, <1>5 DEF Limits
<1>10. Sound(k)
  BY DefaultsKeepSound, SizesKeepSound
<1>11. /\ k.max_model_len = e.max_model_len /\ k.max_num_seqs = seqs
       /\ k.max_num_batched_tokens \in {full, e.max_num_batched_tokens}
  <2>1. d \in Limits
    BY DefaultsKeepSound DEF Sound
  <2> HIDE DEF d
  <2>2. CASE d.compile_sizes = {}
    BY <1>9, <2>2 DEF KeepsToSizes
  <2>3. CASE d.compile_sizes # {}
    <3>1. k = [d EXCEPT !.max_num_batched_tokens = GreatestOf(d.compile_sizes)]
      BY <2>3 DEF KeepsToSizes
    <3>2. GreatestOf(d.compile_sizes) = e.max_num_batched_tokens
      BY <1>9, <2>3 DEF KeptToSizes
    <3> HIDE DEF k
    <3> QED
      BY <1>9, <2>1, <3>1, <3>2 DEF Limits
  <2> QED
    BY <2>2, <2>3
<1> HIDE DEF k, d
<1>12. k.max_num_batched_tokens \in Nat
  BY <1>1, <1>6, <1>11
\* The rows of the first pass are found again.
<1>13. full <= TopOf(k)
  <2>1. longest <= TopOf(k) /\ TopOf(k) \in Nat /\ \A x \in Nat : x <= most /\ x <= FastBody => x <= TopOf(k)
    <3>1. k \in Limits
      BY <1>10 DEF Sound
    <3> QED
      BY <1>11, <3>1, TopIs DEF longest
  <2>2. RowsOf(most, longest, k.max_num_batched_tokens, seqs)
    BY <1>1, <1>8, <1>12, RowsAre DEF longest
  <2> HIDE DEF most
  <2>3. CASE full = longest
    BY <2>1, <2>3
  <2>4. CASE full # longest
    <3>1. full <= tokens /\ full <= FastBody /\ full <= k.max_num_batched_tokens
      <4>1. full <= tokens
        BY <1>4, <2>4 DEF RowsOf
      <4> QED
        BY <1>1, <1>2, <1>3, <1>6, <1>11, <4>1
    <3>2. PICK m \in Nat \ {0} : full = m * longest
      BY <1>4 DEF RowsOf
    <3>3. m <= seqs
      <4>1. CASE seqs = e.max_num_seqs
        <5>1. ~(seqs < m)
          <6> SUFFICES ASSUME seqs < m PROVE FALSE
            OBVIOUS
          <6>1. seqs * longest + longest <= m * longest /\ seqs * longest \in Nat
            BY <1>6, <1>8, NextMultiple
          <6>2. m * longest <= seqs * longest
            BY <1>4, <3>2, <4>1 DEF RowsOf
          <6> QED
            BY <1>6, <6>1, <6>2
        <5> QED
          BY <1>8, <5>1
      <4>2. CASE seqs # e.max_num_seqs
        <5>1. share <= seqs
          BY <1>1, <1>7, <1>8, <4>2
        <5>2. ~(share < m)
          <6> SUFFICES ASSUME share < m PROVE FALSE
            OBVIOUS
          <6>1. share * Stick + Stick <= m * Stick /\ m * Stick \in Nat
            BY <1>6, <1>7, NextMultiple
          <6>2. m * Stick <= m * longest
            <7>1. longest = Stick + (longest - Stick) /\ longest - Stick \in Nat
              BY <1>6
            <7> DEFINE x == longest - Stick
            <7>2. m * (Stick + x) = m * Stick + m * x /\ m * x \in Nat
              BY <1>6, <7>1
            <7> QED
              BY <6>1, <7>1, <7>2
          <6> QED
            BY <1>6, <1>7, <3>2, <6>1, <6>2
        <5> QED
          BY <1>7, <1>8, <5>1, <5>2
      <4> QED
        BY <4>1, <4>2
    <3>4. full <= most
      BY <1>8, <2>2, <3>1, <3>2, <3>3 DEF RowsOf
    <3> QED
      BY <1>6, <2>1, <3>1, <3>4
  <2> QED
    BY <2>3, <2>4
<1>14. seqs * Stick <= full
  <2>1. CASE seqs = 1
    <3>1. longest <= full
      BY <1>4 DEF RowsOf
    <3> QED
      BY <1>6, <2>1, <3>1
  <2>2. CASE seqs <= share
    <3>1. seqs * Stick <= share * Stick
      <4>1. CASE seqs = share
        BY <1>6, <1>7, <4>1
      <4>2. CASE seqs # share
        <5>1. seqs * Stick + Stick <= share * Stick /\ seqs * Stick \in Nat
          BY <1>6, <1>7, <1>8, <2>2, <4>2, NextMultiple
        <5> QED
          BY <1>6, <1>7, <5>1
      <4> QED
        BY <4>1, <4>2
    <3> QED
      BY <1>6, <1>7, <1>8, <3>1
  <2> QED
    BY <1>8, <2>1, <2>2
<1>15. seqs * Stick \in Nat /\ TopOf(k) \in Nat
  <2>1. k \in Limits
    BY <1>10 DEF Sound
  <2> QED
    BY <1>6, <1>8, <2>1, TopIs
<1>16. seqs * Stick <= TopOf(k)
  BY <1>6, <1>13, <1>14, <1>15
<1> QED
  BY <1>11, <1>16 DEF Roomy, k, d

\* Every size a first pass leaves is the user's, or a body of some rows.
LEMMA SettledIsRoomy == ASSUME NEW user, Sound(user), user.mode # "eager" PROVE Roomy(Engine(user))
<1> DEFINE first == KeepsToSizes(ShapeDefaults(user))
<1>1. Sound(first) /\ KeptToSizes(first)
  BY DefaultsKeepSound, SizesKeepSound
<1>2. first.compile_sizes # Unset
  <2> DEFINE d == ShapeDefaults(user)
  <2>1. d \in Limits
    BY DefaultsKeepSound DEF Sound
  <2>2. d.compile_sizes # Unset
    <3>1. user \in Limits
      BY DEF Sound
    <3>2. CASE user.compile_sizes = Unset
      <4>1. PICK l : d = [l EXCEPT !.compile_sizes = Bodies(l)] /\ l \in Limits
        <5> DEFINE tokens == Lesser(user.max_num_batched_tokens, FastBody)
                   full == BudgetRows(user.max_model_len, tokens, user.max_num_seqs)
                   l == [user EXCEPT !.max_num_batched_tokens = full,
                                     !.max_num_seqs = Lesser(@, Greater(1, full \div Stick))]
        <5>1. d = [l EXCEPT !.compile_sizes = Bodies(l)]
          BY <3>2 DEF ShapeDefaults
        <5> HIDE DEF d, full
        <5>2. d.max_num_batched_tokens = l.max_num_batched_tokens /\ d.max_num_seqs = l.max_num_seqs
          BY <3>1, <5>1 DEF Limits
        <5>3. l \in Limits
          BY <2>1, <3>1, <5>2 DEF Limits
        <5> QED
          BY <5>1, <5>3
      <4>2. d.compile_sizes = Bodies(l)
        <5> HIDE DEF d
        <5> QED
          BY <4>1 DEF Limits
      <4>3. Bodies(l) \in SUBSET (Nat \ {0}) /\ Bodies(l) # {}
        BY <4>1, BodiesAre
      <4> HIDE DEF d
      <4> QED
        BY <4>2, <4>3 DEF Unset
    <3>3. CASE user.compile_sizes # Unset
      <4>1. d.compile_sizes = user.compile_sizes
        BY <3>1, <3>3 DEF ShapeDefaults, Limits
      <4> QED
        BY <3>3, <4>1
    <3> QED
      BY <3>2, <3>3
  <2> HIDE DEF d
  <2>3. KeepsToSizes(d).compile_sizes = d.compile_sizes
    BY <2>1 DEF KeepsToSizes, Limits
  <2> QED
    BY <2>2, <2>3 DEF d
<1>3. Engine(user) = KeepsToSizes(ShapeDefaults(first))
  BY DEF Engine
<1> HIDE DEF first
<1> QED
  BY <1>1, <1>2, <1>3, SecondPassIsRoomy
(***************************************************************************)
(* Groups of a step are declared ones, where their body declares any.      *)
(***************************************************************************)
\* A chunk has a power of two of members, or as many as the cap.
Cut(m, cap) == \E k \in Nat \ {0} : Len(m) = Lesser(FloorPow2(k), cap)

LEMMA ChunksAreCut ==
    ASSUME NEW T, NEW members \in Seq(T), NEW cap \in Nat \ {0}
    PROVE  \A m \in Chunks(members, cap) : Cut(m, cap)
<1> DEFINE n == Len(members)
           f == CHOOSE f : CutRule(members, cap, n, f)
           Size(k) == Lesser(FloorPow2(k), cap)
<1>1. n \in Nat
  OBVIOUS
<1>2. CutRule(members, cap, n, f)
  <2>1. \E h : CutRule(members, cap, n, h)
    BY <1>1, CutExists
  <2> QED
    BY <2>1, Zenon
<1>3. Chunks(members, cap) = f[n]
  BY Zenon DEF Chunks, CutRule, ChunkAt
<1> HIDE DEF f
<1>4. \A k \in 0..n : f[k] = IF k = 0 THEN {} ELSE {ChunkAt(members, cap, k)} \cup f[k - Size(k)]
  BY <1>2 DEF CutRule
<1>5. ASSUME NEW k \in 1..n
      PROVE  Size(k) \in 1..k /\ Cut(ChunkAt(members, cap, k), cap)
  <2> DEFINE m == ChunkAt(members, cap, k)  from == n - k + 1
  <2>0. k \in Nat \ {0}
    BY <1>1
  <2>1. Size(k) \in 1..k /\ k \in Nat
    BY <2>0, SizeIs
  <2>2. m = SubSeq(members, from, from + Size(k) - 1)
    BY DEF ChunkAt
  <2> HIDE DEF Size, m
  <2> DEFINE s == Size(k)
  <2>3. s \in 1..k
    BY <2>1
  <2>4. m = SubSeq(members, from, from + s - 1)
    BY <2>2
  <2> HIDE DEF s
  <2>5. from \in 1..n /\ from + s - 1 \in 1..n /\ from <= from + s - 1
    BY <1>1, <2>3
  <2>6. Len(m) = s
    BY <2>3, <2>4, <2>5
  <2>7. Len(m) = Size(k)
    BY <2>6 DEF s
  <2> QED
    BY <2>0, <2>1, <2>7 DEF Cut, Size, m
<1> HIDE DEF n
<1> DEFINE Bad == {k \in 0..n : ~\A m \in f[k] : Cut(m, cap)}
<1>6. Bad = {}
  <2> SUFFICES ASSUME Bad # {} PROVE FALSE
    OBVIOUS
  <2>1. PICK k \in Bad : \A i \in Bad : k <= i
    <3>1. Bad \in SUBSET Nat
      BY <1>1
    <3> HIDE DEF Bad
    <3> QED
      BY <3>1, LeastExists
  <2>2. k \in 0..n /\ ~\A m \in f[k] : Cut(m, cap)
    BY <2>1
  <2>3. k # 0
    <3> SUFFICES ASSUME k = 0 PROVE FALSE
      OBVIOUS
    <3>1. f[0] = {}
      BY <1>1, <1>4
    <3> QED
      BY <2>2, <3>1
  <2>4. k \in 1..n /\ k \in Nat
    BY <1>1, <2>2, <2>3
  <2> DEFINE m == ChunkAt(members, cap, k)  s == Size(k)  rest == f[k - s]
  <2>5. s \in 1..k /\ Cut(m, cap)
    BY <1>5, <2>4
  <2>6. f[k] = {m} \cup rest
    BY <1>4, <2>2, <2>3
  <2> HIDE DEF m, s, rest, Bad
  <2>7. \A x \in rest : Cut(x, cap)
    <3>1. k - s \in 0..n /\ ~(k <= k - s)
      BY <1>1, <2>4, <2>5
    <3>2. k - s \notin Bad
      BY <2>1, <3>1
    <3> QED
      BY <3>1, <3>2 DEF Bad, rest
  <2> QED
    BY <2>2, <2>5, <2>6, <2>7
<1>7. n \in 0..n
  BY <1>1
<1>8. n \notin Bad
  BY <1>6
<1> QED
  BY <1>3, <1>7, <1>8 DEF n

\* The widest groups of an extent that is declared, and of one that is not.
Declared(r, x, w) == [extent |-> x, width |-> w] \in GroupsAt(r)

LEMMA UsableIs ==
    ASSUME EngineInv, NEW r \in tables.bodies, NEW x \in Usable(engine, r)
    PROVE  /\ r \in Nat \ {0} /\ x \in Extents /\ x \in Nat \ {0} /\ x <= r /\ r % x = 0
           /\ r \div x \in Nat \ {0} /\ x * (r \div x) = r
<1>1. engine \in Limits /\ tables.bodies = Bodies(engine)
  BY DEF EngineInv, Sound, Tables
<1>2. x \in Lengths(engine) /\ x <= r /\ r % x = 0
  BY DEF Usable
<1>3. engine.max_model_len \in 1..(Stick * 2^MaxDoublings)
      /\ engine.query_buckets \in SUBSET (1..(Stick * 2^MaxDoublings))
  BY <1>1 DEF Limits
<1>4. x \in Extents
  BY <1>2, <1>3, RoundsUp DEF Lengths
<1>5. x \in Nat \ {0} /\ r \in Nat \ {0}
  BY <1>1, <1>4, SticksAre, BodiesAre
<1> DEFINE q == r \div x
<1>6. q \in Nat /\ r = q * x + (r % x)
  BY <1>5, Parts
<1> HIDE DEF q
<1>7. q * x = r /\ x * q = r
  BY <1>2, <1>5, <1>6
<1>8. q # 0
  BY <1>5, <1>7
<1> QED
  BY <1>2, <1>4, <1>5, <1>6, <1>7, <1>8 DEF q

LEMMA FloorIsPower ==
    ASSUME NEW n \in Nat \ {0}
    PROVE  FloorPow2(n) \in {2^k : k \in 0..MaxDoublings} /\ FloorPow2(n) \in 1..n
<1> DEFINE P == {2^k : k \in 0..MaxDoublings}
           Below == {p \in P : p <= Greater(1, n)}
<1>1. P \in SUBSET Nat /\ 1 \in P
  <2>1. \A k \in 0..MaxDoublings : 2^k \in Nat
    BY SticksAre, PowersOfTwo
  <2>2. 0 \in 0..MaxDoublings /\ 2^0 = 1
    BY SticksAre, PowersOfTwo
  <2> QED
    BY <2>1, <2>2
<1> HIDE DEF P
<1>2. Greater(1, n) = n
  BY DEF Greater
<1>3. Below \in SUBSET Nat /\ 1 \in Below /\ \A x \in Below : x <= n
  <2>1. \A p \in P : p \in Nat
    BY <1>1
  <2>2. 1 \in Below
    BY <1>1, <1>2
  <2> QED
    BY <1>2, <2>1, <2>2
<1>4. FloorPow2(n) = GreatestOf(Below)
  BY DEF FloorPow2, P
<1>5. GreatestOf(Below) \in Below
  <2> HIDE DEF Below
  <2> QED
    BY <1>3, GreatestIs
<1>6. FloorPow2(n) \in P
  BY <1>4, <1>5
<1> QED
  BY <1>6, FloorBelow DEF P

\* A body declares nothing, or for each of its extents the powers of two up to a widest one.
LEMMA DeclaredAre ==
    ASSUME EngineInv, NEW r \in tables.bodies
    PROVE  /\ \A g \in GroupsAt(r) : g.extent \in Usable(engine, r)
           /\ GroupsAt(r) # {} => \A x \in Usable(engine, r) : Declared(r, x, 1)
           /\ \A x, w, v : Declared(r, x, w) /\ v \in {2^k : k \in 0..MaxDoublings} /\ v <= w => Declared(r, x, v)
           /\ \A x, w : Declared(r, x, w) => w \in {2^k : k \in 0..MaxDoublings}
<1> DEFINE P == {2^k : k \in 0..MaxDoublings}
           U == Usable(engine, r)
           Most(x) == FloorPow2(Lesser(engine.max_num_seqs, r \div x))
           All == {g \in [extent : U, width : P] : g.width <= Most(g.extent)}
<1>1. engine \in Limits /\ r \in Bodies(engine) /\ GroupsAt(r) = Groups(engine, r)
  BY DEF EngineInv, Sound, Tables, GroupsAt
<1>2. GroupsAt(r) = {} \/ GroupsAt(r) = All
  BY <1>1 DEF Groups
<1>3. engine.max_num_seqs \in Nat \ {0}
  BY <1>1, SticksAre, PowersOfTwo DEF Limits
<1>4. 1 \in P /\ \A p \in P : p \in Nat
  <2>1. 0 \in 0..MaxDoublings /\ 2^0 = 1 /\ \A k \in 0..MaxDoublings : 2^k \in Nat
    BY SticksAre, PowersOfTwo
  <2> QED
    BY <2>1
<1>5. ASSUME NEW x \in U PROVE Most(x) \in Nat /\ 1 <= Most(x)
  <2> DEFINE q == r \div x
  <2>1. q \in Nat \ {0}
    BY UsableIs
  <2> HIDE DEF q
  <2>2. Lesser(engine.max_num_seqs, q) \in Nat \ {0}
    BY <1>3, <2>1 DEF Lesser
  <2> QED
    BY <2>2, FloorBelow DEF q
<1> HIDE DEF P, U, Most
<1>6. \A x, w : [extent |-> x, width |-> w] \in All <=> x \in U /\ w \in P /\ w <= Most(x)
  OBVIOUS
<1>7. \A g \in All : g.extent \in U
  OBVIOUS
<1> HIDE DEF All
<1>8. GroupsAt(r) # {} => \A x \in U : Declared(r, x, 1)
  BY <1>2, <1>4, <1>5, <1>6 DEF Declared
<1>9. ASSUME NEW x, NEW w, NEW v, Declared(r, x, w), v \in P, v <= w PROVE Declared(r, x, v)
  <2>1. GroupsAt(r) = All /\ x \in U /\ w \in P /\ w <= Most(x)
    BY <1>2, <1>6, <1>9 DEF Declared
  <2>2. v <= Most(x)
    BY <1>4, <1>5, <1>9, <2>1
  <2> QED
    BY <1>6, <1>9, <2>1, <2>2 DEF Declared
<1>10. \A x, w : Declared(r, x, w) => w \in P
  BY <1>2, <1>6 DEF Declared
<1> QED
  BY <1>2, <1>7, <1>8, <1>9, <1>10 DEF U, P

\* Groups of a step: declared, or one request, of an extent the body does not declare or on a
\* body that declares none.
LEMMA GroupsAreDeclared ==
    ASSUME EngineInv, Compiled, NEW b, Request(b), NEW r \in tables.bodies, NEW g \in GroupsFor(b, r)
    PROVE  \/ Declared(r, g.extent, Len(g.members))
           \/ Len(g.members) = 1 /\ (g.extent \notin Usable(engine, r) \/ GroupsAt(r) = {})
<1>1. _width_caps_for(r) = GroupsAt(r)
  BY DEF _width_caps_for
<1> DEFINE cap(x) == WidthCap(GroupsAt(r), x)
<1>2. \A x : cap(x) \in Nat \ {0}
  BY <1>1, CapIs
<1>3. PICK x, m : g = [extent |-> x, members |-> m] /\ m \in Chunks(MembersOf(b, x), cap(x))
  BY <1>1 DEF GroupsFor
<1>4. MembersOf(b, x) \in Seq(1..Len(b))
  BY MembersAre DEF Request, ListOf
<1>5. Cut(m, cap(x))
  <2> HIDE DEF cap
  <2> QED
    BY <1>2, <1>3, <1>4, ChunksAreCut
<1>6. PICK k \in Nat \ {0} : Len(m) = Lesser(FloorPow2(k), cap(x))
  BY <1>5 DEF Cut
<1>7. FloorPow2(k) \in {2^i : i \in 0..MaxDoublings} /\ FloorPow2(k) \in Nat \ {0}
  BY FloorIsPower
<1> DEFINE W == {1} \cup {h.width : h \in {h \in GroupsAt(r) : h.extent = x}}
<1>8. cap(x) = GreatestOf(W)
  BY DEF WidthCap
<1>9. CASE x \in Usable(engine, r) /\ GroupsAt(r) # {}
  <2>1. W \in SUBSET Nat /\ \A w \in W : Declared(r, x, w)
    <3>1. \A h \in GroupsAt(r) : h = [extent |-> h.extent, width |-> h.width]
      BY DEF GroupsAt, EngineInv, Tables, Groups
    <3>2. \A w \in W : Declared(r, x, w)
      <4>1. Declared(r, x, 1)
        BY <1>9, DeclaredAre
      <4> QED
        BY <3>1, <4>1 DEF Declared
    <3>3. \A w \in W : w \in {2^i : i \in 0..MaxDoublings}
      BY <3>2, DeclaredAre
    <3>4. \A i \in 0..MaxDoublings : 2^i \in Nat
      BY SticksAre, PowersOfTwo
    <3> HIDE DEF W
    <3> QED
      BY <3>2, <3>3, <3>4
  <2>2. cap(x) \in W
    <3>1. \E u \in Nat : \A w \in W : w <= u
      <4> DEFINE u == FloorPow2(Lesser(engine.max_num_seqs, r \div x))
      <4>1. u \in Nat /\ 1 <= u
        <5>1. r \div x \in Nat \ {0} /\ engine.max_num_seqs \in Nat \ {0}
          BY <1>9, UsableIs, SticksAre, PowersOfTwo DEF EngineInv, Sound, Limits
        <5>2. Lesser(engine.max_num_seqs, r \div x) \in Nat \ {0}
          BY <5>1 DEF Lesser
        <5> QED
          BY <5>2, FloorBelow
      <4>2. \A h \in GroupsAt(r) : h.extent = x => h.width <= u
        BY DEF GroupsAt, EngineInv, Tables, Groups
      <4> HIDE DEF u
      <4>3. \A w \in W : w <= u
        BY <4>1, <4>2
      <4> QED
        BY <4>1, <4>3
    <3>2. PICK u \in Nat : \A w \in W : w <= u
      BY <3>1
    <3>3. W # {}
      OBVIOUS
    <3> HIDE DEF W
    <3> QED
      BY <1>8, <2>1, <3>2, <3>3, GreatestIs
  <2> HIDE DEF W, cap
  <2>3. Declared(r, x, cap(x)) /\ cap(x) \in Nat
    BY <1>2, <2>1, <2>2
  <2>4. Len(m) = cap(x) \/ (Len(m) = FloorPow2(k) /\ FloorPow2(k) <= cap(x))
    BY <1>6 DEF Lesser
  <2>5. Declared(r, x, Len(m))
    BY <1>7, <2>3, <2>4, DeclaredAre
  <2> QED
    BY <1>3, <2>5
<1>10. CASE ~(x \in Usable(engine, r) /\ GroupsAt(r) # {})
  <2>1. \A h \in GroupsAt(r) : h.extent # x
    BY <1>10, DeclaredAre
  <2>2. W = {1}
    BY <2>1
  <2>3. cap(x) = 1
    <3>1. GreatestOf({1}) = 1
      BY DEF GreatestOf
    <3> QED
      BY <1>8, <2>2, <3>1
  <2>4. Len(m) = 1
    BY <1>6, <1>7, <2>3 DEF Lesser
  <2> QED
    BY <1>3, <1>10, <2>4
<1> QED
  BY <1>9, <1>10
(***************************************************************************)
(* On the platform's own ladder, a body that declares no groups has a      *)
(* rectangle for every batch it holds.                                     *)
(***************************************************************************)
\* The longest extent of a body.
TallOf(e, r) == Lesser(AlignUpPow2(e.max_model_len), r)

LEMMA TallIsUsable ==
    ASSUME NEW e \in Limits, e.query_buckets = {}, NEW r \in Bodies(e)
    PROVE  TallOf(e, r) \in Usable(e, r)
<1> DEFINE limit == AlignUpPow2(e.max_model_len)
           seqs == e.max_num_seqs
           top == TopOf(e)
           x == TallOf(e, r)
           below == {y \in Bodies(e) : y < r}
<1>1. limit \in Extents /\ limit \in Nat \ {0} /\ seqs \in Nat \ {0}
  <2>1. e.max_model_len \in 1..(Stick * 2^MaxDoublings) /\ seqs \in Nat \ {0}
    BY SticksAre, PowersOfTwo DEF Limits
  <2> QED
    BY <2>1, RoundsUp
<1>2. Lengths(e) = {y \in Extents : y <= limit}
  BY DEF Lengths
<1>3. /\ top \in Nat \ {0} /\ limit <= top /\ top <= seqs * limit /\ \E m \in Nat \ {0} : top = m * limit
      /\ \A y \in Bodies(e) : y = top \/ (y \in Extents /\ y < top)
  BY TopIs
<1>4. x = IF limit <= r THEN limit ELSE r
  BY DEF TallOf, Lesser
<1> HIDE DEF limit, top, x, seqs
<1>5. r \in Nat \ {0} /\ \A y \in Bodies(e) : y \in Nat
  BY BodiesAre
<1>6. x \in Extents /\ x \in Nat \ {0} /\ x <= limit /\ x <= r
  BY <1>1, <1>3, <1>4, <1>5
<1>7. \E m \in Nat \ {0} : r = m * x
  <2>1. CASE r = top
    BY <1>1, <1>3, <1>4, <2>1
  <2>2. CASE r # top
    <3>1. r \in Powers /\ x \in Powers
      BY <1>3, <1>6, <2>2, ExtentsArePowers
    <3> QED
      BY <1>6, <3>1, PowersDivide
  <2> QED
    BY <2>1, <2>2
<1>8. r % x = 0
  <2>1. PICK m \in Nat \ {0} : r = m * x
    BY <1>7
  <2>2. 0 \in 0..(x - 1)
    BY <1>6
  <2>3. (m * x + 0) % x = 0
    BY <1>6, <2>2, PartsOfSum
  <2>4. m * x + 0 = m * x
    BY <1>6
  <2> QED
    BY <2>1, <2>3, <2>4
<1>9. ReachesBody(e, x, r)
  <2> SUFFICES ASSUME below # {} PROVE seqs * x > GreatestOf(below)
    BY DEF ReachesBody, seqs
  <2>1. below \in SUBSET Nat /\ \A y \in below : y <= r
    <3>1. \A y \in below : y \in Bodies(e) /\ y < r
      OBVIOUS
    <3> HIDE DEF below
    <3>2. ASSUME NEW y \in below PROVE y \in Nat /\ y <= r
      <4>1. y \in Nat /\ y < r /\ r \in Nat
        BY <1>5, <3>1
      <4> QED
        BY <4>1
    <3> QED
      BY <3>2
  <2>2. GreatestOf(below) \in below
    <3> HIDE DEF below
    <3> QED
      BY <1>5, <2>1, GreatestIs
  <2>3. GreatestOf(below) \in Nat /\ GreatestOf(below) < r
    BY <1>5, <2>2
  <2>4. seqs * x \in Nat /\ r <= seqs * x
    <3>1. CASE limit <= r
      <4>1. x = limit
        BY <1>4, <3>1
      <4>2. r <= top
        BY <1>3, <1>5
      <4> QED
        BY <1>1, <1>3, <1>5, <4>1, <4>2
    <3>2. CASE ~(limit <= r)
      <4>1. x = r
        BY <1>4, <3>2
      <4>2. 0 * r + r <= seqs * r /\ 0 * r = 0 /\ seqs * r \in Nat
        BY <1>1, <1>5, NextMultiple
      <4> QED
        BY <1>5, <4>1, <4>2
    <3> QED
      BY <3>1, <3>2
  <2> QED
    BY <1>5, <2>3, <2>4
<1> QED
  BY <1>2, <1>6, <1>8, <1>9 DEF Usable, x

LEMMA LadderReaches ==
    ASSUME EngineInv, engine.query_buckets = {}, Offered # {},
           NEW r \in tables.bodies, GroupsAt(r) = {}, NEW b, Request(b), Total(b) <= r
    PROVE  RectangleFor(b, r) # NoGrid
<1> DEFINE U == Usable(engine, r)
           tall == TallOf(engine, r)
           most == GreatestOf(U)
           lanes == r \div most
           seqs == engine.max_num_seqs
           longest == Longest(b)
           rect == [extent |-> most, width |-> lanes]
           S == RectanglesFor(b, r)
           x == CHOOSE x \in S : \A y \in S : x.extent <= y.extent
<1>1. /\ engine \in Limits /\ tables.bodies = Bodies(engine) /\ tables.rectangles = Rectangles(engine)
      /\ tables.groups = [body \in Bodies(engine) |-> Groups(engine, body)]
  BY DEF EngineInv, Sound, Tables
<1>2. tall \in U
  BY <1>1, TallIsUsable
<1>3. \A y \in U : y \in Nat \ {0} /\ y <= r /\ y * (r \div y) = r /\ r \div y \in Nat \ {0} /\ r \in Nat
  BY UsableIs
<1>4. most \in U /\ tall <= most
  <2>1. U \in SUBSET Nat /\ U # {} /\ r \in Nat /\ \A y \in U : y <= r
    BY <1>2, <1>3
  <2> HIDE DEF U, tall
  <2>2. GreatestOf(U) \in U /\ \A y \in U : y <= GreatestOf(U)
    BY <2>1, GreatestIs
  <2> QED
    BY <1>2, <2>2
<1>5. seqs \in Nat \ {0} /\ seqs <= lanes
  <2>1. seqs \in Nat \ {0}
    BY <1>1, SticksAre, PowersOfTwo DEF Limits
  <2>2. Groups(engine, r) = {}
    BY <1>1 DEF GroupsAt
  <2> SUFFICES ASSUME ~(seqs <= lanes) PROVE FALSE
    BY <2>1
  <2>3. lanes \in Nat \ {0}
    BY <1>3, <1>4
  <2>4. Groups(engine, r) = {g \in [extent : U, width : {2^k : k \in 0..MaxDoublings}] :
             g.width <= FloorPow2(Lesser(engine.max_num_seqs, r \div g.extent))}
    BY <1>2 DEF Groups
  <2>5. Lesser(seqs, lanes) \in Nat \ {0}
    BY <2>1, <2>3 DEF Lesser
  <2>6. 1 <= FloorPow2(Lesser(seqs, lanes))
    BY <2>5, FloorBelow
  <2>7. 1 \in {2^k : k \in 0..MaxDoublings}
    <3>1. 0 \in 0..MaxDoublings /\ 2^0 = 1
      BY SticksAre, PowersOfTwo
    <3> QED
      BY <3>1
  <2> DEFINE g == [extent |-> most, width |-> 1]
  <2>8. g \in Groups(engine, r)
    <3>1. g \in [extent : U, width : {2^k : k \in 0..MaxDoublings}]
      BY <1>4, <2>7
    <3>2. g.width <= FloorPow2(Lesser(engine.max_num_seqs, r \div g.extent))
      BY <2>6
    <3> HIDE DEF g, U
    <3> QED
      BY <2>4, <3>1, <3>2
  <2> QED
    BY <2>2, <2>8
<1>6. Batch(b) /\ Len(b) # 0 /\ Len(b) \in Nat /\ Len(b) <= seqs
  BY DEF Request, Batch
<1>7. longest \in Nat /\ longest <= tall
  <2> DEFINE L == {b[i] : i \in DOMAIN b}
  <2>1. longest \in L
    <3>1. DOMAIN b = 1..Len(b) /\ 1 \in 1..Len(b) /\ \A i \in 1..Len(b) : b[i] \in Nat
      BY <1>6 DEF Batch
    <3>2. longest \in Nat /\ \A i \in 1..Len(b) : b[i] <= longest
      BY <1>6, LongestIs
    <3>3. L \in SUBSET Nat /\ L # {} /\ \A y \in L : y <= longest
      BY <3>1, <3>2
    <3>4. longest = GreatestOf(L)
      BY DEF Longest
    <3> HIDE DEF L, longest
    <3> QED
      BY <3>2, <3>3, <3>4, GreatestIs
  <2>2. PICK i \in 1..Len(b) : longest = b[i]
    BY <1>6, <2>1 DEF Batch
  <2>3. longest \in Nat \ {0} /\ longest <= engine.max_model_len
    BY <1>6, <2>2 DEF Request, Batch
  <2>4. longest <= r
    <3>1. b[i] - 1 \in 0..(b[i] - 1) /\ b[i] \in Nat
      BY <2>2, <2>3
    <3>2. Start(b, i) \in Nat /\ Start(b, i) + (b[i] - 1) < Total(b) /\ Total(b) \in Nat
      BY <1>6, <3>1, PackedIs
    <3> QED
      BY <1>3, <1>4, <2>2, <3>1, <3>2
  <2>5. longest <= AlignUpPow2(engine.max_model_len) /\ AlignUpPow2(engine.max_model_len) \in Nat
    <3>1. engine.max_model_len \in 1..(Stick * 2^MaxDoublings)
      BY <1>1 DEF Limits
    <3>2. engine.max_model_len \in Nat
      BY <3>1, SticksAre
    <3>3. AlignUpPow2(engine.max_model_len) \in Nat /\ engine.max_model_len <= AlignUpPow2(engine.max_model_len)
      BY <3>1, RoundsUp
    <3> QED
      BY <2>3, <3>2, <3>3
  <2> QED
    BY <2>3, <2>4, <2>5 DEF TallOf, Lesser
<1> HIDE DEF longest
<1>8. rect \in S
  <2>1. rect \in Rectangles(engine)
    BY <1>1, <1>4 DEF Rectangles
  <2>2. Offered = tables.rectangles
    BY DEF Offered
  <2>3. longest <= most
    BY <1>2, <1>3, <1>4, <1>7
  <2>4. most * lanes = r
    BY <1>3, <1>4
  <2> HIDE DEF most, lanes
  <2> QED
    BY <1>1, <2>1, <2>2, <2>3, <2>4 DEF RectanglesFor, longest
<1>9. \A y \in S : y \in tables.rectangles /\ y.extent * y.width = r
  BY DEF RectanglesFor, Offered
<1>10. x \in S /\ x.extent <= most
  <2> DEFINE E == {y.extent : y \in S}
  <2>1. E \in SUBSET Nat /\ E # {}
    <3>1. \A y \in S : y.extent \in Nat
      BY <1>9, RectanglesAre, SticksAre
    <3> QED
      BY <1>8, <3>1
  <2>2. PICK m \in E : \A z \in E : m <= z
    <3> HIDE DEF E
    <3> QED
      BY <2>1, LeastExists
  <2>3. \E y \in S : \A z \in S : y.extent <= z.extent
    BY <2>2
  <2> HIDE DEF S
  <2>4. x \in S /\ \A z \in S : x.extent <= z.extent
    BY <2>3, Zenon
  <2>5. rect.extent = most
    OBVIOUS
  <2> QED
    BY <1>8, <2>4, <2>5
<1> HIDE DEF x
<1>11. x.extent \in Nat \ {0} /\ x.width \in Nat /\ x.extent * x.width = r
  BY <1>9, <1>10, RectanglesAre, SticksAre
<1>12. lanes <= x.width
  <2> DEFINE h == x.extent  w == x.width  m == most  l == lanes
  <2>1. h \in Nat \ {0} /\ w \in Nat /\ m \in Nat \ {0} /\ l \in Nat /\ h <= m /\ h * w = r /\ m * l = r /\ r \in Nat
    BY <1>3, <1>4, <1>10, <1>11
  <2> HIDE DEF h, w, m, l
  <2> SUFFICES ASSUME ~(l <= w) PROVE FALSE
    BY DEF l, w
  <2>2. w * h + h <= l * h
    BY <2>1, NextMultiple
  <2>3. l * h <= l * m
    <3>1. CASE h = m
      BY <2>1, <3>1
    <3>2. CASE h # m
      <4>1. h * l + l <= m * l
        BY <2>1, <3>2, NextMultiple
      <4>2. h * l = l * h /\ m * l = l * m /\ l * h \in Nat /\ l * m \in Nat
        BY <2>1
      <4> QED
        BY <2>1, <4>1, <4>2
    <3> QED
      BY <3>1, <3>2
  <2>4. w * h = r /\ l * m = r /\ l * h \in Nat
    BY <2>1
  <2> QED
    BY <2>1, <2>2, <2>3, <2>4
<1>13. Len(b) <= x.width
  <2>1. lanes \in Nat
    BY <1>3, <1>4
  <2> HIDE DEF lanes
  <2> QED
    BY <1>5, <1>6, <1>11, <1>12, <2>1
<1>14. RectangleFor(b, r) = Grid(x, b)
  BY <1>8, <1>13 DEF RectangleFor, Count, x
<1>15. Grid(x, b) # NoGrid
  BY <1>11 DEF Grid, NoGrid
<1> QED
  BY <1>14, <1>15
(***************************************************************************)
(* What warmup has compiled.                                               *)
(***************************************************************************)
RoomyInv == Compiled => Roomy(engine)

LEMMA RoomyStarts == PoolingInit => RoomyInv
<1> SUFFICES ASSUME PoolingInit, Compiled PROVE Roomy(engine)
  BY DEF RoomyInv
<1>1. PICK user \in Users : engine = Engine(cap_max_model_len_for_position_offset(user))
  BY DEF PoolingInit
<1> DEFINE u == cap_max_model_len_for_position_offset(user)
<1>2. Sound(u)
  BY CapKeeps
<1>3. engine = Engine(u) /\ engine.mode # "eager"
  BY <1>1 DEF Compiled
<1> HIDE DEF u
<1>4. u.mode # "eager"
  <2> SUFFICES ASSUME u.mode = "eager" PROVE engine.mode = "eager"
    BY <1>3
  <2>1. engine = [u EXCEPT !.compile_sizes = IF @ = Unset THEN {} ELSE @]
    BY <1>3 DEF Engine
  <2> QED
    BY <1>2, <2>1 DEF Sound, Limits
<1> QED
  BY <1>2, <1>3, <1>4, SettledIsRoomy

LEMMA RoomyStep == RoomyInv /\ [PoolingNext]_pooling_vars => RoomyInv'
  BY EngineStays DEF RoomyInv, Compiled

\* Warmup has sizes to go through.
Warms == Compiled /\ engine.compile_sizes # {}

\* Everything attention on a body needs outside the model's graph.
KernelsWarm(r) ==
    /\ Key("body", r, 0, 0) \in warm
    /\ \A g \in GroupsAt(r) : Key("group", r, g.extent, g.width) \in warm
    /\ engine.mode # "inline" =>
         \A x \in tables.rectangles : x.extent * x.width = r => RectKey("rect", r, x) \in warm

\* A body the dummy run of its size has left.
BodyIsWarm(r) ==
    /\ PoolerKeys(r) \subseteq warm
    /\ engine.mode = "opaque" /\ r \in tables.bodies => r \in warmedRows

BlockWarm(x) == RectKey("block", x.extent * x.width, x) \in warm

\* Each phase has warmed what it is for, but for what it still has to do.
WarmInv ==
    Warms =>
      /\ \A r \in warmedRows : KernelsWarm(r)
      /\ \A r \in engine.compile_sizes : (phase = "bodies" /\ r \in todo) \/ BodyIsWarm(r)
      /\ phase # "bodies" => _warm_encoder_embed_gather \subseteq warm
      /\ engine.mode = "inline" =>
           /\ \A x \in TracedRectangles :
                 phase = "bodies" \/ (phase = "rects" /\ x \in todo) \/ BlockWarm(x)
           /\ \A r \in RaggedBodies :
                 phase \in {"bodies", "rects"} \/ (phase = "ragged" /\ r \in todo) \/ r \in warmedRows

LEMMA PlansStay ==
    ASSUME UNCHANGED <<engine, tables>>
    PROVE  /\ UNCHANGED <<Compiled, Warms, Offered, TracedRectangles, RaggedBodies, _warm_encoder_embed_gather>>
           /\ \A r : GroupsAt(r)' = GroupsAt(r)
           /\ \A r : RowWidths(r)' = RowWidths(r)
<1>1. UNCHANGED <<Compiled, Warms, Offered>>
  BY DEF Compiled, Warms, Offered
<1>2. \A r : GroupsAt(r)' = GroupsAt(r)
  BY DEF GroupsAt
<1>3. UNCHANGED WarmedBodies
  BY DEF WarmedBodies, FirstPhase
<1>4. UNCHANGED TracedRectangles
  BY <1>1, <1>3 DEF TracedRectangles
<1>5. UNCHANGED RaggedBodies
  BY <1>2, <1>3 DEF RaggedBodies
<1>6. UNCHANGED _warm_encoder_embed_gather
  BY <1>1 DEF _warm_encoder_embed_gather
<1>7. \A r : RowWidths(r)' = RowWidths(r)
  BY DEF RowWidths
<1> QED
  BY <1>1, <1>2, <1>4, <1>5, <1>6, <1>7

LEMMA PoolerKeysStay ==
    ASSUME UNCHANGED <<engine, tables>>, NEW r
    PROVE  PoolerKeys(r)' = PoolerKeys(r)
<1>1. \A b, tasks, g : PoolKeys(b, tasks, r, g)' = PoolKeys(b, tasks, r, g)
  <2> SUFFICES ASSUME NEW b, NEW tasks, NEW g PROVE PoolKeys(b, tasks, r, g)' = PoolKeys(b, tasks, r, g)
    OBVIOUS
  <2> DEFINE direct == GridDirect(tasks, g)
             lanes == IF direct /\ engine.pool = "MEAN" THEN Lesser(Padded(Len(b)), r \div g.extent)
                      ELSE Padded(Len(b))
             buckets == {Key("gather", r, NextBucket(b[i], tables.lengths), 0) : i \in DOMAIN b}
  <2>1. UNCHANGED direct
    BY DEF GridDirect
  <2> HIDE DEF direct
  <2>2. UNCHANGED lanes
    BY <2>1
  <2>3. UNCHANGED buckets
    OBVIOUS
  <2> DEFINE tailless == ~Compiled \/ engine.tail = "host"
             mean == engine.pool # "MEAN"
             Sum ==
        PoolKeys(b, tasks, r, g) =
          IF tailless THEN {}
          ELSE (IF g # NoGrid /\ ~direct /\ Total(b) # r THEN {Key("gather", r, r, 0)} ELSE {})
               \cup (IF ~OneTask(tasks) THEN {Key("slices", r, 0, 0)}
                     ELSE IF tasks[1] = "token_embed" THEN buckets
                     ELSE {Key("head", 0, lanes, 0)}
                          \cup (IF mean THEN {Key("gather", r, Padded(Len(b)), 0)}
                                ELSE IF direct THEN {Key("mean", r, g.extent, lanes)} ELSE {}))
  <2>4. Sum /\ Sum'
    BY DEF PoolKeys, direct
  <2>5. UNCHANGED <<tailless, mean>>
    BY DEF Compiled
  <2> HIDE DEF lanes, buckets, tailless, mean
  <2> QED
    BY <2>1, <2>2, <2>3, <2>4, <2>5
<1>2. DummyBatch(r)' = DummyBatch(r)
  BY DEF DummyBatch
<1>3. RowWidths(r)' = RowWidths(r)
  BY PlansStay
<1> DEFINE shapes == IF engine.pool # "MEAN" THEN {}
                     ELSE UNION {{[extent |-> x.extent, lanes |-> Lesser(w, x.width)] : w \in RowWidths(r)}
                                 : x \in {x \in tables.rectangles : x.extent * x.width = r}}
           dummies == UNION {PoolKeys(DummyBatch(r), [i \in DOMAIN DummyBatch(r) |-> task], r, NoGrid) :
                                task \in Tasks}
<1>4. UNCHANGED shapes
  BY <1>3
<1>5. UNCHANGED dummies
  BY <1>1, <1>2
<1> DEFINE tailless == ~Compiled \/ engine.tail = "host"
           widths == RowWidths(r) \cup {s.lanes : s \in shapes}
           lengths == {Key("gather", r, x, 0) : x \in {x \in tables.lengths : x <= r}}
           body == IF tables.rectangles = {} THEN {} ELSE {Key("gather", r, r, 0)}
           gathers == {Key("gather", r, w, 0) : w \in widths}
           heads == {Key("head", 0, w, 0) : w \in widths}
           means == {Key("mean", r, s.extent, s.lanes) : s \in shapes}
           Sum == PoolerKeys(r) = IF tailless THEN {}
                                  ELSE gathers \cup heads \cup means \cup lengths \cup body \cup dummies
<1>6. Sum /\ Sum'
  BY DEF PoolerKeys
<1> HIDE DEF shapes, dummies
<1>7. UNCHANGED <<tailless, widths, lengths, body>>
  BY <1>3, <1>4 DEF Compiled
<1>8. UNCHANGED <<gathers, heads, means>>
  <2> HIDE DEF widths
  <2> QED
    BY <1>4, <1>7
<1> HIDE DEF tailless, gathers, heads, means, lengths, body
<1> QED
  BY <1>5, <1>6, <1>7, <1>8
LEMMA WarmGrows ==
    ASSUME UNCHANGED <<engine, tables>>, warm \subseteq warm', warmedRows \subseteq warmedRows'
    PROVE  /\ \A r : KernelsWarm(r) => KernelsWarm(r)'
           /\ \A r : BodyIsWarm(r) => BodyIsWarm(r)'
           /\ \A x : BlockWarm(x) => BlockWarm(x)'
<1>1. ASSUME NEW r, KernelsWarm(r) PROVE KernelsWarm(r)'
  <2>1. GroupsAt(r)' = GroupsAt(r)
    BY PlansStay
  <2> QED
    BY <1>1, <2>1 DEF KernelsWarm
<1>2. ASSUME NEW r, BodyIsWarm(r) PROVE BodyIsWarm(r)'
  <2>1. PoolerKeys(r)' = PoolerKeys(r)
    BY PoolerKeysStay
  <2> QED
    BY <1>2, <2>1 DEF BodyIsWarm
<1>3. ASSUME NEW x, BlockWarm(x) PROVE BlockWarm(x)'
  BY <1>3 DEF BlockWarm
<1> QED
  BY <1>1, <1>2, <1>3

\* A dummy run compiles the kernels of its body, unless attention was traced into a rectangle.
LEMMA DummyWarms ==
    ASSUME WarmInv, Warms, NEW size, NEW forced, NEW forceRagged, NEW extra,
           DummyRun(size, forced, forceRagged, extra)
    PROVE  LET x == PlanFor(DummyBatch(size), size, forced, forceRagged).rect IN
           /\ UNCHANGED <<engine, tables>> /\ warm \subseteq warm' /\ warmedRows \subseteq warmedRows'
           /\ extra \subseteq warm' /\ \A r \in warmedRows' : KernelsWarm(r)'
           /\ IF Traced(x) THEN RectKey("block", size, x) \in warm'
              ELSE size \in tables.bodies => size \in warmedRows'
<1> DEFINE p == PlanFor(DummyBatch(size), size, forced, forceRagged)
           x == p.rect
           keys == ForwardKeys(p, x, size)
<1>1. /\ UNCHANGED <<engine, tables>> /\ warm' = warm \cup keys \cup extra
      /\ warmedRows' = IF Compiled /\ ~Traced(x) /\ size \in tables.bodies
                       THEN warmedRows \cup {size} ELSE warmedRows
  BY DEF DummyRun
<1>2. Compiled /\ \A r \in warmedRows : KernelsWarm(r)
  BY DEF WarmInv, Warms
<1> HIDE DEF p
<1>3. keys = IF Traced(x) THEN {RectKey("block", size, x)}
             ELSE {Key("body", size, 0, 0)} \cup KernelKeys(size)
                  \cup (IF p.rect # NoGrid THEN {RectKey("rect", size, p.rect)}
                        ELSE {Key("group", size, g.extent, Len(g.members)) : g \in p.groups})
  BY <1>2 DEF ForwardKeys
<1> HIDE DEF keys, x
<1>4. warm \subseteq warm' /\ warmedRows \subseteq warmedRows' /\ extra \subseteq warm'
  BY <1>1
<1>5. CASE Traced(x)
  <2>1. warmedRows' = warmedRows /\ RectKey("block", size, x) \in warm'
    BY <1>1, <1>3, <1>5
  <2>2. \A r \in warmedRows' : KernelsWarm(r)'
    BY <1>1, <1>2, <1>4, <2>1, WarmGrows
  <2> QED
    BY <1>1, <1>4, <1>5, <2>1, <2>2 DEF x, p
<1>6. CASE ~Traced(x)
  <2>1. \A r \in warmedRows : KernelsWarm(r)'
    BY <1>1, <1>2, <1>4, WarmGrows
  <2>2. size \in tables.bodies => size \in warmedRows' /\ KernelsWarm(size)'
    <3> SUFFICES ASSUME size \in tables.bodies, size \notin warmedRows PROVE size \in warmedRows' /\ KernelsWarm(size)'
      BY <1>4, <2>1
    <3>1. size \in warmedRows'
      BY <1>1, <1>2, <1>6
    <3>2. {Key("body", size, 0, 0)} \cup KernelKeys(size) \subseteq warm'
      BY <1>1, <1>3, <1>6
    <3>3. KernelKeys(size) = {Key("group", size, g.extent, g.width) : g \in GroupsAt(size)}
             \cup (IF engine.mode = "inline" THEN {}
                   ELSE {RectKey("rect", size, y) : y \in {y \in tables.rectangles : y.extent * y.width = size}})
      BY DEF KernelKeys
    <3>4. \A g \in GroupsAt(size) : Key("group", size, g.extent, g.width) \in warm'
      BY <3>2, <3>3
    <3>5. engine.mode # "inline" =>
             \A y \in tables.rectangles : y.extent * y.width = size => RectKey("rect", size, y) \in warm'
      BY <3>2, <3>3
    <3>6. GroupsAt(size)' = GroupsAt(size)
      BY <1>1, PlansStay
    <3> QED
      BY <1>1, <3>1, <3>2, <3>4, <3>5, <3>6 DEF KernelsWarm
  <2>3. \A r \in warmedRows' : KernelsWarm(r)'
    BY <1>1, <2>1, <2>2
  <2> QED
    BY <1>1, <1>4, <1>6, <2>2, <2>3 DEF x, p
<1> QED
  BY <1>5, <1>6

LEMMA WarmStarts == PoolingInit => WarmInv
<1> SUFFICES ASSUME PoolingInit, Warms PROVE \A r \in engine.compile_sizes : r \in todo
  BY DEF PoolingInit, WarmInv
<1>1. FirstPhase(engine) = engine.compile_sizes
  BY DEF FirstPhase, Warms, Compiled
<1> QED
  BY <1>1 DEF PoolingInit

\* What stays as it was stays warm.
LEMMA WarmStays ==
    ASSUME WarmInv, UNCHANGED <<engine, tables, phase, todo, warm, warmedRows>>
    PROVE  WarmInv'
<1>1. /\ UNCHANGED <<Warms, TracedRectangles, RaggedBodies, _warm_encoder_embed_gather>>
  BY PlansStay
<1>2. /\ \A r : KernelsWarm(r) => KernelsWarm(r)'
      /\ \A r : BodyIsWarm(r) => BodyIsWarm(r)'
      /\ \A x : BlockWarm(x) => BlockWarm(x)'
  BY WarmGrows
<1> QED
  BY <1>1, <1>2 DEF WarmInv

LEMMA BodyWarms ==
    ASSUME WarmInv, DummyBody
    PROVE  WarmInv'
<1> SUFFICES ASSUME Warms' PROVE WarmInv'
  BY DEF WarmInv
<1> DEFINE first == GreatestOf(todo)
<1>1. /\ phase = "bodies" /\ phase' = "bodies" /\ todo' = todo \ {first}
      /\ DummyRun(first, NoGrid, FALSE, PoolerKeys(first))
  BY DEF DummyBody
<1>2. UNCHANGED <<engine, tables>>
  BY <1>1 DEF DummyRun
<1>3. Warms
  BY <1>2, PlansStay
<1>4. PICK size : size = first
  OBVIOUS
<1>5. PICK extra : extra = PoolerKeys(size)
  OBVIOUS
<1> HIDE DEF first
<1> DEFINE x == PlanFor(DummyBatch(size), size, NoGrid, FALSE).rect
<1>6. /\ warm \subseteq warm' /\ warmedRows \subseteq warmedRows'
      /\ extra \subseteq warm' /\ \A r \in warmedRows' : KernelsWarm(r)'
      /\ IF Traced(x) THEN RectKey("block", size, x) \in warm'
         ELSE size \in tables.bodies => size \in warmedRows'
  <2>1. DummyRun(size, NoGrid, FALSE, extra)
    BY <1>1, <1>4, <1>5
  <2> QED
    BY <1>3, <2>1, DummyWarms
<1> HIDE DEF x
<1>7. BodyIsWarm(size)'
  <2>1. PoolerKeys(size)' = PoolerKeys(size)
    BY <1>2, PoolerKeysStay
  <2>2. engine.mode = "opaque" => ~Traced(x)
    BY DEF Traced
  <2> QED
    BY <1>2, <1>5, <1>6, <2>1, <2>2 DEF BodyIsWarm
<1>8. ASSUME NEW r \in engine.compile_sizes PROVE r \in todo' \/ BodyIsWarm(r)'
  <2>1. r \in todo \/ BodyIsWarm(r)
    BY <1>3 DEF WarmInv
  <2>2. BodyIsWarm(r) => BodyIsWarm(r)'
    BY <1>2, <1>6, WarmGrows
  <2> QED
    BY <1>1, <1>4, <1>7, <2>1, <2>2
<1> QED
  BY <1>1, <1>2, <1>6, <1>8 DEF WarmInv
\* Without rectangles there are no groups.
LEMMA GroupsNeedRectangles ==
    ASSUME EngineInv, tables.rectangles = {}
    PROVE  TracedRectangles = {} /\ RaggedBodies = {}
<1>1. TracedRectangles = {}
  BY DEF TracedRectangles, Offered
<1>2. ASSUME NEW r \in RaggedBodies PROVE FALSE
  <2>1. r \in tables.bodies /\ GroupsAt(r) # {}
    BY DEF RaggedBodies
  <2>2. PICK x : x \in Usable(engine, r)
    BY <2>1, DeclaredAre
  <2>3. tables.rectangles = Rectangles(engine) /\ tables.bodies = Bodies(engine)
    BY DEF EngineInv, Tables
  <2>4. [extent |-> x, width |-> r \div x] \in Rectangles(engine)
    BY <2>1, <2>2, <2>3 DEF Rectangles
  <2> QED
    BY <2>3, <2>4
<1> QED
  BY <1>1, <1>2

LEMMA BodiesWarmed ==
    ASSUME EngineInv, WarmInv, BodiesDone
    PROVE  WarmInv'
<1> SUFFICES ASSUME Warms' PROVE WarmInv'
  BY DEF WarmInv
<1>1. /\ phase = "bodies" /\ todo = {} /\ warm' = warm \cup _warm_encoder_embed_gather
      /\ UNCHANGED <<engine, tables, warmedRows>>
      /\ IF engine.mode = "inline" /\ tables.rectangles # {} /\ engine.compile_sizes # {}
         THEN phase' = "rects" /\ todo' = TracedRectangles
         ELSE phase' = "serving" /\ todo' = {}
  BY DEF BodiesDone
<1>2. UNCHANGED <<Warms, TracedRectangles, RaggedBodies, _warm_encoder_embed_gather>>
  BY <1>1, PlansStay
<1>3. /\ \A r : KernelsWarm(r) => KernelsWarm(r)'
      /\ \A r : BodyIsWarm(r) => BodyIsWarm(r)'
  BY <1>1, WarmGrows
<1>4. Warms /\ engine.compile_sizes # {}
  BY <1>2 DEF Warms
<1>5. \A r \in engine.compile_sizes : BodyIsWarm(r)'
  BY <1>1, <1>3, <1>4 DEF WarmInv
<1>6. \A r \in warmedRows : KernelsWarm(r)'
  BY <1>3, <1>4 DEF WarmInv
<1>7. _warm_encoder_embed_gather \subseteq warm'
  BY <1>1
<1>8. CASE engine.mode = "inline" /\ tables.rectangles # {}
  <2>1. phase' = "rects" /\ todo' = TracedRectangles
    BY <1>1, <1>4, <1>8
  <2> QED
    BY <1>1, <1>2, <1>5, <1>6, <1>7, <2>1 DEF WarmInv
<1>9. CASE engine.mode # "inline"
  BY <1>1, <1>2, <1>5, <1>6, <1>7, <1>9 DEF WarmInv
<1>10. CASE tables.rectangles = {}
  <2>1. TracedRectangles = {} /\ RaggedBodies = {}
    BY <1>10, GroupsNeedRectangles
  <2> QED
    BY <1>1, <1>2, <1>5, <1>6, <1>7, <2>1 DEF WarmInv
<1> QED
  BY <1>8, <1>9, <1>10

LEMMA RectangleWarms ==
    ASSUME EngineInv, WarmInv, WarmRectangle
    PROVE  WarmInv'
<1> SUFFICES ASSUME Warms' PROVE WarmInv'
  BY DEF WarmInv
<1>1. PICK x : x = NextRectangle
  OBVIOUS
<1> DEFINE forced_ == Grid(x, [i \in 1..x.width |-> x.extent])
<1>2. /\ phase = "rects" /\ phase' = "rects" /\ todo' = todo \ {x}
      /\ DummyRun(x.extent * x.width, forced_, FALSE, {})
  BY <1>1 DEF WarmRectangle
<1>3. UNCHANGED <<engine, tables>>
  BY <1>2 DEF DummyRun
<1>4. UNCHANGED <<Warms, TracedRectangles, RaggedBodies, _warm_encoder_embed_gather>>
  BY <1>3, PlansStay
<1>5. Warms
  BY <1>4
<1>6. PICK size, forced : size = x.extent * x.width /\ forced = forced_
  OBVIOUS
<1> DEFINE rect == PlanFor(DummyBatch(size), size, forced, FALSE).rect
<1>7. /\ warm \subseteq warm' /\ warmedRows \subseteq warmedRows'
      /\ \A r \in warmedRows' : KernelsWarm(r)'
      /\ Traced(rect) => RectKey("block", size, rect) \in warm'
  <2>1. DummyRun(size, forced, FALSE, {})
    BY <1>2, <1>6
  <2> HIDE DEF forced_
  <2> QED
    BY <1>5, <2>1, DummyWarms
<1>8. /\ \A r : BodyIsWarm(r) => BodyIsWarm(r)'
      /\ \A y : BlockWarm(y) => BlockWarm(y)'
  BY <1>3, <1>7, WarmGrows
<1>9. engine.mode = "inline" /\ x \in TracedRectangles => BlockWarm(x)'
  <2> SUFFICES ASSUME engine.mode = "inline", x \in TracedRectangles PROVE BlockWarm(x)'
    OBVIOUS
  <2>1. x \in tables.rectangles
    BY DEF TracedRectangles, Offered
  <2>2. x.extent \in Nat \ {0}
    BY <2>1, RectanglesAre, SticksAre
  <2>3. forced # NoGrid /\ forced.extent = x.extent /\ forced.width = x.width
    BY <1>6, <2>2 DEF Grid, NoGrid
  <2>4. rect = forced
    BY <2>3 DEF PlanFor
  <2>5. RectKey("block", size, rect) \in warm'
    BY <1>7, <2>3, <2>4 DEF Traced
  <2>6. RectKey("block", size, rect) = RectKey("block", x.extent * x.width, x)
    BY <1>6, <2>3, <2>4 DEF RectKey
  <2> QED
    BY <2>5, <2>6 DEF BlockWarm
<1> HIDE DEF forced_, rect
<1>10. \A r \in engine.compile_sizes : BodyIsWarm(r)'
  BY <1>2, <1>5, <1>8 DEF WarmInv
<1>11. _warm_encoder_embed_gather \subseteq warm'
  BY <1>2, <1>5, <1>7 DEF WarmInv
<1>12. engine.mode = "inline" => \A y \in TracedRectangles : y \in todo' \/ BlockWarm(y)'
  BY <1>2, <1>5, <1>8, <1>9 DEF WarmInv
<1> QED
  BY <1>2, <1>3, <1>4, <1>7, <1>10, <1>11, <1>12 DEF WarmInv

LEMMA RectanglesWarmed ==
    ASSUME WarmInv, RectanglesDone
    PROVE  WarmInv'
<1> SUFFICES ASSUME Warms' PROVE WarmInv'
  BY DEF WarmInv
<1>1. /\ phase = "rects" /\ todo = {} /\ phase' = "ragged" /\ todo' = RaggedBodies
      /\ UNCHANGED <<engine, tables, warm, warmedRows>>
  BY DEF RectanglesDone
<1>2. UNCHANGED <<Warms, TracedRectangles, RaggedBodies, _warm_encoder_embed_gather>>
  BY <1>1, PlansStay
<1>3. /\ \A r : KernelsWarm(r) => KernelsWarm(r)'
      /\ \A r : BodyIsWarm(r) => BodyIsWarm(r)'
      /\ \A x : BlockWarm(x) => BlockWarm(x)'
  BY <1>1, WarmGrows
<1> QED
  BY <1>1, <1>2, <1>3 DEF WarmInv

LEMMA RaggedWarms ==
    ASSUME EngineInv, WarmInv, WarmRagged
    PROVE  WarmInv'
<1> SUFFICES ASSUME Warms' PROVE WarmInv'
  BY DEF WarmInv
<1>1. PICK size : size = LeastOf(todo)
  OBVIOUS
<1>2. /\ phase = "ragged" /\ phase' = "ragged" /\ todo' = todo \ {size}
      /\ DummyRun(size, NoGrid, TRUE, {})
  BY <1>1 DEF WarmRagged
<1>3. UNCHANGED <<engine, tables>>
  BY <1>2 DEF DummyRun
<1>4. UNCHANGED <<Warms, TracedRectangles, RaggedBodies, _warm_encoder_embed_gather>>
  BY <1>3, PlansStay
<1>5. Warms
  BY <1>4
<1> DEFINE rect == PlanFor(DummyBatch(size), size, NoGrid, TRUE).rect
<1>6. ~Traced(rect)
  BY DEF PlanFor, Traced
<1>7. /\ warm \subseteq warm' /\ warmedRows \subseteq warmedRows'
      /\ \A r \in warmedRows' : KernelsWarm(r)'
      /\ size \in tables.bodies => size \in warmedRows'
  BY <1>2, <1>5, <1>6, DummyWarms
<1>8. /\ \A r : BodyIsWarm(r) => BodyIsWarm(r)'
      /\ \A y : BlockWarm(y) => BlockWarm(y)'
  BY <1>3, <1>7, WarmGrows
<1> HIDE DEF rect
<1>9. \A r \in engine.compile_sizes : BodyIsWarm(r)'
  BY <1>2, <1>5, <1>8 DEF WarmInv
<1>10. _warm_encoder_embed_gather \subseteq warm'
  BY <1>2, <1>5, <1>7 DEF WarmInv
<1>11. engine.mode = "inline" => \A y \in TracedRectangles : BlockWarm(y)'
  BY <1>2, <1>5, <1>8 DEF WarmInv
<1>12. engine.mode = "inline" => \A r \in RaggedBodies : r \in todo' \/ r \in warmedRows'
  <2> SUFFICES ASSUME engine.mode = "inline", NEW r \in RaggedBodies PROVE r \in todo' \/ r \in warmedRows'
    OBVIOUS
  <2>1. r \in todo \/ r \in warmedRows
    BY <1>2, <1>5 DEF WarmInv
  <2>2. r \in tables.bodies
    BY DEF RaggedBodies
  <2> QED
    BY <1>2, <1>7, <2>1, <2>2
<1> QED
  BY <1>2, <1>3, <1>4, <1>7, <1>9, <1>10, <1>11, <1>12 DEF WarmInv

LEMMA RaggedWarmed ==
    ASSUME WarmInv, RaggedDone
    PROVE  WarmInv'
<1> SUFFICES ASSUME Warms' PROVE WarmInv'
  BY DEF WarmInv
<1>1. /\ phase = "ragged" /\ todo = {} /\ phase' = "serving"
      /\ UNCHANGED <<engine, tables, todo, warm, warmedRows>>
  BY DEF RaggedDone
<1>2. UNCHANGED <<Warms, TracedRectangles, RaggedBodies, _warm_encoder_embed_gather>>
  BY <1>1, PlansStay
<1>3. /\ \A r : KernelsWarm(r) => KernelsWarm(r)'
      /\ \A r : BodyIsWarm(r) => BodyIsWarm(r)'
      /\ \A x : BlockWarm(x) => BlockWarm(x)'
  BY <1>1, WarmGrows
<1> QED
  BY <1>1, <1>2, <1>3 DEF WarmInv

LEMMA WarmStep == EngineInv /\ WarmInv /\ [PoolingNext]_pooling_vars => WarmInv'
<1> SUFFICES ASSUME EngineInv, WarmInv, [PoolingNext]_pooling_vars PROVE WarmInv'
  OBVIOUS
<1>1. CASE DummyBody
  BY <1>1, BodyWarms
<1>2. CASE BodiesDone
  BY <1>2, BodiesWarmed
<1>3. CASE WarmRectangle
  BY <1>3, RectangleWarms
<1>4. CASE RectanglesDone
  BY <1>4, RectanglesWarmed
<1>5. CASE WarmRagged
  BY <1>5, RaggedWarms
<1>6. CASE RaggedDone
  BY <1>6, RaggedWarmed
<1>7. ASSUME \/ \E b \in Schedulable(engine) : Build(b) \/ prepare_attn(b)
             \/ LayOut \/ prepare_inputs \/ Attend
             \/ \E tasks \in [DOMAIN prompts -> Tasks] : Pool(tasks) \/ pool(tasks)
             \/ Finish \/ UNCHANGED pooling_vars
      PROVE  WarmInv'
  <2>1. UNCHANGED start
    BY <1>7 DEF Build, prepare_attn, Planned, LayOut, prepare_inputs, LaidOut, Attend, Pool, pool, Pooled,
                Finish, pooling_vars, start
  <2> QED
    BY <2>1, WarmStays DEF start
<1> QED
  BY <1>1, <1>2, <1>3, <1>4, <1>5, <1>6, <1>7 DEF PoolingNext
(***************************************************************************)
(* Pooling: every gather and head of a step is one warmup compiled.        *)
(***************************************************************************)
\* Each request has a token.
LEMMA CountWithin == ASSUME NEW b, Batch(b) PROVE Len(b) <= Total(b)
<1>1. RunsOn(b) /\ Len(b) \in Nat /\ \A i \in 1..Len(b) : b[i] \in Nat \ {0}
  BY StartsAre DEF Batch
<1> DEFINE Bad == {k \in 0..Len(b) : ~(k <= Start(b, k + 1))}
<1>2. Bad = {}
  <2> SUFFICES ASSUME Bad # {} PROVE FALSE
    OBVIOUS
  <2>1. PICK k \in Bad : \A i \in Bad : k <= i
    <3>1. Bad \in SUBSET Nat
      BY <1>1
    <3> HIDE DEF Bad
    <3> QED
      BY <3>1, LeastExists
  <2>2. k \in 0..Len(b) /\ ~(k <= Start(b, k + 1))
    BY <2>1
  <2>3. k # 0
    <3> SUFFICES ASSUME k = 0 PROVE FALSE
      OBVIOUS
    <3>1. k + 1 = 1 /\ Start(b, 1) = 0
      BY <1>1 DEF RunsOn
    <3> QED
      BY <2>2, <3>1
  <2> DEFINE j == k - 1
  <2>4. j \in 0..Len(b) /\ j + 1 = k /\ k \in 1..Len(b) /\ ~(k <= j)
    BY <1>1, <2>2, <2>3
  <2> HIDE DEF j
  <2>5. j \notin Bad
    BY <2>1, <2>4
  <2>6. j <= Start(b, k)
    BY <2>4, <2>5
  <2>7. Start(b, k + 1) = Start(b, k) + b[k] /\ Start(b, k) \in Nat /\ b[k] \in Nat \ {0}
    BY <1>1, <2>4 DEF RunsOn
  <2> QED
    BY <2>2, <2>4, <2>6, <2>7
<1>3. Len(b) \in 0..Len(b)
  BY <1>1
<1>4. Len(b) \notin Bad
  BY <1>2
<1> QED
  BY <1>3, <1>4 DEF Total

\* A batch's padded count is a width its body was warmed for.
LEMMA PaddedIsWarm ==
    ASSUME EngineInv, RoomyInv, Compiled, NEW r \in tables.bodies, NEW b, Request(b), Total(b) <= r
    PROVE  Padded(Len(b)) \in RowWidths(r)
<1> DEFINE n == Len(b)
           seqs == engine.max_num_seqs
           bound == 2^(MaxDoublings + 4)
           P == {2^k : k \in 0..MaxDoublings + 4}
           top == TopOf(engine)
           w == Padded(n)
<1>1. engine \in Limits /\ tables.bodies = Bodies(engine)
  BY DEF EngineInv, Sound, Tables
<1>2. seqs \in 1..bound /\ bound \in Nat
  BY <1>1, SticksAre, PowersOfTwo DEF Limits
<1>3. n \in 1..seqs /\ Batch(b)
  BY DEF Request
<1> HIDE DEF bound
<1>4. n \in 1..bound /\ n \in Nat \ {0} /\ seqs \in Nat
  BY <1>2, <1>3
<1>5. /\ w \in P /\ w \in Nat /\ w < 2 * n /\ \A q \in Powers : n <= q => w <= q
  BY <1>4, CeilWithin DEF Padded, bound
<1>6. Padded(seqs) \in P /\ Padded(seqs) \in Nat /\ seqs <= Padded(seqs)
  BY <1>2, CeilWithin DEF Padded, bound
<1>7. w <= Padded(seqs)
  <2>1. Padded(seqs) \in Powers
    <3>1. \A k \in 0..MaxDoublings + 4 : k \in Nat
      BY SticksAre
    <3> QED
      BY <1>6, <3>1 DEF Powers
  <2>2. n <= Padded(seqs)
    BY <1>3, <1>4, <1>6
  <2> QED
    BY <1>5, <2>1, <2>2
<1> HIDE DEF w, n
<1>8. r \in Nat \ {0} /\ n <= r
  <2>1. r \in Nat \ {0}
    BY <1>1, BodiesAre
  <2>2. n <= Total(b) /\ Total(b) \in Nat
    <3>1. Len(b) # 0
      BY <1>4 DEF n
    <3> QED
      BY <1>3, <3>1, CountWithin, TotalIs DEF n
  <2> QED
    BY <1>4, <2>1, <2>2
<1>9. w <= r
  <2>1. CASE r = top
    <3>1. seqs * Stick <= top
      BY DEF RoomyInv, Roomy
    <3>2. Stick \in Nat /\ Stick >= 2
      BY SticksAre, ExtentsArePowers
    <3>3. seqs * 2 <= seqs * Stick
      <4>1. Stick = 2 + (Stick - 2) /\ Stick - 2 \in Nat
        BY <3>2
      <4> DEFINE d == Stick - 2
      <4>2. seqs * (2 + d) = seqs * 2 + seqs * d /\ seqs * d \in Nat
        BY <1>4, <4>1
      <4> HIDE DEF d
      <4>3. seqs * 2 <= seqs * (2 + d)
        BY <1>4, <4>2
      <4> QED
        BY <4>1, <4>3 DEF d
    <3>4. seqs * Stick \in Nat
      BY <1>4, <3>2
    <3> DEFINE room == seqs * Stick
    <3> HIDE DEF room, top
    <3>5. 2 * n <= room /\ room <= r /\ room \in Nat
      BY <1>3, <1>4, <2>1, <3>1, <3>3, <3>4 DEF room, n
    <3> QED
      BY <1>4, <1>5, <1>8, <3>5
  <2>2. CASE r # top
    <3>1. r \in Extents
      BY <1>1, <2>2, TopIs
    <3>2. r \in Powers
      BY <3>1, ExtentsArePowers
    <3> QED
      BY <1>5, <1>8, <3>2
  <2> QED
    BY <2>1, <2>2
<1>10. w \in RowWidths(r)
  BY <1>5, <1>7, <1>9 DEF RowWidths
<1> QED
  BY <1>10 DEF w, n

\* A rectangle of a step is an offered one.
Chosen(g, r) == \E x \in Offered : g.extent = x.extent /\ g.width = x.width /\ x.extent * x.width = r

LEMMA RectangleIsOffered ==
    ASSUME EngineInv, NEW b, NEW r, RectangleFor(b, r) # NoGrid
    PROVE  Chosen(RectangleFor(b, r), r)
<1> DEFINE S == RectanglesFor(b, r)
           x == CHOOSE x \in S : \A y \in S : x.extent <= y.extent
<1>1. S # {} /\ RectangleFor(b, r) = Grid(x, b)
  BY DEF RectangleFor
<1>2. \A y \in S : y \in Offered /\ y.extent * y.width = r
  BY DEF RectanglesFor
<1>3. x \in S
  <2> DEFINE E == {y.extent : y \in S}
  <2>1. E \in SUBSET Nat /\ E # {}
    <3>1. \A y \in S : y.extent \in Nat
      <4>1. Offered \subseteq tables.rectangles
        BY DEF Offered
      <4> QED
        BY <1>2, <4>1, RectanglesAre, SticksAre
    <3> QED
      BY <1>1, <3>1
  <2>2. PICK m \in E : \A z \in E : m <= z
    <3> HIDE DEF E
    <3> QED
      BY <2>1, LeastExists
  <2>3. \E y \in S : \A z \in S : y.extent <= z.extent
    BY <2>2
  <2> QED
    BY <2>3, Zenon
<1> HIDE DEF x, S
<1>4. x \in Offered /\ x.extent * x.width = r
  BY <1>2, <1>3
<1> QED
  BY <1>1, <1>4 DEF Grid, Chosen

\* The length a request's tokens are gathered at is one of the engine's.
LEMMA BucketIs ==
    ASSUME EngineInv, NEW n \in Nat, n <= engine.max_model_len
    PROVE  NextBucket(n, tables.lengths) \in tables.lengths
<1> DEFINE fit == {x \in tables.lengths : n <= x}
           limit == AlignUpPow2(engine.max_model_len)
<1>1. engine \in Limits /\ tables.lengths = Lengths(engine)
  BY DEF EngineInv, Sound, Tables
<1>2. engine.max_model_len \in 1..(Stick * 2^MaxDoublings) /\ Stick * 2^MaxDoublings \in Nat
      /\ engine.query_buckets \in SUBSET (1..(Stick * 2^MaxDoublings))
  BY <1>1, SticksAre DEF Limits
<1>3. limit \in Extents /\ limit \in Nat /\ engine.max_model_len <= limit /\ engine.max_model_len \in Nat
  BY <1>2, RoundsUp, SticksAre
<1>4. limit \in Lengths(engine)
  BY <1>3 DEF Lengths
<1>5. \A x \in Lengths(engine) : x \in Nat
  <2>1. \A v \in engine.query_buckets : AlignUpPow2(v) \in Nat
    BY <1>2, RoundsUp
  <2>2. \A x \in Extents : x \in Nat
    BY SticksAre
  <2> HIDE DEF limit
  <2> QED
    BY <1>3, <2>1, <2>2 DEF Lengths, limit
<1> HIDE DEF limit
<1>6. fit \in SUBSET Nat /\ limit \in fit
  <2>1. \A x \in fit : x \in Lengths(engine)
    BY <1>1
  <2>2. n <= limit
    BY <1>3
  <2>3. limit \in fit
    BY <1>1, <1>4, <2>2
  <2> HIDE DEF fit
  <2> QED
    BY <1>5, <2>1, <2>3
<1>7. NextBucket(n, tables.lengths) = LeastOf(fit)
  BY <1>6 DEF NextBucket
<1>8. LeastOf(fit) \in fit
  <2> HIDE DEF fit
  <2> QED
    BY <1>6, LeastIs
<1> QED
  BY <1>7, <1>8

\* What pooling may still compile.
PoolExcused(k) == k.kind = "slices" \/ (k.kind = "gather" /\ k.a > k.rows)

LEMMA PoolingIsWarm ==
    ASSUME EngineInv, RoomyInv, NEW r \in tables.bodies, NEW b, Request(b), Total(b) <= r,
           NEW g, g # NoGrid => Chosen(g, r), NEW tasks, NEW k \in PoolKeys(b, tasks, r, g)
    PROVE  k \in PoolerKeys(r) \/ PoolExcused(k)
<1> DEFINE direct == GridDirect(tasks, g)
           w == Padded(Len(b))
           lanes == IF direct /\ engine.pool = "MEAN" THEN Lesser(w, r \div g.extent) ELSE w
           ofBody == {x \in tables.rectangles : x.extent * x.width = r}
           shapes == IF engine.pool # "MEAN" THEN {}
                     ELSE UNION {{[extent |-> x.extent, lanes |-> Lesser(v, x.width)] : v \in RowWidths(r)} : x \in ofBody}
           widths == RowWidths(r) \cup {s.lanes : s \in shapes}
<1>1. Compiled /\ engine.tail # "host"
  BY DEF PoolKeys
<1>2. \/ k = Key("gather", r, r, 0) /\ g # NoGrid
      \/ k = Key("slices", r, 0, 0)
      \/ \E i \in DOMAIN b : k = Key("gather", r, NextBucket(b[i], tables.lengths), 0)
      \/ k = Key("head", 0, lanes, 0)
      \/ k = Key("gather", r, w, 0)
      \/ k = Key("mean", r, g.extent, lanes) /\ engine.pool = "MEAN" /\ direct
  BY <1>1, Zenon DEF PoolKeys
<1>3. /\ \A v \in widths : Key("gather", r, v, 0) \in PoolerKeys(r) /\ Key("head", 0, v, 0) \in PoolerKeys(r)
      /\ \A s \in shapes : Key("mean", r, s.extent, s.lanes) \in PoolerKeys(r)
      /\ \A x \in tables.lengths : x <= r => Key("gather", r, x, 0) \in PoolerKeys(r)
      /\ tables.rectangles # {} => Key("gather", r, r, 0) \in PoolerKeys(r)
  BY <1>1 DEF PoolerKeys
<1>4. w \in RowWidths(r)
  BY <1>1, PaddedIsWarm
<1>5. g # NoGrid => \E x \in tables.rectangles : g.extent = x.extent /\ g.width = x.width /\ x.extent * x.width = r
  BY DEF Chosen, Offered
<1> HIDE DEF direct, w
<1>6. direct => g # NoGrid
  BY DEF direct, GridDirect
<1>7. direct /\ engine.pool = "MEAN" => [extent |-> g.extent, lanes |-> lanes] \in shapes
  <2> SUFFICES ASSUME direct, engine.pool = "MEAN" PROVE [extent |-> g.extent, lanes |-> lanes] \in shapes
    OBVIOUS
  <2>1. PICK x \in tables.rectangles : g.extent = x.extent /\ g.width = x.width /\ x.extent * x.width = r
    BY <1>5, <1>6
  <2>2. x.extent \in Nat \ {0} /\ x.width \in Nat
    BY RectanglesAre, SticksAre
  <2>3. r \div x.extent = x.width
    <3> DEFINE h == x.extent  v == x.width
    <3>1. h \in Nat \ {0} /\ v \in Nat /\ 0 \in 0..(h - 1) /\ h * v = r
      BY <2>1, <2>2
    <3> HIDE DEF h, v
    <3>2. (v * h + 0) \div h = v /\ v * h + 0 = h * v
      BY <3>1, PartsOfSum
    <3>3. r \div h = v
      BY <3>1, <3>2
    <3> QED
      BY <3>3 DEF h, v
  <2>4. lanes = Lesser(w, x.width)
    BY <2>1, <2>3
  <2>5. x \in ofBody
    BY <2>1
  <2> HIDE DEF lanes, ofBody
  <2> QED
    BY <1>4, <2>1, <2>4, <2>5
<1>8. lanes \in widths /\ w \in widths
  <2>1. CASE direct /\ engine.pool = "MEAN"
    <3> HIDE DEF lanes, shapes
    <3> DEFINE s == [extent |-> g.extent, lanes |-> lanes]
    <3>1. s \in shapes /\ s.lanes = lanes
      BY <1>7, <2>1
    <3> HIDE DEF s
    <3> QED
      BY <1>4, <3>1
  <2>2. CASE ~(direct /\ engine.pool = "MEAN")
    <3> HIDE DEF shapes
    <3> QED
      BY <1>4, <2>2
  <2> QED
    BY <2>1, <2>2
<1> HIDE DEF lanes, widths, ofBody
<1>9. CASE k = Key("gather", r, r, 0) /\ g # NoGrid
  BY <1>3, <1>5, <1>9
<1>10. CASE k = Key("slices", r, 0, 0)
  BY <1>10 DEF Key, PoolExcused
<1>11. ASSUME NEW i \in DOMAIN b, k = Key("gather", r, NextBucket(b[i], tables.lengths), 0)
       PROVE  k \in PoolerKeys(r) \/ PoolExcused(k)
  <2> DEFINE x == NextBucket(b[i], tables.lengths)
  <2>1. b[i] \in Nat /\ b[i] <= engine.max_model_len
    BY DEF Request, Batch
  <2>2. x \in tables.lengths
    BY <2>1, BucketIs
  <2>3. k = Key("gather", r, x, 0)
    BY <1>11
  <2>4. x \in Nat /\ r \in Nat
    <3>1. /\ engine \in Limits /\ tables.lengths = Lengths(engine) /\ tables.bodies = Bodies(engine)
      BY DEF EngineInv, Sound, Tables
    <3>2. engine.max_model_len \in 1..(Stick * 2^MaxDoublings)
          /\ engine.query_buckets \in SUBSET (1..(Stick * 2^MaxDoublings))
      BY <3>1 DEF Limits
    <3> HIDE DEF x
    <3>3. x \in Extents
      BY <2>2, <3>1, <3>2, RoundsUp DEF Lengths
    <3> QED
      BY <3>1, <3>3, SticksAre, BodiesAre
  <2> HIDE DEF x
  <2>5. CASE x <= r
    BY <1>3, <2>2, <2>3, <2>5
  <2>6. CASE ~(x <= r)
    <3>1. k.kind = "gather" /\ k.a = x /\ k.rows = r
      BY <2>3 DEF Key
    <3> QED
      BY <2>4, <2>6, <3>1 DEF PoolExcused
  <2> QED
    BY <2>5, <2>6
<1>12. CASE k = Key("head", 0, lanes, 0)
  BY <1>3, <1>8, <1>12
<1>13. CASE k = Key("gather", r, w, 0)
  BY <1>3, <1>8, <1>13
<1>14. CASE k = Key("mean", r, g.extent, lanes) /\ engine.pool = "MEAN" /\ direct
  <2> DEFINE s == [extent |-> g.extent, lanes |-> lanes]
  <2>1. s \in shapes /\ s.lanes = lanes /\ s.extent = g.extent
    BY <1>7, <1>14
  <2> HIDE DEF s, shapes
  <2>2. Key("mean", r, s.extent, s.lanes) \in PoolerKeys(r)
    BY <1>3, <2>1
  <2> QED
    BY <1>14, <2>1, <2>2
<1> QED
  BY <1>2, <1>9, <1>10, <1>11, <1>12, <1>13, <1>14
(***************************************************************************)
(* What a step compiles.                                                   *)
(***************************************************************************)
Excused(k) ==
    \/ buffer_rows \notin tables.bodies \cap engine.compile_sizes
    \/ k.kind = "embeds" /\ engine.tail = "host"
    \/ PoolExcused(k)
    \/ k.kind = "group" /\ k.b = 1 /\ k.a \notin Usable(engine, k.rows)
    \/ /\ (k.kind = "group" /\ k.b = 1) \/ (k.kind = "body" /\ engine.mode = "inline")
       /\ GroupsAt(k.rows) = {} /\ (Offered = {} \/ engine.query_buckets # {})

\* The step's plan is still the one its rows were chosen for.
LateInv ==
    /\ stage \in {"idle", "planned"} => late = {}
    /\ stage # "idle" => plan = PlanFor(prompts, buffer_rows, NoGrid, FALSE)
    /\ \A k \in late : Excused(k)

LEMMA PlanIs ==
    ASSUME EngineInv, Ready, plan = PlanFor(prompts, buffer_rows, NoGrid, FALSE)
    PROVE  /\ plan.rect = RectangleFor(prompts, buffer_rows) /\ grid = plan.rect /\ published = plan.rect
           /\ grid # NoGrid => Chosen(grid, buffer_rows)
           /\ grid = NoGrid => plan.groups = GroupsFor(prompts, buffer_rows)
<1>1. plan.rect = RectangleFor(prompts, buffer_rows) /\ grid = plan.rect /\ published = plan.rect
  BY DEF PlanFor, Ready
<1>2. grid # NoGrid => Chosen(grid, buffer_rows)
  BY <1>1, RectangleIsOffered
<1>3. grid = NoGrid => plan.groups = GroupsFor(prompts, buffer_rows)
  BY <1>1 DEF PlanFor
<1> QED
  BY <1>1, <1>2, <1>3

\* Attention of a step on a warmed body.
LEMMA AttentionIsWarm ==
    ASSUME EngineInv, WarmInv, Compiled, phase = "serving", Ready,
           plan = PlanFor(prompts, buffer_rows, NoGrid, FALSE),
           buffer_rows \in tables.bodies \cap engine.compile_sizes,
           NEW k \in ForwardKeys(plan, published, buffer_rows)
    PROVE  k \in warm \/ Excused(k)
<1> DEFINE r == buffer_rows
<1>1. Warms /\ r \in tables.bodies /\ r \in engine.compile_sizes
  BY DEF Warms
<1>2. /\ plan.rect = RectangleFor(prompts, r) /\ grid = plan.rect /\ published = plan.rect
      /\ grid # NoGrid => Chosen(grid, r)
      /\ grid = NoGrid => plan.groups = GroupsFor(prompts, r)
  BY PlanIs
<1>3. /\ \A x \in warmedRows : KernelsWarm(x)
      /\ engine.mode = "opaque" => r \in warmedRows
      /\ engine.mode = "inline" => \A x \in TracedRectangles : BlockWarm(x)
      /\ engine.mode = "inline" => \A x \in RaggedBodies : x \in warmedRows
  BY <1>1 DEF WarmInv, BodyIsWarm
<1>4. engine.mode \in {"opaque", "inline"}
  BY DEF Compiled, EngineInv, Sound, Limits, Modes
<1>5. WarmedBodies = engine.compile_sizes
  BY <1>1 DEF WarmedBodies, FirstPhase, Compiled
<1>6. CASE Traced(published)
  <2>1. k = RectKey("block", r, grid) /\ engine.mode = "inline" /\ grid # NoGrid
    BY <1>2, <1>6 DEF ForwardKeys, Traced
  <2>2. PICK x \in Offered : grid.extent = x.extent /\ grid.width = x.width /\ x.extent * x.width = r
    BY <1>2, <2>1 DEF Chosen
  <2>3. x \in TracedRectangles
    BY <1>1, <1>5, <2>2 DEF TracedRectangles
  <2>4. BlockWarm(x)
    BY <1>3, <2>1, <2>3
  <2>5. k = RectKey("block", x.extent * x.width, x)
    BY <2>1, <2>2 DEF RectKey
  <2> QED
    BY <2>4, <2>5 DEF BlockWarm
<1>7. CASE ~Traced(published)
  <2>1. \/ k = Key("body", r, 0, 0)
        \/ k \in KernelKeys(r)
        \/ k = RectKey("rect", r, grid) /\ grid # NoGrid
        \/ grid = NoGrid /\ \E g \in GroupsFor(prompts, r) : k = Key("group", r, g.extent, Len(g.members))
    BY <1>2, <1>7 DEF ForwardKeys
  <2>2. engine.mode = "inline" => grid = NoGrid
    BY <1>2, <1>7 DEF Traced
  \* A body that was never warmed ran no ragged batch: it declares no groups.
  <2>3. r \in warmedRows \/ (engine.mode = "inline" /\ GroupsAt(r) = {})
    <3>1. CASE engine.mode = "opaque"
      BY <1>3, <3>1
    <3>2. CASE engine.mode = "inline" /\ GroupsAt(r) # {}
      <4>1. r \in RaggedBodies
        BY <1>1, <1>5, <3>2 DEF RaggedBodies
      <4> QED
        BY <1>3, <3>2, <4>1
    <3> QED
      BY <1>4, <3>1, <3>2
  <2>4. r \in warmedRows => KernelsWarm(r)
    BY <1>3
  \* On the platform's ladder such a body has a rectangle for every batch.
  <2>5. grid = NoGrid /\ GroupsAt(r) = {} => Offered = {} \/ engine.query_buckets # {}
    <3> SUFFICES ASSUME grid = NoGrid, GroupsAt(r) = {}, Offered # {}, engine.query_buckets = {} PROVE FALSE
      OBVIOUS
    <3>1. Request(prompts) /\ Total(prompts) <= r
      BY DEF Ready
    <3>2. RectangleFor(prompts, r) # NoGrid
      BY <1>1, <3>1, LadderReaches
    <3> QED
      BY <1>2, <3>2
  <2>6. CASE k = Key("body", r, 0, 0)
    <3>1. k.kind = "body" /\ k.rows = r
      BY <2>6 DEF Key
    <3>2. CASE r \in warmedRows
      BY <2>4, <2>6, <3>2 DEF KernelsWarm
    <3>3. CASE engine.mode = "inline" /\ GroupsAt(r) = {}
      BY <2>2, <2>5, <3>1, <3>3 DEF Excused
    <3> QED
      BY <2>3, <3>2, <3>3
  <2>7. CASE k \in KernelKeys(r)
    <3>1. r \notin warmedRows
      BY <2>7 DEF KernelKeys
    <3>2. engine.mode = "inline" /\ GroupsAt(r) = {}
      BY <2>3, <3>1
    <3>3. KernelKeys(r) = {}
      BY <3>2 DEF KernelKeys
    <3> QED
      BY <2>7, <3>3
  <2>8. CASE k = RectKey("rect", r, grid) /\ grid # NoGrid
    <3>1. engine.mode # "inline" /\ r \in warmedRows
      BY <2>2, <2>3, <2>8
    <3>2. PICK x \in Offered : grid.extent = x.extent /\ grid.width = x.width /\ x.extent * x.width = r
      BY <1>2, <2>8 DEF Chosen
    <3>3. x \in tables.rectangles
      BY DEF Offered
    <3>4. RectKey("rect", r, x) \in warm
      BY <2>4, <3>1, <3>2, <3>3 DEF KernelsWarm
    <3>5. k = RectKey("rect", r, x)
      BY <2>8, <3>2 DEF RectKey
    <3> QED
      BY <3>4, <3>5
  <2>9. ASSUME NEW g \in GroupsFor(prompts, r), grid = NoGrid, k = Key("group", r, g.extent, Len(g.members))
        PROVE  k \in warm \/ Excused(k)
    <3>1. Request(prompts)
      BY DEF Ready
    <3>2. \/ Declared(r, g.extent, Len(g.members))
          \/ Len(g.members) = 1 /\ (g.extent \notin Usable(engine, r) \/ GroupsAt(r) = {})
      BY <1>1, <3>1, GroupsAreDeclared
    <3>3. k.kind = "group" /\ k.rows = r /\ k.a = g.extent /\ k.b = Len(g.members)
      BY <2>9 DEF Key
    <3>4. CASE Declared(r, g.extent, Len(g.members))
      <4> DEFINE h == [extent |-> g.extent, width |-> Len(g.members)]
      <4>1. h \in GroupsAt(r) /\ h.extent = g.extent /\ h.width = Len(g.members)
        BY <3>4 DEF Declared
      <4> HIDE DEF h
      <4>2. r \in warmedRows
        BY <2>3, <4>1
      <4>3. Key("group", r, h.extent, h.width) \in warm
        BY <2>4, <4>1, <4>2 DEF KernelsWarm
      <4> QED
        BY <2>9, <4>1, <4>3
    <3>5. CASE Len(g.members) = 1 /\ g.extent \notin Usable(engine, r)
      BY <3>3, <3>5 DEF Excused
    <3>6. CASE Len(g.members) = 1 /\ GroupsAt(r) = {}
      BY <2>5, <2>9, <3>3, <3>6 DEF Excused
    <3> QED
      BY <3>2, <3>4, <3>5, <3>6
  <2> QED
    BY <2>1, <2>6, <2>7, <2>8, <2>9
<1> QED
  BY <1>6, <1>7
LEMMA ExcusedStays ==
    ASSUME UNCHANGED <<engine, tables, buffer_rows>>
    PROVE  \A k : Excused(k) => Excused(k)'
<1> SUFFICES ASSUME NEW k, Excused(k) PROVE Excused(k)'
  OBVIOUS
<1>1. UNCHANGED Offered /\ GroupsAt(k.rows)' = GroupsAt(k.rows)
  BY PlansStay
<1> QED
  BY <1>1 DEF Excused

LEMMA PlanStays ==
    ASSUME UNCHANGED <<engine, tables>>, NEW b, NEW r
    PROVE  PlanFor(b, r, NoGrid, FALSE)' = PlanFor(b, r, NoGrid, FALSE)
<1>1. UNCHANGED <<Compiled, Offered>> /\ \A x : GroupsAt(x)' = GroupsAt(x)
  BY PlansStay
<1>2. RectanglesFor(b, r)' = RectanglesFor(b, r)
  BY <1>1 DEF RectanglesFor
<1>3. RectangleFor(b, r)' = RectangleFor(b, r)
  BY <1>2 DEF RectangleFor
<1>4. _width_caps_for(r)' = _width_caps_for(r)
  BY <1>1 DEF _width_caps_for
<1>5. GroupsFor(b, r)' = GroupsFor(b, r)
  <2> DEFINE cap(x) == IF Compiled THEN WidthCap(_width_caps_for(r), x) ELSE 1
             E == {AlignUpPow2(b[i]) : i \in DOMAIN b}
             Same == GroupsFor(b, r) =
                        UNION {{[extent |-> x, members |-> m] : m \in Chunks(MembersOf(b, x), cap(x))} : x \in E}
  <2>1. Same /\ Same'
    BY DEF GroupsFor
  <2>2. \A x : cap(x)' = cap(x)
    BY <1>1, <1>4
  <2> HIDE DEF cap
  <2> QED
    BY <2>1, <2>2
<1> QED
  BY <1>3, <1>5 DEF PlanFor

LEMMA LateStarts == PoolingInit => LateInv
  BY DEF PoolingInit, LateInv

\* Between steps nothing is late, whatever warmup or the next plan writes.
LEMMA LateIdles ==
    ASSUME LateInv, stage = "idle", stage' = "idle", late' = late
    PROVE  LateInv'
  BY DEF LateInv

\* Later stages of a step add to what it compiled.
LEMMA LateAdds ==
    ASSUME LateInv, stage # "idle", UNCHANGED <<engine, tables, prompts, buffer_rows, plan>>,
           stage' \in {"laid", "attended", "answered"}, \A k \in late' : k \in late \/ Excused(k)
    PROVE  LateInv'
<1>1. PICK b, r : b = prompts /\ r = buffer_rows
  OBVIOUS
<1>2. PlanFor(b, r, NoGrid, FALSE)' = PlanFor(b, r, NoGrid, FALSE)
  BY PlanStays
<1>3. plan' = PlanFor(b, r, NoGrid, FALSE)'
  BY <1>1, <1>2 DEF LateInv
<1>4. b = prompts' /\ r = buffer_rows'
  BY <1>1
<1>5. plan' = PlanFor(prompts, buffer_rows, NoGrid, FALSE)'
  BY <1>3, <1>4
<1>6. \A k \in late' : Excused(k)'
  BY ExcusedStays DEF LateInv
<1> QED
  BY <1>5, <1>6 DEF LateInv

LEMMA LatePlanned ==
    ASSUME LateInv, NEW b \in Schedulable(engine), Planned(b)
    PROVE  LateInv'
<1>1. PICK r : r = PaddedRows(Total(b))
  OBVIOUS
<1>2. /\ stage = "idle" /\ stage' = "planned" /\ late' = late /\ UNCHANGED <<engine, tables>>
      /\ prompts' = b /\ buffer_rows' = r /\ plan' = PlanFor(b, r, NoGrid, FALSE)
  BY <1>1 DEF Planned, start
<1>3. PlanFor(b, r, NoGrid, FALSE)' = PlanFor(b, r, NoGrid, FALSE)
  BY <1>2, PlanStays
<1>4. plan' = PlanFor(prompts, buffer_rows, NoGrid, FALSE)'
  BY <1>2, <1>3
<1> QED
  BY <1>2, <1>4 DEF LateInv

LEMMA LateLaid ==
    ASSUME EngineInv, WarmInv, LateInv, Ready, phase = "serving", LaidOut
    PROVE  LateInv'
<1>1. /\ stage = "planned" /\ stage' = "laid" /\ UNCHANGED <<engine, tables, prompts, buffer_rows, plan>>
      /\ late' = IF Compiled /\ engine.model = "clip" /\ grid # NoGrid
                 THEN {EmbedKey(buffer_rows)} \ warm ELSE {}
  BY DEF LaidOut, start
<1>2. ASSUME NEW k \in late' PROVE Excused(k)
  <2>1. Compiled /\ engine.model = "clip" /\ grid # NoGrid /\ k = EmbedKey(buffer_rows) /\ k \notin warm
    BY <1>1
  <2> SUFFICES ASSUME buffer_rows \in engine.compile_sizes, engine.tail # "host" PROVE FALSE
    BY <2>1 DEF Excused, EmbedKey, Key
  <2>2. engine.tail = "spyre"
    BY DEF EngineInv, Sound, Limits, Tails
  <2>3. ~engine.v2
    <3>1. plan = PlanFor(prompts, buffer_rows, NoGrid, FALSE)
      BY <1>1 DEF LateInv
    <3>2. Chosen(grid, buffer_rows)
      BY <2>1, <3>1, PlanIs
    <3>3. Offered # {}
      BY <3>2 DEF Chosen
    <3> QED
      BY <2>1, <3>3 DEF Offered
  <2>4. k \in _warm_encoder_embed_gather
    BY <2>1, <2>2, <2>3 DEF _warm_encoder_embed_gather
  <2>5. Warms
    BY <2>1 DEF Warms
  <2> QED
    BY <2>1, <2>4, <2>5 DEF WarmInv
<1>3. late = {}
  BY <1>1 DEF LateInv
<1> QED
  BY <1>1, <1>2, LateAdds

LEMMA LateAttends ==
    ASSUME EngineInv, WarmInv, LateInv, Ready, phase = "serving", Attend
    PROVE  LateInv'
<1>1. /\ stage = "laid" /\ stage' = "attended" /\ UNCHANGED <<engine, tables, prompts, buffer_rows, plan>>
      /\ late' = late \/ late' = late \cup (ForwardKeys(plan, published, buffer_rows) \ warm)
  BY DEF Attend, start
<1>2. ASSUME NEW k \in ForwardKeys(plan, published, buffer_rows), k \notin warm PROVE Excused(k)
  <2>1. Compiled
    BY DEF ForwardKeys
  <2>2. plan = PlanFor(prompts, buffer_rows, NoGrid, FALSE)
    BY <1>1 DEF LateInv
  <2>3. CASE buffer_rows \in tables.bodies \cap engine.compile_sizes
    BY <1>2, <2>1, <2>2, <2>3, AttentionIsWarm
  <2>4. CASE buffer_rows \notin tables.bodies \cap engine.compile_sizes
    BY <2>4 DEF Excused
  <2> QED
    BY <2>3, <2>4
<1>3. \A k \in late' : k \in late \/ Excused(k)
  BY <1>1, <1>2
<1> QED
  BY <1>1, <1>3, LateAdds

LEMMA LatePools ==
    ASSUME EngineInv, RoomyInv, WarmInv, LateInv, Ready, phase = "serving", NEW tasks, Pooled(tasks)
    PROVE  LateInv'
<1>1. /\ stage = "attended" /\ stage' = "answered" /\ UNCHANGED <<engine, tables, prompts, buffer_rows, plan>>
      /\ late' = late \cup (PoolKeys(prompts, tasks, buffer_rows, grid) \ warm)
  BY DEF Pooled, start
<1>2. ASSUME NEW k \in PoolKeys(prompts, tasks, buffer_rows, grid), k \notin warm PROVE Excused(k)
  <2>1. Compiled
    BY DEF PoolKeys
  <2>2. plan = PlanFor(prompts, buffer_rows, NoGrid, FALSE)
    BY <1>1 DEF LateInv
  <2>3. CASE buffer_rows \in tables.bodies \cap engine.compile_sizes
    <3>1. Warms
      BY <2>1, <2>3 DEF Warms
    <3>2. PoolerKeys(buffer_rows) \subseteq warm
      BY <2>3, <3>1 DEF WarmInv, BodyIsWarm
    <3>3. Request(prompts) /\ Total(prompts) <= buffer_rows /\ (grid # NoGrid => Chosen(grid, buffer_rows))
      BY <2>2, PlanIs DEF Ready
    <3>4. k \in PoolerKeys(buffer_rows) \/ PoolExcused(k)
      BY <2>3, <3>3, PoolingIsWarm
    <3> QED
      BY <1>2, <3>2, <3>4 DEF Excused
  <2>4. CASE buffer_rows \notin tables.bodies \cap engine.compile_sizes
    BY <2>4 DEF Excused
  <2> QED
    BY <2>3, <2>4
<1>3. \A k \in late' : k \in late \/ Excused(k)
  BY <1>1, <1>2
<1> QED
  BY <1>1, <1>3, LateAdds

WarmupInv == EngineInv /\ RoomyInv /\ WarmInv /\ StepInv /\ LateInv

LEMMA LateStep == WarmupInv /\ [PoolingNext]_pooling_vars => LateInv'
<1> SUFFICES ASSUME WarmupInv, [PoolingNext]_pooling_vars PROVE LateInv'
  OBVIOUS
<1>0. EngineInv /\ RoomyInv /\ WarmInv /\ StepInv /\ LateInv
  BY DEF WarmupInv
<1>1. CASE DummyBody \/ BodiesDone \/ WarmRectangle \/ RectanglesDone \/ WarmRagged \/ RaggedDone
  <2>1. phase # "serving" /\ stage' = stage /\ late' = late
    BY <1>1 DEF DummyBody, BodiesDone, WarmRectangle, RectanglesDone, WarmRagged, RaggedDone, DummyRun, step
  <2>2. stage = "idle"
    BY <1>0, <2>1 DEF StepInv
  <2> QED
    BY <1>0, <2>1, <2>2, LateIdles
<1>2. ASSUME NEW b \in Schedulable(engine), Build(b) \/ prepare_attn(b) PROVE LateInv'
  BY <1>0, <1>2, LatePlanned DEF Build, prepare_attn
<1>3. CASE LayOut \/ prepare_inputs
  <2>1. LaidOut /\ stage = "planned"
    BY <1>3 DEF LayOut, prepare_inputs, LaidOut
  <2> QED
    BY <1>0, <2>1, LateLaid DEF StepInv
<1>4. CASE Attend
  <2>1. stage = "laid"
    BY <1>4 DEF Attend
  <2> QED
    BY <1>0, <1>4, <2>1, LateAttends DEF StepInv
<1>5. ASSUME NEW tasks \in [DOMAIN prompts -> Tasks], Pool(tasks) \/ pool(tasks) PROVE LateInv'
  <2>1. Pooled(tasks) /\ stage = "attended"
    BY <1>5 DEF Pool, pool, Pooled
  <2> QED
    BY <1>0, <2>1, LatePools DEF StepInv
<1>6. CASE Finish
  <2>1. stage' = "idle" /\ late' = {}
    BY <1>6 DEF Finish
  <2> QED
    BY <2>1 DEF LateInv
<1>7. CASE UNCHANGED pooling_vars
  <2>1. UNCHANGED <<engine, tables, stage, late, prompts, buffer_rows, plan>>
    BY <1>7 DEF pooling_vars
  <2>2. CASE stage = "idle"
    BY <1>0, <2>1, <2>2, LateIdles
  <2>3. CASE stage # "idle"
    <3>1. PICK b, r : b = prompts /\ r = buffer_rows
      OBVIOUS
    <3>2. PlanFor(b, r, NoGrid, FALSE)' = PlanFor(b, r, NoGrid, FALSE)
      BY <2>1, PlanStays
    <3>3. plan' = PlanFor(b, r, NoGrid, FALSE)' /\ b = prompts' /\ r = buffer_rows'
      BY <1>0, <2>1, <2>3, <3>1, <3>2 DEF LateInv
    <3>4. plan' = PlanFor(prompts, buffer_rows, NoGrid, FALSE)'
      BY <3>3
    <3>5. \A k \in late' : Excused(k)'
      BY <1>0, <2>1, ExcusedStays DEF LateInv
    <3> QED
      BY <1>0, <2>1, <3>4, <3>5 DEF LateInv
  <2> QED
    BY <2>2, <2>3
<1> QED
  BY <1>1, <1>2, <1>3, <1>4, <1>5, <1>6, <1>7 DEF PoolingNext

\* For any limits, batches and tasks: after warmup a step compiles nothing but on rows no declared
\* body has, in a batch of several tasks, in a gather longer than its body, in the gather of
\* embeddings of a pooler on the host, and in the groups of one request that the tables leave out.
THEOREM WarmupCoversSteps == PoolingSpec => []LateOnlyWhereTablesAreSilent
<1>1. WarmupInv => LateOnlyWhereTablesAreSilent
  BY DEF WarmupInv, LateInv, Excused, PoolExcused, LateOnlyWhereTablesAreSilent
<1>2. PoolingInit => WarmupInv
  BY EngineStarts, RoomyStarts, WarmStarts, StepStarts, LateStarts DEF WarmupInv
<1>3. WarmupInv /\ [PoolingNext]_pooling_vars => WarmupInv'
  BY EngineStep, RoomyStep, WarmStep, StepKeeps, LateStep DEF WarmupInv
<1> QED
  BY <1>1, <1>2, <1>3, PTL DEF PoolingSpec
=============================================================================
