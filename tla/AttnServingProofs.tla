------------------------- MODULE AttnServingProofs -------------------------
(* Proofs about AttnServing: rounding, the sizes of one sequence, and that  *)
(* serving reaches only kernels that warmup recorded.  Then, on their own,  *)
(* what NfsUvCache keeps for any jobs, lockfiles, pull requests and --keep. *)
EXTENDS AttnServing, NfsUvCache, FiniteSetTheorems, SequenceTheorems, TLAPS

(***************************************************************************)
(* Least and greatest elements.                                            *)
(***************************************************************************)

\* A non-empty set of naturals has a least element.
LEMMA LeastExists ==
    ASSUME NEW S \in SUBSET Nat, S # {}
    PROVE  \E m \in S : \A x \in S : m <= x
<1> DEFINE Below == {ss \in Nat \X Nat : ss[1] < ss[2]}
<1>1. IsWellFoundedOn(Below, Nat)
  BY NatLessThanWellFounded, Zenon DEF OpToRel
<1> HIDE DEF Below
<1>2. PICK m \in S : \A x \in S : ~(<<x, m>> \in Below)
  BY <1>1, WFMin, Zenon
<1>3. ASSUME NEW x \in S PROVE m <= x
  <2>1. ~(<<x, m>> \in Below)
    BY <1>2
  <2> QED
    BY <2>1 DEF Below
<1> QED
  BY <1>3

\* A non-empty, bounded set of naturals has a greatest element, and MaxOf is it.
LEMMA MaxOfIsGreatest ==
    ASSUME NEW S \in SUBSET Nat, S # {}, NEW u \in Nat, \A x \in S : x <= u
    PROVE  MaxOf(S) \in S /\ \A x \in S : x <= MaxOf(S)
<1> DEFINE T == {u - x : x \in S}
<1>0. \A x \in S : u - x \in Nat
  OBVIOUS
<1>1. T \in SUBSET Nat /\ T # {}
  BY <1>0
<1>2. PICK t \in T : \A y \in T : t <= y
  BY <1>1, LeastExists
<1>3. PICK m \in S : t = u - m
  BY <1>2
<1>4. \A x \in S : x <= m
  BY <1>2, <1>3
<1> QED
  BY <1>3, <1>4 DEF MaxOf

\* A bucket that is not None was found in the list, whatever was looked up.
LEMMA RoundUpFound ==
    ASSUME NEW S \in Buckets, NEW n, RoundUp(n, S) # None
    PROVE  RoundUp(n, S) \in S
<1> DEFINE T == {b \in S : n <= b}
<1>1. T \in SUBSET Nat /\ T # {}
  BY DEF Buckets, RoundUp
<1>2. \E m \in T : \A x \in T : m <= x
  BY <1>1, LeastExists
<1>3. MinOf(T) \in T
  BY <1>2 DEF MinOf
<1> QED
  BY <1>1, <1>3 DEF RoundUp

\* What RoundUp returns where some bucket fits.
LEMMA RoundUpFits ==
    ASSUME NEW S \in Buckets, NEW n \in Nat, \E b \in S : n <= b
    PROVE  /\ RoundUp(n, S) \in S
           /\ n <= RoundUp(n, S)
           /\ \A c \in S : n <= c => RoundUp(n, S) <= c
<1> DEFINE T == {b \in S : n <= b}
<1>1. T \in SUBSET Nat /\ T # {}
  BY DEF Buckets
<1>2. \E m \in T : \A x \in T : m <= x
  BY <1>1, LeastExists
<1>3. MinOf(T) \in T /\ \A x \in T : MinOf(T) <= x
  BY <1>2 DEF MinOf
<1>4. RoundUp(n, S) = MinOf(T)
  BY <1>1 DEF RoundUp
<1> QED
  BY <1>3, <1>4

\* A bucket is what it rounds up to.
LEMMA RoundUpFixed ==
    ASSUME NEW S \in Buckets, NEW b \in S
    PROVE  RoundUp(b, S) = b
<1>1. b \in Nat
  BY DEF Buckets
<1>2. RoundUp(b, S) \in S /\ b <= RoundUp(b, S) /\ RoundUp(b, S) <= b
  BY <1>1, RoundUpFits
<1>3. RoundUp(b, S) \in Nat
  BY <1>2 DEF Buckets
<1> QED
  BY <1>1, <1>2, <1>3

(***************************************************************************)
(* Block counts.                                                           *)
(***************************************************************************)

\* The blocks of a length hold it, and n full blocks are n blocks.
LEMMA CeilDivCovers ==
    ASSUME NEW a \in Nat, NEW b \in Nat \ {0}
    PROVE  CeilDiv(a, b) \in Nat /\ a <= CeilDiv(a, b) * b
  BY DEF CeilDiv

LEMMA CeilDivLeast ==
    ASSUME NEW a \in Nat, NEW b \in Nat \ {0}, NEW n \in Nat, a <= n * b
    PROVE  CeilDiv(a, b) <= n
  BY DEF CeilDiv

LEMMA CeilDivExact ==
    ASSUME NEW n \in Nat, NEW b \in Nat \ {0}
    PROVE  CeilDiv(n * b, b) = n
  BY DEF CeilDiv

(***************************************************************************)
(* One sequence: its sizes are those of a recorded variant.                *)
(***************************************************************************)

\* The bucket a query length lands on is one the bound in variants() keeps.
LEMMA AlignedQueryIsReal ==
    ASSUME NEW q \in Nat \ {0}, q <= MaxNumBatchedTokens, q # 1 \/ 1 \in QueryBuckets
    PROVE  /\ AlignedQuery(q) \in QueryBuckets
           /\ MinRealQueryLen(AlignedQuery(q)) \in Nat
           /\ MinRealQueryLen(AlignedQuery(q)) <= q
<1> DEFINE a == AlignedQuery(q)
           Below == {x \in QueryBuckets : x < a}
<1>1. QueryBuckets \in Buckets /\ QueryBuckets \subseteq Nat
  BY ServingAssumption DEF Buckets
<1>2. \E x \in QueryBuckets : q <= x
  BY ServingAssumption, <1>1
<1>3. a \in QueryBuckets /\ \A x \in QueryBuckets : q <= x => a <= x
  <2>1. CASE q <= 1
    <3>1. a = 1
      BY <2>1 DEF AlignedQuery
    <3>2. 1 \in QueryBuckets
      BY <2>1
    <3> QED
      BY <3>1, <3>2, <1>1, <2>1 DEF Buckets
  <2>2. CASE ~(q <= 1)
    BY <2>2, <1>1, <1>2, RoundUpFits DEF AlignedQuery
  <2> QED
    BY <2>1, <2>2
<1> HIDE DEF a
<1>4. CASE Below = {}
  <2>1. MinRealQueryLen(a) = 1
    BY <1>4 DEF MinRealQueryLen
  <2> QED
    BY <2>1, <1>3 DEF a
<1>5. CASE Below # {}
  <2>1. MaxOf(Below) \in Below
    <3>1. a \in Nat
      BY <1>1, <1>3
    <3>2. Below \in SUBSET Nat
      BY <1>1
    <3>3. \A x \in Below : x <= a
      BY <3>1, <3>2
    <3> HIDE DEF Below
    <3> QED
      BY <3>1, <3>2, <3>3, <1>5, MaxOfIsGreatest
  <2>2. MinRealQueryLen(a) = MaxOf(Below) + 1
    BY <1>5 DEF MinRealQueryLen
  <2>3. MaxOf(Below) \in Nat /\ MaxOf(Below) < a /\ MaxOf(Below) \in QueryBuckets
    BY <2>1, <1>1
  <2>4. ~(q <= MaxOf(Below))
    BY <2>3, <1>3, <1>1
  <2> QED
    BY <2>2, <2>3, <2>4, <1>3 DEF a
<1> QED
  BY <1>3, <1>4, <1>5 DEF a

\* Every length the engine may schedule has a block bucket that holds it.
LEMMA PaddedBlocksCover ==
    ASSUME NEW kv \in Nat, kv <= MaxModelLen
    PROVE  /\ PadBlocks(RealBlocks(kv)) \in BlocksBuckets
           /\ RealBlocks(kv) \in Nat
           /\ RealBlocks(kv) <= PadBlocks(RealBlocks(kv))
           /\ kv <= PadBlocks(RealBlocks(kv)) * BlockSize
<1>1. BlocksBuckets \in Buckets /\ BlocksBuckets \subseteq Nat /\ BlockSize \in Nat \ {0}
  BY ServingAssumption DEF Buckets
<1>2. PICK n \in BlocksBuckets : MaxModelLen <= n * BlockSize
  BY ServingAssumption
<1>3. MaxModelLen \in Nat /\ n \in Nat /\ n * BlockSize \in Nat
  BY ServingAssumption, <1>1
<1>4. kv <= n * BlockSize
  BY <1>2, <1>3
<1>5. RealBlocks(kv) \in Nat /\ RealBlocks(kv) <= n /\ kv <= RealBlocks(kv) * BlockSize
  BY <1>1, <1>3, <1>4, CeilDivCovers, CeilDivLeast DEF RealBlocks
<1>6. PadBlocks(RealBlocks(kv)) \in BlocksBuckets /\ RealBlocks(kv) <= PadBlocks(RealBlocks(kv))
  BY <1>1, <1>5, RoundUpFits DEF PadBlocks
<1>7. \A x, y, z \in Nat : x <= y => x * z <= y * z
  OBVIOUS
<1>8. kv <= PadBlocks(RealBlocks(kv)) * BlockSize
  <2>1. PadBlocks(RealBlocks(kv)) \in Nat
    BY <1>6, <1>1
  <2>2. RealBlocks(kv) * BlockSize <= PadBlocks(RealBlocks(kv)) * BlockSize
    BY <2>1, <1>1, <1>5, <1>6, <1>7
  <2>3. RealBlocks(kv) * BlockSize \in Nat /\ PadBlocks(RealBlocks(kv)) * BlockSize \in Nat
    BY <2>1, <1>1, <1>5
  <2> QED
    BY <2>2, <2>3, <1>5
<1> QED
  BY <1>5, <1>6, <1>8

\* A recording of n full blocks computes n blocks, so it stands for every
\* length that is padded to them.
LEMMA FullBlocks ==
    ASSUME NEW n \in BlocksBuckets
    PROVE  PadBlocks(RealBlocks(n * BlockSize)) = n
<1>1. BlocksBuckets \in Buckets /\ n \in Nat /\ BlockSize \in Nat \ {0}
  BY ServingAssumption DEF Buckets
<1> QED
  BY <1>1, CeilDivExact, RoundUpFixed DEF PadBlocks, RealBlocks

LEMMA SameKernel ==
    ASSUME NEW kv, NEW a, PadBlocks(RealBlocks(kv)) \in BlocksBuckets
    PROVE  KernelBlocks(PadBlocks(RealBlocks(kv)) * BlockSize, a) = KernelBlocks(kv, a)
  BY FullBlocks DEF KernelBlocks

\* The per-sequence loop reaches only keys of listed variants, but for a single
\* token that has no bucket.
LEMMA LoopKeyListed ==
    ASSUME NEW b \in Batches, NEW s \in DOMAIN b, ~UnlistedDecode(SequenceKey(b[s]))
    PROVE  \E v \in Variants : SequenceKey(b[s]) = VariantKey(v)
<1>1. /\ b[s].q \in Nat \ {0} /\ b[s].kv \in Nat
      /\ b[s].q <= b[s].kv /\ b[s].q <= MaxNumBatchedTokens /\ b[s].kv <= MaxModelLen
  <2>1. b \in Seq(Requests)
    BY BatchAssumption
  <2>2. b[s] \in Requests
    BY <2>1
  <2> QED
    BY <2>2, BatchAssumption DEF Requests
<1> DEFINE n == PadBlocks(RealBlocks(b[s].kv))
           a == AlignedQuery(b[s].q)
           v == [num_blocks |-> n, query |-> a]
<1>2. n \in BlocksBuckets /\ b[s].kv <= n * BlockSize
  BY <1>1, PaddedBlocksCover
<1>3. a \in QueryBuckets /\ MinRealQueryLen(a) \in Nat /\ MinRealQueryLen(a) <= b[s].q
  <2>1. b[s].q # 1 \/ 1 \in QueryBuckets
    BY DEF UnlistedDecode, SequenceKey, PageKey, AlignedQuery
  <2> QED
    BY <1>1, <2>1, AlignedQueryIsReal
<1>4. n * BlockSize \in Nat
  <2>1. BlocksBuckets \subseteq Nat /\ BlockSize \in Nat
    BY ServingAssumption DEF Buckets
  <2>2. n \in Nat
    BY <1>2, <2>1
  <2> HIDE DEF n
  <2> QED
    BY <2>1, <2>2
<1>5. KernelBlocks(n * BlockSize, a) = KernelBlocks(b[s].kv, a)
  BY <1>2, SameKernel
<1> HIDE DEF n, a
<1>6. v \in Variants
  BY <1>1, <1>2, <1>3, <1>4 DEF Variants
<1>7. SequenceKey(b[s]) = VariantKey(v)
  BY <1>5 DEF SequenceKey, VariantKey, a
<1> QED
  BY <1>6, <1>7

(***************************************************************************)
(* The length groups split the decode prefix.                              *)
(***************************************************************************)

\* groups deals the rows out: every row is in one group, and in no other, and no group is empty.
Splits(groups, rows) ==
    /\ groups \in Seq(SUBSET rows)
    /\ \A i \in 1..Len(groups) : groups[i] # {}
    /\ \A s \in rows : \E i \in 1..Len(groups) : s \in groups[i]
    /\ \A i, j \in 1..Len(groups) : \A s \in rows : s \in groups[i] /\ s \in groups[j] => i = j

\* The rows of a batch are finitely many.
LEMMA RowsFinite ==
    ASSUME NEW b \in Batches, NEW rows \in SUBSET DOMAIN b
    PROVE  IsFiniteSet(rows)
<1>1. b \in Seq(Requests)
  BY BatchAssumption
<1>2. Len(b) \in Nat /\ DOMAIN b = 1..Len(b)
  BY <1>1
<1>3. IsFiniteSet(1..Len(b))
  BY <1>2, FS_Interval
<1> QED
  BY <1>2, <1>3, FS_Subset

\* by_bucket deals the rows out: the rank of a row's bucket is the index of its group.
LEMMA RowsByBucketSplits ==
    ASSUME NEW b \in Batches, NEW rows \in SUBSET DOMAIN b
    PROVE  Splits(RowsByBucket(b, rows), rows)
<1> DEFINE bucket(s) == PadBlocks(DecodeBlocks(b[s].kv))
           used == {bucket(s) : s \in rows}
           rank(n) == Cardinality({m \in used : m >= n})
           groups == RowsByBucket(b, rows)
<1>1. \A s \in rows : bucket(s) \in Nat
  <2>1. ASSUME NEW n PROVE PadBlocks(n) \in Nat
    <3>1. BlocksBuckets \in Buckets /\ BlocksBuckets \subseteq Nat
      BY ServingAssumption DEF Buckets
    <3>2. CASE RoundUp(n, BlocksBuckets) = None
      BY <3>2 DEF PadBlocks, None
    <3>3. CASE RoundUp(n, BlocksBuckets) # None
      BY <3>1, <3>3, RoundUpFound DEF PadBlocks
    <3> QED
      BY <3>2, <3>3
  <2> QED
    BY <2>1
<1>2. IsFiniteSet(used) /\ Cardinality(used) \in Nat
  <2> DEFINE f == [s \in rows |-> bucket(s)]
  <2>1. f \in Surjection(rows, used)
    BY DEF Surjection
  <2>2. IsFiniteSet(rows)
    BY RowsFinite
  <2> HIDE DEF f, used
  <2>3. IsFiniteSet(used)
    BY <2>1, <2>2, FS_Surjection
  <2> QED
    BY <2>3, FS_CardinalityType
<1>3. \A s \in rows : rank(bucket(s)) \in 1..Cardinality(used)
  <2> SUFFICES ASSUME NEW s \in rows PROVE rank(bucket(s)) \in 1..Cardinality(used)
    OBVIOUS
  <2> DEFINE above == {m \in used : m >= bucket(s)}
  <2>1. above \in SUBSET used /\ bucket(s) \in above
    BY <1>1
  <2> HIDE DEF used, above, bucket
  <2>2. IsFiniteSet(above) /\ Cardinality(above) <= Cardinality(used)
    BY <1>2, <2>1, FS_Subset
  <2>3. Cardinality(above) \in Nat /\ Cardinality(above) # 0
    BY <2>1, <2>2, FS_CardinalityType, FS_EmptySet
  <2>4. Cardinality(above) \in 1..Cardinality(used)
    BY <1>2, <2>2, <2>3
  <2> QED
    BY <2>4 DEF above
<1>4. groups = [i \in 1..Cardinality(used) |-> {s \in rows : rank(bucket(s)) = i}]
  BY DEF RowsByBucket
<1>9. \A i \in 1..Cardinality(used) : \E s \in rows : rank(bucket(s)) = i
  <2> DEFINE ranks == [n \in used |-> rank(n)]
             N == 1..Cardinality(used)
  <2>1. used \subseteq Nat
    BY <1>1
  <2>2. \A n \in used : \E s \in rows : n = bucket(s)
    OBVIOUS
  <2>3. ASSUME NEW m \in used, NEW n \in used, m < n PROVE rank(n) # rank(m)
    <3> DEFINE S(x) == {y \in used : y >= x}
    <3>1. S(n) \in SUBSET S(m) /\ m \in S(m) /\ m \notin S(n) /\ S(m) \in SUBSET used
      BY <2>1, <2>3
    <3> HIDE DEF S, used
    <3>2. IsFiniteSet(S(m)) /\ (Cardinality(S(m)) = Cardinality(S(n)) => S(m) = S(n))
      BY <1>2, <3>1, FS_Subset
    <3> QED
      BY <3>1, <3>2 DEF S
  <2>4. ASSUME NEW m \in used, NEW n \in used, rank(m) = rank(n) PROVE m = n
    <3> HIDE DEF rank, used
    <3>1. m \in Nat /\ n \in Nat
      BY <2>1
    <3> QED
      BY <2>3, <2>4, <3>1
  <2>5. \A n \in used : rank(n) \in N
    <3> HIDE DEF rank, used
    <3> QED
      BY <1>3, <2>2
  <2> HIDE DEF rank, used, bucket, N
  <2>6. ranks \in Injection(used, N)
    BY <2>4, <2>5 DEF Injection, IsInjective
  <2>7. IsFiniteSet(N) /\ Cardinality(N) = Cardinality(used)
    BY <1>2, FS_Interval DEF N
  <2>8. ranks \in Surjection(used, N)
    <3> HIDE DEF ranks
    <3> QED
      BY <2>6, <2>7, FS_Injection
  <2>9. \A i \in N : \E n \in used : rank(n) = i
    BY <2>8 DEF Surjection
  <2> QED
    BY <2>2, <2>9 DEF N
<1> HIDE DEF bucket, used, rank, groups
<1>5. groups \in Seq(SUBSET rows) /\ Len(groups) = Cardinality(used)
  BY <1>2, <1>4
<1>6. \A i \in 1..Len(groups) : groups[i] = {s \in rows : rank(bucket(s)) = i}
  BY <1>4, <1>5
<1>7. \A s \in rows : \E i \in 1..Len(groups) : s \in groups[i]
  BY <1>3, <1>5, <1>6
<1>8. \A i, j \in 1..Len(groups) : \A s \in rows : s \in groups[i] /\ s \in groups[j] => i = j
  BY <1>6
<1>10. \A i \in 1..Len(groups) : groups[i] # {}
  BY <1>5, <1>6, <1>9
<1> QED
  BY <1>5, <1>7, <1>8, <1>10 DEF Splits, groups

\* What the merge loop's slice assignment leaves: one element where two were.
Replaced(g, i, e) == SubSeq(g, 1, i - 1) \o <<e>> \o SubSeq(g, i + 2, Len(g))

LEMMA PairReplaced ==
    ASSUME NEW T, NEW g \in Seq(T), NEW i \in 1..(Len(g) - 1), NEW e \in T
    PROVE  /\ Replaced(g, i, e) \in Seq(T) /\ Len(Replaced(g, i, e)) = Len(g) - 1
           /\ \A k \in 1..(Len(g) - 1) : k < i => Replaced(g, i, e)[k] = g[k]
           /\ Replaced(g, i, e)[i] = e
           /\ \A k \in 1..(Len(g) - 1) : k > i => Replaced(g, i, e)[k] = g[k + 1]
<1> DEFINE L == Len(g)
           r == Replaced(g, i, e)
           low == SubSeq(g, 1, i - 1)
           mid == <<e>>
           high == SubSeq(g, i + 2, L)
<1>1. L \in Nat /\ i \in 1..(L - 1) /\ \A k \in 1..L : g[k] \in T
  OBVIOUS
<1>2. low \in Seq(T) /\ Len(low) = i - 1 /\ \A k \in 1..(i - 1) : low[k] = g[k]
  <2> HIDE DEF L
  <2>1. 1 \in Int /\ i - 1 \in Int /\ \A k \in 1..(i - 1) : g[k] \in T
    BY <1>1
  <2>2. /\ low \in Seq(T)
        /\ Len(low) = IF 1 <= i - 1 THEN (i - 1) - 1 + 1 ELSE 0
        /\ \A k \in 1..((i - 1) - 1 + 1) : low[k] = g[1 + k - 1]
    BY <2>1, SubSeqProperties
  <2> HIDE DEF low
  <2>3. Len(low) = i - 1
    BY <1>1, <2>2
  <2>4. \A k \in 1..(i - 1) : k \in 1..((i - 1) - 1 + 1) /\ 1 + k - 1 = k
    BY <1>1
  <2> QED
    BY <2>2, <2>3, <2>4
<1>3. mid \in Seq(T) /\ Len(mid) = 1 /\ mid[1] = e
  OBVIOUS
<1>4. /\ high \in Seq(T) /\ Len(high) = L - i - 1
      /\ \A k \in 1..(L - i - 1) : high[k] = g[k + i + 1]
  <2> HIDE DEF L
  <2>1. i + 2 \in Int /\ L \in Int /\ \A k \in (i + 2)..L : g[k] \in T
    BY <1>1
  <2>2. /\ high \in Seq(T)
        /\ Len(high) = IF i + 2 <= L THEN L - (i + 2) + 1 ELSE 0
        /\ \A k \in 1..(L - (i + 2) + 1) : high[k] = g[(i + 2) + k - 1]
    BY <2>1, SubSeqProperties
  <2> HIDE DEF high
  <2>3. Len(high) = L - i - 1
    BY <1>1, <2>2
  <2>4. \A k \in 1..(L - i - 1) : k \in 1..(L - (i + 2) + 1) /\ (i + 2) + k - 1 = k + i + 1
    BY <1>1
  <2> QED
    BY <2>2, <2>3, <2>4
<1>5. r = (low \o mid) \o high
  BY DEF Replaced
<1> HIDE DEF low, mid, high, L, r
<1>6. /\ low \o mid \in Seq(T) /\ Len(low \o mid) = i
      /\ \A k \in 1..i : (low \o mid)[k] = IF k <= i - 1 THEN low[k] ELSE mid[k - (i - 1)]
  <2>1. /\ low \o mid \in Seq(T)
        /\ Len(low \o mid) = Len(low) + Len(mid)
        /\ \A k \in 1..(Len(low) + Len(mid)) :
              (low \o mid)[k] = IF k <= Len(low) THEN low[k] ELSE mid[k - Len(low)]
    BY <1>2, <1>3, ConcatProperties, Zenon
  <2>2. Len(low) = i - 1 /\ Len(low) + Len(mid) = i
    BY <1>1, <1>2, <1>3
  <2> QED
    BY <2>1, <2>2, Zenon
<1>7. /\ r \in Seq(T) /\ Len(r) = L - 1
      /\ \A k \in 1..(L - 1) : r[k] = IF k <= i THEN (low \o mid)[k] ELSE high[k - i]
  <2> DEFINE front == low \o mid
  <2>1. front \in Seq(T) /\ Len(front) = i /\ r = front \o high
    BY <1>5, <1>6, Zenon
  <2> HIDE DEF front
  <2>2. /\ front \o high \in Seq(T)
        /\ Len(front \o high) = Len(front) + Len(high)
        /\ \A k \in 1..(Len(front) + Len(high)) :
              (front \o high)[k] = IF k <= Len(front) THEN front[k] ELSE high[k - Len(front)]
    <3>1. front \in Seq(T) /\ high \in Seq(T)
      BY <1>4, <2>1
    <3> QED
      BY <3>1, ConcatProperties, Zenon
  <2>3. Len(front) + Len(high) = L - 1
    BY <1>1, <1>4, <2>1
  <2>4. /\ r \in Seq(T) /\ Len(r) = L - 1
        /\ \A k \in 1..(L - 1) : r[k] = IF k <= i THEN front[k] ELSE high[k - i]
    BY <2>1, <2>2, <2>3, Zenon
  <2> QED
    BY <2>4 DEF front
<1>8. ASSUME NEW k \in 1..(L - 1), k < i PROVE r[k] = g[k]
  <2>1. k \in 1..i /\ k \in 1..(i - 1) /\ k <= i /\ k <= i - 1
    BY <1>1, <1>8
  <2>2. r[k] = (low \o mid)[k] /\ (low \o mid)[k] = low[k] /\ low[k] = g[k]
    BY <1>2, <1>6, <1>7, <2>1, Zenon
  <2> QED
    BY <2>2
<1>9. r[i] = e
  <2>1. i \in 1..i /\ i <= i /\ ~(i <= i - 1) /\ i - (i - 1) = 1
    BY <1>1
  <2>2. (low \o mid)[i] = mid[i - (i - 1)]
    BY <1>6, <2>1, Zenon
  <2>3. r[i] = (low \o mid)[i]
    BY <1>1, <1>7, <2>1, Zenon
  <2> QED
    BY <1>3, <2>1, <2>2, <2>3, Zenon
<1>10. ASSUME NEW k \in 1..(L - 1), k > i PROVE r[k] = g[k + 1]
  <2>1. ~(k <= i) /\ k - i \in 1..(L - i - 1) /\ (k - i) + i + 1 = k + 1
    BY <1>1, <1>10
  <2>2. r[k] = high[k - i]
    BY <1>7, <2>1, Zenon
  <2>3. high[k - i] = g[(k - i) + i + 1]
    BY <1>4, <2>1, Zenon
  <2> QED
    BY <2>1, <2>2, <2>3, Zenon
<1> QED
  BY <1>7, <1>8, <1>9, <1>10 DEF L, r

\* One pass of the merge loop keeps every row in one group.
LEMMA MergePassSplits ==
    ASSUME NEW b, NEW rows, NEW groups, Splits(groups, rows)
    PROVE  Splits(MergePass(b, groups), rows)
<1> DEFINE pairs == MergeablePairs(b, groups)
<1>1. CASE pairs = {}
  <2>1. MergePass(b, groups) = groups
    BY <1>1 DEF MergePass
  <2> QED
    BY <2>1
<1>2. CASE pairs # {}
  <2> DEFINE i == CHOOSE i \in pairs : \A j \in pairs : i <= j
             merged == MergePass(b, groups)
             both == groups[i] \cup groups[i + 1]
             T == SUBSET rows
  <2>0. groups \in Seq(T) /\ Len(groups) \in Nat
    BY DEF Splits
  <2>1. pairs \in SUBSET Nat /\ pairs \subseteq 1..(Len(groups) - 1)
    BY <2>0 DEF MergeablePairs
  <2>2. i \in pairs
    <3>1. \E m \in pairs : \A x \in pairs : m <= x
      BY <1>2, <2>1, LeastExists
    <3> QED
      BY <3>1
  <2>3. i \in 1..(Len(groups) - 1)
    BY <2>1, <2>2
  <2>4. merged = Replaced(groups, i, both)
    BY <1>2 DEF MergePass, Replaced
  <2> HIDE DEF pairs, i, merged
  <2>5. both \in T
    BY <2>0, <2>3
  <2> HIDE DEF T
  <2>6. /\ merged \in Seq(T) /\ Len(merged) = Len(groups) - 1
        /\ \A k \in 1..(Len(groups) - 1) : k < i => merged[k] = groups[k]
        /\ merged[i] = both
        /\ \A k \in 1..(Len(groups) - 1) : k > i => merged[k] = groups[k + 1]
    <3> HIDE DEF both
    <3>1. groups \in Seq(T)
      BY <2>0
    <3> DEFINE r == Replaced(groups, i, both)
    <3>2. /\ r \in Seq(T) /\ Len(r) = Len(groups) - 1
          /\ \A k \in 1..(Len(groups) - 1) : k < i => r[k] = groups[k]
          /\ r[i] = both
          /\ \A k \in 1..(Len(groups) - 1) : k > i => r[k] = groups[k + 1]
      BY <2>3, <2>5, <3>1, PairReplaced
    <3>3. merged = r
      BY <2>4
    <3> HIDE DEF r
    <3> QED
      BY <3>2, <3>3
  <2>10. merged \in Seq(SUBSET rows) /\ Len(merged) = Len(groups) - 1
    BY <2>6 DEF T
  <2>11. /\ \A k \in 1..(Len(groups) - 1) : k < i => merged[k] = groups[k]
         /\ merged[i] = groups[i] \cup groups[i + 1]
         /\ \A k \in 1..(Len(groups) - 1) : k > i => merged[k] = groups[k + 1]
    BY <2>6
  <2>12. ASSUME NEW s \in rows PROVE \E k \in 1..Len(merged) : s \in merged[k]
    <3>1. PICK k \in 1..Len(groups) : s \in groups[k]
      BY DEF Splits
    <3>2. CASE k < i
      BY <2>0, <2>3, <2>10, <2>11, <3>1, <3>2
    <3>3. CASE k = i \/ k = i + 1
      BY <2>0, <2>3, <2>10, <2>11, <3>1, <3>3
    <3>4. CASE k > i + 1
      <4>1. k - 1 \in 1..(Len(groups) - 1) /\ k - 1 > i /\ (k - 1) + 1 = k
        BY <2>0, <2>3, <3>1, <3>4
      <4>2. s \in merged[k - 1]
        BY <2>11, <3>1, <4>1
      <4> QED
        BY <2>10, <4>1, <4>2
    <3> QED
      BY <2>3, <3>1, <3>2, <3>3, <3>4
  <2>13. ASSUME NEW k \in 1..(Len(groups) - 1), NEW s \in rows, s \in merged[k]
         PROVE  \E h \in 1..Len(groups) : s \in groups[h] /\ k = IF h <= i THEN h ELSE h - 1
    <3>1. CASE k < i
      BY <2>0, <2>3, <2>11, <2>13, <3>1
    <3>2. CASE k = i
      <4>1. s \in groups[i] \/ s \in groups[i + 1]
        BY <2>11, <2>13, <3>2
      <4> QED
        BY <2>0, <2>3, <3>2, <4>1
    <3>3. CASE k > i
      <4>1. k + 1 \in 1..Len(groups) /\ k = (k + 1) - 1 /\ ~(k + 1 <= i) /\ s \in groups[k + 1]
        BY <2>0, <2>3, <2>11, <2>13, <3>3
      <4> QED
        BY <4>1
    <3> QED
      BY <2>3, <3>1, <3>2, <3>3
  <2>14. ASSUME NEW k \in 1..(Len(groups) - 1), NEW h \in 1..(Len(groups) - 1), NEW s \in rows,
                s \in merged[k], s \in merged[h]
         PROVE  k = h
    <3>1. PICK kk \in 1..Len(groups) : s \in groups[kk] /\ k = IF kk <= i THEN kk ELSE kk - 1
      BY <2>13, <2>14
    <3>2. PICK hh \in 1..Len(groups) : s \in groups[hh] /\ h = IF hh <= i THEN hh ELSE hh - 1
      BY <2>13, <2>14
    <3>3. kk = hh
      BY <3>1, <3>2 DEF Splits
    <3> QED
      BY <3>1, <3>2, <3>3
  <2>15. ASSUME NEW k \in 1..(Len(groups) - 1) PROVE merged[k] # {}
    <3>1. \A h \in 1..Len(groups) : groups[h] # {}
      BY DEF Splits
    <3>2. k \in 1..Len(groups) /\ k + 1 \in 1..Len(groups) /\ (k < i \/ k = i \/ k > i)
      BY <2>0, <2>3
    <3> QED
      BY <2>11, <3>1, <3>2
  <2> QED
    BY <2>10, <2>12, <2>14, <2>15 DEF Splits, merged
<1> QED
  BY <1>1, <1>2

\* The passes of the merge loop as one function: pass[k] is what k passes leave.
\* The recursion defines one, because the least length without one would have a
\* predecessor whose function extends by a single pass.
Passes(b, first, n, g) ==
    g = [k \in 0..n |-> IF k = 0 THEN first ELSE LET last == g[k - 1] IN MergePass(b, last)]

LEMMA PassesExist ==
    ASSUME NEW b, NEW first, NEW n \in Nat
    PROVE  \E g : Passes(b, first, n, g)
<1> DEFINE Missing == {m \in Nat : ~\E g : Passes(b, first, m, g)}
<1>1. SUFFICES ASSUME Missing # {} PROVE FALSE
  OBVIOUS
<1>2. PICK m \in Missing : \A x \in Missing : m <= x
  <2> HIDE DEF Missing
  <2>1. Missing \in SUBSET Nat
    BY DEF Missing
  <2> QED
    BY <1>1, <2>1, LeastExists
<1>3. m \in Nat /\ ~\E g : Passes(b, first, m, g)
  BY <1>2
<1>4. CASE m = 0
  <2> DEFINE g == [k \in 0..0 |-> first]
  <2>1. \A k \in 0..0 : k = 0
    OBVIOUS
  <2>2. g = [k \in 0..0 |-> IF k = 0 THEN first ELSE LET last == g[k - 1] IN MergePass(b, last)]
    BY <2>1
  <2> HIDE DEF g
  <2>3. Passes(b, first, 0, g)
    BY <2>2, Zenon DEF Passes
  <2> QED
    BY <1>3, <1>4, <2>3
<1>5. CASE m # 0
  <2>1. m - 1 \in Nat /\ ~(m <= m - 1)
    BY <1>3, <1>5
  <2>2. PICK g : Passes(b, first, m - 1, g)
    BY <1>2, <2>1
  <2> DEFINE step(f, k) == IF k = 0 THEN first ELSE LET last == f[k - 1] IN MergePass(b, last)
             h == [k \in 0..m |-> step(g, k)]
  <2>3. g = [k \in 0..(m - 1) |-> step(g, k)]
    BY <2>2, Zenon DEF Passes
  <2> HIDE DEF step
  <2>4. \A k \in 0..(m - 1) : h[k] = g[k]
    <3>1. \A k \in 0..(m - 1) : g[k] = step(g, k)
      BY <2>3
    <3> QED
      BY <1>3, <3>1
  <2>5. \A k \in 0..m : k = 0 \/ (k # 0 /\ k - 1 \in 0..(m - 1))
    BY <1>3
  <2>6. \A k \in 0..m : step(g, k) = step(h, k)
    BY <2>4, <2>5, Zenon DEF step
  <2>7. h = [k \in 0..m |-> step(h, k)]
    <3> HIDE DEF h
    <3>1. h = [k \in 0..m |-> step(g, k)]
      BY DEF h
    <3> QED
      BY <2>6, <3>1, Zenon
  <2> HIDE DEF h
  <2>8. Passes(b, first, m, h)
    BY <2>7, Zenon DEF Passes, step
  <2> QED
    BY <1>3, <2>8
<1> QED
  BY <1>4, <1>5

\* However many passes the merge loop takes, its groups split the rows.
LEMMA DecodeGroupsSplit ==
    ASSUME NEW b \in Batches, NEW rows \in SUBSET DOMAIN b
    PROVE  Splits(DecodeGroups(b, rows), rows)
<1> DEFINE first == RowsByBucket(b, rows)
           pass == CHOOSE g : Passes(b, first, Len(first), g)
           Bad == {k \in 0..Len(first) : ~Splits(pass[k], rows)}
<1>1. Splits(first, rows)
  BY RowsByBucketSplits
<1>2. Len(first) \in Nat
  BY <1>1 DEF Splits
<1>3. DecodeGroups(b, rows) = pass[Len(first)]
  BY Zenon DEF DecodeGroups, Passes
<1> HIDE DEF first
<1>4. Passes(b, first, Len(first), pass)
  BY <1>2, PassesExist
<1> HIDE DEF pass
<1>5. \A k \in 0..Len(first) :
         pass[k] = IF k = 0 THEN first ELSE MergePass(b, pass[k - 1])
  BY <1>4 DEF Passes
<1>6. Bad = {}
  <2> SUFFICES ASSUME Bad # {} PROVE FALSE
    OBVIOUS
  <2>1. Bad \in SUBSET Nat
    BY <1>2
  <2>2. PICK k \in Bad : \A x \in Bad : k <= x
    <3> HIDE DEF Bad
    <3> QED
      BY <2>1, LeastExists
  <2>3. k \in 0..Len(first) /\ ~Splits(pass[k], rows)
    BY <2>2
  <2>4. k # 0
    BY <1>1, <1>5, <2>3
  <2>5. k - 1 \in 0..Len(first) /\ ~(k <= k - 1)
    BY <1>2, <2>3, <2>4
  <2>6. Splits(pass[k - 1], rows)
    BY <2>2, <2>5
  <2>7. pass[k] = MergePass(b, pass[k - 1])
    BY <1>5, <2>3, <2>4
  <2> QED
    BY <2>3, <2>6, <2>7, MergePassSplits
<1>7. Len(first) \in 0..Len(first)
  BY <1>2
<1> QED
  BY <1>3, <1>6, <1>7

(***************************************************************************)
(* Batched decode: its keys are those of recorded variants.                *)
(***************************************************************************)

LEMMA BatchedBucketsType ==
    ASSUME NEW seqs
    PROVE  /\ BatchedBlocksBuckets(seqs) \in Buckets
           /\ BlocksBuckets \subseteq BatchedBlocksBuckets(seqs)
           /\ BatchedBlocksBuckets(seqs) \subseteq DenseBuckets
  BY ServingAssumption DEF BatchedBlocksBuckets

LEMMA BatchedVariantIntro ==
    ASSUME BatchedDecode, NEW seqs \in SeqsBuckets, NEW n \in BatchedBlocksBuckets(seqs)
    PROVE  [num_seqs |-> seqs, num_blocks |-> n] \in BatchedVariants
<1>1. n \in DenseBuckets
  BY BatchedBucketsType
<1> QED
  BY <1>1 DEF BatchedVariants

\* Without a window a recording of n full blocks realises the bucket n itself,
\* on every ladder that holds it.
LEMMA RealizedWithoutWindow ==
    ASSUME Window = 0, NEW seqs, NEW n \in BatchedBlocksBuckets(seqs)
    PROVE  RealizedKey([num_seqs |-> seqs, num_blocks |-> n]) = BatchedKey(seqs, n)
<1>1. BatchedBlocksBuckets(seqs) \in Buckets
  BY BatchedBucketsType
<1>2. n \in Nat /\ BlockSize \in Nat \ {0}
  BY <1>1, ServingAssumption DEF Buckets
<1>3. DecodeBlocks(n * BlockSize) = n
  BY <1>2, CeilDivExact DEF DecodeBlocks, RealBlocks
<1>4. RoundUp(n, BatchedBlocksBuckets(seqs)) = n
  BY <1>1, RoundUpFixed
<1> QED
  BY <1>3, <1>4 DEF RealizedKey

\* Under a window the widest member has the block count of a full base bucket.
LEMMA WindowedMaximum ==
    ASSUME Window # 0, NEW b \in Batches, NEW rows \in SUBSET DOMAIN b, rows # {}
    PROVE  \E n \in BlocksBuckets : MaxBlocks(b, rows) = DecodeBlocks(n * BlockSize)
<1> DEFINE sizes == {DecodeBlocks(b[s].kv) : s \in rows}
           bound == CeilDiv(Window + 1 - 1, BlockSize) + 1
<1>1. \A s \in rows : b[s].kv \in Nat /\ b[s].kv <= MaxModelLen
  <2>1. b \in Seq(Requests)
    BY BatchAssumption
  <2>2. \A s \in DOMAIN b : b[s] \in Requests
    BY <2>1
  <2> QED
    BY <2>2, BatchAssumption DEF Requests
<1>2. \A s \in rows : /\ PadBlocks(RealBlocks(b[s].kv)) \in BlocksBuckets
                      /\ PadBlocks(RealBlocks(b[s].kv)) \in Nat
  BY <1>1, PaddedBlocksCover, ServingAssumption DEF Buckets
<1>3. bound \in Nat
  <2>1. Window + 1 - 1 \in Nat /\ BlockSize \in Nat \ {0}
    BY ServingAssumption
  <2>2. CeilDiv(Window + 1 - 1, BlockSize) \in Nat
    BY <2>1, CeilDivCovers
  <2> QED
    BY <2>2
<1>4. \A s \in rows :
         DecodeBlocks(b[s].kv) = Smaller(PadBlocks(RealBlocks(b[s].kv)), bound)
  BY DEF DecodeBlocks, KernelBlocks, MaxActiveBlocks
<1>5. \A s \in rows : DecodeBlocks(b[s].kv) \in Nat /\ DecodeBlocks(b[s].kv) <= bound
  <2> HIDE DEF bound
  <2> QED
    BY <1>2, <1>3, <1>4 DEF Smaller
<1>6. MaxOf(sizes) \in sizes
  <2>1. sizes \in SUBSET Nat /\ sizes # {} /\ \A x \in sizes : x <= bound
    BY <1>5
  <2> HIDE DEF sizes, bound
  <2> QED
    BY <2>1, <1>3, MaxOfIsGreatest
<1>7. PICK s \in rows : MaxBlocks(b, rows) = DecodeBlocks(b[s].kv)
  BY <1>6 DEF MaxBlocks
<1>8. DecodeBlocks(PadBlocks(RealBlocks(b[s].kv)) * BlockSize) = DecodeBlocks(b[s].kv)
  <2>1. KernelBlocks(PadBlocks(RealBlocks(b[s].kv)) * BlockSize, 1) = KernelBlocks(b[s].kv, 1)
    BY <1>2, SameKernel
  <2> QED
    BY <2>1 DEF DecodeBlocks
<1> QED
  BY <1>2, <1>7, <1>8

\* A length group rounds onto the base ladder, which every batch size records;
\* under a window only where the recorder rounds onto that ladder too.
LEMMA GroupKeyListed ==
    ASSUME BatchedDecode, NEW b \in Batches, NEW g \in SUBSET DOMAIN b, g # {},
           Window = 0 \/ DenseBuckets = BlocksBuckets,
           SeqsFor(g) # None, GroupBlocks(b, g) # None
    PROVE  \E v \in BatchedVariants : GroupKey(b, g) = RealizedKey(v)
<1>1. SeqsFor(g) \in SeqsBuckets
  BY ServingAssumption, RoundUpFound DEF SeqsFor
<1>2. GroupBlocks(b, g) \in BlocksBuckets
  BY ServingAssumption, RoundUpFound DEF GroupBlocks, PadBlocks
<1>3. GroupBlocks(b, g) \in BatchedBlocksBuckets(SeqsFor(g))
  BY <1>2, BatchedBucketsType
<1>4. CASE Window = 0
  <2> DEFINE v == [num_seqs |-> SeqsFor(g), num_blocks |-> GroupBlocks(b, g)]
  <2>1. v \in BatchedVariants
    BY <1>1, <1>3, BatchedVariantIntro
  <2>2. RealizedKey(v) = GroupKey(b, g)
    BY <1>3, <1>4, RealizedWithoutWindow DEF GroupKey
  <2> QED
    BY <2>1, <2>2
<1>5. CASE Window # 0
  <2>1. PICK n \in BlocksBuckets : MaxBlocks(b, g) = DecodeBlocks(n * BlockSize)
    BY <1>5, WindowedMaximum
  <2>2. DenseBuckets = BlocksBuckets
    BY <1>5
  <2> DEFINE v == [num_seqs |-> SeqsFor(g), num_blocks |-> n]
  <2>3. v \in BatchedVariants
    BY <1>1, BatchedBucketsType, BatchedVariantIntro
  <2>4. BatchedBlocksBuckets(SeqsFor(g)) = BlocksBuckets
    BY <2>2 DEF BatchedBlocksBuckets
  <2>5. RealizedKey(v) = GroupKey(b, g)
    BY <2>1, <2>4 DEF RealizedKey, GroupKey, GroupBlocks, PadBlocks
  <2> QED
    BY <2>3, <2>5
<1> QED
  BY <1>4, <1>5

\* One batched call over the whole decode prefix.
LEMMA SingleKeyListed ==
    ASSUME NEW b \in Batches, NEW rows \in SUBSET DOMAIN b, Eligible(b, rows)
    PROVE  \E v \in BatchedVariants : SingleKey(b, rows) = RealizedKey(v)
<1>1. BatchedDecode /\ rows # {} /\ SeqsFor(rows) \in SeqsBuckets
  BY ServingAssumption, RoundUpFound DEF SeqsFor, Eligible
<1>2. SingleBlocks(b, rows) \in BatchedBlocksBuckets(SeqsFor(rows))
  BY BatchedBucketsType, RoundUpFound DEF SingleBlocks, Eligible
<1>3. CASE Window = 0
  <2> DEFINE v == [num_seqs |-> SeqsFor(rows), num_blocks |-> SingleBlocks(b, rows)]
  <2>1. v \in BatchedVariants
    BY <1>1, <1>2, BatchedVariantIntro
  <2>2. RealizedKey(v) = SingleKey(b, rows)
    BY <1>2, <1>3, RealizedWithoutWindow DEF SingleKey
  <2> QED
    BY <2>1, <2>2
<1>4. CASE Window # 0
  <2>1. PICK n \in BlocksBuckets : MaxBlocks(b, rows) = DecodeBlocks(n * BlockSize)
    BY <1>1, <1>4, WindowedMaximum
  <2> DEFINE v == [num_seqs |-> SeqsFor(rows), num_blocks |-> n]
  <2>2. v \in BatchedVariants
    BY <1>1, BatchedBucketsType, BatchedVariantIntro
  <2>3. RealizedKey(v) = SingleKey(b, rows)
    BY <2>1 DEF RealizedKey, SingleKey, SingleBlocks
  <2> QED
    BY <2>2, <2>3
<1> QED
  BY <1>3, <1>4

(***************************************************************************)
(* A plan's keys.                                                          *)
(***************************************************************************)
ListedKeys == {VariantKey(v) : v \in Variants}

FittingKeys == {k \in {RealizedKey(v) : v \in BatchedVariants} : FitsCache(k)}

StoreKeys == IF BatchedDecode /\ JaggedDecode THEN {ScatterKey(n) : n \in SeqsBuckets} ELSE {}

\* Keys the recorder does not list although a plan reaches them.
Unlisted(kern) == UnlistedDecode(kern) \/ DenseWindowGroup(kern)

LEMMA PlanKeysListed ==
    ASSUME NEW b \in Batches, NEW kern \in Plan(b).keys, ~Unlisted(kern)
    PROVE  kern \in ListedKeys \cup FittingKeys \cup StoreKeys
<1> DEFINE rows == DecodePrefix(b)
           rest == DOMAIN b \ rows
           groups == IF Eligible(b, rows) THEN GroupsOrNone(b, rows) ELSE <<>>
<1>1. rows \subseteq DOMAIN b
  BY DEF DecodePrefix
<1>2. ASSUME NEW S \in SUBSET DOMAIN b, kern \in LoopKeys(b, S) PROVE kern \in ListedKeys
  BY <1>2, LoopKeyListed DEF LoopKeys, ListedKeys, Unlisted
<1>3. CASE groups # <<>> /\ \A i \in DOMAIN groups : FitsCache(GroupKey(b, groups[i]))
  <2>1. /\ Eligible(b, rows) /\ groups = GroupsOrNone(b, rows)
        /\ GroupsOrNone(b, rows) # <<>>
    BY <1>3
  <2>2. /\ BatchedDecode /\ JaggedDecode
        /\ \A i \in DOMAIN groups :
              SeqsFor(groups[i]) # None /\ GroupBlocks(b, groups[i]) # None
    BY <2>1 DEF Eligible, GroupsOrNone
  <2>3. Plan(b).keys = GroupKeys(b, groups) \cup LoopKeys(b, rest)
    BY <1>3 DEF Plan
  <2> HIDE DEF groups
  <2>4. ASSUME NEW i \in DOMAIN groups
        PROVE  /\ GroupKey(b, groups[i]) = kern => kern \in FittingKeys
               /\ ScatterKey(SeqsFor(groups[i])) \in StoreKeys
    <3>1. groups[i] \in SUBSET DOMAIN b /\ groups[i] # {}
      <4>1. Splits(groups, rows)
        BY <1>1, <2>1, DecodeGroupsSplit DEF GroupsOrNone
      <4>2. DOMAIN groups = 1..Len(groups) /\ groups[i] \in SUBSET rows /\ groups[i] # {}
        BY <4>1 DEF Splits
      <4> QED
        BY <1>1, <4>2
    <3>2. ASSUME GroupKey(b, groups[i]) = kern
          PROVE  \E v \in BatchedVariants : GroupKey(b, groups[i]) = RealizedKey(v)
      <4>1. Window = 0 \/ DenseBuckets = BlocksBuckets
        BY <2>2, <3>2 DEF Unlisted, DenseWindowGroup, GroupKey, BatchedKey
      <4> QED
        BY <2>2, <3>1, <4>1, GroupKeyListed
    <3>3. SeqsFor(groups[i]) \in SeqsBuckets
      BY <2>2, ServingAssumption, RoundUpFound DEF SeqsFor
    <3> QED
      BY <1>3, <2>2, <3>2, <3>3 DEF FittingKeys, StoreKeys
  <2>5. kern \in GroupKeys(b, groups) => kern \in FittingKeys \cup StoreKeys
    BY <2>4 DEF GroupKeys
  <2> QED
    BY <2>3, <2>5, <1>2
<1>4. CASE /\ ~(groups # <<>> /\ \A i \in DOMAIN groups : FitsCache(GroupKey(b, groups[i])))
           /\ Eligible(b, rows) /\ FitsCache(SingleKey(b, rows))
  <2>1. Plan(b).keys = {SingleKey(b, rows)} \cup LoopKeys(b, rest)
    BY <1>4 DEF Plan
  <2>2. SingleKey(b, rows) \in FittingKeys
    BY <1>1, <1>4, SingleKeyListed DEF FittingKeys
  <2> QED
    BY <2>1, <2>2, <1>2
<1>5. CASE /\ ~(groups # <<>> /\ \A i \in DOMAIN groups : FitsCache(GroupKey(b, groups[i])))
           /\ ~(Eligible(b, rows) /\ FitsCache(SingleKey(b, rows)))
  <2>1. Plan(b).keys = LoopKeys(b, DOMAIN b)
    BY <1>5 DEF Plan
  <2> QED
    BY <2>1, <1>2
<1> QED
  BY <1>3, <1>4, <1>5

(***************************************************************************)
(* The inductive invariant.                                                *)
(***************************************************************************)
Visited(v) == phase # "pages" \/ v \notin todo
BatchedVisited(v) == phase = "serve" \/ (phase = "batched" /\ v \notin todo)

PagesRecorded ==
    \A v \in Variants :
        Visited(v) => v.num_blocks > NumPages \/ VariantKey(v) \in compiled \cup lost

BatchedRecorded ==
    \A v \in BatchedVariants :
        BatchedVisited(v) /\ FitsCache(RealizedKey(v)) => RealizedKey(v) \in compiled \cup lost

RecordInv ==
    /\ phase \in {"pages", "batched", "serve"}
    /\ PagesRecorded
    /\ BatchedRecorded
    /\ phase = "serve" => StoreKeys \subseteq compiled
    /\ \A kern \in late : kern \in lost \cup Oversize \/ Unlisted(kern)

\* Recording one kern leaves it compiled or lost, and loses nothing that was either.
LEMMA RecordCovers ==
    ASSUME NEW k, Record(k)
    PROVE  /\ k \in compiled' \cup lost'
           /\ compiled \subseteq compiled' /\ lost \subseteq lost'
  BY DEF Record

LEMMA RecordInvInit == Init => RecordInv
  BY DEF Init, RecordInv, PagesRecorded, BatchedRecorded, Visited, BatchedVisited

LEMMA RecordInvNext ==
    ASSUME RecordInv, [Next]_vars
    PROVE  RecordInv'
<1> USE DEF RecordInv
<1>1. ASSUME NEW v \in todo, RecordPages(v) PROVE RecordInv'
  <2>1. compiled \subseteq compiled' /\ lost \subseteq lost'
    BY <1>1, RecordCovers DEF RecordPages
  <2>2. v.num_blocks > NumPages \/ VariantKey(v) \in compiled' \cup lost'
    BY <1>1, RecordCovers DEF RecordPages
  <2>3. phase = "pages" /\ phase' = "pages" /\ todo' = todo \ {v} /\ late' = late
    BY <1>1 DEF RecordPages
  <2>4. PagesRecorded'
    BY <2>1, <2>2, <2>3 DEF PagesRecorded, Visited
  <2>5. BatchedRecorded'
    BY <2>3 DEF BatchedRecorded, BatchedVisited
  <2> QED
    BY <2>1, <2>3, <2>4, <2>5
<1>2. ASSUME NEW v \in todo, RecordBatched(v) PROVE RecordInv'
  <2>1. compiled \subseteq compiled' /\ lost \subseteq lost'
    BY <1>2, RecordCovers DEF RecordBatched
  <2>2. FitsCache(RealizedKey(v)) => RealizedKey(v) \in compiled' \cup lost'
    BY <1>2, RecordCovers DEF RecordBatched
  <2>3. phase = "batched" /\ phase' = "batched" /\ todo' = todo \ {v} /\ late' = late
    BY <1>2 DEF RecordBatched
  <2>4. PagesRecorded'
    BY <2>1, <2>3 DEF PagesRecorded, Visited
  <2>5. BatchedRecorded'
    BY <2>1, <2>2, <2>3 DEF BatchedRecorded, BatchedVisited
  <2> QED
    BY <2>1, <2>3, <2>4, <2>5
<1>3. CASE PagesDone
  <2>1. /\ phase = "pages" /\ todo = {} /\ phase' = "batched" /\ todo' = BatchedVariants
        /\ UNCHANGED <<compiled, lost, late>>
    BY <1>3 DEF PagesDone
  <2>2. PagesRecorded' /\ BatchedRecorded'
    BY <2>1 DEF PagesRecorded, Visited, BatchedRecorded, BatchedVisited
  <2> QED
    BY <2>1, <2>2
<1>4. CASE BatchedDone
  <2>1. /\ phase = "batched" /\ todo = {} /\ phase' = "serve" /\ todo' = todo
        /\ compiled \subseteq compiled' /\ StoreKeys \subseteq compiled'
        /\ UNCHANGED <<lost, late>>
    BY <1>4 DEF BatchedDone, StoreKeys
  <2>2. PagesRecorded' /\ BatchedRecorded'
    BY <2>1 DEF PagesRecorded, Visited, BatchedRecorded, BatchedVisited
  <2> QED
    BY <2>1, <2>2
<1>5. ASSUME NEW b \in Batches, Serve(b) PROVE RecordInv'
  <2>1. /\ phase = "serve" /\ phase' = "serve" /\ todo' = todo /\ lost' = lost
        /\ compiled' = compiled \cup Plan(b).keys
        /\ late' = late \cup (Plan(b).keys \ compiled)
    BY <1>5 DEF Serve
  <2>2. \A kern \in Plan(b).keys :
            kern \in ListedKeys \cup FittingKeys \cup StoreKeys \/ Unlisted(kern)
    BY PlanKeysListed
  <2>3. ListedKeys \subseteq compiled \cup lost \cup Oversize
    BY <2>1 DEF PagesRecorded, Visited, ListedKeys, Oversize
  <2>4. FittingKeys \subseteq compiled \cup lost
    <3>1. ASSUME NEW v \in BatchedVariants, FitsCache(RealizedKey(v))
          PROVE  RealizedKey(v) \in compiled \cup lost
      BY <2>1, <3>1 DEF BatchedRecorded, BatchedVisited
    <3>2. ASSUME NEW k \in FittingKeys PROVE k \in compiled \cup lost
      <4>1. PICK v \in BatchedVariants : k = RealizedKey(v) /\ FitsCache(RealizedKey(v))
        BY DEF FittingKeys
      <4> QED
        BY <3>1, <4>1
    <3> QED
      BY <3>2
  <2>5. \A kern \in late' : kern \in lost' \cup Oversize \/ Unlisted(kern)
    BY <2>1, <2>2, <2>3, <2>4
  <2>6. PagesRecorded' /\ BatchedRecorded'
    BY <2>1 DEF PagesRecorded, Visited, BatchedRecorded, BatchedVisited
  <2> QED
    BY <2>1, <2>5, <2>6
<1>6. CASE StepDone \/ UNCHANGED vars
  <2>1. UNCHANGED <<phase, todo, compiled, lost, late>>
    BY <1>6 DEF StepDone, vars
  <2>2. PagesRecorded' /\ BatchedRecorded'
    BY <2>1 DEF PagesRecorded, Visited, BatchedRecorded, BatchedVisited
  <2> QED
    BY <2>1, <2>2
<1> QED
  BY <1>1, <1>2, <1>3, <1>4, <1>5, <1>6 DEF Next

\* For every bucket set, cache size and batch: a request compiles only a kernel
\* whose recording failed, one the recorder skipped because the cache is smaller
\* than the bucket, one for a single token where no query bucket is 1, or a
\* batched one where length groups meet a window and a denser ladder.
THEOREM WarmupCoversServing == Spec => []LateOnlyIfLost
<1>1. RecordInv => LateOnlyIfLost
  BY DEF RecordInv, LateOnlyIfLost, Unlisted
<1> QED
  BY <1>1, RecordInvInit, RecordInvNext, PTL DEF Spec

(***************************************************************************)
(* Types: the phase and its worklist, and the plan of the running step.    *)
(***************************************************************************)
LEMMA PlanOfBatch ==
    ASSUME NEW b \in Batches
    PROVE  Plan(b) # NoPlan /\ Plan(b).loop \subseteq DOMAIN b
  BY DEF Plan, NoPlan

LEMMA TypeInit == Init => TypeOK
  BY DEF Init, TypeOK, NoPlan

LEMMA TypeNext ==
    ASSUME TypeOK, [Next]_vars
    PROVE  TypeOK'
<1>1. ASSUME NEW v \in todo, RecordPages(v) PROVE TypeOK'
  <2>1. phase = "pages" /\ phase' = "pages" /\ todo' = todo \ {v}
        /\ compiled \subseteq compiled' /\ UNCHANGED <<late, batch, plan>>
    BY <1>1, RecordCovers DEF RecordPages
  <2> QED
    BY <2>1 DEF TypeOK
<1>2. ASSUME NEW v \in todo, RecordBatched(v) PROVE TypeOK'
  <2>1. phase = "batched" /\ phase' = "batched" /\ todo' = todo \ {v}
        /\ compiled \subseteq compiled' /\ UNCHANGED <<late, batch, plan>>
    BY <1>2, RecordCovers DEF RecordBatched
  <2> QED
    BY <2>1 DEF TypeOK
<1>3. CASE PagesDone
  <2>1. phase' = "batched" /\ todo' = BatchedVariants /\ UNCHANGED <<compiled, late, batch, plan>>
    BY <1>3 DEF PagesDone
  <2> QED
    BY <2>1 DEF TypeOK
<1>4. CASE BatchedDone
  <2>1. phase' = "serve" /\ todo' = {} /\ compiled \subseteq compiled'
        /\ UNCHANGED <<late, batch, plan>>
    BY <1>4 DEF BatchedDone
  <2> QED
    BY <2>1 DEF TypeOK
<1>5. ASSUME NEW b \in Batches, Serve(b) PROVE TypeOK'
  <2>1. phase' = phase /\ todo' = todo /\ batch' = b /\ plan' = Plan(b)
        /\ compiled' = compiled \cup Plan(b).keys /\ late' = late \cup (Plan(b).keys \ compiled)
    BY <1>5 DEF Serve
  <2>2. b # <<>>
    BY BatchAssumption
  <2>3. (batch' = <<>> <=> plan' = NoPlan) /\ plan'.loop \subseteq DOMAIN batch'
    BY <2>1, <2>2, PlanOfBatch
  <2>4. late' \subseteq compiled' /\ batch' \in Batches
    BY <2>1 DEF TypeOK
  <2> QED
    BY <2>1, <2>3, <2>4 DEF TypeOK
<1>6. CASE StepDone
  <2>1. batch' = <<>> /\ plan' = NoPlan /\ UNCHANGED <<phase, todo, compiled, late>>
    BY <1>6 DEF StepDone
  <2> QED
    BY <2>1 DEF TypeOK, NoPlan
<1>7. CASE UNCHANGED vars
  BY <1>7 DEF TypeOK, vars
<1> QED
  BY <1>1, <1>2, <1>3, <1>4, <1>5, <1>6, <1>7 DEF Next

\* Whatever the buckets and batches: the worklist holds variants of its phase,
\* and a plan belongs to the batch of the running step.
THEOREM TypeCorrect == Spec => []TypeOK
  BY TypeInit, TypeNext, PTL DEF Spec

(***************************************************************************)
(* Every row is served once.                                               *)
(***************************************************************************)
\* A plan serves the rows of a batch, each in one place.
ServesOnce(p, rows) ==
    /\ (UNION {p.groups[i] : i \in DOMAIN p.groups}) \cup p.loop = rows
    /\ \A i \in DOMAIN p.groups :
          /\ p.groups[i] \cap p.loop = {}
          /\ \A j \in DOMAIN p.groups : i # j => p.groups[i] \cap p.groups[j] = {}

LEMMA PlanServesOnce ==
    ASSUME NEW b \in Batches
    PROVE  ServesOnce(Plan(b), DOMAIN b)
<1> DEFINE rows == DecodePrefix(b)
           rest == DOMAIN b \ rows
           groups == IF Eligible(b, rows) THEN GroupsOrNone(b, rows) ELSE <<>>
<1>1. rows \in SUBSET DOMAIN b
  BY DEF DecodePrefix
<1>2. CASE groups # <<>> /\ \A i \in DOMAIN groups : FitsCache(GroupKey(b, groups[i]))
  <2>1. groups = DecodeGroups(b, rows)
    BY <1>2 DEF GroupsOrNone
  <2>2. Splits(groups, rows)
    BY <1>1, <2>1, DecodeGroupsSplit
  <2>3. Plan(b).groups = groups /\ Plan(b).loop = rest
    BY <1>2 DEF Plan
  <2> HIDE DEF rows, groups
  <2>4. /\ DOMAIN groups = 1..Len(groups)
        /\ \A i \in DOMAIN groups : groups[i] \in SUBSET rows
    BY <2>2 DEF Splits
  <2>5. UNION {groups[i] : i \in DOMAIN groups} = rows
    BY <2>2, <2>4 DEF Splits
  <2>6. \A i \in DOMAIN groups : groups[i] \cap rest = {}
    BY <2>4
  <2>7. \A i, j \in DOMAIN groups : i # j => groups[i] \cap groups[j] = {}
    BY <2>2, <2>4 DEF Splits
  <2>8. rows \cup rest = DOMAIN b
    BY <1>1
  <2> QED
    BY <2>3, <2>5, <2>6, <2>7, <2>8 DEF ServesOnce
<1>3. CASE /\ ~(groups # <<>> /\ \A i \in DOMAIN groups : FitsCache(GroupKey(b, groups[i])))
           /\ Eligible(b, rows) /\ FitsCache(SingleKey(b, rows))
  <2>1. Plan(b).groups = <<rows>> /\ Plan(b).loop = rest
    BY <1>3 DEF Plan
  <2> HIDE DEF rows
  <2> DEFINE g == <<rows>>
  <2>2. DOMAIN g = {1} /\ g[1] = rows
    OBVIOUS
  <2> HIDE DEF g
  <2>3. UNION {g[i] : i \in DOMAIN g} = rows
    BY <2>2
  <2>4. \A i \in DOMAIN g : i = 1 /\ g[i] \cap rest = {}
    BY <2>2
  <2>5. Plan(b).groups = g /\ Plan(b).loop = rest /\ rows \cup rest = DOMAIN b
    BY <1>1, <2>1 DEF g
  <2> QED
    BY <2>3, <2>4, <2>5 DEF ServesOnce
<1>4. CASE /\ ~(groups # <<>> /\ \A i \in DOMAIN groups : FitsCache(GroupKey(b, groups[i])))
           /\ ~(Eligible(b, rows) /\ FitsCache(SingleKey(b, rows)))
  <2>1. Plan(b).groups = <<>> /\ Plan(b).loop = DOMAIN b
    BY <1>4 DEF Plan
  <2>2. DOMAIN <<>> = {}
    OBVIOUS
  <2> QED
    BY <2>1, <2>2 DEF ServesOnce
<1> QED
  BY <1>2, <1>3, <1>4

ServedInv == ServesOnce(plan, DOMAIN batch)

LEMMA ServedInit == Init => ServedInv
<1> SUFFICES ASSUME Init PROVE ServedInv
  OBVIOUS
<1>1. plan.groups = <<>> /\ plan.loop = {} /\ batch = <<>>
  BY DEF Init, NoPlan
<1>2. DOMAIN <<>> = {}
  OBVIOUS
<1> QED
  BY <1>1, <1>2 DEF ServedInv, ServesOnce

LEMMA ServedNext ==
    ASSUME ServedInv, [Next]_vars
    PROVE  ServedInv'
<1>1. ASSUME NEW b \in Batches, Serve(b) PROVE ServedInv'
  <2>1. plan' = Plan(b) /\ batch' = b
    BY <1>1 DEF Serve
  <2> QED
    BY <2>1, PlanServesOnce DEF ServedInv
<1>2. CASE StepDone
  <2>1. plan'.groups = <<>> /\ plan'.loop = {} /\ batch' = <<>>
    BY <1>2 DEF StepDone, NoPlan
  <2>2. DOMAIN <<>> = {}
    OBVIOUS
  <2> QED
    BY <2>1, <2>2 DEF ServedInv, ServesOnce
<1>3. ASSUME UNCHANGED <<batch, plan>> PROVE ServedInv'
  BY <1>3 DEF ServedInv, ServesOnce
<1> QED
  BY <1>1, <1>2, <1>3 DEF Next, RecordPages, RecordBatched, PagesDone, BatchedDone, vars

\* Whatever the buckets, the window and the batch: the groups of batched decode
\* and the per-sequence loop together attend to every sequence, none of them twice.
THEOREM RowsServedOnce == Spec => []EveryRowServedOnce
<1>1. ServedInv => EveryRowServedOnce
  BY DEF ServedInv, ServesOnce, EveryRowServedOnce
<1> QED
  BY <1>1, ServedInit, ServedNext, PTL DEF Spec

-----------------------------------------------------------------------------
(***************************************************************************)
(* The inductive invariant: a tar is good for its name, and what a job     *)
(* holds is as good as the place it has reached promises.                  *)
(***************************************************************************)
TypeInv ==
    /\ ctx \in [Jobs -> Contexts] /\ key \in [Jobs -> Keys] /\ pc \in [Jobs -> Places]
    /\ local \in [Jobs -> Caches] /\ hit \in [Jobs -> BOOLEAN]
    /\ listing \in [Jobs -> SUBSET Names] /\ tmp \in [Jobs -> SUBSET TarFiles]
    /\ DOMAIN shelf \subseteq Names /\ \A n \in DOMAIN shelf : shelf[n] \in TarFiles
    /\ clock \in Nat

Serves(cache, k) == cache.whole /\ k \in cache.keys

Good(tar, n) == Serves(tar.cache, n.key) /\ tar.cache.by \subseteq {n.scope, Main}

ShelfInv == \A n \in DOMAIN shelf : Good(shelf[n], n)

Restoring == {"restore", "newest", "extract"}
Saving    == {"tar", "writing", "recheck", "replace", "stat", "gc", "collect", "unlink"}

RestoreInv(j) ==
    pc[j] \in Restoring =>
        /\ local[j] = NoCache
        /\ pc[j] # "restore" => \A n \in listing[j] : n.scope \in read_scopes(ctx[j])
        /\ pc[j] = "newest" => ~hit[j]
        /\ pc[j] = "extract" /\ hit[j] => \A n \in listing[j] : n.key = key[j]

LocalInv(j) ==
    /\ local[j].by \subseteq {ctx[j], Main}
    /\ pc[j] = "build" => local[j].whole /\ (hit[j] => key[j] \in local[j].keys)
    /\ pc[j] = "sweep" \/ pc[j] \in Saving => Serves(local[j], key[j])

SaveInv(j) ==
    /\ pc[j] \in Saving => ctx[j] # Dispatch
    /\ pc[j] \in {"recheck", "replace"} => \A tar \in tmp[j] : Good(tar, target(j))

JobInv(j) == RestoreInv(j) /\ LocalInv(j) /\ SaveInv(j)

Inv == TypeInv /\ ShelfInv /\ \A j \in Jobs : JobInv(j)

\* Only the job that moves has anything to show.
LEMMA OneJobMoves ==
    ASSUME Inv, NEW j \in Jobs, UNCHANGED job, TypeInv', ShelfInv', JobInv(j)',
           \A u \in Jobs \ {j} : /\ pc'[u] = pc[u] /\ local'[u] = local[u] /\ hit'[u] = hit[u]
                                 /\ listing'[u] = listing[u] /\ tmp'[u] = tmp[u]
    PROVE  Inv'
<1> SUFFICES ASSUME NEW u \in Jobs \ {j} PROVE JobInv(u)'
  BY DEF Inv
<1>1. JobInv(u)
  BY DEF Inv
<1> QED
  BY <1>1 DEF JobInv, RestoreInv, LocalInv, SaveInv, target, job

LEMMA InitInv == UvInit => Inv
<1> SUFFICES ASSUME UvInit PROVE Inv
  OBVIOUS
<1>1. TypeInv
  BY DEF UvInit, TypeInv, NoCache, Caches, Places
<1>2. ShelfInv
  BY DEF UvInit, ShelfInv
<1>3. ASSUME NEW j \in Jobs PROVE JobInv(j)
  BY DEF UvInit, JobInv, RestoreInv, LocalInv, SaveInv, NoCache, Saving
<1> QED
  BY <1>1, <1>2, <1>3 DEF Inv

(***************************************************************************)
(* Restore                                                                 *)
(***************************************************************************)
LEMMA ChooseKeeps == ASSUME Inv, NEW j \in Jobs, Choose(j) PROVE Inv'
<1> DEFINE exact  == {s \in read_scopes(ctx[j]) : Present(s, key[j])}
           filled == {s \in read_scopes(ctx[j]) : Tars(s) # {}}
           name   == [scope |-> First(j, exact), key |-> key[j]]
<1>1. /\ First(j, exact) \in read_scopes(ctx[j]) /\ First(j, filled) \in read_scopes(ctx[j])
      /\ exact # {} => name \in Names
  BY DEF First, read_scopes, Inv, TypeInv, Present
<1>2. \A n \in Tars(First(j, filled)) : n \in Names /\ n.scope = First(j, filled)
  BY DEF Tars, Inv, TypeInv
<1>3. CASE exact # {} /\ listing' = [listing EXCEPT ![j] = {name}] /\ Goto(j, "extract")
  <2>1. TypeInv'
    BY <1>1, <1>3 DEF Choose, Goto, Inv, TypeInv, Places, job
  <2>2. JobInv(j)' /\ ShelfInv'
    BY <1>1, <1>3 DEF Choose, Goto, Inv, TypeInv, ShelfInv, JobInv, RestoreInv, LocalInv,
                      SaveInv, Saving, Restoring, job
  <2> QED
    BY <1>3, <2>1, <2>2, OneJobMoves DEF Choose, Goto, Inv, TypeInv
<1>4. CASE exact = {} /\ listing' = [listing EXCEPT ![j] = Tars(First(j, filled))]
           /\ Goto(j, "newest")
  <2>1. TypeInv'
    BY <1>2, <1>4 DEF Choose, Goto, Inv, TypeInv, Places, job
  <2>2. /\ ctx' = ctx /\ key' = key /\ local'[j] = NoCache /\ ~hit'[j] /\ pc'[j] = "newest"
        /\ listing'[j] = Tars(First(j, filled)) /\ local[j].by \subseteq {ctx[j], Main}
    BY <1>4 DEF Choose, Goto, Inv, TypeInv, JobInv, RestoreInv, LocalInv, Restoring, job
  <2>3. RestoreInv(j)'
    BY <1>1, <1>2, <2>2 DEF RestoreInv, Restoring
  <2>4. LocalInv(j)'
    BY <2>2 DEF LocalInv, Saving, NoCache
  <2>5. SaveInv(j)'
    BY <2>2 DEF SaveInv, Saving
  <2>6. ShelfInv'
    BY DEF Choose, Inv, ShelfInv
  <2> QED
    BY <1>4, <2>1, <2>3, <2>4, <2>5, <2>6, OneJobMoves DEF Choose, Goto, Inv, TypeInv, JobInv
<1>5. CASE filled = {} /\ Goto(j, "build") /\ UNCHANGED listing
  <2>1. exact = {}
    BY <1>5 DEF Present, Tars
  <2>2. TypeInv'
    BY <1>5 DEF Choose, Goto, Inv, TypeInv, Places, job
  <2>3. /\ ctx' = ctx /\ local'[j] = NoCache /\ ~hit'[j] /\ pc'[j] = "build"
    BY <1>5, <2>1 DEF Choose, Goto, Inv, TypeInv, JobInv, RestoreInv, Restoring, job
  <2>4. JobInv(j)'
    BY <2>3 DEF JobInv, RestoreInv, LocalInv, SaveInv, Saving, Restoring, NoCache
  <2>5. ShelfInv'
    BY DEF Choose, Inv, ShelfInv
  <2> QED
    BY <1>5, <2>2, <2>4, <2>5, OneJobMoves DEF Choose, Goto, Inv, TypeInv
<1> QED
  BY <1>3, <1>4, <1>5 DEF Choose

\* A step that keeps what the job has, except its place and its listing.
LEMMA PlaceMoves ==
    ASSUME Inv, NEW j \in Jobs, NEW place \in Places, Goto(j, place),
           UNCHANGED <<job, local, hit, tmp, shelf, clock>>,
           \/ UNCHANGED listing
           \/ \E names \in SUBSET Names : listing' = [listing EXCEPT ![j] = names],
           JobInv(j)'
    PROVE  Inv'
<1>1. TypeInv'
  BY DEF Goto, Inv, TypeInv, job
<1>2. ShelfInv'
  BY DEF Inv, ShelfInv
<1> QED
  BY <1>1, <1>2, OneJobMoves DEF Goto, Inv, TypeInv

LEMMA NewestKeeps == ASSUME Inv, NEW j \in Jobs, Newest(j) PROVE Inv'
<1> USE DEF Newest
<1>1. CASE Goto(j, "extract")
  <2>1. PICK n \in listing[j] : listing' = [listing EXCEPT ![j] = {n}]
    BY <1>1 DEF Goto, Inv, TypeInv
  <2>2. {n} \in SUBSET Names
    BY DEF Inv, TypeInv
  <2>3. JobInv(j)'
    BY <1>1, <2>1 DEF Goto, Inv, TypeInv, JobInv, RestoreInv, LocalInv, SaveInv, Saving,
                      Restoring, job
  <2> QED
    BY <1>1, <2>1, <2>2, <2>3, PlaceMoves DEF Places
<1>2. CASE Goto(j, "build") /\ listing' = [listing EXCEPT ![j] = {}]
  <2>1. JobInv(j)'
    BY <1>2 DEF Goto, Inv, TypeInv, JobInv, RestoreInv, LocalInv, SaveInv, Saving, Restoring,
                NoCache, job
  <2> QED
    BY <1>2, <2>1, PlaceMoves DEF Places
<1> QED
  BY <1>1, <1>2

LEMMA ExtractKeeps == ASSUME Inv, NEW j \in Jobs, Extract(j) PROVE Inv'
<1> USE DEF Extract, Goto
<1>1. PICK n \in listing[j] \cap DOMAIN shelf :
          local' = [local EXCEPT ![j] = shelf[n].cache]
  OBVIOUS
<1>2. /\ Good(shelf[n], n) /\ shelf[n].cache \in Caches
      /\ n.scope \in {OwnScope(ctx[j]), Main}
      /\ hit[j] => n.key = key[j]
  BY DEF Inv, ShelfInv, TypeInv, TarFiles, JobInv, RestoreInv, Restoring, read_scopes
<1>3. shelf[n].cache.by \subseteq {ctx[j], Main}
  <2>1. n.scope \in {ctx[j], Main}
    <3>1. OwnScope(ctx[j]) \in {ctx[j], Main}
      BY DEF OwnScope
    <3> QED
      BY <1>2, <3>1
  <2>2. shelf[n].cache.by \subseteq {n.scope, Main}
    BY <1>2 DEF Good
  <2> QED
    BY <2>1, <2>2
<1>4. TypeInv'
  BY <1>1, <1>2 DEF Inv, TypeInv, Places, job
<1>5. JobInv(j)' /\ ShelfInv'
  BY <1>1, <1>2, <1>3 DEF Inv, TypeInv, ShelfInv, JobInv, RestoreInv, LocalInv, SaveInv, Saving,
                          Restoring, Good, Serves, job
<1> QED
  BY <1>1, <1>4, <1>5, OneJobMoves DEF Inv, TypeInv

LEMMA ExtractFailsKeeps == ASSUME Inv, NEW j \in Jobs, ExtractFails(j) PROVE Inv'
<1> USE DEF ExtractFails, Goto
<1>1. TypeInv'
  BY DEF Inv, TypeInv, Places, NoCache, Caches, job
<1>2. JobInv(j)' /\ ShelfInv'
  BY DEF Inv, TypeInv, ShelfInv, JobInv, RestoreInv, LocalInv, SaveInv, Saving, Restoring,
         NoCache, job
<1> QED
  BY <1>1, <1>2, OneJobMoves DEF Inv, TypeInv

(***************************************************************************)
(* Build                                                                   *)
(***************************************************************************)
LEMMA BuildKeeps == ASSUME Inv, NEW j \in Jobs, Build(j) PROVE Inv'
<1> USE DEF Build, Goto
<1> DEFINE built == Filled(local[j], j)
<1>a. /\ local[j] \in Caches /\ local[j].whole /\ local[j].by \subseteq {ctx[j], Main}
      /\ key[j] \in Keys /\ ctx[j] \in Contexts
  BY DEF Inv, TypeInv, JobInv, LocalInv
<1>b. /\ built \in Caches /\ Serves(built, key[j])
      /\ built.by \subseteq {ctx[j], Main}
  <2>1. CASE key[j] \in local[j].keys
    BY <1>a, <2>1 DEF Serves, Filled
  <2>2. CASE key[j] \notin local[j].keys
    <3>1. built = [keys |-> local[j].keys \cup {key[j]}, by |-> local[j].by \cup {ctx[j]},
                   whole |-> local[j].whole]
      BY <1>a, <2>2 DEF Caches, Filled
    <3> QED
      BY <1>a, <3>1 DEF Serves, Caches
  <2> QED
    BY <2>1, <2>2
<1>c. local' = [local EXCEPT ![j] = built]
  OBVIOUS
<1> HIDE DEF built
<1>1. /\ local'[j] = built /\ built \in Caches /\ Serves(built, key[j])
      /\ built.by \subseteq {ctx[j], Main}
      /\ local' \in [Jobs -> Caches]
  BY <1>b, <1>c DEF Inv, TypeInv
<1>2. TypeInv'
  BY <1>1 DEF Inv, TypeInv, Places, job
<1>3. JobInv(j)' /\ ShelfInv'
  BY <1>1 DEF Inv, TypeInv, ShelfInv, JobInv, RestoreInv, LocalInv, SaveInv, Saving, Restoring,
              job
<1> QED
  BY <1>2, <1>3, OneJobMoves DEF Inv, TypeInv

LEMMA BuildFailsKeeps == ASSUME Inv, NEW j \in Jobs, BuildFails(j) PROVE Inv'
<1> USE DEF BuildFails, Goto, Torn
<1>1. TypeInv'
  BY DEF Inv, TypeInv, Places, Ended, Caches, job
<1>2. JobInv(j)' /\ ShelfInv'
  BY DEF Inv, TypeInv, ShelfInv, JobInv, RestoreInv, LocalInv, SaveInv, Saving, Restoring,
         Caches, job
<1> QED
  BY <1>1, <1>2, OneJobMoves DEF Inv, TypeInv

(***************************************************************************)
(* Save                                                                    *)
(***************************************************************************)
\* A tar that goes takes nothing else with it.
LEMMA EvictionKeeps ==
    ASSUME Inv, NEW n, shelf' = Without(n), UNCHANGED <<job, pc, local, hit, tmp, clock>>,
           \/ UNCHANGED listing
           \/ \E j \in Jobs : /\ pc[j] = "unlink"
                              /\ \E names \in SUBSET Names :
                                    listing' = [listing EXCEPT ![j] = names]
    PROVE  Inv'
<1>1. TypeInv'
  BY DEF Inv, TypeInv, Without, job
<1>2. ShelfInv'
  BY DEF Inv, ShelfInv, Without
<1>3. ASSUME NEW u \in Jobs PROVE JobInv(u)'
  <2>1. JobInv(u) /\ pc[u] \in Restoring => listing'[u] = listing[u]
    BY DEF Inv, TypeInv, Restoring
  <2> QED
    BY <2>1 DEF Inv, JobInv, RestoreInv, LocalInv, SaveInv, target, job
<1> QED
  BY <1>1, <1>2, <1>3 DEF Inv

LEMMA SweepKeeps == ASSUME Inv, NEW j \in Jobs, Sweep(j) PROVE Inv'
  BY EvictionKeeps DEF Sweep

LEMMA CheckKeeps == ASSUME Inv, NEW j \in Jobs, Check(j) PROVE Inv'
<1>1. PICK place \in {"done", "gc", "tar"} :
          Goto(j, place) /\ (place # "done" => ctx[j] # Dispatch)
  <2>1. \/ Goto(j, "done")
        \/ write_scope(ctx[j]) # {} /\ (Goto(j, "gc") \/ Goto(j, "tar"))
    BY DEF Check
  <2>2. write_scope(ctx[j]) # {} => ctx[j] # Dispatch
    BY DEF write_scope
  <2>3. CASE Goto(j, "done")
    BY <2>3
  <2>4. CASE Goto(j, "gc") /\ ctx[j] # Dispatch
    BY <2>4
  <2>5. CASE Goto(j, "tar") /\ ctx[j] # Dispatch
    BY <2>5
  <2> QED
    BY <2>1, <2>2, <2>3, <2>4, <2>5
<1>2. JobInv(j)'
  BY <1>1 DEF Check, Goto, Inv, TypeInv, JobInv, RestoreInv, LocalInv, SaveInv, Saving,
              Restoring, job
<1> QED
  BY <1>1, <1>2, PlaceMoves DEF Check, Places, Ended

\* A step of a save after which the temporary file, if any, promises nothing.
LEMMA TmpMoves ==
    ASSUME Inv, NEW j \in Jobs, NEW files \in SUBSET TarFiles, NEW place,
           tmp' = [tmp EXCEPT ![j] = files], Goto(j, place),
           pc[j] \in Saving,
           \/ place \in {"writing", "failed", "gc"}
           \/ place = "recheck" /\ \A tar \in files : Good(tar, target(j)),
           clock' \in Nat, UNCHANGED <<job, local, hit, listing, shelf>>
    PROVE  Inv'
<1>1. TypeInv'
  BY DEF Goto, Inv, TypeInv, Places, Ended, job
<1>2. JobInv(j)' /\ ShelfInv'
  BY DEF Goto, Inv, TypeInv, ShelfInv, JobInv, RestoreInv, LocalInv, SaveInv, Saving, Restoring,
         target, job
<1> QED
  BY <1>1, <1>2, OneJobMoves DEF Goto, Inv, TypeInv

LEMMA WriteKeeps ==
    ASSUME Inv, NEW j \in Jobs, StartTar(j) \/ FinishTar(j) \/ TarFails(j) PROVE Inv'
<1>1. local[j] \in Caches /\ Torn(local[j]) \in Caches /\ clock \in Nat
  BY DEF Inv, TypeInv, Torn, Caches
<1>2. CASE StartTar(j)
  <2>1. {[cache |-> Torn(local[j]), mtime |-> clock]} \in SUBSET TarFiles
    BY <1>1 DEF TarFiles
  <2> QED
    BY <1>1, <1>2, <2>1, TmpMoves DEF StartTar, Saving
<1>3. CASE FinishTar(j)
  <2> DEFINE tar == [cache |-> local[j], mtime |-> clock]
  <2>1. {tar} \in SUBSET TarFiles
    BY <1>1 DEF TarFiles
  <2>2. Good(tar, target(j))
    BY <1>3 DEF FinishTar, Inv, JobInv, LocalInv, Saving, Good, Serves, target
  <2>3. tmp' = [tmp EXCEPT ![j] = {tar}] /\ Goto(j, "recheck") /\ pc[j] \in Saving
        /\ clock' \in Nat /\ UNCHANGED <<job, local, hit, listing, shelf>>
    BY <1>1, <1>3 DEF FinishTar, Saving
  <2> QED
    BY <2>1, <2>2, <2>3, TmpMoves
<1>4. CASE TarFails(j)
  BY <1>1, <1>4, TmpMoves DEF TarFails, Saving
<1> QED
  BY <1>2, <1>3, <1>4

\* A step of a save that only moves on.
LEMMA SaveMoves ==
    ASSUME Inv, NEW j \in Jobs, pc[j] \in Saving,
           NEW place \in {"gc", "failed", "collect", "unlink", "swept"}, Goto(j, place),
           UNCHANGED <<job, local, hit, tmp, shelf, clock>>,
           \/ UNCHANGED listing
           \/ \E names \in SUBSET Names : listing' = [listing EXCEPT ![j] = names]
    PROVE  Inv'
<1>1. JobInv(j)'
  BY DEF Goto, Inv, TypeInv, JobInv, RestoreInv, LocalInv, SaveInv, Saving, Restoring, job
<1> QED
  BY <1>1, PlaceMoves DEF Places, Ended

LEMMA RecheckKeeps == ASSUME Inv, NEW j \in Jobs, Recheck(j) PROVE Inv'
<1>1. CASE Goto(j, "gc") /\ tmp' = [tmp EXCEPT ![j] = {}]
  BY <1>1, TmpMoves DEF Recheck, Saving, Inv, TypeInv
<1>2. CASE Goto(j, "replace") /\ UNCHANGED tmp
  <2>1. JobInv(j)'
    BY <1>2 DEF Recheck, Goto, Inv, TypeInv, JobInv, RestoreInv, LocalInv, SaveInv, Saving,
                Restoring, target, job
  <2> QED
    BY <1>2, <2>1, PlaceMoves DEF Recheck, Places
<1> QED
  BY <1>1, <1>2 DEF Recheck

LEMMA ReplaceKeeps == ASSUME Inv, NEW j \in Jobs, Replace(j) PROVE Inv'
<1> USE DEF Replace, Goto
<1>1. PICK tar \in tmp[j] : shelf' = Renamed(tar, target(j))
  OBVIOUS
<1>2. Good(tar, target(j)) /\ tar \in TarFiles /\ ctx[j] # Dispatch
  BY DEF Inv, TypeInv, JobInv, SaveInv, Saving
<1>3. target(j) \in Names
  BY <1>2, ShelfAssumption DEF Inv, TypeInv, target, Names, Scopes
<1>4. TypeInv'
  BY <1>1, <1>2, <1>3 DEF Inv, TypeInv, Renamed, Places, job
<1>5. ShelfInv'
  BY <1>1, <1>2 DEF Inv, ShelfInv, Renamed
<1>6. JobInv(j)'
  BY DEF Inv, TypeInv, JobInv, RestoreInv, LocalInv, SaveInv, Saving, Restoring, job
<1> QED
  BY <1>4, <1>5, <1>6, OneJobMoves DEF Inv, TypeInv

LEMMA CollectionKeeps ==
    ASSUME Inv, NEW j \in Jobs, Stat(j) \/ List(j) \/ Collect(j) \/ Unlink(j) PROVE Inv'
<1>1. CASE Stat(j)
  BY <1>1, SaveMoves DEF Stat, Saving
<1>2. CASE List(j)
  <2>1. Tars(ctx[j]) \in SUBSET Names
    BY DEF Inv, TypeInv, Tars
  <2> QED
    BY <1>2, <2>1, SaveMoves DEF List, Saving
<1>3. CASE Collect(j)
  <2>1. Doomed(j) \in SUBSET Names /\ {} \in SUBSET Names
    BY DEF Inv, TypeInv, Doomed
  <2> QED
    BY <1>3, <2>1, SaveMoves DEF Collect, Saving
<1>4. CASE Unlink(j)
  <2>1. CASE Goto(j, "swept") /\ UNCHANGED <<listing, shelf>>
    BY <1>4, <2>1, SaveMoves DEF Unlink, Saving
  <2>2. ASSUME NEW n \in listing[j], listing' = [listing EXCEPT ![j] = @ \ {n}],
               shelf' = Without(n), UNCHANGED pc
        PROVE  Inv'
    <3>1. listing[j] \ {n} \in SUBSET Names
      BY DEF Inv, TypeInv
    <3> QED
      BY <1>4, <2>2, <3>1, EvictionKeeps DEF Unlink
  <2> QED
    BY <1>4, <2>1, <2>2 DEF Unlink
<1> QED
  BY <1>1, <1>2, <1>3, <1>4

LEMMA KillKeeps == ASSUME Inv, NEW j \in Jobs, Kill(j) PROVE Inv'
<1>1. JobInv(j)'
  BY DEF Kill, Goto, Inv, TypeInv, JobInv, RestoreInv, LocalInv, SaveInv, Saving, Restoring, job
<1> QED
  BY <1>1, PlaceMoves DEF Kill, Places, Ended

LEMMA InvStep == Inv /\ [UvNext]_uvVars => Inv'
<1> SUFFICES ASSUME Inv, [UvNext]_uvVars PROVE Inv'
  OBVIOUS
<1>1. CASE UNCHANGED uvVars
  BY <1>1 DEF uvVars, job, Inv, TypeInv, ShelfInv, JobInv, RestoreInv, LocalInv, SaveInv, target
<1>2. CASE UvNext
  <2>1. PICK j \in Jobs :
          \/ Choose(j) \/ Newest(j) \/ Extract(j) \/ ExtractFails(j)
          \/ Build(j) \/ BuildFails(j)
          \/ Sweep(j) \/ Check(j) \/ StartTar(j) \/ FinishTar(j) \/ TarFails(j)
          \/ Recheck(j) \/ Replace(j) \/ Stat(j)
          \/ List(j) \/ Collect(j) \/ Unlink(j) \/ Kill(j)
    BY <1>2 DEF UvNext
  <2> QED
    BY <2>1, ChooseKeeps, NewestKeeps, ExtractKeeps, ExtractFailsKeeps, BuildKeeps,
       BuildFailsKeeps, SweepKeeps, CheckKeeps, WriteKeeps, RecheckKeeps, ReplaceKeeps,
       CollectionKeeps, KillKeeps
<1> QED
  BY <1>1, <1>2

LEMMA InvHolds == UvSpec => []Inv
  BY InitInv, InvStep, PTL DEF UvSpec

(***************************************************************************)
(* The theorems                                                            *)
(***************************************************************************)
\* A hit is a complete cache and no job builds on half of one, whatever other jobs evict,
\* write or leave half done while it restores.
THEOREM HitsAreComplete == UvSpec => []HitIsComplete
<1>1. Inv => HitIsComplete
  <2> SUFFICES ASSUME Inv, NEW j \in Jobs, pc[j] = "build"
               PROVE  local[j].whole /\ (hit[j] => key[j] \in local[j].keys)
    BY DEF HitIsComplete
  <2> QED
    BY DEF Inv, JobInv, LocalInv
<1> QED
  BY InvHolds, <1>1, PTL

\* Every tar on the shelf is whole and serves its key, though jobs overwrite each other's
\* and are killed at any step of a save.
THEOREM TarsServeTheirKeys == UvSpec => []TarServesItsKey
<1>1. Inv => TarServesItsKey
  BY DEF Inv, ShelfInv, Good, Serves, TarServesItsKey
<1> QED
  BY InvHolds, <1>1, PTL

\* No chain of restores and saves carries what a pull request built out of its scope.
THEOREM PullRequestsStayApart == UvSpec => []PRsStayApart
<1>1. Inv => PRsStayApart
  BY DEF Inv, ShelfInv, Good, PRsStayApart
<1> QED
  BY InvHolds, <1>1, PTL
============================================================================
