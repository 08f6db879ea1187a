----------------------------- MODULE KvLadders -----------------------------
(***************************************************************************)
(* The bucket ladders of spyre_attn_bucketer.py: which padded lengths the  *)
(* attention recorder compiles for, and how a runtime length is rounded    *)
(* onto them.  A sorted Python list of buckets is a set here; its order is *)
(* the order of the integers, and bisect_left is the least element that is *)
(* not smaller.                                                            *)
(***************************************************************************)
EXTENDS Integers, FiniteSetsExt

CONSTANTS
    LadderBits,     \* bound: no power of two above 2^LadderBits is needed
    SeriesTerms     \* bound: terms of a geometric series below any length used

ASSUME LadderAssumption == LadderBits \in Nat /\ SeriesTerms \in Nat

None == 0       \* Python's None where a bucket is expected

(***************************************************************************)
(* Rounding.                                                               *)
(***************************************************************************)
CeilDiv(a, b) == (a + b - 1) \div b

RoundUp(n, buckets) ==
    LET fit == {b \in buckets : b >= n} IN IF fit = {} THEN None ELSE Min(fit)

(***************************************************************************)
(* The presets.                                                            *)
(***************************************************************************)
PowersOfTwoUpTo(n, start) ==
    {v \in {2^k : k \in 0..LadderBits} : start <= v /\ v < n} \cup {n}

WholeBlocks(v, bs) == (v \div bs) * bs

UniformUnionUpTo(n, bs) ==
    LET step == Max({bs, WholeBlocks(n \div 8, bs)})
        knee == Max({bs, WholeBlocks(n \div 16, bs)})
    IN  PowersOfTwoUpTo(n, bs)
          \cup {v \in (knee + step)..(n - 1) : (v - knee) % step = 0}

\* The values v of _series before they are rounded to the grain; the walk stops
\* at the first one that reaches the limit.
GrowthFrom(grain, limit, ratio) ==
    LET v[i \in 0..SeriesTerms] ==
          IF i = 0 THEN grain
          ELSE LET last == v[i - 1]
               IN  IF last >= limit THEN limit ELSE (last * ratio[1]) \div ratio[2]
    IN  {v[i] : i \in 1..SeriesTerms} \cap 1..(limit - 1)

Series(grain, limit, bs, ratio) ==
    {r \in {WholeBlocks(v, grain) : v \in GrowthFrom(grain, limit, ratio)} : r > bs}

\* A seed that maps onto itself raises ValueError in _series.
SeedGrows(grain, ratio) == grain * (ratio[1] - ratio[2]) >= ratio[2]

DefaultGrain == 64
GrainHorizon == 32768

\* 64-token steps are kept only if all of them up to the horizon are whole blocks.
GrainUpTo(horizon, bs, ratio) ==
    IF \A r \in Series(DefaultGrain, horizon, bs, ratio) : r % bs = 0
    THEN DefaultGrain ELSE bs

GeometricSteps(grain, n, bs, ratio) ==
    {WholeBlocks(r, bs) : r \in Series(grain, n, bs, ratio)} \cup {n}

GeometricUnionUpTo(n, bs, ratio) ==
    PowersOfTwoUpTo(n, bs)
      \cup GeometricSteps(GrainUpTo(GrainHorizon, bs, ratio), n, bs, ratio)

Ratio == [l \in {"8_5", "4_3", "9_8"} |->
            CASE l = "8_5" -> <<8, 5>> [] l = "4_3" -> <<4, 3>> [] l = "9_8" -> <<9, 8>>]

LadderNames == {"pow2", "uniform"} \cup DOMAIN Ratio

KvLadder(name, n, bs) ==
    CASE name = "pow2"        -> PowersOfTwoUpTo(n, bs)
      [] name = "uniform"     -> UniformUnionUpTo(n, bs)
      [] name \in DOMAIN Ratio -> GeometricUnionUpTo(n, bs, Ratio[name])

\* An override is clamped to the limit, and made to reach it.
ResolveBuckets(raw, limit, default) ==
    IF raw = {} THEN default ELSE {b \in raw : b <= limit} \cup {limit}

\* SpyreAttnBucketer of one engine; raw is SPYRE_ATTN_KV_BUCKETS, {} if unset.
Configured(name, bs, r, n) == ResolveBuckets(r, n, KvLadder(name, n, bs))
============================================================================
