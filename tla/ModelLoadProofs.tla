-------------------------- MODULE ModelLoadProofs --------------------------
(***************************************************************************)
(* What holds of the models that are loaded one after another in a         *)
(* process, for any sticks, heads and ranks: what each makes of its own    *)
(* checkpoint, what it leaves behind, and why one is refused.              *)
(***************************************************************************)
EXTENDS ModelLoad, FiniteSetTheorems, NaturalsInduction, WellFoundedInduction, SequenceTheorems, TLAPS

(***************************************************************************)
(* Numbers and sets.                                                       *)
(***************************************************************************)
LEMMA NextMultiple ==
    ASSUME NEW a \in Nat, NEW b \in Nat, NEW n \in Nat, a < b
    PROVE  a * n + n <= b * n
<1>1. PICK d \in Nat : b = a + 1 + d
  <2>1. b - a - 1 \in Nat /\ b = a + 1 + (b - a - 1)
    OBVIOUS
  <2> QED
    BY <2>1
<1>2. b * n = a * n + n + d * n /\ d * n \in Nat /\ a * n \in Nat
  BY <1>1
<1> QED
  BY <1>2

\* A number has one quotient and one remainder.
LEMMA PartsAreUnique ==
    ASSUME NEW n \in Nat, NEW a \in Nat, NEW b \in Nat, NEW i \in 0..(n - 1), NEW j \in 0..(n - 1),
           a * n + i = b * n + j
    PROVE  a = b /\ i = j
<1>1. a * n \in Nat /\ b * n \in Nat
  OBVIOUS
<1>2. ~(a < b)
  <2> SUFFICES ASSUME a < b PROVE FALSE
    OBVIOUS
  <2>1. a * n + n <= b * n
    BY NextMultiple
  <2> QED
    BY <2>1, <1>1
<1>3. ~(b < a)
  <2> SUFFICES ASSUME b < a PROVE FALSE
    OBVIOUS
  <2>1. b * n + n <= a * n
    BY NextMultiple
  <2> QED
    BY <2>1, <1>1
<1> QED
  BY <1>1, <1>2, <1>3

\* A number is its quotient and its remainder.
LEMMA Parts ==
    ASSUME NEW n \in Nat \ {0}, NEW x \in Nat
    PROVE  /\ x \div n \in Nat /\ x % n \in 0..(n - 1) /\ x = (x \div n) * n + (x % n)
  OBVIOUS

\* A multiple and a remainder are recovered from their sum.
LEMMA PartsOfSum ==
    ASSUME NEW n \in Nat \ {0}, NEW a \in Nat, NEW i \in 0..(n - 1)
    PROVE  (a * n + i) \div n = a /\ (a * n + i) % n = i
<1> DEFINE x == a * n + i
<1>1. x \in Nat
  OBVIOUS
<1>2. x \div n \in Nat /\ x % n \in 0..(n - 1) /\ x = (x \div n) * n + (x % n)
  BY <1>1, Parts
<1> QED
  BY <1>2, PartsAreUnique

\* A place in one of c blocks of n.
LEMMA SumWithin ==
    ASSUME NEW n \in Nat, NEW c \in Nat, NEW a \in 0..(c - 1), NEW i \in 0..(n - 1)
    PROVE  a * n + i \in 0..(c * n - 1)
<1>1. a * n + n <= c * n /\ a * n \in Nat /\ c * n \in Nat
  BY NextMultiple
<1> QED
  BY <1>1

\* What is below a multiple has its quotient below the factor.
LEMMA QuotientBelow ==
    ASSUME NEW n \in Nat \ {0}, NEW c \in Nat, NEW x \in Nat, x < c * n
    PROVE  x \div n \in 0..(c - 1)
<1>1. x \div n \in Nat /\ x % n \in 0..(n - 1) /\ x = (x \div n) * n + (x % n)
  BY Parts
<1>2. ~(c <= x \div n)
  <2> SUFFICES ASSUME c <= x \div n PROVE FALSE
    OBVIOUS
  <2>1. c * n <= (x \div n) * n
    <3>1. CASE c = x \div n
      BY <3>1, <1>1
    <3>2. CASE c < x \div n
      BY <3>2, <1>1, NextMultiple
    <3> QED
      BY <3>1, <3>2, <1>1
  <2>2. (x \div n) * n \in Nat /\ c * n \in Nat
    BY <1>1
  <2> QED
    BY <2>1, <2>2, <1>1
<1> QED
  BY <1>1, <1>2

\* A non-empty set of naturals has a least element.
LEMMA LeastExists ==
    ASSUME NEW S \in SUBSET Nat, S # {}
    PROVE  \E c \in S : \A x \in S : c <= x
<1> DEFINE Below == {ss \in Nat \X Nat : ss[1] < ss[2]}
<1>1. IsWellFoundedOn(Below, Nat)
  BY NatLessThanWellFounded, Zenon DEF OpToRel
<1> HIDE DEF Below
<1>2. PICK c \in S : \A x \in S : ~(<<x, c>> \in Below)
  BY <1>1, WFMin, Zenon
<1>3. ASSUME NEW x \in S PROVE c <= x
  <2>1. ~(<<x, c>> \in Below)
    BY <1>2
  <2> QED
    BY <2>1 DEF Below
<1> QED
  BY <1>3

LEMMA LeastIsIn ==
    ASSUME NEW S \in SUBSET Nat, S # {}
    PROVE  LeastOf(S) \in S /\ \A x \in S : LeastOf(S) <= x
<1>1. \E c \in S : \A x \in S : c <= x
  BY LeastExists
<1> QED
  BY <1>1, Zenon DEF LeastOf

\* A finite set of naturals has an upper bound: a set without one of least cardinality would
\* be left by taking an element away from it.
LEMMA FiniteIsBounded ==
    ASSUME NEW S \in SUBSET Nat, IsFiniteSet(S)
    PROVE  \E u \in Nat : \A x \in S : x <= u
<1> DEFINE Free(T) == \A u \in Nat : \E x \in T : ~(x <= u)
           Sizes == {Cardinality(T) : T \in {T \in SUBSET S : Free(T)}}
<1> SUFFICES ASSUME Free(S) PROVE FALSE
  OBVIOUS
<1>1. Sizes \in SUBSET Nat /\ Sizes # {}
  <2>1. \A T \in SUBSET S : Cardinality(T) \in Nat
    BY FS_Subset, FS_CardinalityType
  <2> QED
    BY <2>1
<1>2. PICK n \in Sizes : \A k \in Sizes : n <= k
  <2> HIDE DEF Sizes
  <2> QED
    BY <1>1, LeastExists
<1>3. PICK T \in SUBSET S : Free(T) /\ n = Cardinality(T)
  BY <1>2
<1>4. PICK t \in T : t \in Nat
  <2>1. 0 \in Nat
    OBVIOUS
  <2> QED
    BY <1>3, <2>1
<1>5. IsFiniteSet(T) /\ Cardinality(T) \in Nat
  BY FS_Subset, FS_CardinalityType
<1>6. Cardinality(T \ {t}) = Cardinality(T) - 1
  BY <1>4, <1>5, FS_RemoveElement
<1>7. ~Free(T \ {t})
  <2> SUFFICES ASSUME Free(T \ {t}) PROVE FALSE
    OBVIOUS
  <2>1. T \ {t} \in SUBSET S
    OBVIOUS
  <2>2. Cardinality(T \ {t}) \in Sizes
    BY <2>1
  <2> HIDE DEF Sizes, Free
  <2>3. n <= Cardinality(T \ {t})
    BY <1>2, <2>2
  <2> QED
    BY <2>3, <1>3, <1>5, <1>6
<1>8. PICK u \in Nat : \A x \in T \ {t} : x <= u
  BY <1>7
<1>9. \A x \in T : x <= u + t
  <2> SUFFICES ASSUME NEW x \in T PROVE x <= u + t
    OBVIOUS
  <2>1. CASE x = t
    BY <2>1, <1>4, <1>8
  <2>2. CASE x # t
    <3>1. x <= u /\ x \in Nat
      BY <2>2, <1>8
    <3> QED
      BY <3>1, <1>4, <1>8
  <2> QED
    BY <2>1, <2>2
<1>10. u + t \in Nat
  BY <1>4, <1>8
<1> QED
  BY <1>3, <1>9, <1>10

LEMMA GreatestIsIn ==
    ASSUME NEW S \in SUBSET Nat, IsFiniteSet(S), S # {}
    PROVE  GreatestOf(S) \in S /\ \A x \in S : x <= GreatestOf(S)
<1>1. PICK u \in Nat : \A x \in S : x <= u
  BY FiniteIsBounded
<1> DEFINE T == {u - x : x \in S}
<1>2. T \in SUBSET Nat /\ T # {}
  <2>1. \A x \in S : u - x \in Nat
    BY <1>1
  <2> QED
    BY <2>1
<1>3. PICK t \in T : \A y \in T : t <= y
  BY <1>2, LeastExists
<1>4. PICK g \in S : t = u - g
  BY <1>3
<1>5. \A x \in S : x <= g
  <2> SUFFICES ASSUME NEW x \in S PROVE x <= g
    OBVIOUS
  <2>1. u - x \in T
    OBVIOUS
  <2> QED
    BY <1>1, <1>3, <1>4, <2>1
<1>6. \E c \in S : \A x \in S : x <= c
  BY <1>5
<1> QED
  BY <1>6, Zenon DEF GreatestOf

\* Rounding up to whole sticks, tiles or patches covers what was rounded, and is whole.
LEMMA RoundUpCovers ==
    ASSUME NEW n \in Nat, NEW k \in Nat \ {0}
    PROVE  /\ RoundUp(n, k) \in Nat /\ n <= RoundUp(n, k) /\ RoundUp(n, k) < n + k
           /\ \E q \in Nat : RoundUp(n, k) = q * k
<1> DEFINE x == n + k - 1  q == x \div k
<1>1. x \in Nat
  OBVIOUS
<1>2. q \in Nat /\ x % k \in 0..(k - 1) /\ x = q * k + (x % k)
  BY <1>1, Parts
<1>3. q * k \in Nat /\ RoundUp(n, k) = q * k
  BY <1>2 DEF RoundUp
<1>4. x = n + k - 1
  OBVIOUS
<1> HIDE DEF x, q
<1>5. n <= q * k /\ q * k < n + k
  BY <1>2, <1>3, <1>4
<1> QED
  BY <1>2, <1>3, <1>5

\* Two to the n is the number of subsets of n things.
LEMMA PowersOfTwo ==
    ASSUME NEW n \in Nat PROVE 2^n \in Nat /\ n <= 2^n
<1> DEFINE S == 1..n  T == SUBSET S  R == {{i} : i \in S}
<1>1. IsFiniteSet(S) /\ Cardinality(S) = n
  <2>1. 1 \in Int /\ n \in Int
    OBVIOUS
  <2>2. IsFiniteSet(1..n) /\ Cardinality(1..n) = IF 1 > n THEN 0 ELSE n - 1 + 1
    BY <2>1, FS_Interval, Zenon
  <2> QED
    BY <2>2
<1>2. IsFiniteSet(T) /\ Cardinality(T) = 2^n
  BY <1>1, FS_SUBSET
<1>3. R \subseteq T
  OBVIOUS
<1>4. IsFiniteSet(R) /\ Cardinality(R) <= Cardinality(T)
  <2> HIDE DEF R, T
  <2> QED
    BY <1>2, <1>3, FS_Subset
<1>5. Cardinality(R) = n
  <2> DEFINE f == [i \in S |-> {i}]
  <2>1. f \in Bijection(S, R)
    BY DEF Bijection, Injection, Surjection, IsInjective
  <2> HIDE DEF f, R, S
  <2> QED
    BY <1>1, <2>1, FS_Bijection, ExistsBijection(S, R), Zenon DEF ExistsBijection
<1> HIDE DEF R, T
<1>6. Cardinality(T) \in Nat
  BY <1>2, FS_CardinalityType
<1> QED
  BY <1>2, <1>4, <1>5, <1>6

LEMMA HalfOf ==
    ASSUME NEW z \in Nat \ {0}, NEW l \in 0..(2 * z - 1)
    PROVE  /\ l < z => l \div z = 0 /\ l % z = l
           /\ ~(l < z) => l \div z = 1 /\ l % z = l - z
<1>1. CASE l < z
  <2>1. 0 * z + l = l /\ l \in 0..(z - 1)
    BY <1>1
  <2>2. (0 * z + l) \div z = 0 /\ (0 * z + l) % z = l
    BY <2>1, PartsOfSum
  <2> QED
    BY <1>1, <2>1, <2>2
<1>2. CASE ~(l < z)
  <2>1. 1 * z + (l - z) = l /\ l - z \in 0..(z - 1)
    BY <1>2
  <2>2. (1 * z + (l - z)) \div z = 1 /\ (1 * z + (l - z)) % z = l - z
    BY <2>1, PartsOfSum
  <2> QED
    BY <1>2, <2>1, <2>2
<1> QED
  BY <1>1, <1>2

(***************************************************************************)
(* Loading models one after another.  What the process keeps of earlier    *)
(* models is in shims, patched and ropes; the invariant says of them only  *)
(* who left them, and of the model being loaded what each stage knows.     *)
(***************************************************************************)
HeadOf(x) == RoundUp(x.width, HeadMultiple(x))
InterOf(x) == IF PadsInter(x) THEN RoundUp(x.mlp.inter, Stick * x.tp) ELSE x.mlp.inter

\* The widths a part is built with where no earlier model's property is left for its heads.
TextWidth(x) == IF x.reads = "private" THEN x.width ELSE HeadOf(x)
Caught(x) == PadsHead(x) /\ ~x.hf /\ x.tower.shared /\ x.tower.width = x.width
TowerWidthOf(x) == IF Caught(x) THEN HeadOf(x) ELSE x.tower.width
MlpWidth(x) == IF x.mlp.reads THEN InterOf(x) ELSE x.mlp.inter
MultipliersOf(x) == IF x.mlp.double THEN {1, 2} ELSE {1}

Own(x) == [orig |-> x.width, padded |-> HeadOf(x)]

Shaped(a) == /\ DOMAIN a = {"width", "rope", "impl", "module", "norm", "weights"}
             /\ DOMAIN a.norm = {"kind", "folded", "eps"}

Builds == {"built", "loaded", "fitted", "serving"}
Hooks == Builds \cup {"hooked"}

ConfigInv ==
    /\ stage \in Hooks \cup {"idle", "configured", "refused"}
    /\ stage # "idle" => m \in Models
    /\ stage \in Hooks \cup {"configured"} => config = Configured(m)

HooksInv ==
    /\ \A f \in DOMAIN shims : \E y \in Models : PadsHead(y) /\ ~y.hf /\ y.file = f /\ shims[f] = Own(y)
    /\ patched \in BOOLEAN
    /\ stage \in Hooks =>
          /\ PadsHead(m) /\ ~m.hf => m.file \in DOMAIN shims /\ shims[m.file] = Own(m)
          /\ PadsHead(m) /\ m.pooling => patched
          /\ PadsInter(m) => m.streams

PartsInv ==
    stage \in Builds =>
        /\ \A p \in DOMAIN attn : Shaped(attn[p])
        /\ TargetParts \subseteq DOMAIN attn /\ DOMAIN attn \subseteq TargetParts \cup {"draft"}
        /\ "draft" \in DOMAIN attn => m.draft # None /\ stage # "built"
        /\ attn["text"].norm.kind = m.norm
        /\ IF TextLeft THEN attn["text"].width \in Nat /\ attn["text"].width > m.width
           ELSE attn["text"].width = TextWidth(m)
        /\ m.tower # None =>
              IF TowerLeft THEN attn["tower"].width \in Nat /\ attn["tower"].width > m.tower.width
              ELSE attn["tower"].width = TowerWidthOf(m)
        /\ DOMAIN mlp = IF m.mlp = None THEN {} ELSE MultipliersOf(m)
        /\ \A k \in DOMAIN mlp : DOMAIN mlp[k] = {"width", "weights"} /\ mlp[k].width = k * MlpWidth(m)

LoadedInv ==
    /\ stage \in {"loaded", "fitted", "serving"} =>
          /\ ~TextLeft /\ ~TowerLeft
          /\ PadsHead(m) => m.streams \/ m.reads = "private"
          /\ m.tower # None => TowerWidthOf(m) = m.tower.width
    /\ stage \in {"fitted", "serving"} =>
          /\ PadsHead(m) => m.streams /\ m.reads # "private" /\ m.norm # "gemma"
          /\ PadsInter(m) => m.streams /\ m.mlp.gated /\ m.mlp.reads

LoadInv == ConfigInv /\ HooksInv /\ PartsInv /\ LoadedInv /\ RefusedForCause

LEMMA RoundUpIs ==
    ASSUME NEW n \in Nat, NEW k \in Nat \ {0}
    PROVE  /\ n % k = 0 => RoundUp(n, k) = n
           /\ n % k # 0 => RoundUp(n, k) > n
           /\ RoundUp(n, k) \in Nat /\ n <= RoundUp(n, k) /\ RoundUp(n, k) % k = 0
<1>1. PICK q \in Nat : RoundUp(n, k) = q * k
  BY RoundUpCovers
<1>2. RoundUp(n, k) \in Nat /\ n <= RoundUp(n, k) /\ RoundUp(n, k) < n + k
  BY RoundUpCovers
<1>3. q * k + 0 = q * k /\ 0 \in 0..(k - 1) /\ q * k \in Nat
  OBVIOUS
<1>4. RoundUp(n, k) % k = 0
  <2>1. (q * k + 0) % k = 0
    BY <1>3, PartsOfSum
  <2> QED
    BY <1>1, <1>3, <2>1
<1>5. ASSUME n % k = 0 PROVE RoundUp(n, k) = n
  <2> DEFINE c == n \div k
  <2>1. c \in Nat /\ n = c * k
    <3>1. c \in Nat /\ n % k \in 0..(k - 1) /\ n = c * k + (n % k)
      BY Parts
    <3>2. c * k \in Nat
      BY <3>1
    <3> QED
      BY <1>5, <3>1, <3>2
  <2> HIDE DEF c
  <2>2. ~(c < q)
    <3> SUFFICES ASSUME c < q PROVE FALSE
      OBVIOUS
    <3>1. c * k + k <= q * k /\ c * k \in Nat
      BY <2>1, NextMultiple
    <3> QED
      BY <1>1, <1>2, <1>3, <2>1, <3>1
  <2>3. ~(q < c)
    <3> SUFFICES ASSUME q < c PROVE FALSE
      OBVIOUS
    <3>1. q * k + k <= c * k
      BY <2>1, NextMultiple
    <3> QED
      BY <1>1, <1>2, <1>3, <2>1, <3>1
  <2> QED
    BY <1>1, <2>1, <2>2, <2>3
<1>6. ASSUME n % k # 0 PROVE RoundUp(n, k) > n
  BY <1>2, <1>4, <1>6
<1> QED
  BY <1>2, <1>4, <1>5, <1>6

LEMMA HeadsOf ==
    ASSUME NEW x \in Models
    PROVE  /\ x.width \in Nat \ {0} /\ HeadMultiple(x) \in Nat \ {0} /\ HeadOf(x) \in Nat
           /\ x.width <= HeadOf(x)
           /\ PadsHead(x) => HeadOf(x) > x.width
           /\ ~PadsHead(x) => HeadOf(x) = x.width
<1>1. x.width \in Nat \ {0} /\ Stick \in Nat \ {0}
  BY ModelsAssumption, StickAssumption
<1>2. HeadMultiple(x) \in Nat \ {0}
  BY <1>1 DEF HeadMultiple
<1> QED
  BY <1>1, <1>2, RoundUpIs DEF HeadOf, PadsHead

LEMMA IntersOf ==
    ASSUME NEW x \in Models, x.mlp # None
    PROVE  /\ x.mlp.inter \in Nat \ {0} /\ InterOf(x) \in Nat /\ x.mlp.inter <= InterOf(x)
           /\ PadsInter(x) => InterOf(x) > x.mlp.inter
           /\ ~PadsInter(x) => InterOf(x) = x.mlp.inter
           /\ MlpWidth(x) \in Nat
<1>1. x.mlp.inter \in Nat \ {0} /\ Stick \in Nat \ {0} /\ x.tp \in Nat \ {0}
  BY ModelsAssumption, StickAssumption
<1>2. Stick * x.tp \in Nat \ {0}
  BY <1>1
<1> DEFINE n == x.mlp.inter  k == Stick * x.tp
<1>3. n \in Nat /\ k \in Nat \ {0}
  BY <1>1, <1>2
<1> HIDE DEF n, k
<1>4. /\ n % k # 0 => RoundUp(n, k) > n
      /\ RoundUp(n, k) \in Nat /\ n <= RoundUp(n, k)
  BY <1>3, RoundUpIs
<1> QED
  BY <1>1, <1>3, <1>4 DEF InterOf, PadsInter, MlpWidth, n, k

LEMMA ConfigIs ==
    ASSUME m \in Models, config = Configured(m)
    PROVE  /\ HeadPadded <=> PadsHead(m)
           /\ config.head = HeadOf(m) /\ (PadsHead(m) => config.headOf = m.width)
           /\ InterPadded <=> PadsInter(m)
           /\ m.mlp # None => config.inter = InterOf(m)
           /\ PadsInter(m) => config.interOf = m.mlp.inter /\ m.mlp # None
<1>1. config.head = HeadOf(m) /\ config.headOf = IF PadsHead(m) THEN m.width ELSE None
  BY DEF Configured, _maybe_pad_head_dim, HeadOf
<1>2. /\ config.interOf = IF PadsInter(m) THEN m.mlp.inter ELSE None
      /\ m.mlp # None => config.inter = InterOf(m)
  BY DEF Configured, _maybe_pad_intermediate_size, InterOf
<1>3. m.width # None
  BY HeadsOf, NoneAssumption
<1>4. PadsInter(m) => m.mlp # None
  BY DEF PadsInter
<1>5. PadsInter(m) => m.mlp.inter # None
  BY <1>4, IntersOf, NoneAssumption
<1> QED
  BY <1>1, <1>2, <1>3, <1>4, <1>5 DEF HeadPadded, InterPadded

LEMMA RowsUpTo ==
    ASSUME NEW n \in Nat, NEW w, DOMAIN w = 0..(n - 1) PROVE Rows(w) = n
<1>1. 0 \in Int /\ n - 1 \in Int
  OBVIOUS
<1>2. Cardinality(0..(n - 1)) = IF 0 > n - 1 THEN 0 ELSE n - 1 - 0 + 1
  BY <1>1, FS_Interval, Zenon
<1> QED
  BY <1>2 DEF Rows

LEMMA LeftStays ==
    ASSUME UNCHANGED <<m, shims, config>> PROVE TextLeft' = TextLeft /\ TowerLeft' = TowerLeft
  BY DEF TextLeft, TowerLeft, LeftFor, HeadPadded

\* What a class makes of a width: the model's own padded one, or an earlier model's where one
\* is left for it, which is then wider.
LEMMA ShimsAreOwn ==
    ASSUME m \in Models, config = Configured(m), HooksInv, stage \in Hooks, NEW width
    PROVE  /\ ~LeftFor(width) /\ ~m.hf /\ width = m.width => Shimmed(width) = HeadOf(m)
           /\ PadsHead(m) /\ ~m.hf /\ width # m.width => Shimmed(width) = width
           /\ ~LeftFor(width) /\ m.tower # None /\ m.tower.shared /\ width = m.tower.width =>
                 Shimmed(width) = TowerWidthOf(m)
           /\ LeftFor(width) => Shimmed(width) \in Nat /\ Shimmed(width) > width /\ (m.hf \/ ~PadsHead(m))
<1>1. /\ PadsHead(m) /\ ~m.hf => m.file \in DOMAIN shims /\ shims[m.file] = Own(m)
      /\ \A f \in DOMAIN shims : \E y \in Models : PadsHead(y) /\ ~y.hf /\ y.file = f /\ shims[f] = Own(y)
      /\ HeadPadded <=> PadsHead(m)
  BY ConfigIs DEF HooksInv
<1>2. ASSUME PadsHead(m) /\ ~m.hf
      PROVE  Shimmed(width) = IF width = m.width THEN HeadOf(m) ELSE width
  <2>1. m.file \in DOMAIN shims /\ shims[m.file].orig = m.width /\ shims[m.file].padded = HeadOf(m)
    BY <1>1, <1>2 DEF Own
  <2> QED
    BY <2>1 DEF Shimmed
<1>3. CASE LeftFor(width)
  <2>1. m.file \in DOMAIN shims /\ shims[m.file].orig = width /\ (m.hf \/ ~PadsHead(m))
    BY <1>1, <1>3 DEF LeftFor
  <2>2. PICK y \in Models : PadsHead(y) /\ shims[m.file] = Own(y)
    BY <1>1, <2>1
  <2>3. y.width = width /\ shims[m.file].padded = HeadOf(y)
    BY <2>1, <2>2 DEF Own
  <2>4. HeadOf(y) \in Nat /\ HeadOf(y) > width
    BY <2>2, <2>3, HeadsOf
  <2> QED
    BY <1>3, <2>1, <2>3, <2>4 DEF Shimmed
<1>4. CASE ~LeftFor(width) /\ PadsHead(m) /\ ~m.hf
  BY <1>2, <1>4 DEF TowerWidthOf, Caught
<1>5. CASE ~LeftFor(width) /\ ~(PadsHead(m) /\ ~m.hf)
  <2>1. Shimmed(width) = width
    BY <1>1, <1>5 DEF Shimmed, LeftFor
  <2>2. ~PadsHead(m) => HeadOf(m) = m.width
    BY HeadsOf
  <2> QED
    BY <1>5, <2>1, <2>2 DEF TowerWidthOf, Caught
<1> QED
  BY <1>3, <1>4, <1>5

LEMMA WidthsBuilt ==
    ASSUME m \in Models, config = Configured(m), HooksInv, stage \in Hooks
    PROVE  /\ ~TextLeft => HeadWidth = TextWidth(m)
           /\ TextLeft => HeadWidth \in Nat /\ HeadWidth > m.width /\ ~PadsHead(m)
           /\ m.tower # None /\ ~TowerLeft => TowerWidth = TowerWidthOf(m)
           /\ TowerLeft => TowerWidth \in Nat /\ TowerWidth > m.tower.width
<1>1. config.head = HeadOf(m) /\ (HeadOf(m) # m.width => PadsHead(m)) /\ (PadsHead(m) => HeadOf(m) # m.width)
  BY ConfigIs, HeadsOf
<1>2. ASSUME m.reads = "config", ~TextLeft PROVE HeadWidth = TextWidth(m)
  <2>1. ~m.hf => Shimmed(HeadOf(m)) = HeadOf(m)
    BY <1>1, <1>2, ShimsAreOwn DEF TextLeft
  <2> QED
    BY <1>1, <1>2, <2>1 DEF HeadWidth, TextWidth
<1>3. ASSUME m.reads = "derived", ~TextLeft PROVE HeadWidth = TextWidth(m)
  <2>1. ~m.hf
    BY <1>3, ModelsAssumption
  <2>2. Shimmed(m.width) = HeadOf(m)
    BY <1>3, <2>1, ShimsAreOwn DEF TextLeft
  <2> QED
    BY <1>3, <2>2 DEF HeadWidth, TextWidth
<1>4. ASSUME m.reads = "private" PROVE HeadWidth = TextWidth(m)
  BY <1>4 DEF HeadWidth, TextWidth
<1>5. ASSUME m.reads = "bert" PROVE HeadWidth = TextWidth(m)
  <2>1. m.pooling /\ m.rope = "none"
    BY <1>5, ModelsAssumption
  <2>2. HeadOf(m) = RoundUp(m.width, Stick)
    BY <2>1 DEF HeadOf, HeadMultiple
  <2>3. ~patched => HeadOf(m) = m.width
    BY <2>1, HeadsOf DEF HooksInv
  <2> QED
    BY <1>5, <2>2, <2>3 DEF HeadWidth, TextWidth
<1>6. m.reads \in {"config", "derived", "private", "bert"}
  BY ModelsAssumption
<1>7. ASSUME TextLeft PROVE HeadWidth \in Nat /\ HeadWidth > m.width /\ ~PadsHead(m)
  <2>1. LeftFor(m.width) /\ ~m.hf /\ m.reads \in {"config", "derived"}
    BY <1>7 DEF TextLeft
  <2>2. Shimmed(m.width) \in Nat /\ Shimmed(m.width) > m.width /\ ~PadsHead(m)
    BY <2>1, ShimsAreOwn
  <2>3. HeadWidth = Shimmed(m.width)
    BY <1>1, <2>1, <2>2 DEF HeadWidth
  <2> QED
    BY <2>2, <2>3
<1>8. ASSUME m.tower # None PROVE TowerWidth = IF TowerLeft THEN Shimmed(m.tower.width) ELSE TowerWidthOf(m)
  <2>1. ~TowerLeft /\ m.tower.shared => Shimmed(m.tower.width) = TowerWidthOf(m)
    BY <1>8, ShimsAreOwn DEF TowerLeft
  <2> QED
    BY <1>8, <2>1 DEF TowerWidth, TowerWidthOf, Caught, TowerLeft
<1>9. TowerLeft => Shimmed(m.tower.width) \in Nat /\ Shimmed(m.tower.width) > m.tower.width
  BY ShimsAreOwn DEF TowerLeft
<1>10. TowerLeft => m.tower # None
  BY DEF TowerLeft
<1> QED
  BY <1>2, <1>3, <1>4, <1>5, <1>6, <1>7, <1>8, <1>9, <1>10

LEMMA HooksKept ==
    ASSUME ConfigInv, HooksInv, install_pad_loaders
    PROVE  HooksInv'
<1>1. m \in Models /\ config = Configured(m) /\ stage = "configured"
  BY DEF install_pad_loaders, ConfigInv
<1>2. /\ shims' = install_padded_head_dim(shims)
      /\ patched' = (patched \/ (HeadPadded /\ m.pooling))
      /\ stage' = IF InterPadded /\ ~m.streams THEN "refused" ELSE "hooked"
      /\ m' = m
  BY DEF install_pad_loaders
<1>3. /\ HeadPadded <=> PadsHead(m)
      /\ InterPadded <=> PadsInter(m)
      /\ config.head = HeadOf(m)
      /\ PadsHead(m) => config.headOf = m.width
  BY <1>1, ConfigIs
<1>4. shims' = IF ~PadsHead(m) \/ m.hf THEN shims ELSE Put(shims, m.file, Own(m))
  BY <1>2, <1>3 DEF install_padded_head_dim, Own
<1>5. /\ PadsHead(m) /\ ~m.hf => m.file \in DOMAIN shims' /\ shims'[m.file] = Own(m)
      /\ \A f \in DOMAIN shims' : \/ f \in DOMAIN shims /\ shims'[f] = shims[f]
                                  \/ PadsHead(m) /\ ~m.hf /\ f = m.file /\ shims'[f] = Own(m)
  <2>1. CASE ~PadsHead(m) \/ m.hf
    BY <1>4, <2>1
  <2>2. CASE PadsHead(m) /\ ~m.hf
    <3>1. shims' = [k \in DOMAIN shims \cup {m.file} |-> IF k = m.file THEN Own(m) ELSE shims[k]]
      BY <1>4, <2>2 DEF Put
    <3> QED
      BY <2>2, <3>1
  <2> QED
    BY <2>1, <2>2
<1>6. \A f \in DOMAIN shims : \E y \in Models : PadsHead(y) /\ ~y.hf /\ y.file = f /\ shims[f] = Own(y)
  BY DEF HooksInv
<1>7. \A f \in DOMAIN shims' : \E y \in Models : PadsHead(y) /\ ~y.hf /\ y.file = f /\ shims'[f] = Own(y)
  BY <1>1, <1>5, <1>6
<1>8. patched' \in BOOLEAN /\ (PadsHead(m) /\ m.pooling => patched')
  <2>1. HeadPadded \in BOOLEAN /\ m.pooling \in BOOLEAN
    BY <1>1, ModelsAssumption DEF HeadPadded
  <2>2. patched \in BOOLEAN
    BY DEF HooksInv
  <2> QED
    BY <1>2, <1>3, <2>1, <2>2
<1>9. stage' \in Hooks => (PadsInter(m) => m.streams)
  BY <1>2, <1>3 DEF Hooks, Builds
<1> QED
  BY <1>2, <1>5, <1>7, <1>8, <1>9 DEF HooksInv

(***************************************************************************)
(* The checkpoint's heads in the tensors that leave the loader.            *)
(***************************************************************************)
RowsTo(w, n) == w = [r \in 0..(n - 1) |-> w[r]]
Laned(w, n, d) == RowsTo(w, n * d) /\ \A h \in 0..(n - 1), l \in 0..(d - 1) : w[h * d + l] = <<h, l>>

Half(h, l, d, width) ==
    IF l < d \div 2 THEN <<h, l>>
    ELSE IF l - width \div 2 \in 0..(d \div 2 - 1) THEN <<h, d \div 2 + (l - width \div 2)>> ELSE Zero
End(h, l, d) == IF l < d THEN <<h, l>> ELSE Zero

InHalves(w, n, d, width) ==
    RowsTo(w, n * width) /\ \A h \in 0..(n - 1), l \in 0..(width - 1) : w[h * width + l] = Half(h, l, d, width)
AtEnd(w, n, d, width) ==
    RowsTo(w, n * width) /\ \A h \in 0..(n - 1), l \in 0..(width - 1) : w[h * width + l] = End(h, l, d)

LEMMA RowsToRows ==
    ASSUME NEW n \in Nat, NEW w, RowsTo(w, n) PROVE DOMAIN w = 0..(n - 1) /\ Rows(w) = n
<1>1. DOMAIN w = 0..(n - 1)
  BY DEF RowsTo
<1> QED
  BY <1>1, RowsUpTo

LEMMA NativeIsLaned ==
    ASSUME NEW n \in Nat, NEW d \in Nat \ {0} PROVE Laned(Native(n, d), n, d)
<1>1. ASSUME NEW h \in 0..(n - 1), NEW l \in 0..(d - 1) PROVE Native(n, d)[h * d + l] = <<h, l>>
  <2>1. (h * d + l) \div d = h /\ (h * d + l) % d = l
    BY PartsOfSum
  <2>2. h * d + l \in 0..(n * d - 1)
    BY SumWithin
  <2> QED
    BY <2>1, <2>2 DEF Native
<1>2. RowsTo(Native(n, d), n * d)
  BY DEF RowsTo, Native
<1> QED
  BY <1>1, <1>2 DEF Laned

LEMMA SpreadInHalves ==
    ASSUME NEW n \in Nat, NEW d \in Nat \ {0}, NEW width \in Nat \ {0}, NEW w, Laned(w, n, d)
    PROVE  InHalves(_pad_qk_interleaved(w, n, d, width), n, d, width)
<1> DEFINE out == _pad_qk_interleaved(w, n, d, width)
<1>1. RowsTo(out, n * width)
  BY DEF _pad_qk_interleaved, RowsTo
<1>2. ASSUME NEW h \in 0..(n - 1), NEW l \in 0..(width - 1) PROVE out[h * width + l] = Half(h, l, d, width)
  <2>1. (h * width + l) \div width = h /\ (h * width + l) % width = l
    BY PartsOfSum
  <2>2. h * width + l \in 0..(n * width - 1)
    BY SumWithin
  <2>3. out[h * width + l] = IF l < d \div 2 THEN w[h * d + l]
                             ELSE IF l - width \div 2 \in 0..(d \div 2 - 1)
                                  THEN w[h * d + d \div 2 + (l - width \div 2)] ELSE Zero
    BY <2>1, <2>2 DEF _pad_qk_interleaved
  <2>4. l < d \div 2 => w[h * d + l] = <<h, l>>
    <3>1. l < d \div 2 => l \in 0..(d - 1)
      OBVIOUS
    <3> QED
      BY <3>1 DEF Laned
  <2>5. ASSUME l - width \div 2 \in 0..(d \div 2 - 1)
        PROVE  w[h * d + d \div 2 + (l - width \div 2)] = <<h, d \div 2 + (l - width \div 2)>>
    <3> DEFINE i == d \div 2 + (l - width \div 2)
    <3>1. i \in 0..(d - 1)
      BY <2>5
    <3>2. h * d \in Nat /\ d \div 2 \in Nat /\ l - width \div 2 \in Nat
      BY <2>5
    <3>3. h * d + d \div 2 + (l - width \div 2) = h * d + i
      BY <3>2
    <3> HIDE DEF i
    <3>4. w[h * d + i] = <<h, i>>
      BY <3>1 DEF Laned
    <3> QED
      BY <3>3, <3>4 DEF i
  <2> HIDE DEF out
  <2> QED
    BY <2>3, <2>4, <2>5 DEF Half
<1> QED
  BY <1>1, <1>2 DEF InHalves

LEMMA PaddedAtEnd ==
    ASSUME NEW n \in Nat, NEW d \in Nat \ {0}, NEW width \in Nat \ {0}, NEW w, Laned(w, n, d)
    PROVE  AtEnd(pad_output_end(w, n, d, width), n, d, width)
<1> DEFINE out == pad_output_end(w, n, d, width)
<1>1. RowsTo(out, n * width)
  BY DEF pad_output_end, RowsTo
<1>2. ASSUME NEW h \in 0..(n - 1), NEW l \in 0..(width - 1) PROVE out[h * width + l] = End(h, l, d)
  <2>1. (h * width + l) \div width = h /\ (h * width + l) % width = l
    BY PartsOfSum
  <2>2. h * width + l \in 0..(n * width - 1)
    BY SumWithin
  <2>3. out[h * width + l] = IF l < d THEN w[h * d + l] ELSE Zero
    BY <2>1, <2>2 DEF pad_output_end
  <2>4. l < d => w[h * d + l] = <<h, l>>
    <3>1. l < d => l \in 0..(d - 1)
      OBVIOUS
    <3> QED
      BY <3>1 DEF Laned
  <2> HIDE DEF out
  <2> QED
    BY <2>3, <2>4 DEF End
<1> QED
  BY <1>1, <1>2 DEF AtEnd

\* Heads of whole sticks are where both ways of padding would leave them.
LEMMA LanedBoth ==
    ASSUME NEW n \in Nat, NEW d \in Nat \ {0}, NEW w, Laned(w, n, d)
    PROVE  AtEnd(w, n, d, d) /\ (d % 2 = 0 => InHalves(w, n, d, d))
<1>1. ASSUME NEW h \in 0..(n - 1), NEW l \in 0..(d - 1)
      PROVE  w[h * d + l] = End(h, l, d) /\ (d % 2 = 0 => w[h * d + l] = Half(h, l, d, d))
  <2>1. w[h * d + l] = <<h, l>>
    BY DEF Laned
  <2>2. d % 2 = 0 => Half(h, l, d, d) = <<h, l>>
    <3>1. d % 2 = 0 => (l < d \div 2 \/ (l - d \div 2 \in 0..(d \div 2 - 1) /\ d \div 2 + (l - d \div 2) = l))
      OBVIOUS
    <3> QED
      BY <3>1 DEF Half
  <2> QED
    BY <2>1, <2>2 DEF End
<1>2. RowsTo(w, n * d)
  BY DEF Laned
<1> QED
  BY <1>1, <1>2 DEF AtEnd, InHalves

LEMMA Narrowed ==
    ASSUME NEW na \in Nat, NEW nb \in Nat, NEW a, NEW b, RowsTo(a, na), RowsTo(b, nb)
    PROVE  /\ RowsTo(Cat(a, b), na + nb)
           /\ \A r \in 0..(na - 1) : Cat(a, b)[r] = a[r]
           /\ \A r \in 0..(nb - 1) : Cat(a, b)[na + r] = b[r]
<1>1. Rows(a) = na /\ Rows(b) = nb
  BY RowsToRows
<1>2. Cat(a, b) = [r \in 0..(na + nb - 1) |-> IF r < na THEN a[r] ELSE b[r - na]]
  BY <1>1 DEF Cat
<1>3. ASSUME NEW r \in 0..(nb - 1) PROVE Cat(a, b)[na + r] = b[r]
  <2>1. na + r \in 0..(na + nb - 1) /\ ~(na + r < na) /\ na + r - na = r
    OBVIOUS
  <2> QED
    BY <1>2, <2>1
<1>4. ASSUME NEW r \in 0..(na - 1) PROVE Cat(a, b)[r] = a[r]
  <2>1. r \in 0..(na + nb - 1) /\ r < na
    OBVIOUS
  <2> QED
    BY <1>2, <2>1
<1>5. RowsTo(Cat(a, b), na + nb)
  BY <1>1 DEF RowsTo, Cat
<1> QED
  BY <1>3, <1>4, <1>5

\* A fused tensor's three parts.
LEMMA FusedParts ==
    ASSUME NEW na \in Nat, NEW nb \in Nat, NEW nc \in Nat, NEW a, NEW b, NEW c,
           RowsTo(a, na), RowsTo(b, nb), RowsTo(c, nc)
    PROVE  /\ Narrow(Cat(Cat(a, b), c), 0, na) = a
           /\ Narrow(Cat(Cat(a, b), c), na, nb) = b
           /\ Narrow(Cat(Cat(a, b), c), na + nb, nc) = c
<1> DEFINE ab == Cat(a, b)  abc == Cat(ab, c)
<1>1. /\ RowsTo(ab, na + nb)
      /\ \A r \in 0..(na - 1) : ab[r] = a[r]
      /\ \A r \in 0..(nb - 1) : ab[na + r] = b[r]
  BY Narrowed
<1>2. na + nb \in Nat
  OBVIOUS
<1> HIDE DEF ab
<1>3. /\ \A r \in 0..(na + nb - 1) : abc[r] = ab[r]
      /\ \A r \in 0..(nc - 1) : abc[na + nb + r] = c[r]
  BY <1>1, <1>2, Narrowed
<1> HIDE DEF abc
<1>4. Narrow(abc, 0, na) = a
  <2>1. \A r \in 0..(na - 1) : abc[0 + r] = a[r]
    BY <1>1, <1>3
  <2> QED
    BY <2>1 DEF Narrow, RowsTo
<1>5. Narrow(abc, na, nb) = b
  <2>1. \A r \in 0..(nb - 1) : abc[na + r] = b[r]
    BY <1>1, <1>3
  <2> QED
    BY <2>1 DEF Narrow, RowsTo
<1>6. Narrow(abc, na + nb, nc) = c
  BY <1>3 DEF Narrow, RowsTo
<1> QED
  BY <1>4, <1>5, <1>6 DEF abc, ab

StreamWidth(x) == IF PadsHead(x) /\ x.streams THEN HeadOf(x) ELSE x.width

Placed(w, n, x) ==
    IF x.rope = "none" THEN AtEnd(w, n, x.width, StreamWidth(x)) ELSE InHalves(w, n, x.width, StreamWidth(x))

\* The text part's tensors as they leave the loader.
LEMMA StreamLanes ==
    ASSUME m \in Models, config = Configured(m), NEW heads \in Nat, NEW kv \in Nat
    PROVE  LET s == Streams("text", heads, kv, m.width) IN
           /\ DOMAIN s = {"q", "k", "v", "o"}
           /\ Placed(s.q, heads, m) /\ Placed(s.k, kv, m)
           /\ AtEnd(s.v, kv, m.width, StreamWidth(m)) /\ AtEnd(s.o, heads, m.width, StreamWidth(m))
<1> DEFINE s == Streams("text", heads, kv, m.width)
           d == m.width
           W == HeadOf(m)
           nq == Native(heads, d)
           nk == Native(kv, d)
<1>1. /\ d \in Nat \ {0} /\ W \in Nat \ {0}
      /\ HeadPadded <=> PadsHead(m)
      /\ config.head = W
      /\ PadsHead(m) => config.headOf = d
      /\ is_text_weight("text")
  BY HeadsOf, ConfigIs DEF is_text_weight
<1>2. Laned(nq, heads, d) /\ Laned(nk, kv, d)
  BY <1>1, NativeIsLaned
<1>3. CASE ~(PadsHead(m) /\ m.streams)
  <2>1. s = [q |-> nq, k |-> nk, v |-> nk, o |-> nq]
    BY <1>1, <1>3 DEF Streams
  <2>2. StreamWidth(m) = d
    BY <1>3 DEF StreamWidth
  <2>3. m.rope # "none" => d % 2 = 0
    BY ModelsAssumption
  <2> HIDE DEF nq, nk, d, s, W
  <2>4. /\ AtEnd(nq, heads, d, d) /\ AtEnd(nk, kv, d, d)
        /\ d % 2 = 0 => InHalves(nq, heads, d, d) /\ InHalves(nk, kv, d, d)
    BY <1>1, <1>2, LanedBoth
  <2>5. Placed(nq, heads, m) /\ Placed(nk, kv, m)
    BY <2>2, <2>3, <2>4 DEF Placed, d
  <2> QED
    BY <2>1, <2>2, <2>4, <2>5 DEF s, d
<1>4. CASE PadsHead(m) /\ m.streams
  <2> DEFINE iq == _pad_qk_interleaved(nq, heads, d, W)
             ik == _pad_qk_interleaved(nk, kv, d, W)
             ek == pad_output_end(nk, kv, d, W)
             eq == pad_output_end(nq, heads, d, W)
  <2>1. /\ InHalves(iq, heads, d, W) /\ InHalves(ik, kv, d, W)
        /\ AtEnd(eq, heads, d, W) /\ AtEnd(ek, kv, d, W)
    <3> HIDE DEF nq, nk, d, W
    <3> QED
      BY <1>1, <1>2, SpreadInHalves, PaddedAtEnd
  <2>2. StreamWidth(m) = W
    BY <1>4 DEF StreamWidth
  <2>3. /\ m.rope # "none" => m.reads # "bert"
        /\ m.rope = "none" => m.reads = "bert" /\ ~m.fused
    BY <1>4, ModelsAssumption
  <2>4. CASE ~m.fused
    <3>1. s = IF m.reads = "bert" THEN [q |-> eq, k |-> ek, v |-> ek, o |-> eq]
                                  ELSE [q |-> iq, k |-> ik, v |-> ek, o |-> eq]
      BY <1>1, <1>4, <2>4 DEF Streams
    <3> HIDE DEF nq, nk, d, s, W, iq, ik, ek, eq
    <3>2. /\ m.reads = "bert" => Placed(eq, heads, m) /\ Placed(ek, kv, m)
          /\ m.reads # "bert" => Placed(iq, heads, m) /\ Placed(ik, kv, m)
      BY <2>1, <2>2, <2>3 DEF Placed, d
    <3>3. CASE m.reads = "bert"
      BY <2>1, <2>2, <3>1, <3>2, <3>3 DEF s, d
    <3>4. CASE m.reads # "bert"
      BY <2>1, <2>2, <3>1, <3>2, <3>4 DEF s, d
    <3> QED
      BY <3>3, <3>4
  <2>5. CASE m.fused
    <3> DEFINE w == Cat(Cat(nq, nk), nk)
               f == _pad_fused_qkv(w, heads, kv, d, W)
    <3>1. s = [q |-> Narrow(f, 0, heads * W), k |-> Narrow(f, heads * W, kv * W),
               v |-> Narrow(f, (heads + kv) * W, kv * W), o |-> eq]
      BY <1>1, <1>4, <2>5 DEF Streams
    <3>2. /\ Narrow(w, 0, heads * d) = nq
          /\ Narrow(w, heads * d, kv * d) = nk
          /\ Narrow(w, (heads + kv) * d, kv * d) = nk
      <4>1. heads * d \in Nat /\ kv * d \in Nat /\ (heads + kv) * d = heads * d + kv * d
        BY <1>1
      <4>2. RowsTo(nq, heads * d) /\ RowsTo(nk, kv * d)
        BY <1>2 DEF Laned
      <4> HIDE DEF nq, nk, d
      <4> QED
        BY <4>1, <4>2, FusedParts
    <3>3. f = Cat(Cat(iq, ik), ek)
      BY <3>2 DEF _pad_fused_qkv
    <3>4. /\ Narrow(f, 0, heads * W) = iq
          /\ Narrow(f, heads * W, kv * W) = ik
          /\ Narrow(f, (heads + kv) * W, kv * W) = ek
      <4>1. heads * W \in Nat /\ kv * W \in Nat /\ (heads + kv) * W = heads * W + kv * W
        BY <1>1
      <4>2. RowsTo(iq, heads * W) /\ RowsTo(ik, kv * W) /\ RowsTo(ek, kv * W)
        BY <2>1 DEF InHalves, AtEnd
      <4> HIDE DEF iq, ik, ek, W, f
      <4> QED
        BY <3>3, <4>1, <4>2, FusedParts
    <3>5. s = [q |-> iq, k |-> ik, v |-> ek, o |-> eq]
      BY <3>1, <3>4
    <3> HIDE DEF nq, nk, d, s, W, iq, ik, ek, eq
    <3>6. Placed(iq, heads, m) /\ Placed(ik, kv, m)
      BY <2>1, <2>2, <2>3, <2>5 DEF Placed, d
    <3> QED
      BY <2>1, <2>2, <3>5, <3>6 DEF s, d
  <2> QED
    BY <2>4, <2>5
<1> QED
  BY <1>3, <1>4

\* What the pass of a part that is not padded leaves.
LEMMA TowerStream ==
    ASSUME NEW heads, NEW kv, NEW width
    PROVE  Streams("tower", heads, kv, width) =
               [q |-> Native(heads, width), k |-> Native(kv, width), v |-> Native(kv, width), o |-> Native(heads, width)]
<1>1. ~is_text_weight("tower")
  BY DEF is_text_weight
<1> QED
  BY <1>1 DEF Streams

LEMMA LanesAre ==
    ASSUME NEW n \in Nat
    PROVE  RowsTo(Lanes(n), n) /\ Rows(Lanes(n)) = n /\ \A i \in 0..(n - 1) : Lanes(n)[i] = i
<1>1. RowsTo(Lanes(n), n) /\ \A i \in 0..(n - 1) : Lanes(n)[i] = i
  BY DEF RowsTo, Lanes
<1> QED
  BY <1>1, RowsToRows

LEMMA PadEndIs ==
    ASSUME NEW n \in Nat, NEW k \in Nat, NEW w, RowsTo(w, n)
    PROVE  /\ RowsTo(PadEnd(w, k), k) /\ Rows(PadEnd(w, k)) = k
           /\ \A i \in 0..(k - 1) : PadEnd(w, k)[i] = IF i < n THEN w[i] ELSE Zero
           /\ PadEnd(w, n) = w
<1>1. Rows(w) = n
  BY RowsToRows
<1>2. RowsTo(PadEnd(w, k), k)
  BY DEF RowsTo, PadEnd
<1>3. \A i \in 0..(k - 1) : PadEnd(w, k)[i] = IF i < n THEN w[i] ELSE Zero
  BY <1>1 DEF PadEnd
<1>4. PadEnd(w, n) = w
  <2>1. PadEnd(w, n) = [r \in 0..(n - 1) |-> IF r < n THEN w[r] ELSE Zero]
    BY <1>1 DEF PadEnd
  <2>2. \A r \in 0..(n - 1) : r < n
    OBVIOUS
  <2> QED
    BY <2>1, <2>2 DEF RowsTo
<1> QED
  BY <1>2, <1>3, <1>4, RowsToRows

LEMMA HalvesOf ==
    ASSUME NEW n \in Nat, NEW a, NEW b, RowsTo(a, n), RowsTo(b, n)
    PROVE  /\ Rows(Cat(a, b)) = 2 * n /\ Rows(Cat(a, b)) \div 2 = n
           /\ Narrow(Cat(a, b), 0, n) = a /\ Narrow(Cat(a, b), n, n) = b
<1> DEFINE c == Cat(a, b)
<1>1. /\ RowsTo(c, n + n)
      /\ \A r \in 0..(n - 1) : c[r] = a[r]
      /\ \A r \in 0..(n - 1) : c[n + r] = b[r]
  BY Narrowed
<1> HIDE DEF c
<1>2. Rows(c) = 2 * n /\ Rows(c) \div 2 = n
  <2>1. n + n \in Nat /\ n + n = 2 * n /\ (2 * n) \div 2 = n
    OBVIOUS
  <2>2. Rows(c) = n + n
    BY <1>1, <2>1, RowsToRows
  <2> QED
    BY <2>1, <2>2
<1>3. Narrow(c, 0, n) = a
  <2>1. \A r \in 0..(n - 1) : c[0 + r] = a[r]
    BY <1>1
  <2> QED
    BY <2>1 DEF Narrow, RowsTo
<1>4. Narrow(c, n, n) = b
  BY <1>1 DEF Narrow, RowsTo
<1> QED
  BY <1>2, <1>3, <1>4 DEF c

\* A width the model builds is found in a tensor's rows.
LEMMA FitsOne ==
    ASSUME NEW n \in Nat \ {0}, NEW k \in Nat \ {0}, NEW S \in SUBSET (Nat \ {0}), k \in S, NEW w,
           NEW parts \in Nat \ {0}, Rows(w) = parts * (k * n)
    PROVE  Fits(w, parts, n, S) = {k}
<1>1. ASSUME NEW j \in S, parts * j * n = parts * (k * n) PROVE j = k
  <2> DEFINE u == parts * n
  <2>1. j * u = k * u /\ u \in Nat \ {0}
    <3>1. parts * j * n = j * (parts * n) /\ parts * (k * n) = k * (parts * n)
      OBVIOUS
    <3>2. parts * n \in Nat \ {0}
      OBVIOUS
    <3> QED
      BY <1>1, <3>1, <3>2
  <2> HIDE DEF u
  <2>2. j * u + 0 = k * u + 0 /\ 0 \in 0..(u - 1)
    BY <2>1
  <2> QED
    BY <2>1, <2>2, PartsAreUnique
<1>2. parts * k * n = parts * (k * n)
  OBVIOUS
<1>3. Fits(w, parts, n, S) = {j \in S : parts * (k * n) = parts * j * n}
  BY DEF Fits
<1> QED
  BY <1>1, <1>2, <1>3

PadsAlike(w, n, k, padded, S) ==
    LET wide == PadEnd(w, k * padded) IN
    _pad_weight(FALSE, w, n, padded, S) = wide /\ _pad_weight(TRUE, Cat(w, w), n, padded, S) = Cat(wide, wide)

LEMMA PadWeightIs ==
    ASSUME NEW n \in Nat \ {0}, NEW k \in Nat \ {0}, NEW padded \in Nat, NEW S \in SUBSET (Nat \ {0}), k \in S,
           NEW w, RowsTo(w, k * n)
    PROVE  PadsAlike(w, n, k, padded, S)
<1>1. k * n \in Nat
  OBVIOUS
<1>2. (CHOOSE x \in {k} : TRUE) = k
  OBVIOUS
<1>3. _pad_weight(FALSE, w, n, padded, S) = PadEnd(w, k * padded)
  <2>1. Rows(w) = 1 * (k * n)
    BY <1>1, RowsToRows
  <2>2. Fits(w, 1, n, S) = {k}
    BY <2>1, FitsOne
  <2> QED
    BY <1>2, <2>2 DEF _pad_weight
<1>4. _pad_weight(TRUE, Cat(w, w), n, padded, S) = Cat(PadEnd(w, k * padded), PadEnd(w, k * padded))
  <2> DEFINE c == Cat(w, w)
  <2>1. Rows(c) = 2 * (k * n) /\ Rows(c) \div 2 = k * n /\ Narrow(c, 0, k * n) = w /\ Narrow(c, k * n, k * n) = w
    BY <1>1, HalvesOf
  <2> HIDE DEF c
  <2>2. Fits(c, 2, n, S) = {k}
    BY <2>1, FitsOne
  <2>3. _pad_weight(TRUE, c, n, padded, S) = Cat(PadEnd(w, k * padded), PadEnd(w, k * padded))
    BY <1>2, <2>1, <2>2 DEF _pad_weight
  <2> QED
    BY <2>3 DEF c
<1> QED
  BY <1>3, <1>4 DEF PadsAlike

InterStream(x) == IF PadsInter(x) /\ x.streams /\ x.mlp.gated THEN InterOf(x) ELSE x.mlp.inter

LEMMA MlpStreams ==
    ASSUME m \in Models, config = Configured(m), m.mlp # None, NEW k \in Multipliers
    PROVE  /\ GateStream(k).gate = PadEnd(Lanes(k * m.mlp.inter), k * InterStream(m))
           /\ GateStream(k).up = PadEnd(Lanes(k * m.mlp.inter), k * InterStream(m))
           /\ DownStream(k) = PadEnd(Lanes(k * m.mlp.inter), k * InterStream(m))
           /\ k * InterStream(m) \in Nat /\ k \in {1, 2}
           /\ Rows(PadEnd(Lanes(k * m.mlp.inter), k * InterStream(m))) = k * InterStream(m)
<1> DEFINE n == m.mlp.inter  P == InterOf(m)  w == Lanes(k * n)  X == InterStream(m)
           pads == PadsInter(m) /\ m.streams /\ m.mlp.gated
<1>1. /\ n \in Nat \ {0} /\ P \in Nat
      /\ PadsInter(m) => config.inter = P /\ config.interOf = n
      /\ InterPadded <=> PadsInter(m)
  BY IntersOf, ConfigIs
<1>2. k \in Nat \ {0} /\ Multipliers \in SUBSET (Nat \ {0}) /\ k \in {1, 2}
  BY DEF Multipliers
<1>3. RowsTo(w, k * n) /\ k * n \in Nat
  <2>1. k * n \in Nat
    BY <1>1, <1>2
  <2> QED
    BY <2>1, LanesAre
<1>4. k * X \in Nat
  BY <1>1, <1>2 DEF InterStream
<1>5. RowsTo(PadEnd(w, k * X), k * X) /\ Rows(PadEnd(w, k * X)) = k * X /\ PadEnd(w, k * n) = w
  <2> HIDE DEF w, X, n
  <2> QED
    BY <1>3, <1>4, PadEndIs
<1>6. m.mlp.fused \in BOOLEAN
  BY ModelsAssumption
<1>7. CASE ~pads
  <2>1. X = n
    BY <1>7 DEF InterStream
  <2>2. DownStream(k) = w
    BY <1>1, <1>7 DEF DownStream
  <2>3. CASE ~m.mlp.fused
    <3>1. GateStream(k) = [gate |-> w, up |-> w]
      BY <1>1, <1>7, <2>3 DEF GateStream
    <3> HIDE DEF w, X, n
    <3>2. PadEnd(w, k * X) = w
      BY <1>5, <2>1
    <3>3. /\ GateStream(k).gate = PadEnd(w, k * X)
          /\ GateStream(k).up = PadEnd(w, k * X)
          /\ DownStream(k) = PadEnd(w, k * X)
      BY <2>2, <3>1, <3>2
    <3> QED
      BY <1>2, <1>4, <1>5, <3>3 DEF w, X, n
  <2>4. CASE m.mlp.fused
    <3> DEFINE all == Cat(w, w)
    <3>1. GateStream(k) = [gate |-> Narrow(all, 0, Rows(all) \div 2), up |-> Narrow(all, Rows(all) \div 2, Rows(all) \div 2)]
      BY <1>1, <1>7, <2>4 DEF GateStream
    <3> HIDE DEF w, X, n
    <3>2. Rows(all) \div 2 = k * n /\ Narrow(all, 0, k * n) = w /\ Narrow(all, k * n, k * n) = w
      BY <1>3, HalvesOf
    <3> HIDE DEF all
    <3>3. PadEnd(w, k * X) = w
      BY <1>5, <2>1
    <3>4. /\ GateStream(k).gate = PadEnd(w, k * X)
          /\ GateStream(k).up = PadEnd(w, k * X)
          /\ DownStream(k) = PadEnd(w, k * X)
      BY <2>2, <3>1, <3>2, <3>3
    <3> QED
      BY <1>2, <1>4, <1>5, <3>4 DEF w, X, n
  <2> QED
    BY <2>3, <2>4
<1>8. CASE pads
  <2>1. X = P
    BY <1>8 DEF InterStream
  <2> DEFINE one == _pad_weight(FALSE, w, n, P, Multipliers)  two == _pad_weight(TRUE, Cat(w, w), n, P, Multipliers)
  <2>2. one = PadEnd(w, k * X) /\ two = Cat(PadEnd(w, k * X), PadEnd(w, k * X))
    <3> DEFINE S == Multipliers
    <3>1. k \in S /\ S \in SUBSET (Nat \ {0})
      BY <1>2
    <3> HIDE DEF w, X, n, P, S
    <3>2. PadsAlike(w, n, k, P, S)
      BY <1>1, <1>2, <1>3, <3>1, PadWeightIs
    <3> QED
      BY <2>1, <3>2 DEF S, PadsAlike
  <2>3. DownStream(k) = one
    BY <1>1, <1>8 DEF DownStream
  <2>4. CASE ~m.mlp.fused
    <3>0. m.mlp.fused = FALSE
      BY <1>6, <2>4
    <3>1. GateStream(k) = [gate |-> one, up |-> one]
      BY <1>1, <1>8, <3>0 DEF GateStream
    <3> HIDE DEF w, X, n, one, two
    <3>3. /\ GateStream(k).gate = PadEnd(w, k * X)
          /\ GateStream(k).up = PadEnd(w, k * X)
          /\ DownStream(k) = PadEnd(w, k * X)
      BY <2>2, <2>3, <3>1
    <3> QED
      BY <1>2, <1>4, <1>5, <3>3 DEF w, X, n
  <2>5. CASE m.mlp.fused
    <3>0. m.mlp.fused = TRUE
      BY <1>6, <2>5
    <3>1. GateStream(k) = [gate |-> Narrow(two, 0, Rows(two) \div 2), up |-> Narrow(two, Rows(two) \div 2, Rows(two) \div 2)]
      BY <1>1, <1>8, <3>0 DEF GateStream
    <3> HIDE DEF w, X, n, one, two
    <3>2. /\ Rows(two) \div 2 = k * X
          /\ Narrow(two, 0, k * X) = PadEnd(w, k * X) /\ Narrow(two, k * X, k * X) = PadEnd(w, k * X)
      BY <1>4, <1>5, <2>2, HalvesOf
    <3>3. /\ GateStream(k).gate = PadEnd(w, k * X)
          /\ GateStream(k).up = PadEnd(w, k * X)
          /\ DownStream(k) = PadEnd(w, k * X)
      BY <2>2, <2>3, <3>1, <3>2
    <3> QED
      BY <1>2, <1>4, <1>5, <3>3 DEF w, X, n
  <2> QED
    BY <2>4, <2>5
<1> QED
  BY <1>7, <1>8

LEMMA HooksStay ==
    ASSUME HooksInv, UNCHANGED <<m, shims, patched>>, stage' \in Hooks => stage \in Hooks
    PROVE  HooksInv'
  BY DEF HooksInv

LEMMA MultipliersAre == m.mlp # None => Multipliers = MultipliersOf(m)
BY DEF Multipliers, MultipliersOf

Fresh(a, width, rope, scale, norm) ==
    /\ Shaped(a) /\ a.width = width /\ a.rope = rope /\ a.impl = scale /\ a.module = scale
    /\ a.norm.kind = norm /\ a.norm.folded = FALSE /\ a.norm.eps = <<1, 1>>

LEMMA AttentionShaped ==
    ASSUME NEW width, NEW rope, NEW scale, NEW norm
    PROVE  Fresh(Attention(width, rope, scale, norm), width, rope, scale, norm)
  BY DEF Attention, Shaped, Fresh

LEMMA PartsAsBuilt ==
    ASSUME ConfigInv, HooksInv, initialize_model
    PROVE  PartsInv' /\ (stage' = "built" \/ stage' = "refused")
<1>1. stage = "hooked" /\ m' = m /\ config' = config /\ (stage' = "built" \/ stage' = "refused")
  BY DEF initialize_model
<1>2. m \in Models /\ config = Configured(m) /\ stage \in Hooks
  BY <1>1 DEF ConfigInv, Hooks
<1>3. CASE stage' = "refused"
  BY <1>3 DEF PartsInv, Builds
<1>4. CASE stage' = "built"
  <2>1. PICK rope, scale, towerRope :
            /\ attn' = [p \in TargetParts |->
                  IF p = "text" THEN Attention(HeadWidth, rope, scale, m.norm)
                  ELSE Attention(TowerWidth, towerRope, TowerWidth, "none")]
            /\ mlp' = IF m.mlp = None THEN <<>>
                      ELSE [k \in Multipliers |-> [width |-> k * InterWidth, weights |-> <<>>]]
    BY <1>4 DEF initialize_model
  <2>2. /\ IF TextLeft THEN HeadWidth \in Nat /\ HeadWidth > m.width ELSE HeadWidth = TextWidth(m)
        /\ m.tower # None => IF TowerLeft THEN TowerWidth \in Nat /\ TowerWidth > m.tower.width
                             ELSE TowerWidth = TowerWidthOf(m)
        /\ TextLeft' = TextLeft /\ TowerLeft' = TowerLeft
    <3>1. UNCHANGED <<m, shims, config>>
      BY <1>1 DEF initialize_model
    <3> QED
      BY <1>2, <3>1, WidthsBuilt, LeftStays
  <2>3. /\ \A p \in DOMAIN attn' : Shaped(attn'[p])
        /\ DOMAIN attn' = TargetParts
        /\ attn'["text"].width = HeadWidth /\ attn'["text"].norm.kind = m.norm
        /\ m.tower # None => attn'["tower"].width = TowerWidth
    <3>1. /\ DOMAIN attn' = TargetParts
          /\ \A p \in DOMAIN attn' : attn'[p] = IF p = "text" THEN Attention(HeadWidth, rope, scale, m.norm)
                                                ELSE Attention(TowerWidth, towerRope, TowerWidth, "none")
      BY <2>1
    <3>2. "text" \in TargetParts /\ (m.tower # None => "tower" \in TargetParts)
      BY DEF TargetParts
    <3>3. attn'["text"] = Attention(HeadWidth, rope, scale, m.norm)
      BY <3>1, <3>2
    <3>4. m.tower # None => attn'["tower"] = Attention(TowerWidth, towerRope, TowerWidth, "none")
      BY <3>1, <3>2
    <3>8. /\ Fresh(attn'["text"], HeadWidth, rope, scale, m.norm)
          /\ m.tower # None => Fresh(attn'["tower"], TowerWidth, towerRope, TowerWidth, "none")
      BY <3>3, <3>4, AttentionShaped
    <3>9. \A p \in DOMAIN attn' : \/ Fresh(attn'[p], HeadWidth, rope, scale, m.norm)
                                \/ Fresh(attn'[p], TowerWidth, towerRope, TowerWidth, "none")
      BY <3>1, AttentionShaped
    <3>5. \A p \in DOMAIN attn' : Shaped(attn'[p])
      BY <3>9 DEF Fresh
    <3>6. attn'["text"].width = HeadWidth /\ attn'["text"].norm.kind = m.norm
      BY <3>8 DEF Fresh
    <3>7. m.tower # None => attn'["tower"].width = TowerWidth
      BY <3>8 DEF Fresh
    <3> QED
      BY <3>1, <3>5, <3>6, <3>7
  <2>4. /\ DOMAIN mlp' = IF m.mlp = None THEN {} ELSE MultipliersOf(m)
        /\ \A k \in DOMAIN mlp' : DOMAIN mlp'[k] = {"width", "weights"} /\ mlp'[k].width = k * MlpWidth(m)
    <3>1. CASE m.mlp = None
      BY <2>1, <3>1
    <3>2. CASE m.mlp # None
      <4>1. InterWidth = MlpWidth(m) /\ Multipliers = MultipliersOf(m)
        BY <1>2, <3>2, ConfigIs, MultipliersAre DEF InterWidth, MlpWidth
      <4>2. mlp' = [k \in MultipliersOf(m) |-> [width |-> k * MlpWidth(m), weights |-> <<>>]]
        BY <2>1, <3>2, <4>1
      <4> QED
        BY <3>2, <4>2
    <3> QED
      BY <3>1, <3>2
  <2>5. TargetParts' = TargetParts /\ TargetParts \subseteq {"text", "tower"}
    BY <1>1 DEF TargetParts
  <2>6. "draft" \notin DOMAIN attn'
    BY <2>3, <2>5
  <2>7. /\ TargetParts' \subseteq DOMAIN attn' /\ DOMAIN attn' \subseteq TargetParts' \cup {"draft"}
    BY <2>3, <2>5
  <2> QED
    BY <1>1, <2>2, <2>3, <2>4, <2>6, <2>7 DEF PartsInv
<1> QED
  BY <1>1, <1>3, <1>4

LEMMA NotTooShort ==
    ASSUME ConfigInv, PartsInv, stage = "built"
    PROVE  /\ TooShort("text", m.width, m.heads) <=>
                 TextLeft \/ (PadsHead(m) /\ ~m.streams /\ m.reads # "private")
           /\ m.tower # None => (TooShort("tower", m.tower.width, m.heads) <=> TowerLeft \/ Caught(m))
<1>1. /\ m \in Models /\ config = Configured(m) /\ m.heads \in Nat \ {0} /\ m.width \in Nat \ {0}
      /\ IF TextLeft THEN attn["text"].width \in Nat /\ attn["text"].width > m.width
         ELSE attn["text"].width = TextWidth(m)
      /\ m.tower # None =>
            /\ m.tower.width \in Nat \ {0}
            /\ IF TowerLeft THEN attn["tower"].width \in Nat /\ attn["tower"].width > m.tower.width
               ELSE attn["tower"].width = TowerWidthOf(m)
      /\ TextLeft => ~PadsHead(m)
  <2>1. m \in Models /\ config = Configured(m)
    BY DEF ConfigInv, Hooks, Builds
  <2>2. TextLeft => ~PadsHead(m)
    BY <2>1, ConfigIs DEF TextLeft, LeftFor
  <2> QED
    BY <2>1, <2>2, ModelsAssumption DEF PartsInv, Builds
<1>2. /\ HeadOf(m) \in Nat
      /\ PadsHead(m) => HeadOf(m) > m.width
      /\ ~PadsHead(m) => HeadOf(m) = m.width
  BY <1>1, HeadsOf
<1> DEFINE W == StreamWidth(m)  w == Streams("text", m.heads, m.heads, m.width).q
<1>3. W \in Nat
  BY <1>1, <1>2 DEF StreamWidth
<1>4. Rows(w) = m.heads * W
  <2>1. Placed(w, m.heads, m)
    BY <1>1, StreamLanes
  <2>2. RowsTo(w, m.heads * W)
    BY <2>1 DEF Placed, AtEnd, InHalves
  <2>3. m.heads * W \in Nat
    BY <1>1, <1>3
  <2> QED
    BY <2>2, <2>3, RowsToRows
<1>5. TooShort("text", m.width, m.heads) <=> m.heads * W < m.heads * attn["text"].width
  BY <1>1, <1>4 DEF TooShort
<1>6. ASSUME NEW a \in Nat, NEW b \in Nat PROVE m.heads * a < m.heads * b <=> a < b
  <2> DEFINE h == m.heads
  <2>1. h \in Nat \ {0}
    BY <1>1
  <2> HIDE DEF h
  <2>2. a < b => h * a < h * b
    <3>1. a < b => a * h + h <= b * h
      BY <2>1, NextMultiple
    <3> QED
      BY <2>1, <3>1
  <2>3. b < a => h * b < h * a
    <3>1. b < a => b * h + h <= a * h
      BY <2>1, NextMultiple
    <3> QED
      BY <2>1, <3>1
  <2>4. a = b => h * a = h * b
    OBVIOUS
  <2>5. h * a \in Nat /\ h * b \in Nat
    BY <2>1
  <2>6. h * a < h * b <=> a < b
    BY <2>2, <2>3, <2>4, <2>5
  <2> QED
    BY <2>6 DEF h
<1>7. attn["text"].width \in Nat
  BY <1>1, <1>2 DEF TextWidth
<1>8. TooShort("text", m.width, m.heads) <=> W < attn["text"].width
  BY <1>3, <1>5, <1>6, <1>7
<1>9. W < attn["text"].width <=> TextLeft \/ (PadsHead(m) /\ ~m.streams /\ m.reads # "private")
  <2>1. CASE TextLeft
    BY <1>1, <1>7, <2>1 DEF StreamWidth
  <2>2. CASE ~TextLeft
    BY <1>1, <1>2, <2>2 DEF StreamWidth, TextWidth
  <2> QED
    BY <2>1, <2>2
<1>10. ASSUME m.tower # None PROVE TooShort("tower", m.tower.width, m.heads) <=> TowerLeft \/ Caught(m)
  <2> DEFINE d == m.tower.width  v == Streams("tower", m.heads, m.heads, d).q  t == attn["tower"].width
  <2>1. /\ d \in Nat \ {0} /\ TowerWidthOf(m) \in Nat /\ t \in Nat
        /\ IF TowerLeft THEN t > d ELSE t = TowerWidthOf(m)
    BY <1>1, <1>2, <1>10 DEF TowerWidthOf
  <2>2. v = Native(m.heads, d)
    BY TowerStream
  <2>3. Rows(v) = m.heads * d
    <3>1. m.heads * d \in Nat
      BY <1>1, <2>1
    <3> HIDE DEF v, d, t
    <3>2. RowsTo(v, m.heads * d)
      BY <1>1, <2>1, <2>2, NativeIsLaned DEF Laned
    <3> QED
      BY <3>1, <3>2, RowsToRows
  <2>4. TooShort("tower", d, m.heads) <=> m.heads * d < m.heads * t
    BY <2>1, <2>3 DEF TooShort
  <2>5. m.heads * d < m.heads * t <=> d < t
    BY <1>6, <2>1
  <2>6. d < TowerWidthOf(m) <=> Caught(m)
    BY <1>2, <2>1 DEF TowerWidthOf, Caught
  <2>7. Caught(m) => ~TowerLeft
    BY <1>10, ConfigIs DEF Caught, TowerLeft, LeftFor, ConfigInv, Hooks, Builds
  <2>8. d < t <=> TowerLeft \/ Caught(m)
    BY <2>1, <2>6, <2>7
  <2> QED
    BY <2>4, <2>5, <2>8
<1> QED
  BY <1>8, <1>9, <1>10

LEMMA MlpNotTooShort ==
    ASSUME ConfigInv, HooksInv, PartsInv, stage = "built", NEW k \in DOMAIN mlp
    PROVE  MlpTooShort(k) => PadsInter(m) /\ ~m.mlp.gated /\ m.mlp.reads
<1>1. m \in Models /\ config = Configured(m) /\ stage \in Hooks
  BY DEF ConfigInv, Hooks, Builds
<1>2. m.mlp # None /\ k \in MultipliersOf(m) /\ mlp[k].width = k * MlpWidth(m)
  BY DEF PartsInv, Builds
<1>3. k \in Multipliers
  BY <1>2, MultipliersAre
<1>4. k \in {1, 2} /\ (MlpTooShort(k) => k * InterStream(m) < k * MlpWidth(m))
  <2> DEFINE w == PadEnd(Lanes(k * m.mlp.inter), k * InterStream(m))
  <2>1. /\ GateStream(k).gate = w /\ GateStream(k).up = w /\ DownStream(k) = w
        /\ Rows(w) = k * InterStream(m) /\ k \in {1, 2}
    BY <1>1, <1>2, <1>3, MlpStreams
  <2> HIDE DEF w
  <2> QED
    BY <1>2, <2>1 DEF MlpTooShort
<1>5. /\ m.mlp.inter \in Nat /\ InterOf(m) \in Nat /\ MlpWidth(m) \in Nat /\ m.mlp.inter <= InterOf(m)
      /\ ~PadsInter(m) => InterOf(m) = m.mlp.inter
  BY <1>1, <1>2, IntersOf
<1>6. PadsInter(m) => m.streams
  BY <1>1 DEF HooksInv
<1>7. InterStream(m) \in Nat
  BY <1>5 DEF InterStream
<1>8. MlpTooShort(k) => InterStream(m) < MlpWidth(m)
  BY <1>4, <1>5, <1>7
<1>9. InterStream(m) < MlpWidth(m) => PadsInter(m) /\ ~m.mlp.gated /\ m.mlp.reads
  BY <1>5, <1>6 DEF InterStream, MlpWidth
<1> QED
  BY <1>8, <1>9

LEMMA WeightsLoaded ==
    ASSUME LoadInv, load_weights
    PROVE  PartsInv' /\ LoadedInv' /\ RefusedForCause' /\ (stage' = "loaded" \/ stage' = "refused")
<1>1. /\ stage = "built" /\ m' = m /\ m \in Models
      /\ stage' = "loaded" \/ stage' = "refused"
  BY DEF load_weights, LoadInv, ConfigInv, Hooks, Builds
<1> DEFINE Short == \/ TooShort("text", m.width, m.heads)
                    \/ m.tower # None /\ TooShort("tower", m.tower.width, m.heads)
                    \/ \E k \in DOMAIN mlp : MlpTooShort(k)
<1>2. Short <=> stage' = "refused"
  BY DEF load_weights
<1>3. /\ TooShort("text", m.width, m.heads) <=>
            TextLeft \/ (PadsHead(m) /\ ~m.streams /\ m.reads # "private")
      /\ m.tower # None => (TooShort("tower", m.tower.width, m.heads) <=> TowerLeft \/ Caught(m))
      /\ \A k \in DOMAIN mlp : MlpTooShort(k) => PadsInter(m) /\ ~m.mlp.gated /\ m.mlp.reads
  BY <1>1, NotTooShort, MlpNotTooShort DEF LoadInv
<1>7. TextLeft' = TextLeft /\ TowerLeft' = TowerLeft
  <2>1. UNCHANGED <<m, shims, config>>
    BY DEF load_weights
  <2> QED
    BY <2>1, LeftStays
<1>4. RefusedForCause'
  BY <1>1, <1>2, <1>3, <1>7 DEF RefusedForCause, Caught
<1>5. CASE Short
  <2>1. stage' = "refused"
    BY <1>2, <1>5
  <2> QED
    BY <1>1, <1>4, <2>1 DEF PartsInv, LoadedInv, Builds
<1>6. CASE ~Short
  <2>1. stage' = "loaded"
    BY <1>1, <1>2, <1>6
  <2> DEFINE weights == [p \in DOMAIN attn |->
                            Taken(p, attn[p].width, m.heads, IF p = "text" THEN m.kv ELSE m.heads)]
             folded == [p \in DOMAIN attn |-> HeadPadded /\ m.streams /\ p = "text" /\ m.norm # "none"]
             taken == [k \in DOMAIN mlp |-> MlpTaken(k)]
  <2>2. attn' = [p \in DOMAIN attn |-> [attn[p] EXCEPT !.weights = weights[p], !.norm.folded = folded[p]]]
    BY <1>6 DEF load_weights
  <2>3. mlp' = [k \in DOMAIN mlp |-> [mlp[k] EXCEPT !.weights = taken[k]]]
    BY <1>6 DEF load_weights
  <2> HIDE DEF weights, folded, taken
  <2>4. PartsInv /\ stage \in Builds
    BY <1>1 DEF LoadInv, Builds
  <2>5. /\ DOMAIN attn' = DOMAIN attn
        /\ \A p \in DOMAIN attn : /\ Shaped(attn'[p]) /\ attn'[p].width = attn[p].width
                                  /\ attn'[p].norm.kind = attn[p].norm.kind
    <3>1. \A p \in DOMAIN attn : Shaped(attn[p])
      BY <2>4 DEF PartsInv
    <3> QED
      BY <2>2, <3>1 DEF Shaped
  <2>6. /\ DOMAIN mlp' = DOMAIN mlp
        /\ \A k \in DOMAIN mlp : DOMAIN mlp'[k] = {"width", "weights"} /\ mlp'[k].width = mlp[k].width
    <3>1. \A k \in DOMAIN mlp : DOMAIN mlp[k] = {"width", "weights"}
      BY <2>4 DEF PartsInv
    <3> QED
      BY <2>3, <3>1
  <2>7. TargetParts' = TargetParts /\ "text" \in TargetParts /\ (m.tower # None => "tower" \in TargetParts)
    BY <1>1 DEF TargetParts
  <2>8. PartsInv'
    BY <1>1, <1>7, <2>1, <2>4, <2>5, <2>6, <2>7 DEF PartsInv, Builds
  <2>9. LoadedInv'
    <3>1. TowerLeft => m.tower # None
      BY DEF TowerLeft
    <3> QED
      BY <1>1, <1>3, <1>6, <1>7, <2>1, <3>1 DEF LoadedInv, TowerWidthOf
  <2> QED
    BY <1>1, <1>4, <2>8, <2>9
<1> QED
  BY <1>5, <1>6

LEMMA DrafterLoaded ==
    ASSUME LoadInv, load_drafter PROVE PartsInv' /\ LoadedInv' /\ stage' = "loaded"
<1>1. stage = "loaded" /\ stage' = "loaded" /\ m' = m /\ mlp' = mlp /\ m.draft # None /\ m \in Models
  BY DEF load_drafter, LoadInv, ConfigInv, Hooks, Builds
<1>2. PICK rope : attn' = Put(attn, "draft", Attention(m.draft.width, rope, m.draft.width, "rms"))
  BY DEF load_drafter
<1>3. /\ DOMAIN attn' = DOMAIN attn \cup {"draft"}
      /\ \A p \in DOMAIN attn' : p # "draft" => p \in DOMAIN attn /\ attn'[p] = attn[p]
      /\ Fresh(attn'["draft"], m.draft.width, rope, m.draft.width, "rms")
  <2> DEFINE a == Attention(m.draft.width, rope, m.draft.width, "rms")
  <2>1. Fresh(a, m.draft.width, rope, m.draft.width, "rms")
    BY AttentionShaped
  <2> HIDE DEF a
  <2>2. attn' = [k \in DOMAIN attn \cup {"draft"} |-> IF k = "draft" THEN a ELSE attn[k]]
    BY <1>2 DEF Put, a
  <2> QED
    BY <2>1, <2>2
<1>4. PartsInv /\ stage \in Builds
  BY <1>1 DEF LoadInv, Builds
<1>5. TargetParts' = TargetParts /\ "text" \in TargetParts /\ (m.tower # None => "tower" \in TargetParts)
  BY <1>1 DEF TargetParts
<1>6. \A p \in DOMAIN attn' : Shaped(attn'[p])
  BY <1>3, <1>4 DEF PartsInv, Fresh
<1>9. TextLeft' = TextLeft /\ TowerLeft' = TowerLeft
  <2>1. UNCHANGED <<m, shims, config>>
    BY DEF load_drafter
  <2> QED
    BY <2>1, LeftStays
<1>7. PartsInv'
  BY <1>1, <1>3, <1>4, <1>5, <1>6, <1>9 DEF PartsInv, Builds
<1>8. LoadedInv'
  BY <1>1, <1>9 DEF LoadedInv, LoadInv
<1> QED
  BY <1>1, <1>7, <1>8

\* What the passes find of a part's width, and what they refuse a model for.
LEMMA PassesRefuse ==
    ASSUME LoadInv, stage = "loaded"
    PROVE  /\ HeadPadded <=> PadsHead(m)
           /\ InterPadded <=> PadsInter(m)
           /\ PadsHead(m) /\ verify_padded_head_dim => m.reads # "private"
           /\ PadsHead(m) /\ ~verify_padded_head_dim => m.reads = "private" \/ (m.tower # None /\ ~m.isolatable)
           /\ PadsHead(m) /\ verify_padded_head_dim /\ verify_padded_qk_norm_weights => m.norm # "gemma"
           /\ ~verify_padded_qk_norm_weights => m.norm = "gemma" \/ (m.tower # None /\ ~m.isolatable)
           /\ PadsInter(m) /\ verify_padded_intermediate_size => m.mlp.gated /\ m.mlp.reads
           /\ PadsInter(m) /\ ~verify_padded_intermediate_size =>
                 ~m.mlp.gated \/ ~m.mlp.reads \/ (m.tower # None /\ ~m.isolatable)
<1>1. /\ m \in Models /\ config = Configured(m)
      /\ "text" \in DOMAIN attn
      /\ attn["text"].width = TextWidth(m) /\ attn["text"].norm.kind = m.norm
      /\ DOMAIN mlp = IF m.mlp = None THEN {} ELSE MultipliersOf(m)
      /\ \A k \in DOMAIN mlp : mlp[k].width = k * MlpWidth(m)
  <2>1. ~TextLeft
    BY DEF LoadInv, LoadedInv
  <2> QED
    BY <2>1 DEF LoadInv, ConfigInv, PartsInv, Hooks, Builds, TargetParts
<1>2. /\ HeadPadded <=> PadsHead(m)
      /\ InterPadded <=> PadsInter(m)
      /\ config.head = HeadOf(m)
      /\ PadsInter(m) => config.inter = InterOf(m) /\ m.mlp # None
  BY <1>1, ConfigIs
<1>3. PadsHead(m) => HeadOf(m) # m.width
  BY <1>1, HeadsOf
<1>4. "text" \in Built
  BY <1>1 DEF Built
<1>5. ASSUME NEW parts, Ambiguous(parts) PROVE m.tower # None /\ ~m.isolatable
  BY <1>5 DEF Ambiguous
<1>6. "text" \in unpadded <=> TextWidth(m) # HeadOf(m)
  BY <1>1, <1>2, <1>4 DEF unpadded
<1>7. /\ PadsHead(m) /\ verify_padded_head_dim => m.reads # "private"
      /\ PadsHead(m) /\ ~verify_padded_head_dim => m.reads = "private" \/ (m.tower # None /\ ~m.isolatable)
  BY <1>3, <1>5, <1>6 DEF verify_padded_head_dim, text_modules, TextWidth
<1>8. "text" \in _padded_qk_norms <=> m.norm # "none" /\ TextWidth(m) = HeadOf(m)
  BY <1>1, <1>2, <1>4 DEF _padded_qk_norms
<1>9. /\ PadsHead(m) /\ verify_padded_head_dim /\ verify_padded_qk_norm_weights => m.norm # "gemma"
      /\ ~verify_padded_qk_norm_weights => m.norm = "gemma" \/ (m.tower # None /\ ~m.isolatable)
  BY <1>1, <1>5, <1>6, <1>8 DEF verify_padded_head_dim, verify_padded_qk_norm_weights, text_modules
<1>10. ASSUME PadsInter(m)
       PROVE  /\ m.mlp.reads => \A k \in DOMAIN mlp : mlp[k].width \in {j * config.inter : j \in Multipliers}
              /\ ~m.mlp.reads => ~(\A k \in DOMAIN mlp : mlp[k].width \in {j * config.inter : j \in Multipliers})
  <2>1. /\ m.mlp # None /\ config.inter = InterOf(m) /\ DOMAIN mlp = Multipliers
        /\ 1 \in Multipliers /\ Multipliers \subseteq {1, 2}
    BY <1>1, <1>2, <1>10, MultipliersAre DEF Multipliers
  <2>2. /\ InterOf(m) \in Nat /\ m.mlp.inter \in Nat \ {0}
        /\ InterOf(m) > m.mlp.inter
    BY <1>1, <1>10, <2>1, IntersOf
  <2>3. m.mlp.reads => \A k \in DOMAIN mlp : mlp[k].width \in {j * config.inter : j \in Multipliers}
    BY <1>1, <2>1 DEF MlpWidth
  <2>4. ~m.mlp.reads => mlp[1].width = 1 * m.mlp.inter
    BY <1>1, <2>1 DEF MlpWidth
  <2>5. ~m.mlp.reads => mlp[1].width \notin {j * config.inter : j \in Multipliers}
    BY <2>1, <2>2, <2>4
  <2> QED
    BY <2>1, <2>3, <2>5
<1>11. /\ PadsInter(m) /\ verify_padded_intermediate_size => m.mlp.gated /\ m.mlp.reads
       /\ PadsInter(m) /\ ~verify_padded_intermediate_size =>
             ~m.mlp.gated \/ ~m.mlp.reads \/ (m.tower # None /\ ~m.isolatable)
  BY <1>5, <1>10 DEF verify_padded_intermediate_size
<1> QED
  BY <1>2, <1>7, <1>9, <1>11

LEMMA PassesDone ==
    ASSUME LoadInv, fix_padded_model
    PROVE  PartsInv' /\ LoadedInv' /\ RefusedForCause' /\ (stage' = "fitted" \/ stage' = "refused")
<1>1. /\ stage = "loaded" /\ m' = m /\ m \in Models /\ mlp' = mlp
      /\ stage' = "fitted" \/ stage' = "refused"
  BY DEF fix_padded_model, LoadInv, ConfigInv, Hooks, Builds
<1> DEFINE Refuses == \/ HeadPadded /\ ~(verify_padded_head_dim /\ verify_padded_qk_norm_weights)
                      \/ InterPadded /\ ~verify_padded_intermediate_size
                      \/ HeadPadded /\ (Ambiguous(is_spyre_rope) \/ Ambiguous(has_padded_scale))
<1>2. Refuses <=> stage' = "refused"
  BY DEF fix_padded_model
<1>3. ASSUME NEW parts, Ambiguous(parts) PROVE m.tower # None /\ ~m.isolatable
  BY <1>3 DEF Ambiguous
<1>6. TextLeft' = TextLeft /\ TowerLeft' = TowerLeft
  <2>1. UNCHANGED <<m, shims, config>>
    BY DEF fix_padded_model
  <2> QED
    BY <2>1, LeftStays
<1>4. CASE Refuses
  <2>1. stage' = "refused"
    BY <1>2, <1>4
  <2>2. \/ PadsHead(m) /\ (m.reads = "private" \/ m.norm = "gemma")
        \/ (PadsHead(m) \/ PadsInter(m)) /\ m.tower # None /\ ~m.isolatable
        \/ PadsInter(m) /\ (~m.mlp.gated \/ ~m.mlp.reads)
    BY <1>1, <1>3, <1>4, PassesRefuse
  <2>3. RefusedForCause'
    BY <1>1, <2>2 DEF RefusedForCause
  <2> QED
    BY <2>1, <2>3 DEF PartsInv, LoadedInv, Builds
<1>5. CASE ~Refuses
  <2>1. stage' = "fitted"
    BY <1>1, <1>2, <1>5
  <2>2. /\ PadsHead(m) => m.reads # "private" /\ m.norm # "gemma"
        /\ PadsInter(m) => m.mlp.gated /\ m.mlp.reads
    BY <1>1, <1>5, PassesRefuse
  <2>3. PadsInter(m) => m.streams
    BY <1>1 DEF LoadInv, HooksInv, Hooks, Builds
  <2>4. LoadedInv'
    BY <1>1, <1>6, <2>1, <2>2, <2>3 DEF LoadedInv, LoadInv
  <2>5. PartsInv /\ stage \in Builds
    BY <1>1 DEF LoadInv, Builds
  <2>6. /\ DOMAIN attn' = DOMAIN attn
        /\ \A p \in DOMAIN attn : /\ Shaped(attn'[p]) /\ attn'[p].width = attn[p].width
                                  /\ attn'[p].norm.kind = attn[p].norm.kind
    <3>1. \A p \in DOMAIN attn : Shaped(attn[p])
      BY <2>5 DEF PartsInv
    <3>2. CASE ~HeadPadded
      <4>1. attn' = attn
        BY <1>5, <3>2 DEF fix_padded_model
      <4> QED
        BY <3>1, <4>1
    <3>3. CASE HeadPadded
      <4>1. attn' = [p \in DOMAIN attn |-> fix_padded_qk_norm_eps(p, fix_padded_attention_scale(p))]
        BY <1>5, <3>3 DEF fix_padded_model
      <4>2. ASSUME NEW p \in DOMAIN attn
            PROVE  LET a == fix_padded_attention_scale(p) IN
                   Shaped(a) /\ a.width = attn[p].width /\ a.norm = attn[p].norm
        BY <3>1 DEF Shaped, fix_padded_attention_scale
      <4>3. ASSUME NEW p \in DOMAIN attn, NEW a, Shaped(a)
            PROVE  LET b == fix_padded_qk_norm_eps(p, a) IN
                   Shaped(b) /\ b.width = a.width /\ b.norm.kind = a.norm.kind
        BY <4>3 DEF Shaped, fix_padded_qk_norm_eps
      <4> QED
        BY <4>1, <4>2, <4>3
    <3> QED
      BY <3>2, <3>3
  <2>7. TargetParts' = TargetParts /\ "text" \in TargetParts /\ (m.tower # None => "tower" \in TargetParts)
    BY <1>1 DEF TargetParts
  <2>8. PartsInv'
    BY <1>1, <1>6, <2>1, <2>5, <2>6, <2>7 DEF PartsInv, Builds
  <2>9. RefusedForCause'
    BY <2>1 DEF RefusedForCause
  <2> QED
    BY <2>1, <2>4, <2>8, <2>9
<1> QED
  BY <1>4, <1>5

LEMMA LoadStarts == Init => LoadInv
<1> SUFFICES ASSUME Init PROVE LoadInv
  OBVIOUS
<1>1. stage = "idle" /\ shims = <<>> /\ patched = FALSE
  BY DEF Init
<1>2. ~ \E f \in DOMAIN shims : TRUE
  BY <1>1
<1>3. HooksInv
  BY <1>1, <1>2 DEF HooksInv, Hooks, Builds
<1> QED
  BY <1>1, <1>3 DEF LoadInv, ConfigInv, PartsInv, LoadedInv, RefusedForCause, Hooks, Builds

LEMMA LoadKeeps == LoadInv /\ [Next]_vars => LoadInv'
<1> SUFFICES ASSUME LoadInv, [Next]_vars PROVE LoadInv'
  OBVIOUS
<1>1. CASE Configure
  <2>1. PICK x \in Models : /\ m' = x
                            /\ stage' = IF PadsHead(x) /\ x.partial THEN "refused" ELSE "configured"
                            /\ stage' = "configured" => config' = Configured(x)
    BY <1>1 DEF Configure
  <2>2. shims' = shims /\ patched' = patched /\ stage' \in {"refused", "configured"}
    BY <1>1, <2>1 DEF Configure
  <2>3. ConfigInv' /\ RefusedForCause' /\ PartsInv' /\ LoadedInv'
    BY <2>1, <2>2 DEF ConfigInv, RefusedForCause, PartsInv, LoadedInv, Hooks, Builds
  <2>4. HooksInv'
    BY <2>2 DEF LoadInv, HooksInv, Hooks, Builds
  <2> QED
    BY <2>3, <2>4 DEF LoadInv
<1>2. CASE install_pad_loaders
  <2>1. HooksInv'
    BY <1>2, HooksKept DEF LoadInv
  <2>2. m \in Models /\ config = Configured(m) /\ m' = m /\ config' = config
    BY <1>2 DEF install_pad_loaders, LoadInv, ConfigInv
  <2>3. stage' = IF PadsInter(m) /\ ~m.streams THEN "refused" ELSE "hooked"
    BY <1>2, <2>2, ConfigIs DEF install_pad_loaders
  <2>4. ConfigInv' /\ RefusedForCause' /\ PartsInv' /\ LoadedInv'
    BY <2>2, <2>3 DEF ConfigInv, RefusedForCause, PartsInv, LoadedInv, Hooks, Builds
  <2> QED
    BY <2>1, <2>4 DEF LoadInv
<1>3. CASE initialize_model
  <2>1. PartsInv' /\ (stage' = "built" \/ stage' = "refused")
    BY <1>3, PartsAsBuilt DEF LoadInv
  <2>2. stage = "hooked" /\ m' = m /\ config' = config /\ shims' = shims /\ patched' = patched
    BY <1>3 DEF initialize_model
  <2>3. stage' = "refused" => m.rope # "none" /\ m.partial
    BY <1>3 DEF initialize_model, Ropeless
  <2>4. HooksInv'
    BY <2>1, <2>2, HooksStay DEF LoadInv, Hooks, Builds
  <2>5. ConfigInv' /\ RefusedForCause' /\ LoadedInv'
    BY <2>1, <2>2, <2>3 DEF LoadInv, ConfigInv, RefusedForCause, LoadedInv, Hooks, Builds
  <2> QED
    BY <2>1, <2>4, <2>5 DEF LoadInv
<1>4. CASE load_weights
  <2>1. PartsInv' /\ LoadedInv' /\ RefusedForCause' /\ (stage' = "loaded" \/ stage' = "refused")
    BY <1>4, WeightsLoaded
  <2>2. stage = "built" /\ m' = m /\ config' = config /\ shims' = shims /\ patched' = patched
    BY <1>4 DEF load_weights
  <2>3. HooksInv' /\ ConfigInv'
    BY <2>1, <2>2, HooksStay DEF LoadInv, ConfigInv, Hooks, Builds
  <2> QED
    BY <2>1, <2>3 DEF LoadInv
<1>5. CASE load_drafter
  <2>1. PartsInv' /\ LoadedInv' /\ stage' = "loaded"
    BY <1>5, DrafterLoaded
  <2>2. stage = "loaded" /\ m' = m /\ config' = config /\ shims' = shims /\ patched' = patched
    BY <1>5 DEF load_drafter
  <2>3. HooksInv' /\ ConfigInv' /\ RefusedForCause'
    BY <2>1, <2>2, HooksStay DEF LoadInv, ConfigInv, RefusedForCause, Hooks, Builds
  <2> QED
    BY <2>1, <2>3 DEF LoadInv
<1>6. CASE fix_padded_model
  <2>1. PartsInv' /\ LoadedInv' /\ RefusedForCause' /\ (stage' = "fitted" \/ stage' = "refused")
    BY <1>6, PassesDone
  <2>2. stage = "loaded" /\ m' = m /\ config' = config /\ shims' = shims /\ patched' = patched
    BY <1>6 DEF fix_padded_model
  <2>3. HooksInv' /\ ConfigInv'
    BY <2>1, <2>2, HooksStay DEF LoadInv, ConfigInv, Hooks, Builds
  <2> QED
    BY <2>1, <2>3 DEF LoadInv
<1>7. CASE configure_pooling
  <2>1. stage = "fitted" /\ stage' = "serving" /\ UNCHANGED <<m, config, shims, patched, attn, mlp>>
    BY <1>7 DEF configure_pooling
  <2>2. HooksInv' /\ ConfigInv' /\ RefusedForCause'
    BY <2>1, HooksStay DEF LoadInv, ConfigInv, RefusedForCause, Hooks, Builds
  <2>3. TargetParts' = TargetParts /\ TextLeft' = TextLeft /\ TowerLeft' = TowerLeft
    BY <2>1, LeftStays DEF TargetParts
  <2>4. PartsInv' /\ LoadedInv'
    BY <2>1, <2>3 DEF LoadInv, PartsInv, LoadedInv, Builds
  <2> QED
    BY <2>2, <2>4 DEF LoadInv
<1>8. CASE Done \/ UNCHANGED vars
  <2>1. UNCHANGED <<stage, m, config, shims, patched, attn, mlp>>
    BY <1>8 DEF Done, vars
  <2>3. TargetParts' = TargetParts /\ TextLeft' = TextLeft /\ TowerLeft' = TowerLeft
    BY <2>1, LeftStays DEF TargetParts
  <2>2. HooksInv' /\ ConfigInv' /\ RefusedForCause'
    BY <2>1, <2>3, HooksStay DEF LoadInv, ConfigInv, RefusedForCause
  <2>4. PartsInv' /\ LoadedInv'
    BY <2>1, <2>3 DEF LoadInv, PartsInv, LoadedInv
  <2> QED
    BY <2>2, <2>4 DEF LoadInv
<1> QED
  BY <1>1, <1>2, <1>3, <1>4, <1>5, <1>6, <1>7, <1>8 DEF Next, LoadModel

LEMMA LoadHolds == Spec => []LoadInv
  BY LoadStarts, LoadKeeps, PTL DEF Spec

\* A model is refused for what it is.  Of what the process loaded before, BERT's construction
\* patch and the rotary embeddings change no later model's fate, and the property left on a
\* file's attention classes only that of a model which pads no heads and has, in its text part
\* or a tower of the same file, heads of the width an earlier one padded.
THEOREM LoadRefusesForCause == Spec => []RefusedForCause
<1>1. LoadInv => RefusedForCause
  BY DEF LoadInv
<1> QED
  BY LoadHolds, <1>1, PTL

(***************************************************************************)
(* What a loaded model's attention and its rotary embeddings are.          *)
(***************************************************************************)
AllRanks(w, tp) == LET n == Rows(w[0]) IN [i \in 0..(tp * n - 1) |-> w[i \div n][i % n]]
OfRanks(weights, p, tp) == AllRanks([r \in Ranks(tp) |-> weights[r][p]], tp)

HeadsLoaded(weights, x) ==
    /\ Placed(OfRanks(weights, "q", x.tp), x.heads, x)
    /\ Placed(OfRanks(weights, "k", x.tp), x.kv, x)
    /\ AtEnd(OfRanks(weights, "v", x.tp), x.kv, x.width, StreamWidth(x))
    /\ AtEnd(OfRanks(weights, "o", x.tp), x.heads, x.width, StreamWidth(x))

TowerLoaded(weights, x) ==
    \A p \in {"q", "k", "v", "o"} : OfRanks(weights, p, x.tp) = Native(x.heads, x.tower.width)

Takes == {"loaded", "fitted", "serving"}
Passed == {"fitted", "serving"}

WeightsInv ==
    stage \in Takes =>
        /\ StreamWidth(m) = TextWidth(m) => HeadsLoaded(attn["text"].weights, m)
        /\ m.tower # None => TowerLoaded(attn["tower"].weights, m)

\* The scale the text part's class takes from the width it has.
ScaleAsBuilt(x) == IF x.scale # None THEN x.scale ELSE IF x.reads = "bert" THEN x.width ELSE TextWidth(x)

\* The scale it is left with: its own, unless that is the widened head's.
ScaleOf(x) == IF x.scale = None \/ (PadsHead(x) /\ x.scale = HeadOf(x)) THEN x.width ELSE x.scale

ScaleInv ==
    /\ stage \in {"built", "loaded"} /\ ~TextLeft =>
          attn["text"].impl = ScaleAsBuilt(m) /\ attn["text"].module = ScaleAsBuilt(m)
    /\ stage \in Passed => attn["text"].impl = ScaleOf(m) /\ attn["text"].module = ScaleOf(m)
    /\ stage \in Builds /\ m.tower # None /\ ~TowerLeft =>
          attn["tower"].impl = TowerWidthOf(m) /\ attn["tower"].module = TowerWidthOf(m)

Folds(x) == PadsHead(x) /\ x.streams /\ x.norm # "none"

NormInv ==
    /\ stage \in {"built", "loaded"} => attn["text"].norm.eps = <<1, 1>>
    /\ stage \in Takes => attn["text"].norm.folded = Folds(m)
    /\ stage \in Passed /\ m.norm # "none" =>
          attn["text"].norm.eps = IF PadsHead(m) THEN <<m.width, HeadOf(m)>> ELSE <<1, 1>>

\* Every entry of the dictionary is of the width it is looked up by, and in an instance of its own.
Entries(d) ==
    /\ DOMAIN d = {"dict", "of"} /\ d.of \in Seq(Nat)
    /\ \A key \in DOMAIN d.dict : d.dict[key] \in 1..Len(d.of) /\ d.of[d.dict[key]] = key[1]
    /\ \A key, other \in DOMAIN d.dict : d.dict[key] = d.dict[other] => key = other

Handed(d, rope, width, params) == <<width, params>> \in DOMAIN d.dict /\ rope = d.dict[<<width, params>>]
Rotates(x) == x.rope # "none" /\ ~x.hf

\* A part's frequencies are of its own width, or its instance is the widened text part's.
Keeps(width, part, x) ==
    width = part.width \/ (PadsHead(x) /\ ~x.hf /\ <<part.width, part.rope>> = <<HeadOf(x), x.rope>>)

RopesInv ==
    /\ Entries(ropes)
    /\ stage \in Builds => (~Rotates(m) => attn["text"].rope = None)
    /\ stage \in {"built", "loaded"} =>
          /\ Rotates(m) /\ ~TextLeft => Handed(ropes, attn["text"].rope, TextWidth(m), m.rope)
          /\ m.tower # None /\ ~TowerLeft => Handed(ropes, attn["tower"].rope, TowerWidthOf(m), m.tower.rope)
          /\ "draft" \in DOMAIN attn => Handed(ropes, attn["draft"].rope, m.draft.width, m.draft.rope)
    /\ stage \in Passed =>
          /\ Rotates(m) => ropes.of[attn["text"].rope] = m.width
          /\ m.tower # None => Keeps(ropes.of[attn["tower"].rope], m.tower, m)
          /\ "draft" \in DOMAIN attn => Keeps(ropes.of[attn["draft"].rope], m.draft, m)
          /\ m.draft # None => "draft" \in DOMAIN attn

AttnInv == WeightsInv /\ ScaleInv /\ NormInv /\ RopesInv

\* The ranks' shares of a tensor, one after another, are the tensor.
LEMMA SharesJoin ==
    ASSUME NEW tp \in Nat \ {0}, NEW n \in Nat \ {0}, NEW width \in Nat \ {0}, n % tp = 0,
           NEW t, RowsTo(t, n * width), NEW weights, NEW p,
           \A r \in Ranks(tp) : weights[r][p] = Narrow(t, r * ((n \div tp) * width), (n \div tp) * width)
    PROVE  OfRanks(weights, p, tp) = t
<1> DEFINE c == n \div tp  rows == c * width  w == [r \in Ranks(tp) |-> weights[r][p]]
<1>1. c \in Nat \ {0} /\ n = c * tp
  <2>1. c \in Nat /\ n % tp \in 0..(tp - 1) /\ n = c * tp + (n % tp)
    BY Parts
  <2>2. c * tp \in Nat /\ (c = 0 => c * tp = 0)
    BY <2>1
  <2> HIDE DEF c
  <2> QED
    BY <2>1, <2>2
<1>2. rows \in Nat \ {0} /\ tp * rows = n * width
  <2>1. (c * tp) * width = tp * (c * width) /\ c * width \in Nat \ {0}
    BY <1>1
  <2> HIDE DEF c
  <2> QED
    BY <1>1, <2>1
<1>3. /\ DOMAIN w = 0..(tp - 1) /\ \A r \in 0..(tp - 1) : w[r] = Narrow(t, r * rows, rows)
  BY DEF Ranks
<1> HIDE DEF c, rows, w
<1>4. \A r \in 0..(tp - 1) : RowsTo(w[r], rows) /\ \A i \in 0..(rows - 1) : w[r][i] = t[r * rows + i]
  <2> SUFFICES ASSUME NEW r \in 0..(tp - 1)
               PROVE  RowsTo(w[r], rows) /\ \A i \in 0..(rows - 1) : w[r][i] = t[r * rows + i]
    OBVIOUS
  <2>1. w[r] = [i \in 0..(rows - 1) |-> t[r * rows + i]]
    BY <1>3 DEF Narrow
  <2> QED
    BY <2>1 DEF RowsTo
<1>5. Rows(w[0]) = rows
  <2>1. 0 \in 0..(tp - 1)
    OBVIOUS
  <2> QED
    BY <1>2, <1>4, <2>1, RowsToRows
<1>6. ASSUME NEW i \in 0..(tp * rows - 1) PROVE w[i \div rows][i % rows] = t[i]
  <2>1. i \in Nat /\ i < tp * rows
    BY <1>2
  <2>2. i \div rows \in 0..(tp - 1)
    BY <1>2, <2>1, QuotientBelow
  <2>3. i % rows \in 0..(rows - 1) /\ i = (i \div rows) * rows + (i % rows)
    BY <1>2, <2>1, Parts
  <2> QED
    BY <1>4, <2>2, <2>3
<1>7. OfRanks(weights, p, tp) = [i \in 0..(tp * rows - 1) |-> w[i \div rows][i % rows]]
  BY <1>5 DEF OfRanks, AllRanks, w
<1>8. t = [i \in 0..(tp * rows - 1) |-> t[i]]
  BY <1>2 DEF RowsTo
<1> QED
  BY <1>6, <1>7, <1>8

Tensors(t, heads, kv, width) ==
    /\ DOMAIN t = {"q", "k", "v", "o"}
    /\ RowsTo(t.q, heads * width) /\ RowsTo(t.k, kv * width)
    /\ RowsTo(t.v, kv * width) /\ RowsTo(t.o, heads * width)

Together(w, t) == \A p \in {"q", "k", "v", "o"} : OfRanks(w, p, m.tp) = t[p]

LEMMA TakenJoin ==
    ASSUME m \in Models, NEW part, NEW width \in Nat \ {0}, NEW any,
           NEW heads \in Nat \ {0}, NEW kv \in Nat \ {0}, heads % m.tp = 0, kv % m.tp = 0,
           attn[part].width = width, NEW t,
           t = Streams(part, heads, kv, IF part = "text" THEN m.width ELSE any),
           Tensors(t, heads, kv, width)
    PROVE  Together(Taken(part, any, heads, kv), t)
<1> DEFINE n == [q |-> heads, k |-> kv, v |-> kv, o |-> heads]  w == Taken(part, any, heads, kv)
<1>1. m.tp \in Nat \ {0}
  BY ModelsAssumption
<1>2. w = [rank \in Ranks(m.tp) |->
              [p \in DOMAIN t |-> Narrow(t[p], rank * ((n[p] \div m.tp) * width), (n[p] \div m.tp) * width)]]
  BY DEF Taken
<1> HIDE DEF w
<1>3. ASSUME NEW p \in {"q", "k", "v", "o"} PROVE OfRanks(w, p, m.tp) = t[p]
  <2>1. n[p] \in Nat \ {0} /\ n[p] % m.tp = 0 /\ RowsTo(t[p], n[p] * width)
    BY DEF Tensors
  <2> HIDE DEF n
  <2>2. \A r \in Ranks(m.tp) : w[r][p] = Narrow(t[p], r * ((n[p] \div m.tp) * width), (n[p] \div m.tp) * width)
    BY <1>2 DEF Tensors
  <2> QED
    BY <1>1, <2>1, <2>2, SharesJoin
<1> QED
  BY <1>3 DEF w, Together

LEMMA TextTaken ==
    ASSUME m \in Models, config = Configured(m), attn["text"].width = StreamWidth(m)
    PROVE  HeadsLoaded(Taken("text", StreamWidth(m), m.heads, m.kv), m)
<1> DEFINE W == StreamWidth(m)  t == Streams("text", m.heads, m.kv, m.width)
           w == Taken("text", W, m.heads, m.kv)
<1>1. /\ m.heads \in Nat \ {0} /\ m.kv \in Nat \ {0} /\ m.heads % m.tp = 0 /\ m.kv % m.tp = 0
      /\ m.width \in Nat \ {0}
  BY ModelsAssumption
<1>2. W \in Nat \ {0}
  BY <1>1, HeadsOf DEF StreamWidth
<1>3. /\ DOMAIN t = {"q", "k", "v", "o"}
      /\ Placed(t.q, m.heads, m) /\ Placed(t.k, m.kv, m)
      /\ AtEnd(t.v, m.kv, m.width, W) /\ AtEnd(t.o, m.heads, m.width, W)
  BY <1>1, StreamLanes
<1>4. Tensors(t, m.heads, m.kv, W)
  BY <1>3 DEF Tensors, Placed, AtEnd, InHalves
<1>5. \A p \in {"q", "k", "v", "o"} : OfRanks(w, p, m.tp) = t[p]
  <2>1. t = Streams("text", m.heads, m.kv, IF "text" = "text" THEN m.width ELSE W)
    OBVIOUS
  <2> HIDE DEF W, t
  <2>2. attn["text"].width = W
    BY DEF W
  <2>3. Together(w, t)
    BY <1>1, <1>2, <1>4, <2>1, <2>2, TakenJoin
  <2> QED
    BY <2>3 DEF Together
<1> HIDE DEF t, w
<1> QED
  BY <1>3, <1>5 DEF HeadsLoaded, w

LEMMA TowerTaken ==
    ASSUME m \in Models, m.tower # None, attn["tower"].width = m.tower.width
    PROVE  TowerLoaded(Taken("tower", m.tower.width, m.heads, m.heads), m)
<1> DEFINE d == m.tower.width  t == Streams("tower", m.heads, m.heads, d)
           w == Taken("tower", d, m.heads, m.heads)  u == Native(m.heads, d)
<1>1. m.heads \in Nat \ {0} /\ m.heads % m.tp = 0 /\ d \in Nat \ {0}
  BY ModelsAssumption
<1>2. t = [q |-> u, k |-> u, v |-> u, o |-> u]
  BY TowerStream
<1>3. RowsTo(u, m.heads * d)
  BY <1>1, NativeIsLaned DEF Laned
<1>4. Tensors(t, m.heads, m.heads, d)
  <2> HIDE DEF u, t
  <2> QED
    BY <1>2, <1>3 DEF Tensors
<1>5. \A p \in {"q", "k", "v", "o"} : OfRanks(w, p, m.tp) = t[p]
  <2>1. t = Streams("tower", m.heads, m.heads, IF "tower" = "text" THEN m.width ELSE d)
    OBVIOUS
  <2> HIDE DEF t, d
  <2>2. attn["tower"].width = d
    BY DEF d
  <2>3. Together(w, t)
    BY <1>1, <1>4, <2>1, <2>2, TakenJoin
  <2> QED
    BY <2>3 DEF Together
<1> HIDE DEF t, w, u
<1>6. \A p \in {"q", "k", "v", "o"} : t[p] = u
  BY <1>2
<1> QED
  BY <1>5, <1>6 DEF TowerLoaded, w, u

\* A dictionary and what it is after somebody was handed an instance for a width.
Grows(d, e, width, params) ==
    /\ Entries(e) /\ <<width, params>> \in DOMAIN e.dict
    /\ \A rope, w, p : Handed(d, rope, w, p) => Handed(e, rope, w, p)
    /\ Len(d.of) <= Len(e.of) /\ \A i \in 1..Len(d.of) : e.of[i] = d.of[i]
    /\ \A key \in DOMAIN e.dict : key = <<width, params>> \/ (key \in DOMAIN d.dict /\ e.dict[key] = d.dict[key])

LEMMA RopeHanded ==
    ASSUME NEW d, Entries(d), NEW width \in Nat, NEW params
    PROVE  Grows(d, get_rope(d, width, params), width, params)
<1> DEFINE e == get_rope(d, width, params)  key0 == <<width, params>>  n == Len(d.of) + 1
<1>1. d.of \in Seq(Nat) /\ Len(d.of) \in Nat
  BY DEF Entries
<1>2. CASE key0 \in DOMAIN d.dict
  <2>1. e = d
    BY <1>2 DEF get_rope
  <2> HIDE DEF e
  <2> QED
    BY <1>1, <1>2, <2>1 DEF Grows, e
<1>3. CASE key0 \notin DOMAIN d.dict
  <2>1. e = [dict |-> [k \in DOMAIN d.dict \cup {key0} |-> IF k = key0 THEN n ELSE d.dict[k]],
             of |-> Append(d.of, width)]
    BY <1>3 DEF get_rope, Put
  <2>2. /\ DOMAIN e = {"dict", "of"} /\ e.of = Append(d.of, width)
        /\ DOMAIN e.dict = DOMAIN d.dict \cup {key0}
        /\ e.dict[key0] = n
        /\ \A key \in DOMAIN d.dict : e.dict[key] = d.dict[key]
    <3> HIDE DEF key0, n
    <3> QED
      BY <1>3, <2>1
  <2>3. /\ e.of \in Seq(Nat) /\ Len(e.of) = n /\ e.of[n] = width
        /\ \A i \in 1..Len(d.of) : e.of[i] = d.of[i]
    BY <1>1, <2>2
  <2>4. key0[1] = width
    OBVIOUS
  <2> HIDE DEF e, key0
  <2>5. Entries(e)
    <3>1. ASSUME NEW key \in DOMAIN e.dict
          PROVE  /\ e.dict[key] \in 1..Len(e.of) /\ e.of[e.dict[key]] = key[1]
                 /\ key # key0 => e.dict[key] \in 1..Len(d.of)
      <4>1. CASE key = key0
        BY <1>1, <2>2, <2>3, <2>4, <4>1
      <4>2. CASE key # key0
        <5>1. key \in DOMAIN d.dict /\ e.dict[key] = d.dict[key]
          BY <2>2, <4>2
        <5>2. d.dict[key] \in 1..Len(d.of) /\ d.of[d.dict[key]] = key[1]
          BY <5>1 DEF Entries
        <5>3. e.of[d.dict[key]] = key[1]
          BY <2>3, <5>2
        <5>4. d.dict[key] \in 1..Len(e.of)
          BY <1>1, <2>3, <5>2
        <5> QED
          BY <5>1, <5>2, <5>3, <5>4
      <4> QED
        BY <4>1, <4>2
    <3>2. ASSUME NEW key \in DOMAIN e.dict, NEW other \in DOMAIN e.dict, e.dict[key] = e.dict[other]
          PROVE  key = other
      <4>1. key = key0 <=> other = key0
        BY <1>1, <2>2, <3>1, <3>2
      <4>2. key # key0 /\ other # key0 => key = other
        BY <2>2, <3>2 DEF Entries
      <4> QED
        BY <4>1, <4>2
    <3> QED
      BY <2>2, <2>3, <3>1, <3>2 DEF Entries
  <2>6. \A rope, w, p : Handed(d, rope, w, p) => Handed(e, rope, w, p)
    BY <2>2 DEF Handed
  <2>7. Len(d.of) <= Len(e.of)
    BY <1>1, <2>3
  <2> QED
    BY <2>2, <2>3, <2>5, <2>6, <2>7 DEF Grows, e, key0
<1> QED
  BY <1>2, <1>3

LEMMA HandedOf ==
    ASSUME NEW d, Entries(d), NEW rope, NEW width, NEW params, Handed(d, rope, width, params)
    PROVE  rope \in 1..Len(d.of) /\ d.of[rope] = width /\ rope # None
<1>1. rope \in 1..Len(d.of) /\ d.of[rope] = <<width, params>>[1]
  BY DEF Entries, Handed
<1>2. Len(d.of) \in Nat
  BY DEF Entries
<1> QED
  BY <1>1, <1>2, NoneAssumption

LEMMA WidthsAreNat ==
    ASSUME m \in Models
    PROVE  /\ TextWidth(m) \in Nat /\ m.width \in Nat
           /\ m.tower # None => TowerWidthOf(m) \in Nat
           /\ m.draft # None => m.draft.width \in Nat
<1>1. /\ m.width \in Nat
      /\ m.tower # None => m.tower.width \in Nat
      /\ m.draft # None => m.draft.width \in Nat
  BY ModelsAssumption
<1>2. HeadOf(m) \in Nat
  BY HeadsOf
<1> QED
  BY <1>1, <1>2 DEF TextWidth, TowerWidthOf

LEMMA AttnAsBuilt ==
    ASSUME LoadInv, AttnInv, initialize_model PROVE AttnInv'
<1>1. stage = "hooked" /\ m' = m /\ config' = config /\ (stage' = "built" \/ stage' = "refused")
  BY DEF initialize_model
<1>2. m \in Models /\ config = Configured(m) /\ stage \in Hooks /\ Entries(ropes)
  BY <1>1 DEF LoadInv, ConfigInv, Hooks, AttnInv, RopesInv
<1>3. CASE stage' = "refused"
  <2>1. ropes' = ropes
    BY <1>3 DEF initialize_model
  <2> QED
    BY <1>2, <1>3, <2>1 DEF AttnInv, WeightsInv, ScaleInv, NormInv, RopesInv, Takes, Passed, Builds
<1>4. CASE stage' = "built"
  <2> DEFINE textual == BuildText(ropes)  built == BuildTower(textual)
             scale == IF m.scale # None THEN m.scale ELSE IF m.reads = "bert" THEN m.width ELSE HeadWidth
             rope == IF Ropeless(m.rope) \/ m.hf THEN None ELSE textual.dict[<<HeadWidth, m.rope>>]
             towerRope == built.dict[<<TowerWidth, m.tower.rope>>]
  <2>1. /\ ropes' = built
        /\ attn' = [p \in TargetParts |->
              IF p = "text" THEN Attention(HeadWidth, rope, scale, m.norm)
              ELSE Attention(TowerWidth, towerRope, TowerWidth, "none")]
    BY <1>4 DEF initialize_model
  <2>2. /\ ~TextLeft => HeadWidth = TextWidth(m)
        /\ m.tower # None /\ ~TowerLeft => TowerWidth = TowerWidthOf(m)
        /\ HeadWidth \in Nat /\ (m.tower # None => TowerWidth \in Nat)
        /\ TextLeft' = TextLeft /\ TowerLeft' = TowerLeft
    <3>1. UNCHANGED <<m, shims, config>>
      BY <1>1 DEF initialize_model
    <3>2. TextLeft' = TextLeft /\ TowerLeft' = TowerLeft
      BY <3>1, LeftStays
    <3>3. TextWidth(m) \in Nat /\ (m.tower # None => TowerWidthOf(m) \in Nat)
      BY <1>2, WidthsAreNat
    <3> QED
      BY <1>2, <3>2, <3>3, WidthsBuilt DEF LoadInv
  <2>3. ~TextLeft => scale = ScaleAsBuilt(m)
    BY <2>2 DEF ScaleAsBuilt
  <2>4. /\ Entries(textual)
        /\ Rotates(m) => Handed(textual, rope, HeadWidth, m.rope)
        /\ ~Rotates(m) => rope = None
    <3>1. CASE ~Rotates(m)
      BY <1>2, <3>1 DEF BuildText, Ropeless, Rotates
    <3>2. CASE Rotates(m)
      <4>1. textual = get_rope(ropes, HeadWidth, m.rope) /\ rope = textual.dict[<<HeadWidth, m.rope>>]
        BY <3>2 DEF BuildText, Ropeless, Rotates
      <4>2. Grows(ropes, textual, HeadWidth, m.rope)
        BY <1>2, <2>2, <4>1, RopeHanded
      <4> HIDE DEF textual, rope
      <4> QED
        BY <3>2, <4>1, <4>2 DEF Grows, Handed
    <3> QED
      BY <3>1, <3>2
  <2>5. /\ Entries(built)
        /\ Rotates(m) => Handed(built, rope, HeadWidth, m.rope)
        /\ m.tower # None => Handed(built, towerRope, TowerWidth, m.tower.rope)
    <3>1. CASE m.tower = None
      <4>1. built = textual
        BY <3>1 DEF BuildTower
      <4> HIDE DEF built, textual, rope
      <4> QED
        BY <2>4, <3>1, <4>1
    <3>2. CASE m.tower # None
      <4>1. built = get_rope(textual, TowerWidth, m.tower.rope) /\ towerRope = built.dict[<<TowerWidth, m.tower.rope>>]
        BY <3>2 DEF BuildTower
      <4> HIDE DEF textual, built, towerRope, rope
      <4>2. Grows(textual, built, TowerWidth, m.tower.rope)
        BY <2>2, <2>4, <3>2, <4>1, RopeHanded
      <4> QED
        BY <2>4, <3>2, <4>1, <4>2 DEF Grows, Handed
    <3> QED
      BY <3>1, <3>2
  <2> HIDE DEF textual, built, rope, towerRope, scale
  <2>6. /\ Fresh(attn'["text"], HeadWidth, rope, scale, m.norm)
        /\ m.tower # None => Fresh(attn'["tower"], TowerWidth, towerRope, TowerWidth, "none")
    <3>1. "text" \in TargetParts /\ (m.tower # None => "tower" \in TargetParts)
      BY DEF TargetParts
    <3>2. /\ attn'["text"] = Attention(HeadWidth, rope, scale, m.norm)
          /\ m.tower # None => attn'["tower"] = Attention(TowerWidth, towerRope, TowerWidth, "none")
      BY <2>1, <3>1
    <3> QED
      BY <3>2, AttentionShaped
  <2>7. "draft" \notin DOMAIN attn'
    BY <2>1 DEF TargetParts
  <2>8. ScaleInv' /\ NormInv' /\ WeightsInv'
    BY <1>1, <1>4, <2>2, <2>3, <2>6 DEF ScaleInv, NormInv, WeightsInv, Fresh, Takes, Passed
  <2>9. RopesInv'
    <3>1. /\ Rotates(m) /\ ~TextLeft => Handed(built, rope, TextWidth(m), m.rope)
          /\ m.tower # None /\ ~TowerLeft => Handed(built, towerRope, TowerWidthOf(m), m.tower.rope)
      BY <2>2, <2>5
    <3> QED
      BY <1>1, <1>4, <2>1, <2>2, <2>4, <2>5, <2>6, <2>7, <3>1 DEF RopesInv, Fresh, Passed
  <2> QED
    BY <2>8, <2>9 DEF AttnInv
<1> QED
  BY <1>1, <1>3, <1>4

LEMMA AttnAsLoaded ==
    ASSUME LoadInv, AttnInv, load_weights, LoadInv' PROVE AttnInv'
<1>1. /\ stage = "built" /\ m' = m /\ m \in Models /\ config = Configured(m) /\ ropes' = ropes
      /\ stage' = "loaded" \/ stage' = "refused"
  BY DEF load_weights, LoadInv, ConfigInv, Hooks, Builds
<1>2. CASE stage' = "refused"
  BY <1>1, <1>2 DEF AttnInv, WeightsInv, ScaleInv, NormInv, RopesInv, Takes, Passed, Builds
<1>3. CASE stage' = "loaded"
  <2> DEFINE weights == [p \in DOMAIN attn |->
                            Taken(p, attn[p].width, m.heads, IF p = "text" THEN m.kv ELSE m.heads)]
             folded == [p \in DOMAIN attn |-> HeadPadded /\ m.streams /\ p = "text" /\ m.norm # "none"]
             Short == \/ TooShort("text", m.width, m.heads)
                      \/ m.tower # None /\ TooShort("tower", m.tower.width, m.heads)
                      \/ \E k \in DOMAIN mlp : MlpTooShort(k)
  <2>0. ~Short
    BY <1>3 DEF load_weights
  <2>1. attn' = [p \in DOMAIN attn |-> [attn[p] EXCEPT !.weights = weights[p], !.norm.folded = folded[p]]]
    BY ZenonT(20), <2>0 DEF load_weights
  <2>11. TextLeft' = TextLeft /\ TowerLeft' = TowerLeft /\ ~TextLeft /\ ~TowerLeft
    <3>1. UNCHANGED <<m, shims, config>>
      BY DEF load_weights
    <3>2. TextLeft' = TextLeft /\ TowerLeft' = TowerLeft
      BY <3>1, LeftStays
    <3> QED
      BY <1>3, <3>2 DEF LoadInv, LoadedInv
  <2>2. /\ DOMAIN attn' = DOMAIN attn /\ "text" \in DOMAIN attn /\ (m.tower # None => "tower" \in DOMAIN attn)
        /\ \A p \in DOMAIN attn : Shaped(attn[p])
        /\ attn["text"].width = TextWidth(m)
        /\ m.tower # None => attn["tower"].width = TowerWidthOf(m) /\ TowerWidthOf(m) = m.tower.width
    <3>1. /\ "text" \in DOMAIN attn /\ (m.tower # None => "tower" \in DOMAIN attn)
          /\ \A p \in DOMAIN attn : Shaped(attn[p])
          /\ attn["text"].width = TextWidth(m)
          /\ m.tower # None => attn["tower"].width = TowerWidthOf(m)
      BY <1>1, <2>11 DEF LoadInv, PartsInv, Builds, TargetParts
    <3>2. m.tower # None => TowerWidthOf(m) = m.tower.width
      BY <1>1, <1>3 DEF LoadInv, LoadedInv
    <3> QED
      BY <2>1, <3>1, <3>2
  <2>3. weights["text"] = Taken("text", TextWidth(m), m.heads, m.kv)
    BY <2>2
  <2>4. m.tower # None => weights["tower"] = Taken("tower", m.tower.width, m.heads, m.heads)
    BY <2>2
  <2>5. folded["text"] = Folds(m)
    BY <1>1, <2>2, ConfigIs DEF Folds
  <2> HIDE DEF weights, folded
  <2>6. \A p \in DOMAIN attn : /\ Shaped(attn'[p]) /\ attn'[p].impl = attn[p].impl /\ attn'[p].module = attn[p].module
                               /\ attn'[p].rope = attn[p].rope /\ attn'[p].weights = weights[p]
                               /\ attn'[p].norm.eps = attn[p].norm.eps /\ attn'[p].norm.folded = folded[p]
    BY <2>1, <2>2 DEF Shaped
  <2>7. WeightsInv'
    <3>1. StreamWidth(m) = TextWidth(m) => HeadsLoaded(weights["text"], m)
      <4>1. StreamWidth(m) = TextWidth(m) => HeadsLoaded(Taken("text", StreamWidth(m), m.heads, m.kv), m)
        BY <1>1, <2>2, TextTaken
      <4> QED
        BY <2>3, <4>1
    <3>2. m.tower # None => TowerLoaded(weights["tower"], m)
      BY <1>1, <2>2, <2>4, TowerTaken
    <3> QED
      BY <1>1, <2>2, <2>6, <3>1, <3>2 DEF WeightsInv
  <2>8. ScaleInv'
    BY <1>1, <1>3, <2>2, <2>6, <2>11 DEF AttnInv, ScaleInv, Passed, Builds
  <2>9. NormInv'
    BY <1>1, <1>3, <2>2, <2>5, <2>6 DEF AttnInv, NormInv, Passed
  <2>10. RopesInv'
    BY <1>1, <1>3, <2>2, <2>6, <2>11 DEF AttnInv, RopesInv, Passed, Builds, LoadInv, PartsInv
  <2> QED
    BY <2>7, <2>8, <2>9, <2>10 DEF AttnInv
<1> QED
  BY <1>1, <1>2, <1>3

LEMMA AttnWithDraft ==
    ASSUME LoadInv, AttnInv, load_drafter PROVE AttnInv'
<1>1. /\ stage = "loaded" /\ stage' = "loaded" /\ m' = m /\ m.draft # None /\ m \in Models
      /\ "text" \in DOMAIN attn /\ (m.tower # None => "tower" \in DOMAIN attn)
  BY DEF load_drafter, LoadInv, ConfigInv, PartsInv, TargetParts, Hooks, Builds
<1> DEFINE width == m.draft.width  params == m.draft.rope  rope == ropes'.dict[<<width, params>>]
           a == Attention(width, rope, width, "rms")
<1>2. ropes' = get_rope(ropes, width, params) /\ attn' = Put(attn, "draft", a)
  BY DEF load_drafter
<1>3. Grows(ropes, ropes', width, params)
  BY <1>1, <1>2, WidthsAreNat, RopeHanded DEF AttnInv, RopesInv
<1>4. Fresh(a, width, rope, width, "rms")
  BY AttentionShaped
<1> HIDE DEF a
<1>5. /\ attn'["draft"] = a
      /\ attn'["text"] = attn["text"] /\ (m.tower # None => attn'["tower"] = attn["tower"])
  BY <1>1, <1>2 DEF Put
<1>6. Handed(ropes', attn'["draft"].rope, width, params)
  BY <1>3, <1>4, <1>5 DEF Fresh, Grows, Handed
<1>9. TextLeft' = TextLeft /\ TowerLeft' = TowerLeft
  <2>1. UNCHANGED <<m, shims, config>>
    BY DEF load_drafter
  <2> QED
    BY <2>1, LeftStays
<1>7. RopesInv'
  BY <1>1, <1>3, <1>5, <1>6, <1>9 DEF AttnInv, RopesInv, Grows, Builds, Passed
<1>8. WeightsInv' /\ ScaleInv' /\ NormInv'
  BY <1>1, <1>5, <1>9 DEF AttnInv, WeightsInv, ScaleInv, NormInv, Passed
<1> QED
  BY <1>7, <1>8 DEF AttnInv

LEMMA ScaleFitted ==
    ASSUME LoadInv, ScaleInv, stage = "loaded", PadsHead(m), m.reads # "private"
    PROVE  LET a == fix_padded_attention_scale("text") IN a.impl = ScaleOf(m) /\ a.module = ScaleOf(m)
<1>1. /\ m \in Models /\ config = Configured(m) /\ "text" \in DOMAIN attn /\ Shaped(attn["text"])
      /\ attn["text"].impl = ScaleAsBuilt(m) /\ attn["text"].module = ScaleAsBuilt(m)
  <2>1. ~TextLeft
    BY DEF LoadInv, LoadedInv
  <2> QED
    BY <2>1 DEF LoadInv, ConfigInv, PartsInv, ScaleInv, TargetParts, Hooks, Builds
<1>2. config.head = HeadOf(m) /\ config.headOf = m.width /\ HeadOf(m) # m.width
  BY <1>1, ConfigIs, HeadsOf
<1>3. "text" \in Built
  BY <1>1 DEF Built
<1>4. "text" \in text_modules(has_padded_scale) <=> ScaleAsBuilt(m) = HeadOf(m)
  BY <1>1, <1>2, <1>3 DEF text_modules, has_padded_scale
<1>5. ScaleOf(m) = IF ScaleAsBuilt(m) = HeadOf(m) THEN m.width ELSE ScaleAsBuilt(m)
  <2>1. TextWidth(m) = HeadOf(m)
    BY DEF TextWidth
  <2> QED
    BY <1>2, <2>1 DEF ScaleAsBuilt, ScaleOf
<1>6. LET a == fix_padded_attention_scale("text") IN
      /\ a.impl = IF ScaleAsBuilt(m) = HeadOf(m) THEN m.width ELSE ScaleAsBuilt(m)
      /\ a.module = IF ScaleAsBuilt(m) = HeadOf(m) THEN m.width ELSE ScaleAsBuilt(m)
  BY <1>1, <1>2, <1>4 DEF fix_padded_attention_scale, Shaped
<1> QED
  BY <1>5, <1>6

LEMMA RopesFitted ==
    ASSUME LoadInv, RopesInv, stage = "loaded", PadsHead(m), m.reads # "private",
           m.tower # None => TowerWidthOf(m) = m.tower.width
    PROVE  LET e == fix_padded_rope(ropes) IN
           /\ Entries(e)
           /\ Rotates(m) => e.of[attn["text"].rope] = m.width
           /\ m.tower # None => Keeps(e.of[attn["tower"].rope], m.tower, m)
           /\ "draft" \in DOMAIN attn => Keeps(e.of[attn["draft"].rope], m.draft, m)
<1>1. /\ m \in Models /\ config = Configured(m) /\ "text" \in DOMAIN attn
      /\ "draft" \in DOMAIN attn => m.draft # None
  BY DEF LoadInv, ConfigInv, PartsInv, TargetParts, Hooks, Builds
<1>2. config.head = HeadOf(m) /\ config.headOf = m.width /\ TextWidth(m) = HeadOf(m)
  BY <1>1, ConfigIs DEF TextWidth
<1>3. /\ Entries(ropes)
      /\ ~Rotates(m) => attn["text"].rope = None
      /\ Rotates(m) => Handed(ropes, attn["text"].rope, HeadOf(m), m.rope)
      /\ m.tower # None => Handed(ropes, attn["tower"].rope, m.tower.width, m.tower.rope)
      /\ "draft" \in DOMAIN attn => Handed(ropes, attn["draft"].rope, m.draft.width, m.draft.rope)
  <2>1. ~TextLeft /\ ~TowerLeft
    BY DEF LoadInv, LoadedInv
  <2> QED
    BY <1>2, <2>1 DEF RopesInv, Builds
<1> DEFINE mine == attn["text"].rope  e == fix_padded_rope(ropes)
<1>4. /\ "text" \in text_modules(is_spyre_rope) <=> mine # None
      /\ text_modules(is_spyre_rope) \subseteq {"text"}
  BY <1>1 DEF text_modules, is_spyre_rope, Built
<1>5. CASE ~Rotates(m)
  <2>1. e = ropes
    BY <1>3, <1>4, <1>5 DEF fix_padded_rope
  <2> HIDE DEF e
  <2> QED
    BY <1>3, <1>5, <2>1, HandedOf DEF e, Keeps
<1>6. CASE Rotates(m)
  <2> DEFINE r == get_rope(ropes, m.width, m.rope)
  <2>1. text_modules(is_spyre_rope) = {"text"} /\ mine \in 1..Len(ropes.of)
    BY <1>3, <1>4, <1>6, HandedOf
  <2>2. Grows(ropes, r, m.width, m.rope)
    BY <1>1, <1>3, WidthsAreNat, RopeHanded
  <2>3. e = [dict |-> [key \in {key \in DOMAIN r.dict : r.dict[key] \notin {mine}} |-> r.dict[key]],
             of |-> [i \in DOMAIN r.of |-> IF i \in {mine} THEN r.of[r.dict[<<m.width, m.rope>>]] ELSE r.of[i]]]
    <3>1. {attn[p].rope : p \in text_modules(is_spyre_rope)} = {mine}
      BY <2>1
    <3> QED
      BY <1>2, <2>1, <3>1 DEF fix_padded_rope
  <2> HIDE DEF e, r
  <2>4. /\ r.of \in Seq(Nat) /\ Len(r.of) \in Nat /\ DOMAIN r.of = 1..Len(r.of) /\ Entries(r)
        /\ mine \in 1..Len(r.of)
        /\ r.of[r.dict[<<m.width, m.rope>>]] = m.width
    <3>1. Entries(r) /\ Handed(r, r.dict[<<m.width, m.rope>>], m.width, m.rope) /\ Len(ropes.of) <= Len(r.of)
      BY <2>2 DEF Grows, Handed
    <3>2. r.of[r.dict[<<m.width, m.rope>>]] = m.width
      BY <3>1, HandedOf
    <3>3. r.of \in Seq(Nat) /\ Len(r.of) \in Nat /\ DOMAIN r.of = 1..Len(r.of) /\ Len(ropes.of) \in Nat
      BY <1>3, <3>1 DEF Entries
    <3> QED
      BY <2>1, <3>1, <3>2, <3>3
  <2>5. /\ DOMAIN e = {"dict", "of"} /\ DOMAIN e.of = 1..Len(r.of)
        /\ \A i \in 1..Len(r.of) : e.of[i] = IF i = mine THEN m.width ELSE r.of[i]
        /\ DOMAIN e.dict = {key \in DOMAIN r.dict : r.dict[key] # mine}
        /\ \A key \in DOMAIN e.dict : e.dict[key] = r.dict[key]
    BY <2>3, <2>4
  <2>6. e.of \in Seq(Nat) /\ Len(e.of) = Len(r.of)
    <3>1. m.width \in Nat
      BY <1>1, WidthsAreNat
    <3>2. \A i \in 1..Len(r.of) : r.of[i] \in Nat
      BY <2>4
    <3>3. \A i \in 1..Len(r.of) : e.of[i] \in Nat
      BY <2>5, <3>1, <3>2
    <3>4. e.of = [i \in 1..Len(r.of) |-> e.of[i]]
      BY <2>3, <2>4
    <3>5. e.of \in [1..Len(r.of) -> Nat]
      BY <3>3, <3>4
    <3>6. e.of \in Seq(Nat)
      BY <2>4, <3>5, SeqDef
    <3>7. Len(e.of) \in Nat /\ 1..Len(e.of) = 1..Len(r.of)
      BY <2>5, <3>6, LenProperties
    <3> QED
      BY <2>4, <3>6, <3>7
  <2>7. Entries(e)
    <3>1. ASSUME NEW key \in DOMAIN e.dict
          PROVE  e.dict[key] \in 1..Len(e.of) /\ e.of[e.dict[key]] = key[1]
      <4>1. key \in DOMAIN r.dict /\ e.dict[key] = r.dict[key] /\ r.dict[key] # mine
        BY <2>5
      <4>2. r.dict[key] \in 1..Len(r.of) /\ r.of[r.dict[key]] = key[1]
        BY <2>4, <4>1 DEF Entries
      <4> QED
        BY <2>5, <2>6, <4>1, <4>2
    <3>2. \A key, other \in DOMAIN e.dict : e.dict[key] = e.dict[other] => key = other
      BY <2>4, <2>5 DEF Entries
    <3> QED
      BY <2>5, <2>6, <3>1, <3>2 DEF Entries
  <2>8. ASSUME NEW rope, NEW width, NEW params, Handed(ropes, rope, width, params),
               <<width, params>> # <<HeadOf(m), m.rope>>
        PROVE  e.of[rope] = width
    <3>1. Handed(r, rope, width, params) /\ Handed(r, mine, HeadOf(m), m.rope)
      BY <1>3, <1>6, <2>2, <2>8 DEF Grows
    <3>2. rope # mine
      BY <2>4, <2>8, <3>1 DEF Handed, Entries
    <3>3. rope \in 1..Len(r.of) /\ r.of[rope] = width
      BY <2>4, <3>1, HandedOf
    <3> QED
      BY <2>5, <3>2, <3>3
  <2>9. \A part : <<part.width, part.rope>> = <<HeadOf(m), m.rope>> => \A width : Keeps(width, part, m)
    BY <1>6 DEF Keeps, Rotates
  <2>10. e.of[mine] = m.width
    BY <2>4, <2>5
  <2>11. m.tower # None => Keeps(e.of[attn["tower"].rope], m.tower, m)
    BY <1>3, <2>8, <2>9 DEF Keeps
  <2>12. "draft" \in DOMAIN attn => Keeps(e.of[attn["draft"].rope], m.draft, m)
    BY <1>1, <1>3, <2>8, <2>9 DEF Keeps
  <2> QED
    BY <2>7, <2>10, <2>11, <2>12 DEF e
<1> QED
  BY <1>5, <1>6

LEMMA AttnAsFitted ==
    ASSUME LoadInv, AttnInv, fix_padded_model, LoadInv' PROVE AttnInv'
<1>1. /\ stage = "loaded" /\ m' = m /\ m \in Models /\ config = Configured(m)
      /\ m.draft # None => "draft" \in DOMAIN attn
      /\ stage' = "fitted" \/ stage' = "refused"
      /\ HeadPadded <=> PadsHead(m)
      /\ PadsHead(m) => config.head = HeadOf(m) /\ config.headOf = m.width
  BY ConfigIs DEF fix_padded_model, LoadInv, ConfigInv, Hooks, Builds
<1>2. CASE stage' = "refused"
  <2>1. ropes' = ropes
    BY <1>2 DEF fix_padded_model
  <2> QED
    BY <1>1, <1>2, <2>1 DEF AttnInv, WeightsInv, ScaleInv, NormInv, RopesInv, Takes, Passed, Builds
<1>3. CASE stage' = "fitted"
  <2>1. /\ ropes' = IF PadsHead(m) THEN fix_padded_rope(ropes) ELSE ropes
        /\ attn' = IF PadsHead(m)
                   THEN [p \in DOMAIN attn |-> fix_padded_qk_norm_eps(p, fix_padded_attention_scale(p))]
                   ELSE attn
    <3> DEFINE Refuses == \/ HeadPadded /\ ~(verify_padded_head_dim /\ verify_padded_qk_norm_weights)
                          \/ InterPadded /\ ~verify_padded_intermediate_size
                          \/ HeadPadded /\ (Ambiguous(is_spyre_rope) \/ Ambiguous(has_padded_scale))
    <3>1. ~Refuses
      BY <1>3 DEF fix_padded_model
    <3>2. /\ ropes' = IF HeadPadded THEN fix_padded_rope(ropes) ELSE ropes
          /\ attn' = IF HeadPadded
                     THEN [p \in DOMAIN attn |-> fix_padded_qk_norm_eps(p, fix_padded_attention_scale(p))]
                     ELSE attn
      BY <3>1 DEF fix_padded_model
    <3> QED
      BY <1>1, <3>2
  <2>2. /\ PadsHead(m) => m.streams /\ m.reads # "private" /\ m.norm # "gemma"
        /\ m.tower # None => TowerWidthOf(m) = m.tower.width
        /\ ~TextLeft /\ ~TowerLeft /\ ~TowerLeft'
    <3>1. UNCHANGED <<m, shims, config>>
      BY DEF fix_padded_model
    <3>2. TowerLeft' = TowerLeft
      BY <3>1, LeftStays
    <3> QED
      BY <1>1, <1>3, <3>2 DEF LoadInv, LoadedInv
  <2>3. /\ "text" \in DOMAIN attn /\ (m.tower # None => "tower" \in DOMAIN attn)
        /\ \A p \in DOMAIN attn : Shaped(attn[p])
        /\ attn["text"].width = TextWidth(m) /\ attn["text"].norm.kind = m.norm
    BY <1>1, <2>2 DEF LoadInv, PartsInv, TargetParts, Builds
  <2>4. ~PadsHead(m) => TextWidth(m) = m.width
    BY <1>1, HeadsOf DEF TextWidth
  <2>5. CASE ~PadsHead(m)
    <3>1. attn' = attn /\ ropes' = ropes
      BY <2>1, <2>5
    <3>2. WeightsInv' /\ NormInv'
      BY <1>1, <1>3, <2>5, <3>1 DEF AttnInv, WeightsInv, NormInv, Takes, Passed
    <3>3. ScaleInv'
      BY <1>1, <1>3, <2>2, <2>4, <2>5, <3>1 DEF AttnInv, ScaleInv, ScaleAsBuilt, ScaleOf, Passed, Builds
    <3>4. RopesInv'
      <4>1. Entries(ropes)
        BY DEF AttnInv, RopesInv
      <4>2. /\ Rotates(m) => ropes.of[attn["text"].rope] = m.width
            /\ m.tower # None => ropes.of[attn["tower"].rope] = m.tower.width
            /\ "draft" \in DOMAIN attn => ropes.of[attn["draft"].rope] = m.draft.width
        BY <1>1, <2>2, <2>4, <2>5, <4>1, HandedOf DEF AttnInv, RopesInv
      <4> QED
        BY <1>1, <1>3, <3>1, <4>1, <4>2 DEF AttnInv, RopesInv, Passed, Builds, Keeps
    <3> QED
      BY <3>2, <3>3, <3>4 DEF AttnInv
  <2>6. CASE PadsHead(m)
    <3> DEFINE Scaled(p) == fix_padded_attention_scale(p)
    <3>1. /\ DOMAIN attn' = DOMAIN attn
          /\ \A p \in DOMAIN attn : attn'[p] = fix_padded_qk_norm_eps(p, Scaled(p))
      BY <2>1, <2>6
    <3>2. ASSUME NEW p \in DOMAIN attn
          PROVE  /\ Shaped(Scaled(p)) /\ Scaled(p).rope = attn[p].rope /\ Scaled(p).norm = attn[p].norm
                 /\ Scaled(p).weights = attn[p].weights
                 /\ p # "text" => Scaled(p).impl = attn[p].impl /\ Scaled(p).module = attn[p].module
      <4>1. p # "text" => p \notin text_modules(has_padded_scale)
        BY DEF text_modules
      <4> QED
        BY <2>3, <4>1 DEF Shaped, fix_padded_attention_scale
    <3> HIDE DEF Scaled
    <3>3. ASSUME NEW p \in DOMAIN attn
          PROVE  /\ attn'[p].rope = attn[p].rope /\ attn'[p].weights = attn[p].weights
                 /\ attn'[p].impl = Scaled(p).impl /\ attn'[p].module = Scaled(p).module
                 /\ attn'[p].norm.folded = attn[p].norm.folded
                 /\ attn'[p].norm.eps = IF p \in text_modules(_padded_qk_norms) THEN <<m.width, HeadOf(m)>>
                                        ELSE attn[p].norm.eps
      <4> DEFINE a == Scaled(p)
      <4>1. Shaped(a) /\ a.rope = attn[p].rope /\ a.norm = attn[p].norm /\ a.weights = attn[p].weights
        BY <3>2
      <4>2. attn'[p] = IF p \in text_modules(_padded_qk_norms)
                       THEN [a EXCEPT !.norm.eps = <<m.width, HeadOf(m)>>] ELSE a
        BY <1>1, <2>6, <3>1 DEF fix_padded_qk_norm_eps
      <4> HIDE DEF a
      <4>3. /\ attn'[p].rope = a.rope /\ attn'[p].weights = a.weights
            /\ attn'[p].impl = a.impl /\ attn'[p].module = a.module
            /\ attn'[p].norm.folded = a.norm.folded
            /\ attn'[p].norm.eps = IF p \in text_modules(_padded_qk_norms) THEN <<m.width, HeadOf(m)>> ELSE a.norm.eps
        BY <4>1, <4>2 DEF Shaped
      <4> QED
        BY <4>1, <4>3 DEF a
    <3>4. WeightsInv'
      BY <1>1, <1>3, <2>3, <3>3 DEF AttnInv, WeightsInv, Takes
    <3>5. ScaleInv'
      <4>1. Scaled("text").impl = ScaleOf(m) /\ Scaled("text").module = ScaleOf(m)
        BY <1>1, <2>2, <2>6, ScaleFitted DEF AttnInv, Scaled
      <4>2. m.tower # None => Scaled("tower").impl = attn["tower"].impl /\ Scaled("tower").module = attn["tower"].module
        BY <2>3, <3>2
      <4> QED
        BY <1>1, <1>3, <2>2, <2>3, <3>3, <4>1, <4>2 DEF AttnInv, ScaleInv, Passed, Builds
    <3>6. NormInv'
      <4>1. m.norm # "none" => "text" \in text_modules(_padded_qk_norms)
        <5>1. TextWidth(m) = HeadOf(m)
          BY <2>2, <2>6 DEF TextWidth
        <5> QED
          BY <1>1, <2>3, <2>6, <5>1 DEF text_modules, _padded_qk_norms, Built
      <4> QED
        BY <1>1, <1>3, <2>3, <2>6, <3>3, <4>1 DEF AttnInv, NormInv, Takes, Passed
    <3>7. RopesInv'
      <4> DEFINE e == fix_padded_rope(ropes)
      <4>1. /\ Entries(e)
            /\ Rotates(m) => e.of[attn["text"].rope] = m.width
            /\ m.tower # None => Keeps(e.of[attn["tower"].rope], m.tower, m)
            /\ "draft" \in DOMAIN attn => Keeps(e.of[attn["draft"].rope], m.draft, m)
        BY <1>1, <2>2, <2>6, RopesFitted DEF AttnInv
      <4>2. ropes' = e
        BY <2>1, <2>6
      <4> HIDE DEF e
      <4> QED
        BY <1>1, <1>3, <2>3, <3>1, <3>3, <4>1, <4>2 DEF AttnInv, RopesInv, Passed, Builds
    <3> QED
      BY <3>4, <3>5, <3>6, <3>7 DEF AttnInv
  <2> QED
    BY <2>5, <2>6
<1> QED
  BY <1>1, <1>2, <1>3

LEMMA AttnStays ==
    ASSUME AttnInv, ropes' = ropes,
           \/ stage' \notin Builds
           \/ /\ UNCHANGED <<m, attn, shims, config>>
              /\ stage' = stage \/ (stage = "fitted" /\ stage' = "serving")
    PROVE  AttnInv'
<1>1. CASE stage' \notin Builds
  BY <1>1 DEF AttnInv, WeightsInv, ScaleInv, NormInv, RopesInv, Takes, Passed, Builds
<1>2. CASE UNCHANGED <<m, attn, shims, config>> /\ stage' = stage
  <2>1. TextLeft' = TextLeft /\ TowerLeft' = TowerLeft
    BY <1>2, LeftStays
  <2> QED
    BY <1>2, <2>1 DEF AttnInv, WeightsInv, ScaleInv, NormInv, RopesInv
<1>3. CASE UNCHANGED <<m, attn, shims, config>> /\ stage = "fitted" /\ stage' = "serving"
  <2>3. TextLeft' = TextLeft /\ TowerLeft' = TowerLeft
    BY <1>3, LeftStays
  <2>1. WeightsInv' /\ ScaleInv' /\ NormInv'
    BY <1>3, <2>3 DEF AttnInv, WeightsInv, ScaleInv, NormInv, Takes, Passed, Builds
  <2>2. RopesInv'
    BY <1>3, <2>3 DEF AttnInv, RopesInv, Passed, Builds
  <2> QED
    BY <2>1, <2>2 DEF AttnInv
<1> QED
  BY <1>1, <1>2, <1>3

LEMMA AttnKeeps == LoadInv /\ LoadInv' /\ AttnInv /\ [Next]_vars => AttnInv'
<1> SUFFICES ASSUME LoadInv, LoadInv', AttnInv, [Next]_vars PROVE AttnInv'
  OBVIOUS
<1>1. CASE Configure
  <2>1. ropes' = ropes /\ stage' \in {"refused", "configured"}
    BY <1>1 DEF Configure
  <2> QED
    BY <2>1, AttnStays DEF Builds
<1>2. CASE install_pad_loaders
  <2>1. ropes' = ropes /\ stage' \in {"refused", "hooked"}
    BY <1>2 DEF install_pad_loaders
  <2> QED
    BY <2>1, AttnStays DEF Builds
<1>3. CASE configure_pooling
  <2>1. ropes' = ropes /\ UNCHANGED <<m, attn, shims, config>> /\ stage = "fitted" /\ stage' = "serving"
    BY <1>3 DEF configure_pooling
  <2> QED
    BY <2>1, AttnStays
<1>4. CASE Done \/ UNCHANGED vars
  <2>1. ropes' = ropes /\ UNCHANGED <<m, attn, shims, config>> /\ stage' = stage
    BY <1>4 DEF Done, vars
  <2> QED
    BY <2>1, AttnStays
<1> QED
  BY <1>1, <1>2, <1>3, <1>4, AttnAsBuilt, AttnAsLoaded, AttnWithDraft, AttnAsFitted DEF Next, LoadModel

LEMMA AttnStarts == Init => AttnInv
<1> SUFFICES ASSUME Init PROVE AttnInv
  OBVIOUS
<1>1. stage = "idle" /\ ropes = [dict |-> <<>>, of |-> <<>>]
  BY DEF Init
<1>2. DOMAIN ropes = {"dict", "of"} /\ ropes.of \in Seq(Nat) /\ (~ \E key \in DOMAIN ropes.dict : TRUE)
  BY <1>1
<1>3. Entries(ropes)
  BY <1>2 DEF Entries
<1> QED
  BY <1>1, <1>3 DEF AttnInv, WeightsInv, ScaleInv, NormInv, RopesInv, Takes, Passed, Builds

LEMMA AttnHolds == Spec => [](LoadInv /\ AttnInv)
<1>1. Init => LoadInv /\ AttnInv
  BY LoadStarts, AttnStarts
<1>2. LoadInv /\ AttnInv /\ [Next]_vars => (LoadInv /\ AttnInv)'
  BY LoadKeeps, AttnKeeps
<1> QED
  BY <1>1, <1>2, PTL DEF Spec

LEMMA RanksAgree == \A w : AllRows(w) = AllRanks(w, m.tp)
BY DEF AllRows, AllRanks

\* Loading leaves everything else as it was: a tower has its own lanes and scale though hooks and
\* passes name classes and instances it shares, and the dictionary of rotary embeddings hands out
\* what is asked for, whatever instances the passes over earlier models have narrowed.  A tower
\* or a draft model has its own frequencies too, unless it has asked for the width the text part
\* was padded to at that part's rotary parameters, and so holds the instance that is narrowed.
THEOREM LoadLeavesOthers == Spec => []OthersUntouched
<1>1. LoadInv /\ AttnInv => OthersUntouched
  <2> SUFFICES ASSUME LoadInv, AttnInv PROVE OthersUntouched
    OBVIOUS
  <2>1. \A key \in DOMAIN ropes.dict : ropes.of[ropes.dict[key]] = key[1]
    BY DEF AttnInv, RopesInv, Entries
  <2>4. ASSUME Serving, NEW part, NEW width, Keeps(width, part, m)
        PROVE  width = part.width \/ SharesWidened(part)
    <3>1. (HeadPadded <=> PadsHead(m)) /\ config.head = HeadOf(m)
      BY <2>4, ConfigIs DEF Serving, LoadInv, ConfigInv, Hooks, Builds
    <3> QED
      BY <2>4, <3>1 DEF Keeps, SharesWidened
  <2>2. ASSUME Serving, m.tower # None
        PROVE  /\ \A p \in {"q", "k", "v", "o"} :
                     AllRows([r \in Ranks(m.tp) |-> attn["tower"].weights[r][p]]) = Native(m.heads, m.tower.width)
               /\ attn["tower"].impl = m.tower.width /\ attn["tower"].module = m.tower.width
               /\ ropes.of[attn["tower"].rope] = m.tower.width \/ SharesWidened(m.tower)
    <3>1. stage = "serving" /\ TowerWidthOf(m) = m.tower.width /\ ~TowerLeft
      BY <2>2 DEF Serving, LoadInv, LoadedInv
    <3>2. TowerLoaded(attn["tower"].weights, m)
      BY <2>2, <3>1 DEF AttnInv, WeightsInv, Takes
    <3>3. \A p \in {"q", "k", "v", "o"} :
              AllRows([r \in Ranks(m.tp) |-> attn["tower"].weights[r][p]]) = Native(m.heads, m.tower.width)
      BY <3>2, RanksAgree DEF TowerLoaded, OfRanks
    <3>4. attn["tower"].impl = m.tower.width /\ attn["tower"].module = m.tower.width
      BY <2>2, <3>1 DEF AttnInv, ScaleInv, Builds
    <3>5. ropes.of[attn["tower"].rope] = m.tower.width \/ SharesWidened(m.tower)
      BY <2>2, <2>4, <3>1 DEF AttnInv, RopesInv, Passed
    <3> QED
      BY <3>3, <3>4, <3>5
  <2>3. ASSUME Serving, m.draft # None
        PROVE  ropes.of[attn["draft"].rope] = m.draft.width \/ SharesWidened(m.draft)
    BY <2>3, <2>4 DEF Serving, AttnInv, RopesInv, Passed
  <2> QED
    BY <2>1, <2>2, <2>3 DEF OthersUntouched
<1> QED
  BY AttnHolds, <1>1, PTL

(***************************************************************************)
(* A head widened in halves, under the rotation of its native width.       *)
(***************************************************************************)
Turn(lane, b, z) ==
    IF lane < z THEN {Term(1, "cos", Frequency(lane, 2 * b), lane), Term(-1, "sin", Frequency(lane, 2 * b), lane + z)}
    ELSE {Term(1, "cos", Frequency(lane - z, 2 * b), lane), Term(1, "sin", Frequency(lane - z, 2 * b), lane - z)}

Behind(terms, lane, b) == terms = {} \/ terms = {Term(1, "one", Frequency(0, 2 * b), lane)}

\* Both forms of the rotation turn a lane with its partner of the other half, and leave what is
\* behind the frequencies alone or drop it.
LEMMA RotationIs ==
    ASSUME NEW b \in Nat \ {0}, NEW z \in Nat, b <= z, NEW hf, NEW lane \in 0..(2 * z - 1)
    PROVE  /\ lane % z < b => Rotation(2 * z, 2 * b, hf)[lane] = Turn(lane, b, z)
           /\ ~(lane % z < b) => Behind(Rotation(2 * z, 2 * b, hf)[lane], lane, b)
           /\ lane % z = IF lane < z THEN lane ELSE lane - z
<1>1. z \in Nat \ {0} /\ (2 * z) \div 2 = z
  OBVIOUS
<1>2. lane % z = IF lane < z THEN lane ELSE lane - z
  BY <1>1, HalfOf
<1> DEFINE i == lane % z
<1>3. i \in Nat /\ (2 * i >= 2 * b <=> ~(i < b))
  BY <1>2
<1> DEFINE f == Frequency(i, 2 * b)
<1>4. /\ lane < z => Turn(lane, b, z) = {Term(1, "cos", f, lane), Term(-1, "sin", f, lane + z)}
      /\ ~(lane < z) => Turn(lane, b, z) = {Term(1, "cos", f, lane), Term(1, "sin", f, lane - z)}
  BY <1>2 DEF Turn
<1>5. CASE hf \/ ((2 * z) \div 2) % Stick = 0
  <2> DEFINE R == _rotate_neox_2x2(2 * z, 2 * b, hf)
  <2>1. Rotation(2 * z, 2 * b, hf) = R
    BY <1>5 DEF Rotation
  <2>2. R[lane] = IF 2 * i >= 2 * b THEN (IF hf THEN {Term(1, "one", Frequency(0, 2 * b), lane)} ELSE {})
                  ELSE IF lane < z THEN {Term(1, "cos", f, lane), Term(-1, "sin", f, lane + z)}
                  ELSE {Term(1, "sin", f, lane - z), Term(1, "cos", f, lane)}
    BY <1>1 DEF _rotate_neox_2x2
  <2> HIDE DEF R, f, i
  <2>3. {Term(1, "sin", f, lane - z), Term(1, "cos", f, lane)} = {Term(1, "cos", f, lane), Term(1, "sin", f, lane - z)}
    OBVIOUS
  <2>4. i < b => R[lane] = Turn(lane, b, z)
    BY <1>3, <1>4, <2>2, <2>3
  <2>5. ~(i < b) => Behind(R[lane], lane, b)
    BY <1>3, <2>2 DEF Behind
  <2> QED
    BY <1>2, <2>1, <2>4, <2>5 DEF i
<1>6. CASE ~(hf \/ ((2 * z) \div 2) % Stick = 0)
  <2> DEFINE R == _rotate_neox_split_free(2 * z, 2 * b)
             r == _rotate_half_matrix(2 * z)[lane]
  <2>1. Rotation(2 * z, 2 * b, hf) = R
    BY <1>6 DEF Rotation
  <2>2. R[lane] = IF 2 * i >= 2 * b THEN {} ELSE {Term(1, "cos", f, lane), Term(r.sign, "sin", f, r.lane)}
    BY <1>1 DEF _rotate_neox_split_free
  <2>3. r = IF lane < z THEN [sign |-> -1, lane |-> lane + z] ELSE [sign |-> 1, lane |-> lane - z]
    BY <1>1 DEF _rotate_half_matrix
  <2> HIDE DEF R, f, i, r
  <2>4. /\ lane < z => r.sign = -1 /\ r.lane = lane + z
        /\ ~(lane < z) => r.sign = 1 /\ r.lane = lane - z
    BY <2>3
  <2>5. i < b => R[lane] = Turn(lane, b, z)
    BY <1>3, <1>4, <2>2, <2>4
  <2>6. ~(i < b) => Behind(R[lane], lane, b)
    BY <1>3, <2>2 DEF Behind
  <2> QED
    BY <1>2, <2>1, <2>5, <2>6 DEF i
<1> QED
  BY <1>5, <1>6

\* The terms of a lane, once each is of the checkpoint's lane its source holds.
Held(terms, w, first) ==
    {[t EXCEPT !.lane = w[first + t.lane]] : t \in {t \in terms : w[first + t.lane] # Zero}}

LEMMA HeldPair ==
    ASSUME NEW w, NEW first, NEW s, NEW u, NEW p, NEW q, NEW f, NEW x, NEW y,
           w[first + x] # Zero, w[first + y] # Zero
    PROVE  Held({Term(s, p, f, x), Term(u, q, f, y)}, w, first) =
               {Term(s, p, f, w[first + x]), Term(u, q, f, w[first + y])}
<1> DEFINE a == Term(s, p, f, x)  c == Term(u, q, f, y)
<1>1. a.lane = x /\ c.lane = y
  BY DEF Term
<1>2. /\ [a EXCEPT !.lane = w[first + x]] = Term(s, p, f, w[first + x])
      /\ [c EXCEPT !.lane = w[first + y]] = Term(u, q, f, w[first + y])
  BY DEF Term
<1> HIDE DEF a, c
<1>3. {t \in {a, c} : w[first + t.lane] # Zero} = {a, c}
  BY <1>1
<1>4. Held({a, c}, w, first) = {[t EXCEPT !.lane = w[first + t.lane]] : t \in {a, c}}
  BY <1>3 DEF Held
<1>5. Held({a, c}, w, first) = {[a EXCEPT !.lane = w[first + x]], [c EXCEPT !.lane = w[first + y]]}
  BY <1>1, <1>4
<1> QED
  BY <1>2, <1>5 DEF a, c

LEMMA HeldNothing ==
    ASSUME NEW w, NEW first, NEW s, NEW p, NEW f, NEW x, w[first + x] = Zero
    PROVE  Held({}, w, first) = {} /\ Held({Term(s, p, f, x)}, w, first) = {}
<1> DEFINE a == Term(s, p, f, x)
<1>1. a.lane = x
  BY DEF Term
<1> HIDE DEF a
<1>2. Held({a}, w, first) = {}
  BY <1>1 DEF Held
<1>3. Held({}, w, first) = {}
  BY DEF Held
<1> QED
  BY <1>2, <1>3 DEF a

\* Where lane i of the native head is in the widened one.
PlaceOf(i, b, z) == IF i < b THEN i ELSE z + (i - b)

\* A widened head turns as the native one does, each lane in its place.
TurnsAsNative(w, h, b, z, hf) ==
    LET R == Rotated(w, h, 2 * z, 2 * b, hf) IN
    /\ \A i \in 0..(2 * b - 1) :
          /\ PlaceOf(i, b, z) \in 0..(2 * z - 1)
          /\ w[h * (2 * z) + PlaceOf(i, b, z)] = <<h, i>>
          /\ R[PlaceOf(i, b, z)] = Rotary(h, 2 * b)[i]
    /\ \A l \in 0..(2 * z - 1) :
          \/ \E i \in 0..(2 * b - 1) : l = PlaceOf(i, b, z)
          \/ w[h * (2 * z) + l] = Zero /\ R[l] = {}

LEMMA RotatedIs ==
    ASSUME NEW b \in Nat \ {0}, NEW z \in Nat, b <= z, NEW hf,
           NEW n \in Nat, NEW w, InHalves(w, n, 2 * b, 2 * z), NEW h \in 0..(n - 1)
    PROVE  TurnsAsNative(w, h, b, z, hf)
<1> DEFINE first == h * (2 * z)  R == Rotated(w, h, 2 * z, 2 * b, hf)
<1>1. (2 * b) \div 2 = b /\ (2 * z) \div 2 = z
  OBVIOUS
<1>2. ASSUME NEW l \in 0..(2 * z - 1)
      PROVE  w[first + l] = IF l < b THEN <<h, l>> ELSE IF l - z \in 0..(b - 1) THEN <<h, b + (l - z)>> ELSE Zero
  <2>1. w[h * (2 * z) + l] = Half(h, l, 2 * b, 2 * z)
    BY DEF InHalves
  <2> QED
    BY <1>1, <2>1 DEF Half
<1>3. ASSUME NEW l \in 0..(2 * z - 1) PROVE R[l] = Held(Rotation(2 * z, 2 * b, hf)[l], w, first)
  BY DEF Rotated, Held
<1> HIDE DEF first, R
<1>4. \A i \in Nat : <<h, i>> # Zero
  BY ZeroAssumption
<1>5. ASSUME NEW i \in 0..(2 * b - 1)
      PROVE  /\ PlaceOf(i, b, z) \in 0..(2 * z - 1)
             /\ w[first + PlaceOf(i, b, z)] = <<h, i>>
             /\ R[PlaceOf(i, b, z)] = Rotary(h, 2 * b)[i]
  <2> DEFINE l == PlaceOf(i, b, z)
  <2>1. CASE i < b
    <3>1. l = i /\ l \in 0..(2 * z - 1) /\ i + z \in 0..(2 * z - 1) /\ i < z
      BY <2>1 DEF PlaceOf
    <3>2. w[first + i] = <<h, i>> /\ w[first + (i + z)] = <<h, i + b>>
      <4>1. ~(i + z < b) /\ (i + z) - z \in 0..(b - 1) /\ b + ((i + z) - z) = i + b
        BY <2>1
      <4> QED
        BY <1>2, <2>1, <3>1, <4>1
    <3>3. Rotation(2 * z, 2 * b, hf)[i] = {Term(1, "cos", Frequency(i, 2 * b), i), Term(-1, "sin", Frequency(i, 2 * b), i + z)}
      <4>1. i % z = i
        BY <3>1, RotationIs
      <4>2. Rotation(2 * z, 2 * b, hf)[i] = Turn(i, b, z)
        BY <2>1, <3>1, <4>1, RotationIs
      <4> QED
        BY <3>1, <4>2 DEF Turn
    <3>4. R[i] = {Term(1, "cos", Frequency(i, 2 * b), <<h, i>>), Term(-1, "sin", Frequency(i, 2 * b), <<h, i + b>>)}
      <4> DEFINE f == Frequency(i, 2 * b)
      <4>1. w[first + i] # Zero /\ w[first + (i + z)] # Zero
        BY <1>4, <3>2
      <4> HIDE DEF f
      <4>2. Held({Term(1, "cos", f, i), Term(-1, "sin", f, i + z)}, w, first) =
                {Term(1, "cos", f, w[first + i]), Term(-1, "sin", f, w[first + (i + z)])}
        BY <4>1, HeldPair
      <4> QED
        BY <1>3, <3>1, <3>2, <3>3, <4>2 DEF f
    <3>5. Rotary(h, 2 * b)[i] = {Term(1, "cos", Frequency(i, 2 * b), <<h, i>>), Term(-1, "sin", Frequency(i, 2 * b), <<h, i + b>>)}
      BY <1>1, <2>1 DEF Rotary
    <3> QED
      BY <3>1, <3>2, <3>4, <3>5
  <2>2. CASE ~(i < b)
    <3> DEFINE j == i - b
    <3>1. l = z + j /\ l \in 0..(2 * z - 1) /\ j \in 0..(b - 1) /\ ~(l < z) /\ l - z = j /\ j \in 0..(2 * z - 1) /\ j < b
          /\ b + j = i
      BY <2>2 DEF PlaceOf
    <3> HIDE DEF l, j
    <3>2. w[first + l] = <<h, i>> /\ w[first + j] = <<h, j>>
      <4>1. ~(l < b)
        BY <3>1
      <4>2. w[first + l] = <<h, b + (l - z)>>
        BY <1>2, <3>1, <4>1
      <4>3. w[first + j] = <<h, j>>
        BY <1>2, <3>1
      <4> QED
        BY <3>1, <4>2, <4>3
    <3>3. Rotation(2 * z, 2 * b, hf)[l] = {Term(1, "cos", Frequency(j, 2 * b), l), Term(1, "sin", Frequency(j, 2 * b), j)}
      <4>1. l % z = j
        BY <3>1, RotationIs
      <4>2. Rotation(2 * z, 2 * b, hf)[l] = Turn(l, b, z)
        BY <3>1, <4>1, RotationIs
      <4> QED
        BY <3>1, <4>2 DEF Turn
    <3>4. R[l] = {Term(1, "cos", Frequency(j, 2 * b), <<h, i>>), Term(1, "sin", Frequency(j, 2 * b), <<h, j>>)}
      <4> DEFINE f == Frequency(j, 2 * b)
      <4>1. w[first + l] # Zero /\ w[first + j] # Zero
        BY <1>4, <3>1, <3>2
      <4> HIDE DEF f
      <4>2. Held({Term(1, "cos", f, l), Term(1, "sin", f, j)}, w, first) =
                {Term(1, "cos", f, w[first + l]), Term(1, "sin", f, w[first + j])}
        BY <4>1, HeldPair
      <4> QED
        BY <1>3, <3>1, <3>2, <3>3, <4>2 DEF f
    <3>5. Rotary(h, 2 * b)[i] = {Term(1, "cos", Frequency(j, 2 * b), <<h, i>>), Term(1, "sin", Frequency(j, 2 * b), <<h, j>>)}
      BY <1>1, <2>2 DEF Rotary, j
    <3> QED
      BY <3>1, <3>2, <3>4, <3>5 DEF l
  <2> QED
    BY <2>1, <2>2
<1>6. ASSUME NEW l \in 0..(2 * z - 1), ~ \E i \in 0..(2 * b - 1) : l = PlaceOf(i, b, z)
      PROVE  w[first + l] = Zero /\ R[l] = {}
  <2>1. ~(l < b)
    <3>1. l < b => l \in 0..(2 * b - 1) /\ PlaceOf(l, b, z) = l
      BY DEF PlaceOf
    <3> QED
      BY <1>6, <3>1
  <2>2. l - z \notin 0..(b - 1)
    <3>1. l - z \in 0..(b - 1) => b + (l - z) \in 0..(2 * b - 1) /\ PlaceOf(b + (l - z), b, z) = l
      BY DEF PlaceOf
    <3> QED
      BY <1>6, <3>1
  <2>3. w[first + l] = Zero
    BY <1>2, <2>1, <2>2
  <2>4. ~(l % z < b)
    <3>1. l % z = IF l < z THEN l ELSE l - z
      BY RotationIs
    <3> QED
      BY <2>1, <2>2, <3>1
  <2>5. Behind(Rotation(2 * z, 2 * b, hf)[l], l, b)
    BY <2>4, RotationIs
  <2>6. R[l] = {}
    <3> DEFINE f == Frequency(0, 2 * b)
    <3>1. Held({}, w, first) = {} /\ Held({Term(1, "one", f, l)}, w, first) = {}
      BY <2>3, HeldNothing
    <3> QED
      BY <1>3, <2>5, <3>1 DEF Behind
  <2> QED
    BY <2>3, <2>6
<1> QED
  BY <1>5, <1>6 DEF TurnsAsNative, first, R

LEMMA SameHeadHolds ==
    ASSUME NEW b \in Nat \ {0}, NEW z \in Nat, b <= z, NEW hf,
           NEW n \in Nat, NEW q, InHalves(q, n, 2 * b, 2 * z), NEW h \in 0..(n - 1),
           NEW c \in Nat, NEW k, InHalves(k, c, 2 * b, 2 * z), NEW g \in 0..(c - 1)
    PROVE  SameHead(q, k, h, g, 2 * z, 2 * b, 2 * b, hf)
<1> DEFINE d == 2 * b  width == 2 * z
           rq == Rotated(q, h, width, d, hf)  rk == Rotated(k, g, width, d, hf)
           place == [i \in 0..(d - 1) |-> {l \in 0..(width - 1) : q[h * width + l] = <<h, i>>}]
           P(i) == PlaceOf(i, b, z)
<1>1. /\ \A i \in 0..(d - 1) : P(i) \in 0..(width - 1) /\ q[h * width + P(i)] = <<h, i>> /\ rq[P(i)] = Rotary(h, d)[i]
      /\ \A l \in 0..(width - 1) : \/ \E i \in 0..(d - 1) : l = P(i)
                                   \/ q[h * width + l] = Zero /\ rq[l] = {}
  <2>1. TurnsAsNative(q, h, b, z, hf)
    BY RotatedIs
  <2> QED
    BY <2>1 DEF TurnsAsNative
<1>2. /\ \A i \in 0..(d - 1) : k[g * width + P(i)] = <<g, i>> /\ rk[P(i)] = Rotary(g, d)[i]
      /\ \A l \in 0..(width - 1) : \/ \E i \in 0..(d - 1) : l = P(i)
                                   \/ k[g * width + l] = Zero /\ rk[l] = {}
  <2>1. TurnsAsNative(k, g, b, z, hf)
    BY RotatedIs
  <2> QED
    BY <2>1 DEF TurnsAsNative
<1>3. SameHead(q, k, h, g, width, d, d, hf) <=>
          /\ \A i \in 0..(d - 1) :
                \E l \in 0..(width - 1) : /\ place[i] = {l} /\ k[g * width + l] = <<g, i>>
                                          /\ rq[l] = Rotary(h, d)[i] /\ rk[l] = Rotary(g, d)[i]
          /\ \A l \in (0..(width - 1)) \ UNION {place[i] : i \in 0..(d - 1)} : rq[l] = {} /\ rk[l] = {}
  BY DEF SameHead
<1>4. \A i \in Nat : <<h, i>> # Zero
  BY ZeroAssumption
<1>5. d \in Nat
  OBVIOUS
<1> HIDE DEF d, width, rq, rk, P
<1>6. ASSUME NEW i \in 0..(d - 1) PROVE place[i] = {P(i)}
  <2>1. P(i) \in place[i]
    BY <1>1
  <2>2. ASSUME NEW l \in place[i] PROVE l = P(i)
    <3>1. l \in 0..(width - 1) /\ q[h * width + l] = <<h, i>>
      OBVIOUS
    <3>2. <<h, i>> # Zero
      BY <1>4, <1>5
    <3>3. PICK j \in 0..(d - 1) : l = P(j)
      BY <1>1, <3>1, <3>2
    <3>4. <<h, j>> = <<h, i>>
      BY <1>1, <3>1, <3>3
    <3> QED
      BY <3>3, <3>4
  <2> HIDE DEF place
  <2> QED
    BY <2>1, <2>2
<1> HIDE DEF place
<1>7. ASSUME NEW i \in 0..(d - 1)
      PROVE  \E l \in 0..(width - 1) : /\ place[i] = {l} /\ k[g * width + l] = <<g, i>>
                                       /\ rq[l] = Rotary(h, d)[i] /\ rk[l] = Rotary(g, d)[i]
  BY <1>1, <1>2, <1>6
<1>8. ASSUME NEW l \in (0..(width - 1)) \ UNION {place[i] : i \in 0..(d - 1)} PROVE rq[l] = {} /\ rk[l] = {}
  <2>1. ~ \E i \in 0..(d - 1) : l = P(i)
    BY <1>6
  <2> QED
    BY <1>1, <1>2, <2>1
<1> QED
  BY <1>3, <1>7, <1>8 DEF d, width

\* The widths of a model all passes let through.
LEMMA ServedWidths ==
    ASSUME LoadInv, Serving
    PROVE  /\ m \in Models /\ config = Configured(m)
           /\ TextWidth(m) = HeadOf(m) /\ StreamWidth(m) = HeadOf(m) /\ attn["text"].width = HeadOf(m)
           /\ HeadPadded <=> PadsHead(m)
           /\ config.head = HeadOf(m) /\ _patch_rope = m.width
           /\ attn["text"].norm.kind = m.norm /\ (PadsHead(m) => m.norm # "gemma" /\ m.streams)
<1>1. stage = "serving" /\ m \in Models /\ config = Configured(m)
  BY DEF Serving, LoadInv, ConfigInv, Hooks, Builds
<1>2. PadsHead(m) => m.streams /\ m.reads # "private" /\ m.norm # "gemma"
  BY <1>1 DEF LoadInv, LoadedInv
<1>3. ~PadsHead(m) => HeadOf(m) = m.width
  BY <1>1, HeadsOf
<1>4. TextWidth(m) = HeadOf(m) /\ StreamWidth(m) = HeadOf(m)
  BY <1>2, <1>3 DEF TextWidth, StreamWidth
<1>5. attn["text"].width = TextWidth(m) /\ attn["text"].norm.kind = m.norm
  <2>1. ~TextLeft
    BY <1>1 DEF LoadInv, LoadedInv
  <2> QED
    BY <1>1, <2>1 DEF LoadInv, PartsInv, Builds
<1>6. /\ HeadPadded <=> PadsHead(m)
      /\ config.head = HeadOf(m) /\ (PadsHead(m) => config.headOf = m.width)
  BY <1>1, ConfigIs
<1>7. _patch_rope = m.width
  BY <1>3, <1>6 DEF _patch_rope
<1> QED
  BY <1>1, <1>2, <1>4, <1>5, <1>6, <1>7

\* A rotated head is two halves of whole pairs.
LEMMA HalvesOfHeads ==
    ASSUME NEW x \in Models, x.rope # "none"
    PROVE  \E b \in Nat \ {0}, z \in Nat : b <= z /\ x.width = 2 * b /\ HeadOf(x) = 2 * z
<1>1. x.width \in Nat \ {0} /\ x.width % 2 = 0 /\ Stick \in Nat \ {0} /\ Stick % 2 = 0
  BY ModelsAssumption, StickAssumption
<1>2. x.width <= HeadOf(x)
  BY HeadsOf
<1> DEFINE s == Stick \div 2
<1>3. s \in Nat \ {0} /\ Stick = 2 * s
  BY <1>1
<1>4. HeadMultiple(x) \in {Stick, 2 * Stick}
  BY DEF HeadMultiple
<1>5. PICK q \in Nat : HeadOf(x) = q * HeadMultiple(x)
  <2> DEFINE k == HeadMultiple(x)
  <2>1. k \in Nat \ {0} /\ x.width \in Nat
    BY <1>1, <1>4
  <2> HIDE DEF k
  <2>2. \E q \in Nat : RoundUp(x.width, k) = q * k
    BY <2>1, RoundUpCovers
  <2> QED
    BY <2>2 DEF HeadOf, k
<1> HIDE DEF s
<1>6. \E z \in Nat : HeadOf(x) = 2 * z
  <2>1. CASE HeadMultiple(x) = Stick
    <3>1. HeadOf(x) = q * (2 * s)
      BY <1>3, <1>5, <2>1
    <3>2. q * (2 * s) = 2 * (q * s) /\ q * s \in Nat
      BY <1>3
    <3> QED
      BY <3>1, <3>2
  <2>2. CASE HeadMultiple(x) = 2 * Stick
    <3>1. HeadOf(x) = q * (2 * Stick)
      BY <1>5, <2>2
    <3>2. q * (2 * Stick) = 2 * (q * Stick) /\ q * Stick \in Nat
      BY <1>1
    <3> QED
      BY <3>1, <3>2
  <2> QED
    BY <1>4, <2>1, <2>2
<1>7. PICK z \in Nat : HeadOf(x) = 2 * z
  BY <1>6
<1>8. PICK b \in Nat \ {0} : x.width = 2 * b
  <2>1. x.width \div 2 \in Nat \ {0} /\ x.width = 2 * (x.width \div 2)
    BY <1>1
  <2> QED
    BY <2>1
<1>9. b <= z
  BY <1>2, <1>7, <1>8
<1> QED
  BY <1>7, <1>8, <1>9

\* A served model attends as published: q and k hold one lane of the checkpoint at every place
\* of a head and turn it by the frequency of its native width, values meet the columns that
\* read them, and the norms are exact, for heads of any width, whichever models were loaded
\* before.  The scale is the native one, or the model's own unless that is the one value the
\* pass takes for derived, the widened head's.
THEOREM ServedAttendsAsNative == Spec => []AttendsAsNative
<1>1. LoadInv /\ AttnInv => AttendsAsNative
  <2> SUFFICES ASSUME LoadInv, AttnInv, Serving PROVE AttendsAsNative
    BY DEF AttendsAsNative
  <2> DEFINE a == attn["text"]  w == a.weights  W == a.width  d == m.width
             All == [p \in {"q", "k", "v", "o"} |-> AllRows([r \in Ranks(m.tp) |-> w[r][p]])]
             Kv(h) == h \div (m.heads \div m.kv)
  <2>1. /\ m \in Models /\ stage = "serving"
        /\ W = HeadOf(m) /\ StreamWidth(m) = W /\ TextWidth(m) = W
        /\ _patch_rope = d /\ a.norm.kind = m.norm /\ (PadsHead(m) => m.norm # "gemma" /\ m.streams)
        /\ (HeadPadded <=> PadsHead(m)) /\ config.head = HeadOf(m)
    BY ServedWidths DEF Serving
  <2>2. \A p \in {"q", "k", "v", "o"} : All[p] = OfRanks(w, p, m.tp)
    BY RanksAgree DEF OfRanks
  <2>3. HeadsLoaded(w, m)
    BY <2>1 DEF AttnInv, WeightsInv, Takes
  <2> HIDE DEF All, w
  <2>4. /\ Placed(All["q"], m.heads, m) /\ Placed(All["k"], m.kv, m)
        /\ AtEnd(All["v"], m.kv, d, W) /\ AtEnd(All["o"], m.heads, d, W)
    BY <2>1, <2>2, <2>3 DEF HeadsLoaded
  <2>5. /\ m.heads \in Nat \ {0} /\ m.kv \in Nat \ {0} /\ m.heads % m.kv = 0
        /\ m.norm \in {"none", "rms", "gemma"}
    BY <2>1, ModelsAssumption
  <2>6. ASSUME NEW h \in 0..(m.heads - 1) PROVE Kv(h) \in 0..(m.kv - 1)
    <3> DEFINE g == m.heads \div m.kv  n == m.heads  c == m.kv
    <3>1. n \in Nat \ {0} /\ c \in Nat \ {0} /\ n % c = 0 /\ h \in 0..(n - 1)
      BY <2>5
    <3>2. g = n \div c
      OBVIOUS
    <3> HIDE DEF n, c, g
    <3>3. g \in Nat /\ n = g * c
      <4>1. n \div c \in Nat /\ n % c \in 0..(c - 1) /\ n = (n \div c) * c + (n % c)
        BY <3>1, Parts
      <4>2. (n \div c) * c \in Nat
        BY <3>1, <4>1
      <4> QED
        BY <3>1, <3>2, <4>1, <4>2
    <3>4. g \in Nat \ {0} /\ n = c * g
      <4>1. g = 0 => g * c = 0
        BY <3>1
      <4>2. g * c = c * g
        BY <3>1, <3>3
      <4> QED
        BY <3>1, <3>3, <4>1, <4>2
    <3>5. h \in Nat /\ h < c * g
      BY <3>1, <3>4
    <3>6. h \div g \in 0..(c - 1)
      BY <3>1, <3>4, <3>5, QuotientBelow
    <3> QED
      BY <3>6 DEF g, c, n
  <2>7. ASSUME NEW h \in 0..(m.heads - 1)
        PROVE  /\ IF m.rope = "none"
                  THEN \A l \in 0..(W - 1) :
                          /\ All["q"][h * W + l] = IF l < d THEN <<h, l>> ELSE Zero
                          /\ All["k"][Kv(h) * W + l] = IF l < d THEN <<Kv(h), l>> ELSE Zero
                  ELSE SameHead(All["q"], All["k"], h, Kv(h), W, d, Frequencies, m.hf)
               /\ SameValues(All["v"], All["o"], Kv(h), h, W, d)
    <3> DEFINE g == Kv(h)
    <3>1. g \in 0..(m.kv - 1)
      BY <2>6
    <3> HIDE DEF g
    <3>2. CASE m.rope = "none"
      <4>1. AtEnd(All["q"], m.heads, d, W) /\ AtEnd(All["k"], m.kv, d, W)
        BY <2>1, <2>4, <3>2 DEF Placed
      <4> HIDE DEF W, d
      <4>2. \A l \in 0..(W - 1) : /\ All["q"][h * W + l] = IF l < d THEN <<h, l>> ELSE Zero
                                  /\ All["k"][g * W + l] = IF l < d THEN <<g, l>> ELSE Zero
        BY <3>1, <4>1 DEF AtEnd, End
      <4>3. SameValues(All["v"], All["o"], g, h, W, d)
        BY <2>4, <3>1 DEF AtEnd, End, SameValues
      <4> QED
        BY <3>2, <4>2, <4>3 DEF g, W, d
    <3>3. CASE m.rope # "none"
      <4>1. PICK b \in Nat \ {0}, z \in Nat : b <= z /\ d = 2 * b /\ W = 2 * z
        BY <2>1, <3>3, HalvesOfHeads
      <4>2. Frequencies = d
        <5>1. ~m.hf => ropes.of[a.rope] = d
          BY <2>1, <3>3 DEF AttnInv, RopesInv, Passed, Rotates
        <5> QED
          BY <2>1, <5>1 DEF Frequencies
      <4>3. InHalves(All["q"], m.heads, d, W) /\ InHalves(All["k"], m.kv, d, W)
        BY <2>1, <2>4, <3>3 DEF Placed
      <4> HIDE DEF W, d
      <4>4. SameHead(All["q"], All["k"], h, g, W, d, d, m.hf)
        <5>1. InHalves(All["q"], m.heads, 2 * b, 2 * z) /\ InHalves(All["k"], m.kv, 2 * b, 2 * z)
          BY <4>1, <4>3
        <5>2. SameHead(All["q"], All["k"], h, g, 2 * z, 2 * b, 2 * b, m.hf)
          BY <2>5, <3>1, <4>1, <5>1, SameHeadHolds
        <5> QED
          BY <4>1, <5>2
      <4>5. SameValues(All["v"], All["o"], g, h, W, d)
        BY <2>4, <3>1 DEF AtEnd, End, SameValues
      <4> QED
        BY <3>3, <4>2, <4>4, <4>5 DEF g, W, d
    <3> QED
      BY <3>2, <3>3
  <2>8. ScaleUsed = IF m.scale = None \/ TakenForDerived(m.scale) THEN d ELSE m.scale
    BY <2>1 DEF AttnInv, ScaleInv, ScaleUsed, Passed, ScaleOf, TakenForDerived
  <2>9. m.norm # "none" =>
            IF a.norm.folded THEN a.norm.eps = <<d, W>> /\ a.norm.kind = "rms"
            ELSE a.norm.eps = <<1, 1>> /\ W = d
    <3>1. a.norm.folded = Folds(m) /\ (m.norm # "none" => a.norm.eps = IF PadsHead(m) THEN <<d, HeadOf(m)>> ELSE <<1, 1>>)
      BY <2>1 DEF AttnInv, NormInv, Passed, Takes
    <3>2. ~PadsHead(m) => HeadOf(m) = d
      BY <2>1, HeadsOf
    <3>3. CASE m.norm # "none" /\ PadsHead(m)
      BY <2>1, <2>5, <3>1, <3>3 DEF Folds
    <3>4. CASE m.norm # "none" /\ ~PadsHead(m)
      BY <2>1, <3>1, <3>2, <3>4 DEF Folds
    <3> QED
      BY <3>3, <3>4
  <2> HIDE DEF W, d, a, Kv
  <2>10. AttendsAsNative <=>
            (Serving => /\ \A h \in 0..(m.heads - 1) :
                              /\ IF m.rope = "none"
                                 THEN \A l \in 0..(W - 1) :
                                         /\ All["q"][h * W + l] = IF l < d THEN <<h, l>> ELSE Zero
                                         /\ All["k"][Kv(h) * W + l] = IF l < d THEN <<Kv(h), l>> ELSE Zero
                                 ELSE SameHead(All["q"], All["k"], h, Kv(h), W, d, Frequencies, m.hf)
                              /\ SameValues(All["v"], All["o"], Kv(h), h, W, d)
                        /\ ScaleUsed = IF m.scale = None \/ TakenForDerived(m.scale) THEN d ELSE m.scale
                        /\ m.norm # "none" =>
                              IF a.norm.folded THEN a.norm.eps = <<d, W>> /\ a.norm.kind = "rms"
                              ELSE a.norm.eps = <<1, 1>> /\ W = d)
    BY Zenon DEF AttendsAsNative, All, w, W, d, a, Kv
  <2> QED
    BY <2>7, <2>8, <2>9, <2>10
<1> QED
  BY AttnHolds, <1>1, PTL

(***************************************************************************)
(* Gated MLPs, sharded over the ranks.                                     *)
(***************************************************************************)
Stored(x, k) == PadEnd(Lanes(k * x.mlp.inter), k * InterStream(x))

MlpLoaded(weights, x, k) ==
    LET n == (k * MlpWidth(x)) \div x.tp IN
    weights = [p \in {"gate", "up", "down"} |-> [rank \in Ranks(x.tp) |-> Narrow(Stored(x, k), rank * n, n)]]

MlpInv == stage \in Takes => \A k \in DOMAIN mlp : MlpLoaded(mlp[k].weights, m, k)

LEMMA MlpsTaken ==
    ASSUME LoadInv, stage = "built", NEW k \in DOMAIN mlp PROVE MlpLoaded(MlpTaken(k), m, k)
<1>1. m \in Models /\ config = Configured(m)
  BY DEF LoadInv, ConfigInv, Hooks, Builds
<1>2. m.mlp # None /\ k \in MultipliersOf(m) /\ mlp[k].width = k * MlpWidth(m)
  BY DEF LoadInv, PartsInv, Builds
<1>3. k \in Multipliers
  BY <1>2, MultipliersAre
<1> DEFINE t == Stored(m, k)  n == (k * MlpWidth(m)) \div m.tp
<1>4. GateStream(k).gate = t /\ GateStream(k).up = t /\ DownStream(k) = t
  BY <1>1, <1>2, <1>3, MlpStreams DEF Stored
<1> HIDE DEF t
<1>5. MlpTaken(k) = [p \in DOMAIN [gate |-> t, up |-> t, down |-> t] |->
                        [rank \in Ranks(m.tp) |-> Narrow([gate |-> t, up |-> t, down |-> t][p], rank * n, n)]]
  BY <1>2, <1>4 DEF MlpTaken
<1>6. MlpTaken(k) = [p \in {"gate", "up", "down"} |-> [rank \in Ranks(m.tp) |-> Narrow(t, rank * n, n)]]
  <2> DEFINE r == [gate |-> t, up |-> t, down |-> t]
  <2>1. DOMAIN r = {"gate", "up", "down"} /\ \A p \in DOMAIN r : r[p] = t
    OBVIOUS
  <2> HIDE DEF n
  <2> QED
    BY <1>5, <2>1
<1> QED
  BY <1>6 DEF MlpLoaded, t

LEMMA MlpKeeps == LoadInv /\ MlpInv /\ [Next]_vars => MlpInv'
<1> SUFFICES ASSUME LoadInv, MlpInv, [Next]_vars PROVE MlpInv'
  OBVIOUS
<1>1. CASE Configure \/ install_pad_loaders \/ initialize_model
  <2>1. stage' \in {"refused", "configured", "hooked", "built"}
    BY <1>1 DEF Configure, install_pad_loaders, initialize_model
  <2> QED
    BY <2>1 DEF MlpInv, Takes
<1>2. CASE load_weights
  <2>1. stage = "built" /\ m' = m /\ stage' \in {"loaded", "refused"}
    BY <1>2 DEF load_weights
  <2>2. CASE stage' = "loaded"
    <3> DEFINE Short == \/ TooShort("text", m.width, m.heads)
                        \/ m.tower # None /\ TooShort("tower", m.tower.width, m.heads)
                        \/ \E k \in DOMAIN mlp : MlpTooShort(k)
               taken == [k \in DOMAIN mlp |-> MlpTaken(k)]
    <3>1. ~Short
      BY <1>2, <2>2 DEF load_weights
    <3>2. mlp' = [k \in DOMAIN mlp |-> [mlp[k] EXCEPT !.weights = taken[k]]]
      BY <1>2, <3>1 DEF load_weights
    <3>3. \A k \in DOMAIN mlp : taken[k] = MlpTaken(k)
      OBVIOUS
    <3>4. \A k \in DOMAIN mlp : DOMAIN mlp[k] = {"width", "weights"}
      BY <2>1 DEF LoadInv, PartsInv, Builds
    <3> HIDE DEF taken
    <3>5. DOMAIN mlp' = DOMAIN mlp /\ \A k \in DOMAIN mlp : mlp'[k].weights = taken[k]
      BY <3>2, <3>4
    <3>6. \A k \in DOMAIN mlp' : MlpLoaded(mlp'[k].weights, m', k)
      BY <2>1, <3>3, <3>5, MlpsTaken
    <3> QED
      BY <3>6 DEF MlpInv
  <2>3. CASE stage' = "refused"
    BY <2>3 DEF MlpInv, Takes
  <2> QED
    BY <2>1, <2>2, <2>3
<1>3. CASE load_drafter \/ fix_padded_model \/ configure_pooling \/ Done \/ UNCHANGED vars
  <2>1. m' = m /\ mlp' = mlp /\ (stage' \in Takes => stage \in Takes)
    BY <1>3 DEF load_drafter, fix_padded_model, configure_pooling, Done, vars, Takes
  <2> QED
    BY <2>1 DEF MlpInv
<1> QED
  BY <1>1, <1>2, <1>3 DEF Next, LoadModel

\* The ranks' shares of a padded width: whole, and whole sticks if it had to be padded at all.
LEMMA RankShare ==
    ASSUME NEW x \in Models, x.mlp # None, MlpWidth(x) = InterOf(x), NEW k \in {1, 2}
    PROVE  LET n == (k * MlpWidth(x)) \div x.tp IN
           /\ n \in Nat \ {0} /\ x.tp * n = k * MlpWidth(x)
           /\ x.mlp.supported /\ x.mlp.experts # "intermediate" => n % Stick = 0
<1> DEFINE inter == x.mlp.inter  tp == x.tp  W == MlpWidth(x)
<1>1. inter \in Nat \ {0} /\ inter % tp = 0 /\ tp \in Nat \ {0} /\ Stick \in Nat \ {0}
  BY ModelsAssumption, StickAssumption
<1>2. W \in Nat /\ inter <= W
  BY IntersOf
<1>3. Stick * tp \in Nat \ {0}
  BY <1>1
<1>4. x.mlp.supported /\ x.mlp.experts # "intermediate" => \E q \in Nat : W = q * (Stick * tp)
  <2> SUFFICES ASSUME x.mlp.supported /\ x.mlp.experts # "intermediate" PROVE \E q \in Nat : W = q * (Stick * tp)
    OBVIOUS
  <2>1. CASE PadsInter(x)
    <3>1. W = RoundUp(inter, Stick * tp)
      BY <2>1 DEF InterOf
    <3> DEFINE u == Stick * tp
    <3>2. u \in Nat \ {0} /\ inter \in Nat
      BY <1>1, <1>3
    <3> HIDE DEF u, inter, W
    <3>3. \E q \in Nat : RoundUp(inter, u) = q * u
      BY <3>2, RoundUpCovers
    <3> QED
      BY <3>1, <3>3 DEF u
  <2>2. CASE ~PadsInter(x)
    <3>1. W = inter /\ inter % (Stick * tp) = 0
      BY <2>2 DEF InterOf, PadsInter
    <3> DEFINE u == Stick * tp
    <3>2. u \in Nat \ {0} /\ inter \in Nat /\ inter % u = 0
      BY <1>1, <1>3, <3>1
    <3> HIDE DEF u, inter, W
    <3>3. inter \div u \in Nat /\ inter = (inter \div u) * u + (inter % u)
      BY <3>2, Parts
    <3>4. inter = (inter \div u) * u
      BY <3>2, <3>3
    <3> QED
      BY <3>1, <3>3, <3>4 DEF u
  <2> QED
    BY <2>1, <2>2
<1>5. \E c \in Nat : W = c * tp
  <2>1. CASE PadsInter(x)
    <3>1. PICK q \in Nat : W = q * (Stick * tp)
      BY <1>4, <2>1 DEF PadsInter
    <3>2. q * (Stick * tp) = (q * Stick) * tp /\ q * Stick \in Nat
      BY <1>1
    <3> QED
      BY <3>1, <3>2
  <2>2. CASE ~PadsInter(x)
    <3>1. W = inter
      BY <2>2 DEF InterOf
    <3> HIDE DEF W
    <3>2. inter \div tp \in Nat /\ inter = (inter \div tp) * tp + (inter % tp)
      BY <1>1, Parts
    <3>3. inter = (inter \div tp) * tp
      BY <1>1, <3>2
    <3> QED
      BY <3>1, <3>2, <3>3
  <2> QED
    BY <2>1, <2>2
<1>6. PICK c \in Nat : W = c * tp
  BY <1>5
<1> HIDE DEF W, inter, tp
<1> DEFINE n == (k * W) \div tp
<1>7. n = k * c /\ k * W = (k * c) * tp
  <2>1. k * W = (k * c) * tp + 0 /\ k * c \in Nat /\ 0 \in 0..(tp - 1)
    BY <1>1, <1>6
  <2>2. ((k * c) * tp + 0) \div tp = k * c
    BY <1>1, <2>1, PartsOfSum
  <2> QED
    BY <1>1, <1>6, <2>1, <2>2
<1>8. c # 0
  BY <1>1, <1>2, <1>6
<1>9. n \in Nat \ {0} /\ tp * n = k * W
  <2>1. k * c \in Nat \ {0} /\ tp * (k * c) = (k * c) * tp
    BY <1>1, <1>8
  <2> QED
    BY <1>7, <2>1
<1>10. x.mlp.supported /\ x.mlp.experts # "intermediate" => n % Stick = 0
  <2> SUFFICES ASSUME x.mlp.supported /\ x.mlp.experts # "intermediate" PROVE n % Stick = 0
    OBVIOUS
  <2>1. PICK q \in Nat : W = q * (Stick * tp)
    BY <1>4
  <2>2. c * tp + 0 = (q * Stick) * tp + 0 /\ q * Stick \in Nat /\ 0 \in 0..(tp - 1)
    BY <1>1, <1>6, <2>1
  <2>3. c = q * Stick
    BY <1>1, <2>2, PartsAreUnique
  <2>4. n = (k * q) * Stick + 0 /\ k * q \in Nat /\ 0 \in 0..(Stick - 1)
    BY <1>1, <1>7, <2>3
  <2> HIDE DEF n
  <2>5. ((k * q) * Stick + 0) % Stick = 0
    BY <1>1, <2>4, PartsOfSum
  <2> QED
    BY <2>4, <2>5
<1> QED
  BY <1>9, <1>10 DEF n, W, tp

\* Shares w of n rows of c lanes, and the one place of lane i in them.
SharesOf(w, tp, n, c) == \A r \in Ranks(tp) : w[r] = Narrow(PadEnd(Lanes(c), tp * n), r * n, n)
HeldOnce(w, tp, i) == Cardinality({p \in Ranks(tp) \X DOMAIN w[0] : w[p[1]][p[2]] = i}) = 1

\* Each lane of the checkpoint is in one rank's share, once.
LEMMA LaneOnce ==
    ASSUME NEW tp \in Nat \ {0}, NEW n \in Nat \ {0}, NEW c \in Nat, c <= tp * n, NEW i \in 0..(c - 1), NEW w,
           SharesOf(w, tp, n, c)
    PROVE  HeldOnce(w, tp, i)
<1> DEFINE S == {p \in Ranks(tp) \X DOMAIN w[0] : w[p[1]][p[2]] = i}  one == <<i \div n, i % n>>
<1>1. Ranks(tp) = 0..(tp - 1) /\ 0 \in 0..(tp - 1)
  BY DEF Ranks
<1>2. DOMAIN w[0] = 0..(n - 1)
  BY <1>1 DEF Narrow, SharesOf
<1>3. ASSUME NEW r \in 0..(tp - 1), NEW l \in 0..(n - 1)
      PROVE  w[r][l] = IF r * n + l < c THEN r * n + l ELSE Zero
  <2>1. r * n + l \in 0..(tp * n - 1)
    BY SumWithin
  <2> DEFINE j == r * n + l
  <2>2. j \in 0..(tp * n - 1) /\ tp * n \in Nat /\ RowsTo(Lanes(c), c)
    BY <2>1, LanesAre
  <2>3. w[r][l] = PadEnd(Lanes(c), tp * n)[j]
    <3> DEFINE padded == PadEnd(Lanes(c), tp * n)
    <3>1. w[r] = Narrow(padded, r * n, n)
      BY <1>1 DEF SharesOf
    <3> HIDE DEF padded
    <3>2. Narrow(padded, r * n, n)[l] = padded[r * n + l]
      BY DEF Narrow
    <3>3. w[r][l] = padded[r * n + l]
      BY <3>1, <3>2
    <3> QED
      BY <3>3 DEF padded
  <2> HIDE DEF j
  <2>4. PadEnd(Lanes(c), tp * n)[j] = IF j < c THEN Lanes(c)[j] ELSE Zero
    BY <2>2, PadEndIs
  <2>5. j < c => Lanes(c)[j] = j
    <3>1. j < c => j \in 0..(c - 1)
      BY <2>2
    <3> QED
      BY <3>1, LanesAre
  <2> QED
    BY <2>3, <2>4, <2>5 DEF j
<1>4. i \in Nat /\ i < c /\ i < tp * n /\ i # Zero
  <2>1. tp * n \in Nat
    OBVIOUS
  <2> QED
    BY <2>1, ZeroAssumption
<1>5. i \div n \in 0..(tp - 1) /\ i % n \in 0..(n - 1) /\ i = (i \div n) * n + (i % n)
  BY <1>4, QuotientBelow, Parts
<1>6. one \in S
  <2>1. w[i \div n][i % n] = i
    BY <1>3, <1>4, <1>5
  <2> QED
    BY <1>1, <1>2, <1>5, <2>1
<1>7. ASSUME NEW p \in S PROVE p = one
  <2>1. p \in (0..(tp - 1)) \X (0..(n - 1)) /\ w[p[1]][p[2]] = i
    BY <1>1, <1>2
  <2>2. PICK r \in 0..(tp - 1), l \in 0..(n - 1) : p = <<r, l>>
    BY <2>1
  <2>3. w[r][l] = i
    BY <2>1, <2>2
  <2>4. r * n + l = i
    BY <1>3, <1>4, <2>3
  <2>5. r * n + l = (i \div n) * n + (i % n)
    BY <1>5, <2>4
  <2>6. r = i \div n /\ l = i % n
    BY <1>5, <2>5, PartsAreUnique
  <2> QED
    BY <2>2, <2>6
<1> HIDE DEF one
<1>8. S = {one}
  BY <1>6, <1>7
<1> QED
  BY <1>8, FS_Singleton DEF HeldOnce

LEMMA MlpHolds == Spec => [](LoadInv /\ MlpInv)
<1>1. Init => LoadInv /\ MlpInv
  <2>1. Init => MlpInv
    BY DEF Init, MlpInv, Takes
  <2> QED
    BY <2>1, LoadStarts
<1>2. LoadInv /\ MlpInv /\ [Next]_vars => (LoadInv /\ MlpInv)'
  BY LoadKeeps, MlpKeeps
<1> QED
  BY <1>1, <1>2, PTL DEF Spec

\* The gate, up and down shards of a served model hold one lane of the checkpoint at one place
\* and over the ranks each lane once, for any widths, ranks and sticks, fused or not, and a
\* rank's half of the fused tensor begins at a stick if the model is one the padding knows.
THEOREM ServedLanesMeet == Spec => []LanesMeet
<1>1. LoadInv /\ MlpInv => LanesMeet
  <2> SUFFICES ASSUME LoadInv, MlpInv, Serving, NEW k \in DOMAIN mlp
               PROVE  /\ SameLanes(mlp[k].weights.gate, mlp[k].weights.up, mlp[k].weights.down, Ranks(m.tp), k * m.mlp.inter)
                      /\ (m.mlp.supported /\ m.mlp.experts # "intermediate") => (mlp[k].width \div m.tp) % Stick = 0
    BY DEF LanesMeet
  <2>1. stage = "serving" /\ m \in Models
    BY DEF Serving, LoadInv, ConfigInv, Hooks, Builds
  <2>2. m.mlp # None /\ k \in {1, 2} /\ mlp[k].width = k * MlpWidth(m)
    BY <2>1 DEF LoadInv, PartsInv, Builds, MultipliersOf
  <2>3. PadsInter(m) => m.streams /\ m.mlp.gated /\ m.mlp.reads
    BY <2>1 DEF LoadInv, LoadedInv
  <2>4. MlpWidth(m) = InterOf(m) /\ InterStream(m) = InterOf(m)
    <3>1. ~PadsInter(m) => InterOf(m) = m.mlp.inter
      BY DEF InterOf
    <3> QED
      BY <2>3, <3>1 DEF MlpWidth, InterStream
  <2> DEFINE w == mlp[k].weights  n == (k * MlpWidth(m)) \div m.tp  c == k * m.mlp.inter  tp == m.tp
  <2>5. n \in Nat \ {0} /\ tp * n = k * MlpWidth(m)
        /\ ((m.mlp.supported /\ m.mlp.experts # "intermediate") => n % Stick = 0)
    BY <2>1, <2>2, <2>4, RankShare
  <2>6. w = [p \in {"gate", "up", "down"} |-> [rank \in Ranks(tp) |-> Narrow(PadEnd(Lanes(c), k * InterStream(m)), rank * n, n)]]
    BY <2>1 DEF MlpInv, MlpLoaded, Stored, Takes
  <2>7. tp \in Nat \ {0} /\ c \in Nat /\ c <= k * MlpWidth(m)
    <3>1. m.mlp.inter \in Nat /\ InterOf(m) \in Nat /\ m.mlp.inter <= InterOf(m) /\ m.tp \in Nat \ {0}
      BY <2>1, <2>2, IntersOf, ModelsAssumption
    <3> QED
      BY <2>2, <2>4, <3>1
  <2>8. tp * n = k * InterStream(m)
    BY <2>4, <2>5
  <2> HIDE DEF w, n, c, tp
  <2>9. w.gate = w.up /\ w.up = w.down
        /\ \A r \in Ranks(tp) : w.gate[r] = Narrow(PadEnd(Lanes(c), tp * n), r * n, n)
    BY <2>6, <2>8
  <2>10. \A i \in 0..(c - 1) : Cardinality({p \in Ranks(tp) \X DOMAIN w.gate[0] : w.gate[p[1]][p[2]] = i}) = 1
    <3> DEFINE g == w.gate
    <3>1. SharesOf(g, tp, n, c)
      BY <2>9 DEF SharesOf
    <3> HIDE DEF g
    <3>2. c <= tp * n
      BY <2>5, <2>7
    <3>3. \A i \in 0..(c - 1) : HeldOnce(g, tp, i)
      BY <2>5, <2>7, <3>1, <3>2, LaneOnce
    <3> QED
      BY <3>3 DEF g, HeldOnce
  <2>11. SameLanes(w.gate, w.up, w.down, Ranks(tp), c)
    BY <2>9, <2>10 DEF SameLanes
  <2>12. mlp[k].width \div m.tp = n
    BY <2>2 DEF n
  <2> QED
    BY <2>5, <2>11, <2>12 DEF w, c, tp
<1> QED
  BY MlpHolds, <1>1, PTL

(***************************************************************************)
(* The vocabulary over the ranks.                                          *)
(***************************************************************************)
PartsOf(parts, tp, n) == DOMAIN parts = Ranks(tp) /\ \A r \in Ranks(tp) : RowsTo(parts[r], n)
RankByRank(parts, tp, n) == [i \in 0..(tp * n - 1) |-> parts[i \div n][i % n]]

LEMMA RanksOf == ASSUME NEW tp \in Nat \ {0} PROVE 0 \in Ranks(tp) /\ Cardinality(Ranks(tp)) = tp
<1>1. Rows([r \in 0..(tp - 1) |-> r]) = tp
  BY RowsUpTo
<1>2. DOMAIN [r \in 0..(tp - 1) |-> r] = Ranks(tp)
  BY DEF Ranks
<1>3. Cardinality(Ranks(tp)) = tp
  BY <1>1, <1>2 DEF Rows
<1> QED
  BY <1>3 DEF Ranks

LEMMA WholeSticks ==
    ASSUME NEW n \in Nat PROVE /\ RoundUp(n, Stick) \in Nat /\ n <= RoundUp(n, Stick)
                               /\ (RoundUp(n, Stick) \div Stick) * Stick = RoundUp(n, Stick)
<1>1. Stick \in Nat \ {0}
  BY StickAssumption
<1>2. RoundUp(n, Stick) \in Nat /\ n <= RoundUp(n, Stick) /\ RoundUp(n, Stick) % Stick = 0
  BY <1>1, RoundUpIs
<1> DEFINE pad == RoundUp(n, Stick)
<1> HIDE DEF pad
<1>3. pad \in Nat /\ pad % Stick = 0
  BY <1>2 DEF pad
<1>4. pad \div Stick \in Nat /\ pad = (pad \div Stick) * Stick + (pad % Stick)
  BY <1>1, <1>3, Parts
<1>5. (pad \div Stick) * Stick = pad
  BY <1>1, <1>3, <1>4
<1> QED
  BY <1>2, <1>5 DEF pad

\* The eager gather puts the parts one after another: what is padded for the transfer is whole
\* chunks, and is stripped again.
LEMMA EagerGather ==
    ASSUME NEW tp \in Nat \ {0}, NEW n \in Nat \ {0}, NEW parts, PartsOf(parts, tp, n)
    PROVE  all_gather(parts) = RankByRank(parts, tp, n)
<1> DEFINE pad == RoundUp(n, Stick)  padded == [r \in DOMAIN parts |-> PadEnd(parts[r], pad)]
<1>1. pad \in Nat \ {0} /\ n <= pad /\ (pad \div Stick) * Stick = pad
  <2>1. pad \in Nat /\ n <= pad /\ (pad \div Stick) * Stick = pad
    BY WholeSticks
  <2> HIDE DEF pad
  <2> QED
    BY <2>1
<1> HIDE DEF pad
<1>2. DOMAIN parts = Ranks(tp) /\ (\A r \in Ranks(tp) : RowsTo(parts[r], n)) /\ 0 \in Ranks(tp)
      /\ Cardinality(DOMAIN parts) = tp
  BY RanksOf DEF PartsOf
<1>3. Rows(parts[0]) = n
  BY <1>2, RowsToRows
<1>4. DOMAIN padded = Ranks(tp) /\ \A r \in Ranks(tp) :
          Rows(padded[r]) = pad /\ \A i \in 0..(n - 1) : padded[r][i] = parts[r][i]
  <2> SUFFICES ASSUME NEW r \in Ranks(tp)
               PROVE  Rows(padded[r]) = pad /\ \A i \in 0..(n - 1) : padded[r][i] = parts[r][i]
    BY <1>2
  <2>1. RowsTo(parts[r], n) /\ padded[r] = PadEnd(parts[r], pad)
    BY <1>2
  <2>2. Rows(PadEnd(parts[r], pad)) = pad
        /\ \A i \in 0..(pad - 1) : PadEnd(parts[r], pad)[i] = IF i < n THEN parts[r][i] ELSE Zero
    <3> DEFINE v == parts[r]
    <3>1. RowsTo(v, n)
      BY <2>1
    <3> HIDE DEF v
    <3>2. Rows(PadEnd(v, pad)) = pad
          /\ \A i \in 0..(pad - 1) : PadEnd(v, pad)[i] = IF i < n THEN v[i] ELSE Zero
      BY <1>1, <3>1, PadEndIs
    <3> QED
      BY <3>2 DEF v
  <2> HIDE DEF padded
  <2> QED
    BY <1>1, <2>1, <2>2
<1> DEFINE gathered == DeviceGather(padded)
<1>5. all_gather(parts) = [i \in 0..(tp * n - 1) |-> gathered[(i \div n) * pad + (i % n)]]
  BY <1>2, <1>3 DEF all_gather, pad
<1> HIDE DEF padded
<1>6. gathered = [i \in 0..(tp * pad - 1) |-> padded[i \div pad][i % pad]]
  <2>1. Rows(padded[0]) = pad /\ Cardinality(DOMAIN padded) = tp
    BY <1>2, <1>4
  <2> QED
    BY <1>1, <2>1 DEF DeviceGather
<1> HIDE DEF gathered
<1>7. ASSUME NEW i \in 0..(tp * n - 1) PROVE gathered[(i \div n) * pad + (i % n)] = parts[i \div n][i % n]
  <2>1. i \in Nat /\ i < tp * n
    <3>1. tp * n \in Nat
      OBVIOUS
    <3> QED
      BY <3>1
  <2> DEFINE a == i \div n  l == i % n
  <2>2. a \in 0..(tp - 1) /\ l \in 0..(n - 1)
    BY <2>1, QuotientBelow, Parts
  <2> HIDE DEF a, l
  <2>3. l \in 0..(pad - 1) /\ a \in Nat
    BY <1>1, <2>2
  <2>4. a * pad + l \in 0..(tp * pad - 1)
    BY <1>1, <2>2, <2>3, SumWithin
  <2>5. (a * pad + l) \div pad = a /\ (a * pad + l) % pad = l
    BY <1>1, <2>3, PartsOfSum
  <2>6. gathered[a * pad + l] = padded[a][l]
    BY <1>6, <2>4, <2>5
  <2>7. a \in Ranks(tp)
    BY <2>2 DEF Ranks
  <2> QED
    BY <1>4, <2>2, <2>6, <2>7 DEF a, l
<1> QED
  BY <1>5, <1>7 DEF RankByRank

\* The compiled one folds the ranks' axis out to the columns of each token's row.
LEMMA CompiledGather ==
    ASSUME NEW tp \in Nat \ {0}, NEW n \in Nat \ {0}, NEW parts, PartsOf(parts, tp, n),
           NEW tokens \in Nat \ {0}, NEW t \in 0..(tokens - 1), NEW i \in 0..(tp * n - 1)
    PROVE  _all_gather_compiled(parts, tokens)[<<t, i>>] = <<t, parts[i \div n][i % n]>>
<1>1. Cardinality(DOMAIN parts) = tp /\ Rows(parts[0]) = n
  <2>1. DOMAIN parts = Ranks(tp) /\ RowsTo(parts[0], n)
    BY RanksOf DEF PartsOf
  <2> QED
    BY <2>1, RanksOf, RowsToRows
<1> DEFINE a == i \div n  l == i % n  b == t * n + l  k == a * (tokens * n) + b
<1>2. a \in 0..(tp - 1) /\ l \in 0..(n - 1)
  <2>1. tp * n \in Nat
    OBVIOUS
  <2>2. i \in Nat /\ i < tp * n
    BY <2>1
  <2> QED
    BY <2>2, QuotientBelow, Parts
<1>3. tokens * n \in Nat \ {0}
  OBVIOUS
<1> HIDE DEF a, l
<1>4. b \in 0..(tokens * n - 1)
  BY <1>2, SumWithin
<1>5. b \div n = t /\ b % n = l
  BY <1>2, PartsOfSum
<1> HIDE DEF b
<1>6. k \in 0..(tp * (tokens * n) - 1)
  BY <1>2, <1>3, <1>4, SumWithin
<1>7. k \div (tokens * n) = a /\ k % (tokens * n) = b
  BY <1>2, <1>3, <1>4, PartsOfSum
<1>8. k % n = l
  <2>1. k = (a * tokens + t) * n + l /\ a * tokens + t \in Nat
    BY <1>2 DEF b
  <2> HIDE DEF k
  <2>2. ((a * tokens + t) * n + l) % n = l
    BY <1>2, <2>1, PartsOfSum
  <2> QED
    BY <2>1, <2>2
<1>9. a * tokens * n + t * n + l = k
  <2>1. a * tokens * n = a * (tokens * n) /\ a * (tokens * n) \in Nat /\ t * n \in Nat
    BY <1>2, <1>3
  <2> QED
    BY <1>2, <2>1 DEF b
<1> HIDE DEF k
<1>10. tp * tokens * n = tp * (tokens * n)
  OBVIOUS
<1>11. Flat(parts, tokens)[k] = <<t, parts[a][l]>>
  <2>1. Flat(parts, tokens) = [j \in 0..(tp * tokens * n - 1) |->
                                   <<(j % (tokens * n)) \div n, parts[j \div (tokens * n)][j % n]>>]
    BY <1>1 DEF Flat
  <2> QED
    BY <1>5, <1>6, <1>7, <1>8, <1>10, <2>1
<1>12. _all_gather_compiled(parts, tokens)[<<t, i>>] = Flat(parts, tokens)[a * tokens * n + t * n + l]
  BY <1>1 DEF _all_gather_compiled, a, l
<1> QED
  BY <1>9, <1>11, <1>12 DEF a, l

\* What a rank holds of a tensor that divides evenly.
LEMMA ShardIs ==
    ASSUME NEW tp \in Nat \ {0}, NEW n \in Nat \ {0}, NEW w, RowsTo(w, tp * n), NEW r \in Ranks(tp)
    PROVE  RowsTo(Shard(w, r, tp), n) /\ \A i \in 0..(n - 1) : Shard(w, r, tp)[i] = w[r * n + i]
<1>1. tp * n \in Nat /\ n * tp + 0 = tp * n /\ 0 \in 0..(tp - 1)
  OBVIOUS
<1>2. Rows(w) = tp * n
  BY <1>1, RowsToRows
<1>3. (n * tp + 0) \div tp = n
  BY <1>1, PartsOfSum
<1>4. Rows(w) \div tp = n
  BY <1>1, <1>2, <1>3
<1>5. Shard(w, r, tp) = [i \in 0..(n - 1) |-> w[r * n + i]]
  BY <1>4 DEF Shard, Narrow
<1> QED
  BY <1>5 DEF RowsTo

\* A product padded for the device comes back as it was.
LEMMA ProjectedIs ==
    ASSUME NEW n \in Nat \ {0}, NEW w, RowsTo(w, n) PROVE ProjectedHead(w) = w
<1> DEFINE R == RoundUp(n, RowAlign)
<1>1. R \in Nat /\ n <= R
  BY RowAlignAssumption, RoundUpCovers
<1> HIDE DEF R
<1>2. Rows(w) = n
  BY RowsToRows
<1> DEFINE padded == PadEnd(w, R)
<1>3. Rows(padded) = R /\ (\A i \in 0..(R - 1) : padded[i] = IF i < n THEN w[i] ELSE Zero) /\ PadEnd(w, n) = w
  BY <1>1, PadEndIs
<1> HIDE DEF padded
<1>4. ProjectedHead(w) = IF R - n > 0 THEN Narrow(padded, 0, R - (R - n)) ELSE padded
  BY <1>2, <1>3 DEF ProjectedHead, padded, R
<1>5. CASE R - n > 0
  <2>1. R - (R - n) = n
    BY <1>1
  <2>2. ProjectedHead(w) = [i \in 0..(n - 1) |-> padded[0 + i]]
    BY <1>4, <1>5, <2>1 DEF Narrow
  <2>3. \A i \in 0..(n - 1) : padded[0 + i] = w[i]
    BY <1>1, <1>3
  <2> QED
    BY <2>2, <2>3 DEF RowsTo
<1>6. CASE ~(R - n > 0)
  <2>1. R = n
    BY <1>1, <1>6
  <2> QED
    BY <1>3, <1>4, <1>6, <2>1 DEF padded
<1> QED
  BY <1>5, <1>6

LEMMA BlocksComeBack ==
    ASSUME NEW n \in Nat, NEW pads \in BOOLEAN PROVE spyre_linear_t(n, pads) = Lanes(n)
<1>1. RowsTo(Lanes(n), n) /\ Rows(Lanes(n)) = n
  BY LanesAre
<1>2. CASE pads /\ n \in 1..(PadRows - 1)
  <2> DEFINE x == PadEnd(Lanes(n), PadRows)
  <2>1. PadRows \in Nat /\ n < PadRows
    BY <1>2, RowAlignAssumption
  <2> DEFINE v == Lanes(n)
  <2> HIDE DEF v
  <2>2. RowsTo(v, n)
    BY <1>1 DEF v
  <2>3. Rows(PadEnd(v, PadRows)) = PadRows
        /\ \A i \in 0..(PadRows - 1) : PadEnd(v, PadRows)[i] = IF i < n THEN v[i] ELSE Zero
    BY <2>1, <2>2, PadEndIs
  <2>4. Rows(x) = PadRows /\ \A i \in 0..(PadRows - 1) : x[i] = IF i < n THEN v[i] ELSE Zero
    BY <2>3 DEF v
  <2> HIDE DEF x
  <2>5. spyre_linear_t(n, pads) = Narrow(x, 0, n)
    <3>1. spyre_linear_t(n, pads) = IF Rows(x) # n THEN Narrow(x, 0, n) ELSE x
      BY <1>2 DEF spyre_linear_t, x
    <3> QED
      BY <2>1, <2>4, <3>1
  <2>6. Narrow(x, 0, n) = [i \in 0..(n - 1) |-> x[0 + i]]
    BY DEF Narrow
  <2>7. \A i \in 0..(n - 1) : x[0 + i] = v[i]
    BY <2>1, <2>4
  <2>8. Narrow(x, 0, n) = v
    BY <2>2, <2>6, <2>7 DEF RowsTo
  <2> QED
    BY <2>5, <2>8 DEF v
<1>3. CASE ~(pads /\ n \in 1..(PadRows - 1))
  BY <1>1, <1>3 DEF spyre_linear_t
<1> QED
  BY <1>2, <1>3

\* Shards of a plain tensor, gathered, are the tensor.
LEMMA LanesGathered ==
    ASSUME NEW tp \in Nat \ {0}, NEW n \in Nat \ {0}
    PROVE  all_gather([r \in Ranks(tp) |-> Shard(Lanes(n * tp), r, tp)]) = Lanes(n * tp)
<1> DEFINE t == Lanes(n * tp)  parts == [r \in Ranks(tp) |-> Shard(t, r, tp)]
<1>1. n * tp = tp * n /\ tp * n \in Nat
  OBVIOUS
<1>2. RowsTo(t, tp * n) /\ \A i \in 0..(tp * n - 1) : t[i] = i
  BY <1>1, LanesAre
<1> HIDE DEF t
<1>3. \A r \in Ranks(tp) : RowsTo(parts[r], n) /\ \A i \in 0..(n - 1) : parts[r][i] = t[r * n + i]
  BY <1>2, ShardIs
<1>4. PartsOf(parts, tp, n)
  BY <1>3 DEF PartsOf
<1> HIDE DEF parts
<1>5. all_gather(parts) = RankByRank(parts, tp, n)
  BY <1>4, EagerGather
<1>6. ASSUME NEW i \in 0..(tp * n - 1) PROVE parts[i \div n][i % n] = t[i]
  <2>1. i \in Nat /\ i < tp * n
    BY <1>1
  <2>2. i \div n \in 0..(tp - 1)
    BY <2>1, QuotientBelow
  <2>3. i % n \in 0..(n - 1) /\ i = (i \div n) * n + (i % n)
    BY <2>1, Parts
  <2>4. i \div n \in Ranks(tp)
    BY <2>2 DEF Ranks
  <2> QED
    BY <1>3, <2>3, <2>4
<1>7. RankByRank(parts, tp, n) = [i \in 0..(tp * n - 1) |-> t[i]]
  BY <1>6 DEF RankByRank
<1>8. RankByRank(parts, tp, n) = t
  BY <1>2, <1>7 DEF RowsTo
<1> QED
  BY <1>5, <1>8 DEF parts, t

\* A rank's part of a table: whole sticks of rows, the table's own.
TableRows(v, tp) == RoundUp(v, PaddingSize(tp)) \div tp

LEMMA TableIs ==
    ASSUME NEW v \in Nat \ {0}, NEW tp \in Nat \ {0}
    PROVE  LET n == TableRows(v, tp) IN
           /\ n \in Nat \ {0} /\ n % Stick = 0 /\ v <= tp * n
           /\ RowsTo(Table(v, tp), tp * n) /\ Rows(Table(v, tp)) \div tp = n
           /\ \A w \in 0..(v - 1) : Table(v, tp)[w] = w
<1> DEFINE u == Stick * tp  T == RoundUp(v, u)  n == TableRows(v, tp)
<1>1. Stick \in Nat \ {0} /\ u \in Nat \ {0}
  BY StickAssumption
<1> HIDE DEF u
<1>2. T \in Nat /\ v <= T /\ \E q \in Nat : T = q * u
  BY <1>1, RoundUpCovers
<1>3. PICK q \in Nat : T = q * u
  BY <1>2
<1> HIDE DEF T
<1>4. T = (q * Stick) * tp + 0 /\ q * Stick \in Nat /\ 0 \in 0..(tp - 1)
  BY <1>1, <1>3 DEF u
<1>5. ((q * Stick) * tp + 0) \div tp = q * Stick
  BY <1>4, PartsOfSum
<1>6. n = q * Stick
  BY <1>4, <1>5 DEF TableRows, PaddingSize, T, u
<1> HIDE DEF n
<1>7. T = tp * n /\ n \in Nat \ {0}
  <2>1. tp * n = (q * Stick) * tp /\ n \in Nat
    BY <1>4, <1>6
  <2>2. T = tp * n
    BY <1>4, <2>1
  <2>3. n # 0
    BY <1>2, <2>2
  <2> QED
    BY <2>1, <2>2, <2>3
<1>8. n % Stick = 0
  <2>1. q * Stick + 0 = n /\ 0 \in 0..(Stick - 1)
    BY <1>1, <1>6
  <2>2. (q * Stick + 0) % Stick = 0
    BY <1>1, <2>1, PartsOfSum
  <2> QED
    BY <2>1, <2>2
<1>9. RowsTo(Lanes(v), v) /\ \A i \in 0..(v - 1) : Lanes(v)[i] = i
  BY LanesAre
<1> DEFINE lanes == Lanes(v)
<1> HIDE DEF lanes
<1>10. RowsTo(PadEnd(lanes, T), T) /\ \A i \in 0..(T - 1) : PadEnd(lanes, T)[i] = IF i < v THEN lanes[i] ELSE Zero
  BY <1>2, <1>9, PadEndIs DEF lanes
<1>11. Table(v, tp) = PadEnd(lanes, T)
  BY DEF Table, PaddingSize, T, u, lanes
<1>12. RowsTo(Table(v, tp), T)
  BY <1>10, <1>11
<1>13. \A w \in 0..(v - 1) : Table(v, tp)[w] = w
  <2> TAKE w \in 0..(v - 1)
  <2>1. w \in 0..(T - 1) /\ w < v
    BY <1>2
  <2> QED
    BY <1>9, <1>10, <1>11, <2>1 DEF lanes
<1>14. Rows(Table(v, tp)) = T
  BY <1>2, <1>12, RowsToRows
<1>15. T \div tp = n
  BY DEF n, TableRows, T, PaddingSize, u
<1> QED
  BY <1>2, <1>7, <1>8, <1>12, <1>13, <1>14, <1>15 DEF n

\* The shards a rank projects with, and where the words are in them.
Words(v, tp) == [r \in Ranks(tp) |-> ProjectedHead(Shard(Table(v, tp), r, tp))]

LEMMA WordsAre ==
    ASSUME NEW v \in Nat \ {0}, NEW tp \in Nat \ {0}
    PROVE  LET n == TableRows(v, tp) IN
           /\ PartsOf(Words(v, tp), tp, n) /\ Rows(Words(v, tp)[0]) = n
           /\ \A w \in 0..(v - 1) : /\ w \div n \in Ranks(tp) /\ w % n \in 0..(n - 1) /\ w \in 0..(tp * n - 1)
                                    /\ Shard(Table(v, tp), w \div n, tp)[w % n] = w
                                    /\ Words(v, tp)[w \div n][w % n] = w
<1> DEFINE n == TableRows(v, tp)  t == Table(v, tp)  words == Words(v, tp)
<1>1. /\ n \in Nat \ {0} /\ v <= tp * n /\ RowsTo(t, tp * n) /\ \A w \in 0..(v - 1) : t[w] = w
  BY TableIs
<1> HIDE DEF n, t
<1>2. \A r \in Ranks(tp) : RowsTo(Shard(t, r, tp), n) /\ \A i \in 0..(n - 1) : Shard(t, r, tp)[i] = t[r * n + i]
  BY <1>1, ShardIs
<1>3. \A r \in Ranks(tp) : ProjectedHead(Shard(t, r, tp)) = Shard(t, r, tp)
  BY <1>1, <1>2, ProjectedIs
<1>4. words = [r \in Ranks(tp) |-> Shard(t, r, tp)]
  BY <1>3 DEF Words, t
<1> HIDE DEF words
<1>5. PartsOf(words, tp, n)
  BY <1>2, <1>4 DEF PartsOf
<1>6. Rows(words[0]) = n
  <2>1. RowsTo(words[0], n)
    BY <1>5, RanksOf DEF PartsOf
  <2> QED
    BY <1>1, <2>1, RowsToRows
<1>7. ASSUME NEW w \in 0..(v - 1)
      PROVE  /\ w \div n \in Ranks(tp) /\ w % n \in 0..(n - 1) /\ w \in 0..(tp * n - 1)
             /\ Shard(t, w \div n, tp)[w % n] = w /\ words[w \div n][w % n] = w
  <2>1. tp * n \in Nat
    BY <1>1
  <2>2. w \in Nat /\ w < tp * n /\ w \in 0..(tp * n - 1)
    BY <1>1, <2>1
  <2>3. w \div n \in 0..(tp - 1)
    BY <1>1, <2>2, QuotientBelow
  <2>4. w % n \in 0..(n - 1) /\ w = (w \div n) * n + (w % n)
    BY <1>1, <2>2, Parts
  <2>5. w \div n \in Ranks(tp)
    BY <2>3 DEF Ranks
  <2>6. Shard(t, w \div n, tp)[w % n] = w
    BY <1>1, <1>2, <2>4, <2>5
  <2> QED
    BY <1>4, <2>2, <2>4, <2>5, <2>6
<1> QED
  BY <1>5, <1>6, <1>7 DEF n, t, words

\* A word's row is kept by one rank, and is its own.
LEMMA EmbeddedOnce ==
    ASSUME NEW v \in Nat \ {0}, NEW tp \in Nat \ {0}, NEW w \in 0..(v - 1)
    PROVE  \E r \in Ranks(tp) : Embedded(w, v, tp) = {<<r, w>>}
<1> DEFINE n == TableRows(v, tp)  own == w \div n
           RowAt(r) == Shard(Table(v, tp), r, tp)[reindex_table(v, r, tp)[w]]
<1>1. Rows(Table(v, tp)) \div tp = n
  BY TableIs
<1>2. own \in Ranks(tp) /\ Shard(Table(v, tp), own, tp)[w % n] = w
  BY WordsAre
<1> HIDE DEF n, own
<1>3. \A r \in Ranks(tp) : w \in OwnWords(v, r, tp) <=> own = r
  BY <1>1 DEF OwnWords, own
<1>4. \A r \in Ranks(tp) : keep_table(v, r, tp)[w] <=> own = r
  BY <1>3 DEF keep_table
<1>5. reindex_table(v, own, tp)[w] = w % n
  BY <1>1, <1>2, <1>3 DEF reindex_table
<1>6. RowAt(own) = w
  BY <1>2, <1>5
<1>7. Embedded(w, v, tp) = {<<r, RowAt(r)>> : r \in {s \in Ranks(tp) : keep_table(v, s, tp)[w]}}
  BY DEF Embedded
<1> HIDE DEF RowAt
<1>8. {s \in Ranks(tp) : keep_table(v, s, tp)[w]} = {own}
  BY <1>2, <1>4
<1>9. Embedded(w, v, tp) = {<<own, w>>}
  BY <1>6, <1>7, <1>8
<1> QED
  BY <1>2, <1>9

\* For any vocabulary, ranks, sticks and alignments: over the ranks a word's embedding is its own
\* row, once, and its logit at its own place of every token's row, gathered eagerly or compiled,
\* whatever rows the padding of tables and of short batches adds.
THEOREM ServedVocabulary == Spec => []VocabularyServed
<1>1. LoadInv => VocabularyServed
  <2> SUFFICES ASSUME LoadInv, Serving, m.vocab # None PROVE VocabularyServed
    BY DEF VocabularyServed
  <2> DEFINE v == m.vocab  tp == m.tp  n == TableRows(v, tp)  words == Words(v, tp)
             whole == all_gather(words)  compiled == _all_gather_compiled(words, 2)
  <2>1. v \in Nat \ {0} /\ tp \in Nat \ {0}
    <3>1. m \in Models
      BY DEF Serving, LoadInv, ConfigInv, Hooks, Builds
    <3> QED
      BY <3>1, ModelsAssumption
  <2> HIDE DEF v, tp
  <2>2. \A k \in 1..v : all_gather([r \in Ranks(tp) |-> Shard(Lanes(k * tp), r, tp)]) = Lanes(k * tp)
    BY <2>1, LanesGathered
  <2>3. n \in Nat \ {0} /\ n % Stick = 0
    BY <2>1, TableIs
  <2>4. PartsOf(words, tp, n) /\ Rows(words[0]) = n
    BY <2>1, WordsAre
  <2>5. \A w \in 0..(v - 1) : w \in 0..(tp * n - 1) /\ words[w \div n][w % n] = w
    BY <2>1, WordsAre
  <2> HIDE DEF n, words
  <2>6. whole = RankByRank(words, tp, n)
    BY <2>1, <2>3, <2>4, EagerGather
  <2>7. \A w \in 0..(v - 1) : whole[w] = w
    BY <2>5, <2>6 DEF RankByRank
  <2>8. \A w \in 0..(v - 1), t \in 0..1 : compiled[<<t, w>>] = <<t, w>>
    <3> TAKE w \in 0..(v - 1), t \in 0..1
    <3>1. t \in 0..(2 - 1) /\ 2 \in Nat \ {0}
      OBVIOUS
    <3>2. n \in Nat \ {0} /\ tp \in Nat \ {0} /\ w \in 0..(tp * n - 1) /\ PartsOf(words, tp, n)
      BY <2>1, <2>3, <2>4, <2>5
    <3> HIDE DEF compiled
    <3>3. _all_gather_compiled(words, 2)[<<t, w>>] = <<t, words[w \div n][w % n]>>
      BY <3>1, <3>2, CompiledGather
    <3>4. compiled[<<t, w>>] = <<t, words[w \div n][w % n]>>
      BY <3>3 DEF compiled
    <3> QED
      BY <2>5, <3>4
  <2>9. \A w \in 0..(v - 1), pads \in BOOLEAN : spyre_linear_t(w, pads) = Lanes(w)
    BY <2>1, BlocksComeBack
  <2>10. \A w \in 0..(v - 1) : \E r \in Ranks(tp) : Embedded(w, v, tp) = {<<r, w>>}
    BY <2>1, EmbeddedOnce
  <2> HIDE DEF whole, compiled
  <2>11. Rows(words[0]) % Stick = 0
    BY <2>3, <2>4
  <2>12. words = [r \in Ranks(tp) |-> ProjectedHead(Shard(Table(v, tp), r, tp))]
    BY DEF words, Words
  <2> DEFINE Right(t, a, b) ==
                 /\ Rows(t[0]) % Stick = 0
                 /\ \A i \in 0..(v - 1) :
                       /\ \E r \in Ranks(tp) : Embedded(i, v, tp) = {<<r, i>>}
                       /\ a[i] = i
                       /\ \A j \in 0..1 : b[<<j, i>>] = <<j, i>>
                       /\ \A pads \in BOOLEAN : spyre_linear_t(i, pads) = Lanes(i)
  <2>13. Right(words, whole, compiled)
    BY <2>7, <2>8, <2>9, <2>10, <2>11
  <2>14. VocabularyServed <=> /\ \A k \in 1..v : all_gather([r \in Ranks(tp) |-> Shard(Lanes(k * tp), r, tp)]) = Lanes(k * tp)
                              /\ Right(words, whole, compiled)
    BY <2>12 DEF VocabularyServed, whole, compiled, v, tp
  <2> HIDE DEF Right
  <2> QED
    BY <2>2, <2>13, <2>14
<1> QED
  BY LoadHolds, <1>1, PTL

(***************************************************************************)
(* The experts: how many chunks, and where their entries are.              *)
(***************************************************************************)
Splits(k, c) == {s \in 1..Cores : (k * c) % s = 0}
Busiest(k, c) == GreatestOf(Splits(k, c))

LEMMA DivisorIsBelow ==
    ASSUME NEW x \in Nat \ {0}, NEW s \in Nat \ {0}, x % s = 0
    PROVE  s <= x /\ x \div s \in Nat \ {0} /\ x = (x \div s) * s
<1> DEFINE q == x \div s
<1>1. q \in Nat /\ x = q * s + (x % s)
  BY Parts
<1> HIDE DEF q
<1>2. x = q * s /\ q # 0
  BY <1>1
<1>3. (q - 1) * s \in Nat /\ q * s = (q - 1) * s + s
  BY <1>1, <1>2
<1> QED
  BY <1>1, <1>2, <1>3 DEF q

\* The cores a number of gathered entries is split over.
LEMMA BusiestIs ==
    ASSUME NEW k \in Nat \ {0}, NEW c \in Nat \ {0}
    PROVE  /\ Busiest(k, c) \in 1..Cores
           /\ Busiest(k, c) = GreatestOf({s \in 1..(IF k * c < Cores THEN k * c ELSE Cores) : (k * c) % s = 0})
<1> DEFINE S == Splits(k, c)  x == k * c
<1>1. Cores \in Nat \ {0} /\ x \in Nat \ {0}
  BY MoeAssumption
<1> HIDE DEF x
<1>2. 1 \in S
  <2>1. x = x * 1 + 0 /\ 0 \in 0..(1 - 1)
    BY <1>1
  <2>2. (x * 1 + 0) % 1 = 0
    BY <1>1, <2>1, PartsOfSum
  <2>3. x % 1 = 0
    BY <1>1, <2>1, <2>2
  <2> QED
    BY <1>1, <2>3 DEF Splits, x
<1>3. S \in SUBSET (1..Cores)
  BY DEF Splits
<1>4. S \in SUBSET Nat
  BY <1>1, <1>3
<1>5. IsFiniteSet(S)
  <2>1. IsFiniteSet(1..Cores)
    BY <1>1, FS_Interval
  <2> QED
    BY <1>3, <2>1, FS_Subset
<1> HIDE DEF S
<1>6. GreatestOf(S) \in S
  BY <1>2, <1>4, <1>5, GreatestIsIn
<1>7. {s \in 1..(IF x < Cores THEN x ELSE Cores) : x % s = 0} = S
  <2>1. \A s \in 1..Cores : x % s = 0 => s <= x
    BY <1>1, DivisorIsBelow
  <2>2. S = {s \in 1..Cores : x % s = 0}
    BY DEF S, Splits, x
  <2> QED
    BY <1>1, <2>1, <2>2
<1> QED
  BY <1>3, <1>6, <1>7 DEF Busiest, S, x

\* The fewest chunks among those of whole sticks that keep most cores busy.
LEMMA ChunksAre ==
    ASSUME NEW hidden \in Nat \ {0}, hidden % Stick = 0, NEW topk \in Nat \ {0}
    PROVE  LET sticks == hidden \div Stick  chunks == _derive_moe_chunks(hidden, topk) IN
           /\ sticks \in Nat \ {0} /\ hidden = sticks * Stick
           /\ chunks \in 1..sticks /\ sticks % chunks = 0
           /\ \A c \in 1..sticks : hidden % (c * Stick) = 0 =>
                  \/ Busiest(topk, c) < Busiest(topk, chunks)
                  \/ Busiest(topk, c) = Busiest(topk, chunks) /\ chunks <= c
<1> DEFINE sticks == hidden \div Stick  legal == {c \in 1..sticks : sticks % c = 0}
           B(c) == Busiest(topk, c)
           best == {c \in legal : \A d \in legal : B(d) <= B(c)}
<1>1. Stick \in Nat \ {0}
  BY StickAssumption
<1>2. sticks \in Nat \ {0} /\ hidden = sticks * Stick
  BY <1>1, DivisorIsBelow
<1> HIDE DEF sticks
<1>3. \A c \in 1..sticks : B(c) \in 1..Cores
  <2> SUFFICES ASSUME NEW c \in 1..sticks PROVE B(c) \in 1..Cores
    OBVIOUS
  <2>1. c \in Nat \ {0}
    BY <1>2
  <2> QED
    BY <2>1, BusiestIs
<1>4. _derive_moe_chunks(hidden, topk) = LeastOf(best)
  <2> DEFINE U(c) == GreatestOf({s \in 1..(IF topk * c < Cores THEN topk * c ELSE Cores) : (topk * c) % s = 0})
  <2>1. _derive_moe_chunks(hidden, topk) = LeastOf({c \in legal : \A d \in legal : U(d) <= U(c)})
    BY DEF _derive_moe_chunks, sticks
  <2>2. \A c \in legal : U(c) = B(c)
    BY <1>2, BusiestIs
  <2> HIDE DEF U, B, legal
  <2>3. {c \in legal : \A d \in legal : U(d) <= U(c)} = best
    BY <2>2
  <2> QED
    BY <2>1, <2>3
<1> HIDE DEF B
<1>5. 1 \in legal
  <2>1. sticks * 1 + 0 = sticks /\ 0 \in 0..(1 - 1)
    BY <1>2
  <2>2. (sticks * 1 + 0) % 1 = 0
    BY <1>2, <2>1, PartsOfSum
  <2> QED
    BY <1>2, <2>1, <2>2
<1>6. best # {}
  <2> DEFINE T == {B(c) : c \in legal}
  <2>1. T \in SUBSET (1..Cores) /\ T # {}
    BY <1>3, <1>5
  <2>2. Cores \in Nat
    BY MoeAssumption
  <2>3. IsFiniteSet(1..Cores)
    BY <2>2, FS_Interval
  <2>4. T \in SUBSET Nat /\ IsFiniteSet(T)
    BY <2>1, <2>2, <2>3, FS_Subset
  <2>5. GreatestOf(T) \in T /\ \A x \in T : x <= GreatestOf(T)
    <3> HIDE DEF T
    <3> QED
      BY <2>1, <2>4, GreatestIsIn
  <2>6. PICK c \in legal : GreatestOf(T) = B(c)
    BY <2>5
  <2>7. \A d \in legal : B(d) <= B(c)
    BY <2>5, <2>6
  <2> QED
    BY <2>6, <2>7
<1>7. best \in SUBSET Nat
  BY <1>2
<1> HIDE DEF best
<1>8. LeastOf(best) \in best /\ \A c \in best : LeastOf(best) <= c
  BY <1>6, <1>7, LeastIsIn
<1> DEFINE chunks == LeastOf(best)
<1> HIDE DEF chunks
<1>9. chunks \in legal /\ (\A d \in legal : B(d) <= B(chunks)) /\ \A c \in best : chunks <= c
  BY <1>8 DEF best, chunks
<1>10. ASSUME NEW c \in 1..sticks, hidden % (c * Stick) = 0
       PROVE  B(c) < B(chunks) \/ (B(c) = B(chunks) /\ chunks <= c)
  <2>1. c \in Nat \ {0} /\ c * Stick \in Nat \ {0}
    BY <1>1, <1>2
  <2> DEFINE u == c * Stick  q == hidden \div u
  <2>2. q \in Nat \ {0} /\ hidden = q * u
    BY <1>10, <2>1, DivisorIsBelow
  <2> HIDE DEF q
  <2>3. q * u = (q * c) * Stick
    BY <1>1, <2>1, <2>2
  <2>4. sticks * Stick + 0 = (q * c) * Stick + 0 /\ q * c \in Nat /\ 0 \in 0..(Stick - 1)
    BY <1>1, <1>2, <2>1, <2>2, <2>3
  <2>5. sticks = q * c
    BY <1>1, <1>2, <2>4, PartsAreUnique
  <2>6. (q * c + 0) % c = 0 /\ q * c + 0 = q * c
    BY <2>1, <2>2, PartsOfSum
  <2>7. c \in legal
    BY <2>5, <2>6
  <2> DEFINE b == B(c)  g == B(chunks)
  <2>8. b \in 1..Cores /\ g \in 1..Cores /\ b <= g
    BY <1>3, <1>9, <2>7
  <2>9. b = g => chunks <= c
    <3> SUFFICES ASSUME b = g PROVE chunks <= c
      OBVIOUS
    <3>1. c \in best
      BY <1>9, <2>7 DEF best
    <3> QED
      BY <1>9, <3>1
  <2> HIDE DEF b, g
  <2>10. b < g \/ b = g
    BY <2>8
  <2> QED
    BY <2>9, <2>10 DEF b, g
<1> QED
  BY <1>2, <1>4, <1>9, <1>10 DEF sticks, B, chunks

Digits(a, H, W, e, y, j) == a \div (H * W) = e /\ (a \div W) \div H = e /\ (a \div W) % H = y /\ a % W = j

\* An entry's three places are digits of its address.
LEMMA ThreeDigits ==
    ASSUME NEW e \in Nat, NEW H \in Nat \ {0}, NEW W \in Nat \ {0}, NEW y \in 0..(H - 1), NEW j \in 0..(W - 1)
    PROVE  Digits((e * H + y) * W + j, H, W, e, y, j)
<1> DEFINE x == e * H + y  a == x * W + j
<1>1. x \in Nat
  OBVIOUS
<1>2. x \div H = e /\ x % H = y
  BY PartsOfSum
<1>3. a \div W = x /\ a % W = j
  BY <1>1, PartsOfSum
<1>4. H * W \in Nat \ {0} /\ y * W + j \in 0..(H * W - 1)
  BY SumWithin
<1>5. a = e * (H * W) + (y * W + j)
  <2>1. x * W = (e * H) * W + y * W /\ (e * H) * W = e * (H * W) /\ e * (H * W) \in Nat /\ y * W \in Nat
    OBVIOUS
  <2> QED
    BY <2>1
<1> DEFINE u == H * W  z == y * W + j
<1> HIDE DEF u, z
<1>6. (e * u + z) \div u = e
  BY <1>4, PartsOfSum DEF u, z
<1> QED
  BY <1>2, <1>3, <1>5, <1>6 DEF u, z, Digits

\* What a mixture's layer is, and how its hidden states split into chunks.
Layered(l) ==
    /\ l.experts \in Nat \ {0} /\ l.hidden \in Nat \ {0} /\ l.inter \in Nat \ {0} /\ l.interleaved \in BOOLEAN
Split(l, chunks, b) == chunks \in Nat \ {0} /\ b \in Nat \ {0} /\ l.hidden = chunks * (b * Stick)

LEMMA WideIs ==
    ASSUME NEW l, Layered(l) PROVE Wide(l) \in Nat \ {0} /\ l.inter <= Wide(l)
<1> DEFINE n == l.inter
<1>1. n \in Nat \ {0}
  BY DEF Layered
<1> HIDE DEF n
<1>2. RoundUp(n, Stick) \in Nat /\ n <= RoundUp(n, Stick)
  BY <1>1, WholeSticks
<1>3. RoundUp(n, Stick) # 0
  BY <1>1, <1>2
<1> QED
  BY <1>2, <1>3 DEF n, Wide

LEMMA SliceIs ==
    ASSUME NEW l, Layered(l), NEW chunks, NEW b, Split(l, chunks, b)
    PROVE  LET slice == l.hidden \div chunks IN
           /\ slice = b * Stick /\ slice \in Nat \ {0} /\ l.hidden = chunks * slice
           /\ slice \div Stick = b /\ l.hidden \div Stick = chunks * b
<1>1. Stick \in Nat \ {0} /\ chunks \in Nat \ {0} /\ b \in Nat \ {0} /\ l.hidden = chunks * (b * Stick)
  BY StickAssumption DEF Split
<1>2. b * Stick \in Nat \ {0}
  BY <1>1
<1> DEFINE s == b * Stick
<1> HIDE DEF s
<1>3. (s * chunks + 0) \div chunks = s /\ s * chunks + 0 = chunks * s
  <2>1. 0 \in 0..(chunks - 1)
    BY <1>1
  <2> QED
    BY <1>1, <1>2, <2>1, PartsOfSum DEF s
<1>4. (b * Stick + 0) \div Stick = b /\ b * Stick + 0 = s
  <2>1. 0 \in 0..(Stick - 1)
    BY <1>1
  <2>2. (b * Stick + 0) \div Stick = b
    BY <1>1, <2>1, PartsOfSum
  <2> QED
    BY <1>1, <2>2 DEF s
<1>5. ((chunks * b) * Stick + 0) \div Stick = chunks * b /\ (chunks * b) * Stick + 0 = chunks * s
  <2>1. 0 \in 0..(Stick - 1) /\ chunks * b \in Nat
    BY <1>1
  <2>2. ((chunks * b) * Stick + 0) \div Stick = chunks * b
    BY <1>1, <2>1, PartsOfSum
  <2>3. (chunks * b) * Stick + 0 = chunks * (b * Stick)
    BY <1>1
  <2> QED
    BY <2>2, <2>3 DEF s
<1>6. l.hidden = chunks * s /\ s \in Nat \ {0}
  BY <1>1, <1>2 DEF s
<1>7. l.hidden \div chunks = s
  BY <1>3, <1>6
<1> QED
  BY <1>4, <1>5, <1>6, <1>7 DEF s

\* An entry of a gate or up alias is the pool's entry of the chunk's row.
LEMMA AliasIs ==
    ASSUME NEW l, Layered(l), NEW chunks, NEW b, Split(l, chunks, b),
           NEW e \in Nat, NEW c \in 0..(chunks - 1), NEW r \in 0..(l.hidden \div chunks - 1), NEW j \in 0..(Wide(l) - 1)
    PROVE  _chunk_pool_alias(l, chunks, <<e * chunks + c, r, j>>) = <<e, c * (l.hidden \div chunks) + r, j>>
<1> DEFINE s == l.hidden \div chunks  W == Wide(l)  H == chunks * s  y == c * s + r
           i == <<e * chunks + c, r, j>>  a == (e * H + y) * W + j
<1>1. s \in Nat \ {0} /\ l.hidden = H /\ W \in Nat \ {0} /\ chunks \in Nat \ {0}
  BY SliceIs, WideIs DEF Split
<1> HIDE DEF s, W
<1>2. r \in 0..(s - 1) /\ j \in 0..(W - 1)
  BY DEF s, W
<1>3. y \in 0..(H - 1) /\ H \in Nat \ {0}
  BY <1>1, <1>2, SumWithin
<1>4. (e * chunks + c) * s + r = e * H + y
  <2>1. (e * chunks + c) * s = (e * chunks) * s + c * s /\ (e * chunks) * s = e * (chunks * s)
        /\ e * (chunks * s) \in Nat /\ c * s \in Nat
    BY <1>1
  <2> QED
    BY <1>1, <1>2, <2>1
<1>5. RowMajor(s, W, i) = a
  BY <1>4 DEF RowMajor
<1> HIDE DEF H, y
<1>6. Digits(a, H, W, e, y, j)
  BY <1>1, <1>2, <1>3, ThreeDigits
<1> HIDE DEF a, i
<1>7. _chunk_pool_alias(l, chunks, i) = <<a \div (H * W), (a \div W) % H, a % W>>
  BY <1>1, <1>5 DEF _chunk_pool_alias, s, W
<1>8. a \div (H * W) = e /\ (a \div W) % H = y /\ a % W = j
  BY <1>6 DEF Digits
<1> QED
  BY <1>7, <1>8 DEF i, y, s

DownAt(l, chunks, e, c, k, j) ==
    _down_chunk_pool_alias(l, chunks, <<e * chunks + c, j, k>>) = <<e, j, c * (l.hidden \div chunks) + k>>

\* An entry of the down alias, whose chunks are of columns in other sticks than the pool's,
\* is the pool's entry of the chunk's column.
LEMMA DownAliasIs ==
    ASSUME NEW l, Layered(l), NEW chunks, NEW b, Split(l, chunks, b),
           NEW e \in Nat, NEW c \in 0..(chunks - 1), NEW k \in 0..(l.hidden \div chunks - 1), NEW j \in 0..(Wide(l) - 1)
    PROVE  DownAt(l, chunks, e, c, k, j)
<1> DEFINE s == l.hidden \div chunks  W == Wide(l)  q == k \div Stick  t == k % Stick
           sticks == chunks * b  y == c * b + q  x == e * sticks + y
           i == <<e * chunks + c, j, k>>  a == (x * W + j) * Stick + t
<1>1. /\ s \in Nat \ {0} /\ s = b * Stick /\ s \div Stick = b /\ l.hidden \div Stick = sticks
      /\ W \in Nat \ {0} /\ chunks \in Nat \ {0} /\ b \in Nat \ {0} /\ Stick \in Nat \ {0}
  BY SliceIs, WideIs, StickAssumption DEF Split
<1> HIDE DEF s, W
<1>2. k \in 0..(s - 1) /\ j \in 0..(W - 1)
  BY DEF s, W
<1>3. q \in 0..(b - 1) /\ t \in 0..(Stick - 1) /\ k = q * Stick + t
  <2>1. k \in Nat /\ k < b * Stick
    BY <1>1, <1>2
  <2> QED
    BY <1>1, <2>1, Parts, QuotientBelow
<1> HIDE DEF q, t
<1>4. y \in 0..(sticks - 1) /\ sticks \in Nat \ {0}
  BY <1>1, <1>3, SumWithin
<1>5. (e * chunks + c) * b + q = x
  <2>1. (e * chunks + c) * b = (e * chunks) * b + c * b /\ (e * chunks) * b = e * (chunks * b)
        /\ e * (chunks * b) \in Nat /\ c * b \in Nat
    BY <1>1
  <2> QED
    BY <1>1, <1>3, <2>1
<1>6. _expert_kernel_layout(W, s, i) = a
  BY <1>1, <1>5 DEF _expert_kernel_layout, q, t
<1>7. y * Stick + t = c * s + k
  <2>1. (c * b + q) * Stick = c * (b * Stick) + q * Stick /\ c * (b * Stick) \in Nat /\ q * Stick \in Nat
    BY <1>1, <1>3
  <2> QED
    BY <1>1, <1>3, <2>1
<1> HIDE DEF sticks, y
<1>8. x \in Nat /\ x \div sticks = e /\ x % sticks = y
  BY <1>4, PartsOfSum
<1> HIDE DEF x
<1>9. Digits(a, W, Stick, x, j, t)
  BY <1>1, <1>2, <1>3, <1>8, ThreeDigits
<1> HIDE DEF a, i
<1>10. _down_chunk_pool_alias(l, chunks, i) =
           <<(a \div (W * Stick)) \div sticks, (a \div Stick) % W, ((a \div (W * Stick)) % sticks) * Stick + (a % Stick)>>
  BY <1>1, <1>6 DEF _down_chunk_pool_alias, s, W
<1>11. a \div (W * Stick) = x /\ (a \div Stick) % W = j /\ a % Stick = t
  BY <1>9 DEF Digits
<1> QED
  BY <1>7, <1>8, <1>10, <1>11 DEF i, s, DownAt

\* Chunk by chunk or whole, the same inputs meet the same weights.
LEMMA GatheredIsWhole ==
    ASSUME NEW l, Layered(l), NEW chunks, NEW b, Split(l, chunks, b),
           NEW half, NEW e \in Nat, NEW j \in 0..(Wide(l) - 1)
    PROVE  Gathered(l, chunks, half, e, j) = Whole(l, half, e, j)
<1> DEFINE s == l.hidden \div chunks  pool == GatePool(l, half)
           Row(c, r) == <<c * s + r, pool[_chunk_pool_alias(l, chunks, <<e * chunks + c, r, j>>)]>>
           Of(h) == <<h, pool[<<e, h, j>>]>>
<1>1. s \in Nat \ {0} /\ l.hidden = chunks * s /\ chunks \in Nat \ {0}
  BY SliceIs DEF Split
<1>2. \A c \in 0..(chunks - 1), r \in 0..(s - 1) : Row(c, r) = Of(c * s + r)
  <2> SUFFICES ASSUME NEW c \in 0..(chunks - 1), NEW r \in 0..(s - 1) PROVE Row(c, r) = Of(c * s + r)
    OBVIOUS
  <2>1. _chunk_pool_alias(l, chunks, <<e * chunks + c, r, j>>) = <<e, c * s + r, j>>
    BY AliasIs
  <2> HIDE DEF pool, s
  <2> QED
    BY <2>1 DEF s
<1>3. Gathered(l, chunks, half, e, j) = UNION {{Row(c, r) : r \in 0..(s - 1)} : c \in 0..(chunks - 1)}
  BY DEF Gathered
<1>4. Whole(l, half, e, j) = {Of(h) : h \in 0..(l.hidden - 1)}
  BY DEF Whole
<1> HIDE DEF s, Row, Of, pool
<1>5. \A c \in 0..(chunks - 1), r \in 0..(s - 1) : c * s + r \in 0..(l.hidden - 1)
  BY <1>1, SumWithin
<1>6. \A h \in 0..(l.hidden - 1) : \E c \in 0..(chunks - 1), r \in 0..(s - 1) : h = c * s + r
  <2> TAKE h \in 0..(l.hidden - 1)
  <2>1. h \in Nat /\ h < chunks * s
    <3>1. chunks * s \in Nat
      BY <1>1
    <3> QED
      BY <1>1, <3>1
  <2>2. h \div s \in 0..(chunks - 1) /\ h % s \in 0..(s - 1) /\ h = (h \div s) * s + (h % s)
    BY <1>1, <2>1, QuotientBelow, Parts
  <2> QED
    BY <2>2
<1>7. UNION {{Row(c, r) : r \in 0..(s - 1)} : c \in 0..(chunks - 1)} = {Of(h) : h \in 0..(l.hidden - 1)}
  <2>1. ASSUME NEW x \in UNION {{Row(c, r) : r \in 0..(s - 1)} : c \in 0..(chunks - 1)}
        PROVE  x \in {Of(h) : h \in 0..(l.hidden - 1)}
    <3>1. PICK c \in 0..(chunks - 1), r \in 0..(s - 1) : x = Row(c, r)
      OBVIOUS
    <3> QED
      BY <1>2, <1>5, <3>1
  <2>2. ASSUME NEW x \in {Of(h) : h \in 0..(l.hidden - 1)}
        PROVE  x \in UNION {{Row(c, r) : r \in 0..(s - 1)} : c \in 0..(chunks - 1)}
    <3>1. PICK h \in 0..(l.hidden - 1) : x = Of(h)
      OBVIOUS
    <3>2. PICK c \in 0..(chunks - 1), r \in 0..(s - 1) : h = c * s + r
      BY <1>6
    <3>3. x = Row(c, r)
      BY <1>2, <3>1, <3>2
    <3> QED
      BY <3>3
  <2> QED
    BY <2>1, <2>2
<1> QED
  BY <1>3, <1>4, <1>7

\* A lane's gate and up rows, interleaved or not, are the lane's own.
Part(half) == IF half = 0 THEN "gate" ELSE "up"

LEMMA OwnLane ==
    ASSUME NEW l, Layered(l), NEW half \in {0, 1}, NEW j \in 0..(l.inter - 1)
    PROVE  deinterleave_gate_up(l, half * l.inter + j) = [of |-> Part(half), lane |-> j]
<1> DEFINE n == l.inter
<1>1. n \in Nat \ {0} /\ l.interleaved \in BOOLEAN
  BY DEF Layered
<1>2. (2 * j + 1) % 2 = 1 /\ (2 * j + 1) \div 2 = j /\ (2 * j) % 2 = 0 /\ (2 * j) \div 2 = j
  BY <1>1
<1>3. (0 * n + j) % n = j /\ (1 * n + j) % n = j
  <2>1. n \in Nat \ {0} /\ j \in 0..(n - 1)
    BY <1>1
  <2> HIDE DEF n
  <2>2. (0 * n + j) % n = j
    BY <2>1, PartsOfSum
  <2>3. (1 * n + j) % n = j
    BY <2>1, PartsOfSum
  <2> QED
    BY <2>2, <2>3
<1>4. 0 * n + j = j /\ 1 * n + j = n + j /\ j < n /\ ~(n + j < n) /\ 2 * (n + j - n) + 1 = 2 * j + 1
  BY <1>1
<1>5. CASE half = 0
  <2>1. deinterleave_gate_up(l, j) = [of |-> "gate", lane |-> j]
    BY <1>1, <1>2, <1>3, <1>4 DEF deinterleave_gate_up, W13
  <2> QED
    BY <1>4, <1>5, <2>1 DEF Part
<1>6. CASE half = 1
  <2>1. deinterleave_gate_up(l, n + j) = [of |-> "up", lane |-> j]
    <3>1. CASE l.interleaved
      <4>1. deinterleave_gate_up(l, n + j) = W13(l, 2 * j + 1)
        <5> DEFINE r == n + j
        <5>1. r - n = j /\ ~(r < n)
          BY <1>1, <1>4
        <5> HIDE DEF r
        <5>2. deinterleave_gate_up(l, r) = W13(l, 2 * (r - n) + 1)
          BY <3>1, <5>1 DEF deinterleave_gate_up
        <5> QED
          BY <5>1, <5>2 DEF r
      <4> QED
        BY <1>2, <3>1, <4>1 DEF W13
    <3>2. CASE ~l.interleaved
      <4>1. deinterleave_gate_up(l, n + j) = W13(l, n + j)
        BY <3>2 DEF deinterleave_gate_up
      <4> QED
        BY <1>3, <1>4, <3>2, <4>1 DEF W13
    <3> QED
      BY <3>1, <3>2
  <2> QED
    BY <1>4, <1>6, <2>1 DEF Part
<1> QED
  BY <1>5, <1>6

LEMMA WholeIs ==
    ASSUME NEW l, Layered(l), NEW half \in {0, 1}, NEW e \in 0..(l.experts - 1), NEW j \in 0..(l.inter - 1)
    PROVE  Whole(l, half, e, j) = {<<h, <<e, h, [of |-> Part(half), lane |-> j]>>>> : h \in 0..(l.hidden - 1)}
<1> DEFINE lane == [of |-> Part(half), lane |-> j]
<1>1. l.inter \in Nat /\ Wide(l) \in Nat \ {0} /\ l.inter <= Wide(l)
  BY WideIs DEF Layered
<1>2. j \in 0..(Wide(l) - 1) /\ ~(j >= l.inter)
  BY <1>1
<1>3. deinterleave_gate_up(l, half * l.inter + j) = lane
  BY OwnLane
<1> HIDE DEF lane
<1>4. ASSUME NEW h \in 0..(l.hidden - 1) PROVE GatePool(l, half)[<<e, h, j>>] = <<e, h, lane>>
  <2> DEFINE i == <<e, h, j>>
  <2>1. i \in (0..(l.experts - 1)) \X (0..(l.hidden - 1)) \X (0..(Wide(l) - 1))
    BY <1>2
  <2>2. GatePool(l, half)[i] = IF i[3] >= l.inter THEN Zero
                               ELSE <<i[1], i[2], deinterleave_gate_up(l, half * l.inter + i[3])>>
    <3> HIDE DEF i
    <3> QED
      BY <2>1 DEF GatePool
  <2> QED
    BY <1>2, <1>3, <2>2
<1>5. Whole(l, half, e, j) = {<<h, <<e, h, lane>>>> : h \in 0..(l.hidden - 1)}
  BY <1>4 DEF Whole
<1> QED
  BY <1>5 DEF lane

\* Lanes of the padding bring nothing, and the others their own products.
LEMMA LiveIs ==
    ASSUME NEW l, Layered(l), NEW e \in 0..(l.experts - 1), NEW h \in 0..(l.hidden - 1)
    PROVE  Live({Product(Whole(l, 0, e, j), Whole(l, 1, e, j), DownPool(l)[<<e, j, h>>]) : j \in 0..(Wide(l) - 1)})
               = Expert(l, e, h)
<1> DEFINE Of(j) == Product(Whole(l, 0, e, j), Whole(l, 1, e, j), DownPool(l)[<<e, j, h>>])
           Lane(j) == Product({<<i, <<e, i, [of |-> "gate", lane |-> j]>>>> : i \in 0..(l.hidden - 1)},
                              {<<i, <<e, i, [of |-> "up", lane |-> j]>>>> : i \in 0..(l.hidden - 1)}, <<e, h, j>>)
<1>1. l.inter \in Nat /\ Wide(l) \in Nat \ {0} /\ l.inter <= Wide(l)
  BY WideIs DEF Layered
<1>2. ASSUME NEW j \in 0..(Wide(l) - 1)
      PROVE  DownPool(l)[<<e, j, h>>] = IF j >= l.inter THEN Zero ELSE <<e, h, j>>
  <2> DEFINE i == <<e, j, h>>
  <2>1. i \in (0..(l.experts - 1)) \X (0..(Wide(l) - 1)) \X (0..(l.hidden - 1))
    OBVIOUS
  <2>2. DownPool(l)[i] = IF i[2] >= l.inter THEN Zero ELSE <<i[1], i[3], i[2]>>
    <3> HIDE DEF i
    <3> QED
      BY <2>1 DEF DownPool
  <2> QED
    BY <2>2
<1>3. ASSUME NEW j \in 0..(l.inter - 1) PROVE j \in 0..(Wide(l) - 1) /\ Of(j) = Lane(j)
  <2>1. j \in 0..(Wide(l) - 1) /\ ~(j >= l.inter)
    BY <1>1
  <2>2. DownPool(l)[<<e, j, h>>] = <<e, h, j>>
    BY <1>2, <2>1
  <2>3. Whole(l, 0, e, j) = {<<i, <<e, i, [of |-> Part(0), lane |-> j]>>>> : i \in 0..(l.hidden - 1)}
    BY WholeIs
  <2>4. Whole(l, 1, e, j) = {<<i, <<e, i, [of |-> Part(1), lane |-> j]>>>> : i \in 0..(l.hidden - 1)}
    BY WholeIs
  <2>5. Part(0) = "gate" /\ Part(1) = "up"
    BY DEF Part
  <2> QED
    BY <2>1, <2>2, <2>3, <2>4, <2>5
<1>4. ASSUME NEW j \in 0..(l.inter - 1) PROVE Of(j).down # Zero
  <2>1. Of(j).down = <<e, h, j>>
    BY <1>3 DEF Product
  <2>2. <<e, h, j>> \in Nat \X Nat \X Nat
    <3>1. e \in Nat /\ h \in Nat /\ j \in Nat
      BY <1>1 DEF Layered
    <3> QED
      BY <3>1
  <2> QED
    BY <2>1, <2>2, MoeAssumption
<1>5. ASSUME NEW j \in 0..(Wide(l) - 1), Of(j).down # Zero PROVE j \in 0..(l.inter - 1)
  <2>1. Of(j).down = DownPool(l)[<<e, j, h>>]
    BY DEF Product
  <2>2. ~(j >= l.inter)
    BY <1>2, <1>5, <2>1
  <2> QED
    BY <1>1, <2>2
<1>6. Expert(l, e, h) = {Lane(j) : j \in 0..(l.inter - 1)}
  BY DEF Expert
<1> HIDE DEF Of, Lane
<1>7. {p \in {Of(j) : j \in 0..(Wide(l) - 1)} : p.down # Zero} = {Lane(j) : j \in 0..(l.inter - 1)}
  <2>1. ASSUME NEW p \in {Of(j) : j \in 0..(Wide(l) - 1)}, p.down # Zero PROVE p \in {Lane(j) : j \in 0..(l.inter - 1)}
    <3>1. PICK j \in 0..(Wide(l) - 1) : p = Of(j)
      OBVIOUS
    <3>2. j \in 0..(l.inter - 1)
      BY <1>5, <2>1, <3>1
    <3> QED
      BY <1>3, <3>1, <3>2
  <2>2. ASSUME NEW p \in {Lane(j) : j \in 0..(l.inter - 1)}
        PROVE  p \in {Of(j) : j \in 0..(Wide(l) - 1)} /\ p.down # Zero
    <3>1. PICK j \in 0..(l.inter - 1) : p = Lane(j)
      OBVIOUS
    <3> QED
      BY <1>3, <1>4, <3>1
  <2> QED
    BY <2>1, <2>2
<1> QED
  BY <1>6, <1>7 DEF Live, Of

\* Either kernel's products of an expert are the published ones.
LEMMA PersistentIs ==
    ASSUME NEW l, Layered(l), NEW e \in 0..(l.experts - 1), NEW h \in 0..(l.hidden - 1)
    PROVE  _moe_persistent(l, {e}, h)[e] = Expert(l, e, h)
<1>1. _moe_persistent(l, {e}, h)[e] =
          Live({Product(Whole(l, 0, e, j), Whole(l, 1, e, j), DownPool(l)[<<e, j, h>>]) : j \in 0..(Wide(l) - 1)})
  BY DEF _moe_persistent
<1> QED
  BY <1>1, LiveIs

LEMMA GatheredIs ==
    ASSUME NEW l, Layered(l), NEW chunks, NEW b, Split(l, chunks, b),
           NEW e \in 0..(l.experts - 1), NEW h \in 0..(l.hidden - 1)
    PROVE  _moe_gathered(l, chunks, {e}, h)[e] = Expert(l, e, h) /\ down_chunks(l, chunks, e, h) = <<e, h>>
<1> DEFINE s == l.hidden \div chunks  c == h \div s  k == h % s
<1>1. s \in Nat \ {0} /\ l.hidden = chunks * s /\ chunks \in Nat \ {0} /\ e \in Nat /\ h \in Nat
  BY SliceIs DEF Split, Layered
<1> HIDE DEF s
<1>2. c \in 0..(chunks - 1) /\ k \in 0..(s - 1) /\ h = c * s + k
  <2>1. chunks * s \in Nat
    BY <1>1
  <2>2. h < chunks * s
    BY <1>1, <2>1
  <2> QED
    BY <1>1, <2>2, QuotientBelow, Parts
<1> HIDE DEF c, k
<1> DEFINE Of(j) == Product(Gathered(l, chunks, 0, e, j), Gathered(l, chunks, 1, e, j),
                            DownPool(l)[_down_chunk_pool_alias(l, chunks, <<e * chunks + c, j, k>>)])
           Plain(j) == Product(Whole(l, 0, e, j), Whole(l, 1, e, j), DownPool(l)[<<e, j, h>>])
<1>3. ASSUME NEW j \in 0..(Wide(l) - 1) PROVE Of(j) = Plain(j)
  <2>1. Gathered(l, chunks, 0, e, j) = Whole(l, 0, e, j)
    BY <1>1, GatheredIsWhole
  <2>2. Gathered(l, chunks, 1, e, j) = Whole(l, 1, e, j)
    BY <1>1, GatheredIsWhole
  <2>3. _down_chunk_pool_alias(l, chunks, <<e * chunks + c, j, k>>) = <<e, j, c * s + k>>
    <3>1. k \in 0..(l.hidden \div chunks - 1)
      BY <1>2 DEF s
    <3>2. DownAt(l, chunks, e, c, k, j)
      BY <1>1, <1>2, <3>1, DownAliasIs
    <3> QED
      BY <3>2 DEF s, DownAt
  <2> QED
    BY <1>2, <2>1, <2>2, <2>3
<1>4. _moe_gathered(l, chunks, {e}, h)[e] = Live({Of(j) : j \in 0..(Wide(l) - 1)})
  BY DEF _moe_gathered, s, c, k
<1>5. Live({Plain(j) : j \in 0..(Wide(l) - 1)}) = Expert(l, e, h)
  BY LiveIs
<1> HIDE DEF Of, Plain
<1>6. {Of(j) : j \in 0..(Wide(l) - 1)} = {Plain(j) : j \in 0..(Wide(l) - 1)}
  BY <1>3
<1>7. down_chunks(l, chunks, e, h) = <<e, h>>
  <2> DEFINE a == (e * chunks + c) * s + k
  <2>1. a = e * l.hidden + h
    <3>1. (e * chunks + c) * s = e * (chunks * s) + c * s /\ e * (chunks * s) \in Nat /\ c * s \in Nat
      BY <1>1, <1>2
    <3> QED
      BY <1>1, <1>2, <3>1
  <2>2. (e * l.hidden + h) \div l.hidden = e /\ (e * l.hidden + h) % l.hidden = h
    <3> DEFINE n == l.hidden
    <3>1. n \in Nat \ {0} /\ h \in 0..(n - 1)
      BY DEF Layered
    <3> HIDE DEF n
    <3>2. (e * n + h) \div n = e /\ (e * n + h) % n = h
      BY <1>1, <3>1, PartsOfSum
    <3> QED
      BY <3>2 DEF n
  <2> HIDE DEF a
  <2>3. down_chunks(l, chunks, e, h) = <<a \div l.hidden, a % l.hidden>>
    BY DEF down_chunks, s, c, k, a
  <2> QED
    BY <2>1, <2>2, <2>3
<1> QED
  BY <1>4, <1>5, <1>6, <1>7

\* Every kernel computes the published experts for any widths, sticks and cores: the aliases
\* the gathered kernel reads name the pools' own entries, though gate and up are laid out one way
\* and down another, and no other split into whole sticks keeps more cores busy.
THEOREM ServedExperts == Spec => []ExpertsAgree
<1>1. LoadInv => ExpertsAgree
  <2> SUFFICES ASSUME LoadInv, Serving, m.moe # None PROVE ExpertsAgree
    BY DEF ExpertsAgree
  <2> DEFINE l == m.moe  chunks == _derive_moe_chunks(l.hidden, l.topk)  sticks == l.hidden \div Stick
             b == sticks \div chunks
  <2>1. Layered(l) /\ l.hidden % Stick = 0 /\ l.topk \in Nat \ {0}
    <3>1. m \in Models
      BY DEF Serving, LoadInv, ConfigInv, Hooks, Builds
    <3> QED
      BY <3>1, ModelsAssumption DEF Layered
  <2> HIDE DEF l
  <2>2. /\ sticks \in Nat \ {0} /\ l.hidden = sticks * Stick /\ chunks \in 1..sticks /\ sticks % chunks = 0
        /\ \A c \in 1..sticks : l.hidden % (c * Stick) = 0 =>
               \/ Busiest(l.topk, c) < Busiest(l.topk, chunks)
               \/ Busiest(l.topk, c) = Busiest(l.topk, chunks) /\ chunks <= c
    <3>1. l.hidden \in Nat \ {0}
      BY <2>1 DEF Layered
    <3> QED
      BY <2>1, <3>1, ChunksAre
  <2> HIDE DEF chunks, sticks
  <2>3. chunks \in Nat \ {0} /\ b \in Nat \ {0} /\ sticks = b * chunks
    BY <2>2, DivisorIsBelow
  <2> HIDE DEF b
  <2>4. Stick \in Nat \ {0}
    BY StickAssumption
  <2>5. l.hidden = chunks * (b * Stick) /\ l.hidden = b * (chunks * Stick)
    BY <2>2, <2>3, <2>4
  <2>6. Split(l, chunks, b)
    BY <2>3, <2>5 DEF Split
  <2>7. l.hidden % (chunks * Stick) = 0
    <3> DEFINE u == chunks * Stick
    <3>1. u \in Nat \ {0} /\ 0 \in 0..(u - 1) /\ b * u + 0 = b * u
      BY <2>3, <2>4
    <3>2. l.hidden = b * u
      BY <2>5
    <3> HIDE DEF u
    <3>3. (b * u + 0) % u = 0
      BY <2>3, <3>1, PartsOfSum
    <3> QED
      BY <3>1, <3>2, <3>3 DEF u
  <2>8. ASSUME NEW form, NEW e \in 0..(l.experts - 1), NEW h \in 0..(l.hidden - 1)
        PROVE  Computed(l, form, e, h) = Expert(l, e, h) /\ down_chunks(l, chunks, e, h) = <<e, h>>
    <3>1. _moe_persistent(l, {e}, h)[e] = Expert(l, e, h)
      BY <2>1, PersistentIs
    <3>2. _moe_gathered(l, chunks, {e}, h)[e] = Expert(l, e, h) /\ down_chunks(l, chunks, e, h) = <<e, h>>
      BY <2>1, <2>6, GatheredIs
    <3> QED
      BY <3>1, <3>2 DEF Computed, chunks
  <2>9. MoeAnswersAgree(l)
    BY <2>8 DEF MoeAnswersAgree, chunks
  <2> QED
    BY <2>2, <2>7, <2>9 DEF ExpertsAgree, Busiest, Splits, l, chunks, sticks
<1> QED
  BY LoadHolds, <1>1, PTL

(***************************************************************************)
(* The tails of pooling models: what replacing the methods and converting  *)
(* the classifiers leave of one, and what then moves.                      *)
(***************************************************************************)
\* What a loaded tail is made of.
Places == [dev : {"spyre", "host"}, dtype : Dtypes]
LoadedPoolers ==
    [kind : STRING, exact : BOOLEAN, pooling : STRING, head : {"embed", "classify", None},
     projector : BOOLEAN, normalize : BOOLEAN, dtype : Dtypes \cup {None}, spyre : BOOLEAN,
     defers : BOOLEAN, trims : BOOLEAN, spyreHead : BOOLEAN, spyreNorm : BOOLEAN, weight : Places]

\* A tail on its way, with poolers for the tasks of D.
TailTypes(D) ==
    [dispatch : BOOLEAN, trimsToReal : BOOLEAN, modelDtype : Dtypes \cup {None}, wrapped : BOOLEAN,
     stays : BOOLEAN, classifier : LoadedTypes \cup {None}, poolers : [D -> LoadedPoolers]]

LEMMA NoneIs ==
    /\ None \notin LoadedTypes /\ None # "fp16" /\ None # "fp32" /\ None # "classifier"
    /\ None # "embed" /\ None # "classify" /\ None \notin Dtypes
  BY NoneAssumption, Zenon DEF Dtypes

LEMMA LoadedIs ==
    ASSUME NEW t, VllmBuilds(t)
    PROVE  Loaded(t) \in TailTypes(DOMAIN t.poolers)
<1>1. \A k \in DOMAIN t.poolers : t.poolers[k] \in PoolerTypes
  BY DEF VllmBuilds
<1>2. ASSUME NEW k \in DOMAIN t.poolers, NEW w \in Places PROVE LoadedPooler(t.poolers[k], w) \in LoadedPoolers
  BY <1>1, <1>2 DEF PoolerTypes, LoadedPooler, LoadedPoolers
<1>3. \A dev \in {"spyre", "host"} : At(dev, "fp32") \in Places
  BY DEF At, Places, Dtypes
<1>4. Loaded(t).poolers \in [DOMAIN t.poolers -> LoadedPoolers]
  <2>1. \A k \in DOMAIN t.poolers :
          LoadedPooler(t.poolers[k], At(IF k \in Registered(t) THEN "spyre" ELSE "host", "fp32")) \in LoadedPoolers
    BY <1>2, <1>3
  <2>2. Loaded(t).poolers = [k \in DOMAIN t.poolers |->
          LoadedPooler(t.poolers[k], At(IF k \in Registered(t) THEN "spyre" ELSE "host", "fp32"))]
    BY DEF Loaded
  <2> QED
    BY <2>1, <2>2, Zenon
<1>5. ASSUME NEW c \in ClassifierTypes, NEW dev \in {"spyre", "host"} PROVE LoadedClassifier(c, dev) \in LoadedTypes
  BY DEF ClassifierTypes, LoadedTypes, LoadedClassifier, At
<1>6. Loaded(t).classifier \in LoadedTypes \cup {None}
  <2>1. t.classifier \in ClassifierTypes \cup {None}
    BY DEF VllmBuilds
  <2>2. \E dev \in {"spyre", "host"} : Loaded(t).classifier =
            IF t.classifier = None THEN None ELSE LoadedClassifier(t.classifier, dev)
    <3> DEFINE dev == IF t.classifier.attr # None \/ t.classifier.holders \cap Registered(t) # {}
                      THEN "spyre" ELSE "host"
    <3>1. dev \in {"spyre", "host"}
      OBVIOUS
    <3> QED
      BY <3>1 DEF Loaded
  <2> QED
    BY <1>5, <2>1, <2>2
<1>7. t.dispatch \in BOOLEAN /\ t.modelDtype \in Dtypes \cup {None}
  BY DEF VllmBuilds
<1> QED
  BY <1>4, <1>6, <1>7 DEF Loaded, TailTypes

\* A pooler whose method was replaced, and one whose head was.
WithMethod(p) == [p EXCEPT !.spyre = TRUE, !.defers = p.exact, !.trims = p.exact]

LEMMA PatchedIs ==
    ASSUME NEW D, NEW x \in TailTypes(D), NEW y, y = patch_pooler_for_spyre(x)
    PROVE  /\ y \in TailTypes(D)
           /\ y.dispatch = x.dispatch /\ y.trimsToReal = x.trimsToReal /\ y.wrapped = x.wrapped
           /\ y.stays = x.stays /\ y.modelDtype = x.modelDtype /\ y.classifier = x.classifier
           /\ \A k \in D :
                 /\ ~Recognised(x.poolers[k]) => y.poolers[k] = x.poolers[k]
                 /\ Recognised(x.poolers[k]) =>
                       y.poolers[k] = WithMethod(x.poolers[k])
<1> DEFINE ps == [k \in D |->
        IF ~Recognised(x.poolers[k]) THEN x.poolers[k]
        ELSE WithMethod(x.poolers[k])]
<1>1. x.poolers \in [D -> LoadedPoolers] /\ DOMAIN x.poolers = D
  BY DEF TailTypes
<1>2. patch_pooler_for_spyre(x) = [x EXCEPT !.poolers = ps]
  BY <1>1 DEF patch_pooler_for_spyre, TailTypes, WithMethod
<1>3. ps \in [D -> LoadedPoolers]
  <2>1. ASSUME NEW k \in D PROVE ps[k] \in LoadedPoolers
    BY <1>1 DEF LoadedPoolers, WithMethod
  <2> QED
    BY <2>1
<1>4. \A k \in D : ps[k] = IF ~Recognised(x.poolers[k]) THEN x.poolers[k]
        ELSE WithMethod(x.poolers[k])
  OBVIOUS
<1> HIDE DEF ps
<1>5. /\ y \in TailTypes(D) /\ y.poolers = ps
      /\ y.dispatch = x.dispatch /\ y.trimsToReal = x.trimsToReal /\ y.wrapped = x.wrapped
      /\ y.stays = x.stays /\ y.modelDtype = x.modelDtype /\ y.classifier = x.classifier
  BY <1>2, <1>3 DEF TailTypes
<1> QED
  BY <1>4, <1>5

LEMMA PreparedIs ==
    ASSUME NEW D, NEW x \in TailTypes(D), _classifier_roots(x) <=> x.classifier # None
    PROVE  LET y == patch_classifier_linears_for_spyre(prepare_fp32_head_for_spyre(x)) IN
           /\ y \in TailTypes(D)
           /\ y.dispatch = x.dispatch /\ y.trimsToReal = x.trimsToReal /\ y.wrapped = x.wrapped
           /\ y.stays = x.stays
           /\ y.modelDtype = IF x.modelDtype = None THEN None ELSE "fp16"
           /\ x.classifier = None => y.classifier = None
           /\ x.classifier # None =>
                 /\ y.classifier # None
                 /\ y.classifier.linear = x.classifier.linear /\ y.classifier.dtype = x.classifier.dtype
                 /\ y.classifier.attr = x.classifier.attr /\ y.classifier.holders = x.classifier.holders
                 /\ y.classifier.transposed = (x.classifier.transposed \/ x.classifier.linear)
                 /\ y.classifier.place = IF x.classifier.place.dtype = "fp32" THEN At("spyre", "fp16")
                                         ELSE x.classifier.place
           /\ \A k \in D :
                 y.poolers[k] = IF x.poolers[k].head = "classify" /\ x.poolers[k].dtype # None
                                THEN [x.poolers[k] EXCEPT !.dtype = "fp16"] ELSE x.poolers[k]
<1> DEFINE ps == _set_classifier_head_dtype(x)
           c  == IF _classifier_roots(x) THEN Downcast(x.classifier) ELSE x.classifier
           y  == prepare_fp32_head_for_spyre(x)
           z  == patch_classifier_linears_for_spyre(y)
<1>1. x.poolers \in [D -> LoadedPoolers] /\ DOMAIN x.poolers = D /\ x.classifier \in LoadedTypes \cup {None}
  BY DEF TailTypes
<1>2. /\ ps \in [D -> LoadedPoolers]
      /\ \A k \in D : ps[k] = IF x.poolers[k].head = "classify" /\ x.poolers[k].dtype # None
                              THEN [x.poolers[k] EXCEPT !.dtype = "fp16"] ELSE x.poolers[k]
  <2>1. \A k \in D : x.poolers[k] \in LoadedPoolers /\ [x.poolers[k] EXCEPT !.dtype = "fp16"] \in LoadedPoolers
    BY <1>1 DEF LoadedPoolers, Dtypes
  <2>2. ps = [k \in D |-> IF x.poolers[k].head = "classify" /\ x.poolers[k].dtype # None
                          THEN [x.poolers[k] EXCEPT !.dtype = "fp16"] ELSE x.poolers[k]]
    BY <1>1 DEF _set_classifier_head_dtype, _iter_modules
  <2> HIDE DEF ps
  <2> QED
    BY <2>1, <2>2
<1>3. /\ c \in LoadedTypes \cup {None} /\ (x.classifier = None => c = None)
      /\ x.classifier # None =>
            /\ c \in LoadedTypes /\ c.linear = x.classifier.linear /\ c.dtype = x.classifier.dtype
            /\ c.attr = x.classifier.attr /\ c.holders = x.classifier.holders
            /\ c.transposed = x.classifier.transposed
            /\ c.place = IF x.classifier.place.dtype = "fp32" THEN At("spyre", "fp16") ELSE x.classifier.place
  <2>1. CASE x.classifier = None
    BY <2>1
  <2>2. CASE x.classifier # None
    <3>1. c = Downcast(x.classifier) /\ x.classifier \in LoadedTypes
      BY <1>1, <2>2
    <3>2. At("spyre", "fp16") \in Places
      BY DEF At, Places, Dtypes
    <3> QED
      BY <2>2, <3>1, <3>2 DEF Downcast, LoadedTypes, Places
  <2> QED
    BY <2>1, <2>2
<1>4. y = [x EXCEPT !.poolers = ps, !.classifier = c, !.modelDtype = IF x.modelDtype = None THEN None ELSE "fp16"]
  BY DEF prepare_fp32_head_for_spyre, TailTypes
<1> HIDE DEF ps, c, y
<1>5. /\ y \in TailTypes(D) /\ y.dispatch = x.dispatch /\ y.trimsToReal = x.trimsToReal /\ y.wrapped = x.wrapped
      /\ y.stays = x.stays /\ y.modelDtype = (IF x.modelDtype = None THEN None ELSE "fp16")
      /\ y.classifier = c /\ y.poolers = ps
  BY <1>2, <1>3, <1>4 DEF TailTypes, Dtypes
<1>6. c = None <=> x.classifier = None
  BY <1>3, NoneIs
<1>7. _classifier_roots(y) <=> c # None
  <2>1. DOMAIN ps = D
    BY <1>2
  <2> QED
    BY <1>1, <1>3, <1>5, <1>6, <2>1 DEF _classifier_roots, _iter_modules
<1>8. CASE c = None
  BY <1>2, <1>3, <1>5, <1>6, <1>7, <1>8 DEF patch_classifier_linears_for_spyre, y
<1>9. CASE c # None
  <2>1. z = [y EXCEPT !.classifier.transposed = c.transposed \/ c.linear]
    BY <1>5, <1>7, <1>9 DEF patch_classifier_linears_for_spyre, TailTypes
  <2>2. c \in LoadedTypes
    BY <1>3, <1>9
  <2> DEFINE d == [c EXCEPT !.transposed = c.transposed \/ c.linear]
  <2>3. d \in LoadedTypes /\ d.linear = c.linear /\ d.dtype = c.dtype /\ d.attr = c.attr /\ d.holders = c.holders
        /\ d.place = c.place /\ d.transposed = (c.transposed \/ c.linear)
    BY <2>2 DEF LoadedTypes
  <2>4. z = [y EXCEPT !.classifier = d]
    BY <1>5, <2>1
  <2> HIDE DEF d
  <2>5. /\ z \in TailTypes(D) /\ z.dispatch = y.dispatch /\ z.trimsToReal = y.trimsToReal /\ z.wrapped = y.wrapped
        /\ z.stays = y.stays /\ z.modelDtype = y.modelDtype /\ z.classifier = d /\ z.poolers = ps
    BY <1>5, <2>3, <2>4 DEF TailTypes
  <2> QED
    BY <1>2, <1>3, <1>5, <1>6, <1>9, <2>2, <2>3, <2>5, NoneIs DEF y
<1> QED
  BY <1>8, <1>9

LEMMA HostIs ==
    ASSUME NEW w \in Places
    PROVE  OnHost(w) \in Places /\ OnHost(w).dev = "host" /\ OnHost(w).dtype = w.dtype
           /\ OnHost(w) = At("host", w.dtype)
  BY DEF OnHost, Places, At

LEMMA CpuTailIs ==
    ASSUME NEW D, NEW x \in TailTypes(D)
    PROVE  LET y == run_pooling_tail_on_cpu(x)
               named == x.classifier # None /\ x.classifier.attr = "classifier"
               owned == x.classifier # None /\ x.classifier.holders \cap Registered(x) # {} IN
           /\ y \in TailTypes(D) /\ ~y.stays
           /\ y.dispatch = x.dispatch /\ y.trimsToReal = x.trimsToReal
           /\ y.wrapped = (named /\ ~owned)
           /\ y.modelDtype = IF named /\ ~owned /\ x.modelDtype # None THEN "fp16" ELSE x.modelDtype
           /\ x.classifier = None => y.classifier = None
           /\ x.classifier # None =>
                 /\ y.classifier # None
                 /\ y.classifier.linear = x.classifier.linear /\ y.classifier.dtype = x.classifier.dtype
                 /\ y.classifier.attr = x.classifier.attr /\ y.classifier.holders = x.classifier.holders
                 /\ y.classifier.transposed = x.classifier.transposed
                 /\ y.classifier.place = IF named \/ owned THEN At("host", x.classifier.place.dtype)
                                         ELSE x.classifier.place
           /\ \A k \in D : y.poolers[k] = IF k \in Registered(x)
                                         THEN [x.poolers[k] EXCEPT !.weight = At("host", x.poolers[k].weight.dtype)]
                                         ELSE x.poolers[k]
<1> DEFINE named == x.classifier # None /\ x.classifier.attr = "classifier"
           owned == x.classifier # None /\ x.classifier.holders \cap Registered(x) # {}
           ps == [k \in D |-> IF k \in Registered(x)
                              THEN [x.poolers[k] EXCEPT !.weight = At("host", x.poolers[k].weight.dtype)]
                              ELSE x.poolers[k]]
           c  == IF named \/ owned THEN [x.classifier EXCEPT !.place = At("host", x.classifier.place.dtype)]
                 ELSE x.classifier
           md == IF named /\ ~owned /\ x.modelDtype # None THEN "fp16" ELSE x.modelDtype
           y  == run_pooling_tail_on_cpu(x)
<1>1. x.poolers \in [D -> LoadedPoolers] /\ DOMAIN x.poolers = D /\ x.classifier \in LoadedTypes \cup {None}
  BY DEF TailTypes
<1>2. /\ ps \in [D -> LoadedPoolers]
      /\ \A k \in D : ps[k] = IF k \in Registered(x)
                              THEN [x.poolers[k] EXCEPT !.weight = At("host", x.poolers[k].weight.dtype)]
                              ELSE x.poolers[k]
  <2>1. \A k \in D : [x.poolers[k] EXCEPT !.weight = At("host", x.poolers[k].weight.dtype)] \in LoadedPoolers
    BY <1>1 DEF LoadedPoolers, Places, At
  <2> QED
    BY <1>1, <2>1
<1>3. /\ c \in LoadedTypes \cup {None} /\ (x.classifier = None => c = None)
      /\ x.classifier # None =>
            /\ c # None /\ c.linear = x.classifier.linear /\ c.dtype = x.classifier.dtype
            /\ c.attr = x.classifier.attr /\ c.holders = x.classifier.holders
            /\ c.transposed = x.classifier.transposed
            /\ c.place = IF named \/ owned THEN At("host", x.classifier.place.dtype) ELSE x.classifier.place
  <2>1. x.classifier # None => c \in LoadedTypes
    BY <1>1 DEF LoadedTypes, At
  <2> QED
    BY <1>1, <2>1, NoneIs DEF LoadedTypes
<1>4. y = [x EXCEPT !.stays = FALSE, !.poolers = ps, !.classifier = c, !.wrapped = (named /\ ~owned),
                    !.modelDtype = md]
  <2>1. \A k \in D : OnHost(x.poolers[k].weight) = At("host", x.poolers[k].weight.dtype)
    BY <1>1, HostIs DEF LoadedPoolers
  <2>2. ps = [k \in D |-> IF k \in Registered(x)
                          THEN [x.poolers[k] EXCEPT !.weight = OnHost(x.poolers[k].weight)] ELSE x.poolers[k]]
    BY <2>1
  <2>3. c = IF named \/ owned THEN [x.classifier EXCEPT !.place = OnHost(x.classifier.place)] ELSE x.classifier
    <3>1. x.classifier # None => x.classifier.place \in Places
      BY <1>1 DEF LoadedTypes, Places
    <3> QED
      BY <3>1, HostIs
  <2> HIDE DEF ps, c
  <2> QED
    BY <1>1, <2>2, <2>3 DEF run_pooling_tail_on_cpu, TailTypes
<1>5. md \in Dtypes \cup {None}
  BY DEF TailTypes, Dtypes
<1> HIDE DEF ps, c, y, md
<1>6. /\ y \in TailTypes(D) /\ ~y.stays /\ y.dispatch = x.dispatch /\ y.trimsToReal = x.trimsToReal
      /\ y.wrapped = (named /\ ~owned) /\ y.modelDtype = md /\ y.classifier = c /\ y.poolers = ps
  <2>1. (named /\ ~owned) \in BOOLEAN
    OBVIOUS
  <2> HIDE DEF named, owned
  <2> QED
    BY <1>2, <1>3, <1>4, <1>5, <2>1 DEF TailTypes
<1> QED
  BY <1>2, <1>3, <1>6 DEF y, md

WithHead(p) == [p EXCEPT !.spyreNorm = p.normalize, !.spyreHead = p.head = "embed"]

LEMMA HeadsAre ==
    ASSUME NEW D, NEW x \in TailTypes(D)
    PROVE  LET y == patch_heads(x) IN
           /\ y \in TailTypes(D) /\ y.stays = x.stays /\ ~y.trimsToReal /\ y.dispatch = x.dispatch
           /\ y.wrapped = x.wrapped /\ y.modelDtype = x.modelDtype /\ y.classifier = x.classifier
           /\ \A k \in D : y.poolers[k] = WithHead(x.poolers[k])
<1> DEFINE ps == [k \in D |-> WithHead(x.poolers[k])]
<1>1. x.poolers \in [D -> LoadedPoolers] /\ DOMAIN x.poolers = D
  BY DEF TailTypes
<1>2. ps \in [D -> LoadedPoolers]
  <2>1. \A k \in D : ps[k] \in LoadedPoolers
    BY <1>1 DEF LoadedPoolers, WithHead
  <2> QED
    BY <2>1
<1>3. patch_heads(x) = [x EXCEPT !.trimsToReal = FALSE, !.poolers = ps]
  BY <1>1 DEF patch_heads, _iter_modules, TailTypes, WithHead
<1>4. \A k \in D : ps[k] = WithHead(x.poolers[k])
  OBVIOUS
<1> HIDE DEF ps
<1> QED
  BY <1>2, <1>3, <1>4 DEF TailTypes

\* No pooler is of a kind that makes the tail leave.
Clean(t) == \A k \in DOMAIN t.poolers : Recognised(t.poolers[k])

\* The fields of a pooler nothing touches.
SamePooler(q, p) ==
    /\ q.kind = p.kind /\ q.exact = p.exact /\ q.pooling = p.pooling /\ q.head = p.head
    /\ q.projector = p.projector /\ q.normalize = p.normalize
SameClassifier(d, c) ==
    d.linear = c.linear /\ d.dtype = c.dtype /\ d.attr = c.attr /\ d.holders = c.holders

\* Where loading put the classifier.
FirstDevice(t) ==
    IF t.classifier.attr # None \/ t.classifier.holders \cap Registered(t) # {} THEN "spyre" ELSE "host"

\* What the heads cast to when the classifiers are converted, or there is none.
CastsTo(q, p, t, converted) ==
    /\ p.head # "classify" => q.dtype = p.dtype
    /\ p.head = "classify" =>
          IF t.classifier = None THEN q.dtype \in Dtypes \cup {None}
          ELSE q.dtype = IF converted /\ p.dtype # None THEN "fp16" ELSE p.dtype

LEMMA Started ==
    ASSUME NEW t, VllmBuilds(t)
    PROVE  LET x == Loaded(t) IN
           /\ x.dispatch = t.dispatch /\ x.trimsToReal = t.dispatch /\ x.modelDtype = t.modelDtype
           /\ ~x.wrapped /\ x.stays
           /\ t.classifier = None => x.classifier = None
           /\ t.classifier # None =>
                 /\ x.classifier # None /\ SameClassifier(x.classifier, t.classifier)
                 /\ ~x.classifier.transposed /\ x.classifier.place = At(FirstDevice(t), t.classifier.dtype)
           /\ \A k \in DOMAIN t.poolers :
                 /\ SamePooler(x.poolers[k], t.poolers[k]) /\ x.poolers[k].dtype = t.poolers[k].dtype
                 /\ ~x.poolers[k].spyre /\ ~x.poolers[k].defers /\ ~x.poolers[k].trims
                 /\ ~x.poolers[k].spyreHead /\ ~x.poolers[k].spyreNorm
                 /\ x.poolers[k].weight = At(IF k \in Registered(t) THEN "spyre" ELSE "host", "fp32")
           /\ Registered(x) = Registered(t)
<1> DEFINE x == Loaded(t)
<1>1. /\ x.dispatch = t.dispatch /\ x.trimsToReal = t.dispatch /\ x.modelDtype = t.modelDtype
      /\ ~x.wrapped /\ x.stays
      /\ x.classifier = IF t.classifier = None THEN None ELSE LoadedClassifier(t.classifier, FirstDevice(t))
      /\ x.poolers = [k \in DOMAIN t.poolers |->
            LoadedPooler(t.poolers[k], At(IF k \in Registered(t) THEN "spyre" ELSE "host", "fp32"))]
  BY DEF Loaded, FirstDevice
<1>2. t.classifier # None => x.classifier # None
  <2>1. ASSUME t.classifier # None PROVE LoadedClassifier(t.classifier, FirstDevice(t)) \in LoadedTypes
    <3>1. t.classifier \in ClassifierTypes /\ FirstDevice(t) \in {"spyre", "host"}
      BY <2>1 DEF VllmBuilds, FirstDevice
    <3> HIDE DEF FirstDevice
    <3> QED
      BY <3>1 DEF ClassifierTypes, LoadedTypes, LoadedClassifier, At
  <2> QED
    BY <1>1, <2>1, NoneIs
<1>3. DOMAIN x.poolers = DOMAIN t.poolers
  BY <1>1
<1> HIDE DEF x
<1>4. Registered(x) = Registered(t)
  BY <1>1, <1>3 DEF Registered
<1>5. t.classifier # None =>
          /\ SameClassifier(x.classifier, t.classifier)
          /\ ~x.classifier.transposed /\ x.classifier.place = At(FirstDevice(t), t.classifier.dtype)
  BY <1>1 DEF SameClassifier, LoadedClassifier
<1>6. ASSUME NEW k \in DOMAIN t.poolers
      PROVE  /\ SamePooler(x.poolers[k], t.poolers[k]) /\ x.poolers[k].dtype = t.poolers[k].dtype
             /\ ~x.poolers[k].spyre /\ ~x.poolers[k].defers /\ ~x.poolers[k].trims
             /\ ~x.poolers[k].spyreHead /\ ~x.poolers[k].spyreNorm
             /\ x.poolers[k].weight = At(IF k \in Registered(t) THEN "spyre" ELSE "host", "fp32")
  <2> DEFINE place == At(IF k \in Registered(t) THEN "spyre" ELSE "host", "fp32")  q == x.poolers[k]
             p == t.poolers[k]
  <2>1. q = LoadedPooler(p, place)
    BY <1>1, <1>6
  <2> HIDE DEF q, p, place
  <2>2. /\ q.kind = p.kind /\ q.exact = p.exact /\ q.pooling = p.pooling /\ q.head = p.head
        /\ q.projector = p.projector /\ q.normalize = p.normalize /\ q.dtype = p.dtype
    BY <2>1 DEF LoadedPooler
  <2>3. ~q.spyre /\ ~q.defers /\ ~q.trims /\ ~q.spyreHead /\ ~q.spyreNorm /\ q.weight = place
    BY <2>1 DEF LoadedPooler
  <2> QED
    BY <2>2, <2>3 DEF SamePooler, q, p, place
<1> QED
  BY <1>1, <1>2, <1>4, <1>5, <1>6 DEF x

\* A tail whose pooling methods are those of Spyre and, when converted, its classifiers too.
OnItsWay(w, t, converted) ==
    /\ w \in TailTypes(DOMAIN t.poolers) /\ Registered(w) = Registered(t)
    /\ w.dispatch = t.dispatch /\ w.trimsToReal = t.dispatch /\ ~w.wrapped /\ w.stays
    /\ t.classifier = None => w.classifier = None
    /\ t.classifier # None =>
          /\ w.classifier # None /\ SameClassifier(w.classifier, t.classifier)
          /\ w.modelDtype = IF converted /\ t.modelDtype # None THEN "fp16" ELSE t.modelDtype
          /\ w.classifier.transposed = (converted /\ t.classifier.linear)
          /\ w.classifier.place = IF converted /\ t.classifier.dtype = "fp32" THEN At("spyre", "fp16")
                                  ELSE At(FirstDevice(t), t.classifier.dtype)
    /\ \A k \in DOMAIN t.poolers :
          /\ SamePooler(w.poolers[k], t.poolers[k]) /\ CastsTo(w.poolers[k], t.poolers[k], t, converted)
          /\ (w.poolers[k].spyre <=> Recognised(t.poolers[k])) /\ (w.poolers[k].defers <=> w.poolers[k].trims)
          /\ ~w.poolers[k].spyreHead /\ ~w.poolers[k].spyreNorm
          /\ w.poolers[k].weight = At(IF k \in Registered(t) THEN "spyre" ELSE "host", "fp32")

\* Replacing the methods leaves a tail on its way.
LEMMA PatchedTail ==
    ASSUME NEW t, VllmBuilds(t)
    PROVE  OnItsWay(patch_pooler_for_spyre(Loaded(t)), t, FALSE)
<1> DEFINE x == Loaded(t)
           y == patch_pooler_for_spyre(x)
           D == DOMAIN t.poolers
<1>1. x \in TailTypes(D)
  BY LoadedIs
<1>2. /\ y \in TailTypes(D)
      /\ \A k \in D :
            /\ ~Recognised(x.poolers[k]) => y.poolers[k] = x.poolers[k]
            /\ Recognised(x.poolers[k]) =>
                  y.poolers[k] = WithMethod(x.poolers[k])
      /\ y.dispatch = x.dispatch /\ y.trimsToReal = x.trimsToReal /\ y.wrapped = x.wrapped /\ y.stays = x.stays
      /\ y.modelDtype = x.modelDtype /\ y.classifier = x.classifier
  <2> HIDE DEF D, x, y
  <2>1. y = patch_pooler_for_spyre(x)
    BY DEF y
  <2> QED
    BY <1>1, <2>1, PatchedIs
<1> HIDE DEF x, y
<1>4. DOMAIN y.poolers = D /\ DOMAIN x.poolers = D
  BY <1>1, <1>2 DEF TailTypes
<1>5. Registered(y) = Registered(x)
  BY <1>2, <1>4 DEF Registered
<1>6. ASSUME NEW k \in D
      PROVE  /\ SamePooler(y.poolers[k], t.poolers[k]) /\ y.poolers[k].dtype = t.poolers[k].dtype
             /\ (y.poolers[k].spyre <=> Recognised(t.poolers[k])) /\ (y.poolers[k].defers <=> y.poolers[k].trims)
             /\ ~y.poolers[k].spyreHead /\ ~y.poolers[k].spyreNorm
             /\ y.poolers[k].weight = At(IF k \in Registered(t) THEN "spyre" ELSE "host", "fp32")
  <2>1. /\ SamePooler(x.poolers[k], t.poolers[k]) /\ x.poolers[k].dtype = t.poolers[k].dtype
        /\ ~x.poolers[k].spyre /\ ~x.poolers[k].defers /\ ~x.poolers[k].trims
        /\ ~x.poolers[k].spyreHead /\ ~x.poolers[k].spyreNorm
        /\ x.poolers[k].weight = At(IF k \in Registered(t) THEN "spyre" ELSE "host", "fp32")
    BY Started DEF x
  <2>2. Recognised(x.poolers[k]) <=> Recognised(t.poolers[k])
    BY <2>1 DEF SamePooler, Recognised
  <2>3. x.poolers[k] \in LoadedPoolers
    BY <1>1 DEF TailTypes
  <2>4. CASE ~Recognised(t.poolers[k])
    <3>1. y.poolers[k] = x.poolers[k]
      BY <1>2, <2>2, <2>4
    <3> QED
      BY <2>1, <2>4, <3>1
  <2>5. CASE Recognised(t.poolers[k])
    <3> DEFINE q == WithMethod(x.poolers[k])
    <3>1. y.poolers[k] = q
      BY <1>2, <2>2, <2>5
    <3>2. /\ SamePooler(q, x.poolers[k]) /\ q.dtype = x.poolers[k].dtype /\ q.spyre /\ q.defers = q.trims
          /\ ~q.spyreHead /\ ~q.spyreNorm /\ q.weight = x.poolers[k].weight
      BY <2>1, <2>3 DEF LoadedPoolers, SamePooler, WithMethod
    <3> HIDE DEF q
    <3> QED
      BY <2>1, <2>3, <2>5, <3>1, <3>2 DEF SamePooler
  <2> QED
    BY <2>4, <2>5
<1>7. ASSUME NEW k \in D PROVE CastsTo(y.poolers[k], t.poolers[k], t, FALSE)
  <2>1. t.poolers[k].dtype \in Dtypes \cup {None}
    BY DEF VllmBuilds, PoolerTypes
  <2> QED
    BY <1>6, <2>1 DEF CastsTo
<1>8. /\ x.dispatch = t.dispatch /\ x.trimsToReal = t.dispatch /\ x.modelDtype = t.modelDtype
      /\ ~x.wrapped /\ x.stays
      /\ t.classifier = None => x.classifier = None
      /\ t.classifier # None =>
            /\ x.classifier # None /\ SameClassifier(x.classifier, t.classifier)
            /\ ~x.classifier.transposed /\ x.classifier.place = At(FirstDevice(t), t.classifier.dtype)
      /\ Registered(x) = Registered(t)
  BY Started DEF x
<1>9. t.classifier # None => x.classifier.transposed \in BOOLEAN
  BY <1>1, <1>8 DEF TailTypes, LoadedTypes
<1>10. OnItsWay(y, t, FALSE)
  BY <1>2, <1>5, <1>6, <1>7, <1>8, <1>9 DEF OnItsWay
<1> QED
  BY <1>10 DEF x, y

\* So does converting the classifiers, and where it is skipped there is none to convert.
LEMMA ConvertedTail ==
    ASSUME NEW t, VllmBuilds(t), NEW y, OnItsWay(y, t, FALSE)
    PROVE  OnItsWay(IF token_level(y) \/ _classifier_roots(y)
                    THEN patch_classifier_linears_for_spyre(prepare_fp32_head_for_spyre(y)) ELSE y, t, TRUE)
<1> DEFINE z == patch_classifier_linears_for_spyre(prepare_fp32_head_for_spyre(y))
           D == DOMAIN t.poolers
<1>1. y \in TailTypes(D) /\ DOMAIN y.poolers = D
  BY DEF OnItsWay, TailTypes
<1>2. _classifier_roots(y) <=> y.classifier # None
  <2>1. ASSUME y.classifier # None PROVE y.classifier.attr = "classifier" \/ y.classifier.holders \cap D # {}
    <3>1. t.classifier # None /\ SameClassifier(y.classifier, t.classifier)
      BY <2>1 DEF OnItsWay
    <3>2. t.classifier.holders \subseteq D /\ (t.classifier.holders = {} => t.classifier.attr = "classifier")
      BY <3>1 DEF VllmBuilds
    <3> QED
      BY <3>1, <3>2 DEF SameClassifier
  <2> QED
    BY <1>1, <2>1 DEF _classifier_roots, _iter_modules
<1>3. CASE token_level(y) \/ _classifier_roots(y)
  <2>1. /\ z \in TailTypes(D)
        /\ z.dispatch = y.dispatch /\ z.trimsToReal = y.trimsToReal /\ z.wrapped = y.wrapped
        /\ z.stays = y.stays
        /\ z.modelDtype = IF y.modelDtype = None THEN None ELSE "fp16"
        /\ y.classifier = None => z.classifier = None
        /\ y.classifier # None =>
              /\ z.classifier # None
              /\ z.classifier.linear = y.classifier.linear /\ z.classifier.dtype = y.classifier.dtype
              /\ z.classifier.attr = y.classifier.attr /\ z.classifier.holders = y.classifier.holders
              /\ z.classifier.transposed = (y.classifier.transposed \/ y.classifier.linear)
              /\ z.classifier.place = IF y.classifier.place.dtype = "fp32" THEN At("spyre", "fp16")
                                      ELSE y.classifier.place
        /\ \A k \in D :
              z.poolers[k] = IF y.poolers[k].head = "classify" /\ y.poolers[k].dtype # None
                             THEN [y.poolers[k] EXCEPT !.dtype = "fp16"] ELSE y.poolers[k]
    BY <1>1, <1>2, PreparedIs
  <2> HIDE DEF z
  <2>2. /\ Registered(y) = Registered(t) /\ y.dispatch = t.dispatch /\ y.trimsToReal = t.dispatch
        /\ ~y.wrapped /\ y.stays /\ (t.classifier = None => y.classifier = None)
        /\ t.classifier # None =>
              /\ y.classifier # None /\ SameClassifier(y.classifier, t.classifier)
              /\ y.modelDtype = t.modelDtype
              /\ ~y.classifier.transposed /\ y.classifier.place = At(FirstDevice(t), t.classifier.dtype)
    BY DEF OnItsWay
  <2>3. Registered(z) = Registered(t)
    <3>1. DOMAIN z.poolers = D
      BY <2>1 DEF TailTypes
    <3> QED
      BY <1>1, <2>1, <2>2, <3>1 DEF Registered
  <2>4. ASSUME t.classifier # None
        PROVE  /\ z.classifier # None /\ SameClassifier(z.classifier, t.classifier)
               /\ z.modelDtype = IF t.modelDtype # None THEN "fp16" ELSE t.modelDtype
               /\ z.classifier.transposed = t.classifier.linear
               /\ z.classifier.place = IF t.classifier.dtype = "fp32" THEN At("spyre", "fp16")
                                       ELSE At(FirstDevice(t), t.classifier.dtype)
    <3>1. y.classifier # None /\ y.classifier \in LoadedTypes
      BY <1>1, <2>2, <2>4 DEF TailTypes
    <3>2. y.classifier.place.dtype = t.classifier.dtype
      BY <2>2, <2>4 DEF At
    <3>3. y.classifier.linear = t.classifier.linear /\ y.classifier.linear \in BOOLEAN /\ ~y.classifier.transposed
      BY <2>2, <2>4, <3>1 DEF SameClassifier, LoadedTypes
    <3>4. z.classifier.transposed = t.classifier.linear
      BY <2>1, <3>1, <3>3
    <3>6. SameClassifier(z.classifier, t.classifier)
      BY <2>1, <2>2, <2>4, <3>1 DEF SameClassifier
    <3> QED
      BY <2>1, <2>2, <2>4, <3>1, <3>2, <3>4, <3>6
  <2>5. ASSUME NEW k \in D
        PROVE  /\ SamePooler(z.poolers[k], t.poolers[k]) /\ CastsTo(z.poolers[k], t.poolers[k], t, TRUE)
               /\ (z.poolers[k].spyre <=> Recognised(t.poolers[k])) /\ (z.poolers[k].defers <=> z.poolers[k].trims)
               /\ ~z.poolers[k].spyreHead /\ ~z.poolers[k].spyreNorm
               /\ z.poolers[k].weight = At(IF k \in Registered(t) THEN "spyre" ELSE "host", "fp32")
    <3>1. /\ SamePooler(y.poolers[k], t.poolers[k]) /\ CastsTo(y.poolers[k], t.poolers[k], t, FALSE)
          /\ (y.poolers[k].spyre <=> Recognised(t.poolers[k])) /\ (y.poolers[k].defers <=> y.poolers[k].trims)
          /\ ~y.poolers[k].spyreHead /\ ~y.poolers[k].spyreNorm
          /\ y.poolers[k].weight = At(IF k \in Registered(t) THEN "spyre" ELSE "host", "fp32")
      BY DEF OnItsWay
    <3>2. y.poolers[k] \in LoadedPoolers
      BY <1>1 DEF TailTypes
    <3>3. CASE ~(y.poolers[k].head = "classify" /\ y.poolers[k].dtype # None)
      <4>1. z.poolers[k] = y.poolers[k]
        BY <2>1, <3>3
      <4>2. t.poolers[k].head = y.poolers[k].head
        BY <3>1 DEF SamePooler
      <4>3. CastsTo(y.poolers[k], t.poolers[k], t, TRUE)
        BY <3>1, <3>3, <4>2 DEF CastsTo
      <4> QED
        BY <3>1, <4>1, <4>3
    <3>4. CASE y.poolers[k].head = "classify" /\ y.poolers[k].dtype # None
      <4> DEFINE q == [y.poolers[k] EXCEPT !.dtype = "fp16"]
      <4>1. z.poolers[k] = q
        BY <2>1, <3>4
      <4>2. /\ q.kind = y.poolers[k].kind /\ q.exact = y.poolers[k].exact /\ q.pooling = y.poolers[k].pooling
            /\ q.head = y.poolers[k].head /\ q.projector = y.poolers[k].projector
            /\ q.normalize = y.poolers[k].normalize /\ q.spyre = y.poolers[k].spyre
            /\ q.defers = y.poolers[k].defers /\ q.trims = y.poolers[k].trims
            /\ q.spyreHead = y.poolers[k].spyreHead /\ q.spyreNorm = y.poolers[k].spyreNorm
            /\ q.weight = y.poolers[k].weight /\ q.dtype = "fp16"
        BY <3>2 DEF LoadedPoolers
      <4> HIDE DEF q
      <4>3. SamePooler(q, t.poolers[k])
        BY <3>1, <4>2 DEF SamePooler
      <4>4. CastsTo(q, t.poolers[k], t, TRUE)
        BY <3>1, <3>4, <4>2, NoneIs DEF CastsTo, SamePooler, Dtypes
      <4> QED
        BY <3>1, <4>1, <4>2, <4>3, <4>4
    <3> QED
      BY <3>3, <3>4
  <2>6. OnItsWay(z, t, TRUE)
    BY <2>1, <2>2, <2>3, <2>4, <2>5 DEF OnItsWay
  <2> QED
    BY <1>3, <2>6 DEF z
<1>4. CASE ~(token_level(y) \/ _classifier_roots(y))
  <2>1. t.classifier = None
    BY <1>2, <1>4 DEF OnItsWay
  <2>2. OnItsWay(y, t, TRUE)
    BY <2>1 DEF OnItsWay, CastsTo
  <2> QED
    BY <1>4, <2>2
<1> QED
  BY <1>3, <1>4

\* Casts and products at the two devices.
LEMMA PlacesAre ==
    ASSUME NEW dev \in {"spyre", "host"}, NEW d \in Dtypes
    PROVE  /\ At(dev, d) # Garbage /\ At(dev, d).dev = dev /\ At(dev, d).dtype = d
           /\ OnHost(At(dev, d)) = At("host", d)
           /\ Cast(At(dev, d), d) = At(dev, d) /\ Cast(At(dev, d), None) = At(dev, d)
           /\ \A e \in Dtypes : Cast(At("host", d), e) = At("host", e)
           /\ MatMul(At("host", d), At("host", d)) = At("host", d)
           /\ MatMul(At(dev, "fp16"), At(dev, "fp16")) = At(dev, "fp16")
           /\ _match_weight(At("spyre", "fp16"), At(dev, d)) = At(dev, d)
           /\ _match_weight(At("host", d), At(dev, d)) = At(dev, d)
<1>1. \A dv \in {"spyre", "host"} : \A e \in Dtypes :
          /\ At(dv, e) # Garbage /\ At(dv, e).dev = dv /\ At(dv, e).dtype = e
          /\ At(dv, e) = At("spyre", "fp32") => dv = "spyre" /\ e = "fp32"
  BY DEF At, Garbage, Dtypes
<1>2. OnHost(At(dev, d)) = At("host", d)
  BY DEF OnHost, At
<1>3. Cast(At(dev, d), d) = At(dev, d) /\ Cast(At(dev, d), None) = At(dev, d)
  BY <1>1 DEF Cast
<1>4. ASSUME NEW e \in Dtypes PROVE Cast(At("host", d), e) = At("host", e)
  <2>1. [At("host", d) EXCEPT !.dtype = e] = At("host", e)
    BY DEF At
  <2> QED
    BY <1>1, <2>1, NoneIs DEF Cast
<1>5. MatMul(At("host", d), At("host", d)) = At("host", d)
  BY <1>1 DEF MatMul
<1>6. MatMul(At(dev, "fp16"), At(dev, "fp16")) = At(dev, "fp16")
  <2>1. "fp16" \in Dtypes
    BY DEF Dtypes
  <2> QED
    BY <1>1, <2>1 DEF MatMul
<1>7. /\ _match_weight(At("spyre", "fp16"), At(dev, d)) = At(dev, d)
      /\ _match_weight(At("host", d), At(dev, d)) = At(dev, d)
  <2>1. "fp16" \in Dtypes
    BY DEF Dtypes
  <2> QED
    BY <1>1, <2>1 DEF _match_weight
<1> QED
  BY <1>1, <1>2, <1>3, <1>4, <1>5, <1>6, <1>7

\* A tail that moves to the host computes there from end to end.
LEMMA HostTail ==
    ASSUME NEW t, VllmBuilds(t), NEW converted \in BOOLEAN, NEW w, OnItsWay(w, t, converted),
           converted => ~t.dispatch,
           NEW f, f = run_pooling_tail_on_cpu(w), ~Stranded(f), NEW k \in DOMAIN t.poolers
    PROVE  Sound(f, k)
<1> DEFINE p == t.poolers[k]
           q == f.poolers[k]
           c == t.classifier
           d == f.classifier
           D == DOMAIN t.poolers
           dt == IF converted /\ c.dtype = "fp32" THEN "fp16" ELSE c.dtype
<1>1. w \in TailTypes(D)
  BY DEF OnItsWay
<1>2. /\ ~f.stays /\ f.dispatch = t.dispatch
      /\ q = IF k \in Registered(w) THEN [w.poolers[k] EXCEPT !.weight = At("host", w.poolers[k].weight.dtype)]
             ELSE w.poolers[k]
  BY <1>1, CpuTailIs DEF OnItsWay
<1>3. /\ SamePooler(q, p) /\ CastsTo(q, p, t, converted) /\ (q.defers <=> q.trims) /\ ~q.spyreHead
      /\ q.weight = At("host", "fp32")
  <2> DEFINE o == w.poolers[k]
  <2>1. /\ SamePooler(o, p) /\ CastsTo(o, p, t, converted) /\ (o.defers <=> o.trims) /\ ~o.spyreHead
        /\ o.weight = At(IF k \in Registered(t) THEN "spyre" ELSE "host", "fp32")
        /\ Registered(w) = Registered(t)
    BY DEF OnItsWay
  <2>2. o \in LoadedPoolers
    BY <1>1 DEF TailTypes
  <2>3. CASE k \in Registered(t)
    <3> DEFINE r == [o EXCEPT !.weight = At("host", o.weight.dtype)]
    <3>1. q = r
      BY <1>2, <2>1, <2>3
    <3>2. /\ r.kind = o.kind /\ r.exact = o.exact /\ r.pooling = o.pooling /\ r.head = o.head
          /\ r.projector = o.projector /\ r.normalize = o.normalize /\ r.dtype = o.dtype
          /\ r.defers = o.defers /\ r.trims = o.trims /\ r.spyreHead = o.spyreHead
          /\ r.weight = At("host", o.weight.dtype)
      BY <2>2 DEF LoadedPoolers
    <3>3. o.weight.dtype = "fp32"
      BY <2>1 DEF At
    <3> HIDE DEF r, o, p, q
    <3> QED
      BY <2>1, <3>1, <3>2, <3>3 DEF SamePooler, CastsTo
  <2>4. CASE k \notin Registered(t)
    <3>1. q = o
      BY <1>2, <2>1, <2>4
    <3> HIDE DEF o, p, q
    <3> QED
      BY <2>1, <2>4, <3>1
  <2> QED
    BY <2>3, <2>4
<1>4. c = None => w.classifier = None
  BY DEF OnItsWay
<1>5. c # None =>
          /\ w.classifier # None /\ SameClassifier(w.classifier, c)
          /\ w.modelDtype = IF converted /\ t.modelDtype # None THEN "fp16" ELSE t.modelDtype
          /\ w.classifier.transposed = (converted /\ c.linear)
          /\ w.classifier.place = IF converted /\ c.dtype = "fp32" THEN At("spyre", "fp16")
                                  ELSE At(FirstDevice(t), c.dtype)
  BY DEF OnItsWay
<1>6. c # None =>
          /\ c \in ClassifierTypes /\ c.holders \subseteq D /\ c.dtype \in Dtypes
          /\ \A j \in c.holders : t.poolers[j].head = "classify" /\ t.poolers[j].dtype = c.dtype
          /\ c.holders = {} => c.attr = "classifier" /\ t.modelDtype = c.dtype
  BY DEF VllmBuilds, ClassifierTypes
<1>7. /\ Registered(w) = Registered(t) /\ Registered(t) = (IF t.dispatch THEN {} ELSE D) /\ t.dispatch \in BOOLEAN
      /\ converted => ~t.dispatch
  BY DEF OnItsWay, Registered, VllmBuilds
<1>8. LET named == w.classifier # None /\ w.classifier.attr = "classifier"
          owned == w.classifier # None /\ w.classifier.holders \cap Registered(w) # {} IN
      /\ f.wrapped = (named /\ ~owned)
      /\ f.modelDtype = IF named /\ ~owned /\ w.modelDtype # None THEN "fp16" ELSE w.modelDtype
      /\ w.classifier = None => d = None
      /\ w.classifier # None =>
            /\ d # None /\ d.linear = w.classifier.linear /\ d.dtype = w.classifier.dtype
            /\ d.attr = w.classifier.attr /\ d.holders = w.classifier.holders
            /\ d.transposed = w.classifier.transposed
            /\ d.place = IF named \/ owned THEN At("host", w.classifier.place.dtype) ELSE w.classifier.place
  <2> HIDE DEF D
  <2> QED
    BY <1>1, CpuTailIs
<1>9. f \in TailTypes(D)
  <2> HIDE DEF D
  <2> QED
    BY <1>1, CpuTailIs
<1>10. c = None => d = None
  BY <1>4, <1>8
<1>11. t.dispatch /\ d # None => d.attr \in {"classifier", None}
  BY <1>2 DEF Stranded
<1> HIDE DEF p, q, c, d, D
<1>12. ASSUME c # None
      PROVE  /\ d # None /\ SameClassifier(d, c) /\ d.transposed = (converted /\ c.linear)
             /\ d.place = At("host", dt) /\ dt \in Dtypes
             /\ c.holders = {} => f.wrapped /\ f.modelDtype \in {None, "fp16"}
  <2>1. SameClassifier(d, c) /\ d.transposed = (converted /\ c.linear)
    BY <1>12, <1>5, <1>8 DEF SameClassifier
  <2>2. dt \in Dtypes /\ w.classifier.place.dtype = dt
    BY <1>12, <1>5, <1>6 DEF Dtypes, At
  <2>3. d # None
    BY <1>12, <1>5, <1>8
  <2>4. d.place = At("host", dt)
    <3>1. CASE w.classifier.attr = "classifier" \/ w.classifier.holders \cap Registered(w) # {}
      BY <1>12, <1>5, <1>8, <2>2, <3>1
    <3>2. CASE ~(w.classifier.attr = "classifier" \/ w.classifier.holders \cap Registered(w) # {})
      <4>1. c.attr # "classifier" /\ c.holders \cap Registered(t) = {} /\ c.holders # {}
        BY <1>12, <1>5, <1>7, <1>6, <3>2 DEF SameClassifier
      <4>2. t.dispatch
        BY <1>12, <1>7, <1>6, <4>1
      <4>3. c.attr = None
        BY <1>11, <2>1, <2>3, <4>1, <4>2 DEF SameClassifier
      <4>4. FirstDevice(t) = "host"
        BY <4>1, <4>3 DEF FirstDevice, c
      <4>5. ~converted /\ w.classifier.place = At("host", dt)
        BY <1>12, <1>5, <1>7, <4>2, <4>4
      <4> QED
        BY <1>12, <1>5, <1>8, <3>2, <4>5
    <3> QED
      BY <3>1, <3>2
  <2>5. ASSUME c.holders = {} PROVE f.wrapped /\ f.modelDtype \in {None, "fp16"}
    BY <1>12, <1>5, <1>8, <1>6, <2>5 DEF SameClassifier
  <2> QED
    BY <2>1, <2>2, <2>3, <2>4, <2>5
<1> HIDE DEF dt
<1>13. "fp16" \in Dtypes
  BY DEF Dtypes
<1>14. \E e \in Dtypes : Rows0(f) = At("host", e)
  <2>1. CASE c = None \/ c.holders # {}
    <3>1. d = None \/ d.holders # {}
      BY <1>10, <1>12, <2>1 DEF SameClassifier
    <3>2. Rows0(f) = OnHost(At("spyre", "fp16"))
      BY <1>2, <1>13, <3>1, PlacesAre DEF Rows0, d
    <3> QED
      BY <1>13, <3>2, PlacesAre
  <2>2. CASE c # None /\ c.holders = {}
    <3>1. d # None /\ d.holders = {} /\ f.wrapped /\ f.modelDtype \in {None, "fp16"} /\ d.place = At("host", dt) /\ dt \in Dtypes
      BY <1>12, <2>2 DEF SameClassifier
    <3>2. Cast(At("spyre", "fp16"), f.modelDtype) = At("spyre", "fp16") /\ At("spyre", "fp16") # Garbage
      BY <1>13, <3>1, PlacesAre
    <3>3. MatMul(At("host", d.place.dtype), d.place) = At("host", dt) /\ At("host", dt) # Garbage
      BY <3>1, PlacesAre
    <3>4. Rows0(f) = OnHost(At("host", dt))
      BY <1>2, <3>1, <3>2, <3>3 DEF Rows0, d
    <3> QED
      BY <3>1, <3>4, PlacesAre
  <2> QED
    BY <2>1, <2>2
<1>15. PICK e \in Dtypes : Rows0(f) = At("host", e)
  BY <1>14
<1>16. /\ At("host", e) # Garbage /\ At("host", e).dev = "host"
       /\ Pooled(f, k) = CASE q.head = "embed" -> EmbedHead(q, At("host", e))
                            [] q.head = "classify" ->
                                 LET cast == Cast(At("host", e), q.dtype)
                                 IN IF Holds(f, k) THEN Classify(d, cast) ELSE cast
                            [] OTHER -> At("host", e)
  <2>1. At("host", e) # Garbage /\ At("host", e).dev = "host"
    BY PlacesAre
  <2> QED
    BY <1>15, <2>1 DEF Pooled, q, d
<1>17. /\ p \in PoolerTypes /\ p.dtype \in Dtypes \cup {None} /\ p.head \in {"embed", "classify", None}
       /\ p.projector => p.dtype = "fp32"
       /\ q.head = p.head /\ q.projector = p.projector /\ q.normalize = p.normalize
  BY <1>3 DEF VllmBuilds, PoolerTypes, p, SamePooler
<1>18. ASSUME p.head = "embed" PROVE Pooled(f, k) # Garbage
  <2> DEFINE g == IF q.dtype = None THEN e ELSE q.dtype
  <2>1. q.dtype = p.dtype /\ p.head # "classify"
    BY <1>3, <1>18 DEF CastsTo
  <2>2. g \in Dtypes
    BY <1>17, <2>1
  <2>3. _cpu_cast_if_needed(q, At("host", e)) = At("host", e)
    BY <1>3 DEF _cpu_cast_if_needed
  <2>4. Cast(At("host", e), q.dtype) = At("host", g)
    BY <1>17, <2>1, PlacesAre
  <2>5. q.projector => At("host", g) = q.weight
    BY <1>3, <1>17, <2>1, NoneIs
  <2>6. q.projector => MatMul(At("host", g), q.weight) = At("host", g)
    BY <2>2, <2>5, PlacesAre
  <2>7. At("host", g).dev = "host" /\ At("host", g) # Garbage
    BY <2>2, PlacesAre
  <2> HIDE DEF g
  <2>8. EmbedHead(q, At("host", e)) = At("host", g)
    BY <2>3, <2>4, <2>6, <2>7 DEF EmbedHead
  <2> QED
    BY <1>18, <1>16, <1>17, <2>7, <2>8
<1>19. ASSUME p.head = "classify" PROVE Pooled(f, k) # Garbage
  <2> DEFINE g == IF q.dtype = None THEN e ELSE q.dtype
             cast == Cast(At("host", e), q.dtype)
  <2>1. q.dtype \in Dtypes \cup {None}
    BY <1>3, <1>19, <1>13, <1>17 DEF CastsTo
  <2>2. g \in Dtypes /\ cast = At("host", g)
    BY <2>1, PlacesAre
  <2>3. At("host", g) # Garbage
    BY <2>2, PlacesAre
  <2>4. ASSUME Holds(f, k) PROVE Classify(d, At("host", g)) # Garbage
    <3>1. c # None
      BY <1>10, <2>4 DEF Holds, d
    <3>2. k \in c.holders /\ d.place = At("host", dt) /\ dt \in Dtypes /\ d.transposed = (converted /\ c.linear)
      BY <1>12, <2>4, <3>1 DEF Holds, d, SameClassifier
    <3>3. p.dtype = c.dtype /\ c.dtype \in Dtypes
      BY <1>6, <3>1, <3>2 DEF p
    <3>4. q.dtype = IF converted /\ p.dtype # None THEN "fp16" ELSE p.dtype
      BY <1>3, <1>19, <3>1 DEF CastsTo, c
    <3>5. g = dt
      BY <3>3, <3>4, NoneIs DEF dt, Dtypes
    <3>6. d.place # Garbage /\ d.place.dev = "host" /\ MatMul(d.place, d.place) = d.place
          /\ _match_weight(At("host", g), d.place) = d.place
      BY <3>2, <3>5, PlacesAre
    <3> QED
      BY <3>2, <3>5, <3>6 DEF Classify
  <2>5. Pooled(f, k) = IF Holds(f, k) THEN Classify(d, cast) ELSE cast
    BY <1>19, <1>16, <1>17
  <2> HIDE DEF g, cast
  <2> QED
    BY <2>2, <2>3, <2>4, <2>5
<1>20. p.head = None => Pooled(f, k) # Garbage
  BY <1>16, <1>17, NoneIs
<1> QED
  BY <1>2, <1>3, <1>18, <1>19, <1>20, <1>17 DEF Sound, q

\* A tail that stays multiplies in float16 on Spyre, or on the host where its cast took it, but
\* for a head nothing casts and a classifier nobody fetches rows for.
LEMMA SpyreTail ==
    ASSUME NEW t, VllmBuilds(t), NEW z, OnItsWay(z, t, TRUE), Clean(t), ~fp32_head(z),
           NEW f, f = patch_heads(z), NEW k \in DOMAIN t.poolers
    PROVE  Sound(f, k) \/ Uncast(f, k) \/ Unfetched(f, k)
<1> DEFINE p == t.poolers[k]
           q == f.poolers[k]
           c == t.classifier
           d == f.classifier
           D == DOMAIN t.poolers
<1>1. z \in TailTypes(D)
  BY DEF OnItsWay
<1>2. /\ f.stays /\ ~f.trimsToReal /\ ~f.wrapped /\ f.modelDtype = z.modelDtype /\ d = z.classifier
      /\ q = WithHead(z.poolers[k])
  <2>1. z.stays /\ ~z.wrapped
    BY DEF OnItsWay
  <2> QED
    BY <1>1, <2>1, HeadsAre
<1>3. /\ SamePooler(q, p) /\ CastsTo(q, p, t, TRUE) /\ (q.defers <=> q.trims) /\ q.spyre
      /\ (q.spyreHead <=> p.head = "embed") /\ q.spyreNorm = p.normalize
      /\ q.weight = At(IF k \in Registered(t) THEN "spyre" ELSE "host", "fp32")
  <2> DEFINE o == z.poolers[k]
             r == WithHead(o)
  <2>1. /\ SamePooler(o, p) /\ CastsTo(o, p, t, TRUE) /\ (o.defers <=> o.trims) /\ o.spyre
        /\ o.weight = At(IF k \in Registered(t) THEN "spyre" ELSE "host", "fp32")
    BY DEF OnItsWay, Clean
  <2>2. o \in LoadedPoolers
    BY <1>1 DEF TailTypes
  <2>3. /\ r.kind = o.kind /\ r.exact = o.exact /\ r.pooling = o.pooling /\ r.head = o.head
        /\ r.projector = o.projector /\ r.normalize = o.normalize /\ r.dtype = o.dtype /\ r.spyre = o.spyre
        /\ r.defers = o.defers /\ r.trims = o.trims /\ (r.spyreHead <=> o.head = "embed")
        /\ r.spyreNorm = o.normalize /\ r.weight = o.weight
    BY <2>2 DEF LoadedPoolers, WithHead
  <2>4. q = r
    BY <1>2
  <2> HIDE DEF r, o, p, q
  <2> QED
    BY <2>1, <2>3, <2>4 DEF SamePooler, CastsTo
<1>4. c = None => d = None
  BY <1>2 DEF OnItsWay
<1>5. c # None =>
          /\ d # None /\ SameClassifier(d, c)
          /\ f.modelDtype = IF t.modelDtype # None THEN "fp16" ELSE t.modelDtype
          /\ d.transposed = c.linear
          /\ d.place = IF c.dtype = "fp32" THEN At("spyre", "fp16") ELSE At(FirstDevice(t), c.dtype)
  BY <1>2 DEF OnItsWay, VllmBuilds, ClassifierTypes
<1>6. c # None =>
          /\ c.holders \subseteq D /\ c.dtype \in Dtypes /\ c.linear \in BOOLEAN
          /\ c.holders = {} => c.attr = "classifier"
  BY DEF VllmBuilds, ClassifierTypes
<1>7. Registered(t) = (IF t.dispatch THEN {} ELSE D) /\ t.dispatch \in BOOLEAN
  BY DEF Registered, VllmBuilds
<1>8. k \in Registered(t) /\ p.head = "embed" => ~p.projector
  <2>1. SamePooler(z.poolers[k], p) /\ Registered(z) = Registered(t)
    BY DEF OnItsWay
  <2> QED
    BY <2>1 DEF fp32_head, SamePooler
<1> HIDE DEF p, q, c, d, D
<1>9. ASSUME c # None
      PROVE  /\ \E dev \in {"spyre", "host"} : d.place = At(dev, "fp16")
             /\ c.holders = {} => d.place = At("spyre", "fp16")
  <2>1. FirstDevice(t) \in {"spyre", "host"}
    BY DEF FirstDevice
  <2>2. c.dtype \in {"fp16", "fp32"}
    BY <1>6, <1>9 DEF Dtypes
  <2>3. d.place = At("spyre", "fp16") \/ d.place = At(FirstDevice(t), "fp16")
    BY <1>5, <1>9, <2>2
  <2>4. ASSUME c.holders = {} PROVE FirstDevice(t) = "spyre"
    BY <1>6, <1>9, <2>4, NoneIs DEF FirstDevice, c
  <2> QED
    BY <1>5, <1>9, <2>1, <2>2, <2>3, <2>4
<1>10. "fp16" \in Dtypes /\ "fp32" \in Dtypes
  BY DEF Dtypes
<1> DEFINE x == At("spyre", "fp16")
<1>11. /\ x # Garbage /\ x.dev = "spyre" /\ x.dtype = "fp16" /\ x # At("spyre", "fp32")
       /\ Cast(x, None) = x /\ Cast(x, "fp16") = x /\ MatMul(x, x) = x
       /\ \A dev \in {"spyre", "host"} :
             /\ _match_weight(x, At(dev, "fp16")) = At(dev, "fp16")
             /\ MatMul(At(dev, "fp16"), At(dev, "fp16")) = At(dev, "fp16")
             /\ At(dev, "fp16") # Garbage
  <2>1. x # At("spyre", "fp32")
    BY DEF At
  <2> QED
    BY <1>10, <2>1, PlacesAre
<1> HIDE DEF x
<1>12. ASSUME c # None
       PROVE  /\ Classify(d, x) # Garbage \/ (~d.linear /\ d.place.dev = "host")
              /\ c.holders = {} => Classify(d, x) = x
  <2>1. PICK dev \in {"spyre", "host"} : d.place = At(dev, "fp16")
    BY <1>9, <1>12
  <2>2. CASE d.transposed
    <3>1. Classify(d, x) = d.place
      BY <1>11, <2>1, <2>2 DEF Classify
    <3> QED
      BY <1>9, <1>11, <1>12, <2>1, <3>1 DEF x
  <2>3. CASE ~d.transposed
    <3>1. ~d.linear
      BY <1>5, <1>12, <2>3 DEF SameClassifier
    <3>2. CASE dev = "spyre"
      <4>1. d.place = x
        BY <2>1, <3>2 DEF x
      <4>2. Classify(d, x) = x
        BY <1>11, <2>3, <3>1, <4>1 DEF Classify
      <4> QED
        BY <1>11, <4>2
    <3>3. CASE dev = "host"
      <4>1. d.place.dev = "host"
        BY <1>10, <2>1, <3>3, PlacesAre
      <4>2. x.dev # "host"
        BY <1>11
      <4>3. c.holders # {}
        BY <1>9, <1>12, <4>1, <4>2 DEF x
      <4> QED
        BY <3>1, <4>1, <4>3
    <3> QED
      BY <3>2, <3>3
  <2> QED
    BY <2>2, <2>3
<1>13. Rows0(f) = x
  <2>1. CASE c = None \/ c.holders # {}
    <3>1. d = None \/ d.holders # {}
      BY <1>4, <1>5, <2>1 DEF SameClassifier
    <3> QED
      BY <1>2, <3>1 DEF Rows0, d, x
  <2>2. CASE c # None /\ c.holders = {}
    <3>1. d # None /\ d.holders = {} /\ f.modelDtype \in {None, "fp16"}
      BY <1>5, <2>2 DEF SameClassifier
    <3>2. Cast(x, f.modelDtype) = x
      BY <1>11, <3>1
    <3>3. Classify(d, x) = x
      BY <1>12, <2>2
    <3> QED
      BY <1>2, <1>11, <3>1, <3>2, <3>3 DEF Rows0, d, x
  <2> QED
    BY <2>1, <2>2
<1>14. /\ p \in PoolerTypes /\ p.dtype \in Dtypes \cup {None} /\ p.head \in {"embed", "classify", None}
       /\ p.projector => p.dtype = "fp32"
       /\ q.head = p.head /\ q.projector = p.projector /\ q.normalize = p.normalize
  BY <1>3 DEF VllmBuilds, PoolerTypes, p, SamePooler
<1>15. Pooled(f, k) = CASE q.head = "embed" -> EmbedHead(q, x)
                        [] q.head = "classify" ->
                             LET cast == Cast(x, q.dtype) IN IF Holds(f, k) THEN Classify(d, cast) ELSE cast
                        [] OTHER -> x
  BY <1>3, <1>13 DEF Pooled, q, d
<1>16. ASSUME p.head = "embed" PROVE Pooled(f, k) # Garbage
  <2>1. q.dtype = p.dtype /\ q.spyreHead
    BY <1>3, <1>16 DEF CastsTo
  <2>2. CASE q.dtype \in {None, "fp16"}
    <3>1. _cpu_cast_if_needed(q, x) = x /\ Cast(x, q.dtype) = x
      BY <1>11, <2>2 DEF _cpu_cast_if_needed
    <3>2. ~q.projector
      BY <1>14, <2>1, <2>2, NoneIs
    <3>3. EmbedHead(q, x) = x
      BY <1>3, <1>14, <3>1, <3>2 DEF EmbedHead
    <3> QED
      BY <1>11, <1>14, <1>15, <1>16, <3>3
  <2>3. CASE q.dtype = "fp32"
    <3> DEFINE h == At("host", "fp32")
    <3>1. h # Garbage /\ h.dev = "host" /\ Cast(h, "fp32") = h /\ MatMul(h, h) = h
      BY <1>10, PlacesAre
    <3>2. _cpu_cast_if_needed(q, x) = h
      BY <1>11, <2>1, <2>3, NoneIs DEF _cpu_cast_if_needed
    <3>3. q.projector => q.weight = h
      BY <1>3, <1>8, <1>14, <1>16
    <3> HIDE DEF h
    <3>4. EmbedHead(q, x) = h
      BY <2>3, <3>1, <3>2, <3>3 DEF EmbedHead
    <3> QED
      BY <1>14, <1>15, <1>16, <3>1, <3>4
  <2> QED
    BY <1>14, <2>1, <2>2, <2>3 DEF Dtypes
<1>17. ASSUME p.head = "classify" PROVE Pooled(f, k) # Garbage \/ Uncast(f, k) \/ Unfetched(f, k)
  <2>1. q.dtype \in {None, "fp16"} \/ (c = None /\ q.dtype = "fp32")
    BY <1>3, <1>17 DEF CastsTo, c, Dtypes
  <2>2. CASE c = None /\ q.dtype = "fp32"
    BY <1>2, <1>4, <1>14, <1>17, <2>2 DEF Uncast, d, q
  <2>3. CASE q.dtype \in {None, "fp16"}
    <3>1. Cast(x, q.dtype) = x
      BY <1>11, <2>3
    <3>2. Holds(f, k) => c # None
      BY <1>4 DEF Holds, d
    <3>3. Holds(f, k) /\ ~d.linear /\ d.place.dev = "host" => Unfetched(f, k)
      BY <1>2 DEF Unfetched, d
    <3> QED
      BY <1>11, <1>12, <1>14, <1>15, <1>17, <3>1, <3>2, <3>3
  <2> QED
    BY <2>1, <2>2, <2>3
<1>18. ASSUME p.head = None PROVE Pooled(f, k) # Garbage
  BY <1>11, <1>14, <1>15, <1>18, NoneIs
<1> QED
  BY <1>2, <1>3, <1>14, <1>16, <1>17, <1>18 DEF Sound, q

\* A tail with a pooler the code does not know moves to the host as it is, one whose head stays in
\* float32 moves converted, and every other stays.
LEMMA TailAgrees ==
    ASSUME NEW t, VllmBuilds(t), NEW f, f = configure_pooling_for_spyre(Loaded(t))
    PROVE  Stranded(f) \/ \A k \in DOMAIN f.poolers : Sound(f, k) \/ Uncast(f, k) \/ Unfetched(f, k)
<1> DEFINE y == patch_pooler_for_spyre(Loaded(t))
           z == IF token_level(y) \/ _classifier_roots(y)
                THEN patch_classifier_linears_for_spyre(prepare_fp32_head_for_spyre(y)) ELSE y
           D == DOMAIN t.poolers
<1>1. OnItsWay(y, t, FALSE)
  BY PatchedTail
<1>2. OnItsWay(z, t, TRUE)
  <2> HIDE DEF y
  <2> QED
    BY <1>1, ConvertedTail
<1>3. unsupported(Loaded(t)) = {} <=> Clean(t)
  <2>1. DOMAIN Loaded(t).poolers = D
    BY DEF Loaded
  <2>2. \A k \in D : SamePooler(Loaded(t).poolers[k], t.poolers[k])
    BY Started
  <2> QED
    BY <2>1, <2>2 DEF unsupported, Clean, Recognised, SamePooler
<1>4. f = IF unsupported(Loaded(t)) # {} THEN run_pooling_tail_on_cpu(y)
          ELSE IF fp32_head(z) THEN run_pooling_tail_on_cpu(z)
          ELSE patch_heads(z)
  BY DEF configure_pooling_for_spyre
<1> HIDE DEF y, z, D
<1>5. y \in TailTypes(D) /\ z \in TailTypes(D)
  BY <1>1, <1>2 DEF OnItsWay, D
<1>6. DOMAIN f.poolers = D
  <2>1. f \in TailTypes(D)
    BY <1>4, <1>5, CpuTailIs, HeadsAre
  <2> QED
    BY <2>1 DEF TailTypes
<1>7. CASE ~Clean(t)
  BY <1>1, <1>3, <1>4, <1>6, <1>7, HostTail DEF D
<1>8. CASE Clean(t) /\ fp32_head(z)
  <2>1. ~t.dispatch
    BY <1>2, <1>8 DEF fp32_head, OnItsWay, Registered
  <2> QED
    BY <1>2, <1>3, <1>4, <1>6, <1>8, <2>1, HostTail DEF D
<1>9. CASE Clean(t) /\ ~fp32_head(z)
  BY <1>2, <1>3, <1>4, <1>6, <1>9, SpyreTail DEF D
<1> QED
  BY <1>7, <1>8, <1>9

\* The tail that serves is what configuring the model's made of it.
TailInv == (Serving /\ m.pool # None) => tail = configure_pooling_for_spyre(Loaded(m.pool))

LEMMA TailHolds == Spec => [](LoadInv /\ TailInv)
<1>1. Init => TailInv
  BY DEF Init, TailInv, Serving
<1>2. TailInv /\ [Next]_vars => TailInv'
  <2> SUFFICES ASSUME TailInv, [Next]_vars, Serving' PROVE m'.pool # None =>
                   tail' = configure_pooling_for_spyre(Loaded(m'.pool))
    BY DEF TailInv
  <2>1. stage' = "serving"
    BY DEF Serving
  <2>2. CASE Configure
    BY <2>1, <2>2 DEF Configure
  <2>3. CASE install_pad_loaders
    BY <2>1, <2>3 DEF install_pad_loaders
  <2>4. CASE initialize_model
    BY <2>1, <2>4 DEF initialize_model
  <2>5. CASE load_weights
    BY <2>1, <2>5 DEF load_weights
  <2>6. CASE load_drafter
    BY <2>1, <2>6 DEF load_drafter
  <2>7. CASE fix_padded_model
    BY <2>1, <2>7 DEF fix_padded_model
  <2>8. CASE configure_pooling
    BY <2>8 DEF configure_pooling
  <2>9. CASE UNCHANGED vars
    <3>1. stage' = stage /\ m' = m /\ tail' = tail
      BY <2>9 DEF vars
    <3> QED
      BY <2>1, <3>1 DEF TailInv, Serving
  <2> QED
    BY <2>2, <2>3, <2>4, <2>5, <2>6, <2>7, <2>8, <2>9 DEF Next, LoadModel, Done
<1>3. Spec => []TailInv
  BY <1>1, <1>2, PTL DEF Spec
<1> QED
  BY LoadHolds, <1>3, PTL

\* The tail of every pooling model that vLLM builds computes each task's answers at one place at a
\* time, on Spyre or on the host, casts nothing on the device, and trims rows padded for a head
\* once.  It does not if it is one of three the code leaves half settled, and only for the tasks
\* concerned: its classifier is behind as Stranded says, a head of a tail without one stays in
\* float32 as Uncast says, or a float16 classifier stays on the host as Unfetched says.
THEOREM ServedTails == Spec => []TailsAgree
<1>1. LoadInv /\ TailInv => TailsAgree
  <2> SUFFICES ASSUME LoadInv, TailInv, Serving, m.pool # None
               PROVE  \/ Stranded(tail)
                      \/ \A k \in DOMAIN tail.poolers : Sound(tail, k) \/ Uncast(tail, k) \/ Unfetched(tail, k)
    BY DEF TailsAgree
  <2>1. m \in Models
    BY DEF Serving, LoadInv, ConfigInv, Hooks, Builds
  <2>2. VllmBuilds(m.pool)
    BY <2>1, TailsAssumption
  <2>3. tail = configure_pooling_for_spyre(Loaded(m.pool))
    BY DEF TailInv
  <2> QED
    BY <2>2, <2>3, TailAgrees
<1> QED
  BY TailHolds, <1>1, PTL

=============================================================================
