------------------------- MODULE DecoderStepProofs -------------------------
(***************************************************************************)
(* For any requests, prompts, limits, pages and number of draft tokens:    *)
(* an engine step with drafts answers as the target model alone.           *)
(***************************************************************************)
EXTENDS DecoderStep, SequenceTheorems, FiniteSetTheorems, WellFoundedInduction, TLAPS

(***************************************************************************)
(* Numbers.                                                                *)
(***************************************************************************)
LEMMA MinOfTwo == ASSUME NEW a \in Int, NEW b \in Int PROVE Min({a, b}) = IF a <= b THEN a ELSE b
  BY DEF Min

LEMMA MaxOfTwo == ASSUME NEW a \in Int, NEW b \in Int PROVE Max({a, b}) = IF a <= b THEN b ELSE a
  BY DEF Max

LEMMA Shortfall ==
    ASSUME NEW a \in Nat, NEW b \in Nat, NEW l, l = Max({a - b, 0})
    PROVE  l \in Nat /\ b + l \in Nat /\ a <= b + l
<1>1. l = IF a - b <= 0 THEN 0 ELSE a - b
  BY MaxOfTwo
<1> QED
  BY <1>1

LEMMA MinOfThree ==
    ASSUME NEW a \in Int, NEW b \in Int, NEW c \in Int
    PROVE  /\ Min({a, b, c}) \in {a, b, c}
           /\ Min({a, b, c}) <= a /\ Min({a, b, c}) <= b /\ Min({a, b, c}) <= c
<1>1. \E x \in {a, b, c} : \A y \in {a, b, c} : x <= y
  OBVIOUS
<1> QED
  BY <1>1 DEF Min

LEMMA LeastIsIn ==
    ASSUME NEW S \in SUBSET Nat, S # {} PROVE \E n \in S : \A m \in S : n <= m
<1>1. PICK x \in S : \A y \in S : <<y, x>> \notin OpToRel(<, Nat)
  BY NatLessThanWellFounded, WFMin
<1>2. ASSUME NEW y \in S PROVE x <= y
  <2>1. <<y, x>> \in Nat \X Nat
    OBVIOUS
  <2>2. ~(y < x)
    BY <1>1, <2>1 DEF OpToRel
  <2> QED
    BY <2>2
<1> QED
  BY <1>2

LEMMA MaxIsIn ==
    ASSUME NEW n \in Nat, NEW S \in SUBSET (0..n), S # {}
    PROVE  Max(S) \in S /\ \A m \in S : m <= Max(S)
<1> DEFINE Below == {n - m : m \in S}
<1>1. PICK d \in Below : \A e \in Below : d <= e
  <2>1. Below \subseteq Nat
    <3>1. \A m \in S : n - m \in Nat
      OBVIOUS
    <3> QED
      BY <3>1
  <2>2. Below # {}
    <3>1. PICK m \in S : TRUE
      OBVIOUS
    <3>2. n - m \in Below
      BY <3>1
    <3> QED
      BY <3>2
  <2> HIDE DEF Below
  <2> QED
    BY <2>1, <2>2, LeastIsIn
<1>2. PICK g \in S : d = n - g
  OBVIOUS
<1>3. \A m \in S : m <= g
  BY <1>1, <1>2
<1> QED
  BY <1>2, <1>3 DEF Max

LEMMA CeilingCovers ==
    ASSUME NEW n \in Nat, NEW d \in Nat \ {0}
    PROVE  /\ (n + d - 1) \div d \in Nat /\ n <= ((n + d - 1) \div d) * d
  OBVIOUS

LEMMA QuotientWithin ==
    ASSUME NEW n \in Nat, NEW m \in Nat, NEW d \in Nat \ {0}, n < m * d
    PROVE  n \div d \in 0..(m - 1)
<1>1. n \div d < m
  OBVIOUS
<1>2. n \div d >= 0
  OBVIOUS
<1> QED
  BY <1>1, <1>2

LEMMA PlaceIsUnique ==
    ASSUME NEW n \in Nat, NEW m \in Nat, NEW d \in Nat \ {0}, n \div d = m \div d, n % d = m % d
    PROVE  n = m
  OBVIOUS

(***************************************************************************)
(* The elements of a set of numbers, by rank.                              *)
(***************************************************************************)
LEMMA NthIsIn ==
    ASSUME NEW S \in SUBSET Nat, IsFiniteSet(S), NEW k \in 0..(Cardinality(S) - 1)
    PROVE  Nth(S, k) \in S /\ Cardinality({m \in S : m < Nth(S, k)}) = k
<1> DEFINE rank == [n \in S |-> Cardinality({m \in S : m < n})]
           ranks == 0..(Cardinality(S) - 1)
<1>1. Cardinality(S) \in Nat
  BY FS_CardinalityType
<1>2. ASSUME NEW n \in S PROVE rank[n] \in ranks
  <2>1. {m \in S : m < n} \subseteq S /\ {m \in S : m < n} # S
    OBVIOUS
  <2>2. IsFiniteSet({m \in S : m < n}) /\ rank[n] <= Cardinality(S) /\ rank[n] # Cardinality(S)
    BY <2>1, FS_Subset
  <2>3. rank[n] \in Nat
    BY <2>2, FS_CardinalityType
  <2> QED
    BY <1>1, <2>2, <2>3
<1>3. ASSUME NEW a \in S, NEW b \in S, a < b PROVE rank[a] < rank[b]
  <2> DEFINE A == {m \in S : m < a}  B == {m \in S : m < b}
  <2>1. A \subseteq B /\ A # B /\ B \subseteq S
    <3>1. a \in B /\ a \notin A
      BY <1>3
    <3>2. ASSUME NEW m \in A PROVE m \in B
      <4>1. m \in S /\ m \in Nat /\ a \in Nat /\ b \in Nat /\ m < a
        OBVIOUS
      <4>2. m < b
        BY <1>3, <4>1
      <4> QED
        BY <4>1, <4>2
    <3>3. B \subseteq S
      OBVIOUS
    <3> HIDE DEF A, B
    <3> QED
      BY <3>1, <3>2, <3>3
  <2>2. IsFiniteSet(B)
    BY <2>1, FS_Subset
  <2>3. Cardinality(A) <= Cardinality(B) /\ Cardinality(A) # Cardinality(B) /\ IsFiniteSet(A)
    <3> HIDE DEF A, B
    <3> QED
      BY <2>1, <2>2, FS_Subset
  <2>4. Cardinality(A) \in Nat /\ Cardinality(B) \in Nat
    BY <2>2, <2>3, FS_CardinalityType
  <2> QED
    BY <2>3, <2>4
<1>4. rank \in Injection(S, ranks)
  <2>1. \A a, b \in S : a # b => rank[a] # rank[b]
    <3> SUFFICES ASSUME NEW a \in S, NEW b \in S, a # b PROVE rank[a] # rank[b]
      OBVIOUS
    <3>1. a < b \/ b < a
      OBVIOUS
    <3>2. rank[a] \in Nat /\ rank[b] \in Nat
      BY <1>2
    <3> HIDE DEF rank
    <3> QED
      BY <1>3, <3>1, <3>2
  <2>2. rank \in [S -> ranks]
    BY <1>2
  <2> QED
    BY <2>1, <2>2 DEF Injection, IsInjective
<1>5. IsFiniteSet(ranks) /\ Cardinality(ranks) = Cardinality(S)
  BY <1>1, FS_Interval
<1>6. rank \in Surjection(S, ranks)
  <2> HIDE DEF rank, ranks
  <2> QED
    BY <1>4, <1>5, FS_Injection
<1>7. PICK n \in S : rank[n] = k
  BY <1>6 DEF Surjection
<1> QED
  BY <1>7 DEF Nth

LEMMA WithoutKeeps ==
    ASSUME NEW T, NEW s \in Seq(T), NEW R
    PROVE  /\ Without(s, R) \in Seq(T)
           /\ \A i \in DOMAIN Without(s, R) : \E j \in DOMAIN s : Without(s, R)[i] = s[j] /\ s[j] \notin R
           /\ (\A i, j \in DOMAIN s : s[i] = s[j] => i = j) =>
                  \A i, j \in DOMAIN Without(s, R) : Without(s, R)[i] = Without(s, R)[j] => i = j
<1> DEFINE kept == {i \in DOMAIN s : s[i] \notin R}
           n == Cardinality(kept)
<1>1. IsFiniteSet(kept) /\ n \in Nat /\ kept \in SUBSET Nat
  <2>1. DOMAIN s = 1..Len(s) /\ Len(s) \in Nat
    OBVIOUS
  <2>2. IsFiniteSet(1..Len(s)) /\ kept \subseteq 1..Len(s)
    BY <2>1, FS_Interval
  <2>3. IsFiniteSet(kept)
    BY <2>2, FS_Subset
  <2> QED
    BY <2>2, <2>3, FS_CardinalityType
<1>2. Without(s, R) = [k \in 1..n |-> s[Nth(kept, k - 1)]]
  BY DEF Without
<1>3. ASSUME NEW k \in 1..n PROVE /\ Nth(kept, k - 1) \in kept
                                  /\ Cardinality({m \in kept : m < Nth(kept, k - 1)}) = k - 1
  <2>1. k - 1 \in 0..(n - 1)
    BY <1>1
  <2> HIDE DEF kept
  <2> QED
    BY <1>1, <2>1, NthIsIn
<1>4. \A k, l \in 1..n : Nth(kept, k - 1) = Nth(kept, l - 1) => k = l
  <2> HIDE DEF kept
  <2> SUFFICES ASSUME NEW k \in 1..n, NEW l \in 1..n, Nth(kept, k - 1) = Nth(kept, l - 1) PROVE k = l
    OBVIOUS
  <2>1. k - 1 = l - 1
    BY <1>3
  <2> QED
    BY <1>1, <2>1
<1>5. \A k \in 1..n : Without(s, R)[k] = s[Nth(kept, k - 1)]
  BY <1>2
<1>6. DOMAIN Without(s, R) = 1..n
  BY <1>2
<1>7. \A k \in 1..n : Nth(kept, k - 1) \in DOMAIN s /\ s[Nth(kept, k - 1)] \notin R
  BY <1>3
<1> HIDE DEF n
<1>8. Without(s, R) \in [1..n -> T]
  <2>1. \A j \in DOMAIN s : s[j] \in T
    OBVIOUS
  <2> QED
    BY <1>2, <1>7, <2>1
<1>9. Without(s, R) \in Seq(T)
  BY <1>1, <1>8, SeqDef
<1> HIDE DEF kept
<1>10. ASSUME \A i, j \in DOMAIN s : s[i] = s[j] => i = j
       PROVE  \A i, j \in 1..n : Without(s, R)[i] = Without(s, R)[j] => i = j
  BY <1>4, <1>5, <1>7, <1>10
<1> QED
  BY <1>5, <1>6, <1>7, <1>9, <1>10

(***************************************************************************)
(* The invariant.  A page belongs to one place of one request; in both     *)
(* caches a request that is not over has its own tokens in the places it   *)
(* has computed, and what a step has booked for it fits its pages.         *)
(***************************************************************************)
Live    == ToSet(running) \cup ToSet(waiting)
Room(r) == Len(table[r]) * PageSize
Holds(cache, r, n) == \A q \in 0..(n - 1) : cache[Slot(r, q)] = Cell(r, q, TRUE)

TypeInv ==
    /\ tokens \in [Requests -> Seq(BOOLEAN)] /\ drafts \in [Requests -> Seq(BOOLEAN)]
    /\ computed \in [Requests -> Nat] /\ table \in [Requests -> Seq(Pages)]
    /\ running \in Seq(Requests) /\ waiting \in Seq(Requests)
    /\ budget \in Nat /\ at \in Nat
    /\ kv = [s \in Slots |-> kv[s]] /\ dkv = [s \in Slots |-> dkv[s]]

QueueInv ==
    /\ \A i, j \in DOMAIN running : running[i] = running[j] => i = j
    /\ \A i, j \in DOMAIN waiting : waiting[i] = waiting[j] => i = j
    /\ \A i \in DOMAIN running, j \in DOMAIN waiting : running[i] # waiting[j]

TokensInv ==
    \A r \in Requests :
        /\ Prompt[r] <= Len(tokens[r]) /\ Answered(r) <= Limit[r]
        /\ \A i \in 1..Len(tokens[r]) : tokens[r][i] = TRUE
        /\ r \in Live => Answered(r) < Limit[r] /\ computed[r] < Len(tokens[r])

PagesInv ==
    \A r, s \in Requests : \A i \in DOMAIN table[r], j \in DOMAIN table[s] :
        table[r][i] = table[s][j] => r = s /\ i = j

CacheInv ==
    \A r \in Live :
        /\ computed[r] <= Room(r)
        /\ Holds(kv, r, computed[r])
        /\ NumSpec > 0 => Holds(dkv, r, computed[r])

Booked(r) ==
    /\ batch[r] \in Nat /\ computed[r] + batch[r] < MaxLen
    /\ computed[r] + batch[r] + Block <= Room(r) \/ MaxLen <= Room(r)
    /\ IF Discarded(r) THEN Len(drafts[r]) = 0
       ELSE Len(drafts[r]) = computed[r] + batch[r] - Len(tokens[r])

BatchInv ==
    /\ phase \in {"idle", "running", "execute", "propose", "update"}
    /\ phase = "idle" => DOMAIN batch = {}
    /\ phase # "idle" => /\ at \in 1..(Len(running) + 1)
                         /\ DOMAIN batch = {running[i] : i \in 1..(at - 1)}
    /\ \A r \in DOMAIN batch : Booked(r)

Sampled(r) ==
    /\ sampled[r] \in Seq(BOOLEAN) /\ \A i \in DOMAIN sampled[r] : sampled[r][i] = TRUE
    /\ IF Discarded(r) THEN sampled[r] = <<>>
       ELSE /\ Len(sampled[r]) \in 1..(Len(drafts[r]) + 1)
            /\ \A i \in 1..(Len(sampled[r]) - 1) : drafts[r][i] = TRUE
    /\ Holds(kv, r, computed[r] + Accepted(r))
    /\ phase = "update" /\ NumSpec > 0 => Holds(dkv, r, computed[r] + Accepted(r))

SampledInv ==
    /\ phase \in {"propose", "update"} => \A r \in DOMAIN batch : Sampled(r)
    /\ phase # "update" => DOMAIN context = {}
    /\ \A r \in DOMAIN context : /\ NumSpec > 0 /\ r \in DOMAIN batch /\ sampled[r] # <<>>
                                /\ context[r] = computed[r] + Accepted(r)

Inv == TypeInv /\ QueueInv /\ TokensInv /\ PagesInv /\ CacheInv /\ BatchInv /\ SampledInv

LEMMA Constants ==
    /\ MaxLen \in Nat /\ PageSize \in Nat \ {0} /\ NumPages \in Nat /\ NumSpec \in Nat /\ Block \in Nat
    /\ \A r \in Requests : /\ Prompt[r] \in Nat \ {0} /\ Limit[r] \in Nat \ {0}
                           /\ Prompt[r] + Limit[r] <= MaxLen
<1>1. Block \in Nat
  BY StepAssumption DEF Block
<1>2. ASSUME NEW r \in Requests
      PROVE  /\ Prompt[r] \in Nat \ {0} /\ Limit[r] \in Nat \ {0} /\ Prompt[r] + Limit[r] <= MaxLen
  <2>1. Prompt[r] \in 1..(MaxLen - 1) /\ MaxTokens[r] \in Nat \ {0} /\ MaxLen \in Nat
    BY StepAssumption
  <2>2. Limit[r] = IF MaxTokens[r] <= MaxLen - Prompt[r] THEN MaxTokens[r] ELSE MaxLen - Prompt[r]
    BY <2>1, MinOfTwo DEF Limit
  <2> QED
    BY <2>1, <2>2
<1> QED
  BY <1>1, <1>2, StepAssumption

(***************************************************************************)
(* Slots.                                                                  *)
(***************************************************************************)
LEMMA RoomType == ASSUME TypeInv, NEW r \in Requests PROVE Room(r) \in Nat /\ Len(table[r]) \in Nat
<1>1. Len(table[r]) \in Nat /\ PageSize \in Nat
  BY Constants DEF TypeInv
<1> QED
  BY <1>1 DEF Room

LEMMA SlotIsThere ==
    ASSUME TypeInv, NEW r \in Requests, NEW p \in Nat, p < Room(r)
    PROVE  /\ p \div PageSize + 1 \in 1..Len(table[r])
           /\ Slot(r, p) \in Slots /\ Slot(r, p).page = table[r][p \div PageSize + 1]
           /\ Slot(r, p).off = p % PageSize
<1>1. p \div PageSize \in 0..(Len(table[r]) - 1)
  BY RoomType, Constants, QuotientWithin DEF Room
<1>2. p \div PageSize + 1 \in 1..Len(table[r])
  BY <1>1, RoomType
<1>3. table[r][p \div PageSize + 1] \in Pages
  BY <1>2 DEF TypeInv
<1>4. p % PageSize \in 0..(PageSize - 1)
  BY Constants
<1> QED
  BY <1>2, <1>3, <1>4 DEF Slot, Slots

LEMMA SlotsApart ==
    ASSUME TypeInv, PagesInv, NEW r \in Requests, NEW s \in Requests, NEW p \in Nat, NEW q \in Nat,
           p < Room(r), q < Room(s), Slot(r, p) = Slot(s, q)
    PROVE  r = s /\ p = q
<1>1. /\ p \div PageSize + 1 \in 1..Len(table[r]) /\ q \div PageSize + 1 \in 1..Len(table[s])
      /\ table[r][p \div PageSize + 1] = table[s][q \div PageSize + 1]
      /\ p % PageSize = q % PageSize
  BY SlotIsThere
<1>2. 1..Len(table[r]) = DOMAIN table[r] /\ 1..Len(table[s]) = DOMAIN table[s]
  BY DEF TypeInv
<1>3. r = s /\ p \div PageSize + 1 = q \div PageSize + 1
  BY <1>1, <1>2 DEF PagesInv
<1>4. p \div PageSize = q \div PageSize
  <2>1. p \div PageSize \in Int /\ q \div PageSize \in Int
    BY Constants
  <2> QED
    BY <1>3, <2>1
<1> QED
  BY <1>1, <1>3, <1>4, Constants, PlaceIsUnique

(***************************************************************************)
(* What the scheduler books for a request fits the pages it takes.         *)
(***************************************************************************)
LEMMA QueueTypes ==
    ASSUME TypeInv
    PROVE  /\ running \in Seq(Requests) /\ waiting \in Seq(Requests) /\ budget \in Nat /\ at \in Nat
           /\ computed \in [Requests -> Nat] /\ table \in [Requests -> Seq(Pages)]
           /\ tokens \in [Requests -> Seq(BOOLEAN)] /\ drafts \in [Requests -> Seq(BOOLEAN)]
           /\ Live \subseteq Requests
<1>1. running \in Seq(Requests) /\ waiting \in Seq(Requests)
  BY Zenon DEF TypeInv
<1>2. Live \subseteq Requests
  BY <1>1 DEF Live, ToSet
<1> QED
  BY <1>1, <1>2, Zenon DEF TypeInv

LEMMA WantedFits ==
    ASSUME TypeInv, TokensInv, NEW r \in Live
    PROVE  /\ r \in Requests /\ Wanted(r) \in Nat /\ Wanted(r) <= budget
           /\ computed[r] + Wanted(r) < MaxLen
           /\ computed[r] + Wanted(r) <= Len(tokens[r]) + Len(drafts[r])
<1>1. r \in Requests
  BY QueueTypes
<1>2. computed[r] \in Nat /\ Len(tokens[r]) \in Nat /\ Len(drafts[r]) \in Nat /\ budget \in Nat
  BY <1>1 DEF TypeInv
<1>3. computed[r] < Len(tokens[r]) /\ Len(tokens[r]) - Prompt[r] < Limit[r]
  BY <1>1 DEF TokensInv, Answered
<1>4. Len(tokens[r]) < MaxLen /\ MaxLen \in Nat
  BY <1>1, <1>2, <1>3, Constants
<1> DEFINE a == Len(tokens[r]) + Len(drafts[r]) - computed[r]
           c == MaxLen - 1 - computed[r]
<1>5. a \in Nat /\ c \in Nat
  BY <1>2, <1>3, <1>4
<1>6. Wanted(r) = Min({a, budget, c})
  BY DEF Wanted
<1>7. Wanted(r) \in {a, budget, c} /\ Wanted(r) <= a /\ Wanted(r) <= budget /\ Wanted(r) <= c
  <2>1. a \in Int /\ budget \in Int /\ c \in Int
    BY <1>2, <1>5
  <2> HIDE DEF a, c
  <2> DEFINE m == Min({a, budget, c})
  <2>2. m \in {a, budget, c} /\ m <= a /\ m <= budget /\ m <= c
    BY <2>1, MinOfThree
  <2> HIDE DEF m
  <2>3. Wanted(r) = m
    BY <1>6 DEF m
  <2> QED
    BY <2>2, <2>3
<1>8. Wanted(r) \in Nat
  <2> HIDE DEF a, c
  <2> QED
    BY <1>2, <1>5, <1>7
<1>9. computed[r] + Wanted(r) < MaxLen /\ computed[r] + Wanted(r) <= Len(tokens[r]) + Len(drafts[r])
  <2>1. Wanted(r) <= MaxLen - 1 - computed[r]
    BY <1>7
  <2>2. Wanted(r) <= Len(tokens[r]) + Len(drafts[r]) - computed[r]
    BY <1>7
  <2>3. ASSUME NEW w \in Nat, NEW n \in Nat, NEW l \in Nat, NEW d \in Nat, NEW max \in Nat,
               w <= max - 1 - n, w <= l + d - n
        PROVE  n + w < max /\ n + w <= l + d
    BY <2>3
  <2> QED
    BY <1>2, <1>4, <1>8, <2>1, <2>2, <2>3
<1> QED
  BY <1>1, <1>7, <1>8, <1>9

LEMMA FreePages ==
    ASSUME TypeInv
    PROVE  /\ Pages \ Used \in SUBSET Nat /\ IsFiniteSet(Pages \ Used)
           /\ Cardinality(Pages \ Used) = NumPages - Cardinality(Used)
<1>1. IsFiniteSet(Pages) /\ Cardinality(Pages) = NumPages /\ NumPages \in Nat /\ Pages \subseteq Nat
  BY Constants, FS_Interval DEF Pages
<1>2. Used \subseteq Pages
  BY QueueTypes DEF Used, ToSet
<1>3. Pages \cap Used = Used /\ Pages \ Used \in SUBSET Nat
  BY <1>1, <1>2
<1>4. /\ IsFiniteSet(Pages \ Used)
      /\ Cardinality(Pages \ Used) = Cardinality(Pages) - Cardinality(Pages \cap Used)
  BY <1>1, FS_Difference, Zenon
<1> QED
  BY <1>1, <1>3, <1>4, Zenon

LEMMA LacksEnough ==
    ASSUME TypeInv, TokensInv, NEW r \in Live
    PROVE  /\ Lacks(r) \in Nat
           /\ LET room == (Len(table[r]) + Lacks(r)) * PageSize
              IN  computed[r] + Wanted(r) + Block <= room \/ MaxLen <= room
<1>1. r \in Requests /\ Wanted(r) \in Nat /\ computed[r] \in Nat /\ Len(table[r]) \in Nat
  BY WantedFits DEF TypeInv
<1> DEFINE most  == computed[r] + Wanted(r) + Block
           reach == Min({most, MaxLen})
           pages == (reach + PageSize - 1) \div PageSize
<1>2. most \in Nat /\ MaxLen \in Nat /\ PageSize \in Nat \ {0}
  BY <1>1, Constants
<1>3. reach = IF most <= MaxLen THEN most ELSE MaxLen
  <2> HIDE DEF most
  <2> QED
    BY <1>2, MinOfTwo
<1>4. reach \in Nat
  BY <1>2, <1>3
<1>5. pages \in Nat /\ reach <= pages * PageSize
  <2> HIDE DEF reach
  <2> QED
    BY <1>2, <1>4, CeilingCovers
<1>6. Lacks(r) = Max({pages - Len(table[r]), 0})
  BY DEF Lacks
<1> HIDE DEF pages, reach, most
<1>8. Lacks(r) \in Nat /\ Len(table[r]) + Lacks(r) \in Nat /\ pages <= Len(table[r]) + Lacks(r)
  BY <1>1, <1>5, <1>6, Shortfall
<1>9. pages * PageSize <= (Len(table[r]) + Lacks(r)) * PageSize
  <2> DEFINE all == Len(table[r]) + Lacks(r)
  <2>1. all \in Nat /\ pages <= all
    BY <1>8
  <2> HIDE DEF all
  <2>2. pages * PageSize <= all * PageSize
    BY <1>2, <1>5, <2>1
  <2> QED
    BY <2>2 DEF all
<1>10. (Len(table[r]) + Lacks(r)) * PageSize \in Nat /\ pages * PageSize \in Nat
  BY <1>2, <1>5, <1>8
<1> QED
  BY <1>2, <1>3, <1>4, <1>5, <1>8, <1>9, <1>10 DEF most

Kept == \A s \in Requests : /\ Len(table[s]) <= Len(table'[s])
                            /\ \A i \in 1..Len(table[s]) : table'[s][i] = table[s][i]

LEMMA TakesPages ==
    ASSUME TypeInv, TokensInv, PagesInv, NEW r \in Live, Fits(r), Take(r)
    PROVE  /\ table' \in [Requests -> Seq(Pages)] /\ PagesInv' /\ Kept
           /\ Len(table'[r]) = Len(table[r]) + Lacks(r)
<1> DEFINE free == Pages \ Used
           new  == [i \in 1..Lacks(r) |-> Nth(free, i - 1)]
<1>1. Lacks(r) \in Nat /\ r \in Requests
  BY LacksEnough, WantedFits
<1>2. free \in SUBSET Nat /\ IsFiniteSet(free) /\ Cardinality(free) \in Nat /\ Lacks(r) <= Cardinality(free)
  <2>1. free \in SUBSET Nat /\ IsFiniteSet(free) /\ Cardinality(free) = NumPages - Cardinality(Used)
    BY FreePages
  <2> QED
    BY <2>1, FS_CardinalityType DEF Fits
<1>3. ASSUME NEW i \in 1..Lacks(r)
      PROVE  Nth(free, i - 1) \in free /\ Cardinality({m \in free : m < Nth(free, i - 1)}) = i - 1
  <2>1. i - 1 \in 0..(Cardinality(free) - 1)
    BY <1>1, <1>2
  <2> HIDE DEF free
  <2> QED
    BY <1>2, <2>1, NthIsIn
<1>4. \A i, j \in 1..Lacks(r) : Nth(free, i - 1) = Nth(free, j - 1) => i = j
  <2> HIDE DEF free
  <2> SUFFICES ASSUME NEW i \in 1..Lacks(r), NEW j \in 1..Lacks(r), Nth(free, i - 1) = Nth(free, j - 1)
               PROVE  i = j
    OBVIOUS
  <2>1. i - 1 = j - 1
    BY <1>3
  <2> QED
    BY <1>1, <2>1
<1>5. new \in [1..Lacks(r) -> free] /\ \A i, j \in 1..Lacks(r) : new[i] = new[j] => i = j
  BY <1>3, <1>4
<1>6. table' = [table EXCEPT ![r] = table[r] \o new]
  BY DEF Take
<1>7. free \subseteq Pages /\ \A s \in Requests : \A i \in DOMAIN table[s] : table[s][i] \notin free
  BY DEF Used, ToSet
<1> HIDE DEF new, free
<1>8. new \in Seq(Pages) /\ Len(new) = Lacks(r)
  <2>1. new \in [1..Lacks(r) -> Pages]
    BY <1>5, <1>7
  <2> QED
    BY <1>1, <2>1, SeqDef
<1>9. table[r] \in Seq(Pages) /\ table \in [Requests -> Seq(Pages)]
  BY <1>1, QueueTypes
<1> DEFINE both == table[r] \o new
<1>10. /\ both \in Seq(Pages) /\ Len(both) = Len(table[r]) + Lacks(r)
       /\ \A i \in 1..(Len(table[r]) + Lacks(r)) :
             both[i] = IF i <= Len(table[r]) THEN table[r][i] ELSE new[i - Len(table[r])]
  <2>1. /\ both \in Seq(Pages) /\ Len(both) = Len(table[r]) + Len(new)
        /\ \A i \in 1..(Len(table[r]) + Len(new)) :
              both[i] = IF i <= Len(table[r]) THEN table[r][i] ELSE new[i - Len(table[r])]
    BY <1>8, <1>9, ConcatProperties, Zenon
  <2> HIDE DEF both
  <2> QED
    BY <1>8, <2>1, Zenon
<1> HIDE DEF both
<1>11. /\ table' \in [Requests -> Seq(Pages)] /\ table'[r] = both
       /\ \A s \in Requests : s # r => table'[s] = table[s]
  <2>1. table' = [table EXCEPT ![r] = both]
    BY <1>6 DEF both
  <2>2. both \in Seq(Pages)
    BY <1>10
  <2> QED
    BY <1>1, <1>9, <2>1, <2>2
<1>12. Len(table[r]) \in Nat
  BY <1>9
<1>13. Kept
  <2>1. \A s \in Requests : s # r => Len(table[s]) <= Len(table'[s])
    BY <1>9, <1>11
  <2>2. Len(table[r]) <= Len(table'[r])
    BY <1>1, <1>10, <1>11, <1>12
  <2>3. \A i \in 1..Len(table[r]) : table'[r][i] = table[r][i]
    BY <1>1, <1>10, <1>11, <1>12
  <2>4. \A s \in Requests : s # r => \A i \in 1..Len(table[s]) : table'[s][i] = table[s][i]
    BY <1>11
  <2> QED
    BY <2>1, <2>2, <2>3, <2>4 DEF Kept
\* An element of a table is an old one in its old place, or a new one of r's.
<1>14. ASSUME NEW s \in Requests, NEW i \in DOMAIN table'[s]
       PROVE  \/ i \in DOMAIN table[s] /\ table'[s][i] = table[s][i]
              \/ s = r /\ i - Len(table[r]) \in 1..Lacks(r) /\ table'[s][i] = new[i - Len(table[r])]
  <2>1. CASE s # r
    BY <1>11, <2>1
  <2>2. CASE s = r
    <3>1. i \in 1..(Len(table[r]) + Lacks(r))
      BY <1>10, <1>11, <2>2
    <3>2. DOMAIN table[r] = 1..Len(table[r])
      BY <1>9
    <3> QED
      BY <1>1, <1>10, <1>11, <1>12, <2>2, <3>1, <3>2
  <2> QED
    BY <2>1, <2>2
<1>15. PagesInv'
  <2> SUFFICES ASSUME NEW s \in Requests, NEW t \in Requests,
                      NEW i \in DOMAIN table'[s], NEW j \in DOMAIN table'[t], table'[s][i] = table'[t][j]
               PROVE  s = t /\ i = j
    BY DEF PagesInv
  <2>1. CASE i \in DOMAIN table[s] /\ table'[s][i] = table[s][i]
    <3>1. CASE j \in DOMAIN table[t] /\ table'[t][j] = table[t][j]
      <4>1. table[s][i] = table[t][j]
        BY <2>1, <3>1
      <4> QED
        BY <2>1, <3>1, <4>1 DEF PagesInv
    <3>2. CASE j - Len(table[r]) \in 1..Lacks(r) /\ table'[t][j] = new[j - Len(table[r])]
      BY <1>5, <1>7, <2>1, <3>2
    <3> QED
      BY <1>14, <3>1, <3>2
  <2>2. CASE s = r /\ i - Len(table[r]) \in 1..Lacks(r) /\ table'[s][i] = new[i - Len(table[r])]
    <3>1. CASE j \in DOMAIN table[t] /\ table'[t][j] = table[t][j]
      BY <1>5, <1>7, <2>2, <3>1
    <3>2. CASE t = r /\ j - Len(table[r]) \in 1..Lacks(r) /\ table'[t][j] = new[j - Len(table[r])]
      <4>1. i - Len(table[r]) = j - Len(table[r])
        BY <1>5, <2>2, <3>2
      <4>2. i \in Int /\ j \in Int
        BY <1>11
      <4> QED
        BY <1>12, <2>2, <3>2, <4>1, <4>2
    <3> QED
      BY <1>14, <3>1, <3>2
  <2> QED
    BY <1>14, <2>1, <2>2
<1> QED
  BY <1>10, <1>11, <1>13, <1>15

(***************************************************************************)
(* The first state.                                                        *)
(***************************************************************************)
LEMMA InitInv == Init => Inv
<1> SUFFICES ASSUME Init PROVE Inv
  OBVIOUS
<1>1. \A r \in Requests : tokens[r] \in Seq(BOOLEAN) /\ Len(tokens[r]) = Prompt[r]
                          /\ \A i \in 1..Len(tokens[r]) : tokens[r][i] = TRUE
  <2> SUFFICES ASSUME NEW r \in Requests
               PROVE  tokens[r] \in Seq(BOOLEAN) /\ Len(tokens[r]) = Prompt[r]
                      /\ \A i \in 1..Len(tokens[r]) : tokens[r][i] = TRUE
    OBVIOUS
  <2>1. tokens[r] = [p \in 1..Prompt[r] |-> TRUE] /\ Prompt[r] \in Nat
    BY Constants DEF Init
  <2>2. [p \in 1..Prompt[r] |-> TRUE] \in [1..Prompt[r] -> BOOLEAN]
    BY Zenon
  <2>3. tokens[r] \in Seq(BOOLEAN)
    <3>1. tokens[r] \in [1..Prompt[r] -> BOOLEAN]
      BY <2>1, <2>2, Zenon
    <3>2. Seq(BOOLEAN) = UNION {[1..n -> BOOLEAN] : n \in Nat}
      BY SeqDef, Zenon
    <3> QED
      BY <2>1, <3>1, <3>2, Zenon
  <2>4. Len(tokens[r]) = Prompt[r]
    BY <2>1
  <2>5. ASSUME NEW i \in 1..Len(tokens[r]) PROVE tokens[r][i] = TRUE
    BY <2>1, <2>4
  <2> QED
    BY <2>3, <2>4, <2>5
<1>2. TypeInv
  <2>1. tokens \in [Requests -> Seq(BOOLEAN)]
    BY <1>1 DEF Init
  <2>2. drafts \in [Requests -> Seq(BOOLEAN)] /\ computed \in [Requests -> Nat] /\ table \in [Requests -> Seq(Pages)]
    BY DEF Init
  <2>3. running \in Seq(Requests) /\ waiting \in Seq(Requests) /\ budget \in Nat /\ at \in Nat
    BY StepAssumption DEF Init
  <2>4. kv = [s \in Slots |-> kv[s]] /\ dkv = [s \in Slots |-> dkv[s]]
    BY DEF Init
  <2> QED
    BY <2>1, <2>2, <2>3, <2>4 DEF TypeInv
<1>3. QueueInv
  BY StepAssumption DEF QueueInv, Init, IsInjective
<1>4. TokensInv
  <2> SUFFICES ASSUME NEW r \in Requests
               PROVE  /\ Prompt[r] <= Len(tokens[r]) /\ Answered(r) <= Limit[r]
                      /\ computed[r] < Len(tokens[r]) /\ Answered(r) < Limit[r]
    BY <1>1, Zenon DEF TokensInv
  <2>1. Len(tokens[r]) = Prompt[r] /\ Prompt[r] \in Nat \ {0} /\ Limit[r] \in Nat \ {0} /\ computed[r] = 0
    BY <1>1, Constants DEF Init
  <2> QED
    BY <2>1 DEF Answered
<1>5. PagesInv
  BY DEF PagesInv, Init
<1>6. CacheInv
  <2>1. Live \subseteq Requests
    BY <1>2 DEF Live, ToSet, TypeInv
  <2>2. \A r \in Live : computed[r] = 0 /\ computed[r] <= Room(r)
    BY <1>2, <2>1, RoomType DEF Init
  <2>3. 0..(0 - 1) = {}
    OBVIOUS
  <2> QED
    BY <2>2, <2>3 DEF CacheInv, Holds
<1>7. BatchInv /\ SampledInv
  BY DEF Init, BatchInv, SampledInv, None
<1> QED
  BY <1>2, <1>3, <1>4, <1>5, <1>6, <1>7 DEF Inv

LEMMA InBatch ==
    ASSUME Inv
    PROVE  /\ Live \subseteq Requests /\ DOMAIN batch \subseteq ToSet(running)
           /\ DOMAIN batch \subseteq Live
<1>1. Live \subseteq Requests /\ DOMAIN running = 1..Len(running) /\ Len(running) \in Nat /\ at \in Nat
  BY DEF Inv, TypeInv, Live, ToSet
<1>2. DOMAIN batch \subseteq ToSet(running)
  <2> USE DEF ToSet
  <2>1. CASE phase = "idle"
    BY <2>1 DEF Inv, BatchInv
  <2>2. CASE phase # "idle"
    <3>1. at \in 1..(Len(running) + 1) /\ DOMAIN batch = {running[i] : i \in 1..(at - 1)}
      BY <2>2 DEF Inv, BatchInv
    <3>2. ASSUME NEW i \in 1..(at - 1) PROVE i \in DOMAIN running
      BY <1>1, <3>1
    <3> QED
      BY <3>1, <3>2
  <2> QED
    BY <2>1, <2>2
<1> QED
  BY <1>1, <1>2 DEF Live

(***************************************************************************)
(* Steps that leave requests, queues, tables and caches alone.             *)
(***************************************************************************)
LEMMA Untouched ==
    ASSUME Inv, at' \in Nat, budget' \in Nat,
           UNCHANGED <<tokens, computed, drafts, running, waiting, table, kv, dkv>>
    PROVE  TypeInv' /\ QueueInv' /\ TokensInv' /\ PagesInv' /\ CacheInv'
<1>1. TypeInv'
  BY DEF Inv, TypeInv
<1>2. QueueInv'
  BY DEF Inv, QueueInv
<1>3. TokensInv'
  BY DEF Inv, TokensInv, Live, Answered
<1>4. PagesInv'
  BY DEF Inv, PagesInv
<1>5. CacheInv'
  BY DEF Inv, CacheInv, Live, Room, Holds, Slot
<1> QED
  BY <1>1, <1>2, <1>3, <1>4, <1>5

LEMMA BeginKeeps == ASSUME Inv, Begin PROVE Inv'
<1>1. at' = 1 /\ budget' \in Nat /\ phase' = "running" /\ batch' = None /\ context' = None
      /\ UNCHANGED <<tokens, computed, drafts, running, waiting, table, kv, dkv>>
  BY StepAssumption DEF Begin
<1>2. TypeInv' /\ QueueInv' /\ TokensInv' /\ PagesInv' /\ CacheInv'
  BY <1>1, Untouched
<1>3. DOMAIN batch' = {} /\ DOMAIN context' = {}
  BY <1>1 DEF None
<1>4. at' \in 1..(Len(running') + 1)
  BY <1>1 DEF Inv, TypeInv
<1>5. BatchInv'
  BY <1>1, <1>3, <1>4 DEF BatchInv
<1>6. SampledInv'
  BY <1>1, <1>3 DEF SampledInv
<1> QED
  BY <1>2, <1>5, <1>6 DEF Inv

LEMMA EndScheduleKeeps == ASSUME Inv, EndSchedule PROVE Inv'
<1>1. /\ phase = "running" /\ phase' = (IF batch = None THEN "idle" ELSE "execute")
      /\ UNCHANGED <<tokens, computed, drafts, running, waiting, table, kv, dkv,
                     at, budget, batch, context, sampled>>
  BY DEF EndSchedule
<1>2. TypeInv' /\ QueueInv' /\ TokensInv' /\ PagesInv' /\ CacheInv'
  BY <1>1, Untouched DEF Inv, TypeInv
<1>3. \A r \in DOMAIN batch : Booked(r)' = Booked(r)
  BY <1>1 DEF Booked, Room, Discarded
<1>4. batch = None => DOMAIN batch = {}
  BY DEF None
<1>5. BatchInv'
  BY <1>1, <1>3, <1>4 DEF Inv, BatchInv
<1>6. SampledInv'
  BY <1>1 DEF Inv, SampledInv
<1> QED
  BY <1>2, <1>5, <1>6 DEF Inv

LEMMA DummyRunKeeps == ASSUME Inv, DummyRun PROVE Inv'
<1>1. kv' = kv
  BY DEF DummyRun, Inv, TypeInv
<1>2. phase = "idle"
      /\ UNCHANGED <<tokens, computed, drafts, running, waiting, table, kv, dkv,
                     at, budget, batch, context, sampled, phase>>
  BY <1>1 DEF DummyRun, sched
<1>3. TypeInv' /\ QueueInv' /\ TokensInv' /\ PagesInv' /\ CacheInv'
  BY <1>2, Untouched DEF Inv, TypeInv
<1>4. BatchInv'
  BY <1>2 DEF Inv, BatchInv
<1>5. SampledInv'
  BY <1>2 DEF Inv, SampledInv
<1> QED
  BY <1>3, <1>4, <1>5 DEF Inv

(***************************************************************************)
(* Scheduling.                                                             *)
(***************************************************************************)
LEMMA KeptSlots ==
    ASSUME TypeInv, table' \in [Requests -> Seq(Pages)], Kept, NEW r \in Requests
    PROVE  /\ Room(r) <= Room(r)' /\ Room(r)' \in Nat
           /\ \A p \in Nat : p < Room(r) => Slot(r, p)' = Slot(r, p)
<1>1. Len(table[r]) \in Nat /\ Len(table'[r]) \in Nat /\ Len(table[r]) <= Len(table'[r]) /\ PageSize \in Nat
  BY Constants DEF TypeInv, Kept
<1>2. Room(r) <= Room(r)' /\ Room(r)' \in Nat
  <2>1. ASSUME NEW a \in Nat, NEW b \in Nat, NEW d \in Nat, a <= b PROVE a * d <= b * d /\ b * d \in Nat
    BY <2>1
  <2> QED
    BY <1>1, <2>1 DEF Room
<1>3. ASSUME NEW p \in Nat, p < Room(r) PROVE Slot(r, p)' = Slot(r, p)
  <2>1. p \div PageSize + 1 \in 1..Len(table[r])
    BY <1>3, SlotIsThere
  <2> QED
    BY <2>1 DEF Kept, Slot
<1> QED
  BY <1>2, <1>3

LEMMA KeptCache ==
    ASSUME TypeInv, CacheInv, table' \in [Requests -> Seq(Pages)], Kept,
           UNCHANGED <<computed, kv, dkv>>, Live \subseteq Requests, Live' \subseteq Live
    PROVE  CacheInv'
<1> SUFFICES ASSUME NEW r \in Live'
             PROVE  /\ computed[r] <= Room(r)'
                    /\ Holds(kv, r, computed[r])' /\ (NumSpec > 0 => Holds(dkv, r, computed[r])')
  BY DEF CacheInv
<1>1. r \in Live /\ r \in Requests /\ computed[r] \in Nat
  BY DEF TypeInv
<1>2. computed[r] <= Room(r) /\ Room(r) \in Nat /\ Room(r) <= Room(r)' /\ Room(r)' \in Nat
  BY <1>1, RoomType, KeptSlots DEF CacheInv
<1>3. ASSUME NEW q \in 0..(computed[r] - 1) PROVE Slot(r, q)' = Slot(r, q)
  <2>1. q \in Nat /\ q < Room(r)
    BY <1>1, <1>2
  <2> QED
    BY <1>1, <2>1, KeptSlots
<1>4. Holds(kv, r, computed[r]) /\ (NumSpec > 0 => Holds(dkv, r, computed[r]))
  BY <1>1 DEF CacheInv
<1>5. computed[r] <= Room(r)'
  BY <1>1, <1>2
<1>6. /\ \A q \in 0..(computed[r] - 1) : kv[Slot(r, q)'] = Cell(r, q, TRUE)
      /\ NumSpec > 0 => \A q \in 0..(computed[r] - 1) : dkv[Slot(r, q)'] = Cell(r, q, TRUE)
  BY <1>3, <1>4, Zenon DEF Holds
<1>7. Holds(kv, r, computed[r])' /\ (NumSpec > 0 => Holds(dkv, r, computed[r])')
  BY <1>6, Zenon DEF Holds, Cell
<1> QED
  BY <1>5, <1>7

LEMMA Cut ==
    ASSUME NEW T, NEW s \in Seq(T), NEW n \in 0..Len(s)
    PROVE  /\ SubSeq(s, 1, n) \in Seq(T) /\ Len(SubSeq(s, 1, n)) = n
           /\ \A i \in 1..n : SubSeq(s, 1, n)[i] = s[i]
  BY SubSeqProperties

LEMMA DraftsCut ==
    ASSUME NEW T, NEW s \in Seq(T), NEW n \in Int, n <= Len(s)
    PROVE  /\ SubSeq(s, 1, Max({n, 0})) \in Seq(T)
           /\ Len(SubSeq(s, 1, Max({n, 0}))) = IF n <= 0 THEN 0 ELSE n
<1>1. Max({n, 0}) = IF n <= 0 THEN 0 ELSE n
  BY MaxOfTwo
<1>2. Max({n, 0}) \in 0..Len(s)
  BY <1>1
<1> QED
  BY <1>1, <1>2, Cut

LEMMA Books ==
    ASSUME Inv, NEW r \in Live, r \notin DOMAIN batch, Fits(r), Take(r), Book(r),
           UNCHANGED <<tokens, computed>>
    PROVE  /\ table' \in [Requests -> Seq(Pages)] /\ drafts' \in [Requests -> Seq(BOOLEAN)]
           /\ budget' \in Nat /\ PagesInv' /\ Kept
           /\ DOMAIN batch' = DOMAIN batch \cup {r} /\ \A q \in DOMAIN batch' : Booked(q)'
<1>1. /\ r \in Requests /\ Wanted(r) \in Nat /\ Wanted(r) <= budget /\ computed[r] + Wanted(r) < MaxLen
      /\ computed[r] + Wanted(r) <= Len(tokens[r]) + Len(drafts[r])
  BY WantedFits DEF Inv
<1>2. /\ table' \in [Requests -> Seq(Pages)] /\ PagesInv' /\ Kept
      /\ Len(table'[r]) = Len(table[r]) + Lacks(r)
  BY TakesPages DEF Inv
<1>3. budget' \in Nat
  BY <1>1 DEF Book, Inv, TypeInv
<1>4. /\ computed[r] \in Nat /\ tokens[r] \in Seq(BOOLEAN) /\ drafts \in [Requests -> Seq(BOOLEAN)]
      /\ drafts[r] \in Seq(BOOLEAN) /\ TypeInv
  BY <1>1, Zenon DEF Inv, TypeInv
<1>5. Len(tokens[r]) \in Nat /\ Len(drafts[r]) \in Nat
  BY <1>4, LenProperties
<1> DEFINE over == computed[r] + Wanted(r) - Len(tokens[r])
           cut  == SubSeq(drafts[r], 1, Max({over, 0}))
<1>6. over \in Int /\ over <= Len(drafts[r])
  <2>1. ASSUME NEW c \in Nat, NEW w \in Nat, NEW l \in Nat, NEW d \in Nat, c + w <= l + d
        PROVE  c + w - l \in Int /\ c + w - l <= d
    BY <2>1
  <2> QED
    BY <1>1, <1>4, <1>5, <2>1
<1>7. cut \in Seq(BOOLEAN) /\ Len(cut) = IF over <= 0 THEN 0 ELSE over
  <2> HIDE DEF over
  <2> QED
    BY <1>4, <1>6, DraftsCut
<1>8. drafts' = [drafts EXCEPT ![r] = cut]
  BY DEF Book
<1> HIDE DEF cut
<1>9. /\ drafts' \in [Requests -> Seq(BOOLEAN)] /\ drafts'[r] = cut
      /\ \A q \in Requests : q # r => drafts'[q] = drafts[q]
  <2>1. drafts' \in [Requests -> Seq(BOOLEAN)]
    BY <1>4, <1>7, <1>8, Zenon
  <2> QED
    BY <1>1, <1>4, <1>8, <2>1
<1>10. /\ DOMAIN batch' = DOMAIN batch \cup {r} /\ batch'[r] = Wanted(r)
       /\ \A q \in DOMAIN batch : q # r => batch'[q] = batch[q]
  BY DEF Book
<1>11. Booked(r)'
  <2>1. batch'[r] \in Nat /\ computed'[r] + batch'[r] < MaxLen
    BY <1>1, <1>10
  <2>2. computed'[r] + batch'[r] + Block <= Room(r)' \/ MaxLen <= Room(r)'
    <3>1. Room(r)' = (Len(table[r]) + Lacks(r)) * PageSize
      BY <1>2 DEF Room
    <3> QED
      BY <1>10, <3>1, LacksEnough DEF Inv
  <2>3. IF Discarded(r)' THEN Len(drafts'[r]) = 0
        ELSE Len(drafts'[r]) = computed'[r] + batch'[r] - Len(tokens'[r])
    <3>1. Discarded(r)' <=> computed[r] + Wanted(r) < Len(tokens[r])
      BY <1>10 DEF Discarded
    <3>2. Discarded(r)' => over <= 0
      BY <1>1, <1>4, <1>5, <3>1
    <3>3. ~Discarded(r)' => over >= 0
      BY <1>1, <1>4, <1>5, <3>1
    <3>4. over = computed'[r] + batch'[r] - Len(tokens'[r])
      BY <1>10
    <3> HIDE DEF over
    <3> QED
      BY <1>6, <1>7, <1>9, <3>2, <3>3, <3>4
  <2> QED
    BY <2>1, <2>2, <2>3 DEF Booked
<1>12. ASSUME NEW q \in DOMAIN batch, q # r PROVE Booked(q)'
  <2>1. q \in Requests /\ Booked(q)
    BY InBatch DEF Inv, BatchInv
  <2>2. Room(q) <= Room(q)' /\ Room(q)' \in Nat /\ Room(q) \in Nat
    BY <1>2, <1>4, <2>1, KeptSlots, RoomType
  <2>3. batch'[q] = batch[q] /\ drafts'[q] = drafts[q] /\ Discarded(q)' = Discarded(q)
    BY <1>9, <1>10, <1>12, <2>1 DEF Discarded
  <2>4. computed[q] + batch[q] + Block \in Nat /\ MaxLen \in Nat
    <3>1. batch[q] \in Nat
      BY <2>1, Zenon DEF Booked
    <3>2. computed[q] \in Nat
      BY <2>1, QueueTypes DEF Inv
    <3> QED
      BY <3>1, <3>2, Constants
  <2>5. computed'[q] + batch'[q] + Block <= Room(q)' \/ MaxLen <= Room(q)'
    BY <2>1, <2>2, <2>3, <2>4 DEF Booked
  <2> QED
    BY <2>1, <2>3, <2>5 DEF Booked
<1> QED
  BY <1>2, <1>3, <1>9, <1>10, <1>11, <1>12

\* The types a scheduling step can disturb.
LEMMA TypesKept ==
    ASSUME TypeInv, UNCHANGED <<tokens, kv, dkv>>, computed' \in [Requests -> Nat],
           table' \in [Requests -> Seq(Pages)], drafts' \in [Requests -> Seq(BOOLEAN)],
           running' \in Seq(Requests), waiting' \in Seq(Requests), budget' \in Nat, at' \in Nat
    PROVE  TypeInv'
<1>1. tokens' \in [Requests -> Seq(BOOLEAN)]
  BY Zenon DEF TypeInv
<1>2. kv' = [s \in Slots |-> kv'[s]] /\ dkv' = [s \in Slots |-> dkv'[s]]
  BY Zenon DEF TypeInv
<1> QED
  BY <1>1, <1>2, Zenon DEF TypeInv

LEMMA ScheduleRunningKeeps == ASSUME Inv, ScheduleRunning PROVE Inv'
<1> DEFINE r == running[at]
<1>1. phase = "running" /\ at \in 1..Len(running) /\ Len(running) \in Nat
  <2>1. phase = "running" /\ ~(at > Len(running)) /\ Len(running) \in Nat
    BY QueueTypes DEF ScheduleRunning, RunningOver, Inv
  <2>2. at \in 1..(Len(running) + 1)
    BY <2>1 DEF Inv, BatchInv
  <2> QED
    BY <2>1, <2>2
<1>2. DOMAIN batch = {running[i] : i \in 1..(at - 1)}
  BY <1>1 DEF Inv, BatchInv
<1>3. r \in Live /\ r \notin DOMAIN batch /\ DOMAIN running = 1..Len(running)
  <2>1. DOMAIN running = 1..Len(running)
    BY DEF Inv, TypeInv
  <2>2. r \in Live
    BY <1>1, <2>1 DEF Live, ToSet
  <2>3. ASSUME NEW i \in 1..(at - 1) PROVE running[i] # r
    BY <1>1, <2>1 DEF Inv, QueueInv
  <2> QED
    BY <1>2, <2>1, <2>2, <2>3
<1> HIDE DEF r
<1>4. /\ Fits(r) /\ Take(r) /\ Book(r) /\ at' = at + 1 /\ phase' = "running"
      /\ UNCHANGED <<tokens, computed, running, waiting, kv, dkv, sampled, context>>
  BY DEF ScheduleRunning, r
<1>5. /\ table' \in [Requests -> Seq(Pages)] /\ drafts' \in [Requests -> Seq(BOOLEAN)]
      /\ budget' \in Nat /\ PagesInv' /\ Kept
      /\ DOMAIN batch' = DOMAIN batch \cup {r} /\ \A q \in DOMAIN batch' : Booked(q)'
  BY <1>3, <1>4, Books
<1>6. Live' = Live /\ Live \subseteq Requests
  BY <1>4, InBatch DEF Live
<1>7. TypeInv'
  <2>1. at' \in Nat /\ computed' \in [Requests -> Nat]
    BY <1>1, <1>4 DEF Inv, TypeInv
  <2>2. running' \in Seq(Requests) /\ waiting' \in Seq(Requests)
    BY <1>4 DEF Inv, TypeInv
  <2> QED
    BY <1>4, <1>5, <2>1, <2>2, TypesKept DEF Inv
<1>8. QueueInv'
  BY <1>4 DEF Inv, QueueInv
<1>9. TokensInv'
  BY <1>4, <1>6 DEF Inv, TokensInv, Answered
<1>10. CacheInv'
  BY <1>4, <1>5, <1>6, KeptCache DEF Inv
<1>11. BatchInv'
  <2>1. at' \in 1..(Len(running') + 1)
    BY <1>1, <1>4
  <2>2. DOMAIN batch' = {running'[i] : i \in 1..(at' - 1)}
    <3>1. \A i : i \in 1..(at' - 1) <=> i \in 1..(at - 1) \/ i = at
      BY <1>1, <1>4
    <3> QED
      BY <1>2, <1>4, <1>5, <3>1 DEF r
  <2> QED
    BY <1>4, <1>5, <2>1, <2>2 DEF BatchInv
<1>12. SampledInv'
  BY <1>1, <1>4 DEF Inv, SampledInv
<1> QED
  BY <1>5, <1>7, <1>8, <1>9, <1>10, <1>11, <1>12 DEF Inv

LEMMA AdmitKeeps == ASSUME Inv, Admit PROVE Inv'
<1> DEFINE r == Head(waiting)
<1>1. /\ phase = "running" /\ at \in 1..(Len(running) + 1) /\ Len(running) \in Nat
      /\ running \in Seq(Requests) /\ waiting \in Seq(Requests) /\ waiting # <<>>
  BY DEF Admit, Admissible, Inv, TypeInv, BatchInv
<1>2. at = Len(running) + 1
  BY <1>1 DEF Admit, Admissible, RunningOver
<1>3. DOMAIN batch = {running[i] : i \in 1..Len(running)}
  BY <1>1, <1>2 DEF Inv, BatchInv
<1>4. r = waiting[1] /\ 1 \in DOMAIN waiting /\ r \in Requests
  BY <1>1
<1>5. r \in Live /\ r \notin DOMAIN batch
  <2>1. r \in Live
    BY <1>4 DEF Live, ToSet
  <2>2. \A i \in 1..Len(running) : running[i] # r
    BY <1>1, <1>4 DEF Inv, QueueInv
  <2> QED
    BY <1>3, <2>1, <2>2
<1>6. /\ running' = Append(running, r) /\ running' \in Seq(Requests) /\ Len(running') = Len(running) + 1
      /\ \A i \in 1..Len(running) : running'[i] = running[i]
      /\ running'[Len(running) + 1] = r
  <2>1. running' = Append(running, r)
    BY DEF Admit
  <2> QED
    BY <1>1, <1>4, <2>1, AppendProperties
<1>7. /\ waiting' = Tail(waiting) /\ waiting' \in Seq(Requests) /\ Len(waiting') = Len(waiting) - 1
      /\ \A i \in 1..Len(waiting') : waiting'[i] = waiting[i + 1]
  <2>1. waiting' = Tail(waiting)
    BY DEF Admit
  <2> QED
    BY <1>1, <2>1, HeadTailProperties
<1> HIDE DEF r
<1>8. /\ Fits(r) /\ Take(r) /\ Book(r) /\ at' = at + 1 /\ phase' = "running"
      /\ UNCHANGED <<tokens, computed, kv, dkv, sampled, context>>
  BY <1>1 DEF Admit, Admissible, r
<1>9. /\ table' \in [Requests -> Seq(Pages)] /\ drafts' \in [Requests -> Seq(BOOLEAN)]
      /\ budget' \in Nat /\ PagesInv' /\ Kept
      /\ DOMAIN batch' = DOMAIN batch \cup {r} /\ \A q \in DOMAIN batch' : Booked(q)'
  BY <1>5, <1>8, Books
<1>10. /\ DOMAIN running = 1..Len(running) /\ DOMAIN waiting = 1..Len(waiting) /\ Len(waiting) \in Nat
       /\ DOMAIN running' = 1..(Len(running) + 1) /\ DOMAIN waiting' = 1..(Len(waiting) - 1)
  BY <1>1, <1>6, <1>7
\* An element of the new lists is one of the old ones; the first waiting one moves.
<1>11. /\ \A i \in DOMAIN running' : \/ i \in DOMAIN running /\ running'[i] = running[i]
                                     \/ i = Len(running) + 1 /\ running'[i] = waiting[1]
       /\ \A i \in DOMAIN waiting' : i + 1 \in DOMAIN waiting /\ waiting'[i] = waiting[i + 1]
  BY <1>1, <1>4, <1>6, <1>7, <1>10 DEF r
<1>12. Live' \subseteq Live /\ Live \subseteq Requests
  <2>1. \A i \in DOMAIN running' : running'[i] \in Live
    BY <1>4, <1>11 DEF Live, ToSet
  <2>2. \A i \in DOMAIN waiting' : waiting'[i] \in Live
    BY <1>11 DEF Live, ToSet
  <2> QED
    BY <2>1, <2>2, InBatch DEF Live, ToSet
<1>13. TypeInv'
  <2>1. at' \in Nat /\ computed' \in [Requests -> Nat]
    BY <1>1, <1>8 DEF Inv, TypeInv
  <2> QED
    BY <1>6, <1>7, <1>8, <1>9, <2>1, TypesKept DEF Inv
<1>14. QueueInv'
  <2>1. ASSUME NEW i \in DOMAIN running', NEW j \in DOMAIN running', running'[i] = running'[j] PROVE i = j
    BY <1>4, <1>11, <2>1 DEF Inv, QueueInv
  <2>2. ASSUME NEW i \in DOMAIN waiting', NEW j \in DOMAIN waiting', waiting'[i] = waiting'[j] PROVE i = j
    <3>1. waiting[i + 1] = waiting[j + 1] /\ i + 1 \in DOMAIN waiting /\ j + 1 \in DOMAIN waiting
      BY <1>11, <2>2
    <3>2. i + 1 = j + 1 /\ i \in Int /\ j \in Int
      BY <1>10, <3>1 DEF Inv, QueueInv
    <3> QED
      BY <3>2
  <2>3. ASSUME NEW i \in DOMAIN running', NEW j \in DOMAIN waiting' PROVE running'[i] # waiting'[j]
    <3>1. waiting'[j] = waiting[j + 1] /\ j + 1 \in DOMAIN waiting /\ j \in 1..(Len(waiting) - 1)
      BY <1>10, <1>11
    <3>2. j + 1 # 1
      BY <1>10, <3>1
    <3> QED
      BY <1>4, <1>11, <3>1, <3>2 DEF Inv, QueueInv
  <2> QED
    BY <2>1, <2>2, <2>3 DEF QueueInv
<1>15. TokensInv'
  <2>1. \A q \in Requests : Answered(q)' = Answered(q)
    BY <1>8 DEF Answered
  <2> QED
    BY <1>8, <1>12, <2>1 DEF Inv, TokensInv
<1>16. CacheInv'
  BY <1>8, <1>9, <1>12, KeptCache DEF Inv
<1>17. BatchInv'
  <2>1. at' \in 1..(Len(running') + 1)
    BY <1>1, <1>2, <1>6, <1>8
  <2>2. DOMAIN batch' = {running'[i] : i \in 1..(at' - 1)}
    <3>1. \A i : i \in 1..(at' - 1) <=> i \in 1..Len(running) \/ i = Len(running) + 1
      BY <1>1, <1>2, <1>8
    <3> QED
      BY <1>3, <1>6, <1>9, <3>1
  <2> QED
    BY <1>8, <1>9, <2>1, <2>2 DEF BatchInv
<1>18. SampledInv'
  BY <1>1, <1>8 DEF Inv, SampledInv
<1> QED
  BY <1>9, <1>13, <1>14, <1>15, <1>16, <1>17, <1>18 DEF Inv

(***************************************************************************)
(* Requests that give their pages back.                                    *)
(***************************************************************************)
LEMMA GivesBack ==
    ASSUME TypeInv, PagesInv, NEW S,
           table' = [r \in Requests |-> IF r \in S THEN <<>> ELSE table[r]]
    PROVE  /\ table' \in [Requests -> Seq(Pages)] /\ PagesInv'
           /\ \A r \in Requests \ S : table'[r] = table[r]
<1>1. \A r \in Requests : table[r] \in Seq(Pages)
  BY DEF TypeInv
<1>2. table' \in [Requests -> Seq(Pages)]
  BY <1>1
<1>3. \A r \in Requests \ S : table'[r] = table[r]
  OBVIOUS
<1>4. \A r \in Requests : r \in S => table'[r] = <<>>
  OBVIOUS
<1>5. ASSUME NEW r \in Requests, NEW i \in DOMAIN table'[r] PROVE r \notin S
  BY <1>4, <1>5
<1>6. PagesInv'
  BY <1>3, <1>5 DEF PagesInv
<1> QED
  BY <1>2, <1>3, <1>6

LEMMA GivesBackCache ==
    ASSUME Inv, NEW S, UNCHANGED <<kv, dkv>>, Live' \subseteq Live,
           \A r \in Live' \ S : computed'[r] = computed[r] /\ table'[r] = table[r],
           \A r \in Live' \cap S : computed'[r] = 0,
           table' \in [Requests -> Seq(Pages)]
    PROVE  CacheInv'
<1> SUFFICES ASSUME NEW r \in Live'
             PROVE  /\ computed'[r] <= Room(r)'
                    /\ Holds(kv, r, computed[r])' /\ (NumSpec > 0 => Holds(dkv, r, computed[r])')
  BY DEF CacheInv
<1>1. CASE r \in S
  <2>1. Room(r)' \in Nat
    <3>1. r \in Requests
      BY InBatch
    <3>2. Len(table'[r]) \in Nat /\ PageSize \in Nat
      BY <3>1, Constants
    <3> QED
      BY <3>2 DEF Room
  <2>2. computed'[r] = 0 /\ 0..(0 - 1) = {}
    BY <1>1
  <2> QED
    BY <2>1, <2>2 DEF Holds
<1>2. CASE r \notin S
  <2>1. /\ computed[r] <= Room(r) /\ Holds(kv, r, computed[r])
        /\ NumSpec > 0 => Holds(dkv, r, computed[r])
    BY DEF Inv, CacheInv
  <2>2. computed'[r] = computed[r] /\ table'[r] = table[r]
    BY <1>2
  <2>3. Room(r)' = Room(r) /\ \A q : Slot(r, q)' = Slot(r, q)
    BY <2>2 DEF Room, Slot
  <2> QED
    BY <2>1, <2>2, <2>3 DEF Holds
<1> QED
  BY <1>1, <1>2

LEMMA PreemptKeeps == ASSUME Inv, Preempt PROVE Inv'
<1> DEFINE r == Last(running)
           n == Len(running)
<1>1. /\ phase = "running" /\ at \in 1..n /\ n \in Nat /\ running \in Seq(Requests)
      /\ waiting \in Seq(Requests) /\ DOMAIN running = 1..n
  <2>1. phase = "running" /\ ~(at > n) /\ n \in Nat /\ DOMAIN running = 1..n
    BY QueueTypes DEF Preempt, RunningOver, Inv
  <2>2. at \in 1..(n + 1)
    BY <2>1 DEF Inv, BatchInv
  <2> QED
    BY <2>1, <2>2, QueueTypes DEF Inv
<1>2. r = running[n] /\ r \in Requests /\ r \in Live
  BY <1>1 DEF Last, Live, ToSet
<1>3. /\ waiting' = <<r>> \o waiting /\ waiting' \in Seq(Requests) /\ DOMAIN waiting' = 1..(Len(waiting) + 1)
      /\ waiting'[1] = r /\ \A i \in 1..Len(waiting) : waiting'[i + 1] = waiting[i]
  <2>1. waiting' = <<r>> \o waiting
    BY DEF Preempt
  <2> HIDE DEF r
  <2>2. <<r>> \in Seq(Requests) /\ Len(<<r>>) = 1 /\ <<r>>[1] = r
    BY <1>2
  <2>3. /\ waiting' \in Seq(Requests) /\ Len(waiting') = 1 + Len(waiting)
        /\ \A i \in 1..(1 + Len(waiting)) : waiting'[i] = IF i <= 1 THEN <<r>>[i] ELSE waiting[i - 1]
    BY <1>1, <2>1, <2>2, ConcatProperties
  <2>4. Len(waiting) \in Nat /\ DOMAIN waiting' = 1..(Len(waiting) + 1)
    BY <1>1, <2>3
  <2> QED
    BY <2>1, <2>2, <2>3, <2>4
<1>4. /\ running' \in Seq(Requests) /\ DOMAIN running' = 1..(n - 1) /\ Len(running') = n - 1
      /\ \A i \in 1..(n - 1) : running'[i] = running[i]
  <2>1. running' = SubSeq(running, 1, n - 1)
    BY DEF Preempt, Front
  <2>2. n - 1 \in 0..Len(running)
    BY <1>1
  <2> HIDE DEF n
  <2>3. running' \in Seq(Requests) /\ Len(running') = n - 1 /\ \A i \in 1..(n - 1) : running'[i] = running[i]
    BY <1>1, <2>1, <2>2, Cut
  <2> QED
    BY <2>3
<1> HIDE DEF r, n
<1>5. /\ table' = [table EXCEPT ![r] = <<>>] /\ computed' = [computed EXCEPT ![r] = 0]
      /\ drafts' = [drafts EXCEPT ![r] = <<>>] /\ phase' = "running"
      /\ UNCHANGED <<tokens, at, budget, batch, kv, dkv, sampled, context>>
  BY <1>1 DEF Preempt, r
<1>6. /\ table \in [Requests -> Seq(Pages)] /\ computed \in [Requests -> Nat]
      /\ drafts \in [Requests -> Seq(BOOLEAN)] /\ at \in Nat /\ budget \in Nat
  BY Zenon DEF Inv, TypeInv
<1>7. table' = [q \in Requests |-> IF q \in {r} THEN <<>> ELSE table[q]]
  BY <1>5, <1>6
<1>8. table' \in [Requests -> Seq(Pages)] /\ PagesInv' /\ \A q \in Requests \ {r} : table'[q] = table[q]
  BY <1>7, GivesBack DEF Inv
<1>9. /\ computed' \in [Requests -> Nat] /\ computed'[r] = 0
      /\ \A q \in Requests \ {r} : computed'[q] = computed[q]
  BY <1>2, <1>5, <1>6
<1>10. drafts' \in [Requests -> Seq(BOOLEAN)] /\ \A q \in Requests \ {r} : drafts'[q] = drafts[q]
  <2>1. <<>> \in Seq(BOOLEAN)
    BY EmptySeq, Zenon
  <2>2. drafts' \in [Requests -> Seq(BOOLEAN)]
    BY <1>5, <1>6, <2>1, Zenon
  <2>3. \A q \in Requests \ {r} : drafts'[q] = drafts[q]
    BY <1>5, <1>6
  <2> QED
    BY <2>2, <2>3
<1>11. TypeInv'
  <2>1. at' \in Nat /\ budget' \in Nat
    BY <1>5, <1>6
  <2> QED
    BY <1>3, <1>4, <1>5, <1>8, <1>9, <1>10, <2>1, TypesKept DEF Inv
<1>12. DOMAIN waiting = 1..Len(waiting) /\ Len(waiting) \in Nat
  BY <1>1
<1>13. \A i \in DOMAIN waiting' : \/ i = 1 /\ waiting'[i] = r
                                  \/ i - 1 \in DOMAIN waiting /\ waiting'[i] = waiting[i - 1]
  <2> SUFFICES ASSUME NEW i \in DOMAIN waiting', i # 1
               PROVE  i - 1 \in DOMAIN waiting /\ waiting'[i] = waiting[i - 1]
    BY <1>3
  <2>1. i \in 1..(Len(waiting) + 1)
    BY <1>3
  <2>2. i - 1 \in 1..Len(waiting) /\ i = (i - 1) + 1
    BY <1>12, <2>1
  <2> QED
    BY <1>3, <1>12, <2>2
<1>14. Live' \subseteq Live /\ Live \subseteq Requests
  <2>1. \A i \in DOMAIN running' : running'[i] \in Live
    <3> SUFFICES ASSUME NEW i \in DOMAIN running' PROVE running'[i] \in Live
      OBVIOUS
    <3>1. i \in 1..n /\ running'[i] = running[i]
      BY <1>1, <1>4
    <3> QED
      BY <1>1, <3>1 DEF Live, ToSet
  <2>2. \A i \in DOMAIN waiting' : waiting'[i] \in Live
    BY <1>2, <1>13 DEF Live, ToSet
  <2> QED
    BY <2>1, <2>2, InBatch DEF Live, ToSet
<1>15. QueueInv'
  <2>0. \A i \in DOMAIN running' : i \in DOMAIN running /\ i # n /\ running'[i] = running[i]
    BY <1>1, <1>4
  <2>00. n \in DOMAIN running
    BY <1>1
  <2>1. ASSUME NEW i \in DOMAIN running', NEW j \in DOMAIN running', running'[i] = running'[j] PROVE i = j
    BY <2>0, <2>1 DEF Inv, QueueInv
  <2>2. ASSUME NEW i \in DOMAIN waiting', NEW j \in DOMAIN waiting', waiting'[i] = waiting'[j] PROVE i = j
    <3>1. CASE i = 1
      <4>1. \A k \in DOMAIN waiting : waiting[k] # r
        BY <1>2, <2>00 DEF Inv, QueueInv
      <4> QED
        BY <1>3, <1>13, <2>2, <3>1, <4>1
    <3>2. CASE j = 1
      <4>1. \A k \in DOMAIN waiting : waiting[k] # r
        BY <1>2, <2>00 DEF Inv, QueueInv
      <4> QED
        BY <1>3, <1>13, <2>2, <3>2, <4>1
    <3>3. CASE i # 1 /\ j # 1
      <4>1. i - 1 = j - 1
        BY <1>13, <2>2, <3>3 DEF Inv, QueueInv
      <4> QED
        BY <1>3, <4>1
    <3> QED
      BY <3>1, <3>2, <3>3
  <2>3. ASSUME NEW i \in DOMAIN running', NEW j \in DOMAIN waiting' PROVE running'[i] # waiting'[j]
    <3>1. CASE waiting'[j] = r
      BY <1>2, <2>0, <2>00, <3>1 DEF Inv, QueueInv
    <3>2. CASE j - 1 \in DOMAIN waiting /\ waiting'[j] = waiting[j - 1]
      BY <2>0, <3>2 DEF Inv, QueueInv
    <3> QED
      BY <1>13, <3>1, <3>2
  <2> QED
    BY <2>1, <2>2, <2>3 DEF QueueInv
<1>16. TokensInv'
  <2>1. \A q \in Requests : Answered(q)' = Answered(q)
    BY <1>5 DEF Answered
  <2>2. ASSUME NEW q \in Live' PROVE computed'[q] < Len(tokens'[q])
    <3>1. q \in Requests /\ q \in Live /\ Len(tokens[q]) \in Nat /\ computed[q] \in Nat
      BY <1>6, <1>14, Zenon, LenProperties DEF Inv, TypeInv
    <3>2. computed[q] < Len(tokens[q])
      BY <3>1 DEF Inv, TokensInv
    <3>3. CASE q = r
      BY <1>5, <1>9, <3>1, <3>2, <3>3
    <3>4. CASE q # r
      BY <1>5, <1>9, <3>1, <3>2, <3>4
    <3> QED
      BY <3>3, <3>4
  <2> QED
    BY <1>5, <1>14, <2>1, <2>2 DEF Inv, TokensInv
<1>17. CacheInv'
  <2>1. \A q \in Live' \ {r} : computed'[q] = computed[q] /\ table'[q] = table[q]
    BY <1>8, <1>9, <1>14
  <2>2. \A q \in Live' \cap {r} : computed'[q] = 0
    BY <1>9
  <2> QED
    BY <1>5, <1>8, <1>14, <2>1, <2>2, GivesBackCache
<1>18. BatchInv'
  <2>1. DOMAIN batch = {running[i] : i \in 1..(at - 1)}
    BY <1>1 DEF Inv, BatchInv
  <2>2. \A i \in 1..(at - 1) : i \in 1..(n - 1) /\ i \in DOMAIN running /\ i # n
    BY <1>1
  <2>3. DOMAIN batch' = {running'[i] : i \in 1..(at' - 1)}
    <3>1. \A i \in 1..(at - 1) : running'[i] = running[i]
      BY <1>4, <2>2
    <3>2. at' = at /\ batch' = batch
      BY <1>5
    <3> QED
      BY <2>1, <3>1, <3>2
  <2>4. r \notin DOMAIN batch
    <3>1. n \in DOMAIN running
      BY <1>1
    <3> QED
      BY <1>2, <2>1, <2>2, <3>1 DEF Inv, QueueInv
  <2>5. ASSUME NEW q \in DOMAIN batch PROVE Booked(q)'
    <3>1. q \in Requests \ {r} /\ Booked(q)
      BY <2>4, InBatch DEF Inv, BatchInv
    <3>2. /\ computed'[q] = computed[q] /\ table'[q] = table[q] /\ drafts'[q] = drafts[q]
          /\ batch' = batch /\ tokens' = tokens
      BY <1>5, <1>8, <1>9, <1>10, <3>1
    <3> QED
      BY <3>1, <3>2 DEF Booked, Discarded, Room
  <2>6. at' \in 1..(Len(running') + 1)
    BY <1>1, <1>4, <1>5
  <2> QED
    BY <1>5, <2>3, <2>5, <2>6 DEF BatchInv
<1>19. SampledInv'
  BY <1>1, <1>5 DEF Inv, SampledInv
<1> QED
  BY <1>8, <1>11, <1>15, <1>16, <1>17, <1>18, <1>19 DEF Inv

\* Lists that lose some of their requests.
LEMMA Leave ==
    ASSUME Inv, NEW S, running' = Without(running, S), waiting' \in {waiting, Without(waiting, S)}
    PROVE  /\ running' \in Seq(Requests) /\ waiting' \in Seq(Requests)
           /\ QueueInv' /\ Live' \subseteq Live
           /\ ToSet(running') \cap S = {} /\ ToSet(waiting') \subseteq ToSet(waiting)
           /\ waiting' = Without(waiting, S) => ToSet(waiting') \cap S = {}
<1>1. running \in Seq(Requests) /\ waiting \in Seq(Requests)
  BY DEF Inv, TypeInv
<1>2. /\ running' \in Seq(Requests)
      /\ \A i \in DOMAIN running' : \E j \in DOMAIN running : running'[i] = running[j] /\ running[j] \notin S
      /\ \A i, j \in DOMAIN running' : running'[i] = running'[j] => i = j
  BY <1>1, WithoutKeeps DEF Inv, QueueInv
<1>3. /\ waiting' \in Seq(Requests)
      /\ \A i \in DOMAIN waiting' : \E j \in DOMAIN waiting :
            waiting'[i] = waiting[j] /\ (waiting' = Without(waiting, S) => waiting[j] \notin S)
      /\ \A i, j \in DOMAIN waiting' : waiting'[i] = waiting'[j] => i = j
  <2>1. CASE waiting' = waiting /\ waiting' # Without(waiting, S)
    BY <1>1, <2>1 DEF Inv, QueueInv
  <2>2. CASE waiting' = Without(waiting, S)
    BY <1>1, <2>2, WithoutKeeps DEF Inv, QueueInv
  <2> QED
    BY <2>1, <2>2
<1>4. \A i \in DOMAIN running', j \in DOMAIN waiting' : running'[i] # waiting'[j]
  BY <1>2, <1>3 DEF Inv, QueueInv
<1>5. /\ ToSet(running') \subseteq ToSet(running) /\ ToSet(running') \cap S = {}
      /\ ToSet(waiting') \subseteq ToSet(waiting)
      /\ waiting' = Without(waiting, S) => ToSet(waiting') \cap S = {}
  BY <1>2, <1>3 DEF ToSet
<1> QED
  BY <1>2, <1>3, <1>4, <1>5 DEF QueueInv, Live

LEMMA AbortKeeps == ASSUME Inv, NEW r \in Requests, Abort(r) PROVE Inv'
<1>1. /\ phase = "idle" /\ running' = Without(running, {r}) /\ waiting' = Without(waiting, {r})
      /\ table' = [table EXCEPT ![r] = <<>>]
      /\ UNCHANGED <<tokens, computed, drafts, at, budget, batch, phase, kv, dkv, sampled, context>>
  BY DEF Abort
<1>2. /\ running' \in Seq(Requests) /\ waiting' \in Seq(Requests) /\ QueueInv' /\ Live' \subseteq Live
      /\ r \notin Live' /\ Live \subseteq Requests
  <2>1. /\ running' \in Seq(Requests) /\ waiting' \in Seq(Requests) /\ QueueInv' /\ Live' \subseteq Live
        /\ ToSet(running') \cap {r} = {} /\ ToSet(waiting') \cap {r} = {}
    BY <1>1, Leave
  <2> QED
    BY <2>1, InBatch DEF Live
<1>3. table' = [q \in Requests |-> IF q \in {r} THEN <<>> ELSE table[q]]
  <2>1. table \in [Requests -> Seq(Pages)]
    BY DEF Inv, TypeInv
  <2> QED
    BY <1>1, <2>1
<1>4. table' \in [Requests -> Seq(Pages)] /\ PagesInv' /\ \A q \in Requests \ {r} : table'[q] = table[q]
  BY <1>3, GivesBack DEF Inv
<1>5. TypeInv'
  <2>1. at' \in Nat /\ budget' \in Nat /\ computed' \in [Requests -> Nat] /\ drafts' \in [Requests -> Seq(BOOLEAN)]
    BY <1>1, Zenon DEF Inv, TypeInv
  <2> QED
    BY <1>1, <1>2, <1>4, <2>1, TypesKept DEF Inv
<1>6. TokensInv'
  <2>1. \A q \in Requests : Answered(q)' = Answered(q)
    BY <1>1 DEF Answered
  <2> QED
    BY <1>1, <1>2, <2>1 DEF Inv, TokensInv
<1>7. CacheInv'
  <2>1. \A q \in Live' \ {r} : computed'[q] = computed[q] /\ table'[q] = table[q]
    BY <1>1, <1>2, <1>4
  <2>2. \A q \in Live' \cap {r} : computed'[q] = 0
    BY <1>2
  <2> QED
    BY <1>1, <1>2, <1>4, <2>1, <2>2, GivesBackCache
<1>8. BatchInv' /\ SampledInv'
  BY <1>1 DEF Inv, BatchInv, SampledInv
<1> QED
  BY <1>2, <1>4, <1>5, <1>6, <1>7, <1>8 DEF Inv

(***************************************************************************)
(* What a step computes: rows in a request's own places, and the tokens    *)
(* that follow its context.                                                *)
(***************************************************************************)
LEMMA BatchFits ==
    ASSUME Inv, NEW r \in DOMAIN batch
    PROVE  /\ r \in Requests /\ r \in Live /\ Booked(r) /\ TypeInv /\ PagesInv
           /\ computed[r] \in Nat /\ batch[r] \in Nat /\ Room(r) \in Nat
           /\ Len(tokens[r]) \in Nat /\ Len(drafts[r]) \in Nat
           /\ computed[r] < Len(tokens[r])
           /\ computed[r] + batch[r] <= Room(r)
           /\ \A p \in Nat : p < computed[r] + batch[r] + Block /\ p < MaxLen => p < Room(r)
<1>1. r \in Requests /\ r \in Live /\ Booked(r) /\ TypeInv /\ PagesInv
  BY InBatch DEF Inv, BatchInv
<1>2. computed[r] \in Nat /\ batch[r] \in Nat /\ Room(r) \in Nat /\ MaxLen \in Nat /\ Block \in Nat
  BY <1>1, RoomType, Constants DEF Booked, TypeInv
<1>3. Len(tokens[r]) \in Nat /\ Len(drafts[r]) \in Nat
  BY <1>1, Zenon, LenProperties DEF TypeInv
<1>4. computed[r] < Len(tokens[r])
  BY <1>1 DEF Inv, TokensInv
<1>5. /\ computed[r] + batch[r] < MaxLen
      /\ computed[r] + batch[r] + Block <= Room(r) \/ MaxLen <= Room(r)
  BY <1>1 DEF Booked
<1> QED
  BY <1>1, <1>2, <1>3, <1>4, <1>5

LEMMA Joined ==
    ASSUME NEW T, NEW s \in Seq(T), NEW t \in Seq(T), NEW p \in Nat, p < Len(s) + Len(t)
    PROVE  /\ p < Len(s) => p + 1 \in 1..Len(s) /\ (s \o t)[p + 1] = s[p + 1]
           /\ p >= Len(s) => (s \o t)[p + 1] = t[p + 1 - Len(s)]
<1>1. Len(s) \in Nat /\ Len(t) \in Nat
  OBVIOUS
<1>2. p + 1 \in 1..(Len(s) + Len(t))
  BY <1>1
<1>3. (s \o t)[p + 1] = IF p + 1 <= Len(s) THEN s[p + 1] ELSE t[p + 1 - Len(s)]
  BY <1>2, ConcatProperties
<1> QED
  BY <1>1, <1>3

LEMMA Tokens ==
    ASSUME Inv, NEW r \in Requests, NEW p \in Nat, p < Len(tokens[r]) + Len(drafts[r])
    PROVE  /\ p < Len(tokens[r]) => Token(r, p) = TRUE
           /\ p >= Len(tokens[r]) => Token(r, p) = drafts[r][p + 1 - Len(tokens[r])]
<1> DEFINE s == tokens[r]  t == drafts[r]
<1>1. s \in Seq(BOOLEAN) /\ t \in Seq(BOOLEAN)
  BY Zenon DEF Inv, TypeInv
<1>2. \A i \in 1..Len(s) : s[i] = TRUE
  BY DEF Inv, TokensInv
<1>3. Token(r, p) = (s \o t)[p + 1]
  BY DEF Token
<1>4. /\ p < Len(s) => p + 1 \in 1..Len(s) /\ (s \o t)[p + 1] = s[p + 1]
      /\ p >= Len(s) => (s \o t)[p + 1] = t[p + 1 - Len(s)]
  <2>1. p < Len(s) + Len(t)
    OBVIOUS
  <2> HIDE DEF s, t
  <2> QED
    BY <1>1, <2>1, Joined, Zenon
<1>5. /\ p < Len(s) => Token(r, p) = TRUE
      /\ p >= Len(s) => Token(r, p) = t[p + 1 - Len(s)]
  <2> HIDE DEF s, t
  <2> QED
    BY <1>2, <1>3, <1>4, Zenon
<1> QED
  BY <1>5, Zenon

LEMMA RowIsBooked ==
    ASSUME Inv, NEW row \in Rows
    PROVE  /\ row[1] \in DOMAIN batch /\ row = <<row[1], row[2]>> /\ row[2] \in Nat
           /\ computed[row[1]] <= row[2] /\ row[2] < computed[row[1]] + batch[row[1]]
           /\ row[2] < Room(row[1])
<1>1. PICK r \in DOMAIN batch : row \in {r} \X (computed[r]..(computed[r] + batch[r] - 1))
  BY DEF Rows
<1>2. row[1] = r /\ row = <<row[1], row[2]>> /\ row[2] \in computed[r]..(computed[r] + batch[r] - 1)
  BY <1>1
<1>3. computed[r] \in Nat /\ batch[r] \in Nat /\ Room(r) \in Nat /\ computed[r] + batch[r] <= Room(r)
  BY BatchFits
<1>4. ASSUME NEW c \in Nat, NEW b \in Nat, NEW m \in Nat, NEW p \in c..(c + b - 1), c + b <= m
      PROVE  p \in Nat /\ c <= p /\ p < c + b /\ p < m
  BY <1>4
<1> QED
  BY <1>2, <1>3, <1>4

LEMMA ScatteredCells ==
    ASSUME Inv
    PROVE  /\ \A r \in DOMAIN batch : \A p \in computed[r]..(computed[r] + batch[r] - 1) :
                 Scattered[Slot(r, p)] = Cell(r, p, Token(r, p))
           /\ \A r \in Live : \A p \in 0..(computed[r] - 1) : Scattered[Slot(r, p)] = kv[Slot(r, p)]
<1> DEFINE hits(s) == {row \in Rows : compute_slot(row[1], row[2]) = s}
<1>1. ASSUME NEW r \in DOMAIN batch, NEW p \in computed[r]..(computed[r] + batch[r] - 1)
      PROVE  Scattered[Slot(r, p)] = Cell(r, p, Token(r, p))
  <2>1. <<r, p>> \in Rows
    <3>1. <<r, p>> \in {r} \X (computed[r]..(computed[r] + batch[r] - 1))
      OBVIOUS
    <3> QED
      BY <3>1 DEF Rows
  <2>2. r \in Requests /\ p \in Nat /\ p < Room(r) /\ TypeInv /\ PagesInv
    BY <2>1, RowIsBooked, BatchFits
  <2>3. Slot(r, p) \in Slots
    BY <2>2, SlotIsThere
  <2>4. \A row \in hits(Slot(r, p)) : row = <<r, p>>
    <3> SUFFICES ASSUME NEW row \in Rows, Slot(row[1], row[2]) = Slot(r, p) PROVE row = <<r, p>>
      BY DEF compute_slot
    <3>1. row[1] \in DOMAIN batch /\ row = <<row[1], row[2]>> /\ row[2] \in Nat /\ row[2] < Room(row[1])
      BY RowIsBooked
    <3>2. row[1] \in Requests
      BY <3>1, BatchFits
    <3>3. row[1] = r /\ row[2] = p
      BY <2>2, <3>1, <3>2, SlotsApart
    <3> QED
      BY <3>1, <3>3
  <2>5. hits(Slot(r, p)) = {<<r, p>>}
    BY <2>1, <2>4 DEF compute_slot
  <2>6. Scattered[Slot(r, p)] =
           LET row == CHOOSE row \in hits(Slot(r, p)) : TRUE IN Cell(row[1], row[2], Token(row[1], row[2]))
    BY <2>3, <2>5 DEF Scattered
  <2>7. (CHOOSE row \in {<<r, p>>} : TRUE) = <<r, p>>
    OBVIOUS
  <2> QED
    BY <2>5, <2>6, <2>7
<1>2. ASSUME NEW r \in Live, NEW p \in 0..(computed[r] - 1) PROVE Scattered[Slot(r, p)] = kv[Slot(r, p)]
  <2>1. r \in Requests /\ TypeInv /\ PagesInv /\ computed[r] \in Nat
    BY InBatch DEF Inv, TypeInv
  <2>2. computed[r] <= Room(r) /\ Room(r) \in Nat
    BY <2>1, RoomType DEF Inv, CacheInv
  <2>3. p \in Nat /\ p < computed[r] /\ p < Room(r)
    BY <2>1, <2>2
  <2>4. Slot(r, p) \in Slots
    BY <2>1, <2>3, SlotIsThere
  <2>5. hits(Slot(r, p)) = {}
    <3> SUFFICES ASSUME NEW row \in Rows, Slot(row[1], row[2]) = Slot(r, p) PROVE FALSE
      BY DEF compute_slot
    <3>1. /\ row[1] \in DOMAIN batch /\ row[2] \in Nat /\ row[2] < Room(row[1])
          /\ computed[row[1]] <= row[2]
      BY RowIsBooked
    <3>2. row[1] \in Requests
      BY <3>1, BatchFits
    <3>3. row[1] = r /\ row[2] = p
      BY <2>1, <2>3, <3>1, <3>2, SlotsApart
    <3> QED
      BY <2>1, <2>3, <3>1, <3>3
  <2> QED
    BY <2>4, <2>5 DEF Scattered
<1> QED
  BY <1>1, <1>2

LEMMA VerifiedTokens ==
    ASSUME Inv, NEW r \in DOMAIN batch, ~Discarded(r), NEW cache,
           \A p \in 0..(computed[r] - 1) : cache[Slot(r, p)] = Cell(r, p, TRUE),
           \A p \in computed[r]..(computed[r] + batch[r] - 1) : cache[Slot(r, p)] = Cell(r, p, Token(r, p))
    PROVE  /\ Verified(r, cache) \in Seq(BOOLEAN)
           /\ Len(Verified(r, cache)) \in 1..(Len(drafts[r]) + 1)
           /\ \A i \in DOMAIN Verified(r, cache) : Verified(r, cache)[i] = TRUE
           /\ \A i \in 1..(Len(Verified(r, cache)) - 1) : drafts[r][i] = TRUE
<1> DEFINE n      == Len(drafts[r])
           l      == Len(tokens[r])
           target == [i \in 1..(n + 1) |-> Right(cache, r, l + i - 2)]
           agree  == {i \in 0..n : \A j \in 1..i : drafts[r][j] = target[j]}
           g      == Max(agree)
<1>1. /\ r \in Requests /\ computed[r] \in Nat /\ batch[r] \in Nat /\ l \in Nat /\ n \in Nat
      /\ computed[r] < l /\ computed[r] + batch[r] = l + n
  <2>1. /\ r \in Requests /\ computed[r] \in Nat /\ batch[r] \in Nat /\ l \in Nat /\ n \in Nat
        /\ computed[r] < l /\ Booked(r)
    BY BatchFits
  <2>2. n = computed[r] + batch[r] - l
    BY <2>1 DEF Booked
  <2> HIDE DEF n, l
  <2> QED
    BY <2>1, <2>2
<1>2. Verified(r, cache) = SubSeq(target, 1, g + 1)
  BY DEF Verified
<1>3. target \in Seq(BOOLEAN) /\ Len(target) = n + 1
  <2>1. target \in [1..(n + 1) -> BOOLEAN]
    BY Zenon DEF Right
  <2> HIDE DEF target, n
  <2>2. n + 1 \in Nat
    BY <1>1
  <2>3. Seq(BOOLEAN) = UNION {[1..m -> BOOLEAN] : m \in Nat}
    BY SeqDef, Zenon
  <2>4. target \in Seq(BOOLEAN)
    BY <2>1, <2>2, <2>3, Zenon
  <2>5. ASSUME NEW T, NEW m \in Nat, NEW f \in [1..m -> T], f \in Seq(T) PROVE Len(f) = m
    BY <2>5
  <2> QED
    BY <2>1, <2>2, <2>4, <2>5, Zenon
<1>4. agree \in SUBSET (0..n) /\ agree # {}
  <2> HIDE DEF target
  <2>1. 0 \in 0..n /\ 1..0 = {}
    BY <1>1
  <2>2. 0 \in agree
    BY <2>1
  <2> QED
    BY <2>2
<1>5. g \in agree /\ g \in 0..n
  <2> HIDE DEF agree
  <2> QED
    BY <1>1, <1>4, MaxIsIn
<1>6. \A j \in 1..g : drafts[r][j] = target[j]
  <2> HIDE DEF target, g
  <2> QED
    BY <1>5
\* A place whose earlier drafts are all right attends to the request's own context.
<1>7. ASSUME NEW k \in 1..(n + 1), \A j \in 1..(k - 1) : drafts[r][j] = TRUE
      PROVE  target[k] = TRUE
  <2>1. ASSUME NEW q \in 0..(l + k - 2) PROVE cache[Slot(r, q)] = Cell(r, q, TRUE)
    <3> HIDE DEF n, l
    <3>1. CASE q < computed[r]
      <4>1. q \in 0..(computed[r] - 1)
        BY <1>1, <3>1
      <4> QED
        BY <4>1
    <3>2. CASE ~(q < computed[r])
      <4>1. q \in computed[r]..(computed[r] + batch[r] - 1) /\ q \in Nat /\ q < l + n
        BY <1>1, <3>2
      <4>2. /\ q < l => Token(r, q) = TRUE
            /\ q >= l => Token(r, q) = drafts[r][q + 1 - l]
        BY <1>1, <4>1, Tokens DEF n, l
      <4>3. q < l \/ (q >= l /\ q + 1 - l \in 1..(k - 1))
        BY <1>1, <4>1
      <4>4. Token(r, q) = TRUE
        BY <1>7, <4>2, <4>3, Zenon
      <4>5. cache[Slot(r, q)] = Cell(r, q, Token(r, q))
        BY <4>1
      <4> QED
        BY <4>4, <4>5
    <3> QED
      BY <3>1, <3>2
  <2>2. Right(cache, r, l + k - 2)
    BY <2>1, Zenon DEF Right
  <2> HIDE DEF n, l
  <2> QED
    BY <2>2, Zenon
<1> HIDE DEF target, agree, n, l
<1>8. \A k \in 1..(g + 1) : target[k] = TRUE
  <2> SUFFICES ASSUME ~(\A k \in 1..(g + 1) : target[k] = TRUE) PROVE FALSE
    OBVIOUS
  <2> DEFINE wrong == {k \in 1..(g + 1) : target[k] # TRUE}
  <2> HIDE DEF g
  <2>1. wrong \in SUBSET Nat /\ wrong # {}
    <3>1. 1..(g + 1) \subseteq Nat
      BY <1>1, <1>5
    <3> QED
      BY <3>1, Zenon
  <2>2. PICK k \in wrong : \A m \in wrong : k <= m
    <3> HIDE DEF wrong
    <3> QED
      BY <2>1, LeastIsIn
  <2>3. ASSUME NEW j \in 1..(k - 1) PROVE drafts[r][j] = TRUE
    <3>1. k \in 1..(g + 1) /\ j \in 1..g /\ j \in 1..(g + 1) /\ ~(k <= j)
      BY <1>5, <2>2
    <3>2. j \notin wrong
      BY <2>2, <3>1, Zenon
    <3>3. target[j] = TRUE
      BY <3>1, <3>2, Zenon
    <3> QED
      BY <1>6, <3>1, <3>3, Zenon
  <2>4. k \in 1..(n + 1)
    BY <1>1, <1>5, <2>2
  <2>5. target[k] = TRUE
    BY <1>7, <2>3, <2>4, Zenon
  <2> QED
    BY <2>2, <2>5, Zenon
<1>9. g + 1 \in 0..Len(target) /\ g + 1 \in 1..(n + 1) /\ g = (g + 1) - 1
  <2> HIDE DEF g
  <2> QED
    BY <1>1, <1>3, <1>5
<1> DEFINE v == Verified(r, cache)
<1>10. v \in Seq(BOOLEAN) /\ Len(v) = g + 1 /\ \A i \in 1..(g + 1) : v[i] = target[i]
  <2>1. v = SubSeq(target, 1, g + 1)
    BY <1>2, Zenon
  <2> HIDE DEF g, v
  <2>2. /\ SubSeq(target, 1, g + 1) \in Seq(BOOLEAN) /\ Len(SubSeq(target, 1, g + 1)) = g + 1
        /\ \A i \in 1..(g + 1) : SubSeq(target, 1, g + 1)[i] = target[i]
    BY <1>3, <1>9, Cut, Zenon
  <2> QED
    BY <2>1, <2>2, Zenon
<1>11. DOMAIN v = 1..(g + 1)
  <2>1. ASSUME NEW T, NEW f \in Seq(T) PROVE DOMAIN f = 1..Len(f)
    OBVIOUS
  <2> HIDE DEF g, v
  <2> QED
    BY <1>10, <2>1, Zenon
<1>12. \A i \in DOMAIN v : v[i] = TRUE
  <2> HIDE DEF g, v
  <2> QED
    BY <1>8, <1>10, <1>11, Zenon
<1>13. \A i \in 1..(Len(v) - 1) : drafts[r][i] = TRUE
  <2> HIDE DEF g, v
  <2>1. Len(v) - 1 = g
    BY <1>5, <1>10
  <2>2. \A i \in 1..g : i \in 1..(g + 1)
    BY <1>5
  <2> QED
    BY <1>6, <1>8, <2>1, <2>2, Zenon
<1>14. Len(v) \in 1..(n + 1)
  BY <1>9, <1>10
<1> HIDE DEF v
<1> QED
  BY <1>10, <1>12, <1>13, <1>14, Zenon DEF v, n

(***************************************************************************)
(* A step's context grows by what was accepted.                            *)
(***************************************************************************)
Outcome(r, got) ==
    IF Discarded(r) THEN got = <<>>
    ELSE /\ Len(got) \in 1..(Len(drafts[r]) + 1)
         /\ \A i \in 1..(Len(got) - 1) : drafts[r][i] = TRUE

LEMMA AcceptedEnd ==
    ASSUME Inv, NEW r \in DOMAIN batch, NEW got, Outcome(r, got)
    PROVE  LET n == accepted_context_length(batch[r], Len(drafts[r]), Len(got))
           IN  /\ n \in Nat /\ n <= batch[r]
               /\ computed[r] + n = IF Discarded(r) THEN computed[r] + batch[r]
                                    ELSE Len(tokens[r]) + Len(got) - 1
               /\ \A p \in computed[r]..(computed[r] + n - 1) :
                     /\ p \in computed[r]..(computed[r] + batch[r] - 1)
                     /\ Token(r, p) = TRUE
<1> DEFINE d == Len(drafts[r])
           l == Len(tokens[r])
           c == computed[r]
           b == batch[r]
           g == Len(got)
           n == accepted_context_length(b, d, g)
<1>1. /\ r \in Requests /\ c \in Nat /\ b \in Nat /\ l \in Nat /\ d \in Nat /\ c < l
      /\ IF Discarded(r) THEN d = 0 ELSE d = c + b - l
      /\ Discarded(r) <=> c + b < l
  BY BatchFits DEF Booked, Discarded
<1>2. n = IF d = 0 THEN b ELSE b - d + g - 1
  BY DEF accepted_context_length
<1>3. ~Discarded(r) => g \in 1..(d + 1) /\ \A i \in 1..(g - 1) : drafts[r][i] = TRUE
  BY Zenon DEF Outcome
<1>4. \A p \in Nat : p < l + d => /\ p < l => Token(r, p) = TRUE
                                  /\ p >= l => Token(r, p) = drafts[r][p + 1 - l]
  BY <1>1, Tokens
<1> HIDE DEF d, l, c, b, g, n
<1>5. n \in Nat /\ n <= b /\ c + n = IF Discarded(r) THEN c + b ELSE l + g - 1
  <2>1. CASE Discarded(r)
    BY <1>1, <1>2, <2>1
  <2>2. CASE ~Discarded(r)
    BY <1>1, <1>2, <1>3, <2>2
  <2> QED
    BY <2>1, <2>2
<1>6. ASSUME NEW p \in c..(c + n - 1) PROVE p \in c..(c + b - 1) /\ Token(r, p) = TRUE
  <2>1. p \in Nat /\ p \in c..(c + b - 1)
    BY <1>1, <1>5
  <2>2. CASE Discarded(r)
    <3>1. p < l /\ p < l + d
      BY <1>1, <2>1, <2>2
    <3> QED
      BY <1>4, <2>1, <3>1, Zenon
  <2>3. CASE ~Discarded(r)
    <3>1. p < l + d /\ (p < l \/ (p >= l /\ p + 1 - l \in 1..(g - 1)))
      BY <1>1, <1>3, <1>5, <2>1, <2>3
    <3> QED
      BY <1>3, <1>4, <2>1, <2>3, <3>1, Zenon
  <2> QED
    BY <2>2, <2>3
<1> QED
  BY <1>5, <1>6, Zenon DEF n, d, l, c, b, g

(***************************************************************************)
(* The target pass.                                                        *)
(***************************************************************************)
LEMMA ExecuteKeeps == ASSUME Inv, Execute PROVE Inv'
<1>1. /\ phase = "execute" /\ phase' = "propose" /\ kv' = Scattered
      /\ sampled' = [r \in DOMAIN batch |-> IF Discarded(r) THEN <<>> ELSE Verified(r, kv')]
      /\ UNCHANGED <<tokens, computed, drafts, running, waiting, table, at, budget, batch, dkv, context>>
  BY DEF Execute, sched
<1>2. /\ \A r \in DOMAIN batch : \A p \in computed[r]..(computed[r] + batch[r] - 1) :
            kv'[Slot(r, p)] = Cell(r, p, Token(r, p))
      /\ \A r \in Live : \A p \in 0..(computed[r] - 1) : kv'[Slot(r, p)] = kv[Slot(r, p)]
  BY <1>1, ScatteredCells
<1>3. \A r \in Live : \A p \in 0..(computed[r] - 1) : kv'[Slot(r, p)] = Cell(r, p, TRUE)
  BY <1>2, Zenon DEF Inv, CacheInv, Holds
<1>4. TypeInv'
  <2>1. kv' = [s \in Slots |-> kv'[s]]
    BY <1>1 DEF Scattered
  <2> QED
    BY <1>1, <2>1, Zenon DEF Inv, TypeInv
<1>5. QueueInv' /\ TokensInv' /\ PagesInv'
  BY <1>1 DEF Inv, QueueInv, TokensInv, PagesInv, Live, Answered
<1>6. /\ Live' = Live /\ Live \subseteq Requests /\ DOMAIN batch \subseteq Live
      /\ \A r : Room(r)' = Room(r) /\ Booked(r)' = Booked(r) /\ Discarded(r)' = Discarded(r)
      /\ \A r, p : Slot(r, p)' = Slot(r, p)
  BY <1>1, InBatch DEF Live, Room, Booked, Discarded, Slot
<1>7. CacheInv'
  <2> SUFFICES ASSUME NEW r \in Live
               PROVE  /\ computed[r] <= Room(r)
                      /\ Holds(kv, r, computed[r])' /\ (NumSpec > 0 => Holds(dkv, r, computed[r])')
    BY <1>1, <1>6 DEF CacheInv
  <2>1. computed[r] <= Room(r) /\ (NumSpec > 0 => Holds(dkv, r, computed[r]))
    BY DEF Inv, CacheInv
  <2>2. NumSpec > 0 => Holds(dkv, r, computed[r])'
    BY <1>1, <1>6, <2>1, Zenon DEF Holds, Cell
  <2>3. Holds(kv, r, computed[r])'
    BY <1>1, <1>3, <1>6, Zenon DEF Holds, Cell
  <2> QED
    BY <2>1, <2>2, <2>3
<1>8. BatchInv'
  BY <1>1, <1>6 DEF Inv, BatchInv
<1>9. ASSUME NEW r \in DOMAIN batch PROVE Sampled(r)'
  <2>1. /\ sampled'[r] \in Seq(BOOLEAN) /\ Outcome(r, sampled'[r])
        /\ \A i \in DOMAIN sampled'[r] : sampled'[r][i] = TRUE
    <3>1. CASE Discarded(r)
      <4>1. sampled'[r] = <<>>
        BY <1>1, <3>1
      <4>2. <<>> \in Seq(BOOLEAN)
        BY EmptySeq, Zenon
      <4>3. \A i \in DOMAIN <<>> : FALSE
        OBVIOUS
      <4> QED
        BY <3>1, <4>1, <4>2, <4>3, Zenon DEF Outcome
    <3>2. CASE ~Discarded(r)
      <4>1. sampled'[r] = Verified(r, kv')
        BY <1>1, <3>2, Zenon
      <4>2. /\ \A p \in 0..(computed[r] - 1) : kv'[Slot(r, p)] = Cell(r, p, TRUE)
            /\ \A p \in computed[r]..(computed[r] + batch[r] - 1) : kv'[Slot(r, p)] = Cell(r, p, Token(r, p))
        BY <1>2, <1>3, <1>6, Zenon
      <4>3. /\ Verified(r, kv') \in Seq(BOOLEAN)
            /\ Len(Verified(r, kv')) \in 1..(Len(drafts[r]) + 1)
            /\ \A i \in DOMAIN Verified(r, kv') : Verified(r, kv')[i] = TRUE
            /\ \A i \in 1..(Len(Verified(r, kv')) - 1) : drafts[r][i] = TRUE
        BY <3>2, <4>2, VerifiedTokens
      <4> QED
        BY <3>2, <4>1, <4>3, Zenon DEF Outcome
    <3> QED
      BY <3>1, <3>2
  <2> DEFINE n == accepted_context_length(batch[r], Len(drafts[r]), Len(sampled'[r]))
  <2>2. /\ n \in Nat
        /\ \A p \in computed[r]..(computed[r] + n - 1) :
              /\ p \in computed[r]..(computed[r] + batch[r] - 1)
              /\ Token(r, p) = TRUE
    BY <2>1, AcceptedEnd
  <2>3. Accepted(r)' = n
    BY <1>1 DEF Accepted
  <2> HIDE DEF n
  <2>4. ASSUME NEW p \in 0..(computed[r] + n - 1) PROVE kv'[Slot(r, p)] = Cell(r, p, TRUE)
    <3>1. p \in 0..(computed[r] - 1) \/ p \in computed[r]..(computed[r] + n - 1)
      BY <2>2, BatchFits
    <3> QED
      BY <1>2, <1>3, <1>6, <2>2, <3>1, Zenon
  <2>5. Holds(kv, r, computed[r] + Accepted(r))'
    <3>1. computed'[r] = computed[r] /\ Accepted(r)' = n
      BY <1>1, <2>3
    <3>2. computed[r] \in Nat /\ n \in Nat
      BY <2>2, BatchFits
    <3>3. ASSUME NEW q \in 0..((computed'[r] + Accepted(r)') - 1) PROVE q \in 0..(computed[r] + n - 1)
      BY <3>1, <3>2
    <3>4. \A q \in 0..((computed'[r] + Accepted(r)') - 1) : kv'[Slot(r, q)'] = Cell(r, q, TRUE)
      BY <1>6, <2>4, <3>3, Zenon
    <3> QED
      BY <3>4, Zenon DEF Holds, Cell
  <2>6. IF Discarded(r)' THEN sampled'[r] = <<>>
        ELSE /\ Len(sampled'[r]) \in 1..(Len(drafts'[r]) + 1)
             /\ \A i \in 1..(Len(sampled'[r]) - 1) : drafts'[r][i] = TRUE
    BY <1>1, <1>6, <2>1, Zenon DEF Outcome
  <2>7. phase' # "update"
    BY <1>1
  <2> QED
    BY <2>1, <2>5, <2>6, <2>7, Zenon DEF Sampled
<1>10. SampledInv'
  <2>1. DOMAIN context' = {}
    BY <1>1 DEF Inv, SampledInv
  <2> QED
    BY <1>1, <1>9, <2>1 DEF SampledInv
<1> QED
  BY <1>4, <1>5, <1>7, <1>8, <1>10 DEF Inv

(***************************************************************************)
(* The draft model's cache.                                                *)
(***************************************************************************)
LEMMA AcceptedRows ==
    ASSUME Inv, phase \in {"propose", "update"}, NEW r \in DOMAIN batch
    PROVE  /\ Accepted(r) \in Nat /\ Accepted(r) <= batch[r] /\ Sampled(r)
           /\ computed[r] + Accepted(r) = IF Discarded(r) THEN computed[r] + batch[r]
                                          ELSE Len(tokens[r]) + Len(sampled[r]) - 1
           /\ \A p \in computed[r]..(computed[r] + Accepted(r) - 1) : Token(r, p) = TRUE
<1>1. Sampled(r)
  BY DEF Inv, SampledInv
<1>2. Outcome(r, sampled[r])
  BY <1>1, Zenon DEF Sampled, Outcome
<1> DEFINE n == accepted_context_length(batch[r], Len(drafts[r]), Len(sampled[r]))
<1>3. /\ n \in Nat /\ n <= batch[r]
      /\ computed[r] + n = IF Discarded(r) THEN computed[r] + batch[r]
                           ELSE Len(tokens[r]) + Len(sampled[r]) - 1
      /\ \A p \in computed[r]..(computed[r] + n - 1) :
            /\ p \in computed[r]..(computed[r] + batch[r] - 1)
            /\ Token(r, p) = TRUE
  BY <1>2, AcceptedEnd
<1>4. Accepted(r) = n
  BY DEF Accepted
<1> HIDE DEF n
<1> QED
  BY <1>1, <1>3, <1>4

LEMMA DraftCacheCells ==
    ASSUME Inv, phase = "propose", NumSpec > 0, NEW r \in Live, NEW p \in Nat,
           p < (IF r \in DOMAIN batch THEN computed[r] + Accepted(r) ELSE computed[r])
    PROVE  DraftCache(Drafting)[Slot(r, p)] = Cell(r, p, TRUE)
<1> DEFINE ends   == [q \in Drafting |-> computed[q] + Accepted(q)]
           blocks == UNION {{q} \X (ends[q]..(ends[q] + Block - 1)) : q \in Drafting}
           hits   == {row \in Committed(Drafting) : Slot(row[1], row[2]) = Slot(r, p)}
<1>1. /\ r \in Requests /\ TypeInv /\ PagesInv /\ computed[r] \in Nat /\ Room(r) \in Nat
      /\ computed[r] <= Room(r) /\ MaxLen \in Nat /\ Block \in Nat
  <2>1. r \in Requests /\ TypeInv /\ PagesInv /\ computed[r] <= Room(r)
    BY InBatch DEF Inv, CacheInv
  <2> QED
    BY <2>1, RoomType, Constants DEF TypeInv
<1>2. p < Room(r)
  <2>1. CASE r \in DOMAIN batch
    <3>1. Accepted(r) \in Nat /\ Accepted(r) <= batch[r] /\ batch[r] \in Nat
          /\ computed[r] + batch[r] <= Room(r)
      BY <2>1, AcceptedRows, BatchFits
    <3> QED
      BY <1>1, <2>1, <3>1
  <2>2. CASE r \notin DOMAIN batch
    BY <1>1, <2>2
  <2> QED
    BY <2>1, <2>2
<1>3. Slot(r, p) \in Slots
  BY <1>1, <1>2, SlotIsThere
<1>4. ASSUME NEW row \in blocks, Slot(row[1], row[2]) = Slot(r, p) PROVE FALSE
  <2>1. PICK q \in Drafting : row \in {q} \X (ends[q]..(ends[q] + Block - 1))
    OBVIOUS
  <2>2. /\ q \in DOMAIN batch /\ computed[q] + Accepted(q) + Block <= MaxLen
        /\ ends[q] = computed[q] + Accepted(q)
    BY DEF Drafting
  <2>3. row[1] = q /\ row[2] \in ends[q]..(ends[q] + Block - 1)
    BY <2>1
  <2>4. /\ Accepted(q) \in Nat /\ Accepted(q) <= batch[q] /\ batch[q] \in Nat /\ computed[q] \in Nat
        /\ q \in Requests
        /\ \A m \in Nat : m < computed[q] + batch[q] + Block /\ m < MaxLen => m < Room(q)
    BY <2>2, AcceptedRows, BatchFits
  <2>5. ASSUME NEW c \in Nat, NEW a \in Nat, NEW b \in Nat, NEW k \in Nat, NEW max \in Nat,
               NEW m \in (c + a)..(c + a + k - 1), a <= b, c + a + k <= max
        PROVE  m \in Nat /\ m < c + b + k /\ m < max /\ m >= c + a
    BY <2>5
  <2>6. row[2] \in Nat /\ row[2] < computed[q] + batch[q] + Block /\ row[2] < MaxLen
        /\ row[2] >= computed[q] + Accepted(q)
    <3> HIDE DEF ends
    <3>1. row[2] \in (computed[q] + Accepted(q))..(computed[q] + Accepted(q) + Block - 1)
      BY <1>1, <2>2, <2>3, <2>4
    <3> QED
      BY <1>1, <2>2, <2>4, <2>5, <3>1
  <2>7. row[2] < Room(q)
    BY <2>4, <2>6
  <2>8. q = r /\ row[2] = p
    BY <1>1, <1>2, <1>4, <2>3, <2>4, <2>6, <2>7, SlotsApart
  <2> QED
    BY <1>1, <2>2, <2>4, <2>6, <2>8
<1>5. ASSUME NEW row \in hits
      PROVE  row = <<r, p>> /\ r \in DOMAIN batch /\ computed[r] <= p
  <2>1. row \in Committed(Drafting) /\ Slot(row[1], row[2]) = Slot(r, p)
    OBVIOUS
  <2>2. PICK q \in DOMAIN batch : row \in {q} \X (computed[q]..(computed[q] + Accepted(q) - 1))
    BY <2>1 DEF Committed
  <2>3. row[1] = q /\ row = <<row[1], row[2]>> /\ row[2] \in computed[q]..(computed[q] + Accepted(q) - 1)
    BY <2>2
  <2>4. /\ Accepted(q) \in Nat /\ Accepted(q) <= batch[q] /\ batch[q] \in Nat /\ computed[q] \in Nat
        /\ q \in Requests /\ Room(q) \in Nat /\ computed[q] + batch[q] <= Room(q)
    BY AcceptedRows, BatchFits
  <2>5. row[2] \in Nat /\ row[2] < Room(q) /\ computed[q] <= row[2]
    BY <2>3, <2>4
  <2>6. q = r /\ row[2] = p
    BY <1>1, <1>2, <2>1, <2>3, <2>4, <2>5, SlotsApart
  <2> QED
    BY <2>3, <2>5, <2>6
<1>6. DraftCache(Drafting)[Slot(r, p)] =
         IF hits = {} THEN dkv[Slot(r, p)]
         ELSE LET row == CHOOSE row \in hits : TRUE IN Cell(row[1], row[2], Token(row[1], row[2]))
  <2>1. ~(\E row \in blocks : Slot(row[1], row[2]) = Slot(r, p))
    BY <1>4
  <2> QED
    BY <1>3, <2>1, Zenon DEF DraftCache
<1>7. CASE p < computed[r]
  <2>1. hits = {}
    <3>1. ASSUME NEW row \in hits PROVE FALSE
      BY <1>1, <1>5, <1>7
    <3> QED
      BY <3>1
  <2>2. p \in 0..(computed[r] - 1)
    BY <1>1, <1>7
  <2>3. dkv[Slot(r, p)] = Cell(r, p, TRUE)
    BY <2>2, Zenon DEF Inv, CacheInv, Holds
  <2> QED
    BY <1>6, <2>1, <2>3
<1>8. CASE ~(p < computed[r])
  <2>1. r \in DOMAIN batch /\ Accepted(r) \in Nat /\ p \in computed[r]..(computed[r] + Accepted(r) - 1)
    <3>1. r \in DOMAIN batch
      BY <1>8
    <3>2. Accepted(r) \in Nat
      BY <3>1, AcceptedRows
    <3> QED
      BY <1>1, <1>8, <3>1, <3>2
  <2>2. Token(r, p) = TRUE
    BY <2>1, AcceptedRows, Zenon
  <2>3. <<r, p>> \in hits
    <3>1. <<r, p>> \in {r} \X (computed[r]..(computed[r] + Accepted(r) - 1))
      BY <2>1
    <3> QED
      BY <2>1, <3>1 DEF Committed
  <2>4. hits = {<<r, p>>}
    BY <1>5, <2>3
  <2>5. (CHOOSE row \in {<<r, p>>} : TRUE) = <<r, p>> /\ {<<r, p>>} # {}
    OBVIOUS
  <2> HIDE DEF hits
  <2>6. DraftCache(Drafting)[Slot(r, p)] = Cell(<<r, p>>[1], <<r, p>>[2], Token(<<r, p>>[1], <<r, p>>[2]))
    BY <1>6, <2>4, <2>5, Zenon
  <2>7. <<r, p>>[1] = r /\ <<r, p>>[2] = p
    OBVIOUS
  <2> QED
    BY <2>2, <2>6, <2>7, Zenon
<1> QED
  BY <1>7, <1>8

LEMMA ProposeKeeps == ASSUME Inv, propose_spyre PROVE Inv'
<1>1. /\ phase = "propose" /\ phase' = "update"
      /\ UNCHANGED <<tokens, computed, drafts, running, waiting, table, at, budget, batch, kv, sampled>>
      /\ IF NumSpec = 0 THEN UNCHANGED <<dkv, context>>
         ELSE dkv' = DraftCache(Drafting) /\ context' = [r \in Drafting |-> computed[r] + Accepted(r)]
  BY DEF propose_spyre, sched
<1>2. NumSpec \in Nat
  BY Constants
<1>3. /\ Live' = Live /\ Live \subseteq Requests /\ DOMAIN batch \subseteq Live
      /\ \A r : Room(r)' = Room(r) /\ Booked(r)' = Booked(r) /\ Discarded(r)' = Discarded(r)
                /\ Accepted(r)' = Accepted(r)
      /\ \A r, p : Slot(r, p)' = Slot(r, p)
  BY <1>1, InBatch DEF Live, Room, Booked, Discarded, Slot, Accepted
<1>4. TypeInv'
  <2>1. dkv' = [s \in Slots |-> dkv'[s]]
    BY <1>1 DEF DraftCache, Inv, TypeInv
  <2> QED
    BY <1>1, <2>1, Zenon DEF Inv, TypeInv
<1>5. QueueInv' /\ TokensInv' /\ PagesInv'
  BY <1>1 DEF Inv, QueueInv, TokensInv, PagesInv, Live, Answered
<1>6. ASSUME NumSpec > 0, NEW r \in Live, NEW p \in Nat,
             p < (IF r \in DOMAIN batch THEN computed[r] + Accepted(r) ELSE computed[r])
      PROVE  dkv'[Slot(r, p)] = Cell(r, p, TRUE)
  <2>1. dkv' = DraftCache(Drafting)
    BY <1>1, <1>2, <1>6
  <2> QED
    BY <1>1, <1>6, <2>1, DraftCacheCells
<1>7. ASSUME NEW r \in DOMAIN batch PROVE Accepted(r) \in Nat /\ computed[r] \in Nat
  BY <1>1, AcceptedRows, BatchFits
<1>8. CacheInv'
  <2> SUFFICES ASSUME NEW r \in Live
               PROVE  /\ computed[r] <= Room(r)
                      /\ Holds(kv, r, computed[r])' /\ (NumSpec > 0 => Holds(dkv, r, computed[r])')
    BY <1>1, <1>3 DEF CacheInv
  <2>1. computed[r] <= Room(r) /\ Holds(kv, r, computed[r]) /\ computed[r] \in Nat
    BY <1>3 DEF Inv, CacheInv, TypeInv
  <2>2. Holds(kv, r, computed[r])'
    BY <1>1, <1>3, <2>1, Zenon DEF Holds, Cell
  <2>3. ASSUME NumSpec > 0, NEW p \in 0..(computed[r] - 1) PROVE dkv'[Slot(r, p)] = Cell(r, p, TRUE)
    <3>1. p \in Nat /\ p < (IF r \in DOMAIN batch THEN computed[r] + Accepted(r) ELSE computed[r])
      BY <1>7, <2>1
    <3> QED
      BY <1>6, <2>3, <3>1
  <2>4. NumSpec > 0 => Holds(dkv, r, computed[r])'
    BY <1>1, <1>3, <2>3, Zenon DEF Holds, Cell
  <2> QED
    BY <2>1, <2>2, <2>4
<1>9. BatchInv'
  BY <1>1, <1>3 DEF Inv, BatchInv
<1>10. ASSUME NEW r \in DOMAIN batch PROVE Sampled(r)'
  <2>1. Sampled(r) /\ r \in Live
    BY <1>1, <1>3 DEF Inv, SampledInv
  <2>2. /\ sampled'[r] \in Seq(BOOLEAN) /\ \A i \in DOMAIN sampled'[r] : sampled'[r][i] = TRUE
        /\ IF Discarded(r)' THEN sampled'[r] = <<>>
           ELSE /\ Len(sampled'[r]) \in 1..(Len(drafts'[r]) + 1)
                /\ \A i \in 1..(Len(sampled'[r]) - 1) : drafts'[r][i] = TRUE
    BY <1>1, <1>3, <2>1, Zenon DEF Sampled
  <2>3. computed'[r] = computed[r] /\ Accepted(r)' = Accepted(r)
    BY <1>1, <1>3
  <2>4. Holds(kv, r, computed[r] + Accepted(r))'
    <3>1. \A q \in 0..((computed[r] + Accepted(r)) - 1) : kv[Slot(r, q)] = Cell(r, q, TRUE)
      BY <2>1, Zenon DEF Sampled, Holds
    <3>2. \A q \in 0..((computed'[r] + Accepted(r)') - 1) : kv'[Slot(r, q)'] = Cell(r, q, TRUE)
      BY <1>1, <1>3, <2>3, <3>1, Zenon
    <3> QED
      BY <3>2, Zenon DEF Holds, Cell
  <2>5. ASSUME NumSpec > 0 PROVE Holds(dkv, r, computed[r] + Accepted(r))'
    <3>1. ASSUME NEW q \in 0..((computed'[r] + Accepted(r)') - 1) PROVE dkv'[Slot(r, q)'] = Cell(r, q, TRUE)
      <4>1. q \in Nat /\ q < computed[r] + Accepted(r)
        BY <1>7, <2>3
      <4> QED
        BY <1>3, <1>6, <2>1, <2>5, <4>1
    <3> QED
      BY <3>1, Zenon DEF Holds, Cell
  <2> QED
    BY <2>2, <2>4, <2>5, Zenon DEF Sampled
<1>11. SampledInv'
  <2>1. ASSUME NEW r \in DOMAIN context'
        PROVE  /\ NumSpec > 0 /\ r \in DOMAIN batch' /\ sampled'[r] # <<>>
               /\ context'[r] = computed'[r] + Accepted(r)'
    <3>1. CASE NumSpec = 0
      BY <1>1, <3>1 DEF Inv, SampledInv
    <3>2. CASE NumSpec # 0
      <4>1. context' = [q \in Drafting |-> computed[q] + Accepted(q)]
        BY <1>1, <3>2
      <4>2. r \in Drafting
        BY <4>1
      <4>3. r \in DOMAIN batch /\ sampled[r] # <<>>
        BY <4>2 DEF Drafting
      <4> QED
        BY <1>1, <1>2, <1>3, <3>2, <4>1, <4>2, <4>3
    <3> QED
      BY <3>1, <3>2
  <2> QED
    BY <1>1, <1>10, <2>1 DEF SampledInv
<1> QED
  BY <1>4, <1>5, <1>8, <1>9, <1>11 DEF Inv

(***************************************************************************)
(* Results.                                                                *)
(***************************************************************************)
LEMMA GetsRight ==
    ASSUME Inv, phase = "update", NEW r \in DOMAIN batch
    PROVE  /\ Gets(r) \in Seq(BOOLEAN) /\ Len(Gets(r)) \in Nat
           /\ \A i \in 1..Len(Gets(r)) : Gets(r)[i] = TRUE
           /\ Answered(r) \in Nat /\ Answered(r) + Len(Gets(r)) <= Limit[r]
           /\ ~Done(r) => Len(Gets(r)) = Len(sampled[r])
<1> DEFINE room == Limit[r] - Answered(r)
           n    == Min({Len(sampled[r]), room})
<1>1. /\ r \in Requests /\ r \in Live /\ sampled[r] \in Seq(BOOLEAN)
      /\ \A i \in DOMAIN sampled[r] : sampled[r][i] = TRUE
  BY InBatch, AcceptedRows, Zenon DEF Sampled
<1>2. Len(sampled[r]) \in Nat /\ DOMAIN sampled[r] = 1..Len(sampled[r])
  <2>1. ASSUME NEW T, NEW s \in Seq(T) PROVE Len(s) \in Nat /\ DOMAIN s = 1..Len(s)
    OBVIOUS
  <2> QED
    BY <1>1, <2>1, Zenon
<1>3. /\ Answered(r) \in Nat /\ Limit[r] \in Nat /\ Answered(r) < Limit[r]
  <2>1. Answered(r) < Limit[r] /\ Prompt[r] <= Len(tokens[r])
    BY <1>1 DEF Inv, TokensInv
  <2>2. Len(tokens[r]) \in Nat /\ Prompt[r] \in Nat /\ Limit[r] \in Nat
    BY <1>1, BatchFits, Constants
  <2> QED
    BY <2>1, <2>2 DEF Answered
<1>4. n = (IF Len(sampled[r]) <= room THEN Len(sampled[r]) ELSE room) /\ room \in Nat
  <2>1. room \in Nat /\ room \in Int /\ Len(sampled[r]) \in Int
    BY <1>2, <1>3
  <2> HIDE DEF room
  <2> QED
    BY <2>1, MinOfTwo
<1>5. Gets(r) = SubSeq(sampled[r], 1, n)
  BY DEF Gets
<1>6. n \in 0..Len(sampled[r]) /\ n <= room
  <2> HIDE DEF n, room
  <2> QED
    BY <1>2, <1>4
<1>7. Gets(r) \in Seq(BOOLEAN) /\ Len(Gets(r)) = n /\ \A i \in 1..n : Gets(r)[i] = sampled[r][i]
  <2> HIDE DEF n
  <2> DEFINE cut == SubSeq(sampled[r], 1, n)
  <2>1. cut \in Seq(BOOLEAN) /\ Len(cut) = n /\ \A i \in 1..n : cut[i] = sampled[r][i]
    BY <1>1, <1>6, Cut, Zenon
  <2>2. Gets(r) = cut
    BY <1>5
  <2> HIDE DEF cut
  <2> QED
    BY <2>1, <2>2, Zenon
<1>8. \A i \in 1..Len(Gets(r)) : Gets(r)[i] = TRUE
  <2> HIDE DEF n
  <2>1. \A i \in 1..n : i \in 1..Len(sampled[r])
    BY <1>2, <1>6
  <2> QED
    BY <1>1, <1>2, <1>7, <2>1, Zenon
<1>9. Len(Gets(r)) \in Nat /\ Answered(r) + Len(Gets(r)) <= Limit[r]
  <2>1. n \in Nat
    BY <1>6
  <2> HIDE DEF n
  <2> QED
    BY <1>3, <1>6, <1>7, <2>1
<1>10. ASSUME ~Done(r) PROVE Len(Gets(r)) = Len(sampled[r])
  <2>1. Answered(r) + n # Limit[r]
    BY <1>7, <1>10 DEF Done
  <2>2. n # room
    <3> HIDE DEF n
    <3> QED
      BY <1>3, <1>6, <2>1
  <2> HIDE DEF n
  <2> QED
    BY <1>4, <1>7, <2>2
<1> QED
  BY <1>3, <1>7, <1>8, <1>9, <1>10

\* A request's tokens grow by right ones.
LEMMA Grown ==
    ASSUME NEW s \in Seq(BOOLEAN), NEW t \in Seq(BOOLEAN),
           \A i \in 1..Len(s) : s[i] = TRUE, \A i \in 1..Len(t) : t[i] = TRUE
    PROVE  /\ s \o t \in Seq(BOOLEAN) /\ Len(s \o t) = Len(s) + Len(t)
           /\ \A i \in 1..Len(s \o t) : (s \o t)[i] = TRUE
<1>1. ASSUME NEW T, NEW a \in Seq(T), NEW b \in Seq(T)
      PROVE  /\ a \o b \in Seq(T) /\ Len(a \o b) = Len(a) + Len(b)
             /\ \A i \in 1..Len(a \o b) : \/ i \in 1..Len(a) /\ (a \o b)[i] = a[i]
                                          \/ i - Len(a) \in 1..Len(b) /\ (a \o b)[i] = b[i - Len(a)]
  BY ConcatProperties
<1> DEFINE u == s \o t
<1>2. /\ u \in Seq(BOOLEAN) /\ Len(u) = Len(s) + Len(t)
      /\ \A i \in 1..Len(u) : \/ i \in 1..Len(s) /\ u[i] = s[i]
                              \/ i - Len(s) \in 1..Len(t) /\ u[i] = t[i - Len(s)]
  BY <1>1, Zenon
<1> HIDE DEF u
<1>3. \A i \in 1..Len(u) : u[i] = TRUE
  BY <1>2, Zenon
<1> QED
  BY <1>2, <1>3, Zenon DEF u

LEMMA UpdateKeeps == ASSUME Inv, Update PROVE Inv'
<1> DEFINE over == {r \in DOMAIN batch : Done(r)}
<1>1. /\ phase = "update" /\ phase' = "idle" /\ batch' = None /\ context' = None
      /\ tokens' = [r \in Requests |-> IF r \in DOMAIN batch THEN tokens[r] \o Gets(r) ELSE tokens[r]]
      /\ running' = Without(running, over)
      /\ table' = [r \in Requests |-> IF r \in over THEN <<>> ELSE table[r]]
      /\ computed' = [r \in Requests |->
            IF r \in DOMAIN batch THEN computed[r] + Accepted(r) ELSE computed[r]]
      /\ UNCHANGED <<waiting, at, budget, kv, dkv>>
  BY DEF Update
<1>2. DOMAIN batch' = {} /\ DOMAIN context' = {}
  BY <1>1 DEF None
<1>3. /\ Live \subseteq Requests /\ DOMAIN batch \subseteq Live /\ DOMAIN batch \subseteq ToSet(running)
      /\ ToSet(running) \cap ToSet(waiting) = {}
  BY InBatch DEF Inv, QueueInv, ToSet
<1>4. /\ running' \in Seq(Requests) /\ waiting' \in Seq(Requests) /\ QueueInv'
      /\ Live' \subseteq Live /\ Live' \cap over = {}
  <2>1. /\ running' \in Seq(Requests) /\ waiting' \in Seq(Requests) /\ QueueInv' /\ Live' \subseteq Live
        /\ ToSet(running') \cap over = {} /\ ToSet(waiting') \subseteq ToSet(waiting)
    <3> HIDE DEF over
    <3> QED
      BY <1>1, Leave
  <2> QED
    BY <1>3, <2>1 DEF Live
<1>5. table' \in [Requests -> Seq(Pages)] /\ PagesInv' /\ \A r \in Requests \ over : table'[r] = table[r]
  <2> HIDE DEF over
  <2> QED
    BY <1>1, GivesBack DEF Inv
<1>6. ASSUME NEW r \in DOMAIN batch
      PROVE  /\ tokens'[r] \in Seq(BOOLEAN) /\ Len(tokens'[r]) = Len(tokens[r]) + Len(Gets(r))
             /\ \A i \in 1..Len(tokens'[r]) : tokens'[r][i] = TRUE
             /\ Len(tokens[r]) \in Nat /\ r \in Requests
  <2>1. r \in Requests
    BY <1>3
  <2>2. tokens[r] \in Seq(BOOLEAN) /\ \A i \in 1..Len(tokens[r]) : tokens[r][i] = TRUE
    BY <2>1, Zenon DEF Inv, TypeInv, TokensInv
  <2>3. tokens'[r] = tokens[r] \o Gets(r)
    BY <1>1, <2>1, Zenon
  <2>4. /\ tokens'[r] \in Seq(BOOLEAN) /\ Len(tokens'[r]) = Len(tokens[r]) + Len(Gets(r))
        /\ \A i \in 1..Len(tokens'[r]) : tokens'[r][i] = TRUE
    BY <1>1, <2>2, <2>3, GetsRight, Grown, Zenon
  <2> QED
    BY <2>1, <2>4, BatchFits
<1>7. \A r \in Requests \ DOMAIN batch : tokens'[r] = tokens[r] /\ computed'[r] = computed[r]
  BY <1>1, Zenon
<1>8. \A r \in DOMAIN batch : computed'[r] = computed[r] + Accepted(r) /\ Accepted(r) \in Nat
  BY <1>1, <1>3, AcceptedRows
<1>9. TypeInv'
  <2>1. tokens' \in [Requests -> Seq(BOOLEAN)]
    <3>1. \A r \in Requests : tokens'[r] \in Seq(BOOLEAN)
      BY <1>6, <1>7, Zenon DEF Inv, TypeInv
    <3>2. tokens' = [r \in Requests |-> tokens'[r]]
      BY <1>1, Zenon
    <3> HIDE DEF over
    <3> QED
      BY <3>1, <3>2, Zenon
  <2>2. drafts' \in [Requests -> Seq(BOOLEAN)]
    <3>1. PICK proposal \in [DOMAIN context -> [1..NumSpec -> BOOLEAN]] :
             drafts' = [r \in Requests |-> IF r \in DOMAIN context THEN proposal[r] ELSE
                                           IF r \in DOMAIN batch THEN <<>> ELSE drafts[r]]
      BY Zenon DEF Update
    <3>2. \A f \in [1..NumSpec -> BOOLEAN] : f \in Seq(BOOLEAN)
      <4>1. Seq(BOOLEAN) = UNION {[1..m -> BOOLEAN] : m \in Nat} /\ NumSpec \in Nat
        BY SeqDef, Constants, Zenon
      <4> QED
        BY <4>1, Zenon
    <3>3. <<>> \in Seq(BOOLEAN) /\ \A r \in Requests : drafts[r] \in Seq(BOOLEAN)
      BY EmptySeq, Zenon DEF Inv, TypeInv
    <3>4. \A r \in Requests : drafts'[r] \in Seq(BOOLEAN)
      BY <3>1, <3>2, <3>3, Zenon
    <3>5. drafts' = [r \in Requests |-> drafts'[r]]
      BY <3>1, Zenon
    <3> QED
      BY <3>4, <3>5, Zenon
  <2>3. computed' \in [Requests -> Nat]
    <3>1. computed \in [Requests -> Nat]
      BY DEF Inv, TypeInv
    <3>2. \A r \in Requests : computed'[r] \in Nat
      BY <1>7, <1>8, <3>1
    <3>3. computed' = [r \in Requests |-> computed'[r]]
      BY <1>1, Zenon
    <3> HIDE DEF over
    <3> QED
      BY <3>2, <3>3, Zenon
  <2>4. /\ kv' = [s \in Slots |-> kv'[s]] /\ dkv' = [s \in Slots |-> dkv'[s]]
        /\ at' \in Nat /\ budget' \in Nat
    BY <1>1, Zenon DEF Inv, TypeInv
  <2> QED
    BY <1>4, <1>5, <2>1, <2>2, <2>3, <2>4, Zenon DEF TypeInv
<1>10. ASSUME NEW r \in Live' PROVE r \in Live /\ r \in Requests /\ r \notin over
  BY <1>3, <1>4
<1>11. TokensInv'
  <2> SUFFICES ASSUME NEW r \in Requests
               PROVE  /\ Prompt[r] <= Len(tokens'[r]) /\ Answered(r)' <= Limit[r]
                      /\ \A i \in 1..Len(tokens'[r]) : tokens'[r][i] = TRUE
                      /\ r \in Live' => Answered(r)' < Limit[r] /\ computed'[r] < Len(tokens'[r])
    BY Zenon DEF TokensInv
  <2>1. /\ Prompt[r] <= Len(tokens[r]) /\ Answered(r) <= Limit[r]
        /\ \A i \in 1..Len(tokens[r]) : tokens[r][i] = TRUE
        /\ r \in Live => Answered(r) < Limit[r] /\ computed[r] < Len(tokens[r])
    BY Zenon DEF Inv, TokensInv
  <2>2. CASE r \notin DOMAIN batch
    <3>1. tokens'[r] = tokens[r] /\ computed'[r] = computed[r] /\ Answered(r)' = Answered(r)
      BY <1>7, <2>2 DEF Answered
    <3> QED
      BY <1>10, <2>1, <3>1, Zenon
  <2>3. CASE r \in DOMAIN batch
    <3> DEFINE g == Len(Gets(r))
               l == Len(tokens[r])
    <3>1. /\ Len(tokens'[r]) = l + g /\ l \in Nat /\ g \in Nat /\ Prompt[r] \in Nat
          /\ Answered(r) \in Nat /\ Answered(r) + g <= Limit[r] /\ Limit[r] \in Nat
          /\ \A i \in 1..Len(tokens'[r]) : tokens'[r][i] = TRUE
      BY <1>1, <1>6, <2>3, GetsRight, Constants
    <3>2. Answered(r)' = l + g - Prompt[r] /\ Answered(r) = l - Prompt[r]
      BY <3>1 DEF Answered
    <3> HIDE DEF g, l
    <3>3. Prompt[r] <= l + g /\ Answered(r)' <= Limit[r]
      BY <2>1, <3>1, <3>2 DEF l
    <3>4. ASSUME r \in Live' PROVE Answered(r)' < Limit[r] /\ computed'[r] < l + g
      <4>1. ~Done(r)
        BY <1>10, <2>3, <3>4
      <4>2. g = Len(sampled[r])
        BY <1>1, <2>3, <4>1, GetsRight DEF g
      <4>3. Answered(r)' < Limit[r]
        <5>1. Answered(r) + g # Limit[r]
          BY <4>1 DEF Done, g
        <5>2. Answered(r)' = Answered(r) + g
          BY <3>1, <3>2
        <5> QED
          BY <3>1, <5>1, <5>2
      <4>4. computed[r] + Accepted(r) = IF Discarded(r) THEN computed[r] + batch[r] ELSE l + g - 1
        BY <1>1, <2>3, <4>2, AcceptedRows DEF l
      <4>5. Discarded(r) => computed[r] + batch[r] < l
        BY DEF Discarded, l
      <4>6. computed'[r] = computed[r] + Accepted(r) /\ computed[r] \in Nat /\ batch[r] \in Nat
        BY <1>8, <2>3, BatchFits
      <4> QED
        BY <3>1, <4>3, <4>4, <4>5, <4>6
    <3> QED
      BY <3>1, <3>3, <3>4
  <2> QED
    BY <2>2, <2>3
<1>12. CacheInv'
  <2> SUFFICES ASSUME NEW r \in Live'
               PROVE  /\ computed'[r] <= Room(r)'
                      /\ Holds(kv, r, computed[r])' /\ (NumSpec > 0 => Holds(dkv, r, computed[r])')
    BY DEF CacheInv
  <2>1. r \in Live /\ r \in Requests /\ table'[r] = table[r]
    BY <1>5, <1>10
  <2>2. Room(r)' = Room(r) /\ \A q : Slot(r, q)' = Slot(r, q)
    BY <2>1 DEF Room, Slot
  <2>3. /\ computed'[r] <= Room(r) /\ Holds(kv, r, computed'[r])
        /\ NumSpec > 0 => Holds(dkv, r, computed'[r])
    <3>1. CASE r \in DOMAIN batch
      <4>1. Holds(kv, r, computed[r] + Accepted(r)) /\ (NumSpec > 0 => Holds(dkv, r, computed[r] + Accepted(r)))
        BY <1>1, <3>1, AcceptedRows DEF Sampled
      <4>2. /\ Accepted(r) \in Nat /\ Accepted(r) <= batch[r] /\ batch[r] \in Nat /\ computed[r] \in Nat
            /\ computed[r] + batch[r] <= Room(r) /\ Room(r) \in Nat
        BY <1>1, <3>1, AcceptedRows, BatchFits
      <4>3. computed'[r] = computed[r] + Accepted(r)
        BY <1>8, <3>1
      <4>4. computed'[r] <= Room(r)
        BY <4>2, <4>3
      <4> QED
        BY <4>1, <4>3, <4>4, Zenon
    <3>2. CASE r \notin DOMAIN batch
      <4>1. computed'[r] = computed[r]
        BY <1>7, <2>1, <3>2
      <4> QED
        BY <2>1, <4>1, Zenon DEF Inv, CacheInv
    <3> QED
      BY <3>1, <3>2
  <2> QED
    BY <1>1, <2>2, <2>3, Zenon DEF Holds, Cell
<1>13. BatchInv' /\ SampledInv'
  BY <1>1, <1>2 DEF BatchInv, SampledInv
<1> QED
  BY <1>4, <1>5, <1>9, <1>11, <1>12, <1>13 DEF Inv

LEMMA NextKeeps == ASSUME Inv, [Next]_vars PROVE Inv'
<1>1. CASE Step
  BY <1>1, BeginKeeps, ScheduleRunningKeeps, PreemptKeeps, AdmitKeeps, EndScheduleKeeps,
     ExecuteKeeps, ProposeKeeps, UpdateKeeps DEF Step
<1>2. CASE DummyRun
  BY <1>2, DummyRunKeeps
<1>3. CASE \E r \in Requests : Abort(r)
  BY <1>3, AbortKeeps
<1>4. CASE UNCHANGED vars
  <2>1. UNCHANGED <<tokens, computed, drafts, running, waiting, table, at, budget, batch, phase,
                    kv, dkv, sampled, context>>
    BY <1>4 DEF vars, sched
  <2>2. TypeInv' /\ QueueInv' /\ TokensInv' /\ PagesInv' /\ CacheInv'
    BY <2>1, Untouched DEF Inv, TypeInv
  <2>3. \A r : /\ Booked(r)' = Booked(r) /\ Accepted(r)' = Accepted(r)
               /\ Discarded(r)' = Discarded(r) /\ \A q : Slot(r, q)' = Slot(r, q)
    BY <2>1 DEF Booked, Room, Discarded, Accepted, Slot
  <2>4. BatchInv'
    BY <2>1, <2>3 DEF Inv, BatchInv
  <2>5. \A r : Sampled(r) => Sampled(r)'
    BY <2>1, <2>3 DEF Sampled, Holds
  <2>6. SampledInv'
    BY <2>1, <2>3, <2>5 DEF Inv, SampledInv
  <2> QED
    BY <2>2, <2>4, <2>6 DEF Inv
<1> QED
  BY <1>1, <1>2, <1>3, <1>4 DEF Next

LEMMA Invariance == Spec => []Inv
  BY InitInv, NextKeeps, PTL DEF Spec

(***************************************************************************)
(* Results.                                                                *)
(***************************************************************************)
LEMMA ContextRight == Inv => DraftContextIsCommitted
<1> SUFFICES ASSUME Inv, NEW r \in DOMAIN context, NEW p \in 0..(context[r] - 1)
             PROVE  dkv[Slot(r, p)] = Cell(r, p, (tokens[r] \o sampled[r])[p + 1])
  BY DEF DraftContextIsCommitted
<1>1. /\ phase = "update" /\ NumSpec > 0 /\ r \in DOMAIN batch /\ sampled[r] # <<>>
      /\ context[r] = computed[r] + Accepted(r)
  BY DEF Inv, SampledInv
<1>2. Sampled(r) /\ Accepted(r) \in Nat /\ computed[r] \in Nat /\ r \in Requests
      /\ computed[r] + Accepted(r) = IF Discarded(r) THEN computed[r] + batch[r]
                                     ELSE Len(tokens[r]) + Len(sampled[r]) - 1
  BY <1>1, AcceptedRows, BatchFits
<1>3. ~Discarded(r)
  BY <1>1, <1>2, Zenon DEF Sampled
<1>4. dkv[Slot(r, p)] = Cell(r, p, TRUE)
  BY <1>1, <1>2, Zenon DEF Sampled, Holds
<1> DEFINE s == tokens[r]  t == sampled[r]
<1>5. /\ s \in Seq(BOOLEAN) /\ t \in Seq(BOOLEAN)
      /\ \A i \in 1..Len(s) : s[i] = TRUE
      /\ \A i \in DOMAIN t : t[i] = TRUE
  BY <1>2, Zenon DEF Inv, TypeInv, TokensInv, Sampled
<1>6. \A i \in 1..Len(t) : t[i] = TRUE
  <2>1. ASSUME NEW T, NEW a \in Seq(T) PROVE DOMAIN a = 1..Len(a)
    OBVIOUS
  <2> HIDE DEF s, t
  <2> QED
    BY <1>5, <2>1, Zenon
<1>7. Len(s) \in Nat /\ Len(t) \in Nat
  <2> HIDE DEF s, t
  <2> QED
    BY <1>5, LenProperties, Zenon
<1>8. \A i \in 1..Len(s \o t) : (s \o t)[i] = TRUE
  <2> HIDE DEF s, t
  <2> QED
    BY <1>5, <1>6, Grown, Zenon
<1>9. p + 1 \in 1..Len(s \o t)
  <2>1. Len(s \o t) = Len(s) + Len(t)
    <3> HIDE DEF s, t
    <3> QED
      BY <1>5, ConcatProperties, Zenon
  <2>2. context[r] = Len(s) + Len(t) - 1 /\ p \in 0..(context[r] - 1)
    BY <1>1, <1>2, <1>3
  <2> HIDE DEF s, t
  <2> QED
    BY <1>7, <2>1, <2>2
<1> QED
  BY <1>4, <1>8, <1>9, Zenon

(***************************************************************************)
(* For all requests and page pools: when the draft model runs for a        *)
(* request, its cache holds that request's committed tokens at every place *)
(* of the context it is told (spyre_model_runner.py, propose_spyre).       *)
(***************************************************************************)
THEOREM DraftContexts == Spec => []DraftContextIsCommitted
  BY Invariance, ContextRight, PTL

LEMMA GeneratorsInit == Init => GeneratorsFollowSamples
  BY DEF Init, GeneratorsFollowSamples

LEMMA GeneratorsNext == ASSUME Inv, GeneratorsFollowSamples, [Next]_vars PROVE GeneratorsFollowSamples'
<1>1. CASE Execute
  <2> SUFFICES ASSUME NEW r \in Requests PROVE gen'[r] = draws'[r]
    BY DEF GeneratorsFollowSamples
  <2>1. /\ gen'[r] = gen[r] + (IF r \in DOMAIN batch THEN KeptDraw(r) ELSE 0)
        /\ draws'[r] = draws[r] + (IF r \in DOMAIN batch /\ sampled'[r] # <<>> THEN 1 ELSE 0)
        /\ phase' = "propose" /\ batch' = batch /\ tokens' = tokens /\ computed' = computed
    BY <1>1, Zenon DEF Execute, sched
  <2>2. ASSUME NEW q \in DOMAIN batch PROVE sampled'[q] = <<>> <=> Discarded(q)
    <3>1. Sampled(q)'
      <4>1. SampledInv' /\ q \in DOMAIN batch'
        BY <1>1, <2>1, ExecuteKeeps DEF Inv
      <4> QED
        BY <2>1, <4>1 DEF SampledInv
    <3>2. Discarded(q)' <=> Discarded(q)
      BY <2>1 DEF Discarded
    <3>3. CASE Discarded(q)
      BY <3>1, <3>2, <3>3, Zenon DEF Sampled
    <3>4. CASE ~Discarded(q)
      <4>1. Len(sampled'[q]) \in 1..(Len(drafts'[q]) + 1)
        BY <3>1, <3>2, <3>4, Zenon DEF Sampled
      <4>2. Len(sampled'[q]) # 0
        BY <4>1
      <4>3. Len(<<>>) = 0
        OBVIOUS
      <4> QED
        BY <3>4, <4>2, <4>3, Zenon
    <3> QED
      BY <3>3, <3>4
  <2>3. gen[r] = draws[r]
    BY DEF GeneratorsFollowSamples
  <2>4. CASE r \in DOMAIN batch
    BY <2>1, <2>2, <2>3, <2>4 DEF KeptDraw
  <2>5. CASE r \notin DOMAIN batch
    BY <2>1, <2>3, <2>5
  <2> QED
    BY <2>4, <2>5
<1>2. CASE ~Execute
  <2>1. UNCHANGED <<gen, draws>>
    BY <1>2 DEF Next, Step, Begin, ScheduleRunning, Preempt, Admit, EndSchedule, propose_spyre,
                Update, DummyRun, Abort, vars
  <2> QED
    BY <2>1 DEF GeneratorsFollowSamples
<1> QED
  BY <1>1, <1>2

(***************************************************************************)
(* However prompts are cut into chunks and requests preempted: a generator *)
(* moves once for each sample its request gets (spyre_model_runner.py,     *)
(* _sample and the bookkeeping after it).                                  *)
(***************************************************************************)
THEOREM Generators == Spec => []GeneratorsFollowSamples
  BY Invariance, GeneratorsInit, GeneratorsNext, PTL DEF Spec

(***************************************************************************)
(* Steps of the engine are steps of the target model alone.                *)
(***************************************************************************)
LEMMA TailGrows ==
    ASSUME NEW T, NEW s \in Seq(T), NEW t \in Seq(T), NEW p \in 0..Len(s)
    PROVE  /\ SubSeq(s, p + 1, Len(s)) \in Seq(T) /\ Len(SubSeq(s, p + 1, Len(s))) = Len(s) - p
           /\ SubSeq(s \o t, p + 1, Len(s \o t)) = SubSeq(s, p + 1, Len(s)) \o t
<1> DEFINE u == s \o t
           a == SubSeq(s, p + 1, Len(s))
           b == SubSeq(u, p + 1, Len(u))
<1>1. /\ u \in Seq(T) /\ Len(u) = Len(s) + Len(t) /\ Len(s) \in Nat /\ Len(t) \in Nat
      /\ \A i \in 1..(Len(s) + Len(t)) : u[i] = IF i <= Len(s) THEN s[i] ELSE t[i - Len(s)]
  BY ConcatProperties
<1>2. a \in Seq(T) /\ Len(a) = Len(s) - p /\ \A i \in 1..(Len(s) - p) : a[i] = s[p + i]
  BY <1>1, SubSeqProperties
<1>3. b \in Seq(T) /\ Len(b) = Len(u) - p /\ \A i \in 1..(Len(u) - p) : b[i] = u[p + i]
  <2> HIDE DEF u
  <2> QED
    BY <1>1, SubSeqProperties
<1> HIDE DEF u, a, b
<1>4. /\ a \o t \in Seq(T) /\ Len(a \o t) = Len(a) + Len(t)
      /\ \A i \in 1..(Len(a) + Len(t)) : (a \o t)[i] = IF i <= Len(a) THEN a[i] ELSE t[i - Len(a)]
  BY <1>2, ConcatProperties
<1>5. Len(b) = Len(a \o t)
  BY <1>1, <1>2, <1>3, <1>4
<1>6. ASSUME NEW i \in 1..Len(b) PROVE b[i] = (a \o t)[i]
  <2>1. /\ i \in 1..(Len(u) - p) /\ p + i \in 1..(Len(s) + Len(t)) /\ i \in 1..(Len(a) + Len(t))
        /\ p + i <= Len(s) <=> i <= Len(a)
        /\ p + i - Len(s) = i - Len(a)
    BY <1>1, <1>2, <1>3
  <2>2. b[i] = IF p + i <= Len(s) THEN s[p + i] ELSE t[p + i - Len(s)]
    BY <1>1, <1>3, <2>1
  <2>3. (a \o t)[i] = IF i <= Len(a) THEN a[i] ELSE t[i - Len(a)]
    BY <1>4, <2>1
  <2>4. i <= Len(a) => a[i] = s[p + i]
    <3>1. i <= Len(a) => i \in 1..(Len(s) - p)
      BY <1>1, <1>2, <2>1
    <3> QED
      BY <1>2, <3>1, Zenon
  <2> QED
    BY <2>1, <2>2, <2>3, <2>4
<1>7. b = a \o t
  BY <1>3, <1>4, <1>5, <1>6, SeqEqual
<1> QED
  BY <1>2, <1>7 DEF a, b, u

LEMMA AllTrue ==
    ASSUME NEW t \in Seq(BOOLEAN), \A i \in 1..Len(t) : t[i] = TRUE
    PROVE  t = [i \in 1..Len(t) |-> TRUE]
<1>1. ASSUME NEW T, NEW x, NEW s \in Seq(T), \A i \in 1..Len(s) : s[i] = x
      PROVE  s = [i \in 1..Len(s) |-> x]
  BY <1>1
<1> QED
  BY <1>1, Zenon

LEMMA RefineInit == Init => Alone!Init
<1> SUFFICES ASSUME Init PROVE Alone!Init
  OBVIOUS
<1>1. ASSUME NEW r \in Requests PROVE Answer[r] = <<>>
  <2>1. tokens[r] = [p \in 1..Prompt[r] |-> TRUE] /\ Prompt[r] \in Nat
    BY Constants DEF Init
  <2>2. Len(tokens[r]) = Prompt[r]
    BY <2>1
  <2>3. Answer[r] = SubSeq(tokens[r], Prompt[r] + 1, Prompt[r])
    BY <2>2 DEF Answer
  <2> QED
    BY <2>1, <2>3, SubSeqEmpty
<1> QED
  BY <1>1, Zenon DEF Alone!Init, Answer

LEMMA RefineNext == ASSUME Inv, [Next]_vars PROVE [Alone!Answer]_Answer
<1> SUFFICES ASSUME Answer' # Answer PROVE Alone!Answer
  OBVIOUS
<1>1. Update
  <2>1. CASE ~Update
    <3>1. tokens' = tokens
      BY <2>1 DEF Next, Step, Begin, ScheduleRunning, Preempt, Admit, EndSchedule, Execute, propose_spyre,
                  DummyRun, Abort, vars
    <3> QED
      BY <3>1, Zenon DEF Answer
  <2> QED
    BY <2>1
<1>2. /\ phase = "update"
      /\ tokens' = [r \in Requests |-> IF r \in DOMAIN batch THEN tokens[r] \o Gets(r) ELSE tokens[r]]
  BY <1>1 DEF Update
<1>3. ASSUME NEW r \in Requests
      PROVE  \E n \in 0..(Limit[r] - Len(Answer[r])) : Answer'[r] = Answer[r] \o [i \in 1..n |-> TRUE]
  <2> DEFINE s == tokens[r]  p == Prompt[r]
  <2>1. s \in Seq(BOOLEAN) /\ p \in Nat /\ p <= Len(s) /\ Len(s) \in Nat /\ Limit[r] \in Nat
    <3>1. s \in Seq(BOOLEAN) /\ p <= Len(s)
      BY Zenon DEF Inv, TypeInv, TokensInv
    <3>2. Len(s) \in Nat
      <4> HIDE DEF s
      <4> QED
        BY <3>1, LenProperties, Zenon
    <3> QED
      BY <3>1, <3>2, Constants
  <2>2. p \in 0..Len(s)
    <3> HIDE DEF s, p
    <3> QED
      BY <2>1
  <2>3. /\ Answer[r] = SubSeq(s, p + 1, Len(s))
        /\ Answer'[r] = SubSeq(tokens'[r], p + 1, Len(tokens'[r]))
    BY Zenon DEF Answer
  <2>4. \A t \in Seq(BOOLEAN) :
           /\ Answer[r] \in Seq(BOOLEAN) /\ Len(Answer[r]) = Len(s) - p
           /\ SubSeq(s \o t, p + 1, Len(s \o t)) = Answer[r] \o t
    <3> HIDE DEF s, p
    <3> SUFFICES ASSUME NEW t \in Seq(BOOLEAN)
                 PROVE  /\ Answer[r] \in Seq(BOOLEAN) /\ Len(Answer[r]) = Len(s) - p
                        /\ SubSeq(s \o t, p + 1, Len(s \o t)) = Answer[r] \o t
      OBVIOUS
    <3> DEFINE a == SubSeq(s, p + 1, Len(s))
    <3>1. /\ a \in Seq(BOOLEAN) /\ Len(a) = Len(s) - p
          /\ SubSeq(s \o t, p + 1, Len(s \o t)) = a \o t
      BY <2>1, <2>2, TailGrows, Zenon
    <3>2. Answer[r] = a
      BY <2>3
    <3> HIDE DEF a
    <3> QED
      BY <3>1, <3>2, Zenon
  <2>5. <<>> \in Seq(BOOLEAN)
    BY EmptySeq, Zenon
  <2>6. Len(Answer[r]) = Answered(r) /\ Answer[r] \in Seq(BOOLEAN)
    BY <2>4, <2>5, Zenon DEF Answered
  <2>7. CASE r \in DOMAIN batch
    <3> DEFINE g == Gets(r)
    <3>1. /\ g \in Seq(BOOLEAN) /\ Len(g) \in Nat /\ \A i \in 1..Len(g) : g[i] = TRUE
          /\ Answered(r) \in Nat /\ Answered(r) + Len(g) <= Limit[r]
      BY <1>2, <2>7, GetsRight
    <3>2. tokens'[r] = s \o g
      BY <1>2, <2>7, Zenon
    <3> HIDE DEF g
    <3>3. Answer'[r] = Answer[r] \o g
      BY <2>3, <2>4, <3>1, <3>2, Zenon
    <3>4. g = [i \in 1..Len(g) |-> TRUE]
      BY <3>1, AllTrue, Zenon
    <3>5. Len(g) \in 0..(Limit[r] - Len(Answer[r]))
      BY <2>1, <2>6, <3>1
    <3> QED
      BY <3>3, <3>4, <3>5, Zenon
  <2>8. CASE r \notin DOMAIN batch
    <3>1. tokens'[r] = s
      BY <1>2, <2>8, Zenon
    <3>2. Answer'[r] = Answer[r]
      BY <2>3, <3>1, Zenon
    <3>3. Answer[r] \o <<>> = Answer[r]
      BY <2>6, ConcatEmptySeq, Zenon
    <3>4. [i \in 1..0 |-> TRUE] = <<>>
      OBVIOUS
    <3>5. 0 \in 0..(Limit[r] - Len(Answer[r]))
      <4>1. Answered(r) <= Limit[r] /\ Answered(r) \in Int
        BY <2>1 DEF Inv, TokensInv, Answered
      <4> QED
        BY <2>1, <2>6, <4>1
    <3> QED
      BY <3>2, <3>3, <3>4, <3>5, Zenon
  <2> QED
    BY <2>7, <2>8
<1>4. DOMAIN Answer' = Requests
  BY Zenon DEF Answer
<1> QED
  BY <1>3, <1>4, Zenon DEF Alone!Answer

(***************************************************************************)
(* Drafts, rejections, chunked prompts, preemptions, reused pages, dummy   *)
(* runs and aborts never show: the engine step with its paged caches       *)
(* implements greedy decoding by the target model alone.                   *)
(***************************************************************************)
THEOREM TargetAlone == Spec => AnswersAsTargetAlone
  BY Invariance, RefineInit, RefineNext, PTL DEF Spec, AnswersAsTargetAlone, Alone!Spec
=============================================================================
