------------------------ MODULE VisionServingProofs ------------------------
(***************************************************************************)
(* What holds of the images that are served, for any engines, prompts and  *)
(* packing: how limits and budgets fit together, where the towers' padded  *)
(* heads have their lanes, and whose tokens a refilled buffer gives.       *)
(***************************************************************************)
EXTENDS VisionServing, ModelLoadProofs

LEMMA SmallestIsIn ==
    ASSUME NEW S \in SUBSET Nat, S # {}
    PROVE  Smallest(S) \in S /\ \A x \in S : Smallest(S) <= x
  BY LeastIsIn DEF Smallest, LeastOf

LEMMA LargestIsIn ==
    ASSUME NEW S \in SUBSET Nat, IsFiniteSet(S), S # {}
    PROVE  Largest(S) \in S /\ \A x \in S : x <= Largest(S)
  BY GreatestIsIn DEF Largest, GreatestOf

\* A tile is whole windows, and a window whole merges.
LEMMA TileShape ==
    ASSUME NEW e \in Engines, e.kind = "tiles"
    PROVE  LET n == e.side \div e.window IN
           /\ {e.side, e.window, e.query, e.merge, n} \subseteq Nat \ {0}
           /\ e.window = e.query * e.merge /\ e.side = n * e.window
           /\ e.side = (n * e.query) * e.merge /\ e.side % e.merge = 0
<1> DEFINE side == e.side  window == e.window  query == e.query  k == e.merge  n == side \div window
<1>1. /\ side \in Nat \ {0} /\ window \in Nat \ {0} /\ query \in Nat \ {0} /\ k \in Nat \ {0}
      /\ window = query * k /\ side % window = 0
  BY EnginesAssumption
<1> HIDE DEF side, window, query, k
<1>2. n \in Nat /\ side = n * window + (side % window)
  BY <1>1, Parts
<1>3. n * window \in Nat
  BY <1>1, <1>2
<1>4. side = n * window
  BY <1>1, <1>2, <1>3
<1>5. n # 0
  BY <1>1, <1>4
<1> HIDE DEF n
<1>6. side = (n * query) * k /\ n * query \in Nat
  BY <1>1, <1>2, <1>4
<1>7. side % k = 0
  <2> DEFINE a == n * query
  <2>1. 0 \in 0..(k - 1) /\ a * k + 0 = side
    BY <1>1, <1>6
  <2> HIDE DEF a
  <2> QED
    BY <1>1, <1>6, <2>1, PartsOfSum DEF a
<1> QED
  BY <1>1, <1>2, <1>4, <1>5, <1>6, <1>7 DEF side, window, query, k, n
\* The image of a finite set is finite.
LEMMA FiniteImage ==
    ASSUME NEW S, IsFiniteSet(S), NEW f, DOMAIN f = S
    PROVE  IsFiniteSet({f[x] : x \in S})
<1> DEFINE T == {f[x] : x \in S}  g == [x \in S |-> f[x]]
<1>1. g \in Surjection(S, T)
  BY DEF Surjection
<1> HIDE DEF g, T
<1>3. IsFiniteSet(T)
  BY <1>1, FS_Surjection
<1> QED
  BY <1>3 DEF T

(***************************************************************************)
(* Budgets of a vision encoder.                                            *)
(***************************************************************************)
\* What budgets are rounded to: whole tokens of whole sticks, or whole tiles.
LEMMA BudgetUnit ==
    ASSUME NEW e \in Engines
    PROVE  /\ PatchMultiple(e) \div PatchesPerToken(e) \in Nat \ {0}
           /\ PatchMultiple(e) \in Nat \ {0} /\ PatchMultiple(e) % PatchesPerToken(e) = 0
<1> DEFINE p == PatchesPerToken(e)
<1>1. e.merge \in Nat \ {0} /\ Stick \in Nat \ {0}
  BY EnginesAssumption, StickAssumption
<1>2. p \in Nat \ {0}
  <2>1. e.merge * e.merge \in Nat \ {0}
    BY <1>1
  <2> QED
    BY <2>1 DEF PatchesPerToken
<1>3. CASE e.kind = "tiles"
  <2>1. e.side \in Nat \ {0} /\ e.side % e.merge = 0
    BY <1>3, TileShape
  <2> DEFINE q == e.side \div e.merge
  <2>2. q \in Nat /\ e.side = q * e.merge
    <3>1. e.side = q * e.merge + (e.side % e.merge) /\ q \in Nat
      BY <2>1, <1>1, Parts
    <3>2. q * e.merge \in Nat
      BY <3>1, <1>1
    <3> QED
      BY <3>1, <3>2, <2>1
  <2> HIDE DEF q
  <2>3. q # 0
    BY <2>1, <2>2, <1>1
  <2>4. e.side * e.side = (q * q) * p
    <3>1. e.side * e.side = (q * e.merge) * (q * e.merge)
      BY <2>2
    <3>2. (q * e.merge) * (q * e.merge) = (q * q) * (e.merge * e.merge)
      BY <2>2, <1>1
    <3> QED
      BY <3>1, <3>2 DEF PatchesPerToken
  <2>5. q * q \in Nat \ {0}
    BY <2>2, <2>3
  <2> DEFINE r == q * q
  <2>6. r \in Nat \ {0} /\ PatchMultiple(e) = r * p + 0
    <3>1. r * p \in Nat
      BY <2>5, <1>2
    <3> QED
      BY <2>4, <2>5, <3>1, <1>3 DEF PatchMultiple, TilePatches
  <2> HIDE DEF r, p
  <2>7. (r * p + 0) \div p = r /\ (r * p + 0) % p = 0
    <3>1. 0 \in 0..(p - 1) /\ r \in Nat
      BY <2>6, <1>2
    <3> QED
      BY <3>1, <1>2, PartsOfSum
  <2>8. r * p + 0 \in Nat \ {0}
    BY <2>6, <1>2
  <2> QED
    BY <2>6, <2>7, <2>8 DEF p
<1>4. CASE e.kind = "grid"
  <2> DEFINE C == {n \in 1..Stick * p : n % Stick = 0 /\ n % p = 0}
             u == PatchMultiple(e)
  <2> HIDE DEF p
  <2>1. C \in SUBSET Nat /\ Stick * p \in C
    <3>1. Stick * p \in Nat \ {0}
      BY <1>1, <1>2
    <3>2. (Stick * p + 0) % p = 0
      BY <1>1, <1>2, PartsOfSum
    <3>3. (p * Stick + 0) % Stick = 0
      BY <1>1, <1>2, PartsOfSum
    <3>4. p * Stick + 0 = Stick * p /\ Stick * p + 0 = Stick * p
      BY <1>1, <1>2
    <3> QED
      BY <3>1, <3>2, <3>3, <3>4
  <2>2. PICK n \in C : \A c \in C : n <= c
    <3> HIDE DEF C
    <3> QED
      BY <2>1, LeastExists
  <2>3. \A c \in 1..n - 1 : c % Stick # 0 \/ c % p # 0
    <3> SUFFICES ASSUME NEW c \in 1..n - 1, c % Stick = 0, c % p = 0 PROVE FALSE
      OBVIOUS
    <3>1. n \in 1..Stick * p /\ Stick * p \in Nat
      BY <2>2, <1>1, <1>2
    <3>2. c \in C
      BY <3>1
    <3>3. n <= c
      BY <2>2, <3>2
    <3> QED
      BY <3>1, <3>3
  <2>4. u \in 1..Stick * p /\ u % p = 0
    <3>1. \E k \in 1..Stick * p : k % Stick = 0 /\ k % p = 0 /\ \A c \in 1..k - 1 : c % Stick # 0 \/ c % p # 0
      BY <2>2, <2>3
    <3>2. u = CHOOSE k \in 1..Stick * p : k % Stick = 0 /\ k % p = 0 /\ \A c \in 1..k - 1 : c % Stick # 0 \/ c % p # 0
      BY <1>4 DEF PatchMultiple, p
    <3> HIDE DEF u
    <3> QED
      BY <3>1, <3>2, Zenon
  <2> HIDE DEF u
  <2>5. u \in Nat \ {0}
    BY <2>4, <1>1, <1>2
  <2>6. u \div p \in Nat /\ u = (u \div p) * p + (u % p)
    BY <2>5, <1>2, Parts
  <2>7. u \div p # 0
    <3> SUFFICES ASSUME u \div p = 0 PROVE FALSE
      OBVIOUS
    <3>1. u = 0 * p + 0
      BY <2>4, <2>6
    <3> QED
      BY <3>1, <2>5, <1>2
  <2> QED
    BY <2>4, <2>5, <2>6, <2>7 DEF p, u
<1> QED
  BY <1>3, <1>4, EnginesAssumption

\* The range upstream generates budgets from, and that a tiled image of most tiles is within it.
LEMMA BudgetRange ==
    ASSUME NEW e \in Engines
    PROVE  LET range == get_encoder_cudagraph_budget_range(e) IN
           /\ range[1] \in Nat /\ range[2] \in Nat
           /\ IF e.kind = "grid" THEN range[2] = e.own
              ELSE /\ TokensPerTile(e) \in Nat /\ MaxTiles(e) \in Nat
                   /\ MaxTiles(e) * TokensPerTile(e) <= range[2]
<1>1. CASE e.kind = "grid"
  <2>1. e.own \in Nat
    BY EnginesAssumption
  <2> QED
    BY <1>1, <2>1, BudgetUnit DEF get_encoder_cudagraph_budget_range
<1>2. CASE e.kind = "tiles"
  <2>1. e.merge \in Nat \ {0} /\ e.side \in Nat \ {0}
    BY <1>2, EnginesAssumption
  <2>2. TokensPerTile(e) \in Nat
    <3>1. e.merge * e.merge \in Nat \ {0} /\ e.side * e.side \in Nat
      BY <2>1
    <3> DEFINE a == e.side * e.side  b == e.merge * e.merge
    <3>2. a \in Nat /\ b \in Nat \ {0}
      BY <3>1
    <3> HIDE DEF a, b
    <3>3. a \div b \in Nat
      BY <3>2, Parts
    <3> QED
      BY <3>3 DEF TokensPerTile, TilePatches, PatchesPerToken, a, b
  <2> DEFINE S == {Tiles(p) : p \in e.pinpoints}  f == [p \in e.pinpoints |-> Tiles(p)]
  <2>3. S \in SUBSET Nat /\ S # {} /\ IsFiniteSet(S)
    <3>1. /\ e.pinpoints # {} /\ IsFiniteSet(e.pinpoints)
          /\ \A p \in e.pinpoints : p.h \in Nat \ {0} /\ p.w \in Nat \ {0}
      BY <1>2, EnginesAssumption
    <3>2. \A p \in e.pinpoints : Tiles(p) \in Nat
      <4> SUFFICES ASSUME NEW p \in e.pinpoints PROVE Tiles(p) \in Nat
        OBVIOUS
      <4>1. p.h \in Nat /\ p.w \in Nat
        BY <3>1
      <4>2. p.h * p.w \in Nat
        BY <4>1
      <4> QED
        BY <4>2 DEF Tiles
    <3>3. IsFiniteSet({f[p] : p \in e.pinpoints})
      <4> HIDE DEF f
      <4> QED
        BY <3>1, FiniteImage DEF f
    <3> QED
      BY <3>1, <3>2, <3>3
  <2>4. MaxTiles(e) \in Nat
    <3> HIDE DEF S
    <3>1. Largest(S) \in S
      BY <2>3, LargestIsIn
    <3>2. Largest(S) \in Nat
      BY <2>3, <3>1
    <3> QED
      BY <3>2 DEF MaxTiles, S
  <2> DEFINE n == MaxTiles(e)  P == {p \in {2^k : k \in 0..n} : n <= p}
  <2>5. P \in SUBSET Nat /\ 2^n \in P
    <3>1. \A k \in 0..n : 2^k \in Nat
      <4> SUFFICES ASSUME NEW k \in 0..n PROVE 2^k \in Nat
        OBVIOUS
      <4>1. k \in Nat
        BY <2>4
      <4> QED
        BY <4>1, PowersOfTwo
    <3>2. n \in 0..n /\ n <= 2^n
      BY <2>4, PowersOfTwo
    <3> QED
      BY <3>1, <3>2
  <2>6. PowerOfTwoFrom(n) \in Nat /\ n <= PowerOfTwoFrom(n)
    <3>1. PowerOfTwoFrom(n) \in P
      <4> HIDE DEF P
      <4>1. Smallest(P) \in P
        BY <2>5, SmallestIsIn
      <4> QED
        BY <4>1 DEF PowerOfTwoFrom, P
    <3> QED
      BY <2>5, <3>1
  <2> HIDE DEF n
  <2> DEFINE t == TokensPerTile(e)  w == PowerOfTwoFrom(n)
  <2>7. get_encoder_cudagraph_budget_range(e) = <<t, w * t>>
    BY <1>2 DEF get_encoder_cudagraph_budget_range, n
  <2>8. n \in Nat /\ w \in Nat /\ t \in Nat /\ n <= w
    BY <2>2, <2>4, <2>6 DEF n
  <2> HIDE DEF t, w
  <2>9. w * t \in Nat /\ n * t <= w * t
    BY <2>8
  <2> QED
    BY <1>2, <2>7, <2>8, <2>9 DEF n, t
<1> QED
  BY <1>1, <1>2, EnginesAssumption

LEMMA BudgetsAreNumbers ==
    ASSUME NEW e \in Engines
    PROVE  /\ token_budgets(e) \in SUBSET Nat /\ IsFiniteSet(token_budgets(e))
           /\ token_budgets(e) # {}
           /\ \A n \in Nat : (\E b \in (IF e.users # {} THEN e.users
                                        ELSE {get_encoder_cudagraph_budget_range(e)[2]}) : n <= b)
                                => \E b \in token_budgets(e) : n <= b
<1> DEFINE range == get_encoder_cudagraph_budget_range(e)
           raw == IF e.users # {} THEN e.users ELSE GeneratedBudgets(range)
           unit == PatchMultiple(e) \div PatchesPerToken(e)
           f == [b \in raw |-> RoundUp(b, unit)]
<1>1. unit \in Nat \ {0}
  BY BudgetUnit
<1>2. range[1] \in Nat /\ range[2] \in Nat
  BY BudgetRange
<1>3. GeneratedBudgets(range) \in SUBSET Nat /\ IsFiniteSet(GeneratedBudgets(range))
  <2> DEFINE n == range[2] \div range[1]  K == 0..n
             g == [k \in K |-> range[1] * 2^k]
             low == {b \in {range[1] * 2^k : k \in K} : b < range[2]}
  <2> HIDE DEF range
  <2>1. low \in SUBSET Nat
    <3> SUFFICES ASSUME NEW k \in K, range[1] * 2^k < range[2] PROVE range[1] * 2^k \in Nat
      OBVIOUS
    <3>1. k \in Nat
      OBVIOUS
    <3>2. 2^k \in Nat
      BY <3>1, PowersOfTwo
    <3> QED
      BY <1>2, <3>2
  <2>2. IsFiniteSet(low)
    <3>1. \A b \in low : b <= range[2]
      <4> SUFFICES ASSUME NEW b \in low PROVE b <= range[2]
        OBVIOUS
      <4>1. b \in Nat /\ b < range[2]
        BY <2>1
      <4> QED
        BY <4>1, <1>2
    <3> HIDE DEF low
    <3> QED
      BY <1>2, <2>1, <3>1, FS_BoundedSetOfNaturals
  <2>3. IsFiniteSet({range[2]})
    BY FS_Singleton
  <2>4. GeneratedBudgets(range) = {range[2]} \cup low
    BY DEF GeneratedBudgets
  <2> HIDE DEF low
  <2>5. IsFiniteSet({range[2]} \cup low)
    BY <2>2, <2>3, FS_Union
  <2> QED
    BY <1>2, <2>1, <2>4, <2>5
<1>4. raw \in SUBSET Nat /\ IsFiniteSet(raw) /\ raw # {}
  <2>1. e.users \subseteq Nat /\ IsFiniteSet(e.users)
    BY EnginesAssumption
  <2>2. range[2] \in GeneratedBudgets(range)
    BY DEF GeneratedBudgets
  <2> QED
    BY <2>1, <2>2, <1>3
<1>5. token_budgets(e) = {f[b] : b \in raw}
  BY DEF token_budgets, AlignedBudgets
<1> HIDE DEF unit
<1>6. \A b \in raw : RoundUp(b, unit) \in Nat /\ b <= RoundUp(b, unit)
  <2> SUFFICES ASSUME NEW b \in raw PROVE RoundUp(b, unit) \in Nat /\ b <= RoundUp(b, unit)
    OBVIOUS
  <2>1. b \in Nat
    BY <1>4
  <2> QED
    BY <2>1, <1>1, RoundUpCovers
<1>7. IsFiniteSet({f[b] : b \in raw})
  <2>1. DOMAIN f = raw
    OBVIOUS
  <2> HIDE DEF f, raw
  <2> QED
    BY <1>4, <2>1, FiniteImage
<1>8. {f[b] : b \in raw} \in SUBSET Nat /\ {f[b] : b \in raw} # {}
  BY <1>4, <1>6
<1>9. \A n \in Nat, b \in raw : n <= b => n <= f[b]
  <2> SUFFICES ASSUME NEW n \in Nat, NEW b \in raw, n <= b PROVE n <= RoundUp(b, unit)
    OBVIOUS
  <2>1. b \in Nat /\ RoundUp(b, unit) \in Nat /\ b <= RoundUp(b, unit)
    BY <1>4, <1>6
  <2> QED
    BY <2>1
<1>10. (IF e.users # {} THEN e.users ELSE {range[2]}) \subseteq raw
  BY DEF GeneratedBudgets
<1> QED
  <2> HIDE DEF f, raw, range
  <2> QED
    BY <1>5, <1>7, <1>8, <1>9, <1>10 DEF range

(***************************************************************************)
(* A vision engine's limits.  The invariant says what the front process's  *)
(* limit, the scheduler's budget and the manager's budgets were derived    *)
(* from, and that what was admitted fits the limit as long as it is the    *)
(* engine's own.                                                           *)
(***************************************************************************)
Item == [id : Nat, h : Nat \ {0}, w : Nat \ {0}, state : {"waiting", "running", "done", "late"}]

\* An image of some prompt that may arrive.
Asked(item) ==
    \E prompt \in Prompts : \E n \in DOMAIN prompt : item.h = prompt[n].h /\ item.w = prompt[n].w

LimitInv ==
    /\ engine \in Engines
    /\ at \in {"configure", "start", "warm", "serve", "refused"}
    /\ at # "configure" => compute = ComputeFor(engine) /\ (~borrowed => limit = LimitOf(engine))

ManagerInv ==
    /\ at \in {"warm", "serve"} =>
          manager = [budgets |-> token_budgets(engine), pack |-> pack_budgets(engine),
                     most |-> max_batch_size(engine)]
    /\ at \in {"warm", "serve"} => engine.eager \/ BudgetsCoverItems(engine)

ItemsInv ==
    /\ items \in Seq(Item)
    /\ \A n \in DOMAIN items :
          /\ items[n].id = n /\ Asked(items[n])
          /\ ~borrowed /\ ~engine.eager => Placeholders(engine, items[n]) <= LimitOf(engine)
    /\ items # <<>> => at = "serve"

VisionInv == LimitInv /\ ManagerInv /\ ItemsInv /\ LateOnlyIfBorrowed

\* A compiled engine has a limit, which is never more than its encoder's budget of a step.
LEMMA LimitIsWithinCompute ==
    ASSUME NEW e \in Engines
    PROVE  /\ ~e.eager => LimitOf(e) \in Nat /\ LimitOf(e) # NoLimit
           /\ ComputeFor(e) \in Nat
           /\ ~e.eager => LimitOf(e) <= ComputeFor(e)
<1>1. /\ e.own \in Nat /\ e.batched \in Nat /\ e.users \in SUBSET Nat /\ IsFiniteSet(e.users)
      /\ NoLimit \notin Nat
  BY EnginesAssumption, VisionAssumption
<1>2. e.users # {} => Largest(e.users) \in Nat
  BY <1>1, LargestIsIn
<1>3. ~e.eager => LimitOf(e) \in Nat
  BY <1>1, <1>2 DEF LimitOf
<1>4. e.eager => LimitOf(e) = NoLimit
  BY DEF LimitOf
<1> DEFINE a == Larger(e.batched, e.own)  l == IF LimitOf(e) = NoLimit THEN 0 ELSE LimitOf(e)
<1>5. a \in Nat /\ l \in Nat
  BY <1>1, <1>3, <1>4 DEF Larger
<1>6. ComputeFor(e) = Larger(a, l)
  BY DEF ComputeFor
<1>7. ~e.eager => l = LimitOf(e)
  BY <1>1, <1>3
<1> HIDE DEF a, l
<1>8. Larger(a, l) \in Nat /\ l <= Larger(a, l)
  BY <1>5 DEF Larger
<1> QED
  BY <1>1, <1>3, <1>6, <1>7, <1>8

\* An image has no more tokens than it takes places in the prompt.
LEMMA TokensWithinPlaceholders ==
    ASSUME NEW e \in Engines, NEW item, item.h \in Nat \ {0}, item.w \in Nat \ {0}
    PROVE  /\ Tokens(e, item) \in Nat /\ Placeholders(e, item) \in Nat
           /\ Tokens(e, item) <= Placeholders(e, item)
<1> DEFINE h == item.h  w == item.w
<1>1. h \in Nat /\ w \in Nat /\ h * w \in Nat
  OBVIOUS
<1>2. CASE e.kind = "grid"
  BY <1>1, <1>2 DEF Tokens, Placeholders
<1>3. CASE e.kind = "tiles"
  <2>1. e.merge \in Nat \ {0} /\ e.side \in Nat \ {0} /\ e.side % e.merge = 0
    BY <1>3, TileShape
  <2> DEFINE q == e.side \div e.merge  b == e.merge * e.merge
  <2>2. q \in Nat /\ e.side = q * e.merge
    <3>1. e.side = q * e.merge + (e.side % e.merge) /\ q \in Nat
      BY <2>1, Parts
    <3>2. q * e.merge \in Nat
      BY <3>1, <2>1
    <3> QED
      BY <3>1, <3>2, <2>1
  <2>3. b \in Nat \ {0}
    BY <2>1
  <2> HIDE DEF q
  <2> DEFINE t == q * q
  <2>4. t \in Nat
    BY <2>2
  <2>5. e.side * e.side = t * b + 0
    <3>1. e.side * e.side = (q * e.merge) * (q * e.merge)
      BY <2>2
    <3>2. (q * e.merge) * (q * e.merge) = (q * q) * (e.merge * e.merge)
      BY <2>2, <2>1
    <3>3. t * b \in Nat
      BY <2>3, <2>4
    <3> QED
      BY <3>1, <3>2, <3>3
  <2> HIDE DEF t, b
  <2>6. TokensPerTile(e) = t
    <3>1. (t * b + 0) \div b = t
      BY <2>3, <2>4, PartsOfSum
    <3> QED
      BY <3>1, <2>5 DEF TokensPerTile, TilePatches, PatchesPerToken, b
  <2> DEFINE p == (h * q) * (w * q + 1)
  <2> HIDE DEF h, w
  <2>7. p = (h * w) * t + h * q /\ (h * w) * t \in Nat /\ h * q \in Nat
    <3>1. p = (h * q) * (w * q) + h * q
      BY <1>1, <2>2
    <3>2. (h * q) * (w * q) = (h * w) * (q * q)
      BY <1>1, <2>2
    <3>3. h * q \in Nat
      BY <1>1, <2>2
    <3>4. (h * w) * t \in Nat
      BY <1>1, <2>4
    <3> QED
      BY <3>1, <3>2, <3>3, <3>4 DEF t
  <2>8. (h * w + 1) * t = (h * w) * t + t
    BY <1>1, <2>4
  <2>9. Tokens(e, item) = (h * w + 1) * t
    BY <1>3, <2>6 DEF Tokens, Tiles, h, w
  <2>10. Placeholders(e, item) = p + t
    BY <1>3, <2>6 DEF Placeholders, h, w, q
  <2> HIDE DEF p
  <2> QED
    BY <2>4, <2>7, <2>8, <2>9, <2>10
<1> QED
  BY <1>2, <1>3, EnginesAssumption

\* What is within the limit of the front process fits a budget the engine compiles.
LEMMA AdmittedFitsBudget ==
    ASSUME NEW e \in Engines, ~e.eager, NEW item, item.h \in Nat \ {0}, item.w \in Nat \ {0},
           Asked(item), Placeholders(e, item) <= LimitOf(e)
    PROVE  \E b \in token_budgets(e) : Tokens(e, item) <= b
<1>1. /\ Tokens(e, item) \in Nat /\ Placeholders(e, item) \in Nat
      /\ Tokens(e, item) <= Placeholders(e, item)
  BY TokensWithinPlaceholders
<1>2. CASE e.users # {}
  <2>1. e.users \in SUBSET Nat /\ IsFiniteSet(e.users)
    BY EnginesAssumption
  <2>2. Largest(e.users) \in e.users /\ LimitOf(e) = Largest(e.users)
    BY <1>2, <2>1, LargestIsIn DEF LimitOf
  <2>3. Largest(e.users) \in Nat
    BY <2>1, <2>2
  <2>4. Tokens(e, item) <= Largest(e.users)
    BY <1>1, <2>2, <2>3
  <2> QED
    BY <1>1, <1>2, <2>2, <2>4, BudgetsAreNumbers
<1>3. CASE e.users = {}
  <2> DEFINE last == get_encoder_cudagraph_budget_range(e)[2]
  <2>1. LimitOf(e) = e.own /\ e.own \in Nat
    BY <1>3, EnginesAssumption DEF LimitOf
  <2>2. Tokens(e, item) <= last
    <3>1. CASE e.kind = "grid"
      <4>1. last = e.own
        BY <3>1, BudgetRange
      <4> QED
        BY <1>1, <2>1, <4>1
    <3>2. CASE e.kind # "grid"
      <4>0. e.kind = "tiles"
        BY <3>2, EnginesAssumption
      <4>1. /\ TokensPerTile(e) \in Nat /\ MaxTiles(e) \in Nat /\ last \in Nat
            /\ MaxTiles(e) * TokensPerTile(e) <= last
        BY <3>2, BudgetRange
      <4>2. Tiles(item) <= MaxTiles(e)
        <5>1. PICK prompt \in Prompts : \E n \in DOMAIN prompt : item.h = prompt[n].h /\ item.w = prompt[n].w
          BY DEF Asked
        <5>2. PICK n \in DOMAIN prompt : item.h = prompt[n].h /\ item.w = prompt[n].w
          BY <5>1
        <5>3. Placeholders(e, item) = Placeholders(e, prompt[n]) /\ Tiles(item) = Tiles(prompt[n])
          BY <4>0, <5>2 DEF Placeholders, Tiles
        <5> QED
          BY <4>0, <5>3, <2>1, TilesAssumption
      <4>3. Tiles(item) \in Nat
        <5>1. item.h * item.w \in Nat
          OBVIOUS
        <5> QED
          BY <5>1 DEF Tiles
      <4>4. Tokens(e, item) = Tiles(item) * TokensPerTile(e)
        BY <3>2 DEF Tokens
      <4> DEFINE a == Tiles(item)  b == MaxTiles(e)  t == TokensPerTile(e)
      <4> HIDE DEF a, b, t, last
      <4>5. a * t <= b * t /\ a * t \in Nat /\ b * t \in Nat
        BY <4>1, <4>2, <4>3 DEF a, b, t
      <4> QED
        BY <4>1, <4>4, <4>5 DEF a, b, t
    <3> QED
      BY <3>1, <3>2
  <2> QED
    BY <1>1, <1>3, <2>2, BudgetsAreNumbers
<1> QED
  BY <1>2, <1>3

\* The budgets of a packed group end with one that holds the largest image that may be packed.
LEMMA PackedFitsBudget ==
    ASSUME NEW e \in Engines, e.kind = "grid", BudgetsCoverItems(e)
    PROVE  \E b \in pack_budgets(e) : e.own <= b
<1> DEFINE all == token_budgets(e)  fit == Fitting(e.own, all)
<1>1. all \in SUBSET Nat /\ IsFiniteSet(all) /\ all # {} /\ e.own \in Nat
  BY BudgetsAreNumbers, EnginesAssumption
<1>2. Largest(all) \in all /\ e.own <= Largest(all)
  <2> HIDE DEF all
  <2>1. Largest(all) \in all
    BY <1>1, LargestIsIn
  <2> QED
    BY <2>1, BudgetRange DEF BudgetsCoverItems, all
<1>3. fit \in SUBSET Nat /\ fit # {}
  BY <1>1, <1>2 DEF Fitting
<1>4. Smallest(fit) \in fit
  <2> HIDE DEF fit
  <2> QED
    BY <1>3, SmallestIsIn
<1>5. Smallest(fit) \in all /\ e.own <= Smallest(fit) /\ Smallest(fit) \in Nat
  BY <1>1, <1>4 DEF Fitting
<1>6. pack_budgets(e) = {b \in all : b <= Smallest(fit)}
  BY <1>3 DEF pack_budgets
<1> HIDE DEF fit, all
<1> QED
  BY <1>5, <1>6

LEMMA PackBudgetsAreNumbers ==
    ASSUME NEW e \in Engines
    PROVE  pack_budgets(e) \in SUBSET Nat /\ IsFiniteSet(pack_budgets(e)) /\ pack_budgets(e) \subseteq token_budgets(e)
<1>1. token_budgets(e) \in SUBSET Nat /\ IsFiniteSet(token_budgets(e))
  BY BudgetsAreNumbers
<1>2. pack_budgets(e) \subseteq token_budgets(e)
  BY DEF pack_budgets
<1> QED
  BY <1>1, <1>2, FS_Subset

(***************************************************************************)
(* Where the items of a call begin in its output.                          *)
(***************************************************************************)
RunsOf(size, k, f) == f = [n \in 1..k + 1 |-> IF n = 1 THEN 0 ELSE f[n - 1] + size[n - 1]]

\* The recursion over the items has a solution, however many there are.
LEMMA RunsExist == ASSUME NEW size, NEW k \in Nat PROVE \E f : RunsOf(size, k, f)
<1> DEFINE Bad == {j \in Nat : ~\E f : RunsOf(size, j, f)}
<1> SUFFICES ASSUME Bad # {} PROVE FALSE
  OBVIOUS
<1>1. PICK j \in Bad : \A i \in Bad : j <= i
  <2>1. Bad \in SUBSET Nat
    OBVIOUS
  <2> HIDE DEF Bad
  <2> QED
    BY <2>1, LeastExists
<1>2. j # 0
  <2> SUFFICES ASSUME j = 0 PROVE FALSE
    OBVIOUS
  <2> DEFINE f == [n \in 1..1 |-> 0]
  <2>1. f = [n \in 1..0 + 1 |-> IF n = 1 THEN 0 ELSE f[n - 1] + size[n - 1]]
    OBVIOUS
  <2> QED
    BY <1>1, <2>1 DEF RunsOf
<1>3. j - 1 \in Nat /\ j - 1 \notin Bad /\ j \in Nat
  <2>1. j \in Nat
    OBVIOUS
  <2>2. j - 1 \in Nat /\ ~(j <= j - 1)
    BY <1>2, <2>1
  <2> QED
    BY <1>1, <2>1, <2>2
<1>4. PICK f : f = [n \in 1..j - 1 + 1 |-> IF n = 1 THEN 0 ELSE f[n - 1] + size[n - 1]]
  BY <1>3 DEF RunsOf
<1> DEFINE g == [n \in 1..j + 1 |-> IF n = j + 1 THEN f[j] + size[j] ELSE f[n]]
<1>5. \A n \in 1..j + 1 : g[n] = IF n = 1 THEN 0 ELSE g[n - 1] + size[n - 1]
  <2> SUFFICES ASSUME NEW n \in 1..j + 1 PROVE g[n] = IF n = 1 THEN 0 ELSE g[n - 1] + size[n - 1]
    OBVIOUS
  <2>1. CASE n = j + 1
    <3>1. n # 1 /\ n - 1 = j /\ j \in 1..j + 1 /\ j # j + 1
      BY <2>1, <1>2, <1>3
    <3> QED
      BY <2>1, <3>1
  <2>2. CASE n # j + 1
    <3>1. n \in 1..j - 1 + 1
      BY <2>2, <1>3
    <3>2. f[n] = IF n = 1 THEN 0 ELSE f[n - 1] + size[n - 1]
      BY <1>4, <3>1
    <3>3. n # 1 => n - 1 \in 1..j + 1 /\ n - 1 # j + 1
      BY <1>3
    <3> QED
      BY <2>2, <3>2, <3>3
  <2> QED
    BY <2>1, <2>2
<1>6. g = [n \in 1..j + 1 |-> IF n = 1 THEN 0 ELSE g[n - 1] + size[n - 1]]
  <2>1. g = [n \in 1..j + 1 |-> g[n]]
    OBVIOUS
  <2> HIDE DEF g
  <2> QED
    BY <1>5, <2>1
<1> HIDE DEF g
<1> QED
  BY <1>1, <1>6 DEF RunsOf

StartsRule(e, group, f) ==
    f = [n \in 1..Len(group) + 1 |-> IF n = 1 THEN 0 ELSE f[n - 1] + Tokens(e, group[n - 1])]

Sized(e, group) == \A n \in 1..Len(group) : Tokens(e, group[n]) \in Nat

\* Each item begins where the one before it ends.
RunsOn(e, group, s) ==
    /\ s \in Seq(Nat) /\ Len(s) = Len(group) + 1 /\ s[1] = 0
    /\ \A n \in 1..Len(group) : s[n + 1] = s[n] + Tokens(e, group[n])

LEMMA StartsOf ==
    ASSUME NEW e, NEW group, Len(group) \in Nat, Sized(e, group)
    PROVE  RunsOn(e, group, Starts(e, group))
<1> DEFINE k == Len(group)
<1>0. k \in Nat /\ \A n \in 1..k : Tokens(e, group[n]) \in Nat
  BY DEF Sized
<1> HIDE DEF k
<1> DEFINE size == [n \in 1..k |-> Tokens(e, group[n])]
           Body(f) == [n \in 1..k + 1 |-> IF n = 1 THEN 0 ELSE f[n - 1] + Tokens(e, group[n - 1])]
           g == CHOOSE f : StartsRule(e, group, f)
<1>1. PICK f : f = [n \in 1..k + 1 |-> IF n = 1 THEN 0 ELSE f[n - 1] + size[n - 1]]
  <2> HIDE DEF size
  <2>1. \E f : RunsOf(size, k, f)
    BY <1>0, RunsExist
  <2> QED
    BY <2>1 DEF RunsOf
<1>2. f = Body(f)
  <2>1. \A n \in 1..k + 1 : n # 1 => n - 1 \in 1..k
    BY <1>0
  <2>2. \A n \in 1..k + 1 : n # 1 => size[n - 1] = Tokens(e, group[n - 1])
    BY <2>1
  <2> HIDE DEF size
  <2> QED
    BY <1>1, <2>2
<1>3. g = Body(g)
  <2>1. \E x : StartsRule(e, group, x)
    BY <1>2 DEF StartsRule, k
  <2>2. StartsRule(e, group, g)
    BY <2>1, Zenon
  <2> HIDE DEF g
  <2> QED
    BY <2>2 DEF StartsRule, k
<1>4. Starts(e, group) = [n \in 1..k + 1 |-> g[n]] \o <<>>
  BY Zenon DEF Starts, StartsRule, k
<1> HIDE DEF g
<1>5. \A n \in 1..k + 1 : g[n] = IF n = 1 THEN 0 ELSE g[n - 1] + Tokens(e, group[n - 1])
  <2>1. \A n \in 1..k + 1 : Body(g)[n] = IF n = 1 THEN 0 ELSE g[n - 1] + Tokens(e, group[n - 1])
    OBVIOUS
  <2> HIDE DEF Body
  <2> QED
    BY <1>3, <2>1
<1>6. \A n \in 1..k + 1 : g[n] \in Nat
  <2> DEFINE Bad == {n \in 1..k + 1 : g[n] \notin Nat}
  <2> SUFFICES ASSUME Bad # {} PROVE FALSE
    OBVIOUS
  <2>1. PICK n \in Bad : \A i \in Bad : n <= i
    <3>1. Bad \in SUBSET Nat
      OBVIOUS
    <3> HIDE DEF Bad
    <3> QED
      BY <3>1, LeastExists
  <2>2. n # 1
    BY <1>0, <1>5
  <2>3. n - 1 \in 1..k + 1 /\ ~(n <= n - 1) /\ n - 1 \in 1..k
    BY <1>0, <2>2
  <2>4. g[n - 1] \in Nat
    BY <2>1, <2>3
  <2>5. g[n] = g[n - 1] + Tokens(e, group[n - 1])
    BY <1>5, <2>2
  <2> QED
    BY <1>0, <2>3, <2>4, <2>5
<1> DEFINE s == [n \in 1..k + 1 |-> g[n]]
<1>7. s \in Seq(Nat) /\ Len(s) = k + 1
  BY <1>0, <1>6
<1>8. s \o <<>> = s
  <2> HIDE DEF s
  <2> QED
    BY <1>7
<1>9. \A n \in 1..k : s[n + 1] = s[n] + Tokens(e, group[n])
  <2> SUFFICES ASSUME NEW n \in 1..k PROVE s[n + 1] = s[n] + Tokens(e, group[n])
    OBVIOUS
  <2>1. n + 1 \in 1..k + 1 /\ n + 1 # 1 /\ n + 1 - 1 = n /\ n \in 1..k + 1
    BY <1>0
  <2> QED
    BY <1>0, <2>1, <1>5
<1>10. s[1] = 0
  BY <1>0, <1>5
<1> HIDE DEF s
<1> QED
  BY <1>4, <1>7, <1>8, <1>9, <1>10 DEF s, k, RunsOn

\* An item that is alone begins at nothing and ends at its tokens.
LEMMA SizeOfOne ==
    ASSUME NEW n, NEW group \in SetToSeqs({items[k] : k \in {n}}), Tokens(engine, items[n]) \in Nat
    PROVE  SizeOf(group) = Tokens(engine, items[n])
<1>1. {items[k] : k \in {n}} = {items[n]}
  OBVIOUS
<1>2. Cardinality({items[n]}) = 1
  BY FS_Singleton, Zenon
<1>3. group \in [1..1 -> {items[n]}]
  BY <1>1, <1>2 DEF SetToSeqs
<1>4. Len(group) = 1 /\ group[1] = items[n]
  BY <1>3
<1> DEFINE s == Starts(engine, group)
<1>5. s \in Seq(Nat) /\ Len(s) = 1 + 1 /\ s[1] = 0 /\ s[1 + 1] = s[1] + Tokens(engine, group[1])
  <2>1. Len(group) \in Nat /\ Sized(engine, group)
    BY <1>4 DEF Sized
  <2>2. RunsOn(engine, group, s)
    BY <2>1, StartsOf
  <2> HIDE DEF s
  <2> QED
    BY <1>4, <2>2 DEF RunsOn
<1>6. s[Len(s)] = Tokens(engine, items[n])
  <2> HIDE DEF s
  <2> QED
    BY <1>4, <1>5
<1> QED
  BY <1>6 DEF SizeOf

\* An order of a set by which one comes alone is that one.
LEMMA AloneFirst ==
    ASSUME NEW n PROVE SmallestFirst({n}) \in SetToSeqs({items[k] : k \in {n}})
<1> DEFINE S == {items[k] : k \in {n}}  f == [i \in 1..1 |-> items[n]]
<1>1. S = {items[n]}
  OBVIOUS
<1>2. Cardinality(S) = 1
  BY <1>1, FS_Singleton, Zenon
<1>3. f \in SetToSeqs(S)
  <2>1. 1..Cardinality(S) = 1..1
    BY <1>2
  <2>2. \A i, j \in 1..1 : i = j
    OBVIOUS
  <2> QED
    BY <1>1, <2>1, <2>2 DEF SetToSeqs
<1>4. \A i, j \in DOMAIN f : i < j => Before(f[i], f[j])
  OBVIOUS
<1>5. SmallestFirst({n}) = CHOOSE order \in SetToSeqs(S) : \A i, j \in DOMAIN order : i < j => Before(order[i], order[j])
  BY DEF SmallestFirst
<1> HIDE DEF f, S
<1> QED
  BY <1>3, <1>4, <1>5, Zenon DEF S

LEMMA ItemsAre ==
    ASSUME ItemsInv, NEW n \in DOMAIN items
    PROVE  /\ items[n] \in Item /\ items[n].id = n /\ Asked(items[n])
           /\ items[n].h \in Nat \ {0} /\ items[n].w \in Nat \ {0}
<1>1. items[n] \in Item
  BY DEF ItemsInv
<1> QED
  BY <1>1 DEF ItemsInv, Item

\* What a step that only moves items on leaves of the invariant.
LEMMA MovedKeeps ==
    ASSUME ItemsInv, NEW S, NEW s \in {"waiting", "running", "done", "late"}, items' = Moved(S, s),
           UNCHANGED <<engine, borrowed, at>>
    PROVE  ItemsInv'
<1>1. items \in Seq(Item)
  BY DEF ItemsInv
<1>2. /\ DOMAIN items' = DOMAIN items
      /\ \A n \in DOMAIN items : items'[n] = IF n \in S THEN [items[n] EXCEPT !.state = s] ELSE items[n]
  BY DEF Moved
<1>3. \A n \in DOMAIN items : /\ items'[n] \in Item /\ items'[n].id = n
                              /\ items'[n].h = items[n].h /\ items'[n].w = items[n].w
  <2> SUFFICES ASSUME NEW n \in DOMAIN items
               PROVE  /\ items'[n] \in Item /\ items'[n].id = n
                      /\ items'[n].h = items[n].h /\ items'[n].w = items[n].w
    OBVIOUS
  <2>1. items[n] \in Item /\ items[n].id = n
    BY ItemsAre
  <2> QED
    BY <1>2, <2>1 DEF Item
<1>4. items' \in Seq(Item)
  <2>1. PICK k \in Nat : DOMAIN items = 1..k
    BY <1>1
  <2>2. items' = [n \in 1..k |-> items'[n]]
    BY <1>2, <2>1 DEF Moved
  <2> QED
    BY <1>2, <1>3, <2>1, <2>2
<1>5. \A n \in DOMAIN items : Asked(items'[n]) /\ Placeholders(engine, items'[n]) = Placeholders(engine, items[n])
  <2> SUFFICES ASSUME NEW n \in DOMAIN items
               PROVE  Asked(items'[n]) /\ Placeholders(engine, items'[n]) = Placeholders(engine, items[n])
    OBVIOUS
  <2>1. items'[n].h = items[n].h /\ items'[n].w = items[n].w /\ Asked(items[n])
    BY <1>3, ItemsAre
  <2> QED
    BY <2>1 DEF Asked, Placeholders, Tokens
<1>6. items' # <<>> => items # <<>>
  BY <1>1, <1>2, <1>4
<1>7. \A n \in DOMAIN items' :
         /\ items'[n].id = n /\ Asked(items'[n])
         /\ ~borrowed' /\ ~engine'.eager => Placeholders(engine', items'[n]) <= LimitOf(engine')
  <2> SUFFICES ASSUME NEW n \in DOMAIN items
               PROVE  /\ items'[n].id = n /\ Asked(items'[n])
                      /\ ~borrowed /\ ~engine.eager => Placeholders(engine, items'[n]) <= LimitOf(engine)
    BY <1>2
  <2>1. ~borrowed /\ ~engine.eager => Placeholders(engine, items[n]) <= LimitOf(engine)
    BY DEF ItemsInv
  <2> QED
    BY <1>3, <1>5, <2>1
<1>8. items' # <<>> => at' = "serve"
  BY <1>6 DEF ItemsInv
<1> QED
  BY <1>4, <1>7, <1>8 DEF ItemsInv, Asked

\* The elements of a sequence, and of one with another appended.
LEMMA SizesAre ==
    ASSUME NEW T, NEW s \in Seq(T) PROVE \A n \in DOMAIN s : s[n] \in T
OBVIOUS

Joined(T, s, t, u) ==
    /\ u \in Seq(T) /\ Len(u) = Len(s) + Len(t)
    /\ \A n \in 1..Len(s) : u[n] = s[n]
    /\ \A n \in 1..Len(t) : u[Len(s) + n] = t[n]

LEMMA Appended ==
    ASSUME NEW T, NEW s \in Seq(T), NEW t \in Seq(T) PROVE Joined(T, s, t, s \o t)
BY DEF Joined

LEMMA ArriveKeeps ==
    ASSUME VisionInv, NEW prompt \in Prompts, Arrive(prompt) PROVE ItemsInv' /\ LateOnlyIfBorrowed'
<1>1. /\ at = "serve" /\ UNCHANGED <<engine, at, limit, borrowed>>
      /\ engine \in Engines /\ (~borrowed => limit = LimitOf(engine))
      /\ items \in Seq(Item)
  BY DEF Arrive, VisionInv, LimitInv, ItemsInv
<1>2. CASE ~Admitted(prompt)
  <2>1. items' = items
    BY <1>2 DEF Arrive
  <2>2. ItemsInv /\ LateOnlyIfBorrowed
    BY DEF VisionInv
  <2>3. ItemsInv'
    BY <1>1, <2>1, <2>2 DEF ItemsInv, Asked
  <2>4. LateOnlyIfBorrowed'
    BY <1>1, <2>1, <2>2 DEF LateOnlyIfBorrowed, In
  <2> QED
    BY <2>3, <2>4
<1>3. CASE Admitted(prompt)
  <2> DEFINE new == [n \in DOMAIN prompt |->
                        [id |-> Len(items) + n, h |-> prompt[n].h, w |-> prompt[n].w, state |-> "waiting"]]
  <2>1. items' = items \o new
    BY <1>3 DEF Arrive
  <2>2. prompt \in Seq([h : Nat \ {0}, w : Nat \ {0}])
    BY VisionAssumption
  <2>3. PICK k \in Nat : DOMAIN prompt = 1..k
    BY <2>2
  <2>4. \A n \in 1..k : prompt[n].h \in Nat \ {0} /\ prompt[n].w \in Nat \ {0}
    <3>1. \A n \in DOMAIN prompt : prompt[n] \in [h : Nat \ {0}, w : Nat \ {0}]
      BY <2>2, SizesAre
    <3>2. \A r \in [h : Nat \ {0}, w : Nat \ {0}] : r.h \in Nat \ {0} /\ r.w \in Nat \ {0}
      OBVIOUS
    <3> QED
      BY <2>3, <3>1, <3>2
  <2>5. Len(items) \in Nat /\ DOMAIN items = 1..Len(items)
    BY <1>1
  <2>6. \A n \in 1..k : new[n] \in Item
    BY <2>3, <2>4, <2>5 DEF Item
  <2>7. new \in Seq(Item) /\ Len(new) = k
    <3>1. DOMAIN new = 1..k
      BY <2>3
    <3>2. new = [n \in 1..k |-> new[n]]
      BY <3>1
    <3> HIDE DEF new
    <3> QED
      BY <2>6, <3>1, <3>2
  <2>8. \A n \in 1..k : /\ new[n].id = Len(items) + n /\ new[n].state = "waiting"
                        /\ new[n].h = prompt[n].h /\ new[n].w = prompt[n].w
    BY <2>3
  <2> HIDE DEF new
  <2>9. /\ items' \in Seq(Item) /\ Len(items') = Len(items) + k
        /\ \A n \in 1..Len(items) : items'[n] = items[n]
        /\ \A n \in 1..k : items'[Len(items) + n] = new[n]
    <3>1. items \in Seq(Item) /\ new \in Seq(Item)
      BY <1>1, <2>7
    <3>2. Joined(Item, items, new, items')
      BY <2>1, <3>1, Appended
    <3> QED
      BY <2>7, <3>2 DEF Joined
  <2>10. \A n \in DOMAIN items' : n \in DOMAIN items \/ \E i \in 1..k : n = Len(items) + i
    <3> SUFFICES ASSUME NEW n \in 1..Len(items) + k, n \notin 1..Len(items) PROVE \E i \in 1..k : n = Len(items) + i
      BY <2>5, <2>9
    <3>1. n - Len(items) \in 1..k /\ n = Len(items) + (n - Len(items))
      BY <2>5
    <3> QED
      BY <3>1
  <2>11. \A i \in 1..k :
            /\ Asked(new[i])
            /\ ~borrowed /\ ~engine.eager => Placeholders(engine, new[i]) <= LimitOf(engine)
    <3> SUFFICES ASSUME NEW i \in 1..k
                 PROVE  /\ Asked(new[i])
                        /\ ~borrowed /\ ~engine.eager => Placeholders(engine, new[i]) <= LimitOf(engine)
      OBVIOUS
    <3>1. Asked(new[i])
      BY <2>3, <2>8 DEF Asked
    <3>2. Placeholders(engine, new[i]) = Placeholders(engine, prompt[i])
      BY <2>8 DEF Placeholders, Tokens
    <3>3. ~engine.eager => LimitOf(engine) # NoLimit
      BY <1>1, LimitIsWithinCompute
    <3> QED
      BY <1>1, <1>3, <2>3, <3>1, <3>2, <3>3 DEF Admitted
  <2>12. \A n \in DOMAIN items' :
            /\ items'[n].id = n /\ Asked(items'[n])
            /\ ~borrowed /\ ~engine.eager => Placeholders(engine, items'[n]) <= LimitOf(engine)
            /\ n \in In("late")' => n \in In("late")
    <3> SUFFICES ASSUME NEW n \in DOMAIN items'
                 PROVE  /\ items'[n].id = n /\ Asked(items'[n])
                        /\ ~borrowed /\ ~engine.eager => Placeholders(engine, items'[n]) <= LimitOf(engine)
                        /\ items'[n].state = "late" => n \in In("late")
      BY DEF In
    <3>1. CASE n \in DOMAIN items
      <4>1. items'[n] = items[n]
        BY <2>5, <2>9, <3>1
      <4> QED
        BY <3>1, <4>1 DEF VisionInv, ItemsInv, In
    <3>2. CASE \E i \in 1..k : n = Len(items) + i
      <4>1. PICK i \in 1..k : n = Len(items) + i
        BY <3>2
      <4>2. items'[n] = new[i]
        BY <2>9, <4>1
      <4> QED
        BY <2>8, <2>11, <4>1, <4>2
    <3> QED
      BY <2>10, <3>1, <3>2
  <2>13. ItemsInv'
    BY <1>1, <2>9, <2>12 DEF ItemsInv, Asked
  <2>14. LateOnlyIfBorrowed'
    <3>1. In("late")' \subseteq In("late")
      BY <2>12 DEF In
    <3> QED
      BY <1>1, <3>1 DEF VisionInv, LateOnlyIfBorrowed
  <2> QED
    BY <2>13, <2>14
<1> QED
  BY <1>2, <1>3

\* A compiled encoder finds a budget for whatever it packs, while the limit is its own.
LEMMA RunsInBudget ==
    ASSUME VisionInv, at = "serve", ~engine.eager, ~borrowed, NEW S \in Packs
    PROVE  Fitting(SizeOf(SmallestFirst(S)), Visible) # {}
<1>1. /\ engine \in Engines /\ ItemsInv
      /\ manager = [budgets |-> token_budgets(engine), pack |-> pack_budgets(engine),
                    most |-> max_batch_size(engine)]
      /\ BudgetsCoverItems(engine)
  BY DEF VisionInv, LimitInv, ManagerInv
<1> DEFINE pool == IF Small # {} THEN Small ELSE In("running")
<1>2. /\ S \subseteq pool /\ S # {}
      /\ Cardinality(S) = 1 \/ SizeOf(SmallestFirst(S)) <= Largest(Visible)
  BY DEF Packs
<1>3. Small \subseteq In("running") /\ In("running") \subseteq DOMAIN items
  BY DEF Small, In
<1>4. Visible \in SUBSET Nat /\ IsFiniteSet(Visible) /\ Visible \in {token_budgets(engine), pack_budgets(engine)}
  BY <1>1, BudgetsAreNumbers, PackBudgetsAreNumbers DEF Visible
<1>5. Visible # {}
  <2>1. engine.packs => engine.kind = "grid"
    BY <1>1, EnginesAssumption
  <2>2. engine.packs => pack_budgets(engine) # {}
    BY <1>1, <2>1, PackedFitsBudget
  <2> QED
    BY <1>1, <2>2, BudgetsAreNumbers DEF Visible
<1>6. CASE Cardinality(S) # 1
  <2>1. Largest(Visible) \in Visible
    BY <1>4, <1>5, LargestIsIn
  <2> QED
    BY <1>2, <1>6, <2>1 DEF Fitting
<1>7. CASE Cardinality(S) = 1
  <2>1. PICK n : S = {n}
    <3>1. IsFiniteSet(S)
      <4>1. DOMAIN items = 1..Len(items) /\ Len(items) \in Nat
        BY <1>1 DEF ItemsInv
      <4>2. \A k \in S : k <= Len(items)
        BY <1>2, <1>3, <4>1
      <4>3. S \in SUBSET Nat
        BY <1>2, <1>3, <4>1
      <4> QED
        BY <4>1, <4>2, <4>3, FS_BoundedSetOfNaturals
    <3> QED
      BY <1>7, <3>1, FS_Singleton
  <2>2. n \in pool /\ n \in DOMAIN items
    BY <1>2, <1>3, <2>1
  <2>3. /\ items[n].h \in Nat \ {0} /\ items[n].w \in Nat \ {0} /\ Asked(items[n])
        /\ Placeholders(engine, items[n]) <= LimitOf(engine)
    <3>1. Placeholders(engine, items[n]) <= LimitOf(engine)
      BY <1>1, <2>2 DEF ItemsInv
    <3> QED
      BY <1>1, <2>2, <3>1, ItemsAre
  <2>4. Tokens(engine, items[n]) \in Nat
    BY <1>1, <2>3, TokensWithinPlaceholders
  <2>5. SizeOf(SmallestFirst(S)) = Tokens(engine, items[n])
    BY <2>1, <2>4, AloneFirst, SizeOfOne
  <2>6. \E b \in Visible : Tokens(engine, items[n]) <= b
    <3>1. CASE engine.packs /\ Small # {}
      <4>1. n \in Small /\ Visible = pack_budgets(engine)
        BY <1>1, <2>2, <3>1 DEF Visible
      <4>2. Tokens(engine, items[n]) <= engine.own
        BY <3>1, <4>1 DEF Small, Size
      <4>3. engine.kind = "grid" /\ engine.own \in Nat
        BY <1>1, <3>1, EnginesAssumption
      <4>4. PICK b \in pack_budgets(engine) : engine.own <= b
        BY <1>1, <4>3, PackedFitsBudget
      <4>5. b \in Nat
        BY <1>1, PackBudgetsAreNumbers
      <4> QED
        BY <2>4, <4>1, <4>2, <4>3, <4>4, <4>5
    <3>2. CASE ~(engine.packs /\ Small # {})
      <4>1. Visible = token_budgets(engine)
        BY <1>1, <3>2 DEF Visible
      <4> QED
        BY <1>1, <2>3, <4>1, AdmittedFitsBudget
    <3> QED
      BY <3>1, <3>2
  <2> QED
    BY <2>5, <2>6 DEF Fitting
<1> QED
  BY <1>6, <1>7

LEMMA LateIsMoved ==
    ASSUME NEW S, NEW s \in {"running", "done"}, items' = Moved(S, s), UNCHANGED borrowed, LateOnlyIfBorrowed
    PROVE  LateOnlyIfBorrowed'
<1>1. In("late")' \subseteq In("late")
  <2> SUFFICES ASSUME NEW n \in DOMAIN items', items'[n].state = "late" PROVE n \in DOMAIN items /\ items[n].state = "late"
    BY DEF In
  <2>1. n \in DOMAIN items /\ items'[n] = IF n \in S THEN [items[n] EXCEPT !.state = s] ELSE items[n]
    BY DEF Moved
  <2>2. CASE n \in S
    <3>1. items'[n].state \in {s, items[n].state}
      BY <2>1, <2>2
    <3> QED
      BY <2>1, <3>1
  <2> QED
    BY <2>1, <2>2
<1> QED
  BY <1>1 DEF LateOnlyIfBorrowed

LEMMA VisionStep == VisionInv /\ [VisionNext]_visionVars => VisionInv'
<1> SUFFICES ASSUME VisionInv, [VisionNext]_visionVars PROVE VisionInv'
  OBVIOUS
<1>0. LimitInv /\ ManagerInv /\ ItemsInv /\ LateOnlyIfBorrowed
  BY DEF VisionInv
<1>1. CASE ConfigureLimits
  <2>1. items = <<>> /\ items' = items
    BY <1>0, <1>1 DEF ConfigureLimits, ItemsInv
  <2>2. LimitInv'
    BY <1>0, <1>1 DEF ConfigureLimits, LimitInv
  <2>3. ManagerInv'
    BY <1>0, <1>1 DEF ConfigureLimits, ManagerInv
  <2>4. ItemsInv' /\ LateOnlyIfBorrowed'
    BY <1>0, <1>1, <2>1 DEF ConfigureLimits, ItemsInv, LateOnlyIfBorrowed, In
  <2> QED
    BY <2>2, <2>3, <2>4 DEF VisionInv
<1>2. CASE ConfigureAnother
  <2>1. UNCHANGED <<engine, at, compute, items, manager>> /\ borrowed'
    BY <1>2 DEF ConfigureAnother
  <2>2. LimitInv' /\ ManagerInv'
    BY <1>0, <2>1 DEF LimitInv, ManagerInv
  <2>3. ItemsInv' /\ LateOnlyIfBorrowed'
    BY <1>0, <2>1 DEF ItemsInv, LateOnlyIfBorrowed, Asked
  <2> QED
    BY <2>2, <2>3 DEF VisionInv
<1>3. CASE StartEngine \/ Warm
  <2>1. /\ UNCHANGED <<engine, limit, compute, items, borrowed>> /\ at \in {"start", "warm"}
        /\ at' \in {"serve", "warm", "refused"}
    BY <1>3 DEF StartEngine, Warm
  <2>2. items = <<>>
    BY <1>0, <2>1 DEF ItemsInv
  <2>3. LimitInv'
    BY <1>0, <2>1 DEF LimitInv
  <2>4. ManagerInv'
    BY <1>0, <1>3 DEF StartEngine, Warm, ManagerInv
  <2>5. ItemsInv' /\ LateOnlyIfBorrowed'
    BY <1>0, <2>1, <2>2 DEF ItemsInv, LateOnlyIfBorrowed, In
  <2> QED
    BY <2>3, <2>4, <2>5 DEF VisionInv
<1>4. ASSUME UNCHANGED <<engine, at, limit, compute, manager, borrowed>>, ItemsInv', LateOnlyIfBorrowed'
      PROVE  VisionInv'
  <2>1. LimitInv' /\ ManagerInv'
    BY <1>0, <1>4 DEF LimitInv, ManagerInv
  <2> QED
    BY <1>4, <2>1 DEF VisionInv
<1>5. ASSUME NEW prompt \in Prompts, Arrive(prompt) PROVE VisionInv'
  BY <1>4, <1>5, ArriveKeeps DEF Arrive
<1>6. CASE Schedule
  <2>1. UNCHANGED <<engine, at, limit, compute, manager, borrowed>> /\ \E S : items' = Moved(S, "running")
    BY <1>6 DEF Schedule
  <2> QED
    BY <1>0, <1>4, <2>1, MovedKeeps, LateIsMoved
<1>7. CASE Execute
  <2>1. at = "serve" /\ ~engine.eager /\ UNCHANGED <<engine, at, limit, compute, manager, borrowed>>
    BY <1>7 DEF Execute
  <2>2. PICK S \in Packs : RunBudget(SmallestFirst(S), S) \/ RunLate(SmallestFirst(S), S)
    BY <1>7 DEF Execute
  <2>3. CASE RunBudget(SmallestFirst(S), S)
    <3>1. items' = Moved(S, "done")
      BY <2>3 DEF RunBudget
    <3> QED
      BY <1>0, <1>4, <2>1, <3>1, MovedKeeps, LateIsMoved
  <2>4. CASE RunLate(SmallestFirst(S), S)
    <3>1. items' = Moved(S, "late") /\ Fitting(SizeOf(SmallestFirst(S)), Visible) = {}
      BY <2>4 DEF RunLate
    <3>2. borrowed
      BY <2>1, <3>1, RunsInBudget
    <3>3. ItemsInv'
      BY <1>0, <2>1, <3>1, MovedKeeps
    <3>4. LateOnlyIfBorrowed'
      BY <2>1, <3>2 DEF LateOnlyIfBorrowed
    <3> QED
      BY <1>4, <2>1, <3>3, <3>4
  <2> QED
    BY <2>2, <2>3, <2>4
<1>8. CASE EmbedEagerly
  <2>1. UNCHANGED <<engine, at, limit, compute, manager, borrowed>> /\ \E S : items' = Moved(S, "done")
    BY <1>8 DEF EmbedEagerly
  <2> QED
    BY <1>0, <1>4, <2>1, MovedKeeps, LateIsMoved
<1>9. CASE UNCHANGED visionVars
  <2>1. UNCHANGED <<engine, at, limit, compute, items, manager, borrowed>>
    BY <1>9 DEF visionVars
  <2>2. ItemsInv' /\ LateOnlyIfBorrowed'
    BY <1>0, <2>1 DEF ItemsInv, LateOnlyIfBorrowed, In, Asked
  <2> QED
    BY <1>4, <2>1, <2>2
<1> QED
  BY <1>1, <1>2, <1>3, <1>5, <1>6, <1>7, <1>8, <1>9 DEF VisionNext

LEMMA VisionStart == VisionInit => VisionInv
<1> SUFFICES ASSUME VisionInit PROVE VisionInv
  OBVIOUS
<1>1. items = <<>> /\ at = "configure" /\ engine \in Engines
  BY DEF VisionInit
<1>2. LimitInv /\ ManagerInv
  BY <1>1 DEF LimitInv, ManagerInv
<1>3. ItemsInv /\ LateOnlyIfBorrowed
  BY <1>1 DEF ItemsInv, LateOnlyIfBorrowed, In
<1> QED
  BY <1>2, <1>3 DEF VisionInv

\* A compiled encoder runs in a budget whatever is admitted and however it is packed, as long as
\* requests are checked against its own limit (RunsInBudget): the front process's check, the
\* manager's budgets and the packer's view of them are derived from one another.
THEOREM NothingRunsLate == VisionSpec => []LateOnlyIfBorrowed
<1>1. VisionInv => LateOnlyIfBorrowed
  BY DEF VisionInv
<1> QED
  BY <1>1, VisionStart, VisionStep, PTL DEF VisionSpec

\* The scheduler's encoder budget is computed from the limit of the front process, so no
\* admitted image is larger than a step can ever take.
THEOREM AdmittedImagesFit == VisionSpec => []EveryAdmittedItemFits
<1>1. ASSUME VisionInv PROVE EveryAdmittedItemFits
  <2> SUFFICES ASSUME NEW n \in In("waiting"), ~engine.eager, ~borrowed
               PROVE  Placeholders(engine, items[n]) <= compute
    BY DEF EveryAdmittedItemFits
  <2>1. n \in DOMAIN items /\ ItemsInv /\ engine \in Engines
    BY <1>1 DEF VisionInv, LimitInv, In
  <2>2. items # <<>>
    BY <2>1
  <2>3. compute = ComputeFor(engine)
    BY <1>1, <2>1, <2>2 DEF VisionInv, LimitInv, ItemsInv
  <2>4. Placeholders(engine, items[n]) <= LimitOf(engine)
    BY <2>1 DEF ItemsInv
  <2>5. Placeholders(engine, items[n]) \in Nat
    BY <2>1, ItemsAre, TokensWithinPlaceholders
  <2>6. LimitOf(engine) \in Nat /\ ComputeFor(engine) \in Nat /\ LimitOf(engine) <= ComputeFor(engine)
    BY <2>1, LimitIsWithinCompute
  <2> QED
    BY <2>3, <2>4, <2>5, <2>6
<1> QED
  BY <1>1, VisionStart, VisionStep, PTL DEF VisionSpec


(***************************************************************************)
(* The towers' heads.  A rotation as one matmul brings each lane its       *)
(* partner; the layouts put the partner where the matmul looks.            *)
(***************************************************************************)
\* The checkpoint's lane at a place of Gemma 4's layout, a half of z lanes each holding two
\* quarters of q; -1 where there is none.
LaneAt(z, q, l) ==
    IF l < q THEN l ELSE IF l < 2 * q THEN l + q ELSE IF l < z THEN -1
    ELSE IF l < z + q THEN q + (l - z) ELSE IF l < z + 2 * q THEN 2 * q + (l - z) ELSE -1

LEMMA TwoAxisLayout ==
    ASSUME NEW q \in Nat \ {0}, NEW z \in Nat, 2 * q <= z, NEW x, NEW fill, NEW l \in 0..(2 * z - 1)
    PROVE  _two_axis_layout(x, 4 * q, 2 * z, fill)[l] =
               IF LaneAt(z, q, l) = -1 THEN fill ELSE x[LaneAt(z, q, l)]
<1>1. (4 * q) \div 4 = q /\ (2 * z) \div 2 = z /\ z \in Nat \ {0}
  OBVIOUS
<1> DEFINE half == l \div z  place == l % z
<1>2. /\ l < z => half = 0 /\ place = l
      /\ ~(l < z) => half = 1 /\ place = l - z
  BY <1>1, HalfOf
<1>3. _two_axis_layout(x, 4 * q, 2 * z, fill)[l] =
          IF place < q THEN x[half * q + place]
          ELSE IF place < 2 * q THEN x[2 * q + half * q + (place - q)]
          ELSE fill
  BY <1>1 DEF _two_axis_layout
<1>4. 0 * q = 0 /\ 1 * q = q
  OBVIOUS
<1> HIDE DEF half, place
<1>5. CASE l < z
  BY <1>2, <1>3, <1>4, <1>5 DEF LaneAt
<1>6. CASE ~(l < z)
  BY <1>2, <1>3, <1>4, <1>6 DEF LaneAt
<1> QED
  BY <1>5, <1>6

\* A quarter's lanes come first in their axis exactly when they are in the first half of the
\* layout; their partners are a quarter away, at the same place of the other half.
LEMMA QuartersOf ==
    ASSUME NEW q \in Nat \ {0}, NEW z \in Nat, 2 * q <= z, NEW l \in 0..(2 * z - 1),
           LaneAt(z, q, l) # -1
    PROVE  /\ LaneAt(z, q, l) \in 0..(4 * q - 1)
           /\ LaneAt(z, q, l) % (2 * q) < q <=> l < z
           /\ (l + z) % (2 * z) \in 0..(2 * z - 1)
           /\ LaneAt(z, q, (l + z) % (2 * z)) =
                 IF l < z THEN LaneAt(z, q, l) + q ELSE LaneAt(z, q, l) - q
<1> DEFINE s == LaneAt(z, q, l)
<1>1. s \in 0..(4 * q - 1)
  BY DEF LaneAt
<1>2. s % (2 * q) = IF s < 2 * q THEN s ELSE s - 2 * q
  <2>1. s \in 0..(2 * (2 * q) - 1) /\ 2 * q \in Nat \ {0}
    BY <1>1
  <2> HIDE DEF s
  <2> QED
    BY <2>1, HalfOf
<1>3. (l + z) % (2 * z) = IF l < z THEN l + z ELSE l - z
  <2>1. CASE l < z
    <3>1. 0 * (2 * z) + (l + z) = l + z /\ l + z \in 0..(2 * z - 1) /\ 2 * z \in Nat \ {0}
      BY <2>1
    <3>2. (0 * (2 * z) + (l + z)) % (2 * z) = l + z
      BY <3>1, PartsOfSum
    <3> QED
      BY <2>1, <3>1, <3>2
  <2>2. CASE ~(l < z)
    <3>1. 1 * (2 * z) + (l - z) = l + z /\ l - z \in 0..(2 * z - 1) /\ 2 * z \in Nat \ {0}
      BY <2>2
    <3>2. (1 * (2 * z) + (l - z)) % (2 * z) = l - z
      BY <3>1, PartsOfSum
    <3> QED
      BY <2>2, <3>1, <3>2
  <2> QED
    BY <2>1, <2>2
<1>4. s % (2 * q) < q <=> l < z
  BY <1>1, <1>2 DEF LaneAt
<1>5. /\ (IF l < z THEN l + z ELSE l - z) \in 0..(2 * z - 1)
      /\ LaneAt(z, q, IF l < z THEN l + z ELSE l - z) = IF l < z THEN s + q ELSE s - q
  BY DEF LaneAt
<1> QED
  BY <1>1, <1>3, <1>4, <1>5

LEMMA EveryLaneHasAPlace ==
    ASSUME NEW q \in Nat \ {0}, NEW z \in Nat, 2 * q <= z, NEW s \in 0..(4 * q - 1)
    PROVE  \E l \in 0..(2 * z - 1) : /\ LaneAt(z, q, l) = s
                                     /\ \A k \in 0..(2 * z - 1) : LaneAt(z, q, k) = s => k = l
<1> DEFINE l == IF s < q THEN s ELSE IF s < 2 * q THEN z + s - q
                ELSE IF s < 3 * q THEN s - q ELSE z + s - 2 * q
<1>1. l \in 0..(2 * z - 1)
  OBVIOUS
<1>2. LaneAt(z, q, l) = s
  BY DEF LaneAt
<1>3. \A k \in 0..(2 * z - 1) : LaneAt(z, q, k) = s => k = l
  BY DEF LaneAt
<1> HIDE DEF l
<1> QED
  BY <1>1, <1>2, <1>3

\* A lane of the rotation as one matmul, the two terms that are there.
Turned(entry, lane) ==
    IF entry = Nothing \/ lane = Zero THEN {}
    ELSE {AxisTerm(entry.sign, entry.trig, entry.axis, entry.index, lane)}

LEMMA RotatedLane ==
    ASSUME NEW lanes, NEW cos, NEW sin, NEW perm, NEW l \in DOMAIN lanes
    PROVE  rope_rotate_matmul(lanes, cos, sin, perm)[l] =
               Turned(cos[l], lanes[l]) \cup Turned(sin[l], lanes[perm[l]])
<1> DEFINE set(e, lane) == {AxisTerm(t.sign, t.trig, t.axis, t.index, lane) :
                                t \in {t \in {e} : t # Nothing /\ lane # Zero}}
<1>1. ASSUME NEW e, NEW lane PROVE set(e, lane) = Turned(e, lane)
  BY DEF Turned
<1>2. rope_rotate_matmul(lanes, cos, sin, perm)[l] = set(cos[l], lanes[l]) \cup set(sin[l], lanes[perm[l]])
  BY DEF rope_rotate_matmul
<1> HIDE DEF set
<1> QED
  BY <1>1, <1>2

LEMMA TurnedBy ==
    ASSUME NEW sign \in {-1, 1}, NEW trig \in {"cos", "sin"}, NEW axis, NEW index, NEW lane, lane # Zero
    PROVE  Turned(Angle(sign, trig, axis, index), lane) = {AxisTerm(sign, trig, axis, index, lane)}
<1> DEFINE e == Angle(sign, trig, axis, index)
<1>1. e.sign = sign /\ e.trig = trig /\ e.axis = axis /\ e.index = index
  BY DEF Angle
<1>2. Nothing.sign = 0
  BY DEF Nothing
<1>3. e # Nothing
  BY <1>1, <1>2
<1>4. Turned(e, lane) = {AxisTerm(e.sign, e.trig, e.axis, e.index, lane)}
  <2> HIDE DEF e
  <2> QED
    BY <1>3, Zenon DEF Turned
<1> QED
  BY <1>1, <1>4

LEMMA PairOf == \A a, b : {a} \cup {b} = {a, b}
OBVIOUS

\* Gemma 4: what a place of the padded head holds after the rotation is what the model's own
\* rotation gives its lane.
LEMMA GemmaRotates ==
    ASSUME NEW d \in Nat \ {0}, d % 4 = 0 PROVE RotatesAs(Gemma(d), GemmaStock(d))
<1> DEFINE q == d \div 4  width == _padded_head_dim(d)  z == width \div 2
<1>1. q \in Nat \ {0} /\ d = 4 * q /\ d \div 4 = q
  OBVIOUS
<1>2. width = 2 * z /\ z \in Nat /\ 2 * q <= z /\ width \div 2 = z
  <2>1. 2 * Stick \in Nat \ {0} /\ Stick \in Nat
    BY StickAssumption
  <2>2. PICK c \in Nat : width = c * (2 * Stick) /\ d <= width /\ width \in Nat
    BY <2>1, RoundUpCovers DEF _padded_head_dim
  <2>3. c * (2 * Stick) = 2 * (c * Stick) /\ c * Stick \in Nat
    BY <2>1
  <2> HIDE DEF width
  <2> QED
    BY <1>1, <2>2, <2>3
<1> HIDE DEF q, width, z
<1> DEFINE lanes == _two_axis_layout([l \in 0..d - 1 |-> l], d, width, Zero)
           axis(l) == IF l < 2 * q THEN "x" ELSE "y"
           first(l) == l % (2 * q) < q
           cos0 == [l \in 0..d - 1 |-> Angle(1, "cos", axis(l), l % q)]
           sin0 == [l \in 0..d - 1 |-> Angle(IF first(l) THEN -1 ELSE 1, "sin", axis(l), l % q)]
           cos == _two_axis_layout(cos0, d, width, One)
           sin == _two_axis_layout(sin0, d, width, Nothing)
           perm == rope_perm_matrix("half", width)
           rotated == rope_rotate_matmul(lanes, cos, sin, perm)
           stock == GemmaStock(d)
<1>3. Gemma(d) = [lanes |-> lanes, rotated |-> rotated]
  BY <1>1 DEF Gemma, gemma4_rope_tables, width
<1>0. ASSUME NEW x, NEW fill, NEW l \in 0..(width - 1)
      PROVE  _two_axis_layout(x, d, width, fill)[l] =
                 IF LaneAt(z, q, l) = -1 THEN fill ELSE x[LaneAt(z, q, l)]
  BY <1>1, <1>2, TwoAxisLayout
<1>4. \A l \in 0..(width - 1) :
         lanes[l] = IF LaneAt(z, q, l) = -1 THEN Zero ELSE LaneAt(z, q, l)
  <2> SUFFICES ASSUME NEW l \in 0..(width - 1)
               PROVE  lanes[l] = IF LaneAt(z, q, l) = -1 THEN Zero ELSE LaneAt(z, q, l)
    OBVIOUS
  <2>1. lanes[l] = IF LaneAt(z, q, l) = -1 THEN Zero ELSE [k \in 0..d - 1 |-> k][LaneAt(z, q, l)]
    BY <1>0
  <2>2. LaneAt(z, q, l) # -1 => LaneAt(z, q, l) \in 0..(d - 1)
    BY <1>1, <1>2, QuartersOf
  <2> HIDE DEF lanes
  <2> QED
    BY <2>1, <2>2
<1>5. DOMAIN lanes = 0..(width - 1)
  BY DEF _two_axis_layout
<1>6. ASSUME NEW l \in 0..(width - 1), LaneAt(z, q, l) # -1
      PROVE  rotated[l] = stock[LaneAt(z, q, l)]
  <2> DEFINE s == LaneAt(z, q, l)  far == LaneAt(z, q, perm[l])
  <2>1. /\ s \in 0..(d - 1) /\ (first(s) <=> l < z)
        /\ perm[l] \in 0..(width - 1)
        /\ far = IF l < z THEN s + q ELSE s - q
    <3>1. perm[l] = (l + z) % (2 * z)
      BY <1>2 DEF rope_perm_matrix
    <3> QED
      BY <1>1, <1>2, <1>6, <3>1, QuartersOf
  <2>2. lanes[l] = s /\ lanes[perm[l]] = far /\ far # -1 /\ s \in Int /\ far \in Int
    <3>1. far # -1 /\ far \in Int /\ s \in Int
      BY <1>1, <1>2, <2>1 DEF LaneAt
    <3> QED
      BY <1>4, <1>6, <2>1, <3>1
  <2>3. cos[l] = Angle(1, "cos", axis(s), s % q)
    <3>1. cos[l] = cos0[s]
      <4> HIDE DEF cos0
      <4> QED
        BY <1>0, <1>6
    <3> QED
      BY <2>1, <3>1
  <2>4. sin[l] = Angle(IF l < z THEN -1 ELSE 1, "sin", axis(s), s % q)
    <3>1. sin[l] = sin0[s]
      <4> HIDE DEF sin0
      <4> QED
        BY <1>0, <1>6
    <3> QED
      BY <2>1, <3>1
  <2>5. rotated[l] = Turned(cos[l], s) \cup Turned(sin[l], far)
    <3>1. l \in DOMAIN lanes
      BY <1>5
    <3>2. rotated[l] = Turned(cos[l], lanes[l]) \cup Turned(sin[l], lanes[perm[l]])
      <4> HIDE DEF lanes, cos, sin, perm
      <4> QED
        BY <3>1, RotatedLane
    <3> HIDE DEF lanes, cos, sin, perm, rotated
    <3> QED
      BY <2>2, <3>2
  <2>6. s # Zero /\ far # Zero
    BY <2>2, ZeroAssumption
  <2>7. Turned(cos[l], s) = {AxisTerm(1, "cos", axis(s), s % q, s)}
    BY <2>3, <2>6, TurnedBy
  <2>8. Turned(sin[l], far) = {AxisTerm(IF l < z THEN -1 ELSE 1, "sin", axis(s), s % q, far)}
    BY <2>4, <2>6, TurnedBy
  <2>9. stock[s] = IF first(s)
                   THEN {AxisTerm(1, "cos", axis(s), s % q, s), AxisTerm(-1, "sin", axis(s), s % q, s + q)}
                   ELSE {AxisTerm(1, "cos", axis(s), s % q, s), AxisTerm(1, "sin", axis(s), s % q, s - q)}
    BY <1>1, <2>1 DEF GemmaStock
  <2> HIDE DEF s, far, cos, sin, rotated, stock, axis, first
  <2>10. CASE l < z
    <3> DEFINE a == AxisTerm(1, "cos", axis(s), s % q, s)
               b == AxisTerm(-1, "sin", axis(s), s % q, s + q)
    <3>1. Turned(sin[l], far) = {b}
      BY <2>1, <2>8, <2>10
    <3>2. stock[s] = {a, b}
      BY <2>1, <2>9, <2>10
    <3>3. Turned(cos[l], s) = {a}
      BY <2>7
    <3> HIDE DEF a, b
    <3> QED
      BY <2>5, <3>1, <3>2, <3>3, PairOf DEF s
  <2>11. CASE ~(l < z)
    <3> DEFINE a == AxisTerm(1, "cos", axis(s), s % q, s)
               b == AxisTerm(1, "sin", axis(s), s % q, s - q)
    <3>1. Turned(sin[l], far) = {b}
      BY <2>1, <2>8, <2>11
    <3>2. stock[s] = {a, b}
      BY <2>1, <2>9, <2>11
    <3>3. Turned(cos[l], s) = {a}
      BY <2>7
    <3> HIDE DEF a, b
    <3> QED
      BY <2>5, <3>1, <3>2, <3>3, PairOf DEF s
  <2> QED
    BY <2>10, <2>11
<1>7. ASSUME NEW l \in 0..(width - 1), LaneAt(z, q, l) = -1
      PROVE  rotated[l] = {}
  <2>1. lanes[l] = Zero
    BY <1>4, <1>7
  <2>2. sin[l] = Nothing
    BY <1>0, <1>7
  <2>3. rotated[l] = Turned(cos[l], lanes[l]) \cup Turned(sin[l], lanes[perm[l]])
    <3> HIDE DEF lanes, cos, sin, perm
    <3> QED
      <4>1. l \in DOMAIN lanes
        BY <1>5, <1>7
      <4> QED
        BY <4>1, RotatedLane
  <2> HIDE DEF rotated, cos, sin, lanes, perm
  <2> QED
    BY <2>1, <2>2, <2>3 DEF Turned
<1>8. DOMAIN stock = 0..(d - 1)
  BY DEF GemmaStock
<1>9. \A l \in 0..(width - 1) : LaneAt(z, q, l) \in Int
  BY <1>1, <1>2 DEF LaneAt
<1> HIDE DEF lanes, rotated, stock
<1>10. \A l \in 0..(width - 1) : rotated[l] = IF lanes[l] = Zero THEN {} ELSE stock[lanes[l]]
  BY <1>4, <1>6, <1>7, <1>9, ZeroAssumption
<1>11. \A s \in 0..(d - 1) : \E l \in 0..(width - 1) :
          lanes[l] = s /\ \A k \in 0..(width - 1) : lanes[k] = s => k = l
  <2> SUFFICES ASSUME NEW s \in 0..(d - 1)
               PROVE  \E l \in 0..(width - 1) :
                         lanes[l] = s /\ \A k \in 0..(width - 1) : lanes[k] = s => k = l
    OBVIOUS
  <2>1. PICK l \in 0..(width - 1) : /\ LaneAt(z, q, l) = s
                                    /\ \A k \in 0..(width - 1) : LaneAt(z, q, k) = s => k = l
    BY <1>1, <1>2, EveryLaneHasAPlace
  <2>2. s # Zero /\ s # -1
    BY <1>1, ZeroAssumption
  <2> QED
    BY <1>4, <2>1, <2>2
<1>12. Gemma(d).lanes = lanes /\ Gemma(d).rotated = rotated /\ GemmaStock(d) = stock
  BY <1>3 DEF stock
<1> QED
  BY <1>5, <1>8, <1>10, <1>11, <1>12 DEF RotatesAs

\* Pixtral: the pairs are rotated where the checkpoint has them.
LEMMA PixtralRotates ==
    ASSUME NEW d \in Nat \ {0}, d % 2 = 0 PROVE RotatesAs(Pixtral(d), PixtralStock(d))
<1> DEFINE lanes == [l \in 0..d - 1 |-> l]
           cos == pixtral_rope_tables(d).cos
           sin == pixtral_rope_tables(d).sin
           perm == rope_perm_matrix("pair", d)
           rotated == rope_rotate_matmul(lanes, cos, sin, perm)
           stock == PixtralStock(d)
<1>1. Pixtral(d) = [lanes |-> lanes, rotated |-> rotated]
  BY DEF Pixtral
<1>2. /\ Pixtral(d).lanes = lanes /\ Pixtral(d).rotated = rotated
      /\ DOMAIN lanes = 0..(d - 1) /\ \A l \in 0..(d - 1) : lanes[l] = l
      /\ DOMAIN stock = 0..(d - 1)
  BY <1>1 DEF PixtralStock
<1>3. ASSUME NEW l \in 0..(d - 1) PROVE rotated[l] = stock[l]
  <2> DEFINE i == l \div 2  ax == PairAxis(i)  far == IF l % 2 = 0 THEN l + 1 ELSE l - 1
  <2>1. /\ perm[l] = far /\ far \in 0..(d - 1) /\ l \in Int /\ far \in Int
        /\ l % 2 = 0 => l = 2 * i /\ far = 2 * i + 1
        /\ l % 2 # 0 => l = 2 * i + 1 /\ far = 2 * i
    BY DEF rope_perm_matrix
  <2>2. l # Zero /\ far # Zero
    BY <2>1, ZeroAssumption
  <2>3. cos[l] = Angle(1, "cos", ax, i) /\ sin[l] = Angle(IF l % 2 = 0 THEN -1 ELSE 1, "sin", ax, i)
    BY DEF pixtral_rope_tables
  <2>4. rotated[l] = Turned(cos[l], l) \cup Turned(sin[l], far)
    <3>1. l \in DOMAIN lanes /\ lanes[l] = l /\ lanes[perm[l]] = far
      BY <2>1
    <3> HIDE DEF lanes, cos, sin, perm, far
    <3> QED
      BY <3>1, RotatedLane
  <2> HIDE DEF ax, far, cos, sin, rotated
  <2>5. Turned(cos[l], l) = {AxisTerm(1, "cos", ax, i, l)}
    BY <2>2, <2>3, TurnedBy
  <2>6. Turned(sin[l], far) = {AxisTerm(IF l % 2 = 0 THEN -1 ELSE 1, "sin", ax, i, far)}
    BY <2>2, <2>3, TurnedBy
  <2>7. stock[l] = IF l = 2 * i
                   THEN {AxisTerm(1, "cos", ax, i, 2 * i), AxisTerm(-1, "sin", ax, i, 2 * i + 1)}
                   ELSE {AxisTerm(1, "sin", ax, i, 2 * i), AxisTerm(1, "cos", ax, i, 2 * i + 1)}
    BY DEF PixtralStock, ax
  <2> HIDE DEF stock, i
  <2>8. CASE l % 2 = 0
    <3> DEFINE a == AxisTerm(1, "cos", ax, i, l)
               b == AxisTerm(-1, "sin", ax, i, far)
    <3>1. Turned(sin[l], far) = {b} /\ Turned(cos[l], l) = {a}
      BY <2>5, <2>6, <2>8
    <3>2. stock[l] = {a, b}
      BY <2>1, <2>7, <2>8
    <3> HIDE DEF a, b
    <3> QED
      BY <2>4, <3>1, <3>2, PairOf
  <2>9. CASE l % 2 # 0
    <3> DEFINE a == AxisTerm(1, "cos", ax, i, l)
               b == AxisTerm(1, "sin", ax, i, far)
    <3>1. Turned(sin[l], far) = {b} /\ Turned(cos[l], l) = {a}
      BY <2>5, <2>6, <2>9
    <3>2. stock[l] = {b, a}
      <4>1. l = 2 * i + 1 /\ far = 2 * i /\ l # 2 * i
        <5>1. i \in Int
          BY DEF i
        <5> QED
          BY <2>1, <2>9, <5>1
      <4> QED
        BY <2>7, <4>1
    <3> HIDE DEF a, b
    <3> QED
      BY <2>4, <3>1, <3>2, PairOf
  <2> QED
    BY <2>8, <2>9
<1>4. \A l \in 0..(d - 1) : lanes[l] # Zero
  BY ZeroAssumption
<1> HIDE DEF lanes, rotated, stock
<1> QED
  BY <1>2, <1>3, <1>4 DEF RotatesAs, stock

\* SigLIP: heads padded at the end, the fused columns as three times as many of them.
PaddedTo(t, w, n, d, width) ==
    \A h \in 0..(n - 1), l \in 0..(width - 1) :
        t[h * width + l] = IF l < d THEN w[h * d + l] ELSE Zero

LEMMA PaddedAtTheEnd ==
    ASSUME NEW w, NEW n \in Nat, NEW d \in Nat, NEW width \in Nat
    PROVE  PaddedTo(pad_output_end(w, n, d, width), w, n, d, width)
<1> SUFFICES ASSUME NEW h \in 0..(n - 1), NEW l \in 0..(width - 1)
             PROVE  pad_output_end(w, n, d, width)[h * width + l] = IF l < d THEN w[h * d + l] ELSE Zero
  BY DEF PaddedTo
<1>1. (h * width + l) \div width = h /\ (h * width + l) % width = l
  BY PartsOfSum
<1>2. h * width + l \in 0..(n * width - 1)
  BY SumWithin
<1> QED
  BY <1>1, <1>2 DEF pad_output_end

LEMMA SiglipHeadsMeet ==
    ASSUME NEW n \in Nat \ {0}, NEW d \in Nat \ {0} PROVE SiglipMeets(n, d)
<1> DEFINE width == RoundUp(d, Stick)
           qkv == [r \in 0..3 * n * d - 1 |->
                      [part |-> r \div (n * d), head |-> (r \div d) % n, lane |-> r % d]]
           out == [r \in 0..n * d - 1 |-> [part |-> 2, head |-> r \div d, lane |-> r % d]]
           p == pad_siglip_heads(n, d)
<1>1. width \in Nat /\ d <= width
  BY StickAssumption, RoundUpCovers
<1>2. /\ p.width = width
      /\ p.qkv = IF width = d THEN qkv ELSE pad_output_end(qkv, 3 * n, d, width)
      /\ p.out = IF width = d THEN out ELSE pad_output_end(out, n, d, width)
  BY DEF pad_siglip_heads
<1>3. ASSUME NEW h \in 0..(n - 1), NEW part \in 0..2, NEW l \in 0..(d - 1)
      PROVE  qkv[(part * n + h) * d + l] = [part |-> part, head |-> h, lane |-> l]
  <2> DEFINE r == (part * n + h) * d + l
  <2>1. part * n + h \in 0..(3 * n - 1)
    BY SumWithin
  <2>2. r \in 0..((3 * n) * d - 1) /\ r \div d = part * n + h /\ r % d = l
    <3> DEFINE j == part * n + h
    <3>1. j \in 0..(3 * n - 1) /\ j \in Nat /\ 3 * n \in Nat
      BY <2>1
    <3> HIDE DEF j
    <3>2. j * d + l \in 0..((3 * n) * d - 1)
      BY <3>1, SumWithin
    <3>3. (j * d + l) \div d = j /\ (j * d + l) % d = l
      BY <3>1, PartsOfSum
    <3> QED
      BY <3>2, <3>3 DEF j
  <2>3. (part * n + h) % n = h
    BY PartsOfSum
  <2>4. r \div (n * d) = part
    <3>1. r = part * (n * d) + (h * d + l)
      OBVIOUS
    <3>2. h * d + l \in 0..(n * d - 1) /\ n * d \in Nat \ {0}
      BY SumWithin
    <3> QED
      BY <3>1, <3>2, PartsOfSum
  <2>5. (3 * n) * d = 3 * n * d
    OBVIOUS
  <2> HIDE DEF r
  <2>6. r \in 0..3 * n * d - 1
    BY <2>2, <2>5
  <2>7. qkv[r] = [part |-> r \div (n * d), head |-> (r \div d) % n, lane |-> r % d]
    BY <2>6
  <2> HIDE DEF qkv
  <2> QED
    BY <2>2, <2>3, <2>4, <2>7 DEF r
<1>4. ASSUME NEW h \in 0..(n - 1), NEW l \in 0..(d - 1)
      PROVE  out[h * d + l] = [part |-> 2, head |-> h, lane |-> l]
  <2>1. h * d + l \in 0..n * d - 1 /\ (h * d + l) \div d = h /\ (h * d + l) % d = l
    BY SumWithin, PartsOfSum
  <2> QED
    BY <2>1
<1> HIDE DEF width, qkv, out, p
<1>5. ASSUME NEW h \in 0..(n - 1), NEW part \in 0..2, NEW l \in 0..(width - 1)
      PROVE  p.qkv[(part * n + h) * width + l] =
                 IF l < d THEN [part |-> part, head |-> h, lane |-> l] ELSE Zero
  <2>1. part * n + h \in 0..(3 * n - 1) /\ 3 * n \in Nat
    BY SumWithin
  <2>2. l < d => l \in 0..(d - 1)
    BY <1>1
  <2>3. CASE width = d
    BY <1>1, <1>2, <1>3, <2>3
  <2>4. CASE width # d
    <3>1. p.qkv[(part * n + h) * width + l] = IF l < d THEN qkv[(part * n + h) * d + l] ELSE Zero
      <4> DEFINE j == part * n + h
      <4>1. p.qkv = pad_output_end(qkv, 3 * n, d, width)
        BY <1>2, <2>4
      <4>2. j \in 0..(3 * n - 1)
        BY <2>1
      <4> HIDE DEF j
      <4>3. PaddedTo(p.qkv, qkv, 3 * n, d, width)
        BY <1>1, <2>1, <4>1, PaddedAtTheEnd
      <4> QED
        BY <4>2, <4>3 DEF j, PaddedTo
    <3> QED
      BY <1>3, <2>2, <3>1
  <2> QED
    BY <2>3, <2>4
<1>6. ASSUME NEW h \in 0..(n - 1), NEW l \in 0..(width - 1)
      PROVE  p.out[h * width + l] = IF l < d THEN [part |-> 2, head |-> h, lane |-> l] ELSE Zero
  <2>1. l < d => l \in 0..(d - 1)
    BY <1>1
  <2>2. CASE width = d
    BY <1>1, <1>2, <1>4, <2>2
  <2>3. CASE width # d
    <3>1. p.out[h * width + l] = IF l < d THEN out[h * d + l] ELSE Zero
      <4>1. p.out = pad_output_end(out, n, d, width)
        BY <1>2, <2>3
      <4>2. PaddedTo(p.out, out, n, d, width)
        BY <1>1, <4>1, PaddedAtTheEnd
      <4> QED
        BY <4>2 DEF PaddedTo
    <3> QED
      BY <1>4, <2>1, <3>1
  <2> QED
    BY <2>2, <2>3
<1>7. ASSUME NEW h \in 0..(n - 1), NEW l \in 0..(width - 1)
      PROVE  /\ p.qkv[h * width + l] = IF l < d THEN [part |-> 0, head |-> h, lane |-> l] ELSE Zero
             /\ p.qkv[(n + h) * width + l] = IF l < d THEN [part |-> 1, head |-> h, lane |-> l] ELSE Zero
             /\ p.qkv[(2 * n + h) * width + l] = IF l < d THEN [part |-> 2, head |-> h, lane |-> l] ELSE Zero
  <2>1. 0 * n + h = h /\ 1 * n + h = n + h
    OBVIOUS
  <2> QED
    BY <1>5, <2>1
<1> SUFFICES ASSUME NEW h \in 0..(n - 1), NEW l \in 0..(width - 1)
             PROVE  LET q == p.qkv[h * p.width + l]
                        k == p.qkv[(n + h) * p.width + l]
                        v == p.qkv[(2 * n + h) * p.width + l]
                        o == p.out[h * p.width + l] IN
                    IF l < d
                    THEN /\ q = [part |-> 0, head |-> h, lane |-> l]
                         /\ k = [q EXCEPT !.part = 1] /\ v = [q EXCEPT !.part = 2] /\ o = v
                    ELSE q = Zero /\ k = Zero /\ v = Zero /\ o = Zero
  BY <1>2 DEF SiglipMeets, p
<1> DEFINE row(part) == [part |-> part, head |-> h, lane |-> l]
<1>8. [row(0) EXCEPT !.part = 1] = row(1) /\ [row(0) EXCEPT !.part = 2] = row(2)
  OBVIOUS
<1>9. CASE l < d
  <2>1. /\ p.qkv[h * p.width + l] = row(0) /\ p.qkv[(n + h) * p.width + l] = row(1)
        /\ p.qkv[(2 * n + h) * p.width + l] = row(2) /\ p.out[h * p.width + l] = row(2)
    BY <1>2, <1>6, <1>7, <1>9
  <2> QED
    BY <1>8, <1>9, <2>1
<1>10. CASE ~(l < d)
  BY <1>2, <1>6, <1>7, <1>10
<1> QED
  BY <1>9, <1>10

\* Whatever the width of a tower's heads, the sticks and the number of heads: each lane of the
\* checkpoint is rotated as the stock model would, and what pads a head stays zero.
THEOREM TowersAttendAsStock == VisionSpec => []TowerAttendsAsStock
<1>1. ASSUME engine \in Engines PROVE TowerAttendsAsStock
  <2>1. CASE engine.kind = "tiles"
    BY <1>1, <2>1, EnginesAssumption, SiglipHeadsMeet DEF TowerAttendsAsStock
  <2>2. CASE engine.kind # "tiles" /\ engine.packs
    BY <1>1, <2>2, EnginesAssumption, GemmaRotates DEF TowerAttendsAsStock
  <2>3. CASE engine.kind # "tiles" /\ ~engine.packs
    BY <1>1, <2>3, EnginesAssumption, PixtralRotates DEF TowerAttendsAsStock
  <2> QED
    BY <2>1, <2>2, <2>3
<1>2. VisionInv => engine \in Engines
  BY DEF VisionInv, LimitInv
<1> QED
  BY <1>1, <1>2, VisionStart, VisionStep, PTL DEF VisionSpec

(***************************************************************************)
(* What an image's tokens are made of.                                     *)
(***************************************************************************)
Precede(S, R) ==
    /\ \A x \in S : <<x, x>> \notin R
    /\ \A x, y \in S : x = y \/ <<x, y>> \in R \/ <<y, x>> \in R
    /\ \A x, y, z \in S : <<x, y>> \in R /\ <<y, z>> \in R => <<x, z>> \in R

\* A finite set has its elements in order: each one's place is the number of those before it,
\* and places are as many as elements.
LEMMA OrderExists ==
    ASSUME NEW S, IsFiniteSet(S), NEW R, Precede(S, R)
    PROVE  \E f \in SetToSeqs(S) : \A i, j \in DOMAIN f : i < j => <<f[i], f[j]>> \in R
<1> DEFINE n == Cardinality(S)
           First(x) == {y \in S : <<y, x>> \in R}
           rank == [x \in S |-> Cardinality(First(x)) + 1]
<1>1. n \in Nat
  BY FS_CardinalityType
<1>2. ASSUME NEW x \in S
      PROVE  IsFiniteSet(First(x)) /\ Cardinality(First(x)) \in Nat /\ rank[x] \in 1..n
  <2>1. First(x) \in SUBSET (S \ {x})
    BY DEF Precede
  <2>2. IsFiniteSet(S \ {x}) /\ Cardinality(S \ {x}) = n - 1
    BY FS_RemoveElement
  <2> HIDE DEF First
  <2>3. IsFiniteSet(First(x)) /\ Cardinality(First(x)) <= n - 1
    BY <2>1, <2>2, FS_Subset
  <2>4. Cardinality(First(x)) \in Nat
    BY <2>3, FS_CardinalityType
  <2> QED
    BY <1>1, <2>3, <2>4
<1>3. ASSUME NEW x \in S, NEW y \in S, <<y, x>> \in R PROVE rank[y] < rank[x]
  <2>1. First(y) \in SUBSET First(x) /\ y \in First(x) /\ y \notin First(y)
    BY <1>3 DEF Precede
  <2> HIDE DEF First
  <2>2. Cardinality(First(y)) <= Cardinality(First(x)) /\ Cardinality(First(x)) # Cardinality(First(y))
    BY <1>2, <2>1, FS_Subset
  <2> QED
    BY <1>2, <2>2
<1>4. \A x, y \in S : x # y => rank[x] # rank[y]
  <2> SUFFICES ASSUME NEW x \in S, NEW y \in S, x # y PROVE rank[x] # rank[y]
    OBVIOUS
  <2>1. rank[x] \in Nat /\ rank[y] \in Nat
    BY <1>1, <1>2
  <2>2. rank[x] < rank[y] \/ rank[y] < rank[x]
    <3> HIDE DEF rank
    <3> QED
      BY <1>3 DEF Precede
  <2> HIDE DEF rank
  <2> QED
    BY <2>1, <2>2
<1>5. rank \in [S -> 1..n]
  BY <1>2
<1> HIDE DEF rank, First
<1>6. rank \in Injection(S, 1..n)
  BY <1>4, <1>5 DEF Injection, IsInjective
<1>7. IsFiniteSet(1..n) /\ Cardinality(1..n) = n
  <2>1. 1 \in Int /\ n \in Int
    BY <1>1
  <2>2. IsFiniteSet(1..n) /\ Cardinality(1..n) = IF 1 > n THEN 0 ELSE n - 1 + 1
    BY <2>1, FS_Interval, Zenon
  <2> QED
    BY <1>1, <2>2
<1>8. \A i \in 1..n : \E x \in S : rank[x] = i
  <2>1. rank \in Surjection(S, 1..n)
    <3>1. Cardinality(S) = Cardinality(1..n)
      BY <1>7
    <3> HIDE DEF n
    <3> QED
      BY <1>6, <1>7, <3>1, FS_Injection
  <2> QED
    BY <2>1 DEF Surjection
<1> DEFINE f == [i \in 1..n |-> CHOOSE x \in S : rank[x] = i]
<1>9. \A i \in 1..n : f[i] \in S /\ rank[f[i]] = i
  <2> SUFFICES ASSUME NEW i \in 1..n PROVE f[i] \in S /\ rank[f[i]] = i
    OBVIOUS
  <2>1. f[i] = CHOOSE x \in S : rank[x] = i
    OBVIOUS
  <2>2. \E x \in S : rank[x] = i
    BY <1>8
  <2> HIDE DEF f
  <2> QED
    BY <2>1, <2>2, Zenon
<1>10. f \in [1..n -> S]
  BY <1>9
<1> HIDE DEF f
<1>11. \A i, j \in 1..n : i # j => f[i] # f[j]
  BY <1>9
<1>12. f \in SetToSeqs(S)
  BY <1>10, <1>11 DEF SetToSeqs, n
<1>13. \A i, j \in 1..n : i < j => <<f[i], f[j]>> \in R
  <2> SUFFICES ASSUME NEW i \in 1..n, NEW j \in 1..n, i < j PROVE <<f[i], f[j]>> \in R
    OBVIOUS
  <2>1. f[i] \in S /\ f[j] \in S /\ rank[f[i]] = i /\ rank[f[j]] = j
    BY <1>9
  <2>2. f[i] # f[j] /\ ~(j < i)
    BY <2>1
  <2>3. <<f[j], f[i]>> \notin R
    BY <1>3, <2>1, <2>2
  <2> QED
    BY <2>1, <2>2, <2>3 DEF Precede
<1> QED
  BY <1>10, <1>12, <1>13

\* What one call of the encoder takes: images told apart by name, in a grid's call as many as
\* there are segments beside the padding's.
Call(e, group) ==
    /\ group \in Seq(Item) /\ \A i, j \in DOMAIN group : group[i].id = group[j].id => i = j
    /\ e.kind = "grid" => Len(group) <= SegmentItems

LEMMA CallSizes ==
    ASSUME NEW e \in Engines, NEW group, Call(e, group)
    PROVE  /\ Len(group) \in Nat /\ DOMAIN group = 1..Len(group) /\ Sized(e, group)
           /\ \A n \in 1..Len(group) : group[n] \in Item
<1>1. group \in Seq(Item)
  BY DEF Call
<1>2. \A n \in 1..Len(group) : group[n] \in Item
  BY <1>1
<1>3. ASSUME NEW n \in 1..Len(group) PROVE Tokens(e, group[n]) \in Nat
  <2>1. group[n].h \in Nat \ {0} /\ group[n].w \in Nat \ {0}
    BY <1>2 DEF Item
  <2> QED
    BY <2>1, TokensWithinPlaceholders
<1> QED
  BY <1>1, <1>2, <1>3 DEF Sized

LEMMA StartsGrow ==
    ASSUME NEW e, NEW group, Len(group) \in Nat, Sized(e, group), NEW s, RunsOn(e, group, s),
           NEW i \in 1..Len(group) + 1, NEW j \in 1..Len(group) + 1, i <= j
    PROVE  s[i] <= s[j]
<1> DEFINE k == Len(group)  Bad == {b \in i..k + 1 : ~(s[i] <= s[b])}
<1> SUFFICES ASSUME Bad # {} PROVE FALSE
  OBVIOUS
<1>1. PICK b \in Bad : \A c \in Bad : b <= c
  <2>1. Bad \in SUBSET Nat
    OBVIOUS
  <2> HIDE DEF Bad
  <2> QED
    BY <2>1, LeastExists
<1>2. \A n \in 1..k + 1 : s[n] \in Nat
  BY DEF RunsOn
<1>3. b # i /\ b \in i..k + 1 /\ b - 1 \in i..k + 1 /\ b - 1 \in 1..k /\ ~(b <= b - 1)
  BY <1>1, <1>2
<1>4. s[i] <= s[b - 1]
  BY <1>1, <1>3
<1>5. s[b - 1 + 1] = s[b - 1] + Tokens(e, group[b - 1]) /\ Tokens(e, group[b - 1]) \in Nat
  BY <1>3 DEF RunsOn, Sized
<1>6. b - 1 + 1 = b
  BY <1>3
<1>7. s[b] = s[b - 1] + Tokens(e, group[b - 1])
  BY <1>5, <1>6
<1>8. s[i] \in Nat /\ s[b - 1] \in Nat /\ ~(s[i] <= s[b])
  <2>1. b - 1 \in 1..k + 1 /\ i \in 1..k + 1
    BY <1>3
  <2> QED
    BY <1>1, <1>2, <2>1
<1> HIDE DEF Bad, k
<1> QED
  BY <1>4, <1>5, <1>7, <1>8

\* Token t of a call's output is image n's.
Spans(s, n, t) == s[n] <= t /\ t < s[n + 1]

LEMMA ItemAtIs ==
    ASSUME NEW e, NEW group, Len(group) \in Nat, Sized(e, group), NEW s, RunsOn(e, group, s),
           NEW n \in 1..Len(group), NEW t \in Nat, Spans(s, n, t)
    PROVE  ItemAt(s, t) = n
<1> DEFINE k == Len(group)
<1>1. Len(s) - 1 = k /\ \A j \in 1..k + 1 : s[j] \in Nat
  BY DEF RunsOn
<1>2. ASSUME NEW j \in 1..k, Spans(s, j, t) PROVE j = n
  <2>1. ~(j + 1 <= n)
    <3> SUFFICES ASSUME j + 1 <= n PROVE FALSE
      OBVIOUS
    <3>1. s[j + 1] <= s[n]
      <4>1. j + 1 \in 1..k + 1 /\ n \in 1..k + 1
        OBVIOUS
      <4> QED
        BY <4>1, StartsGrow
    <3> QED
      BY <1>1, <1>2, <3>1 DEF Spans
  <2>2. ~(n + 1 <= j)
    <3> SUFFICES ASSUME n + 1 <= j PROVE FALSE
      OBVIOUS
    <3>1. s[n + 1] <= s[j]
      <4>1. n + 1 \in 1..k + 1 /\ j \in 1..k + 1
        OBVIOUS
      <4> QED
        BY <4>1, StartsGrow
    <3> QED
      BY <1>1, <1>2, <3>1 DEF Spans
  <2> QED
    BY <2>1, <2>2
<1>3. ItemAt(s, t) = CHOOSE j \in 1..k : Spans(s, j, t)
  BY <1>1 DEF ItemAt, Spans
<1>4. \E j \in 1..k : Spans(s, j, t)
  OBVIOUS
<1> HIDE DEF k
<1>5. ItemAt(s, t) \in 1..k /\ Spans(s, ItemAt(s, t), t)
  BY <1>3, <1>4, Zenon
<1> QED
  BY <1>2, <1>5

LEMMA EachIsHeld ==
    ASSUME NEW e, NEW group, Len(group) \in Nat, Sized(e, group), NEW s, RunsOn(e, group, s),
           NEW t \in Nat, t < s[Len(group) + 1]
    PROVE  \E n \in 1..Len(group) : Spans(s, n, t)
<1> DEFINE k == Len(group)  Past == {n \in 1..k : t < s[n + 1]}
<1>1. \A j \in 1..k + 1 : s[j] \in Nat
  BY DEF RunsOn
<1>2. s[1] = 0
  BY DEF RunsOn
<1>3. k \in Past
  <2>1. k # 0
    BY <1>2
  <2> QED
    BY <2>1
<1>4. PICK n \in Past : \A c \in Past : n <= c
  <2>1. Past \in SUBSET Nat /\ Past # {}
    BY <1>3
  <2> HIDE DEF Past
  <2> QED
    BY <2>1, LeastExists
<1>5. s[n] <= t
  <2>1. CASE n = 1
    BY <1>2, <2>1
  <2>2. CASE n # 1
    <3>1. n - 1 \in 1..k /\ ~(n <= n - 1) /\ n - 1 + 1 = n
      BY <2>2
    <3>2. ~(t < s[n - 1 + 1])
      BY <1>4, <3>1
    <3> QED
      BY <1>1, <3>1, <3>2
  <2> QED
    BY <2>1, <2>2
<1> QED
  BY <1>5 DEF Spans

\* An image's tokens are as many as it has, within the call's.
LEMMA HeldWithin ==
    ASSUME NEW e, NEW group, Len(group) \in Nat, Sized(e, group), NEW s, RunsOn(e, group, s),
           NEW n \in 1..Len(group), NEW t \in 0..(Tokens(e, group[n]) - 1)
    PROVE  s[n] \in Nat /\ s[n] + t \in Nat /\ Spans(s, n, s[n] + t) /\ s[n] + t < s[Len(group) + 1]
<1> DEFINE k == Len(group)
<1>1. /\ s[n] \in Nat /\ s[n + 1] \in Nat /\ s[k + 1] \in Nat /\ s[n + 1] = s[n] + Tokens(e, group[n])
  BY DEF RunsOn
<1>2. s[n + 1] <= s[k + 1]
  <2>1. n + 1 \in 1..k + 1 /\ k + 1 \in 1..k + 1 /\ n + 1 <= k + 1
    OBVIOUS
  <2> QED
    BY <2>1, StartsGrow
<1>3. Tokens(e, group[n]) \in Nat
  BY DEF Sized
<1> QED
  BY <1>1, <1>2, <1>3 DEF Spans

\* A function of the first numbers is a sequence, and nothing appended leaves it.
LEMMA AsSequence ==
    ASSUME NEW n \in Nat, NEW f, DOMAIN f = 1..n, f = [i \in 1..n |-> f[i]]
    PROVE  f \o <<>> = f /\ Len(f) = n
<1> DEFINE V == {f[i] : i \in 1..n}
<1>1. f \in [1..n -> V]
  OBVIOUS
<1> HIDE DEF V
<1>2. f \in Seq(V)
  BY <1>1
<1>3. f \o <<>> = f
  BY <1>2, ConcatEmptySeq
<1>4. Len(f) = n
  BY <1>1
<1> QED
  BY <1>3, <1>4

\* Groups of size entries in a buffer of wider ones: each at its group's head.
InGroups(dst, src, groups, size, width) ==
    /\ DOMAIN dst = 1..width * groups /\ Len(dst) = width * groups
    /\ \A g \in 0..(groups - 1), t \in 0..(width - 1) :
          dst[g * width + t + 1] = IF t < size THEN src[g * size + t + 1] ELSE Pad

PadAt(f, src, size, width, p, q) ==
    f[p] = IF q % width < size THEN src[(q \div width) * size + (q % width) + 1] ELSE Pad

LEMMA PadsGroups ==
    ASSUME NEW groups \in Nat \ {0}, NEW size \in Nat, NEW width \in Nat \ {0},
           NEW dst, DOMAIN dst = 1..width * groups, Len(dst) = width * groups, NEW src, Len(src) = size * groups
    PROVE  InGroups(_pad_groups(dst, src, groups), src, groups, size, width)
<1> DEFINE n == width * groups
           f == [p \in DOMAIN dst |->
                    IF (p - 1) % width < size THEN src[((p - 1) \div width) * size + ((p - 1) % width) + 1]
                    ELSE Pad]
<1>1. n \in Nat
  OBVIOUS
<1>2. Len(src) \div groups = size /\ Len(dst) \div groups = width
  <2>1. \A a \in Nat : (a * groups + 0) \div groups = a
    <3>1. 0 \in 0..(groups - 1)
      OBVIOUS
    <3> QED
      BY <3>1, PartsOfSum
  <2>2. \A a \in Nat : a * groups \in Nat /\ a * groups + 0 = a * groups
    OBVIOUS
  <2>3. \A a \in Nat : (a * groups) \div groups = a
    BY <2>1, <2>2
  <2> QED
    BY <2>3
<1>3. _pad_groups(dst, src, groups) = f \o <<>>
  BY <1>2 DEF _pad_groups, Padded
<1>4. DOMAIN f = 1..n /\ f = [i \in 1..n |-> f[i]]
  OBVIOUS
<1>9. \A p \in DOMAIN dst, q \in Nat : p - 1 = q => PadAt(f, src, size, width, p, q)
  <2> SUFFICES ASSUME NEW p \in DOMAIN dst, NEW q \in Nat, p - 1 = q PROVE PadAt(f, src, size, width, p, q)
    OBVIOUS
  <2>1. f[p] = IF (p - 1) % width < size THEN src[((p - 1) \div width) * size + ((p - 1) % width) + 1]
               ELSE Pad
    OBVIOUS
  <2> HIDE DEF f
  <2> QED
    BY <2>1, Zenon DEF PadAt
<1>5. ASSUME NEW g \in 0..(groups - 1), NEW t \in 0..(width - 1)
      PROVE  f[g * width + t + 1] = IF t < size THEN src[g * size + t + 1] ELSE Pad
  <2> DEFINE a == g * width + t
  <2>1. a \in 0..(groups * width - 1)
    BY SumWithin
  <2>2. groups * width = n
    OBVIOUS
  <2>3. a \div width = g /\ a % width = t
    <3>1. g \in Nat
      OBVIOUS
    <3> QED
      BY <3>1, PartsOfSum
  <2> HIDE DEF a, n, f
  <2>4. a + 1 \in 1..n /\ a + 1 - 1 = a
    BY <1>1, <2>1, <2>2
  <2>5. PadAt(f, src, size, width, a + 1, a)
    <3>1. a + 1 \in DOMAIN dst /\ a \in Nat
      BY <2>1, <2>4 DEF n
    <3> DEFINE x == a + 1
    <3>2. x \in DOMAIN dst /\ a \in Nat /\ x - 1 = a
      BY <2>4, <3>1
    <3> HIDE DEF x
    <3>3. PadAt(f, src, size, width, x, a)
      BY <1>9, <3>2
    <3> QED
      BY <3>3 DEF x
  <2>6. f[a + 1] = IF t < size THEN src[g * size + t + 1] ELSE Pad
    BY <2>3, <2>5 DEF PadAt
  <2> QED
    BY <2>6 DEF a
<1> HIDE DEF f
<1>6. f \o <<>> = f /\ Len(f) = n
  BY <1>1, <1>4, AsSequence
<1> DEFINE b == _pad_groups(dst, src, groups)
<1>7. b = f /\ DOMAIN f = 1..n /\ Len(f) = n
  BY <1>3, <1>4, <1>6
<1> HIDE DEF b
<1>8. InGroups(b, src, groups, size, width)
  BY <1>5, <1>7 DEF InGroups
<1> QED
  BY <1>8 DEF b

\* Where image n's token t is in a call's group g, in groups as wide as width.
SpotOf(s, width, g, n, t) == g * width + (s[n] + t) + 1

\* A grid call's patches, group by group, and padding behind each.
GridLaid(e, group, src, width) ==
    \A g \in 0..(PatchesPerToken(e) - 1), n \in 1..Len(group) :
        \A t \in 0..(Tokens(e, group[n]) - 1) :
            src[SpotOf(Starts(e, group), width, g, n, t)] = Entry(offset_major(group[n], e.merge, g, t), n - 1)

LEMMA MergeIs ==
    ASSUME NEW e \in Engines
    PROVE  e.merge \in Nat \ {0} /\ PatchesPerToken(e) \in Nat \ {0} /\ PatchesPerToken(e) = e.merge * e.merge
<1>1. e.merge \in Nat \ {0}
  BY EnginesAssumption
<1>2. e.merge * e.merge \in Nat \ {0}
  BY <1>1
<1> QED
  BY <1>1, <1>2 DEF PatchesPerToken

\* How many tokens a call has.
LengthOf(e, group) == Starts(e, group)[Len(group) + 1]

LEMMA LengthIs ==
    ASSUME NEW e \in Engines, NEW group, Call(e, group)
    PROVE  LET s == Starts(e, group) IN LengthOf(e, group) \in Nat /\ s[Len(s)] = LengthOf(e, group)
<1> DEFINE s == Starts(e, group)
<1>1. Len(group) \in Nat /\ RunsOn(e, group, s)
  BY CallSizes, StartsOf
<1> HIDE DEF s
<1>2. Len(s) = Len(group) + 1 /\ s[Len(group) + 1] \in Nat
  BY <1>1 DEF RunsOn
<1> QED
  BY <1>2 DEF LengthOf, s

LEMMA GridInputsAre ==
    ASSUME NEW e \in Engines, e.kind = "grid", NEW group, Call(e, group)
    PROVE  /\ Len(vision_inputs(e, group)) = LengthOf(e, group) * PatchesPerToken(e)
           /\ GridLaid(e, group, vision_inputs(e, group), LengthOf(e, group))
<1> DEFINE s == Starts(e, group)  total == LengthOf(e, group)  K == PatchesPerToken(e)  N == total * K
           k == e.merge
           OfPlace(p) ==
              LET t == (p - 1) % total  n == ItemAt(s, t) IN
              Entry(offset_major(group[n], k, (p - 1) \div total, t - s[n]), n - 1)
           f == [p \in 1..N |-> OfPlace(p)]
<1>1. /\ Len(group) \in Nat /\ Sized(e, group) /\ RunsOn(e, group, s)
      /\ \A n \in 1..Len(group) : group[n] \in Item
  BY CallSizes, StartsOf
<1>2. total \in Nat /\ s[Len(s)] = total /\ K \in Nat \ {0} /\ N \in Nat
  <2>1. total \in Nat /\ s[Len(s)] = total /\ K \in Nat \ {0}
    BY LengthIs, MergeIs
  <2> HIDE DEF total, K
  <2> QED
    BY <2>1
<1>3. GridInputs(e, group) = f
  <2>1. s[Len(s)] = total
    BY <1>2
  <2> HIDE DEF total
  <2> QED
    BY <2>1, Zenon DEF GridInputs
<1>4. vision_inputs(e, group) = f \o <<>>
  BY <1>3 DEF vision_inputs
<1>5. DOMAIN f = 1..N /\ f = [p \in 1..N |-> f[p]]
  OBVIOUS
<1>6. f \o <<>> = f /\ Len(f) = N
  <2> HIDE DEF f, N
  <2> QED
    BY <1>2, <1>5, AsSequence
<1>7. ASSUME NEW g \in 0..(K - 1), NEW n \in 1..Len(group), NEW t \in 0..(Tokens(e, group[n]) - 1)
      PROVE  f[SpotOf(s, total, g, n, t)] = Entry(offset_major(group[n], k, g, t), n - 1)
  <2> DEFINE u == s[n] + t  p == SpotOf(s, total, g, n, t)
  <2>1. s[n] \in Nat /\ u \in Nat /\ Spans(s, n, u) /\ u < total
    <3> HIDE DEF s
    <3>1. s[n] \in Nat /\ s[n] + t \in Nat /\ Spans(s, n, s[n] + t) /\ s[n] + t < s[Len(group) + 1]
      BY <1>1, HeldWithin
    <3>2. total = s[Len(group) + 1]
      BY DEF s, LengthOf
    <3> HIDE DEF total
    <3> QED
      BY <3>1, <3>2
  <2>2. ItemAt(s, u) = n
    <3> HIDE DEF s, u
    <3> QED
      BY <1>1, <2>1, ItemAtIs
  <2>3. g \in Nat /\ p - 1 = g * total + u /\ p \in 1..N
    <3> HIDE DEF total, K, u
    <3>1. g \in Nat /\ g * total + u \in 0..(K * total - 1)
      BY <1>2, <2>1, SumWithin
    <3>2. N = K * total
      BY <1>2
    <3>3. p = g * total + u + 1
      BY DEF SpotOf, u
    <3> HIDE DEF N, p
    <3> DEFINE a == g * total + u
    <3>4. a \in 0..(N - 1) /\ p = a + 1
      BY <3>1, <3>2, <3>3
    <3> HIDE DEF a
    <3> QED
      BY <1>2, <3>1, <3>4 DEF a
  <2>4. (p - 1) \div total = g /\ (p - 1) % total = u
    <3> HIDE DEF total, u, p
    <3>1. total \in Nat \ {0} /\ u \in 0..(total - 1)
      BY <1>2, <2>1
    <3> QED
      BY <2>3, <3>1, PartsOfSum
  <2>5. u - s[n] = t
    BY <2>1
  <2>6. f[p] = OfPlace(p)
    BY <2>3
  <2>7. OfPlace(p) = Entry(offset_major(group[n], k, g, t), n - 1)
    <3> HIDE DEF p, u, s, total, k
    <3> QED
      BY <2>2, <2>4, <2>5, Zenon
  <2> QED
    BY <2>6, <2>7
<1> HIDE DEF f, N
<1>8. vision_inputs(e, group) = f /\ Len(f) = N
  BY <1>4, <1>6
<1>9. GridLaid(e, group, f, total)
  <2> HIDE DEF total, K
  <2> QED
    BY <1>7 DEF GridLaid, K
<1> QED
  BY <1>8, <1>9 DEF N

\* A buffer with a grid call's patches at its groups' heads, and padding elsewhere.
GridBuffer(e, group, b, width) ==
    /\ width \in Nat /\ LengthOf(e, group) <= width
    /\ DOMAIN b = 1..width * PatchesPerToken(e) /\ Len(b) = width * PatchesPerToken(e)
    /\ GridLaid(e, group, b, width)
    /\ \A g \in 0..(PatchesPerToken(e) - 1), u \in LengthOf(e, group)..(width - 1) : b[g * width + u + 1] = Pad

\* A buffer that has room for a call.
RoomFor(e, group, dst, width) ==
    /\ width \in Nat \ {0} /\ LengthOf(e, group) <= width
    /\ DOMAIN dst = 1..width * PatchesPerToken(e) /\ Len(dst) = width * PatchesPerToken(e)

LEMMA GridBufferIs ==
    ASSUME NEW e \in Engines, e.kind = "grid", NEW group, Call(e, group), NEW dst, NEW width, RoomFor(e, group, dst, width)
    PROVE  GridBuffer(e, group, _pad_groups(dst, vision_inputs(e, group), PadGroupCount(e)), width)
<1> DEFINE K == PatchesPerToken(e)  total == LengthOf(e, group)  src == vision_inputs(e, group)
           b == _pad_groups(dst, src, K)  s == Starts(e, group)
<1>1. K \in Nat \ {0} /\ total \in Nat /\ width \in Nat \ {0} /\ total <= width
  BY MergeIs, LengthIs DEF RoomFor
<1>2. Len(src) = total * K /\ GridLaid(e, group, src, total)
  BY GridInputsAre
<1>3. InGroups(b, src, K, total, width)
  <2>1. DOMAIN dst = 1..width * K /\ Len(dst) = width * K
    BY DEF RoomFor
  <2> HIDE DEF K, src, total
  <2> QED
    BY <1>1, <1>2, <2>1, PadsGroups
<1>4. PadGroupCount(e) = K
  BY DEF PadGroupCount
<1> HIDE DEF b
<1>5. ASSUME NEW g \in 0..(K - 1), NEW u \in 0..(width - 1)
      PROVE  b[g * width + u + 1] = IF u < total THEN src[g * total + u + 1] ELSE Pad
  BY <1>3, <1>5 DEF InGroups
<1>6. ASSUME NEW g \in 0..(K - 1), NEW n \in 1..Len(group), NEW t \in 0..(Tokens(e, group[n]) - 1)
      PROVE  b[SpotOf(s, width, g, n, t)] = Entry(offset_major(group[n], e.merge, g, t), n - 1)
  <2> DEFINE u == s[n] + t
  <2>1. u \in Nat /\ u < total
    <3>1. Len(group) \in Nat /\ Sized(e, group) /\ RunsOn(e, group, s)
      BY CallSizes, StartsOf
    <3> HIDE DEF s
    <3>2. s[n] + t \in Nat /\ s[n] + t < s[Len(group) + 1]
      BY <3>1, HeldWithin
    <3> QED
      BY <3>2 DEF s, LengthOf
  <2>2. b[g * width + u + 1] = src[g * total + u + 1]
    <3> HIDE DEF u, total, K
    <3>1. u \in 0..(width - 1)
      BY <1>1, <2>1
    <3> QED
      BY <1>5, <2>1, <3>1
  <2>3. src[SpotOf(s, total, g, n, t)] = Entry(offset_major(group[n], e.merge, g, t), n - 1)
    <3> HIDE DEF src, total
    <3> QED
      BY <1>2 DEF GridLaid, s, K
  <2> HIDE DEF total, src, s
  <2> QED
    BY <2>2, <2>3 DEF SpotOf
<1>7. GridLaid(e, group, b, width)
  <2> HIDE DEF K
  <2> QED
    BY <1>6 DEF GridLaid, s, K
<1>8. ASSUME NEW g \in 0..(K - 1), NEW u \in total..(width - 1) PROVE b[g * width + u + 1] = Pad
  <2> HIDE DEF total, K, src
  <2>1. u \in 0..(width - 1) /\ ~(u < total)
    BY <1>1
  <2> QED
    BY <1>5, <2>1
<1>9. GridBuffer(e, group, b, width)
  <2>1. DOMAIN b = 1..width * K /\ Len(b) = width * K
    BY <1>3 DEF InGroups
  <2> HIDE DEF total, K, src
  <2> QED
    BY <1>1, <1>7, <1>8, <2>1 DEF GridBuffer, total, K
<1> QED
  BY <1>4, <1>9 DEF b

\* Every entry of such a buffer is an image's or padding, and segments tell which.
LEMMA GridSegments ==
    ASSUME NEW e \in Engines, e.kind = "grid", NEW group, Call(e, group), NEW b, NEW width, GridBuffer(e, group, b, width),
           NEW n \in 1..Len(group)
    PROVE  {p \in DOMAIN b : b[p].segment = n - 1}
               = {SpotOf(Starts(e, group), width, x[1], n, x[2]) :
                     x \in (0..(PatchesPerToken(e) - 1)) \X (0..(Tokens(e, group[n]) - 1))}
<1> DEFINE K == PatchesPerToken(e)  total == LengthOf(e, group)  s == Starts(e, group)  m0 == Tokens(e, group[n])
           X == {p \in DOMAIN b : b[p].segment = n - 1}
           Y == {SpotOf(s, width, x[1], n, x[2]) : x \in (0..(K - 1)) \X (0..(m0 - 1))}
<1>1. /\ K \in Nat \ {0} /\ total \in Nat /\ width \in Nat /\ total <= width
      /\ DOMAIN b = 1..width * K
  BY MergeIs, LengthIs DEF GridBuffer
<1>2. /\ Len(group) \in Nat /\ Sized(e, group) /\ RunsOn(e, group, s) /\ Len(group) <= SegmentItems
      /\ \A j \in 1..Len(group) : s[j] \in Nat /\ Tokens(e, group[j]) \in Nat /\ s[j + 1] = s[j] + Tokens(e, group[j])
  <2>1. Len(group) \in Nat /\ Sized(e, group) /\ RunsOn(e, group, s)
    BY CallSizes, StartsOf
  <2> HIDE DEF s
  <2> QED
    BY <2>1 DEF Call, RunsOn, Sized
<1>3. SegmentItems = Stick - 1 /\ Stick \in Nat
  BY StickAssumption DEF SegmentItems
<1>4. ASSUME NEW g \in 0..(K - 1), NEW j \in 1..Len(group), NEW t \in 0..(Tokens(e, group[j]) - 1)
      PROVE  b[SpotOf(s, width, g, j, t)].segment = j - 1
  <2>1. b[SpotOf(s, width, g, j, t)] = Entry(offset_major(group[j], e.merge, g, t), j - 1)
    BY <1>4 DEF GridBuffer, GridLaid
  <2> QED
    BY <2>1 DEF Entry
<1>5. ASSUME NEW g \in 0..(K - 1), NEW j \in 1..Len(group), NEW t \in 0..(Tokens(e, group[j]) - 1)
      PROVE  SpotOf(s, width, g, j, t) \in DOMAIN b
  <2> DEFINE u == s[j] + t
  <2>1. u \in Nat /\ u < total
    <3> HIDE DEF s
    <3>1. s[j] + t \in Nat /\ s[j] + t < s[Len(group) + 1]
      BY <1>2, HeldWithin
    <3> QED
      BY <3>1 DEF s, LengthOf
  <2> HIDE DEF u, total, K
  <2>2. u \in 0..(width - 1)
    BY <1>1, <2>1
  <2>3. g * width + u \in 0..(K * width - 1)
    BY <1>1, <2>2, SumWithin
  <2> DEFINE a == g * width + u
  <2>4. K * width = width * K /\ width * K \in Nat /\ a \in 0..(K * width - 1)
    BY <1>1, <2>3
  <2> HIDE DEF a
  <2>5. a + 1 \in 1..width * K
    BY <2>4
  <2> QED
    BY <1>1, <2>5 DEF SpotOf, a, u
<1>6. Y \subseteq X
  <2> SUFFICES ASSUME NEW x \in (0..(K - 1)) \X (0..(m0 - 1)) PROVE SpotOf(s, width, x[1], n, x[2]) \in X
    OBVIOUS
  <2>1. x[1] \in 0..(K - 1) /\ x[2] \in 0..(m0 - 1)
    OBVIOUS
  <2> HIDE DEF K, s
  <2> QED
    BY <1>4, <1>5, <2>1
<1>7. X \subseteq Y
  <2> SUFFICES ASSUME NEW p \in DOMAIN b, b[p].segment = n - 1 PROVE p \in Y
    OBVIOUS
  <2> DEFINE q == p - 1  g == q \div width  u == q % width
  <2> HIDE DEF K, total, s
  <2>1. width \in Nat \ {0} /\ q \in Nat /\ q < K * width /\ p = q + 1 /\ K * width \in Nat
    <3>1. width * K \in Nat /\ width * K = K * width /\ p \in 1..width * K
      BY <1>1
    <3>2. width # 0
      BY <1>1, <3>1
    <3> QED
      BY <1>1, <3>1, <3>2
  <2> HIDE DEF q
  <2>2. g \in 0..(K - 1) /\ u \in 0..(width - 1) /\ q = g * width + u
    BY <1>1, <2>1, Parts, QuotientBelow
  <2> HIDE DEF g, u
  <2>3. CASE u < total
    <3>1. u \in Nat /\ u < s[Len(group) + 1]
      BY <2>2, <2>3 DEF total, LengthOf, s
    <3>2. PICK j \in 1..Len(group) : Spans(s, j, u)
      BY <1>2, <3>1, EachIsHeld
    <3> DEFINE t == u - s[j]
    <3>3. t \in 0..(Tokens(e, group[j]) - 1) /\ u = s[j] + t
      <4>1. s[j] \in Nat /\ Tokens(e, group[j]) \in Nat /\ s[j + 1] = s[j] + Tokens(e, group[j])
        BY <1>2
      <4>2. s[j] <= u /\ u < s[j + 1]
        BY <3>2 DEF Spans
      <4> QED
        BY <3>1, <4>1, <4>2
    <3> HIDE DEF t
    <3>4. p = SpotOf(s, width, g, j, t)
      BY <2>1, <2>2, <3>3 DEF SpotOf
    <3>5. b[p].segment = j - 1
      BY <1>4, <2>2, <3>3, <3>4
    <3>6. j = n
      BY <3>5
    <3>7. <<g, t>> \in (0..(K - 1)) \X (0..(m0 - 1))
      BY <2>2, <3>3, <3>6
    <3> QED
      BY <3>4, <3>6, <3>7
  <2>4. CASE ~(u < total)
    <3>1. u \in total..(width - 1)
      BY <1>1, <2>2, <2>4
    <3>2. b[g * width + u + 1] = Pad
      BY <2>2, <3>1 DEF GridBuffer, K, total
    <3>3. b[p].segment = Stick - 1
      BY <2>1, <2>2, <3>2 DEF Pad, Entry
    <3> QED
      BY <1>2, <1>3, <3>3
  <2> QED
    BY <2>3, <2>4
<1> QED
  BY <1>6, <1>7

\* The places of image n's patches.
SpotsOf(s, width, n, K, m0) == {SpotOf(s, width, x[1], n, x[2]) : x \in (0..(K - 1)) \X (0..(m0 - 1))}

\* An image has as many patches in a grid's buffer as its tokens are made of.
LEMMA GridSpots ==
    ASSUME NEW s, NEW n, s[n] \in Nat, NEW K \in Nat, NEW m0 \in Nat, NEW width \in Nat, s[n] + m0 <= width
    PROVE  Cardinality(SpotsOf(s, width, n, K, m0)) = K * m0
<1> DEFINE P == (0..(K - 1)) \X (0..(m0 - 1))
           f == [x \in P |-> SpotOf(s, width, x[1], n, x[2])]
           Y == {SpotOf(s, width, x[1], n, x[2]) : x \in P}
<1>1. IsFiniteSet(P) /\ Cardinality(P) = K * m0
  <2>1. \A c \in Nat : IsFiniteSet(0..(c - 1)) /\ Cardinality(0..(c - 1)) = c
    <3> SUFFICES ASSUME NEW c \in Nat PROVE IsFiniteSet(0..(c - 1)) /\ Cardinality(0..(c - 1)) = c
      OBVIOUS
    <3>1. 0 \in Int /\ c - 1 \in Int
      OBVIOUS
    <3>2. IsFiniteSet(0..(c - 1)) /\ Cardinality(0..(c - 1)) = IF 0 > c - 1 THEN 0 ELSE c - 1 - 0 + 1
      BY <3>1, FS_Interval, Zenon
    <3> QED
      BY <3>2
  <2> DEFINE A == 0..(K - 1)  B == 0..(m0 - 1)
  <2>2. IsFiniteSet(A) /\ Cardinality(A) = K /\ IsFiniteSet(B) /\ Cardinality(B) = m0
    BY <2>1
  <2> HIDE DEF A, B
  <2>3. IsFiniteSet(A \X B) /\ Cardinality(A \X B) = Cardinality(A) * Cardinality(B)
    BY <2>2, FS_Product
  <2> QED
    BY <2>2, <2>3 DEF A, B
<1>2. \A x, y \in P : f[x] = f[y] => x = y
  <2> SUFFICES ASSUME NEW x \in P, NEW y \in P, f[x] = f[y] PROVE x = y
    OBVIOUS
  <2>1. /\ x[1] \in Nat /\ y[1] \in Nat /\ x[2] \in 0..(m0 - 1) /\ y[2] \in 0..(m0 - 1)
        /\ x = <<x[1], x[2]>> /\ y = <<y[1], y[2]>>
    OBVIOUS
  <2> DEFINE a == s[n] + x[2]  b == s[n] + y[2]
  <2>2. a \in 0..(width - 1) /\ b \in 0..(width - 1)
    BY <2>1
  <2>3. x[1] * width + a = y[1] * width + b
    <3>1. x[1] * width + a + 1 = y[1] * width + b + 1
      BY DEF SpotOf
    <3>2. x[1] * width + a \in Nat /\ y[1] * width + b \in Nat
      BY <2>1, <2>2
    <3> DEFINE c == x[1] * width + a  d == y[1] * width + b
    <3>3. c \in Nat /\ d \in Nat /\ c + 1 = d + 1
      BY <3>1, <3>2
    <3> HIDE DEF c, d
    <3>4. c = d
      BY <3>3
    <3> QED
      BY <3>4 DEF c, d
  <2>4. x[1] = y[1] /\ a = b
    <3> HIDE DEF a, b
    <3> QED
      BY <2>1, <2>2, <2>3, PartsAreUnique
  <2>5. x[2] = y[2]
    BY <2>1, <2>4
  <2> QED
    BY <2>1, <2>4, <2>5
<1>3. f \in [P -> Y] /\ \A y \in Y : \E x \in P : f[x] = y
  OBVIOUS
<1> HIDE DEF f, Y, P
<1>4. f \in Bijection(P, Y)
  BY <1>2, <1>3 DEF Bijection, Injection, IsInjective, Surjection
<1>5. Cardinality(Y) = Cardinality(P)
  BY <1>1, <1>4, FS_Bijection DEF ExistsBijection
<1> QED
  BY <1>1, <1>5 DEF Y, P, SpotsOf

\* What a token of a grid's output is.
GridToken(e, b, width, x) ==
    [of |-> [g \in 1..PatchesPerToken(e) |-> b[(g - 1) * width + x].patch], window |-> {},
     sees |-> Seen(b, {(g - 1) * width + x : g \in 1..PatchesPerToken(e)}, Extents(e, b))]

LEMMA GridProjected ==
    ASSUME NEW e, e.kind = "grid", NEW b, NEW width \in Nat, Len(b) = width * PatchesPerToken(e),
           PatchesPerToken(e) \in Nat \ {0}, NEW x \in 1..width
    PROVE  vision_project(e, b)[x] = GridToken(e, b, width, x)
<1> DEFINE K == PatchesPerToken(e)
<1>1. Len(b) \div K = width
  <2>1. 0 \in 0..(K - 1) /\ width * K + 0 = width * K /\ K \in Nat \ {0}
    OBVIOUS
  <2> HIDE DEF K
  <2>2. (width * K + 0) \div K = width
    BY <2>1, PartsOfSum
  <2> QED
    BY <2>1, <2>2 DEF K
<1> QED
  BY <1>1 DEF vision_project, GridToken

\* Patches that share one image's segment see that image's extent and nothing else.
LEMMA GridSight ==
    ASSUME NEW e, e.kind = "grid", NEW b, NEW places \in SUBSET DOMAIN b, places # {}, NEW q \in 0..(Stick - 1),
           \A p \in places : b[p].segment = q
    PROVE  Seen(b, places, Extents(e, b)) = Sight(b, {p \in DOMAIN b : b[p].segment = q})
<1> DEFINE X(c) == {p \in DOMAIN b : b[p].segment = c}  all == {X(c) : c \in 0..(Stick - 1)}
           met == {x \in all : x \cap places # {}}
<1>1. Extents(e, b) = all
  BY DEF Extents
<1>2. X(q) \in met
  OBVIOUS
<1>3. \A x \in met : x = X(q)
  OBVIOUS
<1> HIDE DEF X, all
<1>4. UNION met = X(q)
  BY <1>2, <1>3, Zenon
<1>5. Seen(b, places, Extents(e, b)) = Sight(b, UNION met)
  BY <1>1 DEF Seen
<1> QED
  BY <1>4, <1>5 DEF X

\* What a grid image's token should be, token by token.
LEMMA GridOwn ==
    ASSUME NEW e \in Engines, e.kind = "grid", NEW item \in Item, NEW t \in 0..(Tokens(e, item) - 1)
    PROVE  OwnTokens(e, item)[t + 1] =
               [of |-> [g \in 1..PatchesPerToken(e) |-> offset_major(item, e.merge, g - 1, t)], window |-> {},
                sees |-> [sources |-> {<<item.id, 0>>}, patches |-> PatchesPerToken(e) * Tokens(e, item)]]
<1> DEFINE h == item.h  w == item.w  k == e.merge  K == PatchesPerToken(e)
<1>1. h \in Nat \ {0} /\ w \in Nat \ {0} /\ k \in Nat \ {0} /\ K = k * k /\ Tokens(e, item) = h * w
  BY MergeIs DEF Item, Tokens
<1>2. h * w \in Nat
  BY <1>1
<1>3. t + 1 \in 1..h * w /\ t + 1 - 1 = t /\ t \in Nat
  <2> HIDE DEF h, w
  <2> QED
    BY <1>1, <1>2
<1>4. t % (h * w) = t
  <2> DEFINE a == h * w
  <2>1. a \in Nat \ {0} /\ t \in 0..(a - 1) /\ 0 * a + t = t
    BY <1>1, <1>2, <1>3
  <2> HIDE DEF a
  <2>2. (0 * a + t) % a = t
    BY <2>1, PartsOfSum
  <2> QED
    BY <2>1, <2>2 DEF a
<1>5. OwnTokens(e, item)[t + 1] =
          [of |-> Square(item.id, 0, ((t + 1 - 1) % (h * w)) \div w, ((t + 1 - 1) % (h * w)) % w, k), window |-> {},
           sees |-> [sources |-> {<<item.id, 0>>}, patches |-> h * w * k * k]]
  BY <1>1, <1>3 DEF OwnTokens
<1>6. Square(item.id, 0, t \div w, t % w, k) = [g \in 1..K |-> offset_major(item, k, g - 1, t)]
  BY <1>1 DEF Square, offset_major
<1>7. h * w * k * k = K * Tokens(e, item)
  <2> HIDE DEF h, w, k, K
  <2>1. h * w * k * k = (k * k) * (h * w)
    BY <1>1
  <2> QED
    BY <1>1, <2>1
<1> HIDE DEF h, w, k, K
<1>8. ((t + 1 - 1) % (h * w)) \div w = t \div w /\ ((t + 1 - 1) % (h * w)) % w = t % w
  BY <1>3, <1>4
<1> QED
  BY <1>5, <1>6, <1>7, <1>8, Zenon DEF h, w, k, K

\* A token of a grid call is the image's own, whatever is packed with it.
LEMMA GridTokens ==
    ASSUME NEW e \in Engines, e.kind = "grid", NEW group, Call(e, group), NEW b, NEW width, GridBuffer(e, group, b, width),
           NEW n \in 1..Len(group), NEW t \in 0..(Tokens(e, group[n]) - 1)
    PROVE  /\ Starts(e, group)[n] + (t + 1) \in 1..width
           /\ vision_project(e, b)[Starts(e, group)[n] + (t + 1)] = OwnTokens(e, group[n])[t + 1]
<1> DEFINE K == PatchesPerToken(e)  s == Starts(e, group)  total == LengthOf(e, group)  m0 == Tokens(e, group[n])
           item == group[n]  x == s[n] + (t + 1)
           places == {(g - 1) * width + x : g \in 1..K}
           X == {p \in DOMAIN b : b[p].segment = n - 1}
<1>1. /\ K \in Nat \ {0} /\ total \in Nat /\ width \in Nat /\ total <= width
      /\ DOMAIN b = 1..width * K /\ Len(b) = width * K
  BY MergeIs, LengthIs DEF GridBuffer
<1>2. /\ Len(group) \in Nat /\ Sized(e, group) /\ RunsOn(e, group, s) /\ item \in Item /\ m0 \in Nat
  BY CallSizes, StartsOf DEF Sized
<1>3. s[n] \in Nat /\ s[n] + t \in Nat /\ s[n] + t < total /\ s[n] + m0 <= total
  <2> HIDE DEF s, m0
  <2>1. s[n] \in Nat /\ s[n] + t \in Nat /\ s[n] + t < s[Len(group) + 1]
    BY <1>2, HeldWithin DEF m0
  <2>2. s[n + 1] = s[n] + m0 /\ s[n + 1] <= s[Len(group) + 1]
    <3>1. n + 1 \in 1..Len(group) + 1 /\ Len(group) + 1 \in 1..Len(group) + 1 /\ n + 1 <= Len(group) + 1
      BY <1>2
    <3> QED
      BY <1>2, <3>1, StartsGrow DEF RunsOn, m0
  <2> QED
    BY <2>1, <2>2 DEF LengthOf, s
<1>4. x \in 1..width
  <2> HIDE DEF s, total
  <2> QED
    BY <1>1, <1>3
<1>5. ASSUME NEW g \in 1..K
      PROVE  /\ (g - 1) * width + x = SpotOf(s, width, g - 1, n, t)
             /\ b[(g - 1) * width + x] = Entry(offset_major(item, e.merge, g - 1, t), n - 1)
  <2> HIDE DEF K, s
  <2>1. g - 1 \in 0..(K - 1)
    BY <1>1
  <2>2. b[SpotOf(s, width, g - 1, n, t)] = Entry(offset_major(item, e.merge, g - 1, t), n - 1)
    BY <2>1 DEF GridBuffer, GridLaid, K, s
  <2>3. (g - 1) * width + x = SpotOf(s, width, g - 1, n, t)
    <3> DEFINE a == (g - 1) * width  c == s[n]
    <3>1. a \in Nat /\ c \in Nat /\ t \in Nat
      BY <1>1, <1>3, <2>1
    <3> HIDE DEF a, c
    <3>2. a + (c + (t + 1)) = a + (c + t) + 1
      BY <3>1
    <3> QED
      BY <3>2 DEF SpotOf, a, c
  <2> QED
    BY <2>2, <2>3
<1>6. X = {SpotOf(s, width, y[1], n, y[2]) : y \in (0..(K - 1)) \X (0..(m0 - 1))}
  BY GridSegments
<1>7. places \in SUBSET DOMAIN b /\ places # {} /\ \A p \in places : b[p].segment = n - 1
  <2> HIDE DEF K, s, m0, x
  <2>1. \A p \in places : p \in X
    <3> SUFFICES ASSUME NEW g \in 1..K PROVE (g - 1) * width + x \in X
      OBVIOUS
    <3>1. <<g - 1, t>> \in (0..(K - 1)) \X (0..(m0 - 1))
      BY <1>1 DEF m0
    <3>2. (g - 1) * width + x = SpotOf(s, width, g - 1, n, t)
      BY <1>5
    <3> HIDE DEF X
    <3> QED
      BY <1>6, <3>1, <3>2
  <2>2. 1 \in 1..K
    BY <1>1
  <2> QED
    BY <2>1, <2>2
<1>8. Seen(b, places, Extents(e, b)) = Sight(b, X)
  <2>1. n - 1 \in 0..(Stick - 1)
    <3>1. Len(group) <= Stick - 1 /\ Stick \in Nat
      BY StickAssumption DEF Call, SegmentItems
    <3> QED
      BY <1>2, <3>1
  <2> HIDE DEF places
  <2> QED
    BY <1>7, <2>1, GridSight
<1>9. {Source(b[p].patch) : p \in X} = {<<item.id, 0>>}
  <2> HIDE DEF K, s, m0
  <2>1. ASSUME NEW p \in X PROVE Source(b[p].patch) = <<item.id, 0>>
    <3>1. PICK g \in 0..(K - 1), c \in 0..(m0 - 1) : p = SpotOf(s, width, g, n, c)
      <4> HIDE DEF X
      <4> QED
        BY <1>6, <2>1
    <3>2. b[p] = Entry(offset_major(item, e.merge, g, c), n - 1)
      BY <3>1 DEF GridBuffer, GridLaid, K, s, m0
    <3> QED
      BY <3>2 DEF Entry, Source, offset_major, NoPatch
  <2>2. X # {}
    BY <1>7
  <2> HIDE DEF X, item
  <2> QED
    BY <2>1, <2>2
<1>10. Cardinality(X) = K * m0
  <2> HIDE DEF X, K, s, m0, total
  <2>1. s[n] + m0 <= width
    BY <1>1, <1>2, <1>3
  <2>2. Cardinality(SpotsOf(s, width, n, K, m0)) = K * m0
    <3>1. K \in Nat
      BY <1>1
    <3> QED
      BY <1>1, <1>2, <1>3, <2>1, <3>1, GridSpots
  <2> QED
    BY <1>6, <2>2 DEF SpotsOf
<1>11. Sight(b, X) = [sources |-> {<<item.id, 0>>}, patches |-> K * m0]
  <2> HIDE DEF X
  <2> QED
    BY <1>9, <1>10 DEF Sight
<1>12. vision_project(e, b)[x] = GridToken(e, b, width, x)
  <2> HIDE DEF x
  <2>1. width \in Nat /\ Len(b) = width * PatchesPerToken(e) /\ PatchesPerToken(e) \in Nat \ {0} /\ x \in 1..width
    BY <1>1, <1>4
  <2> QED
    BY <2>1, GridProjected
<1>13. [g \in 1..K |-> b[(g - 1) * width + x].patch] = [g \in 1..K |-> offset_major(item, e.merge, g - 1, t)]
  <2> HIDE DEF K, s, x
  <2>1. \A g \in 1..K : b[(g - 1) * width + x].patch = offset_major(item, e.merge, g - 1, t)
    <3> SUFFICES ASSUME NEW g \in 1..K PROVE b[(g - 1) * width + x].patch = offset_major(item, e.merge, g - 1, t)
      OBVIOUS
    <3>1. b[(g - 1) * width + x] = Entry(offset_major(item, e.merge, g - 1, t), n - 1)
      BY <1>5
    <3> QED
      BY <3>1 DEF Entry
  <2> QED
    BY <2>1
<1>14. OwnTokens(e, item)[t + 1] =
           [of |-> [g \in 1..K |-> offset_major(item, e.merge, g - 1, t)], window |-> {},
            sees |-> [sources |-> {<<item.id, 0>>}, patches |-> K * m0]]
  <2> HIDE DEF item
  <2> QED
    BY <1>2, GridOwn DEF item
<1>16. GridToken(e, b, width, x) = [of |-> [g \in 1..K |-> b[(g - 1) * width + x].patch], window |-> {},
                                     sees |-> Seen(b, places, Extents(e, b))]
  BY Zenon DEF GridToken
<1> HIDE DEF X, places, K, s, m0, x
<1>15. vision_project(e, b)[x] = OwnTokens(e, item)[t + 1]
  BY <1>8, <1>11, <1>12, <1>13, <1>14, <1>16
<1> QED
  BY <1>4, <1>15 DEF x, s

\* A run of the output.
RunOf(out, a, m0) == [i \in 1..m0 |-> out[a + i]]

CutOf(f, V, out, low, high) ==
    /\ f \in Seq(V) /\ Len(f) = (IF low <= high THEN high - low + 1 ELSE 0)
    /\ \A i \in 1..high - low + 1 : f[i] = out[low + i - 1]

LEMMA CutIs ==
    ASSUME NEW V, NEW out, NEW low \in Int, NEW high \in Int, \A i \in low..high : out[i] \in V
    PROVE  CutOf(SubSeq(out, low, high), V, out, low, high)
  BY DEF CutOf

LEMMA ChunkIs ==
    ASSUME NEW width \in Nat, NEW out, DOMAIN out = 1..width, out = [x \in 1..width |-> out[x]],
           NEW a \in Nat, NEW m0 \in Nat, a + m0 <= width
    PROVE  SubSeq(out, a + 1, a + m0) = RunOf(out, a, m0)
<1> DEFINE V == {out[x] : x \in 1..width}  low == a + 1  high == a + m0  f == SubSeq(out, low, high)
<1>1. out \in Seq(V) /\ Len(out) = width
  <2>1. out \in [1..width -> V]
    OBVIOUS
  <2> HIDE DEF V
  <2> QED
    BY <2>1
<1> HIDE DEF V
<1>2. low \in Int /\ high \in Int /\ high - low + 1 = m0 /\ (IF low <= high THEN high - low + 1 ELSE 0) = m0
  OBVIOUS
<1>3. /\ f \in Seq(V) /\ Len(f) = m0
      /\ \A i \in 1..m0 : f[i] = out[low + i - 1]
  <2>1. \A i \in low..high : out[i] \in V
    <3>1. \A i \in low..high : i \in 1..width
      OBVIOUS
    <3> QED
      BY <3>1 DEF V
  <2> HIDE DEF low, high
  <2>2. CutOf(f, V, out, low, high)
    BY <1>2, <2>1, CutIs
  <2> HIDE DEF f
  <2> QED
    BY <1>2, <2>2 DEF CutOf
<1>4. \A i \in 1..m0 : low + i - 1 = a + i
  OBVIOUS
<1> HIDE DEF f, low, high
<1>5. DOMAIN f = 1..m0 /\ f = [i \in 1..m0 |-> f[i]]
  BY <1>2, <1>3
<1>6. \A i \in 1..m0 : f[i] = out[a + i]
  BY <1>2, <1>3, <1>4
<1>7. f = RunOf(out, a, m0)
  BY <1>5, <1>6 DEF RunOf
<1> QED
  BY <1>7 DEF f, low, high

\* Item n's tokens are a run of the output.
LEMMA RunIs ==
    ASSUME NEW e \in Engines, NEW group, Call(e, group), NEW n \in 1..Len(group), NEW out, NEW width \in Nat,
           DOMAIN out = 1..width, out = [x \in 1..width |-> out[x]], LengthOf(e, group) <= width
    PROVE  SubSeq(out, Starts(e, group)[n] + 1, Starts(e, group)[n + 1])
               = RunOf(out, Starts(e, group)[n], Tokens(e, group[n]))
<1> DEFINE s == Starts(e, group)  m0 == Tokens(e, group[n])
<1>1. Len(group) \in Nat /\ Sized(e, group) /\ RunsOn(e, group, s) /\ m0 \in Nat
  BY CallSizes, StartsOf DEF Sized
<1>2. LengthOf(e, group) = s[Len(group) + 1]
  BY DEF LengthOf
<1> HIDE DEF s, m0
<1>3. s[n] \in Nat /\ s[n + 1] = s[n] + m0 /\ s[n + 1] <= s[Len(group) + 1] /\ s[Len(group) + 1] \in Nat
  <2>1. n + 1 \in 1..Len(group) + 1 /\ Len(group) + 1 \in 1..Len(group) + 1 /\ n + 1 <= Len(group) + 1
    BY <1>1
  <2>2. s[n + 1] <= s[Len(group) + 1]
    BY <1>1, <2>1, StartsGrow
  <2>3. s[n] \in Nat /\ s[Len(group) + 1] \in Nat /\ s[n + 1] = s[n] + m0
    BY <1>1 DEF RunsOn, m0
  <2> QED
    BY <2>2, <2>3
<1>4. SubSeq(out, s[n] + 1, s[n] + m0) = RunOf(out, s[n], m0)
  <2> DEFINE a == s[n]
  <2>1. a \in Nat /\ a + m0 <= width
    <3> DEFINE y == s[n + 1]  z == s[Len(group) + 1]
    <3>1. a \in Nat /\ y = a + m0 /\ y <= z /\ z \in Nat /\ z <= width
      BY <1>2, <1>3
    <3> HIDE DEF a, y, z
    <3> QED
      BY <1>1, <3>1
  <2> HIDE DEF a
  <2>2. SubSeq(out, a + 1, a + m0) = RunOf(out, a, m0)
    BY <1>1, <2>1, ChunkIs
  <2> QED
    BY <2>2 DEF a
<1> QED
  BY <1>3, <1>4 DEF s, m0

LEMMA GridAnswers ==
    ASSUME NEW e \in Engines, e.kind = "grid", NEW group, Call(e, group), NEW b, NEW width, GridBuffer(e, group, b, width),
           NEW n \in 1..Len(group)
    PROVE  postprocess_encoder_output(e, vision_project(e, b), group)[n] = OwnTokens(e, group[n])
<1> DEFINE K == PatchesPerToken(e)  s == Starts(e, group)  m0 == Tokens(e, group[n])  out == vision_project(e, b)
<1>1. width \in Nat /\ LengthOf(e, group) <= width /\ K \in Nat \ {0} /\ Len(b) = width * K /\ m0 \in Nat
      /\ DOMAIN group = 1..Len(group) /\ s[n] \in Nat
  <2>1. Len(group) \in Nat /\ Sized(e, group) /\ RunsOn(e, group, s)
    BY CallSizes, StartsOf
  <2>2. s[n] \in Nat
    <3> HIDE DEF s
    <3> QED
      BY <2>1 DEF RunsOn
  <2> QED
    BY <2>1, <2>2, CallSizes, MergeIs DEF GridBuffer, Sized
<1>2. Len(b) \div K = width
  <2>1. 0 \in 0..(K - 1) /\ width * K + 0 = width * K
    BY <1>1
  <2> HIDE DEF K
  <2>2. (width * K + 0) \div K = width
    BY <1>1, <2>1, PartsOfSum
  <2> QED
    BY <1>1, <2>1, <2>2
<1>3. DOMAIN out = 1..width /\ out = [x \in 1..width |-> out[x]]
  BY <1>2 DEF vision_project
<1>4. SubSeq(out, s[n] + 1, s[n + 1]) = RunOf(out, s[n], m0)
  <2> HIDE DEF out
  <2> QED
    BY <1>1, <1>3, RunIs
<1>5. \A t \in 1..m0 : out[s[n] + t] = OwnTokens(e, group[n])[t]
  <2> SUFFICES ASSUME NEW t \in 1..m0 PROVE out[s[n] + t] = OwnTokens(e, group[n])[t]
    OBVIOUS
  <2> DEFINE u == t - 1
  <2>1. u \in 0..(m0 - 1) /\ t = u + 1
    BY <1>1
  <2> HIDE DEF u
  <2>2. out[s[n] + (u + 1)] = OwnTokens(e, group[n])[u + 1]
    BY <2>1, GridTokens
  <2> QED
    BY <2>1, <2>2
<1>6. DOMAIN OwnTokens(e, group[n]) = 1..m0 /\ OwnTokens(e, group[n]) = [t \in 1..m0 |-> OwnTokens(e, group[n])[t]]
  BY DEF OwnTokens
<1>7. postprocess_encoder_output(e, out, group)[n] = SubSeq(out, s[n] + 1, s[n + 1])
  <2> HIDE DEF out
  <2>1. n \in DOMAIN group
    BY <1>1
  <2> QED
    BY <2>1 DEF postprocess_encoder_output
<1> HIDE DEF out, s, m0
<1>8. RunOf(out, s[n], m0) = OwnTokens(e, group[n])
  BY <1>5, <1>6 DEF RunOf
<1> QED
  BY <1>4, <1>7, <1>8 DEF out

(***************************************************************************)
(* The same for an image in tiles.                                         *)
(***************************************************************************)
Across(e)    == e.side \div e.window
Queries(e)   == e.query * e.query
PerWindow(e) == e.window * e.window

\* How many windows, queries and patches a tile is.
LEMMA TileNumbers ==
    ASSUME NEW e \in Engines, e.kind = "tiles"
    PROVE  LET K == PatchesPerToken(e)  n == Across(e) IN
           /\ {K, n, n * n, Queries(e), PerWindow(e), TilePatches(e), TokensPerTile(e), n * e.query} \subseteq Nat \ {0}
           /\ {e.merge, e.query, e.window} \subseteq Nat \ {0}
           /\ PerWindow(e) = K * Queries(e) /\ TokensPerTile(e) = (n * n) * Queries(e)
           /\ TilePatches(e) = (n * n) * PerWindow(e) /\ TilePatches(e) = TokensPerTile(e) * K
           /\ e.side \div e.merge = n * e.query /\ TokensPerTile(e) = (n * e.query) * (n * e.query)
           /\ e.window = e.query * e.merge
<1> DEFINE k == e.merge  query == e.query  window == e.window  side == e.side  n == Across(e)  K == k * k
           Q == query * query  W == window * window  TP == side * side  TT == (n * n) * Q
<1>1. /\ side \in Nat \ {0} /\ window \in Nat \ {0} /\ query \in Nat \ {0} /\ k \in Nat \ {0} /\ n \in Nat \ {0}
      /\ window = query * k /\ side = n * window /\ side = (n * query) * k
  BY TileShape DEF Across
<1>2. K = PatchesPerToken(e) /\ Q = Queries(e) /\ W = PerWindow(e) /\ TP = TilePatches(e)
  BY DEF PatchesPerToken, Queries, PerWindow, TilePatches
<1> HIDE DEF k, query, window, side, n
<1>3. K \in Nat \ {0} /\ Q \in Nat \ {0} /\ W \in Nat \ {0} /\ TP \in Nat \ {0} /\ n * n \in Nat \ {0} /\ n * query \in Nat \ {0}
  BY <1>1
<1>4. W = K * Q
  <2>1. (query * k) * (query * k) = (k * k) * (query * query)
    BY <1>1
  <2> QED
    BY <1>1, <2>1
<1>5. TP = (n * n) * W
  <2>1. (n * window) * (n * window) = (n * n) * (window * window)
    BY <1>1
  <2> QED
    BY <1>1, <2>1
<1>6. TT \in Nat \ {0} /\ TT = (n * query) * (n * query)
  <2>1. (n * query) * (n * query) = (n * n) * (query * query)
    BY <1>1
  <2>2. (n * query) * (n * query) \in Nat \ {0}
    BY <1>3
  <2> QED
    BY <2>1, <2>2
<1>7. TP = TT * K
  <2> DEFINE a == n * n
  <2>1. a \in Nat /\ TP = a * W
    BY <1>3, <1>5
  <2> HIDE DEF a, K, Q, W, TP
  <2>2. a * (K * Q) = (a * Q) * K
    BY <1>3, <2>1
  <2> QED
    BY <1>4, <2>1, <2>2 DEF a
<1>8. TokensPerTile(e) = TT
  <2> HIDE DEF TP, TT, K
  <2>1. 0 \in 0..(K - 1) /\ TT * K + 0 = TP
    BY <1>3, <1>6, <1>7
  <2>2. (TT * K + 0) \div K = TT
    BY <1>3, <1>6, <2>1, PartsOfSum
  <2> QED
    BY <1>2, <2>1, <2>2 DEF TokensPerTile
<1>9. side \div k = n * query
  <2> DEFINE a == n * query
  <2>1. 0 \in 0..(k - 1) /\ a * k + 0 = side /\ a \in Nat
    BY <1>1, <1>3
  <2> HIDE DEF a
  <2>2. (a * k + 0) \div k = a
    BY <1>1, <2>1, PartsOfSum
  <2> QED
    BY <2>1, <2>2 DEF a
<1> HIDE DEF K, Q, W, TP, TT
<1>10. {K, n, n * n, Q, W, TP, TT, n * query} \subseteq Nat \ {0}
  BY <1>1, <1>3, <1>6
<1>11. TT = (n * n) * Q
  BY DEF TT
<1> QED
  BY <1>1, <1>2, <1>4, <1>5, <1>6, <1>7, <1>8, <1>9, <1>10, <1>11 DEF n, k, query, window, side

\* Every image begins with a tile of its own.
LEMMA StartsWhole ==
    ASSUME NEW e \in Engines, e.kind = "tiles", NEW group, Call(e, group), NEW n \in 1..Len(group) + 1
    PROVE  LET c == Starts(e, group)[n] \div TokensPerTile(e) IN
           c \in Nat /\ Starts(e, group)[n] = c * TokensPerTile(e)
<1> DEFINE s == Starts(e, group)  T == TokensPerTile(e)  k == Len(group)
           Bad == {j \in 1..k + 1 : ~\E c \in Nat : s[j] = c * T}
<1>1. k \in Nat /\ RunsOn(e, group, s) /\ T \in Nat \ {0} /\ \A j \in 1..k : group[j] \in Item
  BY CallSizes, StartsOf, TileNumbers
<1>2. \A j \in 1..k : Tiles(group[j]) \in Nat /\ Tokens(e, group[j]) = Tiles(group[j]) * T
  <2> SUFFICES ASSUME NEW j \in 1..k PROVE Tiles(group[j]) \in Nat /\ Tokens(e, group[j]) = Tiles(group[j]) * T
    OBVIOUS
  <2>1. group[j] \in Item
    BY <1>1
  <2>2. group[j].h \in Nat /\ group[j].w \in Nat
    BY <2>1 DEF Item
  <2>3. group[j].h * group[j].w \in Nat
    BY <2>2
  <2> QED
    BY <2>3 DEF Tokens, Tiles
<1> HIDE DEF s, T
<1>3. Bad = {}
  <2> SUFFICES ASSUME Bad # {} PROVE FALSE
    OBVIOUS
  <2>1. PICK j \in Bad : \A i \in Bad : j <= i
    <3>1. Bad \in SUBSET Nat
      BY <1>1
    <3> HIDE DEF Bad
    <3> QED
      BY <3>1, LeastExists
  <2>2. j # 1
    <3>1. s[1] = 0 /\ 0 = 0 * T
      BY <1>1 DEF RunsOn
    <3> QED
      BY <2>1, <3>1
  <2> DEFINE i == j - 1
  <2>3. i \in 1..k /\ i \in 1..k + 1 /\ ~(j <= i) /\ i + 1 = j
    BY <1>1, <2>1, <2>2
  <2> HIDE DEF i
  <2>4. PICK c \in Nat : s[i] = c * T
    BY <2>1, <2>3
  <2>5. s[j] = c * T + Tiles(group[i]) * T
    BY <1>1, <1>2, <2>3, <2>4 DEF RunsOn
  <2> DEFINE d == Tiles(group[i])
  <2>6. d \in Nat
    BY <1>2, <2>3
  <2> HIDE DEF d
  <2>7. c * T + d * T = (c + d) * T /\ c + d \in Nat
    BY <1>1, <2>6
  <2> QED
    BY <2>1, <2>5, <2>7 DEF d
<1>4. PICK c \in Nat : s[n] = c * T
  BY <1>3
<1>5. s[n] \div T = c
  <2>1. 0 \in 0..(T - 1) /\ c * T + 0 = s[n]
    BY <1>1, <1>4
  <2>2. (c * T + 0) \div T = c
    BY <1>1, <2>1, PartsOfSum
  <2> QED
    BY <2>1, <2>2
<1> QED
  BY <1>4, <1>5 DEF s, T

\* Which of a call's tiles is tile j of image n, and where its patch y lies.
TileOf(e, group, n, j) == Starts(e, group)[n] \div TokensPerTile(e) + j
SlotOf(e, c, y) == c * TilePatches(e) + y + 1

TilePatch(e, item, j, y) == Entry(<<item.id, j + 1>> \o window_major_order(e, y), 0)

\* A tile call's patches, window by window.
TileLaid(e, group, src) ==
    \A n \in 1..Len(group) : \A j \in 0..(Tiles(group[n]) - 1), y \in 0..(TilePatches(e) - 1) :
        src[SlotOf(e, TileOf(e, group, n, j), y)] = TilePatch(e, group[n], j, y)

\* Tile j of an image is among the call's.
LEMMA TileWithin ==
    ASSUME NEW e \in Engines, e.kind = "tiles", NEW group, Call(e, group), NEW n \in 1..Len(group),
           NEW j \in 0..(Tiles(group[n]) - 1)
    PROVE  LET c == TileOf(e, group, n, j)  T == TokensPerTile(e)  s == Starts(e, group) IN
           /\ c \in Nat /\ c * T = s[n] + j * T /\ c * T + T <= LengthOf(e, group) /\ j \in Nat
           /\ s[n] \in Nat /\ Tokens(e, group[n]) = Tiles(group[n]) * T /\ Tiles(group[n]) \in Nat
           /\ j * T \in Nat /\ j * T + T <= Tokens(e, group[n])
<1> DEFINE s == Starts(e, group)  T == TokensPerTile(e)  d == Tiles(group[n])  c == TileOf(e, group, n, j)
           b == s[n] \div T
<1>1. /\ Len(group) \in Nat /\ Sized(e, group) /\ RunsOn(e, group, s) /\ T \in Nat \ {0} /\ group[n] \in Item
  BY CallSizes, StartsOf, TileNumbers
<1>2. d \in Nat /\ Tokens(e, group[n]) = d * T
  <2>1. group[n].h \in Nat /\ group[n].w \in Nat
    BY <1>1 DEF Item
  <2>2. group[n].h * group[n].w \in Nat
    BY <2>1
  <2> QED
    BY <2>2 DEF Tokens, Tiles
<1>3. b \in Nat /\ s[n] = b * T
  <2>1. n \in 1..Len(group) + 1
    BY <1>1
  <2> QED
    BY <2>1, StartsWhole
<1>4. c = b + j /\ j \in Nat
  BY DEF TileOf
<1>5. s[n] + Tokens(e, group[n]) <= LengthOf(e, group) /\ LengthOf(e, group) \in Nat
  <2> HIDE DEF s, T, d
  <2>1. n + 1 \in 1..Len(group) + 1 /\ Len(group) + 1 \in 1..Len(group) + 1 /\ n + 1 <= Len(group) + 1
    BY <1>1
  <2>2. s[n + 1] <= s[Len(group) + 1]
    BY <1>1, <2>1, StartsGrow
  <2>3. s[Len(group) + 1] \in Nat /\ s[n + 1] = s[n] + Tokens(e, group[n])
    BY <1>1 DEF RunsOn
  <2> QED
    BY <2>2, <2>3 DEF LengthOf, s
<1> HIDE DEF b, c, T, d
<1>6. j * T + T <= d * T /\ j * T \in Nat
  <2>1. j \in Nat /\ j < d /\ T \in Nat
    BY <1>1, <1>2, <1>4 DEF d
  <2> QED
    BY <1>2, <2>1, NextMultiple
<1>7. c * T = b * T + j * T /\ b * T \in Nat /\ c \in Nat /\ d * T \in Nat
  BY <1>1, <1>2, <1>3, <1>4
<1>8. s[n] \in Nat /\ c * T = s[n] + j * T
  BY <1>3, <1>7
<1>9. c * T + T <= LengthOf(e, group)
  <2> DEFINE u == s[n]  v == j * T  w == d * T  x == c * T
  <2>1. u \in Nat /\ v \in Nat /\ w \in Nat /\ x = u + v /\ v + T <= w /\ u + w <= LengthOf(e, group)
    BY <1>2, <1>5, <1>6, <1>7, <1>8
  <2> HIDE DEF u, v, w, x
  <2>2. x + T <= LengthOf(e, group)
    BY <1>1, <1>5, <2>1
  <2> QED
    BY <2>2 DEF x
<1> QED
  BY <1>2, <1>4, <1>6, <1>7, <1>8, <1>9 DEF c, T, d

LEMMA TileInputsAre ==
    ASSUME NEW e \in Engines, e.kind = "tiles", NEW group, Call(e, group)
    PROVE  /\ Len(vision_inputs(e, group)) = LengthOf(e, group) * PatchesPerToken(e)
           /\ TileLaid(e, group, vision_inputs(e, group))
<1> DEFINE s == Starts(e, group)  total == LengthOf(e, group)  K == PatchesPerToken(e)  N == total * K
           T == TokensPerTile(e)  TP == TilePatches(e)
           OfPlace(p) ==
              LET n == ItemAt(s, (p - 1) \div K)  tile == ((p - 1) - s[n] * K) \div TP IN
              Entry(<<group[n].id, tile + 1>> \o window_major_order(e, (p - 1) % TP), 0)
           f == [p \in 1..N |-> OfPlace(p)]
<1>1. Len(group) \in Nat /\ Sized(e, group) /\ RunsOn(e, group, s)
  BY CallSizes, StartsOf
<1>2. total \in Nat /\ s[Len(s)] = total /\ K \in Nat \ {0} /\ N \in Nat
  <2>1. total \in Nat /\ s[Len(s)] = total /\ K \in Nat \ {0}
    BY LengthIs, MergeIs
  <2> HIDE DEF total, K
  <2> QED
    BY <2>1
<1>3. TileInputs(e, group) = f
  <2>1. s[Len(s)] = total
    BY <1>2
  <2> HIDE DEF total
  <2> QED
    BY <2>1, Zenon DEF TileInputs
<1>4. vision_inputs(e, group) = f \o <<>>
  BY <1>3 DEF vision_inputs
<1>5. DOMAIN f = 1..N /\ f = [p \in 1..N |-> f[p]]
  OBVIOUS
<1>6. f \o <<>> = f /\ Len(f) = N
  <2> HIDE DEF f, N
  <2> QED
    BY <1>2, <1>5, AsSequence
<1>7. ASSUME NEW n \in 1..Len(group), NEW j \in 0..(Tiles(group[n]) - 1), NEW y \in 0..(TP - 1)
      PROVE  f[SlotOf(e, TileOf(e, group, n, j), y)] = TilePatch(e, group[n], j, y)
  <2> DEFINE c == TileOf(e, group, n, j)  p == SlotOf(e, c, y)  u == y \div K  x == j * T + u
  <2>1. /\ c \in Nat /\ c * T = s[n] + j * T /\ c * T + T <= total /\ s[n] \in Nat /\ j \in Nat
        /\ j * T \in Nat /\ j * T + T <= Tokens(e, group[n]) /\ Tokens(e, group[n]) \in Nat
    BY <1>1, TileWithin DEF Sized
  <2>2. T \in Nat \ {0} /\ TP \in Nat \ {0} /\ TP = T * K
    BY TileNumbers
  <2> HIDE DEF c, T, TP, K, total
  <2>3. y \in Nat /\ y % K \in 0..(K - 1) /\ y = u * K + (y % K) /\ u \in 0..(T - 1)
    <3>1. y \in Nat /\ y < T * K
      BY <2>2
    <3> QED
      BY <1>2, <2>2, <3>1, Parts, QuotientBelow
  <2> HIDE DEF u
  <2>4. x \in 0..(Tokens(e, group[n]) - 1) /\ s[n] + x = c * T + u
    <3> DEFINE v == j * T  w == c * T
    <3>1. v \in Nat /\ w = s[n] + v /\ v + T <= Tokens(e, group[n])
      BY <2>1
    <3> DEFINE z == s[n]  m0 == Tokens(e, group[n])
    <3>3. /\ v \in Nat /\ w = z + v /\ v + T <= m0 /\ z \in Nat /\ m0 \in Nat /\ u \in 0..(T - 1) /\ T \in Nat
      BY <2>1, <2>2, <2>3, <3>1
    <3> HIDE DEF v, w, z, m0
    <3>2. v + u \in 0..(m0 - 1) /\ z + (v + u) = w + u
      BY <3>3
    <3> QED
      BY <3>2 DEF v, w, z, m0, x
  <2> HIDE DEF x
  <2>5. Spans(s, n, s[n] + x) /\ s[n] + x \in Nat
    <3> HIDE DEF s
    <3> QED
      BY <1>1, <2>4, HeldWithin
  <2>6. ItemAt(s, s[n] + x) = n
    <3> DEFINE z == s[n] + x
    <3>1. z \in Nat /\ Spans(s, n, z)
      BY <2>5
    <3> HIDE DEF s, z
    <3>2. ItemAt(s, z) = n
      BY <1>1, <3>1, ItemAtIs
    <3> QED
      BY <3>2 DEF z
  <2>7. p - 1 = c * TP + y /\ p \in 1..N /\ c * TP \in Nat
    <3>1. c * TP \in Nat /\ c * TP = (c * T) * K
      BY <1>2, <2>1, <2>2
    <3>2. c * TP + y \in 0..(N - 1)
      <4> DEFINE g == c * T + u
      <4>1. g \in 0..(total - 1)
        <5> DEFINE w == c * T
        <5>1. w \in Nat /\ w + T <= total
          BY <2>1, <2>2
        <5> HIDE DEF w
        <5>2. w + u \in 0..(total - 1)
          BY <1>2, <2>2, <2>3, <5>1
        <5> QED
          BY <5>2 DEF w
      <4> HIDE DEF g
      <4>2. g * K + (y % K) \in 0..(total * K - 1)
        BY <1>2, <2>3, <4>1, SumWithin
      <4>3. c * TP + y = g * K + (y % K)
        <5> DEFINE w == c * T  r == y % K
        <5>1. w \in Nat /\ u \in Nat /\ r \in Nat /\ y = u * K + r /\ c * TP = w * K /\ g = w + u
          BY <2>1, <2>2, <2>3, <3>1 DEF g
        <5> HIDE DEF w, r
        <5>2. (w + u) * K = w * K + u * K /\ w * K \in Nat /\ u * K \in Nat
          BY <1>2, <5>1
        <5>3. c * TP + y = g * K + r
          BY <5>1, <5>2
        <5> QED
          BY <5>3 DEF r
      <4> QED
        BY <4>2, <4>3 DEF N
    <3> DEFINE a == c * TP + y
    <3>3. p = a + 1
      BY DEF SlotOf, TP
    <3>4. a \in 0..(N - 1)
      BY <3>2
    <3> HIDE DEF a, N, p
    <3>5. p - 1 = a /\ p \in 1..N
      BY <1>2, <3>3, <3>4
    <3> QED
      BY <3>1, <3>5 DEF a
  <2> HIDE DEF p
  <2>8. (p - 1) \div K = s[n] + x
    <3> DEFINE g == c * T + u  r == y % K
    <3>1. g \in Nat /\ r \in 0..(K - 1)
      BY <2>1, <2>2, <2>3
    <3>2. p - 1 = g * K + r
      <4> DEFINE w == c * T
      <4>1. w \in Nat /\ c * TP = w * K /\ y = u * K + r /\ u \in Nat /\ r \in Nat
        <5>1. c * TP = (c * T) * K
          BY <1>2, <2>1, <2>2
        <5> QED
          BY <2>1, <2>2, <2>3, <5>1
      <4> HIDE DEF w, r
      <4>2. (w + u) * K = w * K + u * K /\ w * K \in Nat /\ u * K \in Nat
        BY <1>2, <4>1
      <4>3. c * TP + y = (w + u) * K + r
        BY <4>1, <4>2
      <4> QED
        BY <2>7, <4>3 DEF w
    <3> HIDE DEF g, r
    <3>3. (p - 1) \div K = g
      BY <1>2, <3>1, <3>2, PartsOfSum
    <3> QED
      BY <2>4, <3>3 DEF g
  <2>9. (p - 1) % TP = y
    <3>1. y \in 0..(TP - 1) /\ c \in Nat /\ TP \in Nat \ {0}
      BY <2>1, <2>2 DEF TP
    <3>2. (c * TP + y) % TP = y
      BY <3>1, PartsOfSum
    <3> QED
      BY <2>7, <3>2
  <2>10. ((p - 1) - s[n] * K) \div TP = j
    <3>1. (p - 1) - s[n] * K = j * TP + y
      <4> DEFINE v == j * T  w == c * T
      <4>1. c * TP = w * K /\ j * TP = v * K /\ w = s[n] + v /\ v \in Nat
        BY <1>2, <2>1, <2>2
      <4> DEFINE z == s[n]
      <4>2. z \in Nat
        BY <2>1
      <4> HIDE DEF v, w, z
      <4>3. (z + v) * K = z * K + v * K /\ z * K \in Nat /\ v * K \in Nat
        BY <1>2, <4>1, <4>2
      <4>4. (c * TP + y) - z * K = j * TP + y
        <5>1. c * TP = (z + v) * K /\ j * TP = v * K
          BY <4>1 DEF z
        <5> DEFINE a == c * TP  b == j * TP  g == z * K  h == v * K
        <5>2. a = g + h /\ b = h /\ g \in Nat /\ h \in Nat /\ y \in Nat
          BY <2>3, <4>3, <5>1
        <5> HIDE DEF a, b, g, h
        <5>3. (a + y) - g = b + y
          BY <5>2
        <5> QED
          BY <5>3 DEF a, b, g
      <4>5. (p - 1) - z * K = j * TP + y
        <5>1. p - 1 = c * TP + y
          BY <2>7
        <5> QED
          BY <4>4, <5>1, Zenon
      <4> QED
        BY <4>5 DEF z
    <3>2. j \in Nat
      BY <2>1
    <3> QED
      BY <2>2, <3>1, <3>2, PartsOfSum
  <2>11. f[p] = OfPlace(p)
    BY <2>7
  <2>12. OfPlace(p) = TilePatch(e, group[n], j, y)
    <3> HIDE DEF s
    <3> QED
      BY <2>6, <2>8, <2>9, <2>10, Zenon DEF TilePatch
  <2> QED
    BY <2>11, <2>12 DEF p, c
<1> HIDE DEF f, N
<1>8. vision_inputs(e, group) = f /\ Len(f) = N
  BY <1>4, <1>6
<1>9. TileLaid(e, group, f)
  BY <1>7 DEF TileLaid
<1> QED
  BY <1>8, <1>9 DEF N

\* A buffer with a tile call's patches at its head.
TileBuffer(e, group, b, width) ==
    /\ width \in Nat \ {0} /\ LengthOf(e, group) <= width
    /\ DOMAIN b = 1..width * PatchesPerToken(e) /\ Len(b) = width * PatchesPerToken(e)
    /\ TileLaid(e, group, b)

\* The places of a tile's patches: those of one extent of the buffer.
LEMMA TilePlaces ==
    ASSUME NEW e \in Engines, e.kind = "tiles", NEW group, Call(e, group), NEW n \in 1..Len(group),
           NEW j \in 0..(Tiles(group[n]) - 1), NEW y \in 0..(TilePatches(e) - 1)
    PROVE  SlotOf(e, TileOf(e, group, n, j), y) - 1 \in 0..(LengthOf(e, group) * PatchesPerToken(e) - 1)
<1> DEFINE c == TileOf(e, group, n, j)  T == TokensPerTile(e)  K == PatchesPerToken(e)  TP == TilePatches(e)
           total == LengthOf(e, group)
<1>1. c \in Nat /\ c * T + T <= total /\ c * T \in Nat /\ total \in Nat
  <2>1. T \in Nat
    BY TileNumbers
  <2>2. c \in Nat /\ c * T + T <= total /\ total \in Nat
    BY LengthIs, TileWithin
  <2> HIDE DEF c, T
  <2> QED
    BY <2>1, <2>2
<1>2. T \in Nat \ {0} /\ TP \in Nat \ {0} /\ K \in Nat \ {0} /\ TP = T * K
  BY TileNumbers
<1> HIDE DEF c, T, K, TP, total
<1>3. c * TP + TP <= total * K
  <2> DEFINE w == c * T + T
  <2>1. w \in Nat /\ w <= total
    BY <1>1, <1>2
  <2>2. c * TP + TP = w * K
    <3>1. (c * T + T) * K = c * (T * K) + T * K
      BY <1>1, <1>2
    <3> QED
      BY <1>2, <3>1
  <2> HIDE DEF w
  <2>3. w * K <= total * K
    <3>1. PICK d \in Nat : total = w + d
      <4>1. total - w \in Nat /\ total = w + (total - w)
        BY <1>1, <2>1
      <4> QED
        BY <4>1
    <3>2. (w + d) * K = w * K + d * K /\ w * K \in Nat /\ d * K \in Nat
      BY <1>2, <2>1
    <3> QED
      BY <3>1, <3>2
  <2> QED
    BY <2>2, <2>3
<1> DEFINE a == c * TP  z == total * K
<1>4. a \in Nat /\ z \in Nat /\ a + TP <= z /\ y \in 0..(TP - 1)
  BY <1>1, <1>2, <1>3 DEF TP
<1>5. SlotOf(e, c, y) = a + y + 1
  BY DEF SlotOf, TP
<1> HIDE DEF a, z
<1>6. (a + y + 1) - 1 \in 0..(z - 1)
  BY <1>2, <1>4
<1> QED
  BY <1>5, <1>6 DEF z, c, K, total

LEMMA TileBufferIs ==
    ASSUME NEW e \in Engines, e.kind = "tiles", NEW group, Call(e, group), NEW dst, NEW width, RoomFor(e, group, dst, width)
    PROVE  TileBuffer(e, group, _pad_groups(dst, vision_inputs(e, group), PadGroupCount(e)), width)
<1> DEFINE K == PatchesPerToken(e)  total == LengthOf(e, group)  src == vision_inputs(e, group)
           size == total * K  wide == width * K  b == _pad_groups(dst, src, 1)
<1>1. K \in Nat \ {0} /\ total \in Nat /\ width \in Nat \ {0} /\ total <= width
  BY MergeIs, LengthIs DEF RoomFor
<1>2. Len(src) = size /\ TileLaid(e, group, src)
  BY TileInputsAre
<1>3. size \in Nat /\ wide \in Nat \ {0} /\ size <= wide
  <2> HIDE DEF K, total
  <2>1. PICK d \in Nat : width = total + d
    <3>1. width - total \in Nat /\ width = total + (width - total)
      BY <1>1
    <3> QED
      BY <3>1
  <2>2. (total + d) * K = total * K + d * K /\ total * K \in Nat /\ d * K \in Nat /\ width * K \in Nat \ {0}
    BY <1>1, <2>1
  <2> QED
    BY <2>1, <2>2
<1>4. DOMAIN dst = 1..wide /\ Len(dst) = wide
  BY DEF RoomFor
<1>5. PadGroupCount(e) = 1
  BY DEF PadGroupCount
<1> HIDE DEF K, size, wide, src, total
<1>6. InGroups(b, src, 1, size, wide)
  <2>1. wide * 1 = wide /\ size * 1 = size /\ 1 \in Nat \ {0}
    BY <1>3
  <2> QED
    BY <1>2, <1>3, <1>4, <2>1, PadsGroups
<1> HIDE DEF b
<1>7. DOMAIN b = 1..wide /\ Len(b) = wide /\ \A t \in 0..(size - 1) : b[t + 1] = src[t + 1]
  <2>1. wide * 1 = wide /\ 0 \in 0..(1 - 1)
    BY <1>3
  <2>2. ASSUME NEW t \in 0..(size - 1) PROVE b[t + 1] = src[t + 1]
    <3>1. t \in 0..(wide - 1) /\ t < size
      BY <1>3
    <3>2. b[0 * wide + t + 1] = src[0 * size + t + 1]
      BY <1>6, <2>1, <3>1 DEF InGroups
    <3>3. 0 * wide + t + 1 = t + 1 /\ 0 * size + t + 1 = t + 1
      BY <1>3
    <3> QED
      BY <3>2, <3>3
  <2> QED
    BY <1>6, <2>1, <2>2 DEF InGroups
<1>8. ASSUME NEW n \in 1..Len(group), NEW j \in 0..(Tiles(group[n]) - 1), NEW y \in 0..(TilePatches(e) - 1)
      PROVE  b[SlotOf(e, TileOf(e, group, n, j), y)] = TilePatch(e, group[n], j, y)
  <2> DEFINE p == SlotOf(e, TileOf(e, group, n, j), y)  t == p - 1
  <2>1. t \in 0..(size - 1)
    BY TilePlaces DEF size, K, total
  <2>2. p \in Int
    <3> DEFINE c == TileOf(e, group, n, j)
    <3>1. c \in Nat /\ TilePatches(e) \in Nat /\ y \in Nat
      BY TileWithin, TileNumbers
    <3> HIDE DEF c
    <3>2. c * TilePatches(e) \in Nat
      BY <3>1
    <3>3. SlotOf(e, c, y) \in Int
      BY <3>1, <3>2 DEF SlotOf
    <3> QED
      BY <3>3 DEF c
  <2>3. src[p] = TilePatch(e, group[n], j, y)
    BY <1>2 DEF TileLaid
  <2> HIDE DEF p
  <2>4. t + 1 = p
    BY <2>2
  <2> HIDE DEF t
  <2>5. b[t + 1] = src[t + 1]
    BY <1>7, <2>1
  <2> QED
    BY <2>3, <2>4, <2>5 DEF p
<1>9. TileLaid(e, group, b)
  BY <1>8 DEF TileLaid
<1>10. TileBuffer(e, group, b, width)
  BY <1>1, <1>7, <1>9 DEF TileBuffer, wide, K, total
<1> QED
  BY <1>5, <1>10 DEF b, src

\* Where query q of window v is in a tile: its patch of offset o, and its token.
PlaceIn(e, v, o, q) == v * PerWindow(e) + o * Queries(e) + q
TokenIn(e, v, q)    == v * Queries(e) + q

LEMMA PlaceWithin ==
    ASSUME NEW e \in Engines, e.kind = "tiles", NEW v \in 0..(Across(e) * Across(e) - 1),
           NEW o \in 0..(PatchesPerToken(e) - 1), NEW q \in 0..(Queries(e) - 1)
    PROVE  /\ o * Queries(e) + q \in 0..(PerWindow(e) - 1)
           /\ PlaceIn(e, v, o, q) = v * PerWindow(e) + (o * Queries(e) + q)
           /\ PlaceIn(e, v, o, q) \in 0..(TilePatches(e) - 1)
           /\ TokenIn(e, v, q) \in 0..(TokensPerTile(e) - 1)
<1> DEFINE K == PatchesPerToken(e)  Q == Queries(e)  W == PerWindow(e)  N == Across(e) * Across(e)
           TP == TilePatches(e)  T == TokensPerTile(e)
<1>1. K \in Nat \ {0} /\ Q \in Nat \ {0} /\ W \in Nat \ {0} /\ N \in Nat \ {0} /\ W = K * Q /\ TP = N * W /\ T = N * Q
  BY TileNumbers
<1> HIDE DEF K, Q, W, N, TP, T
<1> USE DEF PlaceIn, TokenIn
<1>2. o * Q + q \in 0..(W - 1)
  BY <1>1, SumWithin DEF K, Q
<1>3. v * W + (o * Q + q) \in 0..(TP - 1)
  <2> DEFINE y == o * Q + q
  <2>1. y \in 0..(W - 1)
    BY <1>2
  <2> HIDE DEF y
  <2>2. v * W + y \in 0..(N * W - 1)
    BY <1>1, <2>1, SumWithin DEF N
  <2> QED
    BY <1>1, <2>2 DEF y
<1>4. v * Q + q \in 0..(T - 1)
  <2>1. v * Q + q \in 0..(N * Q - 1)
    BY <1>1, SumWithin DEF N, Q
  <2> QED
    BY <1>1, <2>1
<1>5. v * W + o * Q + q = v * W + (o * Q + q)
  <2> DEFINE a == v * W  b == o * Q
  <2>1. a \in Nat /\ b \in Nat /\ q \in Nat
    BY <1>1 DEF N, K
  <2> HIDE DEF a, b
  <2>2. a + b + q = a + (b + q)
    BY <2>1
  <2> QED
    BY <2>2 DEF a, b
<1> HIDE DEF PlaceIn, TokenIn
<1>6. PlaceIn(e, v, o, q) = v * W + (o * Q + q) /\ TokenIn(e, v, q) = v * Q + q
  BY <1>5 DEF PlaceIn, TokenIn, W, Q
<1>7. PlaceIn(e, v, o, q) \in 0..(TP - 1) /\ TokenIn(e, v, q) \in 0..(T - 1)
  BY <1>3, <1>4, <1>6
<1> QED
  BY <1>2, <1>6, <1>7 DEF W, Q, TP, T

\* The patch at such a place: its row and its column in the tile.
WindowRow(e, v, o, q) == (v \div Across(e)) * e.window + (q \div e.query) * e.merge + (o \div e.merge)
WindowCol(e, v, o, q) == (v % Across(e)) * e.window + (q % e.query) * e.merge + (o % e.merge)

LEMMA OrderIs ==
    ASSUME NEW e \in Engines, e.kind = "tiles", NEW v \in 0..(Across(e) * Across(e) - 1),
           NEW o \in 0..(PatchesPerToken(e) - 1), NEW q \in 0..(Queries(e) - 1)
    PROVE  window_major_order(e, PlaceIn(e, v, o, q)) = <<WindowRow(e, v, o, q), WindowCol(e, v, o, q)>>
<1> DEFINE K == PatchesPerToken(e)  Q == Queries(e)  W == PerWindow(e)  p == PlaceIn(e, v, o, q)  y == o * Q + q
<1>1. K \in Nat \ {0} /\ Q \in Nat \ {0} /\ W \in Nat \ {0} /\ W = K * Q
  BY TileNumbers
<1>2. y \in 0..(W - 1) /\ p = v * W + y
  BY PlaceWithin
<1> HIDE DEF p, y, K, W, Q
<1>3. p \div W = v /\ p % W = y
  <2>1. v \in Nat /\ W \in Nat \ {0} /\ y \in 0..(W - 1)
    BY <1>1, <1>2
  <2>2. (v * W + y) \div W = v /\ (v * W + y) % W = y
    BY <2>1, PartsOfSum
  <2> QED
    BY <1>2, <2>2
<1>4. y \div Q = o
  <2>1. (o * Q + q) \div Q = o
    BY <1>1, PartsOfSum DEF Q, K
  <2> QED
    BY <2>1 DEF y
<1>5. p % Q = q
  <2> DEFINE a == v * K + o
  <2>1. a \in Nat
    BY <1>1 DEF K
  <2>2. p = a * Q + q
    <3>1. p = v * (K * Q) + (o * Q + q)
      BY <1>1, <1>2 DEF y
    <3>2. (v * K + o) * Q = v * (K * Q) + o * Q
      BY <1>1 DEF K
    <3> DEFINE b == v * (K * Q)  c == o * Q  d == a * Q
    <3>3. b \in Nat /\ c \in Nat /\ d = b + c /\ p = b + (c + q) /\ q \in Nat
      BY <1>1, <3>1, <3>2 DEF K
    <3> HIDE DEF a, b, c, d
    <3>4. p = d + q
      BY <3>3
    <3> QED
      BY <3>4 DEF d
  <2> HIDE DEF a
  <2>3. (a * Q + q) % Q = q
    BY <1>1, <2>1, PartsOfSum DEF Q
  <2> QED
    BY <2>2, <2>3
<1>6. window_major_order(e, p) =
          <<((p \div W) \div Across(e)) * e.window + ((p % Q) \div e.query) * e.merge + (((p % W) \div Q) \div e.merge),
            ((p \div W) % Across(e)) * e.window + ((p % Q) % e.query) * e.merge + (((p % W) \div Q) % e.merge)>>
  BY Zenon DEF window_major_order, Across, W, Q, PerWindow, Queries
<1>7. window_major_order(e, p) = <<WindowRow(e, v, o, q), WindowCol(e, v, o, q)>>
  BY <1>3, <1>4, <1>5, <1>6, Zenon DEF WindowRow, WindowCol
<1> QED
  BY <1>7 DEF p

LEMMA PairsJoin == ASSUME NEW a, NEW b, NEW c, NEW d PROVE <<a, b>> \o <<c, d>> = <<a, b, c, d>>
<1> DEFINE V == {a, b, c, d}  s == <<a, b>>  t == <<c, d>>  u == s \o t
<1>1. s \in Seq(V) /\ t \in Seq(V) /\ Len(s) = 2 /\ Len(t) = 2 /\ s[1] = a /\ s[2] = b /\ t[1] = c /\ t[2] = d
  OBVIOUS
<1> HIDE DEF V, s, t
<1>2. Joined(V, s, t, u)
  BY <1>1, Appended
<1> HIDE DEF u
<1>3. u \in Seq(V) /\ Len(u) = 4 /\ u[1] = a /\ u[2] = b
  <2>1. 1 \in 1..2 /\ 2 \in 1..2 /\ 2 + 2 = 4
    OBVIOUS
  <2> QED
    BY <1>1, <1>2, <2>1 DEF Joined
<1>4. u[3] = c /\ u[4] = d
  <2>1. 1 \in 1..2 /\ 2 \in 1..2 /\ 2 + 1 = 3 /\ 2 + 2 = 4
    OBVIOUS
  <2> QED
    BY <1>1, <1>2, <2>1 DEF Joined
<1>5. u = <<a, b, c, d>>
  BY <1>3, <1>4
<1> QED
  BY <1>5 DEF u, s, t

\* An image's patch, by tile and place.
Patched(e, item, j, v, o, q) ==
    TilePatch(e, item, j, PlaceIn(e, v, o, q)).patch
        = <<item.id, j + 1, WindowRow(e, v, o, q), WindowCol(e, v, o, q)>>

LEMMA TilePatchIs ==
    ASSUME NEW e \in Engines, e.kind = "tiles", NEW item, NEW j, NEW v \in 0..(Across(e) * Across(e) - 1),
           NEW o \in 0..(PatchesPerToken(e) - 1), NEW q \in 0..(Queries(e) - 1)
    PROVE  Patched(e, item, j, v, o, q)
<1> DEFINE a == item.id  b == j + 1  c == WindowRow(e, v, o, q)  d == WindowCol(e, v, o, q)
<1>1. <<a, b>> \o <<c, d>> = <<a, b, c, d>>
  <2> HIDE DEF a, b, c, d
  <2> QED
    BY PairsJoin
<1>2. TilePatch(e, item, j, PlaceIn(e, v, o, q)).patch = <<item.id, j + 1>> \o window_major_order(e, PlaceIn(e, v, o, q))
  BY DEF TilePatch, Entry
<1>3. window_major_order(e, PlaceIn(e, v, o, q)) = <<c, d>>
  BY OrderIs
<1> QED
  BY <1>1, <1>2, <1>3, Zenon DEF Patched

\* A tile's token: query q of the output's window r.
TokenAt(e, b, r, q) ==
    [of |-> [g \in 1..PatchesPerToken(e) |-> b[r * PerWindow(e) + (g - 1) * Queries(e) + q + 1].patch],
     window |-> {WindowOf(e, b[p].patch) : p \in r * PerWindow(e) + 1..r * PerWindow(e) + PerWindow(e)},
     sees |-> Seen(b, {r * PerWindow(e) + (g - 1) * Queries(e) + q + 1 : g \in 1..PatchesPerToken(e)}, Extents(e, b))]

LEMMA TileProjects ==
    ASSUME NEW e, e.kind # "grid", NEW b, NEW width \in Nat, Len(b) = width * PatchesPerToken(e),
           PatchesPerToken(e) \in Nat \ {0}, NEW t \in 1..width, NEW r, NEW q,
           (t - 1) \div Queries(e) = r, (t - 1) % Queries(e) = q
    PROVE  vision_project(e, b)[t] = TokenAt(e, b, r, q)
<1> DEFINE K == PatchesPerToken(e)
<1>1. Len(b) \div K = width
  <2>1. 0 \in 0..(K - 1) /\ width * K + 0 = width * K /\ K \in Nat \ {0}
    OBVIOUS
  <2> HIDE DEF K
  <2>2. (width * K + 0) \div K = width
    BY <2>1, PartsOfSum
  <2> QED
    BY <2>1, <2>2 DEF K
<1>2. (t - 1) \div (e.query * e.query) = r /\ (t - 1) % (e.query * e.query) = q
  BY DEF Queries
<1> QED
  BY <1>1, <1>2, Zenon DEF vision_project, TokenAt, PerWindow, Queries

\* The same, in the buffer's tile c: query q of its window v.
InTile(e, b, c, v, q) ==
    [of |-> [g \in 1..PatchesPerToken(e) |-> b[SlotOf(e, c, PlaceIn(e, v, g - 1, q))].patch],
     window |-> {WindowOf(e, b[SlotOf(e, c, v * PerWindow(e) + y)].patch) : y \in 0..(PerWindow(e) - 1)},
     sees |-> Seen(b, {SlotOf(e, c, PlaceIn(e, v, g - 1, q)) : g \in 1..PatchesPerToken(e)}, Extents(e, b))]

LEMMA TileProjected ==
    ASSUME NEW e \in Engines, e.kind = "tiles", NEW b, NEW width \in Nat, Len(b) = width * PatchesPerToken(e),
           NEW c \in Nat, c * TokensPerTile(e) + TokensPerTile(e) <= width,
           NEW v \in 0..(Across(e) * Across(e) - 1), NEW q \in 0..(Queries(e) - 1)
    PROVE  /\ c * TokensPerTile(e) + TokenIn(e, v, q) + 1 \in 1..width
           /\ vision_project(e, b)[c * TokensPerTile(e) + TokenIn(e, v, q) + 1] = InTile(e, b, c, v, q)
<1> DEFINE K == PatchesPerToken(e)  Q == Queries(e)  W == PerWindow(e)  N == Across(e) * Across(e)
           TP == TilePatches(e)  T == TokensPerTile(e)  z == TokenIn(e, v, q)  t == c * T + z + 1  r == c * N + v
<1>1. /\ K \in Nat \ {0} /\ Q \in Nat \ {0} /\ W \in Nat \ {0} /\ N \in Nat \ {0} /\ TP \in Nat \ {0} /\ T \in Nat \ {0}
      /\ W = K * Q /\ TP = N * W /\ T = N * Q
  BY TileNumbers
<1>2. z \in 0..(T - 1) /\ z = v * Q + q /\ v \in Nat /\ q \in 0..(Q - 1) /\ v \in 0..(N - 1) /\ q \in Nat
  <2>1. 0 \in 0..(K - 1)
    <3>1. K \in Nat \ {0}
      BY <1>1
    <3> HIDE DEF K
    <3> QED
      BY <3>1
  <2>2. TokenIn(e, v, q) \in 0..(TokensPerTile(e) - 1)
    BY <2>1, PlaceWithin DEF K
  <2>3. v \in Nat /\ q \in Nat /\ q \in 0..(Q - 1) /\ v \in 0..(N - 1)
    OBVIOUS
  <2> QED
    BY <2>2, <2>3 DEF TokenIn
<1> HIDE DEF K, Q, W, N, TP, T, z
<1>3. t \in 1..width /\ t - 1 = c * T + z
  <2> DEFINE a == c * T
  <2>1. a \in Nat /\ a + T <= width
    BY <1>1 DEF T
  <2> HIDE DEF a
  <2>2. a + z + 1 \in 1..width /\ (a + z + 1) - 1 = a + z
    BY <1>1, <1>2, <2>1
  <2> QED
    BY <2>2 DEF a
<1>4. r \in Nat /\ r * Q + q = c * T + z /\ r * W = c * TP + v * W /\ c * TP \in Nat /\ v * W \in Nat
  <2>1. r \in Nat
    BY <1>1, <1>2
  <2>2. (c * N + v) * Q = c * (N * Q) + v * Q /\ (c * N + v) * W = c * (N * W) + v * W
    BY <1>1, <1>2
  <2>3. c * TP \in Nat /\ v * W \in Nat /\ c * T \in Nat /\ v * Q \in Nat
    BY <1>1, <1>2
  <2> DEFINE a == c * T  d == v * Q  x == r * Q
  <2>4. a \in Nat /\ d \in Nat /\ x = a + d /\ z = d + q
    BY <1>1, <1>2, <2>2, <2>3
  <2> HIDE DEF a, d, x
  <2>5. x + q = a + z
    BY <1>2, <2>4
  <2> QED
    BY <1>1, <2>1, <2>2, <2>3, <2>5 DEF a, x
<1> HIDE DEF t, r
<1>5. (t - 1) \div Q = r /\ (t - 1) % Q = q
  <2>1. (r * Q + q) \div Q = r /\ (r * Q + q) % Q = q
    BY <1>1, <1>2, <1>4, PartsOfSum
  <2> QED
    BY <1>3, <1>4, <2>1
<1>6. vision_project(e, b)[t] = TokenAt(e, b, r, q)
  <2>1. e.kind # "grid" /\ PatchesPerToken(e) \in Nat \ {0}
    BY <1>1 DEF K
  <2> QED
    BY <1>3, <1>5, <2>1, TileProjects DEF Q
<1>7. ASSUME NEW g \in 1..K PROVE r * W + (g - 1) * Q + q + 1 = SlotOf(e, c, PlaceIn(e, v, g - 1, q))
  <2>1. SlotOf(e, c, PlaceIn(e, v, g - 1, q)) = c * TP + (v * W + (g - 1) * Q + q) + 1
    BY DEF SlotOf, PlaceIn, TP, W, Q
  <2> DEFINE a == c * TP  d == v * W  x == (g - 1) * Q  y == r * W
  <2>2. a \in Nat /\ d \in Nat /\ x \in Nat /\ y = a + d
    BY <1>1, <1>4
  <2> HIDE DEF a, d, x, y
  <2>3. y + x + q + 1 = a + (d + x + q) + 1
    BY <1>2, <2>2
  <2> QED
    BY <2>1, <2>3 DEF a, d, x, y
<1>8. {WindowOf(e, b[p].patch) : p \in r * W + 1..r * W + W} = {WindowOf(e, b[SlotOf(e, c, v * W + y)].patch) : y \in 0..(W - 1)}
  <2> DEFINE a == c * TP  d == v * W  x == r * W
  <2>1. a \in Nat /\ d \in Nat /\ x = a + d
    BY <1>4
  <2> HIDE DEF a, d, x
  <2>2. ASSUME NEW y \in 0..(W - 1) PROVE x + 1 + y \in x + 1..x + W /\ SlotOf(e, c, d + y) = x + 1 + y
    <3>1. SlotOf(e, c, d + y) = a + (d + y) + 1
      BY DEF SlotOf, a, TP
    <3> QED
      BY <1>1, <2>1, <3>1
  <2>3. ASSUME NEW p \in x + 1..x + W PROVE p - (x + 1) \in 0..(W - 1) /\ SlotOf(e, c, d + (p - (x + 1))) = p
    <3> DEFINE y == p - (x + 1)
    <3>1. y \in 0..(W - 1) /\ x + 1 + y = p
      BY <1>1, <2>1
    <3> HIDE DEF y
    <3> QED
      BY <2>2, <3>1 DEF y
  <2>4. \A p \in x + 1..x + W : \E y \in 0..(W - 1) : SlotOf(e, c, d + y) = p
    BY <2>3
  <2>5. \A y \in 0..(W - 1) : SlotOf(e, c, d + y) \in x + 1..x + W
    BY <2>2
  <2>6. {WindowOf(e, b[p].patch) : p \in x + 1..x + W} = {WindowOf(e, b[SlotOf(e, c, d + y)].patch) : y \in 0..(W - 1)}
    BY <2>4, <2>5, Zenon
  <2> QED
    BY <2>6 DEF x, d
<1>9. [g \in 1..K |-> b[r * W + (g - 1) * Q + q + 1].patch] = [g \in 1..K |-> b[SlotOf(e, c, PlaceIn(e, v, g - 1, q))].patch]
  BY <1>7
<1>10. {r * W + (g - 1) * Q + q + 1 : g \in 1..K} = {SlotOf(e, c, PlaceIn(e, v, g - 1, q)) : g \in 1..K}
  BY <1>7
<1>11. TokenAt(e, b, r, q) = InTile(e, b, c, v, q)
  BY <1>8, <1>9, <1>10, Zenon DEF TokenAt, InTile, K, W, Q
<1> QED
  BY <1>3, <1>6, <1>11 DEF t, z, T

\* A tile's extent of the buffer.
TileExtent(e, c) == {SlotOf(e, c, y) : y \in 0..(TilePatches(e) - 1)}

LEMMA ExtentIs ==
    ASSUME NEW e, TilePatches(e) \in Nat \ {0}, NEW c \in Nat
    PROVE  /\ TileExtent(e, c) = c * TilePatches(e) + 1..(c + 1) * TilePatches(e)
           /\ Cardinality(TileExtent(e, c)) = TilePatches(e)
<1> DEFINE TP == TilePatches(e)  a == c * TP  z == (c + 1) * TP
<1>1. a \in Nat /\ z = a + TP
  BY DEF TP
<1>2. TP \in Nat \ {0}
  OBVIOUS
<1> HIDE DEF a, z, TP
<1>3. \A y : SlotOf(e, c, y) = a + y + 1
  BY DEF SlotOf, a, TP
<1>4. \A p \in a + 1..z : p - (a + 1) \in 0..(TP - 1) /\ a + (p - (a + 1)) + 1 = p
  BY <1>1, <1>2
<1>5. \A y \in 0..(TP - 1) : a + y + 1 \in a + 1..z
  BY <1>1, <1>2
<1>6. \A p \in a + 1..z : \E y \in 0..(TP - 1) : SlotOf(e, c, y) = p
  BY <1>3, <1>4
<1>7. TileExtent(e, c) = a + 1..z
  <2>1. \A y \in 0..(TP - 1) : SlotOf(e, c, y) \in a + 1..z
    BY <1>3, <1>5
  <2>2. {SlotOf(e, c, y) : y \in 0..(TP - 1)} = a + 1..z
    BY <1>6, <2>1, Zenon
  <2> QED
    BY <2>2 DEF TileExtent, TP
<1>8. Cardinality(a + 1..z) = TP
  <2> DEFINE low == a + 1
  <2>1. low \in Int /\ z \in Int /\ ~(low > z) /\ (z - low) + 1 = TP
    BY <1>1, <1>2
  <2> HIDE DEF low
  <2>2. Cardinality(low..z) = IF low > z THEN 0 ELSE z - low + 1
    BY <2>1, FS_Interval
  <2>3. Cardinality(low..z) = z - low + 1
    BY <2>1, <2>2
  <2>4. z - low + 1 = TP
    BY <1>2, <2>1
  <2> QED
    BY <2>3, <2>4 DEF low
<1> QED
  BY <1>7, <1>8 DEF a, z, TP

\* Patches of one tile see the tile and nothing else.
LEMMA TileSight ==
    ASSUME NEW e, e.kind # "grid", TilePatches(e) \in Nat \ {0}, NEW b, Len(b) \in Nat, NEW c \in Nat,
           c * TilePatches(e) + TilePatches(e) <= Len(b), NEW places \in SUBSET TileExtent(e, c), places # {}
    PROVE  Seen(b, places, Extents(e, b)) = Sight(b, TileExtent(e, c))
<1> DEFINE TP == TilePatches(e)  M == Len(b) \div TP  all == {TileExtent(e, d) : d \in 0..(M - 1)}
           met == {x \in all : x \cap places # {}}
<1>1. TP \in Nat \ {0} /\ M \in Nat /\ Len(b) % TP \in 0..(TP - 1) /\ Len(b) = M * TP + (Len(b) % TP)
  <2>1. TP \in Nat \ {0} /\ Len(b) \in Nat
    OBVIOUS
  <2> HIDE DEF TP
  <2> QED
    BY <2>1, Parts
<1> HIDE DEF TP, M
<1>2. c \in 0..(M - 1)
  <2> SUFFICES ASSUME M <= c PROVE FALSE
    BY <1>1
  <2>1. PICK d \in Nat : c = M + d
    <3>1. c - M \in Nat /\ c = M + (c - M)
      BY <1>1
    <3> QED
      BY <3>1
  <2>2. (M + d) * TP = M * TP + d * TP /\ M * TP \in Nat /\ d * TP \in Nat
    BY <1>1
  <2> DEFINE x == M * TP  y == d * TP  z == c * TP  w == Len(b)  r == Len(b) % TP
  <2>3. x \in Nat /\ y \in Nat /\ z = x + y /\ z + TP <= w /\ w = x + r /\ r \in 0..(TP - 1)
    BY <1>1, <2>1, <2>2 DEF TP
  <2> HIDE DEF x, y, z, w, r
  <2> QED
    BY <1>1, <2>3
<1>3. Extents(e, b) = all
  <2>1. Extents(e, b) = {d * TP + 1..(d + 1) * TP : d \in 0..(M - 1)}
    BY DEF Extents, TP, M
  <2>2. \A d \in 0..(M - 1) : TileExtent(e, d) = d * TP + 1..(d + 1) * TP
    <3>1. \A d \in 0..(M - 1) : d \in Nat
      BY <1>1
    <3> QED
      BY <3>1, ExtentIs DEF TP
  <2> QED
    BY <2>1, <2>2, Zenon
<1>4. TileExtent(e, c) \in met
  BY <1>2
<1>5. \A x \in met : x = TileExtent(e, c)
  <2> SUFFICES ASSUME NEW d \in 0..(M - 1), TileExtent(e, d) \cap TileExtent(e, c) # {} PROVE d = c
    BY Zenon
  <2>1. PICK y \in 0..(TP - 1), z \in 0..(TP - 1) : SlotOf(e, d, y) = SlotOf(e, c, z)
    BY DEF TileExtent, TP
  <2>2. d * TP + y + 1 = c * TP + z + 1
    BY <2>1 DEF SlotOf, TP
  <2>3. d \in Nat /\ y \in Nat /\ z \in Nat
    BY <1>1
  <2>4. d * TP + y = c * TP + z
    <3> DEFINE v == d * TP  w == c * TP
    <3>1. v \in Nat /\ w \in Nat /\ v + y + 1 = w + z + 1
      BY <1>1, <2>2, <2>3
    <3> HIDE DEF v, w
    <3>2. v + y = w + z
      BY <2>3, <3>1
    <3> QED
      BY <3>2 DEF v, w
  <2> QED
    BY <1>1, <2>3, <2>4, PartsAreUnique
<1> HIDE DEF all
<1>6. UNION met = TileExtent(e, c)
  BY <1>4, <1>5, Zenon
<1>7. Seen(b, places, Extents(e, b)) = Sight(b, UNION met)
  BY <1>3 DEF Seen
<1> QED
  BY <1>6, <1>7

\* A place's row and column lie in its window.
LEMMA WindowIs ==
    ASSUME NEW e \in Engines, e.kind = "tiles", NEW v \in 0..(Across(e) * Across(e) - 1),
           NEW o \in 0..(PatchesPerToken(e) - 1), NEW q \in 0..(Queries(e) - 1)
    PROVE  /\ WindowRow(e, v, o, q) \div e.window = v \div Across(e)
           /\ WindowCol(e, v, o, q) \div e.window = v % Across(e)
<1> DEFINE k == e.merge  query == e.query  window == e.window  n == Across(e)
           a == v \div n  b == v % n  c == q \div query  d == q % query  x == o \div k  y == o % k
<1>1. k \in Nat \ {0} /\ query \in Nat \ {0} /\ window \in Nat \ {0} /\ n \in Nat \ {0} /\ window = query * k
  BY TileNumbers
<1>2. PatchesPerToken(e) = k * k /\ Queries(e) = query * query
  BY DEF PatchesPerToken, Queries
<1>3. /\ WindowRow(e, v, o, q) = a * window + c * k + x
      /\ WindowCol(e, v, o, q) = b * window + d * k + y
  BY DEF WindowRow, WindowCol
<1>4. v \in Nat /\ o \in Nat /\ q \in Nat /\ o < k * k /\ q < query * query
  <2>1. v \in Nat /\ o \in Nat /\ q \in Nat /\ o < PatchesPerToken(e) /\ q < Queries(e)
    <3>1. PatchesPerToken(e) \in Nat /\ Queries(e) \in Nat
      BY TileNumbers
    <3> QED
      BY <3>1
  <2> QED
    BY <1>2, <2>1
<1> HIDE DEF k, query, window, n
<1>5. a \in Nat /\ b \in Nat
  <2>1. v \in Nat /\ n \in Nat \ {0}
    BY <1>1, <1>4
  <2>2. a \in Nat /\ b \in 0..(n - 1)
    BY <2>1, Parts
  <2> QED
    BY <2>1, <2>2
<1>6. c \in 0..(query - 1) /\ d \in 0..(query - 1) /\ x \in 0..(k - 1) /\ y \in 0..(k - 1)
  BY <1>1, <1>4, Parts, QuotientBelow
<1> HIDE DEF a, b, c, d, x, y
<1>7. ASSUME NEW f \in Nat, NEW g \in 0..(query - 1), NEW h \in 0..(k - 1) PROVE (f * window + g * k + h) \div window = f
  <2>1. g * k + h \in 0..(window - 1)
    BY <1>1, SumWithin
  <2> DEFINE r == g * k + h  u == f * window
  <2>2. u + g * k + h = u + r
    <3> DEFINE s == g * k
    <3>1. s \in Nat /\ u \in Nat /\ h \in Nat
      BY <1>1
    <3> HIDE DEF s, u
    <3>2. u + s + h = u + (s + h)
      BY <3>1
    <3> QED
      BY <3>2 DEF s
  <2>3. r \in 0..(window - 1)
    BY <2>1
  <2> HIDE DEF r
  <2>4. (f * window + r) \div window = f
    BY <1>1, <2>3, PartsOfSum
  <2> QED
    BY <2>2, <2>4
<1>8. WindowRow(e, v, o, q) \div window = a
  BY <1>3, <1>5, <1>6, <1>7
<1>9. WindowCol(e, v, o, q) \div window = b
  BY <1>3, <1>5, <1>6, <1>7
<1> QED
  BY <1>8, <1>9 DEF a, b, n, window

\* What query q of window v of an image's tile j should be.
OwnQuery(e, item, j, v, q) ==
    [of |-> [g \in 1..PatchesPerToken(e) |-> <<item.id, j + 1, WindowRow(e, v, g - 1, q), WindowCol(e, v, g - 1, q)>>],
     window |-> {<<item.id, j + 1, v \div Across(e), v % Across(e)>>},
     sees |-> [sources |-> {<<item.id, j + 1>>}, patches |-> TilePatches(e)]]

\* A window's patches are its offsets' queries.
LEMMA InWindow ==
    ASSUME NEW e \in Engines, e.kind = "tiles", NEW v \in 0..(Across(e) * Across(e) - 1), NEW y \in 0..(PerWindow(e) - 1)
    PROVE  \E o \in 0..(PatchesPerToken(e) - 1), q \in 0..(Queries(e) - 1) :
              v * PerWindow(e) + y = PlaceIn(e, v, o, q)
<1> DEFINE K == PatchesPerToken(e)  Q == Queries(e)  W == PerWindow(e)  o == y \div Q  q == y % Q
<1>1. K \in Nat \ {0} /\ Q \in Nat \ {0} /\ W \in Nat \ {0} /\ W = K * Q
  BY TileNumbers
<1>2. y \in Nat /\ y < K * Q
  <2> HIDE DEF W
  <2> QED
    BY <1>1 DEF W
<1> HIDE DEF K, Q, W
<1>3. o \in 0..(K - 1) /\ q \in 0..(Q - 1) /\ y = o * Q + q
  BY <1>1, <1>2, Parts, QuotientBelow
<1> HIDE DEF o, q
<1>4. PlaceIn(e, v, o, q) = v * W + (o * Q + q)
  BY <1>3, PlaceWithin DEF K, Q, W
<1> QED
  BY <1>3, <1>4 DEF K, Q, W

\* The places of a tile, too.
LEMMA InTileIs ==
    ASSUME NEW e \in Engines, e.kind = "tiles", NEW y \in 0..(TilePatches(e) - 1)
    PROVE  \E v \in 0..(Across(e) * Across(e) - 1), o \in 0..(PatchesPerToken(e) - 1), q \in 0..(Queries(e) - 1) :
              y = PlaceIn(e, v, o, q)
<1> DEFINE N == Across(e) * Across(e)  W == PerWindow(e)  TP == TilePatches(e)  v == y \div W  z == y % W
<1>1. N \in Nat \ {0} /\ W \in Nat \ {0} /\ TP \in Nat \ {0} /\ TP = N * W
  BY TileNumbers
<1>2. y \in Nat /\ y < N * W
  <2> HIDE DEF TP
  <2> QED
    BY <1>1 DEF TP
<1> HIDE DEF N, W, TP
<1>3. v \in 0..(N - 1) /\ z \in 0..(W - 1) /\ y = v * W + z
  BY <1>1, <1>2, Parts, QuotientBelow
<1> HIDE DEF v, z
<1>4. PICK o \in 0..(PatchesPerToken(e) - 1), q \in 0..(Queries(e) - 1) : v * W + z = PlaceIn(e, v, o, q)
  BY <1>3, InWindow DEF N, W
<1> QED
  BY <1>3, <1>4 DEF N

\* A token of a tile is the image's own, whatever is packed with it.
LEMMA TileTokens ==
    ASSUME NEW e \in Engines, e.kind = "tiles", NEW group, Call(e, group), NEW b, NEW width, TileBuffer(e, group, b, width),
           NEW n \in 1..Len(group), NEW j \in 0..(Tiles(group[n]) - 1),
           NEW v \in 0..(Across(e) * Across(e) - 1), NEW q \in 0..(Queries(e) - 1)
    PROVE  LET x == TileOf(e, group, n, j) * TokensPerTile(e) + TokenIn(e, v, q) + 1 IN
           x \in 1..width /\ vision_project(e, b)[x] = OwnQuery(e, group[n], j, v, q)
<1> DEFINE K == PatchesPerToken(e)  c == TileOf(e, group, n, j)  TP == TilePatches(e)  T == TokensPerTile(e)
           item == group[n]  x == c * T + TokenIn(e, v, q) + 1  W == PerWindow(e)
           places == {SlotOf(e, c, PlaceIn(e, v, g - 1, q)) : g \in 1..K}
<1>1. /\ width \in Nat \ {0} /\ LengthOf(e, group) <= width /\ Len(b) = width * K /\ TileLaid(e, group, b)
      /\ LengthOf(e, group) \in Nat
  BY LengthIs DEF TileBuffer
<1>2. c \in Nat /\ c * T + T <= width
  <2>1. c \in Nat /\ c * T + T <= LengthOf(e, group) /\ T \in Nat
    BY TileWithin, TileNumbers
  <2> HIDE DEF c, T
  <2>2. c * T \in Nat
    BY <2>1
  <2> QED
    BY <1>1, <2>1, <2>2
<1>3. K \in Nat \ {0} /\ TP \in Nat \ {0} /\ T \in Nat \ {0} /\ TP = T * K
  BY TileNumbers
<1>4. x \in 1..width /\ vision_project(e, b)[x] = InTile(e, b, c, v, q)
  <2>1. width \in Nat /\ Len(b) = width * PatchesPerToken(e)
    BY <1>1
  <2> HIDE DEF c
  <2> QED
    BY <1>2, <2>1, TileProjected DEF T
<1>5. \A y \in 0..(TP - 1) : b[SlotOf(e, c, y)] = TilePatch(e, item, j, y)
  BY <1>1 DEF TileLaid
<1>6. ASSUME NEW u \in 0..(Across(e) * Across(e) - 1), NEW o \in 0..(K - 1), NEW p \in 0..(Queries(e) - 1)
      PROVE  b[SlotOf(e, c, PlaceIn(e, u, o, p))].patch = <<item.id, j + 1, WindowRow(e, u, o, p), WindowCol(e, u, o, p)>>
  <2>1. PlaceIn(e, u, o, p) \in 0..(TP - 1)
    BY PlaceWithin
  <2>0. o \in 0..(PatchesPerToken(e) - 1)
    OBVIOUS
  <2> HIDE DEF c, item, K, TP, T, W
  <2>2. Patched(e, item, j, u, o, p)
    BY <2>0, TilePatchIs
  <2> QED
    BY <1>5, <2>1, <2>2, Zenon DEF Patched
<1> HIDE DEF c, item
<1>7. Len(b) \in Nat /\ c * TP + TP <= Len(b)
  <2> HIDE DEF K, T, TP
  <2> DEFINE w == c * T + T
  <2>1. w \in Nat /\ w <= width
    BY <1>2, <1>3
  <2>2. c * TP + TP = w * K
    <3>1. (c * T + T) * K = c * (T * K) + T * K
      BY <1>2, <1>3
    <3> QED
      BY <1>3, <3>1
  <2> HIDE DEF w
  <2>3. PICK d \in Nat : width = w + d
    <3>1. width - w \in Nat /\ width = w + (width - w)
      BY <1>1, <2>1
    <3> QED
      BY <3>1
  <2>4. (w + d) * K = w * K + d * K /\ w * K \in Nat /\ d * K \in Nat
    BY <1>3, <2>1
  <2> QED
    BY <1>1, <2>2, <2>3, <2>4
<1>8. Seen(b, places, Extents(e, b)) = Sight(b, TileExtent(e, c))
  <2>1. places \in SUBSET TileExtent(e, c)
    <3> SUFFICES ASSUME NEW g \in 1..K PROVE SlotOf(e, c, PlaceIn(e, v, g - 1, q)) \in TileExtent(e, c)
      OBVIOUS
    <3>1. g - 1 \in 0..(K - 1)
      <4> HIDE DEF K
      <4> QED
        BY <1>3
    <3>2. PlaceIn(e, v, g - 1, q) \in 0..(TP - 1)
      <4> DEFINE o == g - 1
      <4>1. o \in 0..(PatchesPerToken(e) - 1)
        BY <3>1
      <4> HIDE DEF o
      <4>2. PlaceIn(e, v, o, q) \in 0..(TP - 1)
        BY <4>1, PlaceWithin
      <4> QED
        BY <4>2 DEF o
    <3> QED
      BY <3>2 DEF TileExtent
  <2>2. places # {}
    <3>1. 1 \in 1..K
      <4> HIDE DEF K
      <4> QED
        BY <1>3
    <3> QED
      BY <3>1
  <2>3. e.kind # "grid" /\ TilePatches(e) \in Nat \ {0}
    BY <1>3
  <2> HIDE DEF places
  <2> QED
    BY <1>2, <1>7, <2>1, <2>2, <2>3, TileSight DEF TP
<1>9. Sight(b, TileExtent(e, c)) = [sources |-> {<<item.id, j + 1>>}, patches |-> TP]
  <2>1. Cardinality(TileExtent(e, c)) = TP
    BY <1>2, <1>3, ExtentIs
  <2>2. ASSUME NEW p \in TileExtent(e, c) PROVE Source(b[p].patch) = <<item.id, j + 1>>
    <3>1. PICK y \in 0..(TP - 1) : p = SlotOf(e, c, y)
      BY DEF TileExtent
    <3>2. PICK u \in 0..(Across(e) * Across(e) - 1), o \in 0..(K - 1), z \in 0..(Queries(e) - 1) : y = PlaceIn(e, u, o, z)
      BY InTileIs
    <3>3. b[p].patch = <<item.id, j + 1, WindowRow(e, u, o, z), WindowCol(e, u, o, z)>>
      BY <1>6, <3>1, <3>2
    <3> QED
      BY <3>3 DEF Source, NoPatch
  <2>3. TileExtent(e, c) # {}
    <3>1. 0 \in 0..(TP - 1)
      <4> HIDE DEF TP
      <4> QED
        BY <1>3
    <3> QED
      BY <3>1 DEF TileExtent
  <2>4. {Source(b[p].patch) : p \in TileExtent(e, c)} = {<<item.id, j + 1>>}
    BY <2>2, <2>3
  <2> QED
    BY <2>1, <2>4 DEF Sight
<1>10. {WindowOf(e, b[SlotOf(e, c, v * W + y)].patch) : y \in 0..(W - 1)}
           = {<<item.id, j + 1, v \div Across(e), v % Across(e)>>}
  <2>1. ASSUME NEW y \in 0..(W - 1)
        PROVE  WindowOf(e, b[SlotOf(e, c, v * W + y)].patch) = <<item.id, j + 1, v \div Across(e), v % Across(e)>>
    <3>1. PICK o \in 0..(K - 1), z \in 0..(Queries(e) - 1) : v * W + y = PlaceIn(e, v, o, z)
      BY InWindow
    <3> DEFINE row == WindowRow(e, v, o, z)  col == WindowCol(e, v, o, z)  patch == b[SlotOf(e, c, v * W + y)].patch
    <3>2. patch = <<item.id, j + 1, row, col>>
      BY <1>6, <3>1
    <3>3. row \div e.window = v \div Across(e) /\ col \div e.window = v % Across(e)
      BY WindowIs
    <3> HIDE DEF row, col, patch
    <3>4. WindowOf(e, patch) = <<item.id, j + 1, row \div e.window, col \div e.window>>
      BY <3>2 DEF WindowOf, NoPatch
    <3> QED
      BY <3>3, <3>4 DEF patch
  <2>2. 0 \in 0..(W - 1)
    <3>1. W \in Nat \ {0}
      BY TileNumbers
    <3> HIDE DEF W
    <3> QED
      BY <3>1
  <2> QED
    BY <2>1, <2>2
<1>11. [g \in 1..K |-> b[SlotOf(e, c, PlaceIn(e, v, g - 1, q))].patch]
           = [g \in 1..K |-> <<item.id, j + 1, WindowRow(e, v, g - 1, q), WindowCol(e, v, g - 1, q)>>]
  <2>1. ASSUME NEW g \in 1..K
        PROVE  b[SlotOf(e, c, PlaceIn(e, v, g - 1, q))].patch = <<item.id, j + 1, WindowRow(e, v, g - 1, q), WindowCol(e, v, g - 1, q)>>
    <3> DEFINE o == g - 1
    <3>1. o \in 0..(K - 1)
      <4> HIDE DEF K
      <4> QED
        BY <1>3
    <3> HIDE DEF o
    <3>2. b[SlotOf(e, c, PlaceIn(e, v, o, q))].patch = <<item.id, j + 1, WindowRow(e, v, o, q), WindowCol(e, v, o, q)>>
      BY <1>6, <3>1
    <3> QED
      BY <3>2 DEF o
  <2> QED
    BY <2>1
<1>12. InTile(e, b, c, v, q) = OwnQuery(e, item, j, v, q)
  <2>1. InTile(e, b, c, v, q) =
            [of |-> [g \in 1..K |-> b[SlotOf(e, c, PlaceIn(e, v, g - 1, q))].patch],
             window |-> {WindowOf(e, b[SlotOf(e, c, v * W + y)].patch) : y \in 0..(W - 1)},
             sees |-> Seen(b, places, Extents(e, b))]
    BY DEF InTile
  <2>2. OwnQuery(e, item, j, v, q) =
            [of |-> [g \in 1..K |-> <<item.id, j + 1, WindowRow(e, v, g - 1, q), WindowCol(e, v, g - 1, q)>>],
             window |-> {<<item.id, j + 1, v \div Across(e), v % Across(e)>>},
             sees |-> [sources |-> {<<item.id, j + 1>>}, patches |-> TP]]
    BY DEF OwnQuery
  <2> HIDE DEF places, K, W, TP
  <2> QED
    BY <1>8, <1>9, <1>10, <1>11, <2>1, <2>2, Zenon
<1> QED
  BY <1>4, <1>12 DEF c, item

\* The window and the query of a tile's token at a row and column.
RasterWindow(e, row, col) == (row \div e.query) * Across(e) + (col \div e.query)
RasterQuery(e, row, col)  == (row % e.query) * e.query + (col % e.query)

\* A row of tokens is a row of windows' rows of queries.
RowCut(query, k, window, row) ==
    /\ row * k = (row \div query) * window + (row % query) * k
    /\ (row * k) \div window = row \div query

LEMMA RowInWindow ==
    ASSUME NEW query \in Nat \ {0}, NEW k \in Nat \ {0}, NEW window \in Nat, window = query * k, NEW row \in Nat
    PROVE  RowCut(query, k, window, row)
<1> DEFINE a == row \div query  b == row % query
<1>1. a \in Nat /\ b \in 0..(query - 1) /\ row = a * query + b
  BY Parts
<1> HIDE DEF a, b
<1>2. row * k = a * window + b * k
  <2>1. (a * query + b) * k = a * (query * k) + b * k
    BY <1>1
  <2> QED
    BY <1>1, <2>1
<1>3. b * k \in 0..(window - 1)
  <2>1. 0 \in 0..(k - 1)
    OBVIOUS
  <2>2. b * k + 0 \in 0..(query * k - 1)
    BY <1>1, <2>1, SumWithin
  <2> DEFINE c == b * k
  <2>3. c \in Nat /\ c + 0 \in 0..(window - 1)
    BY <1>1, <2>2
  <2> HIDE DEF c
  <2>4. c \in 0..(window - 1)
    BY <2>3
  <2> QED
    BY <2>4 DEF c
<1>4. (row * k) \div window = a
  <2> DEFINE c == b * k
  <2>1. c \in 0..(window - 1) /\ row * k = a * window + c /\ window \in Nat \ {0}
    <3>1. query * k \in Nat \ {0}
      OBVIOUS
    <3> QED
      BY <1>2, <1>3, <3>1
  <2> HIDE DEF c
  <2>2. (a * window + c) \div window = a
    BY <1>1, <2>1, PartsOfSum
  <2> QED
    BY <2>1, <2>2
<1> QED
  BY <1>2, <1>4 DEF a, b, RowCut

LEMMA RasterIs ==
    ASSUME NEW e \in Engines, e.kind = "tiles",
           NEW row \in 0..(Across(e) * e.query - 1), NEW col \in 0..(Across(e) * e.query - 1)
    PROVE  LET v == RasterWindow(e, row, col)  q == RasterQuery(e, row, col) IN
           /\ v \in 0..(Across(e) * Across(e) - 1) /\ q \in 0..(Queries(e) - 1)
           /\ v \div Across(e) = (row * e.merge) \div e.window /\ v % Across(e) = (col * e.merge) \div e.window
           /\ \A o : /\ WindowRow(e, v, o, q) = row * e.merge + (o \div e.merge)
                     /\ WindowCol(e, v, o, q) = col * e.merge + (o % e.merge)
<1> DEFINE k == e.merge  query == e.query  window == e.window  n == Across(e)
           a == row \div query  b == row % query  c == col \div query  d == col % query
           v == RasterWindow(e, row, col)  q == RasterQuery(e, row, col)
<1>1. /\ k \in Nat \ {0} /\ query \in Nat \ {0} /\ window \in Nat \ {0} /\ n \in Nat \ {0} /\ window = query * k
      /\ n * query \in Nat
  BY TileNumbers
<1>2. row \in Nat /\ col \in Nat /\ row < n * query /\ col < n * query
  <2> DEFINE z == n * query
  <2>1. z \in Nat /\ row \in 0..(z - 1) /\ col \in 0..(z - 1)
    BY <1>1
  <2> HIDE DEF z
  <2>2. row \in Nat /\ col \in Nat /\ row < z /\ col < z
    BY <2>1
  <2> QED
    BY <2>2 DEF z
<1>3. v = a * n + c /\ q = b * query + d
  BY DEF RasterWindow, RasterQuery
<1> HIDE DEF k, query, window, n, v, q
<1>4. a \in 0..(n - 1) /\ c \in 0..(n - 1)
  BY <1>1, <1>2, QuotientBelow
<1>5. b \in 0..(query - 1) /\ d \in 0..(query - 1)
  BY <1>1, <1>2, Parts
<1>6. /\ row * k = a * window + b * k /\ (row * k) \div window = a
      /\ col * k = c * window + d * k /\ (col * k) \div window = c
  <2>1. /\ window \in Nat /\ query \in Nat \ {0} /\ k \in Nat \ {0} /\ window = query * k
        /\ row \in Nat /\ col \in Nat
    BY <1>1, <1>2
  <2>2. RowCut(query, k, window, row) /\ RowCut(query, k, window, col)
    BY <2>1, RowInWindow
  <2> QED
    BY <2>2, Zenon DEF RowCut
<1> HIDE DEF a, b, c, d
<1>7. v \in 0..(n * n - 1) /\ q \in 0..(query * query - 1)
  BY <1>1, <1>3, <1>4, <1>5, SumWithin
<1>8. v \div n = a /\ v % n = c
  <2>1. a \in Nat
    BY <1>4
  <2> QED
    BY <1>1, <1>3, <1>4, <2>1, PartsOfSum
<1>9. q \div query = b /\ q % query = d
  <2>1. b \in Nat
    BY <1>5
  <2> QED
    BY <1>1, <1>3, <1>5, <2>1, PartsOfSum
<1>10. \A o : /\ WindowRow(e, v, o, q) = row * k + (o \div k)
              /\ WindowCol(e, v, o, q) = col * k + (o % k)
  <2> SUFFICES ASSUME NEW o PROVE /\ WindowRow(e, v, o, q) = row * k + (o \div k)
                                  /\ WindowCol(e, v, o, q) = col * k + (o % k)
    OBVIOUS
  <2>1. /\ WindowRow(e, v, o, q) = (v \div n) * window + (q \div query) * k + (o \div k)
        /\ WindowCol(e, v, o, q) = (v % n) * window + (q % query) * k + (o % k)
    BY DEF WindowRow, WindowCol, n, window, query, k
  <2>2. a * window + b * k = row * k /\ c * window + d * k = col * k
    BY <1>6
  <2> QED
    BY <1>8, <1>9, <2>1, <2>2, Zenon
<1>11. Queries(e) = query * query
  BY DEF Queries, query
<1> QED
  BY <1>6, <1>7, <1>8, <1>10, <1>11 DEF v, q, n, k, window, query

\* What an image's token should be, by tile, row and column.
LEMMA TileOwn ==
    ASSUME NEW e \in Engines, e.kind = "tiles", NEW item \in Item, NEW j \in 0..(Tiles(item) - 1),
           NEW row \in 0..(Across(e) * e.query - 1), NEW col \in 0..(Across(e) * e.query - 1),
           NEW t \in 1..Tokens(e, item), t - 1 = j * TokensPerTile(e) + (row * (Across(e) * e.query) + col)
    PROVE  OwnTokens(e, item)[t] = OwnQuery(e, item, j, RasterWindow(e, row, col), RasterQuery(e, row, col))
<1> DEFINE k == e.merge  width == Across(e) * e.query  T == TokensPerTile(e)  K == PatchesPerToken(e)
           v == RasterWindow(e, row, col)  q == RasterQuery(e, row, col)  z == row * width + col
<1>1. /\ width \in Nat \ {0} /\ T \in Nat \ {0} /\ T = width * width /\ e.side \div k = width /\ k \in Nat \ {0}
      /\ TilePatches(e) = T * K /\ K = k * k
  BY TileNumbers, MergeIs
<1>2. j \in Nat
  OBVIOUS
<1>3. row \in Nat /\ col \in Nat /\ row \in 0..(width - 1) /\ col \in 0..(width - 1)
  OBVIOUS
<1> HIDE DEF width, T, K, v, q
<1>4. z \in 0..(T - 1) /\ z \div width = row /\ z % width = col
  <2>1. z \in 0..(width * width - 1)
    BY <1>1, <1>3, SumWithin
  <2> QED
    BY <1>1, <1>3, <2>1, PartsOfSum
<1>5. t - 1 = j * T + z
  BY DEF T, width
<1> HIDE DEF z
<1>6. (t - 1) \div T = j /\ (t - 1) % T = z
  <2>1. T \in Nat \ {0} /\ z \in 0..(T - 1)
    BY <1>1, <1>4
  <2>2. (j * T + z) \div T = j /\ (j * T + z) % T = z
    BY <1>2, <2>1, PartsOfSum
  <2> QED
    BY <1>5, <2>2
<1>7. OwnTokens(e, item)[t] =
          [of |-> Square(item.id, ((t - 1) \div (width * width)) + 1, ((t - 1) % (width * width)) \div width,
                         ((t - 1) % (width * width)) % width, k),
           window |-> {<<item.id, ((t - 1) \div (width * width)) + 1,
                         ((((t - 1) % (width * width)) \div width) * k) \div e.window,
                         ((((t - 1) % (width * width)) % width) * k) \div e.window>>},
           sees |-> [sources |-> {<<item.id, ((t - 1) \div (width * width)) + 1>>}, patches |-> width * width * k * k]]
  BY <1>1 DEF OwnTokens
<1>8. OwnTokens(e, item)[t] =
          [of |-> Square(item.id, j + 1, row, col, k),
           window |-> {<<item.id, j + 1, (row * k) \div e.window, (col * k) \div e.window>>},
           sees |-> [sources |-> {<<item.id, j + 1>>}, patches |-> width * width * k * k]]
  <2>1. (t - 1) \div (width * width) = j /\ (t - 1) % (width * width) = z
    BY <1>1, <1>6
  <2> QED
    BY <1>4, <1>7, <2>1, Zenon
<1>9. width * width * k * k = TilePatches(e)
  <2>1. width * width * k * k = (width * width) * (k * k)
    BY <1>1
  <2> QED
    BY <1>1, <2>1
<1>10. /\ v \div Across(e) = (row * k) \div e.window /\ v % Across(e) = (col * k) \div e.window
       /\ \A o : /\ WindowRow(e, v, o, q) = row * k + (o \div k)
                 /\ WindowCol(e, v, o, q) = col * k + (o % k)
  BY RasterIs DEF v, q
<1>11. Square(item.id, j + 1, row, col, k)
           = [g \in 1..K |-> <<item.id, j + 1, WindowRow(e, v, g - 1, q), WindowCol(e, v, g - 1, q)>>]
  <2>1. Square(item.id, j + 1, row, col, k)
           = [g \in 1..K |-> <<item.id, j + 1, row * k + ((g - 1) \div k), col * k + ((g - 1) % k)>>]
    BY <1>1 DEF Square
  <2> HIDE DEF k
  <2> QED
    BY <1>10, <2>1, Zenon
<1>12. OwnQuery(e, item, j, v, q) =
          [of |-> [g \in 1..K |-> <<item.id, j + 1, WindowRow(e, v, g - 1, q), WindowCol(e, v, g - 1, q)>>],
           window |-> {<<item.id, j + 1, v \div Across(e), v % Across(e)>>},
           sees |-> [sources |-> {<<item.id, j + 1>>}, patches |-> TilePatches(e)]]
  BY DEF OwnQuery, K
<1> HIDE DEF k
<1>13. OwnTokens(e, item)[t] = OwnQuery(e, item, j, v, q)
  BY <1>8, <1>9, <1>10, <1>11, <1>12, Zenon
<1> QED
  BY <1>13 DEF v, q

\* Where unwindow takes token t of an image from.
Unwound(e, t) ==
    LET row == ((t - 1) % TokensPerTile(e)) \div (Across(e) * e.query)  col == (t - 1) % (Across(e) * e.query) IN
    ((t - 1) \div TokensPerTile(e)) * TokensPerTile(e) + RasterWindow(e, row, col) * e.query * e.query
        + RasterQuery(e, row, col) + 1

LEMMA UnwindowIs ==
    ASSUME NEW e, NEW f, NEW t \in DOMAIN f
    PROVE  unwindow(e, f)[t] = f[Unwound(e, t)]
BY DEF unwindow, Unwound, RasterWindow, RasterQuery, Across

\* A token's tile, and its row and column there.
LEMMA TokenSplits ==
    ASSUME NEW e \in Engines, e.kind = "tiles", NEW d \in Nat, NEW t \in 1..d * TokensPerTile(e)
    PROVE  \E j \in 0..(d - 1), row \in 0..(Across(e) * e.query - 1), col \in 0..(Across(e) * e.query - 1) :
              /\ t - 1 = j * TokensPerTile(e) + (row * (Across(e) * e.query) + col)
              /\ Unwound(e, t) = j * TokensPerTile(e)
                                 + TokenIn(e, RasterWindow(e, row, col), RasterQuery(e, row, col)) + 1
<1> DEFINE T == TokensPerTile(e)  width == Across(e) * e.query  u == t - 1  j == u \div T  z == u % T
           row == z \div width  col == z % width
<1>1. T \in Nat \ {0} /\ width \in Nat \ {0} /\ T = width * width /\ e.query \in Nat \ {0}
  BY TileNumbers
<1>2. u \in Nat /\ u < d * T
  <2> DEFINE a == d * T
  <2>1. a \in Nat /\ t \in 1..a
    BY <1>1
  <2> HIDE DEF a
  <2>2. u \in Nat /\ u < a
    BY <2>1
  <2> QED
    BY <2>2 DEF a
<1> HIDE DEF T, width, u
<1>3. j \in 0..(d - 1) /\ z \in 0..(T - 1) /\ u = j * T + z
  BY <1>1, <1>2, Parts, QuotientBelow
<1> HIDE DEF j, z
<1>4. row \in 0..(width - 1) /\ col \in 0..(width - 1) /\ z = row * width + col
  <2>1. z \in Nat /\ z < width * width
    BY <1>1, <1>3
  <2> QED
    BY <1>1, <2>1, Parts, QuotientBelow
<1> HIDE DEF row, col
<1>5. u % width = col
  <2> DEFINE a == j * width + row
  <2>1. a \in Nat
    BY <1>1, <1>3, <1>4
  <2>2. u = a * width + col
    <3>1. (j * width + row) * width = j * (width * width) + row * width
      BY <1>1, <1>3, <1>4
    <3> DEFINE x == j * T  y == row * width  w == a * width
    <3>2. x \in Nat /\ y \in Nat /\ w = x + y /\ u = x + (y + col) /\ col \in Nat
      BY <1>1, <1>3, <1>4, <3>1
    <3> HIDE DEF a, x, y, w
    <3>3. u = w + col
      BY <3>2
    <3> QED
      BY <3>3 DEF w
  <2> HIDE DEF a
  <2>3. (a * width + col) % width = col
    BY <1>1, <1>4, <2>1, PartsOfSum
  <2> QED
    BY <2>2, <2>3
<1> DEFINE v == RasterWindow(e, row, col)  q == RasterQuery(e, row, col)
<1>6. v \in Nat
  BY <1>4, RasterIs DEF width
<1> HIDE DEF v, q
<1>7. Unwound(e, t) = j * T + v * e.query * e.query + q + 1
  <2>1. Unwound(e, t) = (u \div T) * T + RasterWindow(e, (u % T) \div width, u % width) * e.query * e.query
                         + RasterQuery(e, (u % T) \div width, u % width) + 1
    BY DEF Unwound, T, width, u
  <2>2. u \div T = j /\ (u % T) \div width = row
    BY DEF j, row, z
  <2> QED
    BY <1>5, <2>1, <2>2, Zenon DEF v, q
<1>8. v * e.query * e.query = v * Queries(e)
  BY <1>1, <1>6 DEF Queries
<1>9. Unwound(e, t) = j * T + TokenIn(e, v, q) + 1
  <2> DEFINE x == j * T  y == v * Queries(e)
  <2>1. x \in Nat /\ y \in Nat /\ q \in Nat
    <3>1. Queries(e) \in Nat
      BY TileNumbers
    <3>2. q \in 0..(Queries(e) - 1)
      BY <1>4, RasterIs DEF width, q
    <3> QED
      BY <1>1, <1>3, <1>6, <3>1, <3>2
  <2>2. Unwound(e, t) = x + y + q + 1
    BY <1>7, <1>8
  <2>3. TokenIn(e, v, q) = y + q
    BY DEF TokenIn
  <2> HIDE DEF x, y
  <2>4. Unwound(e, t) = x + (y + q) + 1
    BY <2>1, <2>2
  <2> QED
    BY <2>3, <2>4 DEF x
<1>10. t - 1 = j * T + (row * width + col)
  BY <1>3, <1>4 DEF u
<1> QED
  BY <1>3, <1>4, <1>9, <1>10, Zenon DEF T, width, v, q

\* What a tile call returns for an image is what it should be.
LEMMA TileAnswers ==
    ASSUME NEW e \in Engines, e.kind = "tiles", NEW group, Call(e, group), NEW b, NEW width, TileBuffer(e, group, b, width),
           NEW n \in 1..Len(group)
    PROVE  postprocess_encoder_output(e, vision_project(e, b), group)[n] = OwnTokens(e, group[n])
<1> DEFINE K == PatchesPerToken(e)  s == Starts(e, group)  item == group[n]  m0 == Tokens(e, item)
           out == vision_project(e, b)  T == TokensPerTile(e)  d == Tiles(item)  f == RunOf(out, s[n], m0)
<1>1. width \in Nat /\ LengthOf(e, group) <= width /\ K \in Nat \ {0} /\ Len(b) = width * K /\ m0 \in Nat
      /\ DOMAIN group = 1..Len(group) /\ s[n] \in Nat /\ item \in Item
  <2>1. Len(group) \in Nat /\ Sized(e, group) /\ RunsOn(e, group, s)
    BY CallSizes, StartsOf
  <2>2. s[n] \in Nat
    <3> HIDE DEF s
    <3> QED
      BY <2>1 DEF RunsOn
  <2> QED
    BY <2>1, <2>2, CallSizes, MergeIs DEF TileBuffer, Sized
<1>2. Len(b) \div K = width
  <2>1. 0 \in 0..(K - 1) /\ width * K + 0 = width * K
    BY <1>1
  <2> HIDE DEF K
  <2>2. (width * K + 0) \div K = width
    BY <1>1, <2>1, PartsOfSum
  <2> QED
    BY <1>1, <2>1, <2>2
<1>3. DOMAIN out = 1..width /\ out = [x \in 1..width |-> out[x]]
  BY <1>2 DEF vision_project
<1> HIDE DEF out
<1>4. SubSeq(out, s[n] + 1, s[n + 1]) = f
  BY <1>1, <1>3, RunIs
<1>5. postprocess_encoder_output(e, out, group)[n] = unwindow(e, f)
  <2>1. n \in DOMAIN group /\ e.kind # "grid"
    BY <1>1
  <2>2. postprocess_encoder_output(e, out, group)[n] = unwindow(e, SubSeq(out, s[n] + 1, s[n + 1]))
    BY <2>1 DEF postprocess_encoder_output
  <2> QED
    BY <1>4, <2>2
<1>6. d \in Nat /\ m0 = d * T /\ T \in Nat \ {0} /\ d # 0
  <2>1. item.h \in Nat /\ item.w \in Nat
    BY <1>1 DEF Item
  <2>2. item.h * item.w \in Nat
    BY <2>1
  <2>3. T \in Nat \ {0}
    BY TileNumbers
  <2>4. m0 = d * T
    BY DEF Tokens
  <2>5. d = item.h * item.w + 1
    BY DEF Tiles
  <2> HIDE DEF m0, d, T, item
  <2>6. d \in Nat /\ d # 0
    <3> DEFINE a == item.h * item.w
    <3>1. a \in Nat /\ d = a + 1
      BY <2>2, <2>5
    <3> HIDE DEF a
    <3> QED
      BY <3>1
  <2> QED
    BY <2>3, <2>4, <2>6
<1>7. DOMAIN f = 1..m0 /\ \A i \in 1..m0 : f[i] = out[s[n] + i]
  BY DEF RunOf
<1> HIDE DEF f, s, item, m0, d
<1>8. ASSUME NEW t \in 1..m0 PROVE unwindow(e, f)[t] = OwnTokens(e, item)[t]
  <2>1. PICK j \in 0..(d - 1), row \in 0..(Across(e) * e.query - 1), col \in 0..(Across(e) * e.query - 1) :
              /\ t - 1 = j * T + (row * (Across(e) * e.query) + col)
              /\ Unwound(e, t) = j * T + TokenIn(e, RasterWindow(e, row, col), RasterQuery(e, row, col)) + 1
    <3>1. t \in 1..d * TokensPerTile(e)
      BY <1>6
    <3> QED
      BY <1>6, <3>1, TokenSplits
  <2> DEFINE v == RasterWindow(e, row, col)  q == RasterQuery(e, row, col)  z == TokenIn(e, v, q)
             c == TileOf(e, group, n, j)  x == c * T + z + 1  y == j * T + z + 1
  <2>2. v \in 0..(Across(e) * Across(e) - 1) /\ q \in 0..(Queries(e) - 1)
    BY RasterIs
  <2>3. OwnTokens(e, item)[t] = OwnQuery(e, item, j, v, q)
    <3>1. t \in 1..Tokens(e, item) /\ item \in Item /\ j \in 0..(Tiles(item) - 1)
      BY <1>1 DEF m0, d
    <3> HIDE DEF v, q
    <3> QED
      BY <2>1, <3>1, TileOwn DEF v, q, T
  <2> HIDE DEF v, q
  <2>4. j \in 0..(Tiles(group[n]) - 1)
    BY DEF d, item
  <2>5. out[x] = OwnQuery(e, item, j, v, q)
    BY <2>2, <2>4, TileTokens DEF out, item
  <2>6. z \in 0..(T - 1)
    <3>1. 0 \in 0..(PatchesPerToken(e) - 1)
      <4> HIDE DEF K
      <4>1. 0 \in 0..(K - 1)
        BY <1>1
      <4> QED
        BY <4>1 DEF K
    <3> QED
      BY <2>2, <3>1, PlaceWithin
  <2> HIDE DEF z
  <2>7. y \in 1..m0 /\ x = s[n] + y
    <3>1. /\ c * T = s[n] + j * T /\ j * T \in Nat /\ j * T + T <= m0 /\ s[n] \in Nat
      BY <2>4, TileWithin DEF s, m0, item
    <3> DEFINE a == c * T  b0 == j * T  i == s[n]
    <3>2. a = i + b0 /\ b0 \in Nat /\ b0 + T <= m0 /\ i \in Nat /\ z \in 0..(T - 1) /\ m0 \in Nat /\ T \in Nat
      BY <1>1, <1>6, <2>6, <3>1
    <3> HIDE DEF a, b0, i, T
    <3>3. b0 + z + 1 \in 1..m0 /\ a + z + 1 = i + (b0 + z + 1)
      BY <3>2
    <3> QED
      BY <3>3 DEF a, b0, i
  <2>8. f[y] = out[x]
    <3> HIDE DEF x, y
    <3> QED
      BY <1>7, <2>7
  <2>9. unwindow(e, f)[t] = f[y]
    <3>1. Unwound(e, t) = y
      BY <2>1 DEF v, q, z
    <3>2. unwindow(e, f)[t] = f[Unwound(e, t)]
      <4>1. t \in DOMAIN f
        BY <1>7
      <4> QED
        BY <4>1, UnwindowIs
    <3> QED
      BY <3>1, <3>2
  <2> QED
    BY <2>3, <2>5, <2>8, <2>9
<1>9. DOMAIN OwnTokens(e, item) = 1..m0 /\ OwnTokens(e, item) = [t \in 1..m0 |-> OwnTokens(e, item)[t]]
  BY DEF OwnTokens, m0
<1>10. unwindow(e, f) = [t \in 1..m0 |-> unwindow(e, f)[t]]
  BY <1>7 DEF unwindow
<1>11. unwindow(e, f) = OwnTokens(e, item)
  BY <1>8, <1>9, <1>10
<1> QED
  BY <1>5, <1>11 DEF out, item

(***************************************************************************)
(* The calls that are made.                                                *)
(***************************************************************************)
\* A set of the engine's images has as many names.
LEMMA ImagesOf ==
    ASSUME ItemsInv, NEW S \in SUBSET DOMAIN items
    PROVE  LET Q == {items[n] : n \in S} IN
           /\ IsFiniteSet(S) /\ IsFiniteSet(Q) /\ Cardinality(Q) = Cardinality(S)
           /\ \A x \in Q : x \in Item /\ x.id \in S /\ x = items[x.id]
           /\ \A x, y \in Q : x.id = y.id => x = y
<1> DEFINE Q == {items[n] : n \in S}  f == [n \in S |-> items[n]]
<1>1. \A n \in S : items[n] \in Item /\ items[n].id = n
  BY ItemsAre
<1>2. IsFiniteSet(S)
  <2>1. DOMAIN items = 1..Len(items) /\ Len(items) \in Nat
    BY DEF ItemsInv
  <2>2. S \in SUBSET Nat /\ \A k \in S : k <= Len(items)
    BY <2>1
  <2> QED
    BY <2>1, <2>2, FS_BoundedSetOfNaturals
<1>3. \A x \in Q : x \in Item /\ x.id \in S /\ x = items[x.id]
  BY <1>1
<1>4. f \in [S -> Q] /\ \A y \in Q : \E n \in S : f[n] = y
  OBVIOUS
<1>5. \A x, y \in S : f[x] = f[y] => x = y
  <2> SUFFICES ASSUME NEW x \in S, NEW y \in S, items[x] = items[y] PROVE x = y
    OBVIOUS
  <2> QED
    BY <1>1
<1> HIDE DEF f, Q
<1>6. f \in Bijection(S, Q)
  BY <1>4, <1>5 DEF Bijection, Injection, IsInjective, Surjection
<1>7. IsFiniteSet(Q) /\ Cardinality(Q) = Cardinality(S)
  BY <1>2, <1>6, FS_Bijection DEF ExistsBijection
<1>8. \A x, y \in Q : x.id = y.id => x = y
  BY <1>3
<1> QED
  BY <1>2, <1>3, <1>7, <1>8 DEF Q

\* Some of the engine's images in a row, one after another.
GroupOf(S, group) ==
    /\ group \in Seq(Item) /\ DOMAIN group = 1..Len(group) /\ Len(group) = Cardinality(S)
    /\ \A i, j \in DOMAIN group : group[i].id = group[j].id => i = j
    /\ \A i \in DOMAIN group : group[i].id \in S /\ group[i] = items[group[i].id]

LEMMA InRow ==
    ASSUME ItemsInv, NEW S \in SUBSET DOMAIN items, NEW group \in SetToSeqs({items[n] : n \in S})
    PROVE  GroupOf(S, group)
<1> DEFINE Q == {items[n] : n \in S}  k == Cardinality(Q)
<1>1. /\ IsFiniteSet(Q) /\ k = Cardinality(S)
      /\ \A x \in Q : x \in Item /\ x.id \in S /\ x = items[x.id]
      /\ \A x, y \in Q : x.id = y.id => x = y
  BY ImagesOf
<1>2. k \in Nat
  <2> HIDE DEF Q
  <2> QED
    BY <1>1, FS_CardinalityType
<1>3. group \in [1..k -> Q] /\ \A i, j \in 1..k : i # j => group[i] # group[j]
  BY DEF SetToSeqs
<1> HIDE DEF Q, k
<1>4. Q \in SUBSET Item
  BY <1>1
<1>5. group \in Seq(Item) /\ Len(group) = k /\ DOMAIN group = 1..k
  <2>1. group \in [1..k -> Item]
    BY <1>3, <1>4
  <2> QED
    BY <1>2, <2>1
<1>6. \A i, j \in 1..k : group[i].id = group[j].id => i = j
  <2> SUFFICES ASSUME NEW i \in 1..k, NEW j \in 1..k, group[i].id = group[j].id PROVE i = j
    OBVIOUS
  <2>1. group[i] \in Q /\ group[j] \in Q
    BY <1>3
  <2>2. group[i] = group[j]
    BY <1>1, <2>1
  <2> QED
    BY <1>3, <2>2
<1>7. \A i \in 1..k : group[i].id \in S /\ group[i] = items[group[i].id]
  <2> SUFFICES ASSUME NEW i \in 1..k PROVE group[i].id \in S /\ group[i] = items[group[i].id]
    OBVIOUS
  <2>1. group[i] \in Q
    BY <1>3
  <2> QED
    BY <1>1, <2>1
<1> QED
  BY <1>1, <1>5, <1>6, <1>7 DEF GroupOf

\* The packer's order, and the order the images came in.
LEMMA SmallestFirstIs ==
    ASSUME ItemsInv, engine \in Engines, NEW S \in SUBSET DOMAIN items
    PROVE  GroupOf(S, SmallestFirst(S))
<1> DEFINE Q == {items[n] : n \in S}  R == {x \in Q \X Q : Before(x[1], x[2])}
           Sorted(f) == \A i, j \in DOMAIN f : i < j => Before(f[i], f[j])
<1>1. /\ IsFiniteSet(Q) /\ \A x, y \in Q : x.id = y.id => x = y
      /\ \A x \in Q : x \in Item
  BY ImagesOf
<1>2. \A x \in Q : Size(x) \in Nat /\ x.id \in Nat
  <2> SUFFICES ASSUME NEW x \in Q PROVE Size(x) \in Nat /\ x.id \in Nat
    OBVIOUS
  <2>1. x \in Item
    BY <1>1
  <2>2. x.h \in Nat \ {0} /\ x.w \in Nat \ {0} /\ x.id \in Nat
    BY <2>1 DEF Item
  <2> QED
    BY <2>2, TokensWithinPlaceholders DEF Size
<1> HIDE DEF Q
<1>3. \A x, y \in Q : <<x, y>> \in R <=> Before(x, y)
  OBVIOUS
<1>4. Precede(Q, R)
  <2>1. \A x \in Q : ~Before(x, x)
    BY <1>2 DEF Before
  <2>2. \A x, y \in Q : x = y \/ Before(x, y) \/ Before(y, x)
    <3> SUFFICES ASSUME NEW x \in Q, NEW y \in Q, x # y PROVE Before(x, y) \/ Before(y, x)
      OBVIOUS
    <3>1. x.id # y.id /\ x.id \in Nat /\ y.id \in Nat /\ Size(x) \in Nat /\ Size(y) \in Nat
      BY <1>1, <1>2
    <3> QED
      BY <3>1 DEF Before
  <2>3. \A x, y, z \in Q : Before(x, y) /\ Before(y, z) => Before(x, z)
    <3> SUFFICES ASSUME NEW x \in Q, NEW y \in Q, NEW z \in Q, Before(x, y), Before(y, z) PROVE Before(x, z)
      OBVIOUS
    <3>1. /\ x.id \in Nat /\ y.id \in Nat /\ z.id \in Nat
          /\ Size(x) \in Nat /\ Size(y) \in Nat /\ Size(z) \in Nat
      BY <1>2
    <3> QED
      BY <3>1 DEF Before
  <2> HIDE DEF R
  <2> QED
    BY <1>3, <2>1, <2>2, <2>3 DEF Precede
<1>5. \E f \in SetToSeqs(Q) : \A i, j \in DOMAIN f : i < j => <<f[i], f[j]>> \in R
  <2> HIDE DEF R
  <2> QED
    BY <1>1, <1>4, OrderExists
<1>6. \E f \in SetToSeqs(Q) : Sorted(f)
  <2>1. PICK f \in SetToSeqs(Q) : \A i, j \in DOMAIN f : i < j => <<f[i], f[j]>> \in R
    BY <1>5
  <2>2. Sorted(f)
    BY <2>1
  <2> QED
    BY <2>2
<1>7. SmallestFirst(S) = CHOOSE f \in SetToSeqs(Q) : Sorted(f)
  BY DEF SmallestFirst, Q
<1> HIDE DEF Sorted
<1>8. SmallestFirst(S) \in SetToSeqs(Q)
  BY <1>6, <1>7, Zenon
<1> QED
  BY <1>8, InRow DEF Q

LEMMA InOrderIs ==
    ASSUME ItemsInv, NEW S \in SUBSET DOMAIN items
    PROVE  GroupOf(S, InOrder(S))
<1> DEFINE Q == {items[n] : n \in S}  R == {x \in Q \X Q : x[1].id < x[2].id}
           Sorted(f) == \A i, j \in DOMAIN f : i < j => f[i].id < f[j].id
<1>1. /\ IsFiniteSet(Q) /\ \A x, y \in Q : x.id = y.id => x = y
      /\ \A x \in Q : x \in Item
  BY ImagesOf
<1>2. \A x \in Q : x.id \in Nat
  BY <1>1 DEF Item
<1> HIDE DEF Q
<1>3. \A x, y \in Q : <<x, y>> \in R <=> x.id < y.id
  OBVIOUS
<1>4. Precede(Q, R)
  <2>1. \A x \in Q : ~(x.id < x.id)
    BY <1>2
  <2>2. \A x, y \in Q : x = y \/ x.id < y.id \/ y.id < x.id
    <3> SUFFICES ASSUME NEW x \in Q, NEW y \in Q, x # y PROVE x.id < y.id \/ y.id < x.id
      OBVIOUS
    <3>1. x.id # y.id /\ x.id \in Nat /\ y.id \in Nat
      BY <1>1, <1>2
    <3> QED
      BY <3>1
  <2>3. \A x, y, z \in Q : x.id < y.id /\ y.id < z.id => x.id < z.id
    BY <1>2
  <2> HIDE DEF R
  <2> QED
    BY <1>3, <2>1, <2>2, <2>3 DEF Precede
<1>5. \E f \in SetToSeqs(Q) : \A i, j \in DOMAIN f : i < j => <<f[i], f[j]>> \in R
  <2> HIDE DEF R
  <2> QED
    BY <1>1, <1>4, OrderExists
<1>6. \E f \in SetToSeqs(Q) : Sorted(f)
  <2>1. PICK f \in SetToSeqs(Q) : \A i, j \in DOMAIN f : i < j => <<f[i], f[j]>> \in R
    BY <1>5
  <2>2. Sorted(f)
    BY <2>1
  <2> QED
    BY <2>2
<1>7. InOrder(S) = CHOOSE f \in SetToSeqs(Q) : Sorted(f)
  BY DEF InOrder, Q
<1> HIDE DEF Sorted
<1>8. InOrder(S) \in SetToSeqs(Q)
  BY <1>6, <1>7, Zenon
<1> QED
  BY <1>8, InRow DEF Q

LEMMA StickPair == Stick \in Nat /\ Stick >= 2 /\ SegmentItems \in Nat \ {0}
<1>1. Stick \in Nat \ {0} /\ Stick % 2 = 0
  BY StickAssumption
<1>2. Stick # 1
  BY <1>1
<1> QED
  BY <1>1, <1>2 DEF SegmentItems

\* What the packer takes is a call.
LEMMA PacksAreCalls ==
    ASSUME VisionInv, at = "serve", ~engine.eager, NEW S \in Packs
    PROVE  /\ S \in SUBSET DOMAIN items /\ S # {}
           /\ GroupOf(S, SmallestFirst(S)) /\ Call(engine, SmallestFirst(S))
<1>1. /\ engine \in Engines /\ ItemsInv
      /\ manager = [budgets |-> token_budgets(engine), pack |-> pack_budgets(engine),
                    most |-> max_batch_size(engine)]
  BY DEF VisionInv, LimitInv, ManagerInv
<1>2. /\ S \subseteq IF Small # {} THEN Small ELSE In("running")
      /\ S # {} /\ Cardinality(S) <= IF Small # {} THEN Larger(manager.most, 1) ELSE 1
  BY DEF Packs
<1>3. Small \subseteq In("running") /\ In("running") \subseteq DOMAIN items
  BY DEF Small, In
<1>4. S \in SUBSET DOMAIN items
  BY <1>2, <1>3
<1>5. GroupOf(S, SmallestFirst(S))
  BY <1>1, <1>4, SmallestFirstIs
<1> DEFINE group == SmallestFirst(S)
<1>6. engine.kind = "grid" => Len(group) <= SegmentItems
  <2> SUFFICES ASSUME engine.kind = "grid" PROVE Len(group) <= SegmentItems
    OBVIOUS
  <2> DEFINE r1 == PatchMultiple(engine) \div PatchesPerToken(engine)  up == engine.own \div r1
             most == max_batch_size(engine)
  <2>1. SegmentItems \in Nat \ {0}
    BY StickPair
  <2>2. up \in Nat
    <3>1. r1 \in Nat \ {0} /\ engine.own \in Nat
      BY <1>1, BudgetUnit, EnginesAssumption
    <3> HIDE DEF r1
    <3> QED
      BY <3>1
  <2>3. most = IF SegmentItems # 0 /\ SegmentItems < up THEN SegmentItems ELSE up
    BY DEF max_batch_size, CallCap, get_encoder_cudagraph_budget_range
  <2> HIDE DEF up, most
  <2>4. most \in Nat /\ most <= SegmentItems
    BY <2>1, <2>2, <2>3
  <2>5. Cardinality(S) <= IF Small # {} THEN Larger(most, 1) ELSE 1
    BY <1>1, <1>2 DEF most
  <2>6. Cardinality(S) \in Nat
    BY <1>1, <1>4, ImagesOf, FS_CardinalityType
  <2>7. Larger(most, 1) <= SegmentItems /\ Larger(most, 1) \in Nat
    BY <2>1, <2>4 DEF Larger
  <2>8. Cardinality(S) <= SegmentItems
    BY <2>1, <2>5, <2>6, <2>7
  <2> QED
    BY <1>5, <2>8 DEF GroupOf
<1> HIDE DEF group
<1>7. Call(engine, group)
  BY <1>5, <1>6 DEF Call, GroupOf, group
<1> QED
  BY <1>2, <1>4, <1>5, <1>7 DEF group

\* As many as a cap are the first of their set.
FirstOf(R, c) == {n \in R : Cardinality({k \in R : k < n}) < c}

LEMMA FewFirst ==
    ASSUME NEW R \in SUBSET Nat, IsFiniteSet(R), R # {}, NEW c \in Nat \ {0}
    PROVE  FirstOf(R, c) # {} /\ Cardinality(FirstOf(R, c)) <= c
<1> DEFINE S == FirstOf(R, c)  below(n) == {k \in R : k < n}
<1>1. S \in SUBSET R /\ IsFiniteSet(S) /\ Cardinality(S) \in Nat
  <2>1. S \in SUBSET R
    BY DEF FirstOf
  <2> HIDE DEF S
  <2> QED
    BY <2>1, FS_Subset, FS_CardinalityType
<1>2. S # {}
  <2>1. PICK n \in R : \A x \in R : n <= x
    BY LeastExists
  <2>2. below(n) = {}
    <3> SUFFICES ASSUME NEW k \in R, k < n PROVE FALSE
      OBVIOUS
    <3>1. n <= k /\ n \in Nat /\ k \in Nat
      BY <2>1
    <3> QED
      BY <3>1
  <2>3. Cardinality(below(n)) = 0
    BY <2>2, FS_EmptySet
  <2> QED
    BY <2>1, <2>3 DEF FirstOf
<1>3. Largest(S) \in S /\ \A x \in S : x <= Largest(S)
  <2>1. S \in SUBSET Nat
    BY <1>1
  <2> HIDE DEF S
  <2> QED
    BY <1>1, <1>2, <2>1, LargestIsIn
<1> DEFINE x == Largest(S)  T == S \ {x}
<1>4. Cardinality(below(x)) < c
  BY <1>3 DEF FirstOf
<1> HIDE DEF S
<1>5. IsFiniteSet(T) /\ Cardinality(T) = Cardinality(S) - 1
  BY <1>1, <1>3, FS_RemoveElement
<1>6. T \in SUBSET below(x)
  <2> SUFFICES ASSUME NEW k \in S, k # x PROVE k \in R /\ k < x
    OBVIOUS
  <2>1. k \in R /\ x \in R /\ k <= x
    BY <1>1, <1>3
  <2> HIDE DEF x
  <2>2. k \in Nat /\ x \in Nat
    BY <2>1
  <2> QED
    BY <2>1, <2>2
<1>7. IsFiniteSet(below(x)) /\ Cardinality(below(x)) \in Nat
  <2>1. below(x) \in SUBSET R
    OBVIOUS
  <2> HIDE DEF below, x
  <2> QED
    BY <2>1, FS_Subset, FS_CardinalityType
<1> HIDE DEF x, T
<1>8. Cardinality(T) <= Cardinality(below(x))
  <2> HIDE DEF below
  <2> QED
    BY <1>6, <1>7, FS_Subset
<1> HIDE DEF below
<1> QED
  BY <1>1, <1>2, <1>4, <1>5, <1>7, <1>8 DEF S

\* What an engine that compiles nothing takes is one, too.
EagerFirst == {n \in In("running") : CallCap(engine) = 0
                   \/ Cardinality({k \in In("running") : k < n}) < CallCap(engine)}

LEMMA EagerCalls ==
    ASSUME VisionInv, In("running") # {}
    PROVE  /\ EagerFirst \in SUBSET DOMAIN items /\ EagerFirst # {}
           /\ GroupOf(EagerFirst, InOrder(EagerFirst)) /\ Call(engine, InOrder(EagerFirst))
<1> DEFINE R == In("running")  S == EagerFirst  group == InOrder(S)
<1>1. engine \in Engines /\ ItemsInv
  BY DEF VisionInv, LimitInv
<1>2. R \in SUBSET DOMAIN items
  BY DEF In
<1>3. S \in SUBSET R
  BY DEF EagerFirst
<1>4. R \in SUBSET Nat /\ IsFiniteSet(R)
  <2>1. DOMAIN items = 1..Len(items) /\ Len(items) \in Nat
    BY <1>1 DEF ItemsInv
  <2>2. R \in SUBSET Nat
    BY <1>2, <2>1
  <2> HIDE DEF R
  <2> QED
    BY <1>1, <1>2, <2>2, ImagesOf
<1>5. SegmentItems \in Nat \ {0}
  BY StickPair
<1>6. CASE engine.kind = "grid"
  <2>1. S = FirstOf(R, SegmentItems)
    BY <1>5, <1>6 DEF EagerFirst, FirstOf, CallCap
  <2>2. S # {} /\ Cardinality(S) <= SegmentItems
    <3> HIDE DEF S, R
    <3>1. R # {}
      BY DEF R
    <3> QED
      BY <1>4, <1>5, <2>1, <3>1, FewFirst
  <2>3. GroupOf(S, group)
    BY <1>1, <1>2, <1>3, InOrderIs
  <2>4. Call(engine, group)
    BY <2>2, <2>3 DEF Call, GroupOf
  <2> QED
    BY <1>2, <1>3, <2>2, <2>3, <2>4
<1>7. CASE engine.kind # "grid"
  <2>1. S = R
    BY <1>7 DEF EagerFirst, CallCap
  <2>2. GroupOf(S, group)
    BY <1>1, <1>2, <1>3, InOrderIs
  <2>3. Call(engine, group)
    BY <1>7, <2>2 DEF Call, GroupOf
  <2> QED
    BY <1>2, <2>1, <2>2, <2>3
<1> QED
  BY <1>6, <1>7

\* A buffer of a budget's size.
Staged(e, b, width) == DOMAIN b = 1..width * PatchesPerToken(e) /\ Len(b) = width * PatchesPerToken(e)

LEMMA TokensOf ==
    ASSUME NEW e \in Engines, NEW item \in Item
    PROVE  Tokens(e, item) \in Nat \ {0}
<1>1. item.h \in Nat \ {0} /\ item.w \in Nat \ {0}
  BY DEF Item
<1> DEFINE a == item.h * item.w
<1>2. a \in Nat \ {0}
  BY <1>1
<1> HIDE DEF a
<1>3. CASE e.kind = "grid"
  BY <1>2, <1>3 DEF Tokens, a
<1>4. CASE e.kind = "tiles"
  <2> DEFINE T == TokensPerTile(e)
  <2>1. T \in Nat \ {0}
    BY <1>4, TileNumbers
  <2>2. Tokens(e, item) = (a + 1) * T
    BY <1>4 DEF Tokens, Tiles, a
  <2> HIDE DEF T
  <2>3. (a + 1) * T \in Nat \ {0}
    BY <1>2, <2>1
  <2> QED
    BY <2>2, <2>3
<1> QED
  BY <1>3, <1>4, EnginesAssumption

\* A call of some image has tokens.
LEMMA CallIsLong ==
    ASSUME NEW e \in Engines, NEW group, Call(e, group), Len(group) # 0
    PROVE  LengthOf(e, group) \in Nat \ {0}
<1> DEFINE s == Starts(e, group)  k == Len(group)
<1>1. k \in Nat /\ Sized(e, group) /\ RunsOn(e, group, s) /\ \A n \in 1..k : group[n] \in Item
  BY CallSizes, StartsOf
<1> HIDE DEF s
<1>2. 1 \in 1..k /\ 1 + 1 \in 1..k + 1 /\ k + 1 \in 1..k + 1 /\ 1 + 1 <= k + 1
  BY <1>1
<1>3. s[1 + 1] = s[1] + Tokens(e, group[1]) /\ s[1] = 0 /\ Tokens(e, group[1]) \in Nat \ {0}
  BY <1>1, <1>2, TokensOf DEF RunsOn
<1>4. s[1 + 1] <= s[k + 1]
  BY <1>1, <1>2, StartsGrow
<1>5. s[k + 1] \in Nat
  BY <1>1, <1>2 DEF RunsOn
<1> QED
  BY <1>3, <1>4, <1>5 DEF LengthOf, s, k

\* Any buffer with room for a call, refilled, keeps its size and answers the call.
LEMMA RefilledAnswers ==
    ASSUME NEW e \in Engines, NEW group, Call(e, group), NEW dst, NEW width, RoomFor(e, group, dst, width)
    PROVE  LET b == _pad_groups(dst, vision_inputs(e, group), PadGroupCount(e)) IN
           /\ Staged(e, b, width)
           /\ \A n \in 1..Len(group) :
                 postprocess_encoder_output(e, vision_project(e, b), group)[n] = OwnTokens(e, group[n])
<1> DEFINE b == _pad_groups(dst, vision_inputs(e, group), PadGroupCount(e))
<1>1. CASE e.kind = "grid"
  <2>1. GridBuffer(e, group, b, width)
    BY <1>1, GridBufferIs
  <2> HIDE DEF b
  <2>2. Staged(e, b, width)
    BY <2>1 DEF GridBuffer, Staged
  <2>3. \A n \in 1..Len(group) :
           postprocess_encoder_output(e, vision_project(e, b), group)[n] = OwnTokens(e, group[n])
    BY <1>1, <2>1, GridAnswers
  <2> QED
    BY <2>2, <2>3 DEF b
<1>2. CASE e.kind = "tiles"
  <2>1. TileBuffer(e, group, b, width)
    BY <1>2, TileBufferIs
  <2> HIDE DEF b
  <2>2. Staged(e, b, width)
    BY <2>1 DEF TileBuffer, Staged
  <2>3. \A n \in 1..Len(group) :
           postprocess_encoder_output(e, vision_project(e, b), group)[n] = OwnTokens(e, group[n])
    BY <1>2, <2>1, TileAnswers
  <2> QED
    BY <2>2, <2>3 DEF b
<1> QED
  BY <1>1, <1>2, EnginesAssumption

\* An uncompiled call's buffer has room for it.
LEMMA EagerRoom ==
    ASSUME NEW e \in Engines, NEW group, Call(e, group), Len(group) # 0
    PROVE  \E width : RoomFor(e, group, Blank(RoundUp(Len(vision_inputs(e, group)), PatchMultiple(e))), width)
<1> DEFINE K == PatchesPerToken(e)  M == PatchMultiple(e)  total == LengthOf(e, group)
           size == Len(vision_inputs(e, group))  all == RoundUp(size, M)  u == M \div K
<1>1. /\ K \in Nat \ {0} /\ M \in Nat \ {0} /\ M % K = 0 /\ total \in Nat \ {0}
  BY MergeIs, BudgetUnit, CallIsLong
<1>2. size = total * K
  <2>1. e.kind = "grid" \/ e.kind = "tiles"
    BY EnginesAssumption
  <2> QED
    BY <2>1, GridInputsAre, TileInputsAre
<1> HIDE DEF K, M, total, size
<1>3. u \in Nat /\ M = u * K
  <2>1. u \in Nat /\ M = u * K + (M % K)
    BY <1>1, Parts
  <2> DEFINE a == u * K
  <2>2. a \in Nat /\ M = a + 0
    BY <1>1, <2>1
  <2> HIDE DEF a
  <2>3. M = a
    BY <2>2
  <2> QED
    BY <2>1, <2>3 DEF a
<1>4. size \in Nat
  BY <1>1, <1>2
<1>5. all \in Nat /\ size <= all /\ \E q \in Nat : all = q * M
  BY <1>1, <1>4, RoundUpCovers
<1> HIDE DEF u, all
<1>6. PICK q \in Nat : all = q * M
  BY <1>5
<1> DEFINE width == q * u
<1>7. width \in Nat /\ all = width * K
  BY <1>1, <1>3, <1>6
<1> HIDE DEF width
<1>8. total <= width
  <2> SUFFICES ASSUME width < total PROVE FALSE
    BY <1>1, <1>7
  <2>1. width * K + K <= total * K
    BY <1>1, <1>7, NextMultiple
  <2> DEFINE a == width * K  c == total * K
  <2>2. a \in Nat /\ c \in Nat /\ c <= a /\ a + K <= c
    BY <1>1, <1>2, <1>5, <1>7, <2>1
  <2> HIDE DEF a, c
  <2> QED
    BY <1>1, <2>2
<1>9. DOMAIN Blank(all) = 1..all /\ Len(Blank(all)) = all
  <2>1. Blank(all) = [p \in 1..all |-> Pad]
    BY DEF Blank
  <2> QED
    BY <1>5, <2>1
<1>10. RoomFor(e, group, Blank(all), width)
  BY <1>1, <1>7, <1>8, <1>9 DEF RoomFor, K, total
<1> QED
  BY <1>10 DEF all, size, M

\* The engine's images' tokens are their own.
OwnOutputs(out) ==
    /\ DOMAIN out \in SUBSET DOMAIN items
    /\ \A n \in DOMAIN out : out[n] = OwnTokens(engine, items[n])

LEMMA EncodedOwn ==
    ASSUME engine \in Engines, NEW S \in SUBSET DOMAIN items, NEW group, GroupOf(S, group), Call(engine, group),
           NEW dst, NEW width, RoomFor(engine, group, dst, width)
    PROVE  LET b == _pad_groups(dst, vision_inputs(engine, group), PadGroupCount(engine)) IN
           Staged(engine, b, width) /\ OwnOutputs(Encoded(group, b))
<1> DEFINE b == _pad_groups(dst, vision_inputs(engine, group), PadGroupCount(engine))
           chunks == postprocess_encoder_output(engine, vision_project(engine, b), group)
           out == Encoded(group, b)
<1>1. /\ Staged(engine, b, width)
      /\ \A n \in 1..Len(group) : chunks[n] = OwnTokens(engine, group[n])
  BY RefilledAnswers
<1>2. out = [id \in {group[i].id : i \in DOMAIN group} |-> chunks[CHOOSE i \in DOMAIN group : group[i].id = id]]
  BY DEF Encoded
<1> HIDE DEF chunks, b
<1>3. /\ DOMAIN group = 1..Len(group)
      /\ \A i \in DOMAIN group : group[i].id \in S /\ group[i] = items[group[i].id]
  BY DEF GroupOf
<1>4. \A id \in {group[i].id : i \in DOMAIN group} :
         out[id] = OwnTokens(engine, items[id]) /\ id \in DOMAIN items
  <2> SUFFICES ASSUME NEW j \in DOMAIN group
               PROVE  out[group[j].id] = OwnTokens(engine, items[group[j].id]) /\ group[j].id \in DOMAIN items
    OBVIOUS
  <2> DEFINE id == group[j].id  i == CHOOSE i \in DOMAIN group : group[i].id = id
  <2>1. i \in DOMAIN group /\ group[i].id = id
    <3> HIDE DEF id
    <3>1. \E x \in DOMAIN group : group[x].id = id
      BY DEF id
    <3> QED
      BY <3>1, Zenon
  <2>2. out[id] = chunks[i]
    BY <1>2
  <2> HIDE DEF i
  <2>3. chunks[i] = OwnTokens(engine, group[i]) /\ group[i] = items[id] /\ id \in S
    BY <1>1, <1>3, <2>1
  <2> QED
    BY <2>2, <2>3
<1>5. DOMAIN out = {group[i].id : i \in DOMAIN group}
  BY <1>2
<1> HIDE DEF out
<1>6. OwnOutputs(out)
  BY <1>4, <1>5 DEF OwnOutputs
<1> QED
  BY <1>1, <1>6 DEF out, b

\* They depend on the image's name and size alone.
LEMMA SameTokens ==
    ASSUME NEW e, NEW x, NEW y, x.id = y.id, x.h = y.h, x.w = y.w
    PROVE  OwnTokens(e, x) = OwnTokens(e, y)
BY DEF OwnTokens, Tokens, Tiles, Square

(***************************************************************************)
(* The tokens that calls gave, and the buffers that calls share.           *)
(***************************************************************************)
StagingInv ==
    at = "serve" /\ ~engine.eager =>
        /\ DOMAIN staging = manager.budgets
        /\ \A b \in manager.budgets : Staged(engine, staging[b], b)

TokensInv == VisionInv /\ StagingInv /\ OwnOutputs(outputs)

\* Images that are only moved on keep their tokens.
LEMMA MovedTokens ==
    ASSUME ItemsInv, NEW S, NEW s, items' = Moved(S, s), UNCHANGED engine,
           NEW out, OwnOutputs(out), outputs' = out
    PROVE  OwnOutputs(outputs)'
<1>1. /\ DOMAIN items' = DOMAIN items
      /\ \A n \in DOMAIN items : items'[n] = IF n \in S THEN [items[n] EXCEPT !.state = s] ELSE items[n]
  BY DEF Moved
<1>2. ASSUME NEW n \in DOMAIN items PROVE OwnTokens(engine, items'[n]) = OwnTokens(engine, items[n])
  <2>1. items[n] \in Item
    BY ItemsAre
  <2>2. items'[n].id = items[n].id /\ items'[n].h = items[n].h /\ items'[n].w = items[n].w
    BY <1>1, <2>1 DEF Item
  <2> QED
    BY <2>2, SameTokens
<1> QED
  BY <1>1, <1>2 DEF OwnOutputs

\* Images that arrive leave those that came before.
LEMMA ArrivedTokens ==
    ASSUME ItemsInv, NEW prompt \in Prompts, Arrive(prompt), OwnOutputs(outputs)
    PROVE  OwnOutputs(outputs)'
<1>1. UNCHANGED <<engine, outputs>> /\ items \in Seq(Item)
  BY DEF Arrive, ItemsInv
<1>2. \A n \in DOMAIN items : n \in DOMAIN items' /\ items'[n] = items[n]
  <2>1. CASE ~Admitted(prompt)
    BY <2>1 DEF Arrive
  <2>2. CASE Admitted(prompt)
    <3> DEFINE new == [n \in DOMAIN prompt |->
                          [id |-> Len(items) + n, h |-> prompt[n].h, w |-> prompt[n].w, state |-> "waiting"]]
               V == {new[n] : n \in DOMAIN prompt} \cup Item
    <3>1. items' = items \o new
      BY <2>2 DEF Arrive
    <3>2. prompt \in Seq([h : Nat \ {0}, w : Nat \ {0}])
      BY VisionAssumption
    <3>3. PICK k \in Nat : DOMAIN prompt = 1..k
      BY <3>2
    <3>4. new \in [1..k -> V]
      BY <3>3
    <3> HIDE DEF new, V
    <3>5. new \in Seq(V)
      BY <3>3, <3>4
    <3>6. items \in Seq(V)
      <4>1. Item \in SUBSET V
        BY DEF V
      <4> QED
        BY <1>1, <4>1
    <3>7. Joined(V, items, new, items')
      BY <3>1, <3>5, <3>6, Appended
    <3>8. DOMAIN items = 1..Len(items) /\ Len(items) \in Nat /\ Len(new) \in Nat
      BY <1>1, <3>5
    <3>9. items' \in Seq(V) /\ Len(items') = Len(items) + Len(new) /\ \A n \in 1..Len(items) : items'[n] = items[n]
      BY <3>7 DEF Joined
    <3> QED
      BY <3>8, <3>9
  <2> QED
    BY <2>1, <2>2
<1> QED
  BY <1>1, <1>2 DEF OwnOutputs

\* A budget's call.
LEMMA BudgetTokens ==
    ASSUME TokensInv, at = "serve", ~engine.eager, UNCHANGED <<engine, at, manager>>,
           NEW S \in Packs, RunBudget(SmallestFirst(S), S)
    PROVE  StagingInv' /\ OwnOutputs(outputs)'
<1> DEFINE group == SmallestFirst(S)
<1>1. VisionInv /\ StagingInv /\ engine \in Engines /\ ItemsInv
      /\ manager = [budgets |-> token_budgets(engine), pack |-> pack_budgets(engine),
                    most |-> max_batch_size(engine)]
  BY DEF TokensInv, VisionInv, LimitInv, ManagerInv
<1>2. /\ S \in SUBSET DOMAIN items /\ S # {}
      /\ GroupOf(S, group) /\ Call(engine, group)
  BY <1>1, PacksAreCalls
<1>3. PICK budget \in Fitting(SizeOf(group), Visible) :
         LET buffer == _pad_groups(staging[budget], vision_inputs(engine, group), PadGroupCount(engine)) IN
         /\ staging' = [staging EXCEPT ![budget] = buffer]
         /\ outputs' = Encoded(group, buffer)
  BY DEF RunBudget
<1> DEFINE buffer == _pad_groups(staging[budget], vision_inputs(engine, group), PadGroupCount(engine))
<1>4. items' = Moved(S, "done")
  BY DEF RunBudget
<1>5. budget \in manager.budgets /\ SizeOf(group) <= budget /\ budget \in Nat
  <2>1. budget \in Visible /\ SizeOf(group) <= budget
    BY DEF Fitting
  <2>2. Visible \subseteq token_budgets(engine) /\ token_budgets(engine) \in SUBSET Nat
    BY <1>1, BudgetsAreNumbers, PackBudgetsAreNumbers DEF Visible
  <2> QED
    BY <1>1, <2>1, <2>2
<1>6. Len(group) # 0
  <2>1. Len(group) = Cardinality(S) /\ IsFiniteSet(S)
    BY <1>1, <1>2, ImagesOf DEF GroupOf
  <2> QED
    BY <1>2, <2>1, FS_EmptySet
<1>7. LengthOf(engine, group) \in Nat \ {0} /\ SizeOf(group) = LengthOf(engine, group)
  <2>1. LengthOf(engine, group) \in Nat \ {0}
    BY <1>1, <1>2, <1>6, CallIsLong
  <2>2. Starts(engine, group)[Len(Starts(engine, group))] = LengthOf(engine, group)
    BY <1>1, <1>2, LengthIs
  <2> QED
    BY <2>1, <2>2 DEF SizeOf
<1>8. RoomFor(engine, group, staging[budget], budget)
  <2>1. Staged(engine, staging[budget], budget)
    BY <1>1, <1>5 DEF StagingInv
  <2> HIDE DEF group
  <2> QED
    BY <1>5, <1>7, <2>1 DEF RoomFor, Staged
<1> HIDE DEF group
<1>9. Staged(engine, buffer, budget) /\ OwnOutputs(Encoded(group, buffer))
  BY <1>1, <1>2, <1>8, EncodedOwn
<1> HIDE DEF buffer
<1>10. staging' = [staging EXCEPT ![budget] = buffer] /\ outputs' = Encoded(group, buffer)
  BY <1>3 DEF buffer, group
<1>11. StagingInv'
  <2>1. DOMAIN staging' = manager.budgets
    BY <1>1, <1>10 DEF StagingInv
  <2>2. \A b \in manager.budgets : Staged(engine, staging'[b], b)
    <3> SUFFICES ASSUME NEW b \in manager.budgets PROVE Staged(engine, staging'[b], b)
      OBVIOUS
    <3>1. staging'[b] = IF b = budget THEN buffer ELSE staging[b]
      BY <1>1, <1>10 DEF StagingInv
    <3>2. Staged(engine, staging[b], b)
      BY <1>1 DEF StagingInv
    <3> QED
      BY <1>9, <3>1, <3>2
  <2> QED
    BY <2>1, <2>2 DEF StagingInv, Staged
<1>12. OwnOutputs(outputs)'
  BY <1>1, <1>4, <1>9, <1>10, MovedTokens
<1> QED
  BY <1>11, <1>12

\* An uncompiled call.
LEMMA EagerTokens ==
    ASSUME TokensInv, UNCHANGED engine, NEW S \in SUBSET DOMAIN items, S # {},
           NEW group, GroupOf(S, group), Call(engine, group), RunEagerly(group),
           NEW s, items' = Moved(S, s)
    PROVE  OwnOutputs(outputs)'
<1>1. engine \in Engines /\ ItemsInv
  BY DEF TokensInv, VisionInv, LimitInv
<1> DEFINE blank == Blank(RoundUp(Len(vision_inputs(engine, group)), PatchMultiple(engine)))
           buffer == _pad_groups(blank, vision_inputs(engine, group), PadGroupCount(engine))
<1>2. outputs' = Encoded(group, buffer)
  BY DEF RunEagerly
<1>3. Len(group) # 0
  <2>1. Len(group) = Cardinality(S) /\ IsFiniteSet(S)
    BY <1>1, ImagesOf DEF GroupOf
  <2> QED
    BY <2>1, FS_EmptySet
<1>4. PICK width : RoomFor(engine, group, blank, width)
  BY <1>1, <1>3, EagerRoom
<1> HIDE DEF blank
<1>5. OwnOutputs(Encoded(group, buffer))
  BY <1>1, <1>4, EncodedOwn
<1> QED
  BY <1>1, <1>2, <1>5, MovedTokens

LEMMA TokensStep == TokensInv /\ [VisionNext]_visionVars => TokensInv'
<1> SUFFICES ASSUME TokensInv, [VisionNext]_visionVars PROVE TokensInv'
  OBVIOUS
<1>0. VisionInv /\ StagingInv /\ OwnOutputs(outputs) /\ ItemsInv /\ engine \in Engines /\ VisionInv'
  BY VisionStep DEF TokensInv, VisionInv, LimitInv
<1>1. ASSUME UNCHANGED <<engine, items, outputs>> PROVE OwnOutputs(outputs)'
  BY <1>0, <1>1 DEF OwnOutputs
<1>2. ASSUME UNCHANGED <<engine, at, manager, staging>> PROVE StagingInv'
  BY <1>0, <1>2 DEF StagingInv, Staged
<1>3. CASE ConfigureLimits
  <2>1. UNCHANGED <<engine, items, outputs>> /\ at' # "serve"
    BY <1>3 DEF ConfigureLimits
  <2> QED
    BY <1>0, <1>1, <2>1 DEF StagingInv, TokensInv
<1>4. CASE ConfigureAnother
  BY <1>0, <1>1, <1>2, <1>4 DEF ConfigureAnother, TokensInv
<1>5. CASE StartEngine
  <2>1. UNCHANGED <<engine, items, outputs>> /\ (at' = "serve" => engine.eager)
    BY <1>5 DEF StartEngine
  <2> QED
    BY <1>0, <1>1, <2>1 DEF StagingInv, TokensInv
<1>6. CASE Warm
  <2>1. UNCHANGED <<engine, items, outputs, manager>> /\ at = "warm"
        /\ staging' = [b \in manager.budgets |-> Blank(b * PatchesPerToken(engine))]
    BY <1>6 DEF Warm
  <2>2. manager.budgets = token_budgets(engine)
    BY <1>0, <2>1 DEF VisionInv, ManagerInv
  <2>3. \A b \in manager.budgets : Staged(engine, staging'[b], b)
    <3> SUFFICES ASSUME NEW b \in manager.budgets PROVE Staged(engine, staging'[b], b)
      OBVIOUS
    <3>1. b \in Nat /\ PatchesPerToken(engine) \in Nat
      BY <1>0, <2>2, BudgetsAreNumbers, MergeIs
    <3> DEFINE z == b * PatchesPerToken(engine)
    <3>2. z \in Nat
      BY <3>1
    <3>3. staging'[b] = Blank(z)
      BY <2>1
    <3> HIDE DEF z
    <3>4. DOMAIN Blank(z) = 1..z /\ Len(Blank(z)) = z
      <4>1. Blank(z) = [p \in 1..z |-> Pad]
        BY DEF Blank
      <4> QED
        BY <3>2, <4>1
    <3> QED
      BY <3>3, <3>4 DEF Staged, z
  <2>4. StagingInv'
    BY <2>1, <2>3 DEF StagingInv, Staged
  <2> QED
    BY <1>0, <1>1, <2>1, <2>4 DEF TokensInv
<1>7. ASSUME NEW prompt \in Prompts, Arrive(prompt) PROVE TokensInv'
  <2>1. OwnOutputs(outputs)'
    BY <1>0, <1>7, ArrivedTokens
  <2>2. StagingInv'
    BY <1>2, <1>7 DEF Arrive
  <2> QED
    BY <1>0, <2>1, <2>2 DEF TokensInv
<1>8. CASE Schedule
  <2>1. UNCHANGED <<engine, at, manager, staging, outputs>> /\ \E S : items' = Moved(S, "running")
    BY <1>8 DEF Schedule
  <2>2. OwnOutputs(outputs)'
    BY <1>0, <2>1, MovedTokens
  <2> QED
    BY <1>0, <1>2, <2>1, <2>2 DEF TokensInv
<1>9. CASE Execute
  <2>1. at = "serve" /\ ~engine.eager /\ UNCHANGED <<engine, at, manager>>
    BY <1>9 DEF Execute
  <2>2. PICK S \in Packs : RunBudget(SmallestFirst(S), S) \/ RunLate(SmallestFirst(S), S)
    BY <1>9 DEF Execute
  <2>3. CASE RunBudget(SmallestFirst(S), S)
    BY <1>0, <2>1, <2>3, BudgetTokens DEF TokensInv
  <2>4. CASE RunLate(SmallestFirst(S), S)
    <3>1. items' = Moved(S, "late") /\ RunEagerly(SmallestFirst(S)) /\ UNCHANGED staging
      BY <2>4 DEF RunLate
    <3>2. /\ S \in SUBSET DOMAIN items /\ S # {}
          /\ GroupOf(S, SmallestFirst(S)) /\ Call(engine, SmallestFirst(S))
      BY <1>0, <2>1, PacksAreCalls
    <3>3. OwnOutputs(outputs)'
      BY <2>1, <3>1, <3>2, EagerTokens
    <3> QED
      BY <1>0, <1>2, <2>1, <3>1, <3>3 DEF TokensInv
  <2> QED
    BY <2>2, <2>3, <2>4
<1>10. CASE EmbedEagerly
  <2>1. UNCHANGED <<engine, at, manager, staging>> /\ In("running") # {}
    BY <1>10 DEF EmbedEagerly
  <2>2. RunEagerly(InOrder(EagerFirst)) /\ items' = Moved(EagerFirst, "done")
    BY <1>10 DEF EmbedEagerly, EagerFirst
  <2>3. /\ EagerFirst \in SUBSET DOMAIN items /\ EagerFirst # {}
        /\ GroupOf(EagerFirst, InOrder(EagerFirst)) /\ Call(engine, InOrder(EagerFirst))
    BY <1>0, <2>1, EagerCalls
  <2>4. OwnOutputs(outputs)'
    BY <2>1, <2>2, <2>3, EagerTokens
  <2> QED
    BY <1>0, <1>2, <2>1, <2>4 DEF TokensInv
<1>11. CASE UNCHANGED visionVars
  <2>1. UNCHANGED <<engine, at, manager, staging, items, outputs>>
    BY <1>11 DEF visionVars
  <2> QED
    BY <1>0, <1>1, <1>2, <2>1 DEF TokensInv
<1> QED
  BY <1>3, <1>4, <1>5, <1>6, <1>7, <1>8, <1>9, <1>10, <1>11 DEF VisionNext

LEMMA TokensStart == VisionInit => TokensInv
<1> SUFFICES ASSUME VisionInit PROVE TokensInv
  OBVIOUS
<1>1. VisionInv
  BY VisionStart
<1>2. StagingInv
  BY DEF VisionInit, StagingInv
<1>3. OwnOutputs(outputs)
  <2>1. outputs = <<>>
    BY DEF VisionInit
  <2> QED
    BY <2>1 DEF OwnOutputs
<1> QED
  BY <1>1, <1>2, <1>3 DEF TokensInv

\* An image's tokens are its own merge windows in its own order, encoded with its own patches,
\* with whatever images it is packed and whatever a budget's buffer held before: of a grid or
\* of tiles, on a compiled budget, late, or in an engine that compiles nothing.
THEOREM TokensKept == VisionSpec => []TokensAreOwn
<1>1. TokensInv => TokensAreOwn
  BY DEF TokensInv, OwnOutputs, TokensAreOwn
<1> QED
  BY <1>1, TokensStart, TokensStep, PTL DEF VisionSpec
=============================================================================
