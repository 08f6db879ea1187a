------------------------- MODULE EngineStartProofs -------------------------
(***************************************************************************)
(* What holds of every engine that starts, whoever configured it: its      *)
(* worker, vLLM and Triton agree on the model runner, its thread pools     *)
(* have their share of the machine, and it serves what the front process   *)
(* settled; a generative engine has pages and buckets for each length it   *)
(* admits, and compiles before its first step whatever its steps reach.    *)
(*                                                                         *)
(* The first two travel from process to process by ways of their own, so   *)
(* the invariant says after each step of the start what the environment,   *)
(* the configuration and the process that is to run the model know.        *)
(***************************************************************************)
EXTENDS EngineWarmup, CompileGuard, FiniteSetTheorems, WellFoundedInduction, TLAPS

(***************************************************************************)
(* Arithmetic.                                                             *)
(***************************************************************************)
\* The least number of whole shares that cover n: no share less would do.
LEMMA CeilDivShares ==
    ASSUME NEW n \in Nat \ {0}, NEW w \in Nat \ {0}
    PROVE  /\ CeilDiv(n, w) \in Nat \ {0}
           /\ CeilDiv(n, w) * w >= n
           /\ (CeilDiv(n, w) - 1) * w < n
<1> DEFINE q == (n + w - 1) \div w
           m == (n + w - 1) % w
<1>1. n + (w - 1) \in Nat /\ n + w - 1 = n + (w - 1)
  OBVIOUS
<1>2. q \in Nat /\ m \in 0..(w - 1) /\ n + w - 1 = w * q + m
  BY <1>1
<1>3. q # 0
  <2>1. q = 0 => n + w - 1 = m
    BY <1>2
  <2> QED
    BY <1>2, <2>1
<1>4. q * w = w * q /\ (q - 1) * w = w * q - w
  BY <1>2
<1> HIDE DEF q, m
<1>5. w * q >= n /\ w * q - w < n
  <2>1. w * q \in Nat
    BY <1>2
  <2> QED
    BY <1>2, <2>1
<1> QED
  BY <1>2, <1>3, <1>4, <1>5 DEF CeilDiv, q

\* A non-empty set of naturals has a least element.
LEMMA LeastExists ==
    ASSUME NEW S \in SUBSET Nat, S # {}
    PROVE  \E m \in S : \A x \in S : m <= x
<1> DEFINE Below == {ss \in Nat \X Nat : ss[1] < ss[2]}
<1>1. IsWellFoundedOn(Below, Nat)
  BY NatLessThanWellFounded, Zenon DEF OpToRel
<1> HIDE DEF Below
<1>2. PICK m \in S : \A x \in S : ~(<<x, m>> \in Below)
  BY <1>1, WFMin, Zenon
<1>3. ASSUME NEW x \in S PROVE m <= x
  <2>1. ~(<<x, m>> \in Below)
    BY <1>2
  <2> QED
    BY <2>1 DEF Below
<1> QED
  BY <1>3

\* A power of two counts the subsets of a set, of which there is at least one.
LEMMA PowersCount == \A n \in Nat : 2^n \in Nat \ {0}
<1> SUFFICES ASSUME NEW n \in Nat PROVE 2^n \in Nat \ {0}
  OBVIOUS
<1> DEFINE S == 1..n
<1>1. IsFiniteSet(S) /\ Cardinality(S) = n
  <2>1. 1 \in Int /\ n \in Int
    OBVIOUS
  <2>2. IsFiniteSet(1..n) /\ Cardinality(1..n) = IF 1 > n THEN 0 ELSE n - 1 + 1
    BY <2>1, FS_Interval, Zenon
  <2> QED
    BY <2>2
<1>2. IsFiniteSet(SUBSET S) /\ Cardinality(SUBSET S) = 2^n
  BY <1>1, FS_SUBSET
<1>3. Cardinality(SUBSET S) \in Nat /\ Cardinality(SUBSET S) # 0
  <2>1. SUBSET S # {}
    OBVIOUS
  <2> HIDE DEF S
  <2> QED
    BY <1>2, <2>1, FS_CardinalityType, FS_EmptySet
<1> QED
  BY <1>2, <1>3

\* A product grows with its factor.
LEMMA ProductGrows ==
    ASSUME NEW a \in Nat, NEW b \in Nat, NEW c \in Nat, a <= b
    PROVE  a * c <= b * c /\ a * c \in Nat
<1>1. PICK d \in Nat : b = a + d
  <2>1. b - a \in Nat /\ b = a + (b - a)
    OBVIOUS
  <2> QED
    BY <2>1
<1>2. b * c = a * c + d * c /\ d * c \in Nat /\ a * c \in Nat
  BY <1>1
<1> QED
  BY <1>2

(***************************************************************************)
(* Which fields the hooks leave alone.                                     *)
(***************************************************************************)
Fields == {"eager", "mode", "pooling", "max_model_len", "max_num_batched_tokens", "max_num_seqs",
           "query_buckets", "compile_sizes", "block_size", "user_block", "blocks", "prefix",
           "backend", "world", "features", "drafts", "worker_cls"}

LEMMA ArgumentFields == Arguments = [f \in Fields |-> Arguments[f]]
BY DEF Fields, Arguments

\* What the hooks never decide.
Same(c, d) ==
    /\ DOMAIN d = Fields
    /\ d.features = c.features /\ d.world = c.world /\ d.worker_cls = c.worker_cls
    /\ d.drafts = c.drafts /\ d.backend = c.backend /\ d.pooling = c.pooling

LEMMA FieldsAre ==
    {"features", "world", "worker_cls", "drafts", "backend", "mode", "block_size", "prefix",
     "blocks", "compile_sizes", "max_num_seqs", "max_num_batched_tokens", "pooling"}
      \subseteq Fields
BY DEF Fields

LEMMA SizesKeep ==
    ASSUME NEW c, NEW given, DOMAIN c = Fields
    PROVE  Same(c, WithSizes(c, given))
<1>1. Same(c, [c EXCEPT !.compile_sizes = DefaultSizes(c, given)])
  BY FieldsAre DEF Same
<1>2. Same(c, ShapeDefaults(c))
  <2> DEFINE tokens == Lesser(c.max_num_batched_tokens, FastBody)
             full == BudgetRows(c.max_model_len, tokens, c.max_num_seqs)
             limits == [c EXCEPT !.max_num_batched_tokens = full,
                                 !.max_num_seqs = Lesser(@, Greater(1, full \div Stick))]
  <2>1. Same(c, limits)
    BY FieldsAre DEF Same
  <2>2. Same(c, [limits EXCEPT !.compile_sizes = Bodies(limits)])
    <3> HIDE DEF limits
    <3> QED
      BY <2>1, FieldsAre DEF Same
  <2>3. ShapeDefaults(c) = IF c.compile_sizes = Unset
                           THEN [limits EXCEPT !.compile_sizes = Bodies(limits)] ELSE limits
    BY DEF ShapeDefaults
  <2> HIDE DEF limits
  <2> QED
    BY <2>1, <2>2, <2>3
<1>3. Same(c, c)
  BY DEF Same
<1> QED
  BY <1>1, <1>2, <1>3 DEF WithSizes

LEMMA DefaultsKeep ==
    ASSUME NEW c, NEW given, DOMAIN c = Fields
    PROVE  Same(c, SizesSettled(PlatformDefaults(c, given)))
<1>1. \A d : DOMAIN d = Fields => Same(d, SizesSettled(d)) /\ Same(d, KeepsToSizes(d))
  BY FieldsAre DEF Same, SizesSettled, KeepsToSizes
<1>2. \A m : Same(c, [c EXCEPT !.mode = m])
  BY FieldsAre DEF Same
<1> DEFINE d == WithSizes([c EXCEPT !.mode = "stock"], given)
<1>3. Same(c, d)
  <2>1. Same([c EXCEPT !.mode = "stock"], d)
    BY <1>2, SizesKeep DEF Same
  <2> QED
    BY <1>2, <2>1 DEF Same
<1>4. Same(c, PlatformDefaults(c, given))
  <2>1. Same(c, KeepsToSizes(d))
    <3> HIDE DEF d
    <3> QED
      BY <1>1, <1>3 DEF Same
  <2> QED
    BY <1>2, <2>1 DEF PlatformDefaults
<1> QED
  BY <1>1, <1>4 DEF Same

LEMMA UpdateKeeps ==
    ASSUME NEW c, NEW runner, DOMAIN c = Fields
    PROVE  LET d == Updated(c, runner) IN
           /\ DOMAIN d = Fields
           /\ d.features = c.features /\ d.world = c.world /\ d.pooling = c.pooling
           /\ d.worker_cls = IF c.worker_cls = "auto" THEN runner ELSE c.worker_cls
<1> DEFINE e == [c EXCEPT !.worker_cls = IF @ = "auto" THEN runner ELSE @,
                          !.backend = Backend(c), !.block_size = AlignedBlock(c),
                          !.prefix = @ /\ ~c.pooling]
<1>1. /\ DOMAIN e = Fields
      /\ e.features = c.features /\ e.world = c.world /\ e.pooling = c.pooling
      /\ e.worker_cls = IF c.worker_cls = "auto" THEN runner ELSE c.worker_cls
  BY FieldsAre
<1>2. Updated(c, runner) = e \/ \E n : Updated(c, runner) = [e EXCEPT !.blocks = n]
  BY DEF Updated, WithBlocks
<1> HIDE DEF e
<1> QED
  BY <1>1, <1>2, FieldsAre

(***************************************************************************)
(* The invariant.                                                          *)
(***************************************************************************)
Env == [runner : Runners, pinned : Runners \cup {"none"}, omp : Nat]
Process == [runner : AllRunners \cup {"none"}, triton : BOOLEAN, threads : Nat]

TypeInv ==
    /\ user \in Users /\ user \in UsersTypes /\ env \in Env
    /\ front \in Process /\ engine \in Process /\ worker \in Process

\* A process has Triton exactly if the environment, as it is now, names its runner.
Gated(process) == process.triton = (env.runner = "v2" /\ HasTritonCpu)

\* What the environment and the configuration say once the hooks are through.
Settled ==
    /\ DOMAIN cfg = Fields /\ cfg.world = user.world /\ cfg.pooling = user.pooling
    /\ cfg.backend \in {"uni", "mp"}
    /\ cfg.worker_cls = env.runner /\ env.pinned = env.runner
    /\ UseV2(cfg, env.runner) <=> env.runner = "v2"
    /\ cfg.features \cap Unsupported(cfg, env.runner) = {}
    /\ user.update => Detected > 0 /\ env.omp = PerWorker(cfg)

Budgeted(process) == user.update => process.threads = env.omp

AtSpawn == at = "spawn" => Settled /\ Gated(front)
AtReconfigure == at = "reconfigure" => Settled /\ Budgeted(engine) /\ user.multiprocessing
AtLoad == at = "load" => Settled /\ Gated(engine) /\ (user.multiprocessing => Budgeted(engine))
AtWork == Running => Settled /\ Gated(worker) /\ Budgeted(worker)

Inv == TypeInv /\ AtSpawn /\ AtReconfigure /\ AtLoad /\ AtWork

LEMMA Cpus ==
    ASSUME TypeInv
    PROVE  /\ Detected \in Nat /\ user.world \in Nat \ {0}
           /\ \A c : c.world = user.world /\ Detected > 0 => PerWorker(c) \in Nat \ {0}
<1>1. Detected \in Nat /\ user.world \in Nat \ {0}
  <2>1. user.cpus \in [given : Nat, quota : Nat, cores : Nat] /\ user.world \in Nat \ {0}
    BY DEF TypeInv, UsersTypes
  <2> QED
    BY <2>1 DEF Detected
<1> QED
  BY <1>1, CeilDivShares DEF PerWorker

LEMMA InitInv == Init => Inv
<1> SUFFICES ASSUME Init PROVE Inv
  OBVIOUS
<1>1. TypeInv
  <2>1. user \in Users /\ user \in UsersTypes /\ user.omp \in Nat
    BY StartAssumption DEF Init, StartInit, UsersTypes
  <2>2. env \in Env
    BY <2>1 DEF Init, StartInit, Env
  <2>3. NoProcess \in Process
    BY DEF NoProcess, Process
  <2> QED
    BY <2>1, <2>2, <2>3 DEF Init, StartInit, TypeInv
<1>2. at = "import"
  BY DEF Init, StartInit
<1> QED
  BY <1>1, <1>2 DEF Inv, AtSpawn, AtReconfigure, AtLoad, AtWork, Running

(***************************************************************************)
(* The steps.                                                              *)
(***************************************************************************)
\* A process that imports vLLM knows the environment as it is.
LEMMA ImportedKnows ==
    ASSUME TypeInv
    PROVE  /\ Imported \in Process /\ Gated(Imported) /\ Budgeted(Imported)
           /\ Pinned(env.runner) \in Env
           /\ Pinned(env.runner).runner = env.runner /\ Pinned(env.runner).omp = env.omp
           /\ Pinned(env.runner).pinned = env.runner
<1>1. Pinned(env.runner) = [runner |-> env.runner, pinned |-> env.runner, omp |-> env.omp]
  BY DEF TypeInv, Env, Pinned
<1>2. Imported \in Process
  BY StartAssumption DEF TypeInv, Env, Imported, Process, HasTritonCpu
<1> QED
  BY <1>1, <1>2 DEF TypeInv, Env, Imported, Gated, Budgeted

\* One pass of the hooks: what it accepts, it settles.
LEMMA HooksSettle ==
    ASSUME Inv, NEW c, NEW given, NEW process \in Process, DOMAIN c = Fields,
           c.world = user.world, c.pooling = user.pooling, c.worker_cls \in {"auto", env.runner},
           UNCHANGED user, Hooks(c, given, process)
    PROVE  /\ env' \in Env
           /\ \/ cfg' = NoConfig
              \/ /\ Settled' /\ env'.runner = env.runner
                 /\ process.triton = (env.runner = "v2" /\ HasTritonCpu)
                 /\ user.update => env'.omp = CeilDiv(Detected, user.world)
<1> DEFINE d == SizesSettled(PlatformDefaults(c, given))
           e == Updated(d, env.runner)
<1>1. Same(c, d)
  BY DefaultsKeep
<1>2. /\ DOMAIN e = Fields /\ e.features = d.features /\ e.world = user.world
      /\ e.pooling = user.pooling /\ e.worker_cls = env.runner
  BY <1>1, UpdateKeeps DEF Same
<1>3. e.backend \in {"uni", "mp"}
  <2> DEFINE f == [d EXCEPT !.worker_cls = IF @ = "auto" THEN env.runner ELSE @,
                            !.backend = Backend(d), !.block_size = AlignedBlock(d),
                            !.prefix = @ /\ ~d.pooling]
  <2>1. f.backend \in {"uni", "mp"} /\ DOMAIN f = Fields
    <3>1. Backend(d) \in {"uni", "mp"}
      BY DEF Backend
    <3> HIDE DEF d
    <3> QED
      BY <1>1, <3>1, FieldsAre DEF Same
  <2>2. e = f \/ \E n : e = [f EXCEPT !.blocks = n]
    BY DEF Updated, WithBlocks
  <2> HIDE DEF f, e
  <2> QED
    BY <2>1, <2>2, FieldsAre
<1> HIDE DEF d, e
<1>4. CASE ~Accepted(d, env.runner, process)
  <2>1. cfg' = NoConfig /\ UNCHANGED env
    BY <1>4 DEF Hooks, RunnerNow, d
  <2> QED
    BY <2>1 DEF Inv, TypeInv
<1>5. CASE Accepted(d, env.runner, process)
  <2>1. cfg' = e /\ env' = [Pinned(env.runner) EXCEPT !.omp = OmpThreads(d)]
    BY <1>5 DEF Hooks, RunnerNow, d, e
  <2>2. OmpThreads(d) = IF user.update THEN CeilDiv(Detected, user.world) ELSE env.omp
    BY <1>1 DEF OmpThreads, PerWorker, Same
  <2>3. user.update => Detected > 0
    BY <1>5 DEF Accepted
  <2>4. OmpThreads(d) \in Nat
    <3>1. CASE user.update
      BY <2>2, <2>3, <3>1, Cpus, CeilDivShares DEF Inv
    <3>2. CASE ~user.update
      BY <2>2, <3>2 DEF Inv, TypeInv, Env
    <3> QED
      BY <3>1, <3>2
  <2>5. env' = [runner |-> env.runner, pinned |-> env.runner, omp |-> OmpThreads(d)]
    BY <2>1 DEF Inv, TypeInv, Env, Pinned
  <2>6. env' \in Env
    BY <2>4, <2>5 DEF Inv, TypeInv, Env
  <2>7. /\ UseV2(d, env.runner) <=> env.runner = "v2"
        /\ d.features \cap Unsupported(d, env.runner) = {}
        /\ process.triton = (env.runner = "v2" /\ HasTritonCpu)
    BY <1>5 DEF Accepted, GateHolds
  <2>8. Settled'
    <3>1. user' = user /\ Detected' = Detected /\ env'.runner = env.runner
          /\ env'.pinned = env.runner /\ env'.omp = OmpThreads(d) /\ cfg' = e
      BY <2>1, <2>5 DEF Detected
    <3>2. PerWorker(cfg)' = CeilDiv(Detected, user.world)
      BY <1>2, <3>1 DEF PerWorker
    <3>3. (UseV2(cfg, env.runner) <=> env.runner = "v2")'
      BY <1>2, <2>7, <3>1 DEF UseV2
    <3>4. (cfg.features \cap Unsupported(cfg, env.runner) = {})'
      BY <1>1, <1>2, <2>7, <3>1 DEF Unsupported, Same
    <3>5. (user.update => Detected > 0 /\ env.omp = PerWorker(cfg))'
      BY <2>2, <2>3, <3>1, <3>2
    <3>6. (/\ DOMAIN cfg = Fields /\ cfg.world = user.world /\ cfg.pooling = user.pooling
           /\ cfg.backend \in {"uni", "mp"})'
      BY <1>2, <1>3, <3>1
    <3>7. (cfg.worker_cls = env.runner /\ env.pinned = env.runner)'
      BY <1>2, <3>1
    <3> QED
      BY <3>3, <3>4, <3>5, <3>6, <3>7 DEF Settled
  <2> QED
    BY <2>2, <2>5, <2>6, <2>7, <2>8
<1> QED
  BY <1>4, <1>5

LEMMA ConfigureKeeps == Inv /\ Configure => Inv'
<1> SUFFICES ASSUME Inv, Configure PROVE Inv'
  OBVIOUS
<1>1. /\ at' \in {"spawn", "refused"}
      /\ UNCHANGED <<user, front, engine, worker>>
      /\ Hooks(Arguments, RecordedBudget, front)
      /\ cfg' = NoConfig => at' = "refused"
  BY DEF Configure, Then
<1>2. /\ Arguments.world = user.world /\ Arguments.pooling = user.pooling
      /\ Arguments.worker_cls = "auto"
  BY DEF Arguments
<1>3. /\ env' \in Env
      /\ \/ cfg' = NoConfig
         \/ /\ Settled' /\ env'.runner = env.runner
            /\ front.triton = (env.runner = "v2" /\ HasTritonCpu)
  BY <1>1, <1>2, ArgumentFields, HooksSettle DEF Inv, TypeInv
<1>4. TypeInv'
  BY <1>1, <1>3 DEF Inv, TypeInv
<1>5. AtSpawn'
  <2>1. Gated(front)' = (front.triton = (env'.runner = "v2" /\ HasTritonCpu))
    BY <1>1 DEF Gated, HasTritonCpu
  <2> QED
    BY <1>1, <1>3, <2>1 DEF AtSpawn
<1> QED
  BY <1>1, <1>4, <1>5 DEF Inv, AtReconfigure, AtLoad, AtWork, Running

LEMMA SpawnKeeps == Inv /\ Spawn => Inv'
<1> SUFFICES ASSUME Inv, Spawn PROVE Inv'
  OBVIOUS
<1>1. /\ at' \in {"reconfigure", "load"} /\ UNCHANGED <<user, front, worker>>
      /\ Settled /\ Gated(front)
  BY DEF Inv, AtSpawn, Spawn
<1>2. CASE user.multiprocessing
  <2>1. PICK m : cfg' = [cfg EXCEPT !.mode = m]
    BY <1>2 DEF Spawn
  <2>2. engine' = Imported /\ env' = Pinned(env.runner) /\ at' = "reconfigure"
    BY <1>2 DEF Spawn
  <2>3. /\ engine' \in Process /\ env' \in Env /\ env'.runner = env.runner
        /\ env'.omp = env.omp /\ env'.pinned = env.runner /\ Budgeted(engine)'
    BY <1>1, <2>2, ImportedKnows DEF Inv, Budgeted
  <2>4. Settled'
    <3>1. /\ DOMAIN cfg' = Fields /\ cfg'.world = cfg.world /\ cfg'.backend = cfg.backend
          /\ cfg'.worker_cls = cfg.worker_cls /\ cfg'.features = cfg.features
          /\ cfg'.pooling = cfg.pooling
      BY <1>1, <2>1, FieldsAre DEF Settled
    <3>2. Detected' = Detected /\ PerWorker(cfg)' = PerWorker(cfg)
      BY <1>1, <3>1 DEF Detected, PerWorker
    <3> QED
      BY <1>1, <2>3, <3>1, <3>2 DEF Settled, UseV2, Unsupported
  <2>5. TypeInv'
    BY <1>1, <2>3 DEF Inv, TypeInv
  <2> QED
    BY <1>1, <1>2, <2>2, <2>3, <2>4, <2>5
       DEF Inv, AtSpawn, AtReconfigure, AtLoad, AtWork, Running
<1>3. CASE ~user.multiprocessing
  <2>1. at' = "load" /\ engine' = front /\ UNCHANGED <<env, cfg>>
    BY <1>3 DEF Spawn
  <2>2. Settled' /\ Gated(engine)' /\ TypeInv'
    <3>1. Detected' = Detected /\ HasTritonCpu' = HasTritonCpu
      BY <1>1 DEF Detected, HasTritonCpu
    <3>2. Settled'
      BY <1>1, <2>1, <3>1 DEF Settled, UseV2, Unsupported, PerWorker
    <3> QED
      BY <1>1, <2>1, <3>1, <3>2 DEF Inv, TypeInv, Gated
  <2> QED
    BY <1>1, <1>3, <2>1, <2>2 DEF Inv, AtSpawn, AtReconfigure, AtLoad, AtWork, Running
<1> QED
  BY <1>2, <1>3

LEMMA ReconfigureKeeps == Inv /\ Reconfigure => Inv'
<1> SUFFICES ASSUME Inv, Reconfigure PROVE Inv'
  OBVIOUS
<1>1. /\ at' \in {"load", "refused"}
      /\ UNCHANGED <<user, front, engine, worker>>
      /\ Hooks(cfg, recorded, engine)
      /\ cfg' = NoConfig => at' = "refused"
      /\ Settled /\ Budgeted(engine) /\ user.multiprocessing
  BY DEF Reconfigure, Then, Inv, AtReconfigure
<1>2. /\ DOMAIN cfg = Fields /\ cfg.world = user.world /\ cfg.pooling = user.pooling
      /\ cfg.worker_cls = env.runner
  BY <1>1 DEF Settled
<1>3. /\ env' \in Env
      /\ \/ cfg' = NoConfig
         \/ /\ Settled' /\ env'.runner = env.runner
            /\ engine.triton = (env.runner = "v2" /\ HasTritonCpu)
            /\ user.update => env'.omp = CeilDiv(Detected, user.world)
  BY <1>1, <1>2, HooksSettle DEF Inv, TypeInv
<1>4. TypeInv'
  BY <1>1, <1>3 DEF Inv, TypeInv
<1>5. AtLoad'
  <2>1. Gated(engine)' = (engine.triton = (env'.runner = "v2" /\ HasTritonCpu))
    BY <1>1 DEF Gated, HasTritonCpu
  <2>2. user.update => engine.threads = CeilDiv(Detected, user.world)
    BY <1>1, <1>2 DEF Budgeted, Settled, PerWorker
  <2> QED
    BY <1>1, <1>3, <2>1, <2>2 DEF AtLoad, Budgeted
<1> QED
  BY <1>1, <1>4, <1>5 DEF Inv, AtSpawn, AtReconfigure, AtWork, Running

LEMMA StartWorkerKeeps == Inv /\ StartWorker => Inv'
<1> SUFFICES ASSUME Inv, StartWorker PROVE Inv'
  OBVIOUS
<1>1. /\ at' \in {"warm", "refused"} /\ UNCHANGED <<user, env, cfg, front, engine>>
      /\ worker' = InProcess(IF cfg.backend = "mp" THEN Imported ELSE engine)
      /\ Settled /\ Gated(engine) /\ (user.multiprocessing => Budgeted(engine))
  BY DEF Inv, AtLoad, StartWorker
<1>2. worker' \in Process /\ Gated(worker') /\ Budgeted(worker')
  <2>1. CASE cfg.backend = "mp"
    <3>1. worker' = Imported
      BY <1>1, <2>1 DEF InProcess
    <3> QED
      BY <3>1, ImportedKnows DEF Inv
  <2>2. CASE cfg.backend = "uni"
    <3>1. worker' = InProcess(engine)
      BY <1>1, <2>2
    <3>2. CASE user.multiprocessing
      <4>1. worker' = engine
        BY <3>1, <3>2 DEF InProcess
      <4> QED
        BY <1>1, <3>2, <4>1 DEF Inv, TypeInv
    <3>3. CASE ~user.multiprocessing /\ env.omp = 0
      <4>1. worker' = engine
        BY <3>1, <3>3 DEF InProcess
      <4>2. ~user.update
        BY <1>1, <3>3, Cpus DEF Settled, Inv
      <4> QED
        BY <1>1, <4>1, <4>2 DEF Inv, TypeInv, Budgeted
    <3>4. CASE ~user.multiprocessing /\ env.omp # 0
      <4>1. worker' = [engine EXCEPT !.threads = env.omp]
        BY <2>2, <3>1, <3>4 DEF InProcess
      <4>2. env.omp \in Nat /\ engine \in Process
        BY DEF Inv, TypeInv, Env
      <4>3. worker' \in Process /\ worker'.threads = env.omp /\ worker'.triton = engine.triton
        BY <4>1, <4>2 DEF Process
      <4> QED
        BY <1>1, <4>3 DEF Gated, Budgeted
    <3> QED
      BY <3>2, <3>3, <3>4
  <2> QED
    BY <1>1, <2>1, <2>2 DEF Settled
<1>3. Settled' /\ Gated(worker)' /\ Budgeted(worker)' /\ TypeInv'
  <2>1. Detected' = Detected /\ HasTritonCpu' = HasTritonCpu
    BY <1>1 DEF Detected, HasTritonCpu
  <2>2. Settled'
    BY <1>1, <2>1 DEF Settled, UseV2, Unsupported, PerWorker
  <2> QED
    BY <1>1, <1>2, <2>1, <2>2 DEF Inv, TypeInv, Gated, Budgeted
<1> QED
  BY <1>1, <1>3 DEF Inv, AtSpawn, AtReconfigure, AtLoad, AtWork, Running

\* Nothing the start has settled changes once the worker warms up and serves.
LEMMA WorkKeeps ==
    ASSUME Inv, UNCHANGED <<user, env, cfg, front, engine, worker>>,
           at' = at \/ (Running /\ Running')
    PROVE  Inv'
<1>1. Detected' = Detected /\ HasTritonCpu' = HasTritonCpu
  BY DEF Detected, HasTritonCpu
<1>2. Settled' = Settled
  BY <1>1 DEF Settled, UseV2, Unsupported, PerWorker
<1>3. /\ Gated(front)' = Gated(front) /\ Gated(engine)' = Gated(engine)
      /\ Gated(worker)' = Gated(worker)
      /\ Budgeted(engine)' = Budgeted(engine) /\ Budgeted(worker)' = Budgeted(worker)
  BY <1>1 DEF Gated, Budgeted
<1>4. TypeInv'
  BY DEF Inv, TypeInv
<1>5. CASE at' = at
  BY <1>2, <1>3, <1>4, <1>5 DEF Inv, AtSpawn, AtReconfigure, AtLoad, AtWork, Running
<1>6. CASE Running /\ Running'
  <2>1. at' \notin {"spawn", "reconfigure", "load"}
    BY <1>6 DEF Running
  <2> QED
    BY <1>2, <1>3, <1>4, <1>6, <2>1 DEF Inv, AtSpawn, AtReconfigure, AtLoad, AtWork
<1> QED
  BY <1>5, <1>6

LEMMA ImportKeeps ==
    ASSUME Inv, ImportFront \/ SetRunner
    PROVE  Inv'
<1>1. at' \in {"import", "configure"} /\ UNCHANGED <<user, engine, worker>>
  BY DEF ImportFront, SetRunner
<1>2. front' \in Process /\ env' \in Env
  <2>1. CASE ImportFront
    BY <2>1, ImportedKnows DEF ImportFront, Inv
  <2>2. CASE SetRunner
    <3>1. PICK r \in Runners : env' = [env EXCEPT !.runner = r]
      BY <2>2 DEF SetRunner
    <3> QED
      BY <2>2, <3>1 DEF SetRunner, Inv, TypeInv, Env
  <2> QED
    BY <2>1, <2>2
<1>3. TypeInv'
  BY <1>1, <1>2 DEF Inv, TypeInv
<1> QED
  BY <1>1, <1>3 DEF Inv, AtSpawn, AtReconfigure, AtLoad, AtWork, Running

LEMMA NextKeeps == Inv /\ [Next]_vars => Inv'
<1> SUFFICES ASSUME Inv, [Next]_vars PROVE Inv'
  OBVIOUS
<1>1. CASE ImportFront \/ SetRunner
  BY <1>1, ImportKeeps
<1>2. CASE Configure
  BY <1>2, ConfigureKeeps
<1>3. CASE Spawn
  BY <1>3, SpawnKeeps
<1>4. CASE Reconfigure
  BY <1>4, ReconfigureKeeps
<1>5. CASE StartWorker
  BY <1>5, StartWorkerKeeps
<1>6. CASE Plan
  BY <1>6, WorkKeeps DEF Plan, Running
<1>7. CASE WarmSize
  BY <1>7, WorkKeeps DEF WarmSize, startVars
<1>8. CASE WarmHead
  BY <1>8, WorkKeeps DEF WarmHead, Running
<1>9. CASE Step
  BY <1>9, WorkKeeps DEF Step, startVars
<1>10. CASE UNCHANGED vars
  BY <1>10, WorkKeeps DEF vars, startVars
<1> QED
  BY <1>1, <1>2, <1>3, <1>4, <1>5, <1>6, <1>7, <1>8, <1>9, <1>10 DEF Next, Start

LEMMA Invariance == Spec => []Inv
<1>1. Init => Inv
  BY InitInv
<1>2. Inv /\ [Next]_vars => Inv'
  BY NextKeeps
<1> QED
  BY <1>1, <1>2, PTL DEF Spec

(***************************************************************************)
(* For all command lines and whatever a script does to the environment     *)
(* before it builds its engine: in the process that runs the model, the    *)
(* worker's class, vLLM's own choice of runner and Triton agree            *)
(* (check_and_update_config and the gate on Triton).                       *)
(***************************************************************************)
THEOREM RunnersAgree == Spec => []RunnerAgrees
<1>1. Inv => RunnerAgrees
  <2> SUFFICES ASSUME Inv, Running PROVE RunnerAgrees
    BY DEF RunnerAgrees
  <2>1. Settled /\ Gated(worker)
    BY DEF Inv, AtWork
  <2>2. UseV2(cfg, env.runner) \in BOOLEAN
    BY DEF UseV2
  <2>3. (cfg.worker_cls = "v2") = UseV2(cfg, env.pinned)
    BY <2>1, <2>2 DEF Settled
  <2> QED
    BY <2>1, <2>3 DEF Settled, Gated, RunnerAgrees
<1> QED
  BY <1>1, Invariance, PTL

(***************************************************************************)
(* For all command lines: a worker's thread pools are the least that let   *)
(* all workers together use the CPUs they were given (configure_threading, *)
(* apply_in_process_threading).                                            *)
(***************************************************************************)
THEOREM WorkersShareTheMachine == Spec => []WorkersKeepToBudget
<1>1. Inv => WorkersKeepToBudget
  <2> SUFFICES ASSUME Inv, Running, user.update
               PROVE  /\ worker.threads * cfg.world >= Detected
                      /\ (worker.threads - 1) * cfg.world < Detected
    BY DEF WorkersKeepToBudget
  <2>1. Settled /\ Budgeted(worker)
    BY DEF Inv, AtWork
  <2>2. worker.threads = CeilDiv(Detected, cfg.world) /\ cfg.world = user.world /\ Detected > 0
    BY <2>1 DEF Settled, Budgeted, PerWorker
  <2>3. Detected \in Nat \ {0} /\ cfg.world \in Nat \ {0}
    BY <2>2, Cpus DEF Inv
  <2> QED
    BY <2>2, <2>3, CeilDivShares
<1> QED
  BY <1>1, Invariance, PTL

(***************************************************************************)
(* The second pass: what a configuration has to be for the hooks, run on it*)
(* again in another process, to have nothing left to decide.               *)
(***************************************************************************)
\* That of a generative engine.
Stable(c) ==
    /\ c = [f \in Fields |-> c[f]]
    /\ c.eager \in BOOLEAN /\ ~c.pooling /\ c.worker_cls # "auto"
    /\ c.mode = IF c.eager THEN "none" ELSE "stock"
    /\ c.compile_sizes # Unset
    /\ ~c.eager /\ c.compile_sizes # {} => c.max_num_batched_tokens = GreatestOf(c.compile_sizes)
    /\ c.backend = Backend(c) /\ c.block_size = AlignedBlock(c)
    /\ c.prefix \in BOOLEAN /\ c.blocks # None

\* What a generative engine needs of its numbers: pages, lengths and batches there are,
\* sizes that end, and a page for every block of every sequence unless the user said how
\* many (given is the user's count).
Bounded(S) == S \subseteq Int /\ \E m \in Nat : \A s \in S : s <= m

Sized(c, given) ==
    /\ c.block_size \in Nat \ {0} /\ c.max_model_len \in Nat \ {0}
    /\ c.max_num_seqs \in Nat \ {0} /\ c.drafts \in Nat
    /\ Bounded(c.compile_sizes)
    /\ given = None => c.blocks = BlocksFor(c)

\* A step of two rows has a size.
TwoRows(S) == \E s \in S : 2 <= s
Roomy(c) ==
    /\ 2 <= PrefillBucket /\ 2 <= c.max_num_batched_tokens
    /\ c.compile_sizes \in {Unset, {}} \/ TwoRows(c.compile_sizes)

\* A configuration rests if the hooks have nothing left to decide.
Rests(c) ==
    /\ c = [f \in Fields |-> c[f]]
    /\ c.eager \in BOOLEAN /\ c.worker_cls # "auto"
    /\ c.mode = IF c.eager THEN "none" ELSE "stock"
    /\ c.compile_sizes # Unset
    /\ ~c.eager => \A given : KeepsToSizes(WithSizes(c, given)) = c
    /\ c.backend = Backend(c) /\ c.block_size = AlignedBlock(c)
    /\ c.prefix \in BOOLEAN /\ (c.prefix => ~c.pooling)
    /\ c.blocks # None \/ c.pooling

LEMMA StableRests == ASSUME NEW c, Stable(c) PROVE Rests(c)
<1>1. ASSUME ~c.eager, NEW given PROVE KeepsToSizes(WithSizes(c, given)) = c
  <2>1. WithSizes(c, given) = c
    BY DEF WithSizes, Stable
  <2>2. [c EXCEPT !.max_num_batched_tokens = c.max_num_batched_tokens] = c
    BY FieldsAre DEF Stable
  <2> QED
    BY <1>1, <2>1, <2>2 DEF KeepsToSizes, Stable
<1> QED
  BY <1>1 DEF Stable, Rests

LEMMA SecondPass ==
    ASSUME NEW c, Rests(c), NEW m, NEW given, NEW runner
    PROVE  LET d == [c EXCEPT !.mode = m] IN
           Updated(SizesSettled(PlatformDefaults(d, given)), runner) = c
<1> DEFINE d == [c EXCEPT !.mode = m]
<1>1. DOMAIN c = Fields /\ "eager" \in Fields
  BY DEF Rests, Fields
<1>2. [c EXCEPT !.mode = c.mode] = c
  BY <1>1 DEF Rests
<1>3. d.eager = c.eager /\ \A k : [d EXCEPT !.mode = k] = [c EXCEPT !.mode = k]
  <2>1. d = [f \in Fields |-> IF f = "mode" THEN m ELSE c[f]]
    BY <1>1
  <2>2. ASSUME NEW k PROVE [d EXCEPT !.mode = k] = [c EXCEPT !.mode = k]
    <3> HIDE DEF d
    <3>1. [d EXCEPT !.mode = k] = [f \in Fields |-> IF f = "mode" THEN k ELSE d[f]]
      BY <2>1
    <3>2. [c EXCEPT !.mode = k] = [f \in Fields |-> IF f = "mode" THEN k ELSE c[f]]
      BY <1>1
    <3>3. \A f \in Fields : f = "mode" \/ d[f] = c[f]
      BY <2>1
    <3> QED
      BY <3>1, <3>2, <3>3
  <2>3. d.eager = c.eager
    BY <1>1, <2>1
  <2> HIDE DEF d
  <2> QED
    BY <2>2, <2>3
<1> HIDE DEF d
<1>4. PlatformDefaults(d, given) = c
  <2>1. CASE c.eager
    <3>1. PlatformDefaults(d, given) = [d EXCEPT !.mode = "none"] /\ c.mode = "none"
      BY <1>3, <2>1 DEF PlatformDefaults, Rests
    <3> QED
      BY <1>3, <1>2, <3>1
  <2>2. CASE ~c.eager
    <3>1. KeepsToSizes(WithSizes(c, given)) = c
      BY <2>2 DEF Rests
    <3>2. PlatformDefaults(d, given) = KeepsToSizes(WithSizes([d EXCEPT !.mode = "stock"], given))
      BY <1>3, <2>2 DEF PlatformDefaults
    <3>3. [d EXCEPT !.mode = "stock"] = c
      BY <1>3, <1>2, <2>2 DEF Rests
    <3> QED
      BY <3>1, <3>2, <3>3
  <2> QED
    BY <2>1, <2>2
<1>5. SizesSettled(c) = c
  BY DEF SizesSettled, Rests
<1>6. Updated(c, runner) = c
  <2>1. [c EXCEPT !.worker_cls = IF @ = "auto" THEN runner ELSE @, !.backend = Backend(c),
                  !.block_size = AlignedBlock(c), !.prefix = @ /\ ~c.pooling]
          = [c EXCEPT !.worker_cls = c.worker_cls, !.backend = c.backend,
                      !.block_size = c.block_size, !.prefix = c.prefix]
    <3>1. (c.prefix /\ ~c.pooling) = c.prefix
      BY DEF Rests
    <3> QED
      BY <3>1, FieldsAre, <1>1 DEF Rests
  <2>2. [c EXCEPT !.worker_cls = c.worker_cls, !.backend = c.backend,
                  !.block_size = c.block_size, !.prefix = c.prefix] = c
    BY FieldsAre, <1>1 DEF Rests
  <2> QED
    BY <2>1, <2>2 DEF Updated, WithBlocks, Rests
<1> QED
  BY <1>4, <1>5, <1>6 DEF d


LEMMA MinOfTwo ==
    ASSUME NEW a \in Nat \ {0}, NEW b \in Nat \ {0}
    PROVE  /\ Min({a, b}) \in Nat \ {0} /\ Min({a, b}) \in {a, b}
           /\ Min({a, b}) <= a /\ Min({a, b}) <= b
<1>1. \E x \in {a, b} : \A y \in {a, b} : x <= y
  <2>1. CASE a <= b
    BY <2>1
  <2>2. CASE b <= a
    BY <2>2
  <2> QED
    BY <2>1, <2>2
<1>2. Min({a, b}) \in {a, b} /\ \A y \in {a, b} : Min({a, b}) <= y
  BY <1>1 DEF Min
<1> QED
  BY <1>2

LEMMA AlignedAgain ==
    ASSUME NEW n \in Nat, NEW m \in Nat \ {0}
    PROVE  /\ AlignUpTo(n, m) \in Nat
           /\ n # 0 => AlignUpTo(n, m) # 0
           /\ AlignUpTo(AlignUpTo(n, m), m) = AlignUpTo(n, m)
<1> DEFINE q == CeilDiv(n, m)
<1>1. q \in Nat /\ (n # 0 => q # 0)
  <2>1. CASE n = 0
    <3>1. n + m - 1 = m - 1 /\ m - 1 \in Nat /\ m - 1 < m
      BY <2>1
    <3>2. (n + m - 1) \div m \in Nat
      BY <3>1
    <3> QED
      BY <2>1, <3>2 DEF CeilDiv
  <2>2. CASE n # 0
    BY <2>2, CeilDivShares
  <2> QED
    BY <2>1, <2>2
<1>2. \A k \in Nat : (k * m + m - 1) \div m = k
  OBVIOUS
<1> HIDE DEF q
<1>3. CeilDiv(q * m, m) = q
  BY <1>1, <1>2 DEF CeilDiv
<1>4. AlignUpTo(n, m) = q * m
  BY DEF AlignUpTo, q
<1>5. q * m \in Nat /\ (q # 0 => q * m # 0)
  BY <1>1
<1> QED
  BY <1>1, <1>3, <1>4, <1>5 DEF AlignUpTo

\* The sizes derived from the limits, and the largest of them.
LEMMA DefaultSizesBounded ==
    ASSUME NEW c, c.max_num_batched_tokens \in Nat \ {0}, c.max_num_seqs \in Nat \ {0}, NEW given
    PROVE  /\ Bounded(DefaultSizes(c, given)) /\ DefaultSizes(c, given) # Unset
           /\ 2 <= PrefillBucket /\ 2 <= c.max_num_batched_tokens => TwoRows(DefaultSizes(c, given))
<1> DEFINE largest == LargestSize(c, given)
           seqs == Min({c.max_num_seqs, largest})
           powers == {s \in {2^k : k \in 0..LadderBits} : s < seqs}
<1>1. PrefillBucket \in Nat \ {0}
  BY StartAssumption
<1>2. largest \in Nat \ {0} /\ (2 <= PrefillBucket /\ 2 <= c.max_num_batched_tokens => 2 <= largest)
  <2> DEFINE least == Min({c.max_num_batched_tokens, PrefillBucket})
  <2>1. least \in Nat \ {0} /\ least \in {c.max_num_batched_tokens, PrefillBucket}
    BY <1>1, MinOfTwo
  <2>2. largest = c.max_num_batched_tokens \/ largest = least
    BY DEF LargestSize
  <2> HIDE DEF largest, least
  <2> QED
    BY <2>1, <2>2
<1> HIDE DEF largest
<1>3. seqs \in Nat \ {0}
  BY <1>2, MinOfTwo
<1> HIDE DEF seqs
<1>4. \A s \in powers : s \in Int /\ s <= seqs
  <2>1. \A k \in 0..LadderBits : 2^k \in Int
    OBVIOUS
  <2> QED
    BY <1>3, <2>1
<1>5. DefaultSizes(c, given)
        = {largest, seqs} \cup (IF largest > PrefillBucket THEN {PrefillBucket} ELSE {}) \cup powers
  BY DEF DefaultSizes, largest, seqs
<1> HIDE DEF powers
<1>6. \A s \in DefaultSizes(c, given) : s \in Int /\ s <= largest + seqs + PrefillBucket
  BY <1>1, <1>2, <1>3, <1>4, <1>5
<1>7. largest + seqs + PrefillBucket \in Nat
  BY <1>1, <1>2, <1>3
<1>8. largest \in DefaultSizes(c, given) /\ largest # 0
  BY <1>2, <1>5
<1> QED
  BY <1>2, <1>6, <1>7, <1>8 DEF Bounded, TwoRows, Unset

\* The sizes one pass settles on.
LEMMA SizesAfter ==
    ASSUME NEW c, DOMAIN c = Fields, ~c.pooling, c.max_num_batched_tokens \in Nat \ {0},
           c.max_num_seqs \in Nat \ {0}, Bounded(c.compile_sizes), NEW given
    PROVE  LET S == SizesSettled(PlatformDefaults(c, given)).compile_sizes IN
           Bounded(S) /\ (Roomy(c) => S = {} \/ TwoRows(S))
<1> DEFINE Good(S) == Bounded(S) /\ (Roomy(c) => S \in {Unset, {}} \/ TwoRows(S))
           Fine(S) == Bounded(S) /\ (Roomy(c) => S = {} \/ TwoRows(S))
           p == PlatformDefaults(c, given)
<1>0. Good(c.compile_sizes)
  BY DEF Roomy
<1>1. DOMAIN p = Fields /\ Good(p.compile_sizes)
  <2>1. CASE c.eager
    <3>1. p = [c EXCEPT !.mode = "none"]
      BY <2>1 DEF PlatformDefaults
    <3>2. DOMAIN p = Fields /\ p.compile_sizes = c.compile_sizes
      BY <3>1, FieldsAre
    <3> QED
      BY <1>0, <3>2
  <2>2. CASE ~c.eager
    <3> DEFINE s == [c EXCEPT !.mode = "stock"]
               x == WithSizes(s, given)
    <3>1. /\ DOMAIN s = Fields /\ ~s.pooling /\ s.compile_sizes = c.compile_sizes
          /\ s.max_num_batched_tokens = c.max_num_batched_tokens
          /\ s.max_num_seqs = c.max_num_seqs
      BY FieldsAre
    <3> HIDE DEF s
    <3>2. Good(DefaultSizes(s, given))
      BY <3>1, DefaultSizesBounded DEF Roomy
    <3>3. DOMAIN x = Fields /\ Good(x.compile_sizes)
      <4>1. x = IF s.compile_sizes # Unset THEN s
                ELSE [s EXCEPT !.compile_sizes = DefaultSizes(s, given)]
        BY <3>1 DEF WithSizes
      <4>2. DOMAIN x = Fields
            /\ x.compile_sizes \in {s.compile_sizes, DefaultSizes(s, given)}
        <5> HIDE DEF x
        <5> QED
          BY <3>1, <4>1, FieldsAre
      <4> HIDE DEF x, Good
      <4> QED
        BY <1>0, <3>1, <3>2, <4>2
    <3> HIDE DEF x
    <3>4. p = KeepsToSizes(x)
      BY <2>2 DEF PlatformDefaults, x, s
    <3>5. DOMAIN p = Fields /\ p.compile_sizes = x.compile_sizes
      BY <3>3, <3>4, FieldsAre DEF KeepsToSizes
    <3> HIDE DEF Good, p
    <3> QED
      BY <3>3, <3>5
  <2> QED
    BY <2>1, <2>2
<1> HIDE DEF p
<1>2. SizesSettled(p).compile_sizes = IF p.compile_sizes = Unset THEN {} ELSE p.compile_sizes
  BY <1>1, FieldsAre DEF SizesSettled
<1>3. Fine({})
  BY DEF Bounded
<1>4. Fine(SizesSettled(p).compile_sizes)
  BY <1>1, <1>2, <1>3
<1> QED
  BY <1>4 DEF p

\* The first pass of a generative engine leaves a stable configuration.
LEMMA FirstPass ==
    ASSUME NEW c, c = [f \in Fields |-> c[f]], c.eager \in BOOLEAN, ~c.pooling,
           c.worker_cls = "auto", c.prefix \in BOOLEAN,
           c.user_block = (c.block_size # None), c.block_size \in Nat, c.blocks \in Nat,
           c.max_num_seqs \in Nat \ {0}, c.max_num_batched_tokens \in Nat \ {0},
           c.max_model_len \in Nat \ {0}, c.drafts \in Nat, Bounded(c.compile_sizes),
           NEW given, NEW runner, runner # "auto"
    PROVE  LET f == Updated(SizesSettled(PlatformDefaults(c, given)), runner) IN
           /\ Stable(f) /\ Sized(f, c.blocks) /\ f.features = c.features
           /\ Roomy(c) => f.compile_sizes = {} \/ TwoRows(f.compile_sizes)
<1> DEFINE d == SizesSettled(PlatformDefaults(c, given))
           e == [d EXCEPT !.worker_cls = IF @ = "auto" THEN runner ELSE @,
                          !.backend = Backend(d), !.block_size = AlignedBlock(d),
                          !.prefix = @ /\ ~d.pooling]
           Base == Fields \ {"mode", "compile_sizes", "max_num_batched_tokens"}
           Settles(x) ==
             /\ x = [f \in Fields |-> x[f]] /\ \A f \in Base : x[f] = c[f]
             /\ x.mode = IF c.eager THEN "none" ELSE "stock"
<1>1. /\ {"eager", "pooling", "worker_cls", "prefix", "user_block", "block_size", "blocks",
          "max_num_seqs", "max_model_len", "world", "backend"} \subseteq Base
      /\ {"mode", "compile_sizes", "max_num_batched_tokens"} \subseteq Fields
      /\ {"drafts", "features"} \subseteq Base
  BY DEF Fields
<1>2. DefaultSizes([c EXCEPT !.mode = "stock"], given) # Unset
  <2> DEFINE s == [c EXCEPT !.mode = "stock"]
  <2>1. s.max_num_batched_tokens = c.max_num_batched_tokens /\ s.max_num_seqs = c.max_num_seqs
    BY <1>1
  <2> HIDE DEF s
  <2>2. DefaultSizes(s, given) # Unset
    BY <2>1, DefaultSizesBounded
  <2> QED
    BY <2>2 DEF s
<1>3. /\ Settles(d) /\ d.compile_sizes # Unset
      /\ ~c.eager /\ d.compile_sizes # {} => d.max_num_batched_tokens = GreatestOf(d.compile_sizes)
  <2>1. CASE c.eager
    <3> DEFINE x == [c EXCEPT !.mode = "none"]
    <3>1. PlatformDefaults(c, given) = x
      BY <2>1 DEF PlatformDefaults
    <3>2. Settles(x)
      BY <1>1, <2>1
    <3>3. d = IF x.compile_sizes = Unset THEN [x EXCEPT !.compile_sizes = {}] ELSE x
      BY <3>1 DEF SizesSettled
    <3>4. {} # Unset
      BY DEF Unset
    <3> HIDE DEF x, d
    <3>5. Settles(d) /\ d.compile_sizes # Unset
      BY <1>1, <3>2, <3>3, <3>4
    <3> QED
      BY <2>1, <3>5
  <2>2. CASE ~c.eager
    <3> DEFINE s == [c EXCEPT !.mode = "stock"]
               x == WithSizes(s, given)
    <3>1. Settles(s)
      BY <1>1, <2>2
    <3>2. Settles(x) /\ x.compile_sizes # Unset
      <4>1. ~s.pooling /\ DefaultSizes(s, given) # Unset
        BY <1>1, <1>2
      <4> HIDE DEF s
      <4>2. x = IF s.compile_sizes # Unset THEN s
                ELSE [s EXCEPT !.compile_sizes = DefaultSizes(s, given)]
        BY <4>1 DEF WithSizes
      <4> HIDE DEF x
      <4> QED
        BY <1>1, <3>1, <4>1, <4>2
    <3>3. PlatformDefaults(c, given) = KeepsToSizes(x)
      BY <2>2 DEF PlatformDefaults
    <3> HIDE DEF s, x
    <3> DEFINE k == KeepsToSizes(x)
    <3>4. /\ Settles(k) /\ k.compile_sizes = x.compile_sizes
          /\ k.compile_sizes # {} => k.max_num_batched_tokens = GreatestOf(k.compile_sizes)
      BY <1>1, <3>2 DEF KeepsToSizes
    <3>5. d = k
      BY <3>2, <3>3, <3>4 DEF SizesSettled
    <3> HIDE DEF d, k
    <3> QED
      BY <3>2, <3>4, <3>5
  <2> QED
    BY <2>1, <2>2
<1> HIDE DEF d
<1>4. AlignedBlock(d) \in Nat \ {0}
  <2>1. AlignedBlock(d) = IF c.user_block THEN AlignUpTo(c.block_size, BlockMultiple) ELSE DefaultBlock
    BY <1>1, <1>3 DEF AlignedBlock
  <2>2. BlockMultiple \in Nat \ {0} /\ DefaultBlock \in Nat \ {0}
    BY StartAssumption
  <2>3. CASE c.user_block
    <3>1. c.block_size \in Nat \ {0}
      BY <2>3 DEF None
    <3>2. AlignUpTo(c.block_size, BlockMultiple) \in Nat \ {0}
      BY <2>2, <3>1, AlignedAgain
    <3> QED
      BY <2>1, <2>3, <3>2, Zenon
  <2> QED
    BY <2>1, <2>2, <2>3
<1>5. /\ e = [f \in Fields |-> e[f]] /\ e.eager = c.eager /\ ~e.pooling
      /\ e.worker_cls = runner /\ e.mode = d.mode
      /\ e.compile_sizes = d.compile_sizes
      /\ e.max_num_batched_tokens = d.max_num_batched_tokens
      /\ e.backend = Backend(d) /\ e.world = d.world
      /\ e.block_size = AlignedBlock(d) /\ e.user_block = d.user_block
      /\ e.prefix = c.prefix /\ e.blocks = c.blocks
      /\ e.max_num_seqs = c.max_num_seqs /\ e.max_model_len = c.max_model_len
      /\ e.drafts = c.drafts /\ e.features = c.features
  <2>1. /\ d = [f \in Fields |-> d[f]] /\ d.eager = c.eager /\ ~d.pooling
        /\ d.worker_cls = "auto" /\ d.prefix = c.prefix /\ d.prefix \in BOOLEAN
        /\ d.blocks = c.blocks
        /\ d.max_num_seqs = c.max_num_seqs /\ d.max_model_len = c.max_model_len
        /\ d.drafts = c.drafts /\ d.features = c.features
    BY <1>1, <1>3
  <2> DEFINE g == [d EXCEPT !.worker_cls = runner, !.backend = Backend(d),
                            !.block_size = AlignedBlock(d), !.prefix = c.prefix]
  <2>2. e = g
    BY <2>1
  <2>3. DOMAIN d = Fields
    BY <2>1
  <2>4. /\ g = [f \in Fields |-> g[f]] /\ g.worker_cls = runner
        /\ g.backend = Backend(d) /\ g.block_size = AlignedBlock(d) /\ g.prefix = c.prefix
    BY <1>1, <2>3
  <2>5. \A f \in Fields \ {"worker_cls", "backend", "block_size", "prefix"} : g[f] = d[f]
    BY <2>3
  <2> HIDE DEF g, e
  <2> QED
    BY <1>1, <2>1, <2>2, <2>4, <2>5
<1> HIDE DEF e
<1>6. Backend(e) = e.backend
  BY <1>5 DEF Backend
<1>7. AlignedBlock(e) = e.block_size
  <2>1. CASE d.user_block
    <3>1. e.block_size = AlignUpTo(d.block_size, BlockMultiple)
      BY <1>5, <2>1 DEF AlignedBlock
    <3>2. d.block_size \in Nat /\ BlockMultiple \in Nat \ {0}
      <4>1. d.block_size = c.block_size
        BY <1>1, <1>3
      <4> QED
        BY <4>1, StartAssumption
    <3> QED
      <4>1. AlignUpTo(e.block_size, BlockMultiple) = e.block_size
        BY <3>1, <3>2, AlignedAgain
      <4> QED
        BY <1>5, <2>1, <4>1 DEF AlignedBlock
  <2>2. CASE ~d.user_block
    BY <1>5, <2>2 DEF AlignedBlock
  <2> QED
    BY <2>1, <2>2
<1>8. BlocksFor(e) # None
  <2>1. CeilDiv(e.max_model_len, e.block_size) \in Nat
    BY <1>4, <1>5, CeilDivShares
  <2>2. e.max_num_seqs \in Nat
    BY <1>5
  <2>3. e.max_num_seqs * CeilDiv(e.max_model_len, e.block_size) \in Nat
    BY <2>1, <2>2
  <2> QED
    BY <2>3 DEF BlocksFor, None
<1>9. Updated(d, runner) = IF e.blocks # None THEN e ELSE [e EXCEPT !.blocks = BlocksFor(e)]
  BY <1>5 DEF Updated, WithBlocks, e
<1>10. Stable(e) \/ e.blocks = None
  BY <1>3, <1>5, <1>6, <1>7 DEF Stable
<1>11. e.blocks = None => Stable([e EXCEPT !.blocks = BlocksFor(e)])
  <2> SUFFICES ASSUME e.blocks = None PROVE Stable([e EXCEPT !.blocks = BlocksFor(e)])
    OBVIOUS
  <2> DEFINE g == [e EXCEPT !.blocks = BlocksFor(e)]
  <2>1. /\ g = [f \in Fields |-> g[f]] /\ g.blocks # None
        /\ g.eager = e.eager /\ g.pooling = e.pooling /\ g.worker_cls = e.worker_cls
        /\ g.mode = e.mode /\ g.compile_sizes = e.compile_sizes /\ g.prefix = e.prefix
        /\ g.max_num_batched_tokens = e.max_num_batched_tokens
        /\ g.backend = e.backend /\ g.world = e.world
        /\ g.block_size = e.block_size /\ g.user_block = e.user_block
    BY <1>1, <1>5, <1>8
  <2> HIDE DEF g
  <2>2. Backend(g) = g.backend /\ AlignedBlock(g) = g.block_size
    BY <1>6, <1>7, <2>1 DEF Backend, AlignedBlock
  <2>3. Stable(g)
    BY <1>3, <1>5, <2>1, <2>2 DEF Stable
  <2> QED
    BY <2>3 DEF g
<1> DEFINE f == Updated(d, runner)
<1>12. /\ f.block_size = e.block_size /\ f.max_model_len = e.max_model_len
       /\ f.max_num_seqs = e.max_num_seqs /\ f.drafts = e.drafts /\ f.features = e.features
       /\ f.compile_sizes = e.compile_sizes
       /\ f.blocks = IF e.blocks # None THEN e.blocks ELSE BlocksFor(e)
  <2> HIDE DEF f
  <2>1. f = IF e.blocks # None THEN e ELSE [e EXCEPT !.blocks = BlocksFor(e)]
    BY <1>9 DEF f
  <2> QED
    BY <1>1, <1>5, <2>1
<1> HIDE DEF f
<1>13. BlocksFor(f) = BlocksFor(e)
  BY <1>12 DEF BlocksFor
<1>14. /\ Bounded(d.compile_sizes)
       /\ Roomy(c) => d.compile_sizes = {} \/ TwoRows(d.compile_sizes)
  BY SizesAfter DEF d
<1>15. Sized(f, c.blocks)
  BY <1>4, <1>5, <1>12, <1>13, <1>14 DEF Sized
<1>16. f.features = c.features /\ (Roomy(c) => f.compile_sizes = {} \/ TwoRows(f.compile_sizes))
  BY <1>5, <1>12, <1>14
<1>17. Stable(f)
  BY <1>9, <1>10, <1>11 DEF f
<1> QED
  BY <1>15, <1>16, <1>17 DEF d, f

\* A generative engine's configuration once the front process is done with it.
RoomyFor(u) ==
    /\ 2 <= PrefillBucket /\ 2 <= VllmBudget /\ u.budget # 1
    /\ u.sizes \in {Unset, {}} \/ TwoRows(u.sizes)

UserRoomy == RoomyFor(user)

Ready(c) ==
    /\ Stable(c) /\ Sized(c, user.blocks) /\ c.features = user.features
    /\ UserRoomy => c.compile_sizes = {} \/ TwoRows(c.compile_sizes)

\* Between its two passes a generative engine's configuration is the settled one, but for
\* the mode, which vLLM rewrites on the way.
PassInv ==
    ~user.pooling =>
        /\ at \in {"spawn", "reconfigure", "load"} \/ Running => Ready(settled)
        /\ at = "spawn" => Stable(cfg) /\ settled = cfg
        /\ at = "reconfigure" => Stable(settled) /\ \E m : cfg = [settled EXCEPT !.mode = m]
        /\ at = "load" \/ Running => cfg = settled

LEMMA ArgumentsFit ==
    ASSUME TypeInv, ~user.pooling
    PROVE  /\ Arguments = [f \in Fields |-> Arguments[f]]
           /\ Arguments.eager \in BOOLEAN /\ ~Arguments.pooling /\ Arguments.worker_cls = "auto"
           /\ Arguments.prefix \in BOOLEAN
           /\ Arguments.user_block = (Arguments.block_size # None)
           /\ Arguments.block_size \in Nat /\ Arguments.blocks \in Nat
           /\ Arguments.max_num_seqs \in Nat \ {0}
           /\ Arguments.max_num_batched_tokens \in Nat \ {0}
           /\ Arguments.max_model_len \in Nat \ {0} /\ Arguments.drafts \in Nat
           /\ Bounded(Arguments.compile_sizes)
           /\ Arguments.features = user.features /\ Arguments.blocks = user.blocks
           /\ UserRoomy => Roomy(Arguments)
<1>1. user \in UsersTypes /\ user \in Users
  BY DEF TypeInv
<1>2. ModelLen \in Nat \ {0}
  <2>1. user.len \in Nat /\ user.model_len \in Nat \ {0} /\ DerivedLen \in Nat \ {0}
    BY <1>1, StartAssumption DEF UsersTypes
  <2>2. Min({user.model_len, DerivedLen}) \in Nat \ {0}
    BY <2>1, MinOfTwo
  <2> QED
    BY <2>1, <2>2 DEF ModelLen, None
<1>3. SeqsOr(IF user.direct THEN VllmSeqs ELSE Min({VllmSeqs, DefaultSeqs})) \in Nat \ {0}
  <2>1. user.seqs \in Nat /\ VllmSeqs \in Nat \ {0} /\ DefaultSeqs \in Nat \ {0}
    BY <1>1, StartAssumption DEF UsersTypes
  <2>2. Min({VllmSeqs, DefaultSeqs}) \in Nat \ {0}
    BY <2>1, MinOfTwo
  <2> QED
    BY <2>1, <2>2 DEF SeqsOr, None
<1>4. (IF user.budget # None THEN user.budget ELSE VllmBudget) \in Nat \ {0}
  BY <1>1, StartAssumption DEF UsersTypes, None
<1>5. user.eager \in BOOLEAN /\ user.direct \in BOOLEAN /\ user.block \in Nat /\ user.blocks \in Nat
  BY <1>1 DEF UsersTypes
<1>6. Arguments = [f \in Fields |-> Arguments[f]]
  BY ArgumentFields
<1>7. /\ Arguments.eager = user.eager /\ Arguments.pooling = user.pooling
      /\ Arguments.worker_cls = "auto"
      /\ Arguments.prefix = (user.direct \/ user.drafts = 0)
      /\ Arguments.user_block = (user.block # None) /\ Arguments.block_size = user.block
      /\ Arguments.blocks = user.blocks /\ Arguments.max_model_len = ModelLen
      /\ Arguments.compile_sizes = user.sizes /\ Arguments.features = user.features
      /\ Arguments.drafts = user.drafts
  BY DEF Arguments
<1>8. Arguments.max_num_seqs = SeqsOr(IF user.direct THEN VllmSeqs ELSE Min({VllmSeqs, DefaultSeqs}))
  BY DEF Arguments
<1>9. Arguments.max_num_batched_tokens = IF user.budget # None THEN user.budget ELSE VllmBudget
  BY DEF Arguments
<1>10. Bounded(user.sizes) /\ user.drafts \in Nat
  <2>1. user.sizes \in SUBSET Nat /\ user.drafts \in Nat
    BY <1>1 DEF UsersTypes
  <2>2. PICK m \in user.sizes \cup {0} : \A s \in user.sizes : s <= m
    BY <1>1, StartAssumption
  <2>3. m \in Nat
    BY <2>1, <2>2
  <2> QED
    BY <2>1, <2>2, <2>3 DEF Bounded
<1>11. UserRoomy => Roomy(Arguments)
  <2>1. user.budget \in Nat /\ VllmBudget \in Nat
    BY <1>1, StartAssumption DEF UsersTypes
  <2>2. UserRoomy => 2 <= Arguments.max_num_batched_tokens
    BY <1>9, <2>1 DEF UserRoomy, RoomyFor, None
  <2> QED
    BY <1>7, <2>2 DEF UserRoomy, RoomyFor, Roomy
<1> QED
  BY <1>2, <1>3, <1>4, <1>5, <1>6, <1>7, <1>8, <1>9, <1>10, <1>11

LEMMA PassKeeps == Inv /\ PassInv /\ [Next]_vars => PassInv'
<1> SUFFICES ASSUME Inv, PassInv, [Next]_vars, ~user.pooling, user' = user PROVE PassInv'
  <2>1. ASSUME [Next]_vars PROVE user' = user
    BY <2>1 DEF Next, vars, startVars, Start, ImportFront, SetRunner, Configure, Spawn,
                Reconfigure, StartWorker, Plan, WarmSize, WarmHead, Step
  <2> QED
    BY <2>1 DEF PassInv
<1>0. settled' = settled => (Ready(settled)' <=> Ready(settled))
  BY DEF Ready, Sized, UserRoomy, RoomyFor, TwoRows, BlocksFor
<1>1. env.runner # "auto"
  BY StartAssumption DEF Inv, TypeInv, Env, AllRunners
<1>2. CASE ImportFront \/ SetRunner
  BY <1>2 DEF ImportFront, SetRunner, PassInv, Running
<1>3. CASE Configure
  <2>1. settled' = cfg' /\ at' \in {"spawn", "refused"} /\ (at' = "spawn" => cfg' # NoConfig)
    BY <1>3 DEF Configure, Then
  <2>2. CASE at' = "spawn"
    <3> DEFINE d == SizesSettled(PlatformDefaults(Arguments, RecordedBudget))
    <3>1. cfg' = Updated(d, env.runner)
      <4>1. Hooks(Arguments, RecordedBudget, front)
        BY <1>3 DEF Configure
      <4> QED
        BY <2>1, <2>2, <4>1 DEF Hooks, RunnerNow
    <3>2. Ready(Updated(d, env.runner))
      <4>1. TypeInv
        BY DEF Inv
      <4> DEFINE f == Updated(d, env.runner)
      <4>2. /\ Stable(f) /\ Sized(f, Arguments.blocks) /\ f.features = Arguments.features
            /\ Roomy(Arguments) => f.compile_sizes = {} \/ TwoRows(f.compile_sizes)
        <5> HIDE DEF Stable, Fields, Sized
        <5> QED
          BY <1>1, <4>1, ArgumentsFit, FirstPass
      <4> HIDE DEF f, Stable, Sized
      <4>3. Ready(f)
        BY <4>1, <4>2, ArgumentsFit DEF Ready
      <4> QED
        BY <4>3 DEF f
    <3> HIDE DEF d
    <3> DEFINE g == Updated(d, env.runner)
    <3>3. settled' = g /\ cfg' = g
      BY <2>1, <3>1
    <3> HIDE DEF g
    <3>4. Ready(settled)' <=> Ready(g)
      BY <3>3 DEF Ready, Sized, UserRoomy, RoomyFor, TwoRows, BlocksFor
    <3>5. Stable(g) /\ Ready(settled)'
      BY <3>2, <3>4 DEF g, Ready
    <3> QED
      <4> HIDE DEF Ready, Stable
      <4> QED
        BY <2>2, <3>3, <3>5 DEF PassInv, Running
  <2> QED
    BY <2>1, <2>2 DEF PassInv, Running
<1>4. CASE Spawn
  <2>1. Stable(cfg) /\ settled = cfg /\ settled' = settled /\ Ready(settled)'
    BY <1>0, <1>4 DEF PassInv, Spawn
  <2>2. CASE user.multiprocessing
    <3>1. at' = "reconfigure" /\ \E m : cfg' = [cfg EXCEPT !.mode = m]
      BY <1>4, <2>2 DEF Spawn
    <3> QED
      BY <2>1, <3>1 DEF PassInv, Running
  <2>3. CASE ~user.multiprocessing
    BY <1>4, <2>1, <2>3 DEF Spawn, PassInv, Running
  <2> QED
    BY <2>2, <2>3
<1>5. CASE Reconfigure
  <2>1. /\ Stable(settled) /\ settled' = settled
        /\ at' \in {"load", "refused"} /\ (at' = "load" => cfg' # NoConfig)
        /\ Hooks(cfg, recorded, engine) /\ Ready(settled)'
    BY <1>0, <1>5 DEF Reconfigure, Then, PassInv
  <2>2. PICK m : cfg = [settled EXCEPT !.mode = m]
    BY <1>5 DEF Reconfigure, PassInv
  <2>3. Updated(SizesSettled(PlatformDefaults(cfg, recorded)), env.runner) = settled
    <3>1. \A given, runner :
            LET d == [settled EXCEPT !.mode = m]
            IN  Updated(SizesSettled(PlatformDefaults(d, given)), runner) = settled
      BY <2>1, StableRests, SecondPass, Zenon
    <3> QED
      BY <2>2, <3>1, Zenon
  <2>4. at' = "load" => cfg' = settled
    BY <2>1, <2>3 DEF Hooks, RunnerNow
  <2> QED
    BY <2>1, <2>4 DEF PassInv, Running
<1>6. CASE StartWorker
  BY <1>0, <1>6 DEF StartWorker, PassInv, Running
<1>7. CASE Plan \/ WarmSize \/ WarmHead \/ Step
  BY <1>0, <1>7 DEF Plan, WarmSize, WarmHead, Step, startVars, PassInv, Running
<1>8. CASE UNCHANGED vars
  BY <1>0, <1>8 DEF vars, startVars, PassInv, Running
<1> QED
  BY <1>2, <1>3, <1>4, <1>5, <1>6, <1>7, <1>8 DEF Next, Start

(***************************************************************************)
(* A pooling engine's limits.                                              *)
(***************************************************************************)
\* A set of sizes that end has a greatest one.
LEMMA GreatestExists ==
    ASSUME NEW S, Bounded(S), S # {}
    PROVE  /\ GreatestOf(S) \in S /\ \A x \in S : x <= GreatestOf(S)
           /\ Max(S) = GreatestOf(S)
<1>1. PICK u \in Nat : S \subseteq Int /\ \A x \in S : x <= u
  BY DEF Bounded
<1> DEFINE T == {u - x : x \in S}
<1>2. T \in SUBSET Nat /\ T # {}
  <2>1. \A x \in S : u - x \in Nat
    BY <1>1
  <2> QED
    BY <2>1
<1>3. PICK t \in T : \A y \in T : t <= y
  BY <1>2, LeastExists
<1>4. PICK g \in S : t = u - g
  BY <1>3
<1>5. \A x \in S : x <= g
  <2> SUFFICES ASSUME NEW x \in S PROVE x <= g
    OBVIOUS
  <2>1. u - x \in T
    OBVIOUS
  <2> QED
    BY <1>1, <1>3, <1>4, <2>1
<1>6. GreatestOf(S) \in S /\ \A x \in S : x <= GreatestOf(S)
  <2>1. \E m \in S : \A x \in S : x <= m
    BY <1>5
  <2> QED
    BY <2>1, Zenon DEF GreatestOf
<1>7. Max(S) \in S /\ \A x \in S : Max(S) >= x
  <2>1. \E x \in S : \A y \in S : x >= y
    BY <1>1, <1>5
  <2> QED
    BY <2>1, Zenon DEF Max
<1> DEFINE a == GreatestOf(S)
           b == Max(S)
<1>8. a \in Int /\ b \in Int /\ a <= b /\ b <= a
  <2>1. a \in Int /\ b \in Int
    BY <1>1, <1>6, <1>7
  <2> QED
    BY <1>6, <1>7, <2>1
<1>9. a = b
  <2> HIDE DEF a, b
  <2> QED
    BY <1>8
<1> QED
  BY <1>6, <1>9

\* The rows of a step whose longest prompt rounds up to l.
WholeRows(l, tokens, seqs) == Greater(l, (Lesser(tokens, Greater(1, seqs) * l) \div l) * l)

\* Limits that the hook leaves as they are.
AtRest(l, rows, seqs) ==
    /\ rows \in Nat \ {0} /\ seqs \in Nat \ {0}
    /\ WholeRows(l, rows, seqs) = rows /\ WholeRows(l, Lesser(rows, FastBody), seqs) = rows
    /\ rows > l => Greater(l, Lesser(rows, FastBody)) = rows
    /\ Lesser(seqs, Greater(1, rows \div Stick)) = seqs

\* The body that is fast is whole sticks.
LEMMA FastType == Stick \in Nat \ {0} /\ FastBody \in Nat /\ MaxDoublings \in Nat
<1>1. Stick \in Nat \ {0} /\ MaxDoublings \in Nat
  BY TablesAssumption
<1>2. \A k \in 0..MaxDoublings : 2^k \in Nat
  BY <1>1, PowersCount
<1>3. PICK k \in 0..MaxDoublings : FastBody = Stick * 2^k
  BY TablesAssumption
<1> QED
  BY <1>1, <1>2, <1>3

\* The hook's own limits are at rest: it has cut the rows to whole prompts already, and the
\* batch to their sticks.
LEMMA RowsRest ==
    ASSUME NEW l \in Nat, Stick <= l, NEW tokens \in Nat, NEW seqs \in Nat \ {0}
    PROVE  LET rows == WholeRows(l, Lesser(tokens, FastBody), seqs) IN
           AtRest(l, rows, Lesser(seqs, Greater(1, rows \div Stick)))
<1> DEFINE first == Lesser(tokens, FastBody)
           fit == Lesser(first, Greater(1, seqs) * l)
           k == fit \div l
           rows == WholeRows(l, first, seqs)
           sticks == rows \div Stick
           fewer == Lesser(seqs, Greater(1, sticks))
<1>0. Stick \in Nat \ {0} /\ FastBody \in Nat
  BY FastType
<1> USE <1>0
<1>1. first \in Nat /\ first <= FastBody
  BY DEF Lesser
<1> HIDE DEF first
<1>2. Greater(1, seqs) = seqs /\ seqs * l \in Nat /\ l <= seqs * l
  <2>1. 1 <= seqs
    OBVIOUS
  <2>2. 1 * l <= seqs * l
    BY <2>1, ProductGrows
  <2> QED
    BY <2>1, <2>2 DEF Greater
<1>3. fit \in Nat /\ fit <= first /\ fit <= seqs * l
  BY <1>1, <1>2 DEF Lesser
<1> HIDE DEF fit
<1>4. k \in Nat /\ k * l \in Nat /\ k * l <= fit
  <2>1. \A n \in Nat : n \div l \in Nat /\ (n \div l) * l <= n /\ (n \div l) * l \in Nat
    OBVIOUS
  <2> QED
    BY <1>3, <2>1
<1>5. rows = Greater(l, k * l)
  BY DEF fit, k, WholeRows
<1> HIDE DEF k, rows
<1>6. PICK m \in Nat \ {0} : rows = m * l
  <2>1. CASE rows = l
    <3>1. 1 \in Nat \ {0} /\ rows = 1 * l
      BY <2>1
    <3> QED
      BY <3>1
  <2>2. CASE rows # l
    <3>1. rows = k * l /\ k * l > l
      BY <1>4, <1>5, <2>2 DEF Greater
    <3>2. k # 0
      BY <3>1
    <3> QED
      BY <1>4, <3>1, <3>2
  <2> QED
    BY <2>1, <2>2
<1>7. rows \in Nat /\ l <= rows /\ rows <= seqs * l /\ (rows > l => rows <= FastBody)
  BY <1>1, <1>2, <1>3, <1>4, <1>5 DEF Greater
<1>8. sticks \in Nat /\ m <= sticks
  <2>1. \A n \in Nat, d \in Nat : d * Stick <= n => n \div Stick \in Nat /\ d <= n \div Stick
    <3> SUFFICES ASSUME NEW n \in Nat, NEW d \in Nat, d * Stick <= n
                 PROVE  n \div Stick \in Nat /\ d <= n \div Stick
      OBVIOUS
    <3> DEFINE q == n \div Stick
               r == n % Stick
    <3>1. q \in Nat /\ r \in 0..(Stick - 1) /\ n = q * Stick + r
      OBVIOUS
    <3> HIDE DEF q, r
    <3>2. ~(q + 1 <= d)
      <4> SUFFICES ASSUME q + 1 <= d PROVE FALSE
        OBVIOUS
      <4>1. (q + 1) * Stick <= d * Stick
        BY <3>1, ProductGrows
      <4>2. (q + 1) * Stick = q * Stick + Stick /\ q * Stick \in Nat
        BY <3>1
      <4> QED
        BY <3>1, <4>1, <4>2
    <3>3. d <= q
      BY <3>1, <3>2
    <3> QED
      BY <3>1, <3>3 DEF q
  <2>2. m * Stick <= m * l
    <3>1. Stick * m <= l * m
      BY ProductGrows
    <3> QED
      BY <3>1
  <2> QED
    BY <1>6, <1>7, <2>1, <2>2
<1> HIDE DEF sticks
<1>9. fewer \in Nat \ {0} /\ Greater(1, fewer) = fewer /\ Lesser(fewer, Greater(1, sticks)) = fewer
  BY <1>8 DEF Lesser, Greater
<1>10. rows <= fewer * l
  <2>1. fewer = seqs \/ fewer = sticks
    BY <1>6, <1>8 DEF Lesser, Greater
  <2>2. m * l <= sticks * l
    BY <1>8, ProductGrows
  <2> QED
    BY <1>6, <1>7, <2>1, <2>2
<1> HIDE DEF fewer
<1>11. fewer * l \in Nat
  BY <1>9
<1>12. (rows \div l) * l = rows
  <2>1. \A n \in Nat : (n * l) \div l = n
    OBVIOUS
  <2> QED
    BY <1>6, <2>1
<1>13. WholeRows(l, rows, fewer) = rows
  <2>1. Lesser(rows, Greater(1, fewer) * l) = rows
    BY <1>7, <1>9, <1>10, <1>11 DEF Lesser
  <2> QED
    BY <1>7, <1>12, <2>1 DEF Greater, WholeRows
<1>14. WholeRows(l, Lesser(rows, FastBody), fewer) = rows
  <2>1. CASE rows <= FastBody
    <3>1. Lesser(rows, FastBody) = rows
      BY <2>1 DEF Lesser
    <3> QED
      BY <1>13, <3>1
  <2>2. CASE ~(rows <= FastBody)
    <3>1. rows = l /\ Lesser(rows, FastBody) = FastBody /\ FastBody < l
      BY <1>7, <2>2 DEF Lesser
    <3>2. Lesser(FastBody, Greater(1, fewer) * l) = FastBody
      BY <1>7, <1>9, <1>10, <1>11, <3>1 DEF Lesser
    <3>3. FastBody \div l = 0
      BY <3>1
    <3>4. (FastBody \div l) * l = 0
      BY <3>3
    <3> QED
      BY <3>1, <3>2, <3>4 DEF Greater, WholeRows
  <2> QED
    BY <2>1, <2>2
<1>15. rows > l => Greater(l, Lesser(rows, FastBody)) = rows
  BY <1>7 DEF Greater, Lesser
<1> QED
  <2>1. rows \in Nat \ {0}
    BY <1>7
  <2> QED
    BY <1>9, <1>13, <1>14, <1>15, <2>1 DEF AtRest, rows, fewer, sticks, first

LEMMA ExtentsType == Extents \in SUBSET Nat /\ Stick * 2^MaxDoublings \in Extents
                     /\ \A x \in Extents : Stick <= x
<1>1. ASSUME NEW k \in 0..MaxDoublings PROVE Stick * 2^k \in Nat /\ Stick <= Stick * 2^k
  <2> DEFINE p == 2^k
  <2>1. p \in Nat \ {0} /\ Stick \in Nat
    BY FastType, PowersCount
  <2> HIDE DEF p
  <2>2. 1 * Stick <= p * Stick /\ p * Stick \in Nat
    <3>1. 1 <= p
      BY <2>1
    <3> QED
      BY <2>1, <3>1, ProductGrows
  <2> QED
    BY <2>1, <2>2 DEF p
<1>2. MaxDoublings \in 0..MaxDoublings
  BY FastType
<1> QED
  BY <1>1, <1>2 DEF Extents

\* A length rounds up to an extent.
LEMMA LongestType ==
    ASSUME NEW n \in 0..(Stick * 2^MaxDoublings)
    PROVE  AlignUpPow2(n) \in Nat /\ Stick <= AlignUpPow2(n)
<1> DEFINE Fit == {x \in Extents : n <= x}
<1>1. Fit \in SUBSET Nat /\ Fit # {}
  <2>1. Stick * 2^MaxDoublings \in Fit
    BY ExtentsType
  <2> QED
    BY <2>1, ExtentsType
<1>2. \E m \in Fit : \A x \in Fit : m <= x
  <2> HIDE DEF Fit
  <2> QED
    BY <1>1, LeastExists
<1>3. LeastOf(Fit) \in Fit
  BY <1>2, Zenon DEF LeastOf
<1> QED
  BY <1>3, ExtentsType DEF AlignUpPow2

\* The widest body has the rows of the budget.
LEMMA WidestBody ==
    ASSUME NEW e, e.max_model_len \in 0..(Stick * 2^MaxDoublings),
           AtRest(AlignUpPow2(e.max_model_len), e.max_num_batched_tokens, e.max_num_seqs)
    PROVE  /\ Bodies(e) # {} /\ Bodies(e) # Unset
           /\ GreatestOf(Bodies(e)) = e.max_num_batched_tokens
<1> DEFINE l == AlignUpPow2(e.max_model_len)
           rows == e.max_num_batched_tokens
           Between == {x \in Extents : FastBody <= x /\ x < rows}
<1>1. l \in Nat /\ rows \in Nat \ {0}
  BY LongestType DEF AtRest
<1>2. BudgetRows(e.max_model_len, rows, e.max_num_seqs) = rows
  BY DEF AtRest, WholeRows, BudgetRows
<1>3. (IF rows > l THEN Greater(l, Lesser(rows, FastBody)) ELSE rows) = rows
  BY DEF AtRest
<1>4. Bodies(e) = IF rows <= FastBody THEN {rows} ELSE Between \cup {rows}
  BY <1>2, <1>3 DEF Bodies
<1> HIDE DEF rows, l
<1>5. rows \in Bodies(e) /\ \A x \in Bodies(e) : x \in Int /\ x <= rows
  <2>1. \A x \in Between \cup {rows} : x \in Int /\ x <= rows
    BY <1>1, ExtentsType
  <2>2. Bodies(e) \subseteq Between \cup {rows} /\ rows \in Bodies(e)
    BY <1>4
  <2> QED
    BY <2>1, <2>2
<1>6. Bounded(Bodies(e))
  BY <1>1, <1>5 DEF Bounded
<1>7. GreatestOf(Bodies(e)) \in Bodies(e) /\ \A x \in Bodies(e) : x <= GreatestOf(Bodies(e))
  BY <1>5, <1>6, GreatestExists
<1> DEFINE g == GreatestOf(Bodies(e))
<1>8. g \in Int /\ g <= rows /\ rows <= g
  BY <1>5, <1>7
<1>9. g = rows
  <2> HIDE DEF g
  <2> QED
    BY <1>1, <1>8
<1> QED
  BY <1>1, <1>5, <1>9 DEF Unset, rows

\* Fields that the hook on shapes leaves alone.
Shapeless == Fields \ {"max_num_batched_tokens", "max_num_seqs", "compile_sizes"}

Shaped(c) ==
    /\ c.compile_sizes # Unset
    /\ c.max_model_len \in 0..(Stick * 2^MaxDoublings)
    /\ AtRest(AlignUpPow2(c.max_model_len), c.max_num_batched_tokens, c.max_num_seqs)
    /\ c.compile_sizes # {} => c.max_num_batched_tokens = GreatestOf(c.compile_sizes)

LEMMA ShapesOnce ==
    ASSUME NEW c, c = [f \in Fields |-> c[f]], c.compile_sizes \in {Unset, {}},
           c.max_model_len \in 0..(Stick * 2^MaxDoublings),
           c.max_num_batched_tokens \in Nat, c.max_num_seqs \in Nat \ {0}
    PROVE  LET x == KeepsToSizes(ShapeDefaults(c)) IN
           x = [f \in Fields |-> x[f]] /\ Shaped(x) /\ \A f \in Shapeless : x[f] = c[f]
<1> DEFINE l == AlignUpPow2(c.max_model_len)
           rows == BudgetRows(c.max_model_len, Lesser(c.max_num_batched_tokens, FastBody),
                              c.max_num_seqs)
           seqs == Lesser(c.max_num_seqs, Greater(1, rows \div Stick))
           limits == [c EXCEPT !.max_num_batched_tokens = rows, !.max_num_seqs = seqs]
           y == [limits EXCEPT !.compile_sizes = Bodies(limits)]
           Close(z) == /\ z = [f \in Fields |-> z[f]] /\ \A f \in Shapeless : z[f] = c[f]
                       /\ z.max_num_batched_tokens = rows /\ z.max_num_seqs = seqs
<1>1. AtRest(l, rows, seqs)
  <2>1. rows = WholeRows(l, Lesser(c.max_num_batched_tokens, FastBody), c.max_num_seqs)
    BY DEF BudgetRows, WholeRows
  <2>2. l \in Nat /\ Stick <= l
    BY LongestType
  <2> HIDE DEF l, rows
  <2> QED
    BY <2>1, <2>2, RowsRest
<1>2. ShapeDefaults(c) = IF c.compile_sizes = Unset THEN y ELSE limits
  BY DEF ShapeDefaults
<1> HIDE DEF rows, seqs
<1>3. {"max_num_batched_tokens", "max_num_seqs", "compile_sizes"} \subseteq Fields
      /\ "max_model_len" \in Shapeless
  BY DEF Fields, Shapeless
<1>4. Close(limits) /\ limits.compile_sizes = c.compile_sizes
  BY <1>3 DEF Shapeless
<1> HIDE DEF limits
<1>5. Close(y) /\ y.compile_sizes = Bodies(limits)
  BY <1>3, <1>4 DEF Shapeless
<1>6. Bodies(limits) # {} /\ Bodies(limits) # Unset /\ GreatestOf(Bodies(limits)) = rows
  <2>1. limits.max_model_len = c.max_model_len
    BY <1>3, <1>4
  <2> QED
    BY <1>1, <1>4, <2>1, WidestBody
<1> HIDE DEF y
<1>7. \A z : Close(z) => z.max_model_len = c.max_model_len
  BY <1>3
<1>8. CASE c.compile_sizes = Unset
  <2>1. KeepsToSizes(y) = [y EXCEPT !.max_num_batched_tokens = rows]
    BY <1>5, <1>6 DEF KeepsToSizes
  <2>2. [y EXCEPT !.max_num_batched_tokens = rows] = y
    BY <1>3, <1>5
  <2>3. Shaped(y)
    BY <1>1, <1>5, <1>6, <1>7 DEF Shaped
  <2> QED
    BY <1>2, <1>5, <1>8, <2>1, <2>2, <2>3
<1>9. CASE c.compile_sizes # Unset
  <2>1. c.compile_sizes = {} /\ KeepsToSizes(limits) = limits
    BY <1>4, <1>9 DEF KeepsToSizes
  <2>2. Shaped(limits)
    BY <1>1, <1>4, <1>7, <1>9, <2>1 DEF Shaped
  <2> QED
    BY <1>2, <1>4, <1>9, <2>1, <2>2
<1> QED
  BY <1>8, <1>9

LEMMA ShapesAgain ==
    ASSUME NEW c, c = [f \in Fields |-> c[f]], Shaped(c)
    PROVE  KeepsToSizes(ShapeDefaults(c)) = c
<1> DEFINE l == AlignUpPow2(c.max_model_len)
           rows == c.max_num_batched_tokens
           seqs == c.max_num_seqs
<1>1. BudgetRows(c.max_model_len, Lesser(rows, FastBody), seqs) = rows
      /\ Lesser(seqs, Greater(1, rows \div Stick)) = seqs
  BY DEF Shaped, AtRest, BudgetRows, WholeRows
<1>2. ShapeDefaults(c) = [c EXCEPT !.max_num_batched_tokens = rows, !.max_num_seqs = seqs]
  BY <1>1 DEF ShapeDefaults, Shaped
<1>3. [c EXCEPT !.max_num_batched_tokens = rows, !.max_num_seqs = seqs] = c
  BY FieldsAre
<1>4. [c EXCEPT !.max_num_batched_tokens = rows] = c
  BY FieldsAre
<1> QED
  BY <1>2, <1>3, <1>4 DEF KeepsToSizes, Shaped

\* The first pass of a pooling engine leaves a configuration that rests.
LEMMA PoolingPass ==
    ASSUME NEW c, c = [f \in Fields |-> c[f]], c.eager \in BOOLEAN, c.pooling = TRUE,
           c.worker_cls = "auto", c.prefix \in BOOLEAN, c.compile_sizes \in {Unset, {}},
           c.user_block = (c.block_size # None), c.block_size \in Nat,
           c.max_num_seqs \in Nat \ {0}, c.max_num_batched_tokens \in Nat,
           c.max_model_len \in 0..(Stick * 2^MaxDoublings),
           NEW given, NEW runner, runner # "auto"
    PROVE  Rests(Updated(SizesSettled(PlatformDefaults(c, given)), runner))
<1> DEFINE d == SizesSettled(PlatformDefaults(c, given))
           e == Updated(d, runner)
           Base == Shapeless \ {"mode"}
           Mode == IF c.eager THEN "none" ELSE "stock"
<1>1. /\ {"eager", "pooling", "worker_cls", "prefix", "user_block", "block_size", "blocks",
          "max_model_len", "world", "backend"} \subseteq Base
      /\ {"mode", "compile_sizes", "max_num_batched_tokens", "max_num_seqs"} \subseteq Fields
      /\ "mode" \in Shapeless /\ Shapeless \subseteq Fields
  BY DEF Fields, Shapeless
<1>2. /\ d = [f \in Fields |-> d[f]] /\ \A f \in Base : d[f] = c[f]
      /\ d.mode = Mode /\ d.compile_sizes # Unset /\ (~c.eager => Shaped(d))
  <2>1. CASE c.eager
    <3> DEFINE x == [c EXCEPT !.mode = "none"]
    <3>1. d = IF x.compile_sizes = Unset THEN [x EXCEPT !.compile_sizes = {}] ELSE x
      BY <2>1 DEF PlatformDefaults, SizesSettled
    <3>2. /\ x = [f \in Fields |-> x[f]] /\ x.mode = "none" /\ \A f \in Base : x[f] = c[f]
      BY <1>1
    <3> HIDE DEF x
    <3>3. {} # Unset
      BY DEF Unset
    <3> DEFINE y == [x EXCEPT !.compile_sizes = {}]
    <3>4. /\ y = [f \in Fields |-> y[f]] /\ y.compile_sizes = {} /\ y.mode = x.mode
          /\ \A f \in Base : y[f] = x[f]
      BY <1>1, <3>2 DEF Shapeless
    <3>5. d = IF x.compile_sizes = Unset THEN y ELSE x
      BY <3>1
    <3> HIDE DEF d, y
    <3> QED
      BY <2>1, <3>2, <3>3, <3>4, <3>5
  <2>2. CASE ~c.eager
    <3> DEFINE s == [c EXCEPT !.mode = "stock"]
               x == KeepsToSizes(ShapeDefaults(s))
    <3>1. /\ s = [f \in Fields |-> s[f]] /\ s.mode = "stock"
          /\ \A f \in Fields \ {"mode"} : s[f] = c[f]
      BY <1>1
    <3>2. PlatformDefaults(c, given) = KeepsToSizes(WithSizes(s, given))
      BY <2>2 DEF PlatformDefaults
    <3> HIDE DEF s
    <3>3. WithSizes(s, given) = ShapeDefaults(s)
      BY <1>1, <3>1 DEF WithSizes
    <3>4. x = [f \in Fields |-> x[f]] /\ Shaped(x) /\ \A f \in Shapeless : x[f] = s[f]
      <4>1. /\ s.compile_sizes = c.compile_sizes /\ s.max_model_len = c.max_model_len
            /\ s.max_num_batched_tokens = c.max_num_batched_tokens
            /\ s.max_num_seqs = c.max_num_seqs
        BY <1>1, <3>1
      <4> QED
        BY <3>1, <4>1, ShapesOnce
    <3>5. d = x
      <4>1. x.compile_sizes # Unset
        BY <3>4 DEF Shaped
      <4> QED
        BY <3>2, <3>3, <4>1 DEF SizesSettled
    <3> HIDE DEF x, d
    <3>6. x.compile_sizes # Unset /\ x.mode = "stock" /\ \A f \in Base : x[f] = c[f]
      BY <1>1, <3>1, <3>4 DEF Shaped
    <3> QED
      BY <2>2, <3>4, <3>5, <3>6
  <2> QED
    BY <2>1, <2>2
<1> HIDE DEF d
<1>3. /\ e = [f \in Fields |-> e[f]]
      /\ e.worker_cls = runner /\ e.backend = Backend(d) /\ e.block_size = AlignedBlock(d)
      /\ e.prefix = FALSE
      /\ \A f \in Fields \ {"worker_cls", "backend", "block_size", "prefix"} : e[f] = d[f]
  <2>1. d.pooling = TRUE /\ d.worker_cls = "auto" /\ d.prefix \in BOOLEAN
    BY <1>1, <1>2
  <2> DEFINE g == [d EXCEPT !.worker_cls = IF @ = "auto" THEN runner ELSE @,
                            !.backend = Backend(d), !.block_size = AlignedBlock(d),
                            !.prefix = @ /\ ~d.pooling]
             h == [d EXCEPT !.worker_cls = runner, !.backend = Backend(d),
                            !.block_size = AlignedBlock(d), !.prefix = FALSE]
  <2>2. g = h
    BY <2>1
  <2>3. /\ h = [f \in Fields |-> h[f]]
        /\ h.worker_cls = runner /\ h.backend = Backend(d) /\ h.block_size = AlignedBlock(d)
        /\ h.prefix = FALSE
        /\ \A f \in Fields \ {"worker_cls", "backend", "block_size", "prefix"} : h[f] = d[f]
    BY <1>2, FieldsAre
  <2> HIDE DEF g, h
  <2>4. g.pooling = TRUE
    BY <2>1, <2>2, <2>3, FieldsAre
  <2>5. e = g
    BY <2>4 DEF Updated, WithBlocks, g
  <2> HIDE DEF e
  <2> QED
    BY <2>2, <2>3, <2>5
<1> HIDE DEF e
<1>4. /\ e.eager = c.eager /\ e.pooling = TRUE /\ e.user_block = c.user_block
      /\ e.world = d.world /\ e.mode = Mode /\ e.compile_sizes = d.compile_sizes
      /\ e.max_num_batched_tokens = d.max_num_batched_tokens
      /\ e.max_num_seqs = d.max_num_seqs /\ e.max_model_len = d.max_model_len
      /\ d.user_block = c.user_block /\ d.block_size = c.block_size
  <2>1. {"eager", "pooling", "user_block", "world", "mode", "compile_sizes",
         "max_num_batched_tokens", "max_num_seqs", "max_model_len"}
          \subseteq Fields \ {"worker_cls", "backend", "block_size", "prefix"}
    BY DEF Fields
  <2> QED
    BY <1>1, <1>2, <1>3, <2>1
<1>5. Backend(e) = e.backend
  BY <1>3, <1>4 DEF Backend
<1>6. AlignedBlock(e) = e.block_size
  <2>1. CASE c.user_block
    <3>1. e.block_size = AlignUpTo(c.block_size, BlockMultiple)
      BY <1>3, <1>4, <2>1 DEF AlignedBlock
    <3>2. AlignUpTo(e.block_size, BlockMultiple) = e.block_size
      BY <3>1, AlignedAgain, StartAssumption
    <3> QED
      BY <1>4, <2>1, <3>2 DEF AlignedBlock
  <2>2. CASE ~c.user_block
    BY <1>3, <1>4, <2>2 DEF AlignedBlock
  <2> QED
    BY <2>1, <2>2
<1>7. ASSUME ~e.eager, NEW again PROVE KeepsToSizes(WithSizes(e, again)) = e
  <2>1. Shaped(e)
    BY <1>2, <1>4, <1>7 DEF Shaped
  <2>2. WithSizes(e, again) = ShapeDefaults(e)
    BY <1>4 DEF WithSizes
  <2> QED
    BY <1>3, <2>1, <2>2, ShapesAgain
<1> QED
  BY <1>2, <1>3, <1>4, <1>5, <1>6, <1>7 DEF Rests, e, d

\* A pooling engine with sizes of its own is the exception.
Shapes == user.pooling /\ user.sizes \in {Unset, {}}

\* Between its two passes its configuration rests too.
PoolInv ==
    Shapes =>
        /\ at = "spawn" => Rests(cfg) /\ settled = cfg
        /\ at = "reconfigure" => Rests(settled) /\ \E m : cfg = [settled EXCEPT !.mode = m]
        /\ at = "load" \/ Running => cfg = settled

LEMMA PoolArguments ==
    ASSUME TypeInv, Shapes
    PROVE  /\ Arguments = [f \in Fields |-> Arguments[f]]
           /\ Arguments.eager \in BOOLEAN /\ Arguments.pooling = TRUE
           /\ Arguments.worker_cls = "auto" /\ Arguments.prefix \in BOOLEAN
           /\ Arguments.compile_sizes \in {Unset, {}}
           /\ Arguments.user_block = (Arguments.block_size # None)
           /\ Arguments.block_size \in Nat /\ Arguments.max_num_seqs \in Nat \ {0}
           /\ Arguments.max_num_batched_tokens \in Nat
           /\ Arguments.max_model_len \in 0..(Stick * 2^MaxDoublings)
<1>1. user \in UsersTypes /\ user \in Users /\ user.pooling = TRUE
  BY DEF TypeInv, UsersTypes, Shapes
<1>2. ModelLen \in 0..(Stick * 2^MaxDoublings)
  <2> DEFINE top == Stick * 2^MaxDoublings
  <2>1. /\ user.len \in 0..top /\ user.model_len \in 0..top /\ top \in Nat
        /\ user.model_len \in Nat \ {0} /\ DerivedLen \in Nat \ {0}
    BY <1>1, PoolingAssumption, StartAssumption, ExtentsType DEF UsersTypes
  <2> HIDE DEF top
  <2>2. Min({user.model_len, DerivedLen}) \in 0..top
    BY <2>1, MinOfTwo
  <2>3. ModelLen \in 0..top
    BY <2>1, <2>2 DEF ModelLen
  <2> QED
    BY <2>3 DEF top
<1>3. SeqsOr(IF user.direct THEN VllmSeqs ELSE Min({VllmSeqs, DefaultSeqs})) \in Nat \ {0}
  <2>1. user.seqs \in Nat /\ VllmSeqs \in Nat \ {0} /\ DefaultSeqs \in Nat \ {0}
    BY <1>1, StartAssumption DEF UsersTypes
  <2>2. Min({VllmSeqs, DefaultSeqs}) \in Nat \ {0}
    BY <2>1, MinOfTwo
  <2> QED
    BY <2>1, <2>2 DEF SeqsOr, None
<1>4. (IF user.budget # None THEN user.budget ELSE VllmBudget) \in Nat
  BY <1>1, StartAssumption DEF UsersTypes, None
<1>5. user.eager \in BOOLEAN /\ user.direct \in BOOLEAN /\ user.block \in Nat
  BY <1>1 DEF UsersTypes
<1>6. /\ Arguments.eager = user.eager /\ Arguments.pooling = user.pooling
      /\ Arguments.worker_cls = "auto"
      /\ Arguments.prefix = (user.direct \/ user.drafts = 0)
      /\ Arguments.user_block = (user.block # None) /\ Arguments.block_size = user.block
      /\ Arguments.max_model_len = ModelLen /\ Arguments.compile_sizes = user.sizes
  BY DEF Arguments
<1>7. Arguments.max_num_seqs = SeqsOr(IF user.direct THEN VllmSeqs ELSE Min({VllmSeqs, DefaultSeqs}))
  BY DEF Arguments
<1>8. Arguments.max_num_batched_tokens = IF user.budget # None THEN user.budget ELSE VllmBudget
  BY DEF Arguments
<1> QED
  BY <1>1, <1>2, <1>3, <1>4, <1>5, <1>6, <1>7, <1>8, ArgumentFields DEF Shapes

LEMMA PoolKeeps == Inv /\ PoolInv /\ [Next]_vars => PoolInv'
<1> SUFFICES ASSUME Inv, PoolInv, [Next]_vars, Shapes, user' = user PROVE PoolInv'
  <2>1. ASSUME [Next]_vars PROVE user' = user
    BY <2>1 DEF Next, vars, startVars, Start, ImportFront, SetRunner, Configure, Spawn,
                Reconfigure, StartWorker, Plan, WarmSize, WarmHead, Step
  <2> QED
    BY <2>1 DEF PoolInv, Shapes
<1>0. settled' = settled => (Rests(settled)' <=> Rests(settled))
  BY DEF Rests
<1>1. env.runner # "auto"
  BY StartAssumption DEF Inv, TypeInv, Env, AllRunners
<1>2. CASE ImportFront \/ SetRunner
  BY <1>2 DEF ImportFront, SetRunner, PoolInv, Running
<1>3. CASE Configure
  <2>1. settled' = cfg' /\ at' \in {"spawn", "refused"} /\ (at' = "spawn" => cfg' # NoConfig)
    BY <1>3 DEF Configure, Then
  <2>2. CASE at' = "spawn"
    <3> DEFINE g == Updated(SizesSettled(PlatformDefaults(Arguments, RecordedBudget)), env.runner)
    <3>1. cfg' = g
      <4>1. Hooks(Arguments, RecordedBudget, front)
        BY <1>3 DEF Configure
      <4> QED
        BY <2>1, <2>2, <4>1 DEF Hooks, RunnerNow
    <3>2. Rests(g)
      BY <1>1, PoolArguments, PoolingPass DEF Inv
    <3> HIDE DEF g
    <3>3. Rests(cfg)'
      BY <3>1, <3>2 DEF Rests
    <3> QED
      BY <2>1, <2>2, <3>3 DEF PoolInv, Running
  <2> QED
    BY <2>1, <2>2 DEF PoolInv, Running
<1>4. CASE Spawn
  <2>1. Rests(cfg) /\ settled = cfg /\ settled' = settled /\ Rests(settled)'
    BY <1>0, <1>4 DEF PoolInv, Spawn
  <2>2. CASE user.multiprocessing
    <3>1. at' = "reconfigure" /\ \E m : cfg' = [cfg EXCEPT !.mode = m]
      BY <1>4, <2>2 DEF Spawn
    <3> QED
      BY <2>1, <3>1 DEF PoolInv, Running
  <2>3. CASE ~user.multiprocessing
    BY <1>4, <2>1, <2>3 DEF Spawn, PoolInv, Running
  <2> QED
    BY <2>2, <2>3
<1>5. CASE Reconfigure
  <2>1. /\ Rests(settled) /\ settled' = settled
        /\ at' \in {"load", "refused"} /\ (at' = "load" => cfg' # NoConfig)
        /\ Hooks(cfg, recorded, engine)
    BY <1>5 DEF Reconfigure, Then, PoolInv
  <2>2. PICK m : cfg = [settled EXCEPT !.mode = m]
    BY <1>5 DEF Reconfigure, PoolInv
  <2>3. Updated(SizesSettled(PlatformDefaults(cfg, recorded)), env.runner) = settled
    <3>1. \A given, runner :
            LET d == [settled EXCEPT !.mode = m]
            IN  Updated(SizesSettled(PlatformDefaults(d, given)), runner) = settled
      BY <2>1, SecondPass, Zenon
    <3> QED
      BY <2>2, <3>1, Zenon
  <2>4. at' = "load" => cfg' = settled
    BY <2>1, <2>3 DEF Hooks, RunnerNow
  <2> QED
    BY <2>1, <2>4 DEF PoolInv, Running
<1>6. CASE StartWorker
  BY <1>0, <1>6 DEF StartWorker, PoolInv, Running
<1>7. CASE Plan \/ WarmSize \/ WarmHead \/ Step
  BY <1>0, <1>7 DEF Plan, WarmSize, WarmHead, Step, startVars, PoolInv, Running
<1>8. CASE UNCHANGED vars
  BY <1>0, <1>8 DEF vars, startVars, PoolInv, Running
<1> QED
  BY <1>2, <1>3, <1>4, <1>5, <1>6, <1>7, <1>8 DEF Next, Start

(***************************************************************************)
(* For all engines: the hooks, run once more by the engine on the          *)
(* configuration it was sent, change nothing in it, whatever vLLM made of  *)
(* its mode and however its budget was given; only a pooling engine with   *)
(* sizes of its own may be narrowed again (apply_config_platform_defaults, *)
(* _apply_pooling_shape_defaults, check_and_update_config).                *)
(***************************************************************************)
THEOREM HooksSettleOnce == Spec => []SecondPassAgrees
<1>1. Init => PassInv /\ PoolInv
  BY DEF Init, StartInit, PassInv, PoolInv, Running
<1>2. Inv /\ Inv' /\ PassInv /\ PoolInv /\ [Next]_vars => PassInv' /\ PoolInv'
  BY PassKeeps, PoolKeeps
<1>3. Inv /\ PassInv /\ PoolInv => SecondPassAgrees
  BY DEF Inv, AtLoad, AtWork, Settled, PassInv, PoolInv, Shapes, SecondPassAgrees
<1> QED
  BY <1>1, <1>2, <1>3, Invariance, PTL DEF Spec

(***************************************************************************)
(* Buckets.                                                                *)
(***************************************************************************)
\* Rounding a length up to buckets one of which it fits, finds one; and a bucket, itself.
LEMMA RoundUpFinds ==
    ASSUME NEW S \in SUBSET Int, NEW n \in Nat \ {0}, NEW b \in S, n <= b
    PROVE  /\ RoundUp(n, S) \in S /\ n <= RoundUp(n, S) /\ RoundUp(n, S) # None
           /\ RoundUp(n, S) <= b
           /\ RoundUp(RoundUp(n, S), S) = RoundUp(n, S)
<1> DEFINE Fit(k) == {x \in S : x >= k}
<1>1. ASSUME NEW k \in Nat \ {0}, k <= b
      PROVE  /\ RoundUp(k, S) \in S /\ k <= RoundUp(k, S)
             /\ \A x \in S : k <= x => RoundUp(k, S) <= x
  <2>1. Fit(k) \in SUBSET Nat /\ b \in Fit(k)
    <3>1. \A x \in Int : x >= k => x \in Nat
      BY <1>1
    <3> QED
      BY <1>1, <3>1
  <2>2. \E x \in Fit(k) : \A y \in Fit(k) : x <= y
    BY <2>1, LeastExists
  <2>3. Min(Fit(k)) \in Fit(k) /\ \A y \in Fit(k) : Min(Fit(k)) <= y
    BY <2>2 DEF Min
  <2>4. RoundUp(k, S) = Min(Fit(k))
    BY <2>1 DEF RoundUp
  <2> QED
    BY <1>1, <2>3, <2>4
<1> DEFINE r == RoundUp(n, S)
<1>2. r \in S /\ n <= r /\ r <= b
  BY <1>1
<1> HIDE DEF r, Fit
<1>3. r \in Nat \ {0}
  BY <1>2
<1>4. RoundUp(r, S) \in S /\ r <= RoundUp(r, S) /\ RoundUp(r, S) <= r
  BY <1>1, <1>2, <1>3
<1>5. r # None /\ RoundUp(r, S) = r
  <2> DEFINE q == RoundUp(r, S)
  <2>1. q \in Int /\ r <= q /\ q <= r
    BY <1>4
  <2>2. q = r
    <3> HIDE DEF q
    <3> QED
      BY <1>3, <2>1
  <2> QED
    BY <1>3, <2>2 DEF None
<1> QED
  BY <1>2, <1>5 DEF r

\* A length that rounds to nothing is past every bucket.
LEMMA RoundUpMisses ==
    ASSUME NEW S \in SUBSET Int, NEW n \in Nat \ {0}, RoundUp(n, S) = None
    PROVE  \A b \in S : b < n
BY RoundUpFinds

LEMMA TwoOfInt ==
    ASSUME NEW a \in Int, NEW b \in Int
    PROVE  /\ Min({a, b}) = IF a <= b THEN a ELSE b
           /\ Max({a, b}) = IF a <= b THEN b ELSE a
<1>1. \E x \in {a, b} : \A y \in {a, b} : x <= y
  <2>1. a <= b \/ b <= a
    OBVIOUS
  <2> QED
    BY <2>1
<1>2. \E x \in {a, b} : \A y \in {a, b} : x >= y
  <2>1. a <= b \/ b <= a
    OBVIOUS
  <2> QED
    BY <2>1
<1>3. Min({a, b}) \in {a, b} /\ \A y \in {a, b} : Min({a, b}) <= y
  BY <1>1 DEF Min
<1>4. Max({a, b}) \in {a, b} /\ \A y \in {a, b} : Max({a, b}) >= y
  BY <1>2 DEF Max
<1> QED
  BY <1>3, <1>4

(***************************************************************************)
(* The ladders: whole numbers, and the longest context among them.         *)
(***************************************************************************)
LEMMA PowersType ==
    ASSUME NEW n \in Nat \ {0}, NEW start
    PROVE  PowersOfTwoUpTo(n, start) \in SUBSET Int /\ n \in PowersOfTwoUpTo(n, start)
<1>1. \A k \in 0..LadderBits : 2^k \in Int
  OBVIOUS
<1> QED
  BY <1>1 DEF PowersOfTwoUpTo

LEMMA SeriesType ==
    ASSUME NEW grain \in Nat \ {0}, NEW limit \in Nat, NEW bs, NEW ratio
    PROVE  Series(grain, limit, bs, ratio) \in SUBSET Int
<1>1. GrowthFrom(grain, limit, ratio) \subseteq 1..(limit - 1)
  BY DEF GrowthFrom
<1>2. \A v \in 1..(limit - 1) : WholeBlocks(v, grain) \in Int
  BY DEF WholeBlocks
<1> HIDE DEF GrowthFrom
<1> QED
  BY <1>1, <1>2 DEF Series

LEMMA LadderType ==
    ASSUME NEW name \in LadderNames, NEW n \in Nat \ {0}, NEW bs \in Nat \ {0}
    PROVE  KvLadder(name, n, bs) \in SUBSET Int /\ n \in KvLadder(name, n, bs)
<1>1. \A start : PowersOfTwoUpTo(n, start) \in SUBSET Int /\ n \in PowersOfTwoUpTo(n, start)
  BY PowersType
<1>2. UniformUnionUpTo(n, bs) \in SUBSET Int /\ n \in UniformUnionUpTo(n, bs)
  <2> DEFINE step == Max({bs, WholeBlocks(n \div 8, bs)})
             knee == Max({bs, WholeBlocks(n \div 16, bs)})
  <2>1. WholeBlocks(n \div 8, bs) \in Int /\ WholeBlocks(n \div 16, bs) \in Int
    BY DEF WholeBlocks
  <2>2. step \in Int /\ knee \in Int
    <3>1. \A a \in Int : Max({bs, a}) \in Int
      BY TwoOfInt
    <3> QED
      BY <2>1, <3>1
  <2>3. {v \in (knee + step)..(n - 1) : (v - knee) % step = 0} \subseteq Int
    <3> HIDE DEF step, knee
    <3> QED
      BY <2>2
  <2> QED
    BY <1>1, <2>3 DEF UniformUnionUpTo
<1>3. ASSUME NEW ratio
      PROVE  GeometricUnionUpTo(n, bs, ratio) \in SUBSET Int
             /\ n \in GeometricUnionUpTo(n, bs, ratio)
  <2> DEFINE grain == GrainUpTo(GrainHorizon, bs, ratio)
  <2>1. grain \in Nat \ {0}
    BY DEF GrainUpTo, DefaultGrain
  <2> HIDE DEF grain
  <2>2. Series(grain, n, bs, ratio) \in SUBSET Int
    BY <2>1, SeriesType
  <2>3. \A r \in Int : WholeBlocks(r, bs) \in Int
    BY DEF WholeBlocks
  <2>4. GeometricSteps(grain, n, bs, ratio) \in SUBSET Int
    BY <2>2, <2>3 DEF GeometricSteps
  <2> QED
    BY <1>1, <2>4 DEF GeometricUnionUpTo, grain
<1>4. CASE name = "pow2"
  <2>1. name # "uniform" /\ name \notin DOMAIN Ratio
    BY <1>4 DEF Ratio
  <2>2. KvLadder(name, n, bs) = PowersOfTwoUpTo(n, bs)
    BY <1>4, <2>1 DEF KvLadder
  <2> QED
    BY <1>1, <2>2
<1>5. CASE name = "uniform"
  BY <1>2, <1>5 DEF KvLadder, Ratio
<1>6. CASE name \in DOMAIN Ratio
  <2>1. name \notin {"pow2", "uniform"}
    BY <1>6 DEF Ratio
  <2>2. KvLadder(name, n, bs) = GeometricUnionUpTo(n, bs, Ratio[name])
    BY <1>6, <2>1 DEF KvLadder
  <2> QED
    BY <1>3, <2>2
<1> QED
  BY <1>4, <1>5, <1>6 DEF LadderNames

LEMMA ConfiguredType ==
    ASSUME NEW name \in LadderNames, NEW n \in Nat \ {0}, NEW bs \in Nat \ {0},
           NEW raw \in SUBSET Nat
    PROVE  Configured(name, bs, raw, n) \in SUBSET Int /\ n \in Configured(name, bs, raw, n)
<1>1. KvLadder(name, n, bs) \in SUBSET Int /\ n \in KvLadder(name, n, bs)
  BY LadderType
<1> QED
  <2> DEFINE ladder == KvLadder(name, n, bs)
             given == {b \in raw : b <= n} \cup {n}
  <2>1. given \in SUBSET Int /\ n \in given
    <3>1. raw \subseteq Int /\ n \in Int
      OBVIOUS
    <3> QED
      BY <3>1, Zenon
  <2>2. Configured(name, bs, raw, n) = IF raw = {} THEN ladder ELSE given
    BY DEF Configured, ResolveBuckets
  <2> HIDE DEF ladder, given
  <2>3. ladder \in SUBSET Int /\ n \in ladder
    BY <1>1 DEF ladder
  <2> QED
    BY <2>1, <2>2, <2>3

\* Every number of pages, and of tokens, up to those of the longest context rounds up.
LEMMA LengthsRoundUp ==
    ASSUME NEW len \in Nat \ {0}, NEW bs \in Nat \ {0}, NEW buckets \in SUBSET Int,
           len \in buckets, NEW n \in 1..CeilDiv(len, bs)
    PROVE  /\ RoundUp(n, {CeilDiv(b, bs) : b \in buckets}) # None
           /\ RoundUp(Min({n * bs, len}), buckets) # None
<1> DEFINE pages == {CeilDiv(b, bs) : b \in buckets}
<1>1. CeilDiv(len, bs) \in Nat /\ n \in Nat \ {0} /\ n <= CeilDiv(len, bs)
  BY CeilDivShares
<1>2. pages \in SUBSET Int /\ CeilDiv(len, bs) \in pages
  BY DEF CeilDiv
<1>3. RoundUp(n, pages) # None
  <2> HIDE DEF pages
  <2> QED
    BY <1>1, <1>2, RoundUpFinds
<1>4. n * bs \in Nat \ {0}
  BY <1>1
<1>5. Min({n * bs, len}) \in Nat \ {0} /\ Min({n * bs, len}) <= len
  BY <1>4, MinOfTwo
<1>6. RoundUp(Min({n * bs, len}), buckets) # None
  BY <1>5, RoundUpFinds
<1> QED
  BY <1>3, <1>6

(***************************************************************************)
(* Pages enough.                                                           *)
(***************************************************************************)
LEMMA CeilDivGrows ==
    ASSUME NEW n \in Nat, NEW m \in Nat, n <= m, NEW w \in Nat \ {0}
    PROVE  CeilDiv(n, w) \in Nat /\ CeilDiv(n, w) <= CeilDiv(m, w)
<1> DEFINE a == n + (w - 1)
           b == m + (w - 1)
<1>1. a \in Nat /\ b \in Nat /\ a <= b
  OBVIOUS
<1>2. a \div w \in Nat /\ a \div w <= b \div w
  <2> HIDE DEF a, b
  <2> QED
    BY <1>1
<1>3. n + w - 1 = a /\ m + w - 1 = b
  OBVIOUS
<1> HIDE DEF a, b
<1> QED
  BY <1>2, <1>3 DEF CeilDiv

LEMMA TimesGrows ==
    ASSUME NEW s \in Nat \ {0}, NEW a \in Int, NEW b \in Int
    PROVE  (a <= b => s * a <= s * b) /\ (a < b => s * a < s * b)
OBVIOUS

LEMMA PagesFill ==
    ASSUME NEW seqs \in Nat \ {0}, NEW len \in Nat \ {0}, NEW bs \in Nat \ {0}
    PROVE  /\ \A n \in {1, len - 1, len} :
                 seqs * CeilDiv(n, bs) <= seqs * CeilDiv(len, bs)
           /\ (seqs * CeilDiv(len, bs)) * bs < seqs * (len + bs)
<1> DEFINE q == CeilDiv(len, bs)
<1>1. q \in Nat /\ (q - 1) * bs < len
  BY CeilDivShares
<1>2. \A n \in {1, len - 1, len} : CeilDiv(n, bs) \in Nat /\ CeilDiv(n, bs) <= q
  BY CeilDivGrows
<1> HIDE DEF q
<1>3. \A n \in {1, len - 1, len} : seqs * CeilDiv(n, bs) <= seqs * q
  BY <1>1, <1>2, TimesGrows
<1>4. q * bs < len + bs /\ q * bs \in Int /\ len + bs \in Int
  <2>1. (q - 1) * bs = q * bs - bs /\ q * bs \in Int
    BY <1>1
  <2> QED
    BY <1>1, <2>1
<1>5. seqs * (q * bs) < seqs * (len + bs)
  BY <1>4, TimesGrows
<1>6. (seqs * q) * bs = seqs * (q * bs)
  BY <1>1
<1> QED
  BY <1>3, <1>5, <1>6 DEF q

\* What a generative engine that runs has been configured with.
LEMMA RunsReady ==
    ASSUME Inv, PassInv, Running, ~cfg.pooling
    PROVE  Ready(cfg)
<1>1. ~user.pooling
  BY DEF Inv, AtWork, Settled
<1>2. cfg = settled /\ Ready(settled)
  <2> HIDE DEF Ready
  <2> QED
    BY <1>1 DEF PassInv
<1> QED
  BY <1>2, Zenon

(***************************************************************************)
(* For all generative engines, whatever their lengths, block size, batch   *)
(* and ladder: each number of pages and of tokens that may be scheduled    *)
(* has a bucket, and unless the user sized the cache, the pages are enough *)
(* for a full batch of the longest contexts, with less than a block per    *)
(* sequence to spare (check_and_update_config, _configure_kv_blocks, the   *)
(* ladders).                                                               *)
(***************************************************************************)
THEOREM LengthsFit == Spec => []EveryLengthFits
<1>1. Inv /\ PassInv => EveryLengthFits
  <2> SUFFICES ASSUME Inv, PassInv, Running, ~cfg.pooling PROVE EveryLengthFits
    BY DEF EveryLengthFits, EveryLengthHasABucket, BlocksFillTheBatch
  <2>1. Sized(cfg, user.blocks)
    BY RunsReady DEF Ready
  <2>2. /\ cfg.block_size \in Nat \ {0} /\ cfg.max_model_len \in Nat \ {0}
        /\ cfg.max_num_seqs \in Nat \ {0}
        /\ user.blocks = None => cfg.blocks = BlocksFor(cfg)
    BY <2>1 DEF Sized
  <2>3. EveryLengthHasABucket
    <3>1. user.ladder \in LadderNames /\ user.kv_buckets \in SUBSET Nat
      <4> HIDE DEF LadderNames
      <4> QED
        BY DEF Inv, TypeInv, UsersTypes
    <3> DEFINE buckets == Configured(user.ladder, cfg.block_size, user.kv_buckets, cfg.max_model_len)
    <3>2. buckets \in SUBSET Int /\ cfg.max_model_len \in buckets
      BY <2>2, <3>1, ConfiguredType
    <3> HIDE DEF buckets
    <3>3. \A n \in 1..CeilDiv(cfg.max_model_len, cfg.block_size) :
            /\ RoundUp(n, {CeilDiv(b, cfg.block_size) : b \in buckets}) # None
            /\ RoundUp(Min({n * cfg.block_size, cfg.max_model_len}), buckets) # None
      BY <2>2, <3>2, LengthsRoundUp
    <3> QED
      BY <3>3 DEF EveryLengthHasABucket, buckets
  <2>4. BlocksFillTheBatch
    <3> SUFFICES ASSUME user.blocks = None
                 PROVE  /\ \A n \in {1, cfg.max_model_len - 1, cfg.max_model_len} :
                              cfg.max_num_seqs * CeilDiv(n, cfg.block_size) <= cfg.blocks - 1
                        /\ (cfg.blocks - 1) * cfg.block_size
                              < cfg.max_num_seqs * (cfg.max_model_len + cfg.block_size)
      BY DEF BlocksFillTheBatch
    <3> DEFINE pages == cfg.max_num_seqs * CeilDiv(cfg.max_model_len, cfg.block_size)
    <3>1. CeilDiv(cfg.max_model_len, cfg.block_size) \in Nat
      BY <2>2, CeilDivShares
    <3>2. pages \in Nat
      BY <2>2, <3>1
    <3>3. cfg.blocks - 1 = pages
      <4>1. cfg.blocks = pages + 1
        BY <2>2 DEF BlocksFor
      <4> HIDE DEF pages
      <4> QED
        BY <3>2, <4>1
    <3> QED
      BY <2>2, <3>3, PagesFill
  <2> QED
    BY <2>3, <2>4 DEF EveryLengthFits
<1>2. Init => PassInv
  BY DEF Init, StartInit, PassInv, Running
<1>3. Inv /\ Inv' /\ PassInv /\ [Next]_vars => PassInv'
  BY PassKeeps
<1> QED
  BY <1>1, <1>2, <1>3, Invariance, PTL DEF Spec

(***************************************************************************)
(* Warm-up.  Sizes that were warmed have their graphs; heads and merges    *)
(* are there before the first step.                                        *)
(***************************************************************************)
SizeKeys(s) == Graphs({<<"body", s>>} \cup EmbedKeys(s) \cup DraftKeys(s))

WarmInv ==
    /\ Running => DraftsServed
    /\ at \in {"dummies", "serve"} =>
          ~cfg.pooling /\ \A s \in SizesToWarm \ todo : SizeKeys(s) \subseteq warm
    /\ at = "serve" => todo = {} /\ Graphs(HeadKeys \cup MergeKeys) \subseteq warm
    /\ at # "serve" => late = {}

\* What a generative engine that pads to sizes has in common with its warm-up.
LEMMA ServesSizes ==
    ASSUME Inv, PassInv, Running, ~cfg.pooling, Bucketed
    PROVE  /\ Sizes \in SUBSET Int /\ GreatestOf(Sizes) \in Sizes
           /\ \A s \in Sizes : s <= GreatestOf(Sizes)
           /\ Max(Sizes) = GreatestOf(Sizes) /\ cfg.max_num_batched_tokens = GreatestOf(Sizes)
           /\ cfg.mode = "stock" /\ SizesToWarm = Sizes
           /\ cfg.max_num_seqs \in Nat \ {0} /\ cfg.drafts \in Nat
           /\ UserRoomy => 2 <= GreatestOf(Sizes)
           /\ HasVision => "image" \in user.features
<1>1. Ready(cfg)
  BY RunsReady
<1>2. Bounded(Sizes) /\ cfg.max_num_seqs \in Nat \ {0} /\ cfg.drafts \in Nat
  BY <1>1 DEF Ready, Sized, Sizes
<1>3. /\ cfg.mode = "stock" /\ cfg.max_num_batched_tokens = GreatestOf(Sizes)
      /\ SizesToWarm = Sizes
  BY <1>1 DEF Ready, Stable, Bucketed, Sizes, SizesToWarm
<1>4. /\ GreatestOf(Sizes) \in Sizes /\ \A s \in Sizes : s <= GreatestOf(Sizes)
      /\ Max(Sizes) = GreatestOf(Sizes) /\ Sizes \in SUBSET Int
  BY <1>2, GreatestExists DEF Bucketed, Bounded
<1>5. UserRoomy => 2 <= GreatestOf(Sizes)
  <2> SUFFICES ASSUME UserRoomy PROVE 2 <= GreatestOf(Sizes)
    OBVIOUS
  <2>1. PICK s \in Sizes : 2 <= s
    BY <1>1 DEF Ready, TwoRows, Bucketed, Sizes
  <2>2. s <= GreatestOf(Sizes) /\ s \in Int /\ GreatestOf(Sizes) \in Int
    BY <1>4, <2>1
  <2> QED
    BY <2>1, <2>2
<1>6. HasVision => "image" \in user.features
  BY <1>1 DEF Ready, HasVision
<1> QED
  BY <1>2, <1>3, <1>4, <1>5, <1>6

\* The rows of a step that fits the budget are padded to a size, and the size to itself.
LEMMA TokensPad ==
    ASSUME Inv, PassInv, Running, ~cfg.pooling, Bucketed,
           NEW n \in Nat \ {0}, n <= GreatestOf(Sizes)
    PROVE  /\ PaddedTokens(n) \in Sizes /\ PaddedTokens(n) = RoundUp(n, Sizes)
           /\ n <= PaddedTokens(n) /\ PaddedTokens(n) \in Nat \ {0}
           /\ RoundUp(n, Sizes) # None
           /\ RoundUp(PaddedTokens(n), Sizes) = PaddedTokens(n)
           /\ PaddedTokens(PaddedTokens(n)) = PaddedTokens(n)
<1>1. Sizes \in SUBSET Int /\ GreatestOf(Sizes) \in Sizes
  BY ServesSizes
<1> DEFINE p == RoundUp(n, Sizes)
<1>2. p \in Sizes /\ n <= p /\ p # None /\ RoundUp(p, Sizes) = p
  BY <1>1, RoundUpFinds
<1>3. PaddedTokens(n) = p /\ PaddedTokens(p) = p
  BY <1>2 DEF PaddedTokens
<1>4. p \in Nat \ {0}
  <2> HIDE DEF p
  <2> QED
    BY <1>1, <1>2
<1> QED
  BY <1>2, <1>3, <1>4

LEMMA RowBucketsType ==
    ASSUME Inv, PassInv, Running, ~cfg.pooling, Bucketed
    PROVE  /\ RowBuckets \in SUBSET Int /\ RowCap(cfg) \in Nat \ {0}
           /\ Min({GreatestOf(Sizes), RowCap(cfg)}) \in RowBuckets
           /\ ~V2 => \A b \in RowBuckets : b <= RowCap(cfg) /\ b <= GreatestOf(Sizes)
           /\ V2 /\ user.logprobs => Min({ChunkRows, cfg.max_num_batched_tokens}) \in RowBuckets
<1>1. /\ Sizes \in SUBSET Int /\ GreatestOf(Sizes) \in Sizes
      /\ \A s \in Sizes : s <= GreatestOf(Sizes)
      /\ cfg.max_num_batched_tokens = GreatestOf(Sizes)
      /\ cfg.max_num_seqs \in Nat \ {0} /\ cfg.drafts \in Nat
  BY ServesSizes
<1> DEFINE cap == RowCap(cfg)
           capped == {Min({s, cap}) : s \in Sizes}
           chunk == Min({ChunkRows, cfg.max_num_batched_tokens})
<1>2. cap \in Nat \ {0}
  <2>1. cfg.drafts + 1 \in Nat \ {0}
    BY <1>1
  <2>2. cfg.max_num_seqs * (cfg.drafts + 1) \in Nat \ {0}
    BY <1>1, <2>1
  <2> QED
    BY <2>2 DEF RowCap
<1> HIDE DEF cap
<1>3. \A s \in Sizes :
        Min({s, cap}) \in Int /\ Min({s, cap}) <= cap /\ Min({s, cap}) <= GreatestOf(Sizes)
  <2> SUFFICES ASSUME NEW s \in Sizes
               PROVE  Min({s, cap}) \in Int /\ Min({s, cap}) <= cap
                      /\ Min({s, cap}) <= GreatestOf(Sizes)
    OBVIOUS
  <2>1. s \in Int /\ s <= GreatestOf(Sizes) /\ GreatestOf(Sizes) \in Int
    BY <1>1
  <2>2. Min({s, cap}) = IF s <= cap THEN s ELSE cap
    BY <1>2, <2>1, TwoOfInt
  <2> QED
    BY <1>2, <2>1, <2>2
<1>4. chunk \in Int
  <2>1. ChunkRows \in Int /\ cfg.max_num_batched_tokens \in Int
    <3>1. ChunkRows \in Nat
      BY WarmupAssumption
    <3>2. GreatestOf(Sizes) \in Int
      BY <1>1
    <3> QED
      BY <1>1, <3>1, <3>2
  <2>2. \A x, y \in Int : Min({x, y}) \in Int
    BY TwoOfInt
  <2> QED
    BY <2>1, <2>2
<1>5. RowBuckets = capped \cup (IF V2 /\ user.logprobs THEN {chunk} ELSE {})
  BY DEF RowBuckets, cap
<1> HIDE DEF chunk
<1>6. capped \in SUBSET Int /\ Min({GreatestOf(Sizes), cap}) \in capped
      /\ \A b \in capped : b <= cap /\ b <= GreatestOf(Sizes)
  BY <1>1, <1>3
<1> HIDE DEF capped
<1>7. RowBuckets \in SUBSET Int
  BY <1>4, <1>5, <1>6
<1> QED
  BY <1>2, <1>5, <1>6, <1>7 DEF cap, chunk

\* The dummy of the V1 runner samples as many rows as the widest bucket has.
LEMMA DummyIsWide ==
    ASSUME Inv, PassInv, Running, ~cfg.pooling, Bucketed, ~V2, NEW b \in RowBuckets
    PROVE  DummyRows(cfg) \in Int /\ b <= DummyRows(cfg)
<1>1. /\ Sizes \in SUBSET Int /\ GreatestOf(Sizes) \in Sizes /\ Max(Sizes) = GreatestOf(Sizes)
      /\ cfg.max_num_seqs \in Nat \ {0} /\ cfg.drafts \in Nat
  BY ServesSizes
<1>2. b \in Int /\ b <= RowCap(cfg) /\ b <= GreatestOf(Sizes) /\ GreatestOf(Sizes) \in Int
  BY <1>1, RowBucketsType
<1>3. CASE cfg.drafts > 0
  BY <1>1, <1>2, <1>3 DEF DummyRows, Sizes
<1>4. CASE ~(cfg.drafts > 0)
  <2>1. RowCap(cfg) = cfg.max_num_seqs
    <3>1. cfg.drafts + 1 = 1
      BY <1>1, <1>4
    <3> QED
      BY <1>1, <3>1 DEF RowCap
  <2>2. DummyRows(cfg) = Min({GreatestOf(Sizes), cfg.max_num_seqs})
    BY <1>1, <1>4 DEF DummyRows, Sizes
  <2>3. DummyRows(cfg) \in {GreatestOf(Sizes), cfg.max_num_seqs}
    BY <1>1, <1>2, <2>2, TwoOfInt
  <2> QED
    BY <1>1, <1>2, <2>1, <2>3
<1> QED
  BY <1>3, <1>4

\* The widths of the head: what warm-up projects is what a step projects.
LEMMA HeadIsWarm ==
    ASSUME Inv, PassInv, WarmInv, at = "serve", Bucketed,
           NEW w \in Nat \ {0}, NEW b \in RowBuckets, w <= b
    PROVE  {<<"head", PaddedLogits(w)>>} \subseteq warm
<1>1. /\ Running /\ ~cfg.pooling /\ Graphs(HeadKeys \cup MergeKeys) \subseteq warm
  BY DEF WarmInv, Running
<1>2. /\ Sizes \in SUBSET Int /\ GreatestOf(Sizes) \in Sizes
      /\ \A s \in Sizes : s <= GreatestOf(Sizes)
      /\ Max(Sizes) = GreatestOf(Sizes) /\ cfg.max_num_batched_tokens = GreatestOf(Sizes)
      /\ cfg.mode = "stock" /\ cfg.max_num_seqs \in Nat \ {0} /\ cfg.drafts \in Nat
  BY <1>1, ServesSizes
<1> DEFINE p == RoundUp(w, RowBuckets)
<1>3. RowBuckets \in SUBSET Int
  BY <1>1, RowBucketsType
<1>4. p \in RowBuckets /\ w <= p /\ p # None /\ RoundUp(p, RowBuckets) = p
  BY <1>3, RoundUpFinds
<1>5. PaddedLogits(w) = p /\ PaddedLogits(p) = p
  BY <1>4 DEF PaddedLogits
<1>6. <<"head", p>> \in HeadKeys
  <2>1. CASE V2
    BY <1>4, <1>5, <2>1 DEF HeadKeys
  <2>2. CASE ~V2
    <3>1. p <= DummyRows(cfg) /\ DummyRows(cfg) \in Int /\ p \in Int
      BY <1>1, <1>3, <1>4, <2>2, DummyIsWide
    <3>2. Min({p, DummyRows(cfg)}) = p
      <4> HIDE DEF p
      <4> QED
        BY <3>1, TwoOfInt
    <3> HIDE DEF p
    <3> QED
      BY <1>4, <1>5, <2>2, <3>2 DEF HeadKeys
  <2> QED
    BY <2>1, <2>2
<1>7. HeadKeys \subseteq warm
  BY <1>1, <1>2 DEF Graphs
<1> QED
  BY <1>5, <1>6, <1>7

\* A step of n tokens: its blocks and the draft's context, on the size it is padded to.
LEMMA BodyIsWarm ==
    ASSUME Inv, PassInv, WarmInv, at = "serve", Bucketed,
           NEW n \in Nat \ {0}, n <= GreatestOf(Sizes)
    PROVE  /\ <<"body", PaddedTokens(n)>> \in warm
           /\ cfg.drafts > 0 => <<"context", PaddedTokens(n)>> \in warm
           /\ cfg.drafts > 0 => \A b \in DraftBatches(cfg) : <<"draft", b>> \in warm
           /\ HasVision => <<"embed", PaddedTokens(n)>> \in warm
<1>1. /\ Running /\ ~cfg.pooling /\ todo = {}
      /\ \A s \in SizesToWarm \ todo : SizeKeys(s) \subseteq warm
  BY DEF WarmInv, Running
<1>2. cfg.mode = "stock" /\ SizesToWarm = Sizes /\ cfg.drafts \in Nat
  BY <1>1, ServesSizes
<1> DEFINE p == PaddedTokens(n)
<1>3. p \in Sizes /\ p \in Nat \ {0} /\ RoundUp(p, Sizes) = p /\ PaddedTokens(p) = p
  BY <1>1, TokensPad
<1> HIDE DEF p
<1>4. {<<"body", p>>} \cup EmbedKeys(p) \cup DraftKeys(p) \subseteq warm
  <2>1. SizeKeys(p) \subseteq warm
    BY <1>1, <1>2, <1>3
  <2> QED
    BY <1>2, <2>1 DEF SizeKeys, Graphs
<1>5. HasVision => EmbedKeys(p) = {<<"embed", p>>}
  <2>1. EmbedKey(p, FALSE) = <<"embed", p>>
    BY <1>3 DEF EmbedKey, StagedRows, None
  <2> QED
    BY <2>1 DEF EmbedKeys
<1>6. cfg.drafts > 0 => DraftKeys(p) = {<<"context", p>>} \cup {<<"draft", b>> : b \in DraftBatches(cfg)}
  BY DEF DraftKeys
<1> QED
  BY <1>4, <1>5, <1>6 DEF p

\* A step's input embedding, with image rows and without.
LEMMA EmbeddingIsWarm ==
    ASSUME Inv, PassInv, WarmInv, at = "serve", Bucketed, HasVision, UserRoomy,
           NEW n \in Nat \ {0}, n <= GreatestOf(Sizes), NEW image \in BOOLEAN
    PROVE  EmbedKey(n, image) \in warm
<1>1. /\ Running /\ ~cfg.pooling /\ Graphs(HeadKeys \cup MergeKeys) \subseteq warm
  BY DEF WarmInv, Running
<1>2. Sizes \in SUBSET Int /\ GreatestOf(Sizes) \in Sizes /\ cfg.mode = "stock"
      /\ 2 <= GreatestOf(Sizes)
  BY <1>1, ServesSizes
<1>3. CASE ~image
  <2>1. RoundUp(n, Sizes) # None
    BY <1>1, TokensPad
  <2>2. EmbedKey(n, FALSE) = <<"embed", PaddedTokens(n)>>
    BY <2>1 DEF EmbedKey, StagedRows
  <2> QED
    BY <1>3, <2>2, BodyIsWarm
<1>4. CASE image
  <2> DEFINE m == StagedRows(n, TRUE)
             p == PaddedTokens(m)
  <2>1. m \in Nat \ {0} /\ 2 <= m /\ m <= GreatestOf(Sizes)
    <3>1. m = IF n <= 2 THEN 2 ELSE n
      BY TwoOfInt DEF StagedRows
    <3> HIDE DEF m
    <3> QED
      BY <1>2, <3>1
  <2> HIDE DEF m
  <2>2. /\ p \in Sizes /\ m <= p /\ p \in Nat \ {0} /\ RoundUp(m, Sizes) # None
        /\ RoundUp(p, Sizes) = p /\ PaddedTokens(p) = p
    BY <1>1, <2>1, TokensPad
  <2>3. EmbedKey(n, TRUE) = <<"merge", p>>
    BY <2>2 DEF EmbedKey, m
  <2> HIDE DEF p
  <2>4. 2 <= p
    BY <2>1, <2>2
  <2>5. EmbedKey(p, TRUE) = <<"merge", p>>
    <3>1. StagedRows(p, TRUE) = p
      <4>1. Max({p, 2}) = p
        BY <2>2, <2>4, TwoOfInt
      <4> QED
        BY <4>1 DEF StagedRows
    <3> QED
      BY <2>2, <3>1 DEF EmbedKey, None
  <2>6. EmbedKey(p, TRUE) \in MergeKeys
    BY <2>2, <2>4 DEF MergeKeys, SizesToWarm
  <2> QED
    BY <1>1, <1>2, <1>4, <2>3, <2>5, <2>6 DEF Graphs
<1> QED
  BY <1>3, <1>4

\* Up to the batches DFlash serves, request counts round up, and in order.
LEMMA BatchesRoundUp ==
    ASSUME NEW m \in Nat \ {0}, m <= MaxDraftBatch, NEW n \in Nat \ {0}, n <= m
    PROVE  /\ CeilPow2(n) \in {2^k : k \in 0..(MaxDoublings + 4)}
           /\ CeilPow2(n) <= CeilPow2(m)
<1> DEFINE Powers == {2^k : k \in 0..(MaxDoublings + 4)}
           Fit(x) == {p \in Powers : x <= p}
<1>1. Powers \in SUBSET Int
  <2>1. \A k \in 0..(MaxDoublings + 4) : 2^k \in Int
    OBVIOUS
  <2> QED
    BY <2>1
<1>2. PICK b \in Powers : MaxDraftBatch <= b
  BY WarmupAssumption
<1>3. CeilPow2(n) = LeastOf(Fit(n)) /\ CeilPow2(m) = LeastOf(Fit(m))
  BY DEF CeilPow2
<1> HIDE DEF Powers
<1>4. ASSUME NEW x \in Nat \ {0}, x <= MaxDraftBatch
      PROVE  LeastOf(Fit(x)) \in Fit(x) /\ \A p \in Fit(x) : LeastOf(Fit(x)) <= p
  <2>1. MaxDraftBatch \in Nat
    BY StartAssumption
  <2>2. Fit(x) \in SUBSET Nat /\ b \in Fit(x)
    <3>1. \A p \in Int : x <= p => p \in Nat
      BY <1>4
    <3>2. b \in Int /\ x <= b
      BY <1>1, <1>2, <1>4, <2>1
    <3> QED
      BY <1>1, <3>1, <3>2
  <2>3. \E p \in Fit(x) : \A y \in Fit(x) : p <= y
    BY <2>2, LeastExists
  <2> QED
    BY <2>3, Zenon DEF LeastOf
<1>5. n <= MaxDraftBatch
  <2>1. MaxDraftBatch \in Nat
    BY StartAssumption
  <2> QED
    BY <2>1
<1>6. /\ LeastOf(Fit(n)) \in Fit(n) /\ \A p \in Fit(n) : LeastOf(Fit(n)) <= p
      /\ LeastOf(Fit(m)) \in Fit(m)
  BY <1>4, <1>5
<1>7. LeastOf(Fit(m)) \in Fit(n)
  <2> DEFINE q == LeastOf(Fit(m))
  <2>1. q \in Powers /\ m <= q
    BY <1>6
  <2> HIDE DEF q
  <2>2. n <= q
    BY <1>1, <2>1
  <2> QED
    BY <2>1, <2>2 DEF q
<1> QED
  BY <1>3, <1>6, <1>7 DEF Powers

\* The rows a step samples fit the widest head.
LEMMA SampledFit ==
    ASSUME Inv, PassInv, Running, ~cfg.pooling, Bucketed,
           NEW n \in Nat \ {0}, n <= GreatestOf(Sizes),
           NEW r \in Nat \ {0}, r <= n, r <= cfg.max_num_seqs, NEW rows \in Sampled(n, r)
    PROVE  rows \in Nat \ {0} /\ \E b \in RowBuckets : rows <= b
<1>1. /\ cfg.max_num_seqs \in Nat \ {0} /\ cfg.drafts \in Nat
      /\ Sizes \in SUBSET Int /\ GreatestOf(Sizes) \in Sizes
  BY ServesSizes
<1>2. RowCap(cfg) \in Nat \ {0} /\ Min({GreatestOf(Sizes), RowCap(cfg)}) \in RowBuckets
  BY RowBucketsType
<1>3. rows \in Nat \ {0} /\ rows <= n /\ rows <= RowCap(cfg)
  <2>1. CASE cfg.drafts = 0
    <3>1. RowCap(cfg) = cfg.max_num_seqs /\ rows = r
      BY <1>1, <2>1 DEF RowCap, Sampled
    <3> QED
      BY <3>1
  <2>2. CASE cfg.drafts # 0
    <3> DEFINE d == cfg.drafts + 1
               most == Min({n, r * d})
    <3>1. d \in Nat \ {0}
      BY <1>1
    <3>2. RowCap(cfg) = cfg.max_num_seqs * d
      BY DEF RowCap
    <3>3. rows \in {most} \cup (StepTokens \cap r..most)
      BY <2>2 DEF Sampled
    <3> HIDE DEF d
    <3>4. r * d \in Nat \ {0} /\ r * d <= cfg.max_num_seqs * d
      <4>1. d * r <= d * cfg.max_num_seqs
        BY <1>1, <3>1, TimesGrows
      <4> QED
        BY <1>1, <3>1, <4>1
    <3>5. most \in Nat \ {0} /\ most <= n /\ most <= r * d
      BY <3>4, MinOfTwo
    <3> HIDE DEF most
    <3>6. rows \in Nat \ {0} /\ rows <= most
      BY <3>3, <3>5
    <3> QED
      BY <1>2, <3>2, <3>4, <3>5, <3>6
  <2> QED
    BY <2>1, <2>2
<1>4. rows <= Min({GreatestOf(Sizes), RowCap(cfg)})
  <2>1. GreatestOf(Sizes) \in Int
    BY <1>1, Zenon
  <2>2. Min({GreatestOf(Sizes), RowCap(cfg)}) \in {GreatestOf(Sizes), RowCap(cfg)}
    BY <1>2, <2>1, TwoOfInt
  <2> QED
    BY <1>2, <1>3, <2>1, <2>2
<1> QED
  BY <1>2, <1>3, <1>4

\* The head on prompt rows: past every bucket on the V1 runner, or warmed.
LEMMA PromptFits ==
    ASSUME Inv, PassInv, WarmInv, at = "serve", Bucketed,
           NEW n \in Nat \ {0}, n <= GreatestOf(Sizes),
           NEW prompt \in PromptRows(n), prompt > 0
    PROVE  \/ <<"head", PaddedLogits(prompt)>> \in warm
           \/ /\ ~V2 /\ prompt > Max(RowBuckets)
              /\ <<"head", PaddedLogits(prompt)>> \in {"head"} \X StepTokens
              /\ PaddedLogits(prompt) = prompt
<1>1. Running /\ ~cfg.pooling
  BY DEF WarmInv, Running
<1>2. /\ Sizes \in SUBSET Int /\ GreatestOf(Sizes) \in Sizes
      /\ cfg.max_num_batched_tokens = GreatestOf(Sizes)
  BY <1>1, ServesSizes
<1>3. /\ RowBuckets \in SUBSET Int /\ RowCap(cfg) \in Nat \ {0}
      /\ Min({GreatestOf(Sizes), RowCap(cfg)}) \in RowBuckets
      /\ ~V2 => \A b \in RowBuckets : b <= RowCap(cfg)
      /\ V2 /\ user.logprobs => Min({ChunkRows, cfg.max_num_batched_tokens}) \in RowBuckets
  BY <1>1, RowBucketsType
<1>4. /\ user.logprobs /\ prompt \in StepTokens
      /\ prompt <= (IF V2 THEN Min({n, ChunkRows}) ELSE n)
  BY DEF PromptRows
<1>5. prompt \in Nat \ {0}
  <2>1. StepTokens \subseteq Nat \ {0}
    BY WarmupAssumption
  <2> QED
    BY <1>4, <2>1
<1>6. ChunkRows \in Nat \ {0}
  BY WarmupAssumption
<1>7. CASE V2
  <2> DEFINE chunk == Min({ChunkRows, GreatestOf(Sizes)})
  <2>1. chunk \in RowBuckets
    BY <1>2, <1>3, <1>4, <1>7
  <2>2. prompt <= ChunkRows /\ prompt <= GreatestOf(Sizes) /\ GreatestOf(Sizes) \in Int
    <3>1. Min({n, ChunkRows}) \in Nat /\ Min({n, ChunkRows}) <= n /\ Min({n, ChunkRows}) <= ChunkRows
      BY <1>6, MinOfTwo
    <3>2. GreatestOf(Sizes) \in Int
      BY <1>2
    <3> QED
      BY <1>4, <1>5, <1>6, <1>7, <3>1, <3>2
  <2>3. prompt <= chunk
    BY <1>6, <2>2, TwoOfInt
  <2> HIDE DEF chunk
  <2>4. {<<"head", PaddedLogits(prompt)>>} \subseteq warm
    BY <1>5, <2>1, <2>3, HeadIsWarm
  <2> QED
    BY <2>4
<1>8. CASE ~V2 /\ \E b \in RowBuckets : prompt <= b
  <2>1. {<<"head", PaddedLogits(prompt)>>} \subseteq warm
    BY <1>5, <1>8, HeadIsWarm
  <2> QED
    BY <2>1
<1>9. CASE ~V2 /\ ~\E b \in RowBuckets : prompt <= b
  <2>1. Bounded(RowBuckets) /\ RowBuckets # {}
    BY <1>3, <1>9 DEF Bounded
  <2>2. Max(RowBuckets) \in RowBuckets
    BY <2>1, GreatestExists
  <2>3. prompt > Max(RowBuckets)
    <3> DEFINE top == Max(RowBuckets)
    <3>1. top \in Int /\ ~(prompt <= top)
      BY <1>3, <1>9, <2>2
    <3> HIDE DEF top
    <3>2. prompt > top
      BY <1>5, <3>1
    <3> QED
      BY <3>2 DEF top
  <2>4. {b \in RowBuckets : b >= prompt} = {}
    BY <1>3, <1>5, <1>9
  <2>5. PaddedLogits(prompt) = prompt
    BY <2>4 DEF PaddedLogits, RoundUp
  <2> QED
    BY <1>4, <1>9, <2>3, <2>5
<1> QED
  BY <1>7, <1>8, <1>9

LEMMA StepIsWarm ==
    ASSUME Inv, PassInv, WarmInv, Step, Bucketed, "image" \in user.features => UserRoomy
    PROVE  late' \subseteq {k \in {"head"} \X StepTokens : ~V2 /\ k[2] > Max(RowBuckets)}
<1>1. at = "serve" /\ Running /\ ~cfg.pooling /\ DraftsServed
  BY DEF Step, WarmInv, Running
<1>2. /\ cfg.max_num_batched_tokens = GreatestOf(Sizes) /\ cfg.mode = "stock"
      /\ Sizes \in SUBSET Int /\ GreatestOf(Sizes) \in Sizes
      /\ cfg.max_num_seqs \in Nat \ {0} /\ cfg.drafts \in Nat
      /\ HasVision => UserRoomy
  BY <1>1, ServesSizes
<1>3. PICK n \in {t \in StepTokens : t <= cfg.max_num_batched_tokens} :
        \E r \in {r \in StepTokens : r <= Min({n, cfg.max_num_seqs})} :
          \E rows \in Sampled(n, r), image \in {FALSE, HasVision}, prompt \in PromptRows(n),
             drafting \in IF cfg.drafts = 0 THEN {0} ELSE 0..r :
               late' = Graphs(StepKeys(n, rows, image, prompt, drafting)) \ warm
  BY DEF Step
<1>4. PICK r \in {r \in StepTokens : r <= Min({n, cfg.max_num_seqs})} :
        \E rows \in Sampled(n, r), image \in {FALSE, HasVision}, prompt \in PromptRows(n),
           drafting \in IF cfg.drafts = 0 THEN {0} ELSE 0..r :
             late' = Graphs(StepKeys(n, rows, image, prompt, drafting)) \ warm
  BY <1>3
<1>5. PICK rows \in Sampled(n, r), image \in {FALSE, HasVision}, prompt \in PromptRows(n),
           drafting \in IF cfg.drafts = 0 THEN {0} ELSE 0..r :
             late' = Graphs(StepKeys(n, rows, image, prompt, drafting)) \ warm
  BY <1>4
<1>6. n \in Nat \ {0} /\ n <= GreatestOf(Sizes) /\ r \in Nat \ {0}
  <2>1. StepTokens \subseteq Nat \ {0}
    BY WarmupAssumption
  <2> QED
    BY <1>2, <2>1
<1>7. r <= n /\ r <= cfg.max_num_seqs
  <2>1. /\ Min({n, cfg.max_num_seqs}) \in Nat /\ Min({n, cfg.max_num_seqs}) <= n
        /\ Min({n, cfg.max_num_seqs}) <= cfg.max_num_seqs
    BY <1>2, <1>6, MinOfTwo
  <2> QED
    BY <1>2, <1>6, <2>1
<1>8. <<"body", PaddedTokens(n)>> \in warm
      /\ (cfg.drafts > 0 => <<"context", PaddedTokens(n)>> \in warm)
  BY <1>1, <1>6, BodyIsWarm
<1>9. <<"head", PaddedLogits(rows)>> \in warm
  <2>1. rows \in Nat \ {0} /\ \E b \in RowBuckets : rows <= b
    BY <1>1, <1>6, <1>7, SampledFit
  <2>2. {<<"head", PaddedLogits(rows)>>} \subseteq warm
    BY <1>1, <2>1, HeadIsWarm
  <2> QED
    BY <2>2
<1>10. HasVision => EmbedKey(n, image) \in warm
  <2>1. image \in BOOLEAN
    <3>1. HasVision \in BOOLEAN
      BY DEF HasVision
    <3> QED
      BY <1>5, <3>1, Zenon
  <2> QED
    BY <1>1, <1>2, <1>6, <2>1, EmbeddingIsWarm
<1>11. drafting > 0 => <<"draft", CeilPow2(drafting)>> \in warm
  <2> SUFFICES ASSUME drafting > 0 PROVE <<"draft", CeilPow2(drafting)>> \in warm
    OBVIOUS
  <2>1. cfg.drafts > 0 /\ drafting \in Nat \ {0} /\ drafting <= cfg.max_num_seqs
    BY <1>2, <1>6, <1>7
  <2>2. cfg.max_num_seqs <= MaxDraftBatch
    BY <1>1, <2>1 DEF DraftsServed
  <2>3. CeilPow2(drafting) \in DraftBatches(cfg)
    BY <1>2, <2>1, <2>2, BatchesRoundUp DEF DraftBatches
  <2> QED
    BY <1>1, <1>6, <2>1, <2>3, BodyIsWarm
<1>12. prompt > 0 =>
         \/ <<"head", PaddedLogits(prompt)>> \in warm
         \/ <<"head", PaddedLogits(prompt)>>
               \in {k \in {"head"} \X StepTokens : ~V2 /\ k[2] > Max(RowBuckets)}
  <2> SUFFICES ASSUME prompt > 0, <<"head", PaddedLogits(prompt)>> \notin warm
               PROVE  <<"head", PaddedLogits(prompt)>>
                        \in {k \in {"head"} \X StepTokens : ~V2 /\ k[2] > Max(RowBuckets)}
    OBVIOUS
  <2>1. /\ ~V2 /\ prompt > Max(RowBuckets) /\ PaddedLogits(prompt) = prompt
        /\ <<"head", PaddedLogits(prompt)>> \in {"head"} \X StepTokens
    BY <1>1, <1>6, PromptFits
  <2> QED
    BY <2>1
<1>13. late' \subseteq StepKeys(n, rows, image, prompt, drafting) \ warm
  BY <1>2, <1>5 DEF Graphs
<1> DEFINE Excused == {k \in {"head"} \X StepTokens : ~V2 /\ k[2] > Max(RowBuckets)}
<1>14. StepKeys(n, rows, image, prompt, drafting) \subseteq warm \cup Excused
  <2>1. prompt > 0 => <<"head", PaddedLogits(prompt)>> \in warm \cup Excused
    BY <1>12
  <2> HIDE DEF Excused
  <2> QED
    BY <1>8, <1>9, <1>10, <1>11, <2>1 DEF StepKeys
<1> QED
  <2> HIDE DEF Excused
  <2>1. late' \subseteq Excused
    BY <1>13, <1>14
  <2> QED
    BY <2>1 DEF Excused

\* What warm-up and steps go by is settled before them.
LEMMA WorkSame ==
    ASSUME UNCHANGED <<user, cfg>>
    PROVE  /\ DraftsServed' = DraftsServed /\ SizesToWarm' = SizesToWarm
           /\ \A s : SizeKeys(s)' = SizeKeys(s)
           /\ Graphs(HeadKeys \cup MergeKeys)' = Graphs(HeadKeys \cup MergeKeys)
<1>1. DraftsServed' = DraftsServed
  BY DEF DraftsServed, DraftSlots
<1>2. SizesToWarm' = SizesToWarm
  BY DEF SizesToWarm, Bucketed, Sizes
<1>3. \A s, image : EmbedKey(s, image)' = EmbedKey(s, image)
  BY DEF EmbedKey, PaddedTokens, Bucketed, Sizes
<1>4. \A s : EmbedKeys(s)' = EmbedKeys(s) /\ DraftKeys(s)' = DraftKeys(s)
  BY <1>3 DEF EmbedKeys, DraftKeys, HasVision
<1>5. \A s : SizeKeys(s)' = SizeKeys(s)
  BY <1>4 DEF SizeKeys, Graphs
<1>6. MergeKeys' = MergeKeys
  BY <1>2, <1>3 DEF MergeKeys, HasVision, Bucketed, Sizes, V2
<1>7. HeadKeys' = HeadKeys
  <2>1. RowBuckets' = RowBuckets
    BY DEF RowBuckets, Bucketed, Sizes, V2, RowCap
  <2> QED
    BY <2>1 DEF HeadKeys, PaddedLogits, V2, DummyRows
<1> QED
  BY <1>1, <1>2, <1>5, <1>6, <1>7 DEF Graphs

LEMMA WarmInit == Init => WarmInv
BY DEF Init, StartInit, WarmInv, Running

LEMMA WarmNext == Inv /\ WarmInv /\ [Next]_vars => WarmInv'
<1> SUFFICES ASSUME Inv, WarmInv, [Next]_vars PROVE WarmInv'
  OBVIOUS
<1>1. CASE Start /\ UNCHANGED <<todo, warm, late>>
  <2>1. at' \in {"configure", "spawn", "reconfigure", "load", "warm", "refused"} \/ at' = at
    BY <1>1 DEF Start, ImportFront, SetRunner, Configure, Spawn, Reconfigure, StartWorker, Then
  <2>2. at \in {"import", "configure", "spawn", "reconfigure", "load"}
    BY <1>1 DEF Start, ImportFront, SetRunner, Configure, Spawn, Reconfigure, StartWorker
  <2>3. at' \notin {"dummies", "serve"} /\ late' = {}
    BY <1>1, <2>1, <2>2 DEF WarmInv
  <2>4. at' = "warm" => DraftsServed'
    <3>1. at' = "warm" => StartWorker
      BY <1>1, <2>2 DEF Start, ImportFront, SetRunner, Configure, Spawn, Reconfigure, Then
    <3> QED
      BY <3>1 DEF StartWorker, DraftsServed, DraftSlots
  <2> QED
    BY <2>3, <2>4 DEF WarmInv, Running
<1>2. CASE Plan
  <2>1. /\ Running /\ at' = "dummies" /\ cfg' = cfg /\ user' = user /\ late' = {}
        /\ ~cfg.pooling /\ todo' = SizesToWarm
    BY <1>2 DEF Plan, Running, WarmInv
  <2>2. DraftsServed' /\ (SizesToWarm \ todo)' = {}
    BY <2>1 DEF WarmInv, DraftsServed, DraftSlots, SizesToWarm, Bucketed, Sizes
  <2> QED
    BY <2>1, <2>2 DEF WarmInv
<1>3. CASE WarmSize
  <2>1. /\ at = "dummies" /\ at' = at /\ cfg' = cfg /\ user' = user /\ late' = late
        /\ DraftsServed
    BY <1>3 DEF WarmSize, startVars, WarmInv, Running
  <2> DEFINE n == Max(todo)
  <2>2. todo' = todo \ {n} /\ warm' = warm \cup SizeKeys(n)
    BY <1>3 DEF WarmSize, SizeKeys
  <2>3. DraftsServed' /\ SizesToWarm' = SizesToWarm
        /\ \A s : SizeKeys(s)' = SizeKeys(s)
    BY <2>1, WorkSame
  <2> HIDE DEF n
  <2>4. \A s \in (SizesToWarm \ todo)' : SizeKeys(s)' \subseteq warm'
    BY <2>1, <2>2, <2>3 DEF WarmInv
  <2> QED
    BY <2>1, <2>3, <2>4 DEF WarmInv
<1>4. CASE WarmHead
  <2>1. /\ at = "dummies" /\ todo = {} /\ todo' = todo /\ at' = "serve"
        /\ warm' = warm \cup Graphs(HeadKeys \cup MergeKeys) /\ UNCHANGED <<user, cfg>>
        /\ Running
    BY <1>4 DEF WarmHead, Running
  <2> QED
    BY <2>1, WorkSame DEF WarmInv
<1>5. CASE Step \/ UNCHANGED vars
  <2>1. UNCHANGED <<at, user, cfg, todo, warm>> /\ (at # "serve" => late' = late)
    BY <1>5 DEF Step, vars, startVars
  <2> QED
    BY <2>1, WorkSame DEF WarmInv, Running
<1> QED
  BY <1>1, <1>2, <1>3, <1>4, <1>5 DEF Next

(***************************************************************************)
(* For all generative engines that pad to sizes, on either model runner,   *)
(* with and without images, drafts and prompt log-probabilities: no step,  *)
(* of any of the tokens, requests, sampled and drafting rows it may have,  *)
(* reaches a graph that warm-up did not compile, but for the V1 runner's   *)
(* head on prompt rows past the sampled widths.  An engine that takes      *)
(* images needs a size of two rows: none holds the two rows an image step  *)
(* stages if every step has one (embed_input_ids).                         *)
(***************************************************************************)
THEOREM WarmupSuffices ==
    ASSUME \A u \in Users : "image" \in u.features => RoomyFor(u)
    PROVE  Spec => []NoStepCompiles
<1> DEFINE Whole == Inv /\ PassInv /\ WarmInv /\ NoStepCompiles
<1>1. Init => Whole
  <2>1. Init => NoStepCompiles
    BY DEF Init, StartInit, NoStepCompiles
  <2>2. Init => PassInv
    BY DEF Init, StartInit, PassInv, Running
  <2> QED
    BY <2>1, <2>2, InitInv, WarmInit
<1>2. Whole /\ [Next]_vars => Whole'
  <2> SUFFICES ASSUME Whole, [Next]_vars PROVE Whole'
    OBVIOUS
  <2>1. Inv' /\ PassInv' /\ WarmInv'
    BY NextKeeps, PassKeeps, WarmNext
  <2>2. NoStepCompiles'
    <3> SUFFICES ASSUME (at = "serve" /\ Bucketed)'
                 PROVE  (late \subseteq {k \in {"head"} \X StepTokens : ~V2 /\ k[2] > Max(RowBuckets)})'
      BY DEF NoStepCompiles
    <3>1. CASE Step
      <4>1. cfg' = cfg /\ user' = user
        BY <3>1 DEF Step, startVars
      <4>2. Bucketed
        BY <4>1 DEF Bucketed, Sizes
      <4>3. "image" \in user.features => UserRoomy
        BY DEF Inv, TypeInv, UserRoomy
      <4>4. late' \subseteq {k \in {"head"} \X StepTokens : ~V2 /\ k[2] > Max(RowBuckets)}
        BY <3>1, <4>2, <4>3, StepIsWarm
      <4> QED
        BY <4>1, <4>4 DEF V2, RowBuckets, Bucketed, Sizes, RowCap
    <3>2. CASE ~Step
      <4>1. late' = late
        BY <3>2 DEF Next, vars, Plan, WarmSize, WarmHead
      <4>2. CASE at = "serve"
        <5>1. UNCHANGED vars
          BY <3>2, <4>2 DEF Next, Start, ImportFront, SetRunner, Configure, Spawn, Reconfigure,
                            StartWorker, Plan, WarmSize, WarmHead
        <5> QED
          BY <4>2, <5>1 DEF NoStepCompiles, vars, startVars, V2, RowBuckets, Bucketed, Sizes, RowCap
      <4>3. CASE at # "serve"
        BY <4>1, <4>3 DEF WarmInv
      <4> QED
        BY <4>2, <4>3
    <3> QED
      BY <3>1, <3>2
  <2> QED
    BY <2>1, <2>2
<1>3. Whole => NoStepCompiles
  OBVIOUS
<1> QED
  BY <1>1, <1>2, <1>3, PTL DEF Spec

(***************************************************************************)
(* The guard and its registration                                          *)
(***************************************************************************)

\* RegisteredWhileArmed is inductive once the registrations are counted in Nat.
GuardInv ==
    /\ level \in CompileGuardLevels /\ armed \in BOOLEAN /\ callback \in BOOLEAN
    /\ start_callbacks \in Nat /\ lost \in BOOLEAN
    /\ RegisteredWhileArmed

LEMMA GuardStart == GuardInit => GuardInv
<1> SUFFICES ASSUME GuardInit PROVE GuardInv
  OBVIOUS
<1>1. /\ level = "off" /\ ~armed /\ ~callback /\ lost \in BOOLEAN
      /\ armed \in BOOLEAN /\ callback \in BOOLEAN
  BY DEF GuardInit
<1>2. start_callbacks = 0
  BY DEF GuardInit
<1>3. start_callbacks \in Nat /\ start_callbacks <= 1 /\ start_callbacks # 1
  BY <1>2
<1> QED
  BY <1>1, <1>3, Zenon DEF GuardInv, RegisteredWhileArmed, CompileGuardLevels

\* disarm, from whichever method: nothing of the guard is left with Dynamo.
LEMMA DisarmedKeepsGuard ==
    ASSUME GuardInv, Disarmed, lost' = lost PROVE GuardInv'
<1>1. /\ level' = "off" /\ ~armed' /\ ~callback' /\ lost' \in BOOLEAN
      /\ armed' \in BOOLEAN /\ callback' \in BOOLEAN
  BY DEF GuardInv, RegisteredWhileArmed, Disarmed
<1>2. start_callbacks' = 0
  BY DEF GuardInv, RegisteredWhileArmed, Disarmed, Registered
<1>3. start_callbacks' \in Nat /\ start_callbacks' <= 1 /\ start_callbacks' # 1
  BY <1>2
<1> QED
  BY <1>1, <1>3, Zenon DEF GuardInv, RegisteredWhileArmed, CompileGuardLevels

LEMMA GuardKeeps == GuardInv /\ [GuardNext]_guardVars => GuardInv'
<1> SUFFICES ASSUME GuardInv, [GuardNext]_guardVars PROVE GuardInv'
  OBVIOUS
<1> USE DEF GuardInv, RegisteredWhileArmed, guard, CompileGuardLevels
<1>1. CASE \E l \in CompileGuardLevels : Arm(l)
  <2>1. PICK l \in CompileGuardLevels : Arm(l)
    BY <1>1
  <2>2. level' \in CompileGuardLevels /\ level' # "off"
    BY <2>1 DEF Arm
  <2>3. armed' /\ callback' /\ ~lost' /\ start_callbacks' = 1
        /\ armed' \in BOOLEAN /\ callback' \in BOOLEAN /\ lost' \in BOOLEAN
    <3>1. CASE Registered
      <4>1. start_callbacks = 1
        BY <3>1 DEF Registered
      <4> QED
        BY <2>1, <3>1, <4>1, Zenon DEF Arm, Registered
    <3>2. CASE ~Registered
      <4>1. start_callbacks = 0
        BY <3>2 DEF Registered
      <4>2. start_callbacks + 1 = 1
        BY <4>1
      <4> QED
        BY <2>1, <3>2, <4>2, Zenon DEF Arm
    <3> QED
      BY <3>1, <3>2
  <2>4. start_callbacks' \in Nat /\ start_callbacks' <= 1
    BY <2>3
  <2> QED
    BY <2>2, <2>3, <2>4, Zenon
<1>2. CASE Disarm
  BY <1>2, DisarmedKeepsGuard DEF Disarm
<1>3. CASE DynamoReset
  BY <1>3 DEF DynamoReset
<1>4. CASE \E t \in Threads : DisarmLater(t) \/ Reset(t)
  BY <1>4, DisarmedKeepsGuard DEF DisarmLater, Reset
<1>5. CASE UNCHANGED <<guard, lost>>
  BY <1>5
<1>6. CASE (\E k \in Watchable, label \in Labels : Watch(k, label)) \/ ClearReported
  BY <1>6, <1>5 DEF Watch, ClearReported
<1>7. ASSUME NEW t \in Threads,
             \/ ArmOff(t) \/ ClearRegistry(t) \/ EnterAllowed(t) \/ LeaveAllowed(t)
             \/ \E f \in Traced, again \in BOOLEAN : BeginCompile(t, f, again)
             \/ Classified(t) \/ Report(t) \/ EndCompile(t)
      PROVE  GuardInv'
  BY <1>7, <1>5 DEF ArmOff, ClearRegistry, EnterAllowed, LeaveAllowed, BeginCompile,
                    Classified, Report, EndCompile
<1>8. CASE UNCHANGED guardVars
  BY <1>8, <1>5 DEF guardVars
<1> QED
  BY <1>1, <1>2, <1>3, <1>4, <1>6, <1>7, <1>8 DEF GuardNext

\* Whoever arms, disarms and resets, in any order and with torch._dynamo.reset() in
\* between: an armed guard reports at some level and is registered exactly once unless
\* Dynamo dropped it since the last arm; a guard that is off is not registered.
THEOREM GuardStaysRegistered == GuardSpec => []RegisteredWhileArmed
<1>1. GuardInv => RegisteredWhileArmed
  BY DEF GuardInv
<1> QED
  BY GuardStart, GuardKeeps, <1>1, PTL DEF GuardSpec

(***************************************************************************)
(* Suppression                                                             *)
(***************************************************************************)

\* The outermost open block restores 0, whatever a reset did inside.
BlockInv ==
    /\ depth \in [Threads -> Nat]
    /\ saved \in [Threads -> Seq(Nat)]
    /\ \A t \in Threads : IF saved[t] = <<>> THEN depth[t] = 0 ELSE saved[t][1] = 0

LEMMA EnterKeepsBlocks ==
    ASSUME BlockInv, NEW t \in Threads, EnterAllowed(t) PROVE BlockInv'
<1> USE DEF BlockInv, EnterAllowed
<1>1. saved'[t] # <<>> /\ saved'[t][1] = 0
  BY DEF BlockInv, EnterAllowed
<1> QED
  BY <1>1

LEMMA LeaveKeepsBlocks ==
    ASSUME BlockInv, NEW t \in Threads, LeaveAllowed(t) PROVE BlockInv'
<1> DEFINE n == Len(saved[t])
<1> USE DEF BlockInv, LeaveAllowed, RestoredDepth
<1>1. n \in Nat /\ n > 0 /\ saved[t][n] \in Nat
  OBVIOUS
<1>2. depth' \in [Threads -> Nat] /\ saved' \in [Threads -> Seq(Nat)]
  BY <1>1
<1>3. CASE n = 1
  <2>1. saved'[t] = <<>> /\ depth'[t] = 0
    BY <1>3
  <2> QED
    BY <1>2, <2>1
<1>4. CASE n > 1
  <2>1. saved'[t] = SubSeq(saved[t], 1, n - 1) /\ saved[t] # <<>>
    BY <1>4
  <2>2. /\ Len(SubSeq(saved[t], 1, n - 1)) = n - 1
        /\ SubSeq(saved[t], 1, n - 1)[1] = saved[t][1]
    BY <1>1, <1>4
  <2>3. Len(saved'[t]) # Len(<<>>)
    BY <1>1, <1>4, <2>1, <2>2
  <2>4. saved'[t] # <<>> /\ saved'[t][1] = saved[t][1]
    BY <2>1, <2>2, <2>3, Zenon
  <2> QED
    BY <1>2, <2>1, <2>4
<1> QED
  BY <1>1, <1>3, <1>4

LEMMA BlockStep == BlockInv /\ [GuardNext]_guardVars => BlockInv'
<1> SUFFICES ASSUME BlockInv, [GuardNext]_guardVars PROVE BlockInv'
  OBVIOUS
<1>1. CASE \E t \in Threads : EnterAllowed(t)
  BY <1>1, EnterKeepsBlocks
<1>2. CASE \E t \in Threads : LeaveAllowed(t)
  BY <1>2, LeaveKeepsBlocks
<1>3. CASE \E t \in Threads : ClearRegistry(t)
  BY <1>3 DEF BlockInv, ClearRegistry
<1>4. CASE UNCHANGED blocks
  BY <1>4 DEF BlockInv, blocks
<1>5. CASE \/ \E k \in Watchable, label \in Labels : Watch(k, label)
           \/ \E l \in CompileGuardLevels : Arm(l)
           \/ Disarm \/ ClearReported \/ DynamoReset
  BY <1>5, <1>4 DEF Watch, Arm, Disarm, ClearReported, DynamoReset
<1>6. ASSUME NEW t \in Threads,
             \/ ArmOff(t) \/ DisarmLater(t) \/ Reset(t)
             \/ \E f \in Traced, again \in BOOLEAN : BeginCompile(t, f, again)
             \/ Classified(t) \/ Report(t) \/ EndCompile(t)
      PROVE  BlockInv'
  BY <1>6, <1>4 DEF ArmOff, DisarmLater, Reset, BeginCompile, Classified, Report, EndCompile
<1>7. CASE UNCHANGED guardVars
  BY <1>7, <1>4 DEF guardVars
<1> QED
  BY <1>1, <1>2, <1>3, <1>5, <1>6, <1>7 DEF GuardNext

\* However deeply allow_compile blocks nest and wherever inside them the guard is reset,
\* a thread that has left them all is not suppressed, nor below zero.
THEOREM SuppressionEndsWithItsBlocks == GuardSpec => []SuppressionEnds
<1>1. GuardInit => BlockInv
  BY DEF GuardInit, BlockInv
<1>2. BlockInv => SuppressionEnds
  BY DEF BlockInv, SuppressionEnds
<1> QED
  BY <1>1, BlockStep, <1>2, PTL DEF GuardSpec
(***************************************************************************)
(* Fatal compiles                                                          *)
(***************************************************************************)

\* The two registries name the same kernels, by labels that are not None.
RegistryInv ==
    /\ DOMAIN watched \subseteq Watchable
    /\ \A k \in DOMAIN watched :
          /\ watched[k] \in Labels
          /\ NameOf[k] \in DOMAIN watched_names
    /\ \A n \in DOMAIN watched_names :
          watched_names[n] \in Labels /\ \E k \in Watchable : n = NameOf[k]

LEMMA RegistryInit == GuardInit => RegistryInv
  BY DEF GuardInit, RegistryInv, EmptyDict

LEMMA WatchKeepsRegistry ==
    ASSUME RegistryInv, NEW k \in Watchable, NEW label \in Labels, Watch(k, label)
    PROVE  RegistryInv'
  BY DEF RegistryInv, Watch, SetDefault

LEMMA RegistryStep == RegistryInv /\ [GuardNext]_guardVars => RegistryInv'
<1> SUFFICES ASSUME RegistryInv, [GuardNext]_guardVars PROVE RegistryInv'
  OBVIOUS
<1>1. CASE \E k \in Watchable, label \in Labels : Watch(k, label)
  BY <1>1, WatchKeepsRegistry
<1>2. CASE \E t \in Threads : ClearRegistry(t)
  BY <1>2 DEF RegistryInv, ClearRegistry, EmptyDict
<1>3. CASE UNCHANGED registry
  BY <1>3 DEF RegistryInv, registry
<1>4. CASE \/ \E l \in CompileGuardLevels : Arm(l)
           \/ Disarm \/ ClearReported \/ DynamoReset
  BY <1>4, <1>3 DEF Arm, Disarm, ClearReported, DynamoReset
<1>5. ASSUME NEW t \in Threads,
             \/ ArmOff(t) \/ DisarmLater(t) \/ Reset(t) \/ EnterAllowed(t) \/ LeaveAllowed(t)
             \/ \E f \in Traced, again \in BOOLEAN : BeginCompile(t, f, again)
             \/ Classified(t) \/ Report(t) \/ EndCompile(t)
      PROVE  RegistryInv'
  BY <1>5, <1>3 DEF ArmOff, DisarmLater, Reset, EnterAllowed, LeaveAllowed, BeginCompile,
                    Classified, Report, EndCompile
<1>6. CASE UNCHANGED guardVars
  BY <1>6, <1>3 DEF guardVars
<1> QED
  BY <1>1, <1>2, <1>4, <1>5, <1>6 DEF GuardNext

\* A kernel in the registry is told, and so is every resume frame of it.
LEMMA WatchedFramesAreTold ==
    ASSUME RegistryInv, NEW f, OfWatched(f)
    PROVE  Classify(f).kind = "watched"
<1>1. /\ f \in Frames /\ f.kernel \in DOMAIN watched /\ f.nest \in 0..MaxNest
      /\ f = [kernel |-> f.kernel, nest |-> f.nest] /\ f.kernel \in Kernels
  BY DEF OfWatched, Frames
<1>2. f # EagerTrampoline /\ f # NoCode
  BY <1>1, GuardAssumption
<1>3. Label(f) \in Labels
  BY <1>1, GuardAssumption DEF Label, ResumeLabel, RegistryInv
<1> QED
  BY <1>2, <1>3, GuardAssumption DEF Classify

\* A due compile is one the guard is about to raise for.
DueInv ==
    /\ pc \in [Threads -> Places]
    /\ DOMAIN found = Threads
    /\ due \subseteq Threads
    /\ \A t \in due :
          /\ level = "error" /\ OfWatched(traced[t].code)
          /\ pc[t] \in {"started", "classified", "raised"}
          /\ pc[t] = "classified" => found[t].kind = "watched"

TracedInv == DOMAIN traced = Threads

LEMMA DueInit == GuardInit => DueInv
  BY DEF GuardInit, DueInv, Places

LEMMA BeginKeepsDue ==
    ASSUME DueInv, TracedInv, NEW t \in Threads, NEW f \in Traced, NEW again \in BOOLEAN,
           BeginCompile(t, f, again)
    PROVE  DueInv'
<1>1. level' = level /\ watched' = watched /\ found' = found /\ t \notin due
      /\ traced'[t].code = f /\ \A u \in Threads \ {t} : traced'[u] = traced[u] /\ pc'[u] = pc[u]
  BY DEF BeginCompile, DueInv, TracedInv, guard, registry
<1>2. pc' \in [Threads -> Places] /\ due' \subseteq Threads
  BY DEF BeginCompile, DueInv, Places
<1>3. ASSUME t \in due'
      PROVE  level = "error" /\ OfWatched(f) /\ pc'[t] = "started"
  BY <1>1, <1>3 DEF BeginCompile, DueInv
<1>4. \A u \in due' : u # t => u \in due
  BY DEF BeginCompile
<1> QED
  BY <1>1, <1>2, <1>3, <1>4 DEF DueInv, OfWatched

LEMMA ClassifiedKeepsDue ==
    ASSUME RegistryInv, DueInv, NEW t \in Threads, Classified(t)
    PROVE  DueInv'
<1>1. level' = level /\ watched' = watched /\ traced' = traced /\ due' = due
  BY DEF Classified, guard, registry
<1>2. ASSUME t \in due
      PROVE  pc'[t] = "classified" /\ found'[t].kind = "watched"
  <2>1. Classify(traced[t].code).kind = "watched"
    BY <1>2, WatchedFramesAreTold DEF DueInv
  <2> QED
    BY <1>2, <2>1 DEF Classified, DueInv
<1>3. \A u \in Threads \ {t} : pc'[u] = pc[u] /\ found'[u] = found[u]
  BY DEF Classified, DueInv
<1>4. pc' \in [Threads -> Places] /\ DOMAIN found' = Threads
  BY DEF Classified, DueInv, Places
<1> QED
  BY <1>1, <1>2, <1>3, <1>4 DEF DueInv, OfWatched

LEMMA ReportKeepsDue ==
    ASSUME DueInv, NEW t \in Threads, Report(t)
    PROVE  DueInv'
<1>1. level' = level /\ watched' = watched /\ traced' = traced /\ due' = due /\ found' = found
  BY DEF Report, guard, registry
<1>2. ASSUME t \in due PROVE pc'[t] = "raised"
  BY <1>2 DEF Report, Fatal, DueInv
<1>3. pc' \in [Threads -> Places] /\ \A u \in Threads \ {t} : pc'[u] = pc[u]
  BY DEF Report, DueInv, Places
<1> QED
  BY <1>1, <1>2, <1>3 DEF DueInv, OfWatched

LEMMA EndKeepsDue ==
    ASSUME DueInv, TracedInv, NEW t \in Threads, EndCompile(t)
    PROVE  DueInv'
<1>1. level' = level /\ watched' = watched /\ due' = due \ {t}
  BY DEF EndCompile, guard, registry
<1>2. pc' \in [Threads -> Places] /\ DOMAIN found' = Threads
  BY DEF EndCompile, DueInv, Places
<1>3. \A u \in Threads \ {t} :
          pc'[u] = pc[u] /\ found'[u] = found[u] /\ traced'[u] = traced[u]
  BY DEF EndCompile, DueInv, TracedInv
<1> QED
  BY <1>1, <1>2, <1>3 DEF DueInv, OfWatched

\* Every change of the guard's level, and a cleared registry, leaves nothing due.
LEMMA NothingDue ==
    ASSUME DueInv, due' = {}, found' = found, \/ pc' = pc
                                   \/ \E t \in Threads, s \in Places : pc' = [pc EXCEPT ![t] = s]
    PROVE  DueInv'
  BY DEF DueInv

\* Threads that compile nothing move; the registry may gain a kernel.
LEMMA OthersKeepDue ==
    ASSUME DueInv, UNCHANGED <<level, traced, found, due>>,
           DOMAIN watched \subseteq DOMAIN watched',
           \/ pc' = pc
           \/ \E t \in Threads, s \in Places : pc[t] \in {"idle", "clear", "disarm"} /\ pc' = [pc EXCEPT ![t] = s]
    PROVE  DueInv'
  BY DEF DueInv, OfWatched

LEMMA DueStep ==
    RegistryInv /\ DueInv /\ TracedInv /\ [GuardNext]_guardVars => DueInv'
<1> SUFFICES ASSUME RegistryInv, DueInv, TracedInv, [GuardNext]_guardVars PROVE DueInv'
  OBVIOUS
<1>1. CASE \E k \in Watchable, label \in Labels : Watch(k, label)
  BY <1>1, OthersKeepDue DEF Watch, SetDefault, guard
<1>2. CASE \/ \E l \in CompileGuardLevels : Arm(l)
           \/ Disarm
  BY <1>2, NothingDue DEF Arm, Disarm, Disarmed
<1>3. CASE ClearReported \/ DynamoReset
  BY <1>3, OthersKeepDue DEF ClearReported, DynamoReset, guard, registry
<1>4. ASSUME NEW t \in Threads, DisarmLater(t) \/ Reset(t) \/ ClearRegistry(t)
      PROVE  DueInv'
  BY <1>4, NothingDue DEF DisarmLater, Reset, ClearRegistry, Disarmed, Places
<1>5. ASSUME NEW t \in Threads, ArmOff(t) \/ EnterAllowed(t) \/ LeaveAllowed(t)
      PROVE  DueInv'
  BY <1>5, OthersKeepDue DEF ArmOff, EnterAllowed, LeaveAllowed, guard, registry, Places
<1>6. ASSUME NEW t \in Threads, NEW f \in Traced, NEW again \in BOOLEAN,
             BeginCompile(t, f, again)
      PROVE  DueInv'
  BY <1>6, BeginKeepsDue
<1>7. ASSUME NEW t \in Threads, Classified(t) \/ Report(t) \/ EndCompile(t)
      PROVE  DueInv'
  BY <1>7, ClassifiedKeepsDue, ReportKeepsDue, EndKeepsDue
<1>8. CASE UNCHANGED guardVars
  BY <1>8, OthersKeepDue DEF guardVars, guard, registry
<1> QED
  BY <1>1, <1>2, <1>3, <1>4, <1>5, <1>6, <1>7, <1>8 DEF GuardNext

LEMMA TracedStep == TracedInv /\ [GuardNext]_guardVars => TracedInv'
<1> SUFFICES ASSUME TracedInv, [GuardNext]_guardVars PROVE TracedInv'
  OBVIOUS
<1> USE DEF TracedInv
<1>1. CASE traced' = traced
  BY <1>1
<1>2. ASSUME NEW t \in Threads,
             EndCompile(t) \/ \E f \in Traced, again \in BOOLEAN : BeginCompile(t, f, again)
      PROVE  TracedInv'
  BY <1>2 DEF EndCompile, BeginCompile
<1>3. CASE \/ \E k \in Watchable, label \in Labels : Watch(k, label)
           \/ \E l \in CompileGuardLevels : Arm(l)
           \/ Disarm \/ ClearReported \/ DynamoReset
           \/ UNCHANGED guardVars
  BY <1>3, <1>1 DEF Watch, Arm, Disarm, ClearReported, DynamoReset, guardVars
<1>4. ASSUME NEW t \in Threads,
             \/ ArmOff(t) \/ DisarmLater(t) \/ Reset(t) \/ ClearRegistry(t)
             \/ EnterAllowed(t) \/ LeaveAllowed(t) \/ Classified(t) \/ Report(t)
      PROVE  traced' = traced
  BY <1>4 DEF ArmOff, DisarmLater, Reset, ClearRegistry, EnterAllowed, LeaveAllowed,
              Classified, Report
<1> QED
  BY <1>1, <1>2, <1>3, <1>4 DEF GuardNext

\* At "error", whatever other threads do, no compile of a watched kernel, or of a resume
\* frame at any nesting, that begins alone and unsuppressed reaches Inductor while the
\* guard and the registry stay as they were.
THEOREM FatalCompilesNeverGoThrough == GuardSpec => []FatalCompileStops
<1>1. DueInv => FatalCompileStops
  BY DEF DueInv, FatalCompileStops
<1>2. GuardInit => TracedInv
  BY DEF GuardInit, TracedInv
<1> QED
  BY RegistryInit, RegistryStep, DueInit, DueStep, <1>1, <1>2, TracedStep, PTL DEF GuardSpec

(***************************************************************************)
(* What raises                                                             *)
(***************************************************************************)

Blamed(f) == FrameOfWatchable(f) \/ NamesakeResumed(f)

RaiseInv ==
    /\ pc \in [Threads -> Places]
    /\ traced \in [Threads -> [code : Traced, again : BOOLEAN]] /\ DOMAIN found = Threads
    /\ \A t \in Threads :
          /\ pc[t] = "classified" /\ found[t].kind = "watched"
                => Blamed(traced[t].code)
          /\ pc[t] = "raised" => Blamed(traced[t].code)

LEMMA ToldFramesAreBlamed ==
    ASSUME RegistryInv, NEW f \in Traced, Classify(f).kind = "watched"
    PROVE  Blamed(f)
<1>1. f # EagerTrampoline /\ f # NoCode /\ Label(f) # Nothing
  BY GuardAssumption DEF Classify
<1>2. f \in Frames /\ f.kernel \in Kernels
  BY <1>1 DEF Traced, Frames
<1>3. CASE f.nest = 0 /\ f.kernel \in DOMAIN watched
  BY <1>2, <1>3 DEF RegistryInv, FrameOfWatchable, Blamed
<1>4. CASE ~(f.nest = 0 /\ f.kernel \in DOMAIN watched)
  <2>1. f.nest > 0 /\ NameOf[f.kernel] \in DOMAIN watched_names
    BY <1>1, <1>4 DEF Label, ResumeLabel
  <2> QED
    BY <1>2, <2>1 DEF RegistryInv, NamesakeResumed, Blamed
<1> QED
  BY <1>3, <1>4

\* A step of another thread, or to a place where nothing is raised.
LEMMA OthersKeepRaise ==
    ASSUME RaiseInv, UNCHANGED <<traced, found>>,
           \/ pc' = pc
           \/ \E t \in Threads, s \in Places \ {"classified", "raised"} :
                 pc' = [pc EXCEPT ![t] = s]
    PROVE  RaiseInv'
  BY DEF RaiseInv

LEMMA CompileKeepsRaise ==
    ASSUME RegistryInv, RaiseInv, NEW t \in Threads,
           \/ \E f \in Traced, again \in BOOLEAN : BeginCompile(t, f, again)
           \/ Classified(t) \/ Report(t) \/ EndCompile(t)
    PROVE  RaiseInv'
<1>1. ASSUME NEW f \in Traced, NEW again \in BOOLEAN, BeginCompile(t, f, again)
      PROVE  RaiseInv'
  BY <1>1 DEF BeginCompile, RaiseInv, Places
<1>2. CASE Classified(t)
  <2>1. found'[t].kind = "watched" => Blamed(traced[t].code)
    <3>1. traced[t].code \in Traced
      BY DEF RaiseInv
    <3> QED
      BY <1>2, <3>1, ToldFramesAreBlamed DEF Classified, RaiseInv
  <2>2. /\ traced' = traced /\ DOMAIN found' = Threads
        /\ pc' \in [Threads -> Places] /\ pc'[t] # "raised"
        /\ \A u \in Threads \ {t} : pc'[u] = pc[u] /\ found'[u] = found[u]
    BY <1>2 DEF Classified, RaiseInv, Places
  <2> QED
    BY <2>1, <2>2 DEF RaiseInv
<1>3. CASE Report(t)
  <2>1. /\ traced' = traced /\ found' = found /\ pc' \in [Threads -> Places]
        /\ \A u \in Threads \ {t} : pc'[u] = pc[u]
        /\ pc'[t] # "classified"
    BY <1>3 DEF Report, RaiseInv, Places
  <2>2. pc'[t] = "raised" => Blamed(traced[t].code)
    BY <1>3 DEF Report, RaiseInv, Fatal
  <2> QED
    BY <2>1, <2>2 DEF RaiseInv
<1>4. CASE EndCompile(t)
  <2>1. /\ DOMAIN found' = Threads /\ pc' \in [Threads -> Places] /\ pc'[t] = "idle"
        /\ \A u \in Threads \ {t} :
              pc'[u] = pc[u] /\ found'[u] = found[u] /\ traced'[u] = traced[u]
    BY <1>4 DEF EndCompile, RaiseInv, Places
  <2>2. traced' \in [Threads -> [code : Traced, again : BOOLEAN]]
    BY <1>4 DEF EndCompile, RaiseInv, NoCompile, Traced
  <2> QED
    BY <2>1, <2>2 DEF RaiseInv
<1> QED
  BY <1>1, <1>2, <1>3, <1>4

LEMMA RaiseStep == RegistryInv /\ RaiseInv /\ [GuardNext]_guardVars => RaiseInv'
<1> SUFFICES ASSUME RegistryInv, RaiseInv, [GuardNext]_guardVars PROVE RaiseInv'
  OBVIOUS
<1>1. CASE \/ \E k \in Watchable, label \in Labels : Watch(k, label)
           \/ \E l \in CompileGuardLevels : Arm(l)
           \/ Disarm \/ ClearReported \/ DynamoReset
           \/ UNCHANGED guardVars
  BY <1>1, OthersKeepRaise DEF Watch, Arm, Disarm, ClearReported, DynamoReset, guardVars
<1>2. ASSUME NEW t \in Threads,
             \/ ArmOff(t) \/ DisarmLater(t) \/ Reset(t) \/ ClearRegistry(t)
             \/ EnterAllowed(t) \/ LeaveAllowed(t)
      PROVE  RaiseInv'
  BY <1>2, OthersKeepRaise DEF ArmOff, DisarmLater, Reset, ClearRegistry, EnterAllowed,
                               LeaveAllowed, Places
<1>3. ASSUME NEW t \in Threads,
             \/ \E f \in Traced, again \in BOOLEAN : BeginCompile(t, f, again)
             \/ Classified(t) \/ Report(t) \/ EndCompile(t)
      PROVE  RaiseInv'
  BY <1>3, CompileKeepsRaise
<1> QED
  BY <1>1, <1>2, <1>3 DEF GuardNext

\* Only a frame of a kernel some caller registered raises, or a resume frame of one with
\* its file and name, whatever is watched, cleared or re-armed in the meantime.
THEOREM OnlyWatchedRaise == GuardSpec => []OnlyWatchedFramesRaise
<1>1. GuardInit => RaiseInv
  BY DEF GuardInit, RaiseInv, Places, NoCompile, Traced
<1>2. RaiseInv => OnlyWatchedFramesRaise
  BY DEF RaiseInv, OnlyWatchedFramesRaise, Blamed
<1>3. RegistryInv /\ RaiseInv /\ [GuardNext]_guardVars => RaiseInv'
  BY RaiseStep
<1> QED
  BY RegistryInit, RegistryStep, <1>1, <1>2, <1>3, PTL DEF GuardSpec

=============================================================================
